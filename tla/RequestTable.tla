---------------------------- MODULE RequestTable ----------------------------
(***************************************************************************)
(* The asynchronous functions of TAPI, one record each: what the function  *)
(* requires, which blocks it allocates and in which order, which of them   *)
(* its setup function frees while the message is built, which of them it   *)
(* frees itself when gdbus cannot send, which of them its destroy function *)
(* frees in the end, and what its reply function tells the application.    *)
(* Module Requests runs them.                                              *)
(*                                                                         *)
(* A setup function that only appends arguments frees Nothing, as does     *)
(* NULL; a reply function that is NULL tells nothing.                      *)
(***************************************************************************)

Nothing == {}

\* What a reply function tells, by the kind of reply: a D-Bus error, a message that
\* fails the function's own tests, one that passes them, and one that passes them
\* when malloc fails.  "unset" is a status nobody assigned, "garbage" the status OK
\* with a result nobody assigned, "silent" no call of the application at all.
Tells(error, malformed, good, nomem) ==
    [error |-> error, malformed |-> malformed, good |-> good, nomem |-> nomem]

StatusOnly == Tells({"ERROR"}, {"OK"}, {"OK"}, {"OK"})
Decoded    == Tells({"ERROR"}, {"ERROR"}, {"OK"}, {"OK"})
NoReply    == Tells({"silent"}, {"silent"}, {"silent"}, {"silent"})

\* A reply function that allocates its result before it looks at the reply, and just
\* returns when it cannot.
AllocatesFirst(good) ==
    Tells({"ERROR", "silent"}, {"ERROR", "silent"}, good, {"silent"})

HandlerFirst == <<"handler", "ar">>
ResultFirst  == <<"ar", "handler">>
ParamFirst   == <<"param", "ar", "handler">>
ParamLast    == <<"handler", "ar", "param">>
ParamOnly    == <<"param">>

\* "event": the function takes an event_id and a callback.
Request(interface, alloc, setup, failed, destroy, reply) ==
    [interface |-> interface, ready |-> FALSE, event |-> TRUE, alloc |-> alloc,
     setup |-> setup, failed |-> failed, destroy |-> destroy, reply |-> reply]

NoEvent(request)   == [request EXCEPT !.event = FALSE]
WhenReady(request) == [request EXCEPT !.ready = TRUE]

-----------------------------------------------------------------------------
(* tapi_utils.c *)

handler_free      == {"handler", "ar"}
property_set_done == StatusOnly

Plain(interface, alloc, reply) ==
    Request(interface, alloc, Nothing, handler_free, handler_free, reply)

-----------------------------------------------------------------------------
(* tapi_manager.c *)

no_operate_callback            == NoReply
modem_list_query_done          == Decoded
\* The reply is read into an array where a pointer to one is wanted.
modem_activity_info_query_done == AllocatesFirst({"garbage"})
enable_or_disable_modem_done   == StatusOnly
enable_modem_abnormal_event_done == Decoded
modem_status_query_done        == Decoded
oem_ril_request_raw_cb         == Decoded
oem_ril_request_strings_cb     == Decoded

enable_modem_abnormal_event_param_append == {"param"}
oem_ril_request_raw_param_append         == {"param"}
oem_ril_request_strings_param_append     == {"param"}

Command(interface) ==
    NoEvent(Request(interface, <<>>, Nothing, Nothing, Nothing, no_operate_callback))

tapi_query_modem_list  == Plain("Manager", HandlerFirst, modem_list_query_done)
tapi_set_pref_net_mode == WhenReady(Plain("Radio", HandlerFirst, property_set_done))
tapi_send_modem_power  == WhenReady(Command("Modem"))
tapi_set_radio_power   == WhenReady(Plain("Modem", HandlerFirst, property_set_done))
tapi_get_modem_activity_info ==
    Plain("Modem", HandlerFirst, modem_activity_info_query_done)
tapi_invoke_oem_ril_request_raw ==
    Request("Modem", ParamLast, oem_ril_request_raw_param_append,
            handler_free \cup {"param"}, handler_free, oem_ril_request_raw_cb)
tapi_invoke_oem_ril_request_strings ==
    Request("Modem", ParamLast, oem_ril_request_strings_param_append,
            handler_free \cup {"param"}, handler_free, oem_ril_request_strings_cb)
tapi_enable_modem == Plain("Modem", HandlerFirst, enable_or_disable_modem_done)
tapi_enable_modem_abnormal_event ==
    Request("Modem", ParamLast, enable_modem_abnormal_event_param_append,
            handler_free \cup {"param"}, handler_free, enable_modem_abnormal_event_done)
tapi_get_modem_status  == Plain("Modem", HandlerFirst, modem_status_query_done)
tapi_handle_command    == NoEvent(Plain("Modem", HandlerFirst, no_operate_callback))
tapi_set_fast_dormancy == WhenReady(Plain("Radio", HandlerFirst, property_set_done))

-----------------------------------------------------------------------------
(* tapi_network.c *)

\* Variant without the test of the D-Bus error.
register_cb_blind            == Tells({"OK"}, {"OK"}, {"OK"}, {"OK"})
network_register_cb          == StatusOnly
cell_list_request_complete   == Tells({"silent"}, {"ERROR"}, {"OK"}, {"OK"})
registration_info_query_done == AllocatesFirst({"OK"})
operator_scan_complete       == Tells({"silent"}, {"ERROR"}, {"OK"}, {"OK"})

tapi_network_select_auto   == Plain("Netreg", HandlerFirst, network_register_cb)
tapi_network_select_manual == Plain("Netreg", HandlerFirst, network_register_cb)
tapi_network_scan          == Plain("Netreg", HandlerFirst, operator_scan_complete)
tapi_network_get_serving_cellinfos ==
    Plain("Netmon", HandlerFirst, cell_list_request_complete)
tapi_network_get_neighbouring_cellinfos ==
    Plain("Netmon", HandlerFirst, cell_list_request_complete)
tapi_network_get_registration_info ==
    Plain("Netreg", HandlerFirst, registration_info_query_done)
tapi_network_set_cell_info_list_rate == Plain("Netmon", HandlerFirst, NoReply)

-----------------------------------------------------------------------------
(* tapi_call.c *)

\* An argument that is no object path leaves the status as it was.
dial_call_callback       == Tells({"ERROR"}, {"ERROR", "unset"}, {"OK"}, {"OK"})
play_dtmf_callback       == StatusOnly
merge_call_complete      == Decoded
call_list_query_complete == Decoded

\* Variant that does not free what it read.
call_param_kept   == Nothing
call_param_append == {"param"}
dtmf_param_append == {"param"}

manage_call_proxy_method == Command("Call")
\* Its callers allocate the parameters first and free them on any failure.
manager_conference ==
    NoEvent(Request("Call", ParamOnly, Nothing, {"param"}, {"param"}, no_operate_callback))
call_play_dtmf ==
    Request("Call", ParamFirst, dtmf_param_append, handler_free \cup {"param"},
            handler_free, play_dtmf_callback)

tapi_call_dial ==
    Request("Call", ParamFirst, call_param_append, handler_free \cup {"param"},
            handler_free, dial_call_callback)
tapi_call_release_and_swap     == manage_call_proxy_method
tapi_call_release_and_answer   == manage_call_proxy_method
tapi_call_hold_and_answer      == manage_call_proxy_method
tapi_call_hold_call            == manage_call_proxy_method
tapi_call_unhold_call          == manage_call_proxy_method
tapi_call_transfer             == manage_call_proxy_method
tapi_call_hangup_all_calls     == manage_call_proxy_method
tapi_call_hangup_multiparty    == manage_call_proxy_method
tapi_call_get_all_calls        == Plain("Call", ResultFirst, call_list_query_complete)
tapi_call_merge_call           == Plain("Call", ResultFirst, merge_call_complete)
tapi_call_separate_call        == Plain("Call", ResultFirst, merge_call_complete)
tapi_call_send_tones           == Command("Call")
tapi_call_dial_conferece       == manager_conference
tapi_call_invite_participants  == manager_conference
tapi_call_answer_by_id         == Command("Call")
tapi_call_hangup_by_id         == Command("Call")
tapi_call_deflect_by_id        == manager_conference
tapi_call_start_dtmf           == call_play_dtmf
tapi_call_stop_dtmf            == call_play_dtmf
tapi_call_set_default_slot     == WhenReady(Command("Manager"))

-----------------------------------------------------------------------------
(* tapi_data.c *)

apn_list_loaded                 == Decoded
apn_list_changed                == StatusOnly
data_connection_list_query_done == Decoded

tapi_data_load_apn_contexts   == Plain("Data", HandlerFirst, apn_list_loaded)
tapi_data_add_apn_context     == Plain("Data", HandlerFirst, apn_list_changed)
tapi_data_remove_apn_context  == Plain("Data", HandlerFirst, apn_list_changed)
tapi_data_edit_apn_context    == Plain("Data", HandlerFirst, apn_list_changed)
tapi_data_reset_apn_contexts  == Plain("Data", HandlerFirst, apn_list_changed)
tapi_data_request_network     == Command("Data")
tapi_data_release_network     == Command("Data")
tapi_data_get_data_connection_list ==
    Plain("Data", HandlerFirst, data_connection_list_query_done)
tapi_data_set_preferred_apn   == WhenReady(Command("Data"))
tapi_data_set_default_slot    == WhenReady(Command("Manager"))
tapi_data_set_data_allow      == WhenReady(Plain("Data", HandlerFirst, property_set_done))

-----------------------------------------------------------------------------
(* tapi_sim.c *)

sim_event_data_free      == {"handler", "ar", "param"}
sim_method_call_complete == StatusOnly
open_logical_channel_cb  == Decoded
transmit_apdu_cb         == Decoded

open_channel_param_append                == {"param"}
\* Variant that frees the user data with the parameters in it.
transmit_apdu_frees_result               == {"param", "ar"}
transmit_apdu_param_append               == {"param"}
transmit_apdu_basic_channel_param_append == {"param"}

PinRequest ==
    Request("Sim", ParamFirst, Nothing, sim_event_data_free, sim_event_data_free,
            sim_method_call_complete)
ChannelRequest(setup, reply) ==
    Request("Sim", ParamFirst, setup, handler_free \cup {"param"}, handler_free, reply)

tapi_sim_change_pin == PinRequest
tapi_sim_enter_pin  == PinRequest
tapi_sim_reset_pin  == PinRequest
tapi_sim_lock_pin   == PinRequest
tapi_sim_unlock_pin == PinRequest
tapi_sim_open_logical_channel ==
    ChannelRequest(open_channel_param_append, open_logical_channel_cb)
tapi_sim_close_logical_channel == Plain("Sim", ResultFirst, sim_method_call_complete)
tapi_sim_transmit_apdu_logical_channel ==
    ChannelRequest(transmit_apdu_param_append, transmit_apdu_cb)
tapi_sim_transmit_apdu_basic_channel ==
    ChannelRequest(transmit_apdu_basic_channel_param_append, transmit_apdu_cb)
tapi_sim_set_uicc_enablement == WhenReady(Plain("Sim", HandlerFirst, property_set_done))

-----------------------------------------------------------------------------
(* tapi_sms.c and tapi_cbs.c *)

message_free                    == {"param"}
data_message_free               == {"param"}
message_info_free               == {"param"}
send_message_param_append       == message_free
send_data_message_param_append  == data_message_free
send_sms_callback               == Tells({"ERROR"}, {"ERROR", "unset"}, {"OK"}, {"OK"})
message_list_query_complete     == Decoded

tapi_sms_send_message ==
    Request("Sms", ParamFirst, send_message_param_append,
            handler_free \cup message_free, handler_free, send_sms_callback)
tapi_sms_send_data_message ==
    Request("Sms", ParamFirst, send_data_message_param_append,
            handler_free \cup data_message_free, handler_free, send_sms_callback)
tapi_sms_set_service_center_address == WhenReady(Command("Sms"))
\* It asks the voice call interface.
tapi_sms_get_all_messages_from_sim ==
    Plain("Call", HandlerFirst, message_list_query_complete)
tapi_sms_copy_message_to_sim ==
    NoEvent(Request("Sms", ParamOnly, Nothing, message_info_free, message_info_free,
                    NoReply))
tapi_sms_delete_message_from_sim     == Command("Sms")
tapi_sms_set_default_slot            == WhenReady(Command("Manager"))
tapi_sms_set_cell_broadcast_power_on == WhenReady(Command("Cbs"))
tapi_sms_set_cell_broadcast_topics   == WhenReady(Command("Cbs"))

-----------------------------------------------------------------------------
(* tapi_ss.c *)

ss_event_data_free             == {"handler", "ar", "param"}
ss_method_call_complete        == StatusOnly
call_forwarding_query_complete == AllocatesFirst({"OK"})
ss_initiate_complete           == Tells({"ERROR"}, {"ERROR"}, {"OK"}, {"ERROR"})
ss_send_ussd_cb                == Decoded
query_fdn_cb                   == Decoded
query_call_waiting_cb          == Decoded
query_clir_cb                  == Decoded

BarringRequest ==
    Request("CallBarring", ParamLast, Nothing, ss_event_data_free, ss_event_data_free,
            ss_method_call_complete)

tapi_ss_initiate_service             == Plain("Ss", HandlerFirst, ss_initiate_complete)
tapi_ss_request_call_barring         == Plain("CallBarring", HandlerFirst, ss_method_call_complete)
tapi_ss_set_call_barring_option      == BarringRequest
tapi_ss_change_call_barring_password == BarringRequest
tapi_ss_disable_all_call_barrings    == Plain("CallBarring", HandlerFirst, ss_method_call_complete)
tapi_ss_disable_all_incoming         == Plain("CallBarring", HandlerFirst, ss_method_call_complete)
tapi_ss_disable_all_outgoing         == Plain("CallBarring", HandlerFirst, ss_method_call_complete)
tapi_ss_query_call_forwarding_option ==
    Plain("CallForwarding", HandlerFirst, call_forwarding_query_complete)
tapi_ss_set_call_forwarding_option ==
    WhenReady(Plain("CallForwarding", HandlerFirst, ss_method_call_complete))
tapi_ss_send_ussd   == Plain("Ss", HandlerFirst, ss_send_ussd_cb)
tapi_ss_cancel_ussd == Plain("Ss", HandlerFirst, ss_method_call_complete)
tapi_ss_set_call_waiting ==
    WhenReady(Plain("CallSetting", HandlerFirst, ss_method_call_complete))
tapi_ss_get_call_waiting ==
    WhenReady(Plain("CallSetting", HandlerFirst, query_call_waiting_cb))
tapi_ss_set_calling_line_restriction ==
    WhenReady(Plain("CallSetting", HandlerFirst, ss_method_call_complete))
tapi_ss_get_calling_line_restriction_info ==
    WhenReady(Plain("CallSetting", HandlerFirst, query_clir_cb))
tapi_ss_enable_fdn == Plain("Sim", HandlerFirst, ss_method_call_complete)
tapi_ss_query_fdn  == Plain("Sim", HandlerFirst, query_fdn_cb)

-----------------------------------------------------------------------------
(* tapi_phonebook.c, tapi_stk.c and tapi_ims.c *)

phonebook_event_data_free      == {"handler", "ar", "param"}
phonebook_method_call_complete == StatusOnly
load_adn_entries_cb            == Decoded
load_fdn_entries_cb            == Decoded
insert_fdn_record_cb           == Decoded

FdnRequest(reply) ==
    Request("Phonebook", ParamFirst, Nothing, phonebook_event_data_free,
            phonebook_event_data_free, reply)

tapi_phonebook_load_adn_entries == Plain("Phonebook", ResultFirst, load_adn_entries_cb)
tapi_phonebook_load_fdn_entries == Plain("Phonebook", ResultFirst, load_fdn_entries_cb)
tapi_phonebook_insert_fdn_entry == FdnRequest(insert_fdn_record_cb)
tapi_phonebook_delete_fdn_entry == FdnRequest(phonebook_method_call_complete)
tapi_phonebook_update_fdn_entry == FdnRequest(phonebook_method_call_complete)

stk_event_data_free      == {"handler", "ar", "param"}
stk_method_call_complete == StatusOnly

tapi_stk_agent_register   == Plain("Stk", HandlerFirst, stk_method_call_complete)
tapi_stk_agent_unregister == Plain("Stk", HandlerFirst, stk_method_call_complete)
tapi_stk_select_item ==
    Request("Stk", ParamFirst, Nothing, stk_event_data_free, stk_event_data_free,
            stk_method_call_complete)

tapi_ims_enable             == Command("Ims")
tapi_ims_turn_on            == tapi_ims_enable
tapi_ims_turn_off           == tapi_ims_enable
tapi_ims_set_service_status == Command("Ims")
=============================================================================
