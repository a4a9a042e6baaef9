----------------------------- MODULE CommandTable -----------------------------
(***************************************************************************)
(* The commands of telephony_tool.c, one record each: how many words they  *)
(* take, whether the first must be a slot, which function of the library   *)
(* they call and what they make of its result.  Module TelephonyTool runs  *)
(* them.  A negative result is an input reported as invalid.               *)
(***************************************************************************)
EXTENDS Integers

Any == 99    \* as many words as there are

\* What a command can come to: a call whose result is its own, a call whose result it
\* keeps for itself, or no call.
Its(call)   == [call |-> call, times |-> 1, result |-> "its"]
Without(result) == [call |-> "none", times |-> 0, result |-> result]

\* Exactly n words, the first a slot of the phone (split_input, is_valid_slot_id_str).
Words(cmd, n, call) ==
    [cmd |-> cmd, least |-> n, most |-> n, slot |-> {"phone"}, runs |-> {Its(call)}]

UpTo(n, command)   == [command EXCEPT !.most = n]
Unchecked(command) == [command EXCEPT !.slot = {"phone", "-1", "other"}]
Silent(command) ==
    [command EXCEPT !.runs = {IF run.result = "its" THEN [run EXCEPT !.result = "zero"]
                              ELSE run : run \in @}]
Twice(command)     == Silent([command EXCEPT !.runs = {[run EXCEPT !.times = 2] : run \in @}])

\* What the words hold is looked at, or memory is needed.
MayRefuse(command) == [command EXCEPT !.runs = @ \cup {Without("invalid")}]

\* A switch over a word, and what no case leaves.
OneOf(command, calls, left) ==
    [command EXCEPT !.runs = {Its(call) : call \in calls}
                             \cup {Without(result) : result \in left}]

\* The first word alone counts (strtok_r); all of the line is the slot; no word counts.
Slot(cmd, call)       == UpTo(Any, Words(cmd, 1, call))
SlotOrNone(cmd, call) == [Slot(cmd, call) EXCEPT !.slot = {"phone", "-1"}]
OnlySlot(cmd, call)   == Words(cmd, 1, call)
Word(cmd, call)       == Unchecked(Slot(cmd, call))
Bare(cmd, call)       == [Word(cmd, call) EXCEPT !.least = 0]

-----------------------------------------------------------------------------
(* Radio *)

telephonytool_cmd_query_modem_list ==
    Unchecked(Words("list-modem", 0, "tapi_query_modem_list"))
telephonytool_cmd_modem_register == Words("listen-modem", 2, "tapi_register")
telephonytool_cmd_modem_unregister == Word("unlisten-modem", "tapi_unregister")
telephonytool_cmd_is_feature_supported ==
    Word("get-radio-cap", "tapi_is_feature_supported")
telephonytool_cmd_set_radio_power == Words("set-radio-power", 2, "tapi_set_radio_power")
telephonytool_cmd_get_radio_power ==
    Silent(Slot("get-radio-power", "tapi_get_radio_power"))
telephonytool_cmd_set_rat_mode == Words("set-rat-mode", 2, "tapi_set_pref_net_mode")
telephonytool_cmd_get_rat_mode == Silent(Slot("get-rat-mode", "tapi_get_pref_net_mode"))
telephonytool_cmd_get_imei == Silent(Slot("get-imei", "tapi_get_imei"))
telephonytool_cmd_get_imeisv == Silent(Slot("get-imeisv", "tapi_get_imeisv"))
telephonytool_cmd_get_modem_revision ==
    Silent(Slot("get-modem-revision", "tapi_get_modem_revision"))
telephonytool_cmd_get_modem_manufacturer ==
    Silent(Slot("get-modem-manufacturer", "tapi_get_modem_manufacturer"))
telephonytool_cmd_get_modem_model ==
    Silent(Slot("get-modem-model", "tapi_get_modem_model"))
telephonytool_cmd_get_phone_state ==
    Silent(Slot("get-phone-state", "tapi_get_phone_state"))
telephonytool_cmd_send_modem_power ==
    Words("send-modem-power", 2, "tapi_send_modem_power")
telephonytool_cmd_get_radio_state ==
    Silent(Slot("get-radio-state", "tapi_get_radio_state"))
telephonytool_cmd_get_phone_number ==
    Silent(OnlySlot("get-msisdn", "tapi_get_phone_number"))
telephonytool_cmd_get_modem_activity_info ==
    Slot("get-modem-activity-info", "tapi_get_modem_activity_info")
telephonytool_cmd_enable_modem == Words("enable-modem", 2, "tapi_enable_modem")
telephonytool_cmd_enable_modem_abnormal_event ==
    Unchecked(Words("enable-modem-abnormal-event", 5, "tapi_enable_modem_abnormal_event"))
telephonytool_cmd_get_modem_status == Slot("get-modem-status", "tapi_get_modem_status")
telephonytool_cmd_oem_ril_req_raw ==
    MayRefuse(Words("oem-req-raw", 3, "tapi_invoke_oem_ril_request_raw"))
telephonytool_cmd_oem_ril_req_strings ==
    MayRefuse(Words("oem-req-strings", 3, "tapi_invoke_oem_ril_request_strings"))
telephonytool_cmd_send_command == Words("send-command", 3, "tapi_handle_command")
telephonytool_cmd_send_screen_state ==
    Words("send-screen-state", 2, "tapi_set_fast_dormancy")

-----------------------------------------------------------------------------
(* Calls, and the slot of messages *)

telephonytool_cmd_dial == Words("dial", 3, "tapi_call_dial")
telephonytool_cmd_release_and_answer_call ==
    Slot("release_and_answer", "tapi_call_release_and_answer")
telephonytool_cmd_hold_and_answer_call ==
    Slot("hold_and_answer", "tapi_call_hold_and_answer")
telephonytool_cmd_release_and_swap_call ==
    Slot("release_and_swap", "tapi_call_release_and_swap")
telephonytool_cmd_answer_by_id == Words("answer_0", 2, "tapi_call_answer_by_id")
telephonytool_cmd_hangup_all == Slot("hangup-all", "tapi_call_hangup_all_calls")
telephonytool_cmd_hangup_multiparty ==
    Slot("hangup-all-multiparty", "tapi_call_hangup_multiparty")
telephonytool_cmd_hangup_by_id == Words("hangup_0", 2, "tapi_call_hangup_by_id")
telephonytool_cmd_swap_call ==
    OneOf(Words("swap", 2, "tapi_call_hold_call"),
          {"tapi_call_hold_call", "tapi_call_unhold_call"}, {})
telephonytool_cmd_get_call == Words("get-call", 1, "tapi_call_get_all_calls")
telephonytool_cmd_listen_call_manager_change ==
    OneOf(Words("listen-call", 2, "tapi_call_register_call_state_change"),
          {"tapi_call_register_call_state_change", "tapi_call_register_emergency_list_change",
           "tapi_call_register_ringback_tone_change"}, {"invalid"})
telephonytool_cmd_listen_call_slot_change ==
    Bare("listen-call-slot-change", "tapi_call_register_default_voicecall_slot_change")
telephonytool_cmd_unlisten_call_singal ==
    Unchecked(Words("unlisten-call", 1, "tapi_unregister"))
telephonytool_cmd_transfer_call == Words("transfer", 1, "tapi_call_transfer")
telephonytool_cmd_merge_call == Words("merge", 1, "tapi_call_merge_call")
telephonytool_cmd_separate_call == Words("separate", 2, "tapi_call_separate_call")
telephonytool_cmd_dial_conference ==
    UpTo(6, Words("dial-conference", 2, "tapi_call_dial_conferece"))
telephonytool_cmd_invite_participants ==
    UpTo(6, Words("invite-participants", 2, "tapi_call_invite_participants"))
telephonytool_cmd_get_ecc_list == Words("get-ecclist", 1, "tapi_call_get_ecc_list")
telephonytool_cmd_is_emergency_number ==
    Silent(Unchecked(Words("is-ecc", 1, "tapi_call_is_emergency_number")))
telephonytool_cmd_send_tones == MayRefuse(Words("send-tones", 2, "tapi_call_send_tones"))
telephonytool_cmd_start_dtmf == MayRefuse(Words("start-dtmf", 2, "tapi_call_start_dtmf"))
telephonytool_cmd_stop_dtmf == Words("stop-dtmf", 1, "tapi_call_stop_dtmf")
telephonytool_cmd_set_default_voicecall_slot ==
    SlotOrNone("set-voicecall-slot", "tapi_call_set_default_slot")
telephonytool_cmd_get_default_voicecall_slot ==
    Silent(Bare("get-voicecall-slot", "tapi_call_get_default_slot"))
telephonytool_cmd_deflect_call == Words("deflect", 3, "tapi_call_deflect_by_id")
telephonytool_cmd_set_default_sms_slot ==
    SlotOrNone("set-sms-slot", "tapi_sms_set_default_slot")
telephonytool_cmd_get_default_sms_slot ==
    Silent(Bare("get-sms-slot", "tapi_sms_get_default_slot"))

-----------------------------------------------------------------------------
(* Data *)

telephonytool_cmd_load_apns == Slot("load-apns", "tapi_data_load_apn_contexts")
telephonytool_cmd_add_apn ==
    Silent(MayRefuse(Words("add-apn", 6, "tapi_data_add_apn_context")))
telephonytool_cmd_remove_apn ==
    Silent(MayRefuse(Words("remove-apn", 2, "tapi_data_remove_apn_context")))
telephonytool_cmd_edit_apn ==
    Silent(MayRefuse(Words("edit-apn", 7, "tapi_data_edit_apn_context")))
telephonytool_cmd_reset_apn == Slot("reset-apn", "tapi_data_reset_apn_contexts")
telephonytool_cmd_request_network ==
    Words("request-network", 2, "tapi_data_request_network")
telephonytool_cmd_release_network ==
    Words("release-network", 2, "tapi_data_release_network")
telephonytool_cmd_get_data_call_list ==
    Slot("get-data-calls", "tapi_data_get_data_connection_list")
telephonytool_cmd_set_data_roaming == Word("set-data-roaming", "tapi_data_enable_roaming")
telephonytool_cmd_get_data_roaming ==
    Silent(Bare("get-data-roaming", "tapi_data_get_roaming_enabled"))
telephonytool_cmd_set_data_enabled == Word("set-data-on", "tapi_data_enable_data")
telephonytool_cmd_get_data_enabled == Silent(Bare("is-data-on", "tapi_data_get_enabled"))
telephonytool_cmd_get_ps_attached ==
    Silent(Slot("get-data-registered", "tapi_data_is_registered"))
telephonytool_cmd_get_ps_network_type ==
    Silent(Slot("get-ps-nwtype", "tapi_data_get_network_type"))
telephonytool_cmd_set_pref_apn ==
    Silent(MayRefuse(Words("set-pref-apn", 2, "tapi_data_set_preferred_apn")))
telephonytool_cmd_get_pref_apn ==
    Silent(Slot("get-pref-apn", "tapi_data_get_preferred_apn"))
telephonytool_cmd_set_default_data_slot ==
    Word("set-data-slot", "tapi_data_set_default_slot")
telephonytool_cmd_get_default_data_slot ==
    Silent(Bare("get-data-slot", "tapi_data_get_default_slot"))
telephonytool_cmd_set_data_allow == Words("set-data-allow", 2, "tapi_data_set_data_allow")
telephonytool_cmd_data_register == Words("listen-data", 2, "tapi_data_register")
telephonytool_cmd_data_unregister == Word("unlisten-data", "tapi_data_unregister")

-----------------------------------------------------------------------------
(* SIM *)

telephonytool_cmd_has_icc_card == Silent(Slot("has-icc", "tapi_sim_has_icc_card"))
telephonytool_cmd_get_sim_state == Silent(Slot("get-sim-state", "tapi_sim_get_sim_state"))
telephonytool_cmd_get_sim_iccid == Silent(OnlySlot("get-iccid", "tapi_sim_get_sim_iccid"))
telephonytool_cmd_get_sim_operator ==
    Silent(OnlySlot("get-sim-operator", "tapi_sim_get_sim_operator"))
telephonytool_cmd_get_sim_operator_name ==
    Silent(OnlySlot("get-sim-operator-name", "tapi_sim_get_sim_operator_name"))
telephonytool_cmd_get_sim_subscriber_id ==
    Silent(OnlySlot("get-sim-subscriber-id", "tapi_sim_get_subscriber_id"))
telephonytool_cmd_change_sim_pin == Words("change-pin", 4, "tapi_sim_change_pin")
telephonytool_cmd_enter_sim_pin == Words("enter-pin", 3, "tapi_sim_enter_pin")
telephonytool_cmd_reset_sim_pin == Words("reset-pin", 4, "tapi_sim_reset_pin")
telephonytool_cmd_lock_sim_pin == Words("lock-pin", 3, "tapi_sim_lock_pin")
telephonytool_cmd_unlock_sim_pin == Words("unlock-pin", 3, "tapi_sim_unlock_pin")
telephonytool_cmd_open_logical_channel ==
    MayRefuse(Words("open-logical-channel", 3, "tapi_sim_open_logical_channel"))
telephonytool_cmd_close_logical_channel ==
    Words("close-logical-channel", 2, "tapi_sim_close_logical_channel")
telephonytool_cmd_transmit_apdu_logical_channel ==
    MayRefuse(Words("transmit-apdu-logical-channel", 4, "tapi_sim_transmit_apdu_logical_channel"))
telephonytool_cmd_transmit_apdu_basic_channel ==
    MayRefuse(Words("transmit-apdu-basic-channel", 3, "tapi_sim_transmit_apdu_basic_channel"))
telephonytool_cmd_get_uicc_enablement ==
    Silent(Slot("get-uicc-enablement", "tapi_sim_get_uicc_enablement"))
telephonytool_cmd_set_uicc_enablement ==
    Words("set-uicc-enablement", 2, "tapi_sim_set_uicc_enablement")
telephonytool_cmd_listen_sim == Words("listen-sim", 2, "tapi_sim_register")
telephonytool_cmd_unlisten_sim == Word("unlisten-sim", "tapi_sim_unregister")

-----------------------------------------------------------------------------
(* SMS and cell broadcast *)

telephonytool_tapi_sms_send_message ==
    UpTo(Any, Words("send-sms", 2, "tapi_sms_send_message"))
telephonytool_tapi_sms_send_data_message ==
    UpTo(Any, Words("send-data-sms", 3, "tapi_sms_send_data_message"))
telephonytool_tapi_sms_get_service_center_number ==
    Silent(OnlySlot("get-service-center-number", "tapi_sms_get_service_center_address"))
telephonytool_tapi_sms_set_service_center_number ==
    Words("set-service-center-number", 2, "tapi_sms_set_service_center_address")
telephonytool_tapi_sms_register ==
    Twice(OnlySlot("register-incoming-sms", "tapi_sms_register"))
telephonytool_tapi_sms_get_cell_broadcast_power ==
    Silent(OnlySlot("get-cell-broadcast-power", "tapi_sms_get_cell_broadcast_power_on"))
telephonytool_tapi_sms_set_cell_broadcast_power ==
    Words("set-cell-broadcast-power", 2, "tapi_sms_set_cell_broadcast_power_on")
telephonytool_tapi_sms_get_cell_broadcast_topics ==
    Silent(OnlySlot("get-cell-broadcast-topics", "tapi_sms_get_cell_broadcast_topics"))
telephonytool_tapi_sms_set_cell_broadcast_topics ==
    Words("set-cell-broadcast-topics", 2, "tapi_sms_set_cell_broadcast_topics")
telephonytool_tapi_cbs_register ==
    Twice(OnlySlot("register-incoming-cbs", "tapi_cbs_register"))
telephonytool_tapi_sms_copy_message_to_sim ==
    Words("copy-sms-to-sim", 3, "tapi_sms_copy_message_to_sim")
telephonytool_tapi_sms_delete_message_from_sim ==
    Words("delete-sms-from-sim", 2, "tapi_sms_delete_message_from_sim")
telephonytool_tapi_sms_slot_change ==
    Bare("register-sms-slot-change", "tapi_sms_register")

-----------------------------------------------------------------------------
(* Network *)

telephonytool_cmd_network_listen == Words("listen-network", 2, "tapi_network_register")
telephonytool_cmd_network_unlisten == Word("unlisten-network", "tapi_network_unregister")
telephonytool_cmd_network_select_auto ==
    Silent(Slot("register-auto", "tapi_network_select_auto"))
telephonytool_cmd_network_select_manual ==
    Silent(MayRefuse(UpTo(Any,
          Words("register-manual", 3, "tapi_network_select_manual"))))
telephonytool_cmd_query_signalstrength ==
    Silent(Slot("get-signalstrength", "tapi_network_get_signalstrength"))
telephonytool_cmd_get_operator_name ==
    Silent(Slot("get-display-name", "tapi_network_get_display_name"))
telephonytool_cmd_get_net_registration_info ==
    Slot("get-registration-info", "tapi_network_get_registration_info")
telephonytool_cmd_get_voice_networktype ==
    Silent(Slot("get-voice-nwtype", "tapi_network_get_voice_network_type"))
telephonytool_cmd_is_voice_registered ==
    Silent(Slot("get-voice-registered", "tapi_network_is_voice_registered"))
telephonytool_cmd_is_voice_roaming ==
    Silent(Slot("get-voice-roaming", "tapi_network_is_voice_roaming"))
telephonytool_cmd_network_scan == Slot("scan-network", "tapi_network_scan")
telephonytool_cmd_get_serving_cellinfos ==
    Slot("get-serving-cellinfo", "tapi_network_get_serving_cellinfos")
telephonytool_cmd_get_neighbouring_cellInfos ==
    Slot("get-neighbouring-cellInfos", "tapi_network_get_neighbouring_cellinfos")
telephonytool_cmd_set_cell_info_list_rate ==
    Words("set-cell-info-list-rate", 2, "tapi_network_set_cell_info_list_rate")

-----------------------------------------------------------------------------
(* Supplementary services *)

telephonytool_cmd_request_call_barring ==
    Slot("request-callbarring", "tapi_ss_request_call_barring")
telephonytool_cmd_set_call_barring ==
    Words("set-callbarring", 3, "tapi_ss_set_call_barring_option")
telephonytool_cmd_get_call_barring ==
    Silent(Words("get-callbarring", 2, "tapi_ss_get_call_barring_option"))
telephonytool_cmd_change_call_barring_passwd ==
    Words("change-callbarring-passwd", 3, "tapi_ss_change_call_barring_password")
telephonytool_cmd_disable_all_call_barrings ==
    Words("disable-all-callbarrings", 2, "tapi_ss_disable_all_call_barrings")
telephonytool_cmd_disable_all_incoming ==
    Words("disable-all-incoming", 2, "tapi_ss_disable_all_incoming")
telephonytool_cmd_disable_all_outgoing ==
    Words("disable-all-outgoing", 2, "tapi_ss_disable_all_outgoing")
telephonytool_cmd_set_call_forwarding_option ==
    Words("set-callforwarding-option", 3, "tapi_ss_set_call_forwarding_option")
telephonytool_cmd_get_call_forwarding_option ==
    Silent(Words("get-callforwarding-option", 2, "tapi_ss_query_call_forwarding_option"))
telephonytool_cmd_initiate_ss_service ==
    Words("initiate-ss", 2, "tapi_ss_initiate_service")
telephonytool_cmd_get_ussd_state == Silent(Slot("get-ussd-state", "tapi_get_ussd_state"))
telephonytool_cmd_send_ussd == Words("send-ussd", 2, "tapi_ss_send_ussd")
telephonytool_cmd_cancel_ussd == Slot("cancel-ussd", "tapi_ss_cancel_ussd")
telephonytool_cmd_set_call_waiting ==
    Words("set-callwaiting", 2, "tapi_ss_set_call_waiting")
telephonytool_cmd_get_call_waiting == Slot("get-callwaiting", "tapi_ss_get_call_waiting")
telephonytool_cmd_get_clip ==
    Silent(Slot("get-clip", "tapi_ss_get_calling_line_presentation_info"))
telephonytool_cmd_set_clir == Words("set-clir", 2, "tapi_ss_set_calling_line_restriction")
telephonytool_cmd_get_clir ==
    Slot("get-clir", "tapi_ss_get_calling_line_restriction_info")
telephonytool_cmd_enable_fdn == Words("enable-fdn", 3, "tapi_ss_enable_fdn")
telephonytool_cmd_query_fdn == Slot("query-fdn", "tapi_ss_query_fdn")
telephonytool_cmd_ss_listen == Words("listen-ss", 2, "tapi_ss_register")
telephonytool_cmd_ss_unlisten == Word("unlisten-ss", "tapi_ss_unregister")

-----------------------------------------------------------------------------
(* IMS *)

telephonytool_cmd_ims_enable ==
    OneOf(Words("enable-ims", 2, "tapi_ims_turn_off"),
          {"tapi_ims_turn_off", "tapi_ims_turn_on"}, {"invalid"})
telephonytool_cmd_get_ims_enabled ==
    Silent(Slot("get-ims-enabled", "tapi_ims_get_enabled"))
telephonytool_cmd_set_ims_service ==
    Words("set-ims-cap", 2, "tapi_ims_set_service_status")
telephonytool_cmd_ims_register ==
    Words("listen-ims", 1, "tapi_ims_register_registration_change")
telephonytool_cmd_ims_get_registration ==
    OneOf(Words("get-ims-registration", 2, "tapi_ims_get_registration"),
          {"tapi_ims_get_registration", "tapi_ims_is_registered",
           "tapi_ims_is_volte_available"}, {"zero"})

-----------------------------------------------------------------------------
(* Phonebook *)

telephonytool_cmd_load_adn_entries == Slot("load-adn", "tapi_phonebook_load_adn_entries")
telephonytool_cmd_load_fdn_entries == Slot("load-fdn", "tapi_phonebook_load_fdn_entries")
telephonytool_cmd_insert_fdn_entry ==
    Words("insert-fdn", 4, "tapi_phonebook_insert_fdn_entry")
telephonytool_cmd_update_fdn_entry ==
    Words("update-fdn", 5, "tapi_phonebook_update_fdn_entry")
telephonytool_cmd_delete_fdn_entry ==
    Words("delete-fdn", 3, "tapi_phonebook_delete_fdn_entry")
-----------------------------------------------------------------------------
\* g_telephonytool_cmds, but for "q" and "help".
AllCommands == {
    telephonytool_cmd_query_modem_list, telephonytool_cmd_modem_register,
    telephonytool_cmd_modem_unregister, telephonytool_cmd_is_feature_supported,
    telephonytool_cmd_set_radio_power, telephonytool_cmd_get_radio_power,
    telephonytool_cmd_set_rat_mode, telephonytool_cmd_get_rat_mode,
    telephonytool_cmd_get_imei, telephonytool_cmd_get_imeisv,
    telephonytool_cmd_get_modem_revision, telephonytool_cmd_get_modem_manufacturer,
    telephonytool_cmd_get_modem_model, telephonytool_cmd_get_phone_state,
    telephonytool_cmd_send_modem_power, telephonytool_cmd_get_radio_state,
    telephonytool_cmd_get_phone_number, telephonytool_cmd_get_modem_activity_info,
    telephonytool_cmd_enable_modem, telephonytool_cmd_enable_modem_abnormal_event,
    telephonytool_cmd_get_modem_status, telephonytool_cmd_oem_ril_req_raw,
    telephonytool_cmd_oem_ril_req_strings, telephonytool_cmd_send_command,
    telephonytool_cmd_send_screen_state, telephonytool_cmd_dial,
    telephonytool_cmd_release_and_answer_call, telephonytool_cmd_hold_and_answer_call,
    telephonytool_cmd_release_and_swap_call, telephonytool_cmd_answer_by_id,
    telephonytool_cmd_hangup_all, telephonytool_cmd_hangup_multiparty,
    telephonytool_cmd_hangup_by_id, telephonytool_cmd_swap_call,
    telephonytool_cmd_get_call, telephonytool_cmd_listen_call_manager_change,
    telephonytool_cmd_listen_call_slot_change, telephonytool_cmd_unlisten_call_singal,
    telephonytool_cmd_transfer_call, telephonytool_cmd_merge_call,
    telephonytool_cmd_separate_call, telephonytool_cmd_dial_conference,
    telephonytool_cmd_invite_participants, telephonytool_cmd_get_ecc_list,
    telephonytool_cmd_is_emergency_number, telephonytool_cmd_send_tones,
    telephonytool_cmd_start_dtmf, telephonytool_cmd_stop_dtmf,
    telephonytool_cmd_set_default_voicecall_slot,
    telephonytool_cmd_get_default_voicecall_slot, telephonytool_cmd_deflect_call,
    telephonytool_cmd_set_default_sms_slot, telephonytool_cmd_get_default_sms_slot,
    telephonytool_cmd_load_apns, telephonytool_cmd_add_apn,
    telephonytool_cmd_remove_apn, telephonytool_cmd_edit_apn,
    telephonytool_cmd_reset_apn, telephonytool_cmd_request_network,
    telephonytool_cmd_release_network, telephonytool_cmd_get_data_call_list,
    telephonytool_cmd_set_data_roaming, telephonytool_cmd_get_data_roaming,
    telephonytool_cmd_set_data_enabled, telephonytool_cmd_get_data_enabled,
    telephonytool_cmd_get_ps_attached, telephonytool_cmd_get_ps_network_type,
    telephonytool_cmd_set_pref_apn, telephonytool_cmd_get_pref_apn,
    telephonytool_cmd_set_default_data_slot, telephonytool_cmd_get_default_data_slot,
    telephonytool_cmd_set_data_allow, telephonytool_cmd_data_register,
    telephonytool_cmd_data_unregister, telephonytool_cmd_has_icc_card,
    telephonytool_cmd_get_sim_state, telephonytool_cmd_get_sim_iccid,
    telephonytool_cmd_get_sim_operator, telephonytool_cmd_get_sim_operator_name,
    telephonytool_cmd_get_sim_subscriber_id, telephonytool_cmd_change_sim_pin,
    telephonytool_cmd_enter_sim_pin, telephonytool_cmd_reset_sim_pin,
    telephonytool_cmd_lock_sim_pin, telephonytool_cmd_unlock_sim_pin,
    telephonytool_cmd_open_logical_channel, telephonytool_cmd_close_logical_channel,
    telephonytool_cmd_transmit_apdu_logical_channel,
    telephonytool_cmd_transmit_apdu_basic_channel,
    telephonytool_cmd_get_uicc_enablement, telephonytool_cmd_set_uicc_enablement,
    telephonytool_cmd_listen_sim, telephonytool_cmd_unlisten_sim,
    telephonytool_tapi_sms_send_message, telephonytool_tapi_sms_send_data_message,
    telephonytool_tapi_sms_get_service_center_number,
    telephonytool_tapi_sms_set_service_center_number, telephonytool_tapi_sms_register,
    telephonytool_tapi_sms_get_cell_broadcast_power,
    telephonytool_tapi_sms_set_cell_broadcast_power,
    telephonytool_tapi_sms_get_cell_broadcast_topics,
    telephonytool_tapi_sms_set_cell_broadcast_topics, telephonytool_tapi_cbs_register,
    telephonytool_tapi_sms_copy_message_to_sim,
    telephonytool_tapi_sms_delete_message_from_sim, telephonytool_tapi_sms_slot_change,
    telephonytool_cmd_network_listen, telephonytool_cmd_network_unlisten,
    telephonytool_cmd_network_select_auto, telephonytool_cmd_network_select_manual,
    telephonytool_cmd_query_signalstrength, telephonytool_cmd_get_operator_name,
    telephonytool_cmd_get_net_registration_info,
    telephonytool_cmd_get_voice_networktype, telephonytool_cmd_is_voice_registered,
    telephonytool_cmd_is_voice_roaming, telephonytool_cmd_network_scan,
    telephonytool_cmd_get_serving_cellinfos,
    telephonytool_cmd_get_neighbouring_cellInfos,
    telephonytool_cmd_set_cell_info_list_rate, telephonytool_cmd_request_call_barring,
    telephonytool_cmd_set_call_barring, telephonytool_cmd_get_call_barring,
    telephonytool_cmd_change_call_barring_passwd,
    telephonytool_cmd_disable_all_call_barrings, telephonytool_cmd_disable_all_incoming,
    telephonytool_cmd_disable_all_outgoing,
    telephonytool_cmd_set_call_forwarding_option,
    telephonytool_cmd_get_call_forwarding_option, telephonytool_cmd_initiate_ss_service,
    telephonytool_cmd_get_ussd_state, telephonytool_cmd_send_ussd,
    telephonytool_cmd_cancel_ussd, telephonytool_cmd_set_call_waiting,
    telephonytool_cmd_get_call_waiting, telephonytool_cmd_get_clip,
    telephonytool_cmd_set_clir, telephonytool_cmd_get_clir,
    telephonytool_cmd_enable_fdn, telephonytool_cmd_query_fdn,
    telephonytool_cmd_ss_listen, telephonytool_cmd_ss_unlisten,
    telephonytool_cmd_ims_enable, telephonytool_cmd_get_ims_enabled,
    telephonytool_cmd_set_ims_service, telephonytool_cmd_ims_register,
    telephonytool_cmd_ims_get_registration, telephonytool_cmd_load_adn_entries,
    telephonytool_cmd_load_fdn_entries, telephonytool_cmd_insert_fdn_entry,
    telephonytool_cmd_update_fdn_entry, telephonytool_cmd_delete_fdn_entry}
=============================================================================
