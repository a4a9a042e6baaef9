----------------------------- MODULE MCRequests -----------------------------
EXTENDS Requests, RequestTable

\* The table as a function of the names.
TheApi == [
    tapi_query_modem_list |-> tapi_query_modem_list,
    tapi_set_pref_net_mode |-> tapi_set_pref_net_mode,
    tapi_send_modem_power |-> tapi_send_modem_power,
    tapi_set_radio_power |-> tapi_set_radio_power,
    tapi_get_modem_activity_info |-> tapi_get_modem_activity_info,
    tapi_invoke_oem_ril_request_raw |-> tapi_invoke_oem_ril_request_raw,
    tapi_invoke_oem_ril_request_strings |-> tapi_invoke_oem_ril_request_strings,
    tapi_enable_modem |-> tapi_enable_modem,
    tapi_enable_modem_abnormal_event |-> tapi_enable_modem_abnormal_event,
    tapi_get_modem_status |-> tapi_get_modem_status,
    tapi_handle_command |-> tapi_handle_command,
    tapi_set_fast_dormancy |-> tapi_set_fast_dormancy,
    tapi_network_select_auto |-> tapi_network_select_auto,
    tapi_network_select_manual |-> tapi_network_select_manual,
    tapi_network_scan |-> tapi_network_scan,
    tapi_network_get_serving_cellinfos |-> tapi_network_get_serving_cellinfos,
    tapi_network_get_neighbouring_cellinfos |-> tapi_network_get_neighbouring_cellinfos,
    tapi_network_get_registration_info |-> tapi_network_get_registration_info,
    tapi_network_set_cell_info_list_rate |-> tapi_network_set_cell_info_list_rate,
    tapi_call_dial |-> tapi_call_dial,
    tapi_call_release_and_swap |-> tapi_call_release_and_swap,
    tapi_call_release_and_answer |-> tapi_call_release_and_answer,
    tapi_call_hold_and_answer |-> tapi_call_hold_and_answer,
    tapi_call_hold_call |-> tapi_call_hold_call,
    tapi_call_unhold_call |-> tapi_call_unhold_call,
    tapi_call_transfer |-> tapi_call_transfer,
    tapi_call_hangup_all_calls |-> tapi_call_hangup_all_calls,
    tapi_call_hangup_multiparty |-> tapi_call_hangup_multiparty,
    tapi_call_get_all_calls |-> tapi_call_get_all_calls,
    tapi_call_merge_call |-> tapi_call_merge_call,
    tapi_call_separate_call |-> tapi_call_separate_call,
    tapi_call_send_tones |-> tapi_call_send_tones,
    tapi_call_dial_conferece |-> tapi_call_dial_conferece,
    tapi_call_invite_participants |-> tapi_call_invite_participants,
    tapi_call_answer_by_id |-> tapi_call_answer_by_id,
    tapi_call_hangup_by_id |-> tapi_call_hangup_by_id,
    tapi_call_deflect_by_id |-> tapi_call_deflect_by_id,
    tapi_call_start_dtmf |-> tapi_call_start_dtmf,
    tapi_call_stop_dtmf |-> tapi_call_stop_dtmf,
    tapi_call_set_default_slot |-> tapi_call_set_default_slot,
    tapi_data_load_apn_contexts |-> tapi_data_load_apn_contexts,
    tapi_data_add_apn_context |-> tapi_data_add_apn_context,
    tapi_data_remove_apn_context |-> tapi_data_remove_apn_context,
    tapi_data_edit_apn_context |-> tapi_data_edit_apn_context,
    tapi_data_reset_apn_contexts |-> tapi_data_reset_apn_contexts,
    tapi_data_request_network |-> tapi_data_request_network,
    tapi_data_release_network |-> tapi_data_release_network,
    tapi_data_get_data_connection_list |-> tapi_data_get_data_connection_list,
    tapi_data_set_preferred_apn |-> tapi_data_set_preferred_apn,
    tapi_data_set_default_slot |-> tapi_data_set_default_slot,
    tapi_data_set_data_allow |-> tapi_data_set_data_allow,
    tapi_sim_change_pin |-> tapi_sim_change_pin,
    tapi_sim_enter_pin |-> tapi_sim_enter_pin,
    tapi_sim_reset_pin |-> tapi_sim_reset_pin,
    tapi_sim_lock_pin |-> tapi_sim_lock_pin,
    tapi_sim_unlock_pin |-> tapi_sim_unlock_pin,
    tapi_sim_open_logical_channel |-> tapi_sim_open_logical_channel,
    tapi_sim_close_logical_channel |-> tapi_sim_close_logical_channel,
    tapi_sim_transmit_apdu_logical_channel |-> tapi_sim_transmit_apdu_logical_channel,
    tapi_sim_transmit_apdu_basic_channel |-> tapi_sim_transmit_apdu_basic_channel,
    tapi_sim_set_uicc_enablement |-> tapi_sim_set_uicc_enablement,
    tapi_sms_send_message |-> tapi_sms_send_message,
    tapi_sms_send_data_message |-> tapi_sms_send_data_message,
    tapi_sms_set_service_center_address |-> tapi_sms_set_service_center_address,
    tapi_sms_get_all_messages_from_sim |-> tapi_sms_get_all_messages_from_sim,
    tapi_sms_copy_message_to_sim |-> tapi_sms_copy_message_to_sim,
    tapi_sms_delete_message_from_sim |-> tapi_sms_delete_message_from_sim,
    tapi_sms_set_default_slot |-> tapi_sms_set_default_slot,
    tapi_sms_set_cell_broadcast_power_on |-> tapi_sms_set_cell_broadcast_power_on,
    tapi_sms_set_cell_broadcast_topics |-> tapi_sms_set_cell_broadcast_topics,
    tapi_ss_initiate_service |-> tapi_ss_initiate_service,
    tapi_ss_request_call_barring |-> tapi_ss_request_call_barring,
    tapi_ss_set_call_barring_option |-> tapi_ss_set_call_barring_option,
    tapi_ss_change_call_barring_password |-> tapi_ss_change_call_barring_password,
    tapi_ss_disable_all_call_barrings |-> tapi_ss_disable_all_call_barrings,
    tapi_ss_disable_all_incoming |-> tapi_ss_disable_all_incoming,
    tapi_ss_disable_all_outgoing |-> tapi_ss_disable_all_outgoing,
    tapi_ss_query_call_forwarding_option |-> tapi_ss_query_call_forwarding_option,
    tapi_ss_set_call_forwarding_option |-> tapi_ss_set_call_forwarding_option,
    tapi_ss_send_ussd |-> tapi_ss_send_ussd,
    tapi_ss_cancel_ussd |-> tapi_ss_cancel_ussd,
    tapi_ss_set_call_waiting |-> tapi_ss_set_call_waiting,
    tapi_ss_get_call_waiting |-> tapi_ss_get_call_waiting,
    tapi_ss_set_calling_line_restriction |-> tapi_ss_set_calling_line_restriction,
    tapi_ss_get_calling_line_restriction_info |-> tapi_ss_get_calling_line_restriction_info,
    tapi_ss_enable_fdn |-> tapi_ss_enable_fdn,
    tapi_ss_query_fdn |-> tapi_ss_query_fdn,
    tapi_phonebook_load_adn_entries |-> tapi_phonebook_load_adn_entries,
    tapi_phonebook_load_fdn_entries |-> tapi_phonebook_load_fdn_entries,
    tapi_phonebook_insert_fdn_entry |-> tapi_phonebook_insert_fdn_entry,
    tapi_phonebook_delete_fdn_entry |-> tapi_phonebook_delete_fdn_entry,
    tapi_phonebook_update_fdn_entry |-> tapi_phonebook_update_fdn_entry,
    tapi_stk_agent_register |-> tapi_stk_agent_register,
    tapi_stk_agent_unregister |-> tapi_stk_agent_unregister,
    tapi_stk_select_item |-> tapi_stk_select_item,
    tapi_ims_enable |-> tapi_ims_enable,
    tapi_ims_turn_on |-> tapi_ims_turn_on,
    tapi_ims_turn_off |-> tapi_ims_turn_off,
    tapi_ims_set_service_status |-> tapi_ims_set_service_status]

EveryFunction == DOMAIN TheApi

\* The functions of the findings.
Dial     == {"tapi_call_dial"}
Scan     == {"tapi_network_scan"}
Activity == {"tapi_get_modem_activity_info"}

NoInterface == {}

CONSTANTS c1, c2
OneCall  == {c1}
TwoCalls == {c1, c2}
=============================================================================
