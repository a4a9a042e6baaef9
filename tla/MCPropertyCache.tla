--------------------------- MODULE MCPropertyCache ---------------------------
(***************************************************************************)
(* PropertyCache, with EmergencyNumbers, over the getters and setters the  *)
(* library really has.                                                     *)
(***************************************************************************)
EXTENDS EmergencyNumbers

Table == INSTANCE PropertyTable

MCInterfaceOf    == Table!InterfaceFor
MCPropertyValues == Table!ValuesOf

MCGetters == [
    tapi_data_is_registered |-> Table!tapi_data_is_registered,
    tapi_data_is_data_emergency_only |-> Table!tapi_data_is_data_emergency_only,
    tapi_data_is_data_roaming |-> Table!tapi_data_is_data_roaming,
    tapi_data_get_network_type |-> Table!tapi_data_get_network_type,
    tapi_data_get_preferred_apn |-> Table!tapi_data_get_preferred_apn,
    tapi_data_get_enabled |-> Table!tapi_data_get_enabled,
    tapi_data_get_roaming_enabled |-> Table!tapi_data_get_roaming_enabled,
    tapi_data_get_default_slot |-> Table!tapi_data_get_default_slot,
    tapi_call_get_default_slot |-> Table!tapi_call_get_default_slot,
    tapi_sms_get_default_slot |-> Table!tapi_sms_get_default_slot,
    tapi_sms_get_service_center_address |-> Table!tapi_sms_get_service_center_address,
    tapi_sms_get_cell_broadcast_power_on |-> Table!tapi_sms_get_cell_broadcast_power_on,
    tapi_sms_get_cell_broadcast_topics |-> Table!tapi_sms_get_cell_broadcast_topics,
    tapi_sms_get_op_code |-> Table!tapi_sms_get_op_code,
    tapi_sms_get_coverted_plmn |-> Table!tapi_sms_get_coverted_plmn,
    tapi_network_is_voice_registered |-> Table!tapi_network_is_voice_registered,
    tapi_network_is_voice_emergency_only |-> Table!tapi_network_is_voice_emergency_only,
    tapi_network_is_voice_roaming |-> Table!tapi_network_is_voice_roaming,
    tapi_network_get_voice_network_type |-> Table!tapi_network_get_voice_network_type,
    tapi_network_get_mcc |-> Table!tapi_network_get_mcc,
    tapi_network_get_mnc |-> Table!tapi_network_get_mnc,
    tapi_network_get_display_name |-> Table!tapi_network_get_display_name,
    tapi_network_get_signalstrength |-> Table!tapi_network_get_signalstrength,
    tapi_ims_get_registration |-> Table!tapi_ims_get_registration,
    tapi_ims_is_registered |-> Table!tapi_ims_is_registered,
    tapi_ims_is_volte_available |-> Table!tapi_ims_is_volte_available,
    tapi_ims_get_subscriber_uri_number |-> Table!tapi_ims_get_subscriber_uri_number,
    tapi_ims_get_enabled |-> Table!tapi_ims_get_enabled,
    tapi_sim_has_icc_card |-> Table!tapi_sim_has_icc_card,
    tapi_sim_get_sim_state |-> Table!tapi_sim_get_sim_state,
    tapi_sim_get_sim_iccid |-> Table!tapi_sim_get_sim_iccid,
    tapi_sim_get_sim_operator_name |-> Table!tapi_sim_get_sim_operator_name,
    tapi_sim_get_subscriber_id |-> Table!tapi_sim_get_subscriber_id,
    tapi_sim_get_uicc_enablement |-> Table!tapi_sim_get_uicc_enablement,
    tapi_sim_get_sim_operator |-> Table!tapi_sim_get_sim_operator,
    tapi_get_pref_net_mode |-> Table!tapi_get_pref_net_mode,
    tapi_get_radio_power |-> Table!tapi_get_radio_power,
    tapi_get_radio_state |-> Table!tapi_get_radio_state,
    tapi_get_imei |-> Table!tapi_get_imei,
    tapi_get_imeisv |-> Table!tapi_get_imeisv,
    tapi_get_modem_manufacturer |-> Table!tapi_get_modem_manufacturer,
    tapi_get_modem_model |-> Table!tapi_get_modem_model,
    tapi_get_modem_revision |-> Table!tapi_get_modem_revision,
    tapi_get_phone_state |-> Table!tapi_get_phone_state,
    tapi_get_modem_status_sync |-> Table!tapi_get_modem_status_sync,
    tapi_get_carrier_config_bool |-> Table!tapi_get_carrier_config_bool,
    tapi_get_carrier_config_int |-> Table!tapi_get_carrier_config_int,
    tapi_get_carrier_config_string |-> Table!tapi_get_carrier_config_string,
    tapi_get_msisdn_number |-> Table!tapi_get_msisdn_number,
    tapi_ss_get_call_barring_option |-> Table!tapi_ss_get_call_barring_option,
    tapi_ss_get_calling_line_presentation_info |-> Table!tapi_ss_get_calling_line_presentation_info,
    tapi_get_ussd_state |-> Table!tapi_get_ussd_state,
    tapi_stk_get_idle_mode_text |-> Table!tapi_stk_get_idle_mode_text,
    tapi_stk_get_idle_mode_icon |-> Table!tapi_stk_get_idle_mode_icon,
    tapi_stk_get_main_menu_title |-> Table!tapi_stk_get_main_menu_title,
    tapi_stk_get_main_menu_icon |-> Table!tapi_stk_get_main_menu_icon]

MCSetters == [
    tapi_data_set_preferred_apn |-> Table!tapi_data_set_preferred_apn,
    tapi_data_enable_data |-> Table!tapi_data_enable_data,
    tapi_data_enable_roaming |-> Table!tapi_data_enable_roaming,
    tapi_data_set_data_allow |-> Table!tapi_data_set_data_allow,
    tapi_data_set_default_slot |-> Table!tapi_data_set_default_slot,
    tapi_call_set_default_slot |-> Table!tapi_call_set_default_slot,
    tapi_sms_set_default_slot |-> Table!tapi_sms_set_default_slot,
    tapi_sms_set_service_center_address |-> Table!tapi_sms_set_service_center_address,
    tapi_sms_set_cell_broadcast_power_on |-> Table!tapi_sms_set_cell_broadcast_power_on,
    tapi_sms_set_cell_broadcast_topics |-> Table!tapi_sms_set_cell_broadcast_topics,
    tapi_sim_set_uicc_enablement |-> Table!tapi_sim_set_uicc_enablement,
    tapi_set_pref_net_mode |-> Table!tapi_set_pref_net_mode,
    tapi_send_modem_power |-> Table!tapi_send_modem_power,
    tapi_set_radio_power |-> Table!tapi_set_radio_power,
    tapi_set_fast_dormancy |-> Table!tapi_set_fast_dormancy]

\* What is looked at together: some getters and setters, and the properties they are of.
Group(getters, setters, vary, bounds) ==
    [getters |-> getters, setters |-> setters,
     props |-> (UNION {Range(MCGetters[g].of) : g \in getters})
               \cup {MCSetters[name].sets : name \in setters},
     vary |-> vary, settings |-> bounds[1], news |-> bounds[2], replacements |-> bounds[3]]

\* Getters alone; what is of many properties varies on one slot, and what can hold many values does so on one slot and keeps them.
Few(getters)  == Group(getters, {}, Slots, <<0, 1, 1>>)
One(getters)  == Group(getters, {}, {DEFAULT_SLOT_ID}, <<0, 1, 1>>)
Many(getters) == Group(getters, {}, {DEFAULT_SLOT_ID}, <<0, 0, 1>>)

Long(getters) == Group(getters, {}, {DEFAULT_SLOT_ID}, <<0, 2, 2>>)

\* Settings of one property: two in a row, or one while proxies are replaced.
Twice(getters, setters) == Group(getters, setters, {DEFAULT_SLOT_ID}, <<2, 1, 0>>)
Pick(getters, setters)  == Group(getters, setters, {}, <<1, 1, 1>>)

\* The lists of emergency numbers, which start as anything on every slot.
EmergencyLists ==
    [getters |-> {}, setters |-> {}, props |-> {"call_emergency", "modem_emergency"},
     vary |-> Slots, settings |-> 0, news |-> 1, replacements |-> 1]
JustEmergencyLists == {EmergencyLists}

MCGroups == {
    EmergencyLists,
    Many({"tapi_data_is_registered", "tapi_data_is_data_emergency_only",
          "tapi_data_is_data_roaming"}),
    Many({"tapi_network_is_voice_registered", "tapi_network_is_voice_emergency_only",
          "tapi_network_is_voice_roaming"}),
    Many({"tapi_data_get_network_type"}), Many({"tapi_network_get_voice_network_type"}),
    One({"tapi_network_get_mcc", "tapi_network_get_mnc", "tapi_sms_get_op_code",
         "tapi_sms_get_coverted_plmn"}),
    Long({"tapi_network_get_display_name"}), One({"tapi_network_get_signalstrength"}),
    Many({"tapi_ims_get_registration", "tapi_ims_is_registered",
          "tapi_ims_is_volte_available"}),
    One({"tapi_get_msisdn_number", "tapi_ims_get_subscriber_uri_number"}),
    Few({"tapi_ims_get_enabled"}), One({"tapi_sim_has_icc_card", "tapi_sim_get_sim_iccid"}),
    Many({"tapi_sim_get_sim_operator"}), Many({"tapi_sim_get_sim_operator_name"}),
    Many({"tapi_sim_get_subscriber_id"}), Few({"tapi_sim_get_sim_state"}),
    Few({"tapi_get_radio_state"}), Few({"tapi_get_modem_status_sync"}),
    Few({"tapi_get_phone_state"}), Few({"tapi_get_imei", "tapi_get_imeisv"}),
    Few({"tapi_get_modem_manufacturer"}), Few({"tapi_get_modem_model"}),
    Few({"tapi_get_modem_revision"}),
    Few({"tapi_get_carrier_config_bool", "tapi_get_carrier_config_int",
         "tapi_get_carrier_config_string"}),
    Few({"tapi_ss_get_call_barring_option"}),
    Few({"tapi_ss_get_calling_line_presentation_info"}), Few({"tapi_get_ussd_state"}),
    Many({"tapi_stk_get_idle_mode_text", "tapi_stk_get_idle_mode_icon"}),
    Many({"tapi_stk_get_main_menu_title", "tapi_stk_get_main_menu_icon"}),

    Twice({"tapi_data_get_enabled"}, {"tapi_data_enable_data"}),
    Pick({"tapi_data_get_enabled"}, {"tapi_data_enable_data"}),
    Pick({"tapi_data_get_roaming_enabled"}, {"tapi_data_enable_roaming"}),
    Pick({"tapi_data_get_preferred_apn"}, {"tapi_data_set_preferred_apn"}),
    Pick({}, {"tapi_data_set_data_allow"}),
    Twice({"tapi_data_get_default_slot"}, {"tapi_data_set_default_slot"}),
    Twice({"tapi_call_get_default_slot"}, {"tapi_call_set_default_slot"}),
    Twice({"tapi_sms_get_default_slot"}, {"tapi_sms_set_default_slot"}),
    Pick({"tapi_sim_get_uicc_enablement"}, {"tapi_sim_set_uicc_enablement"}),
    Pick({"tapi_get_pref_net_mode"}, {"tapi_set_pref_net_mode"}),
    Twice({"tapi_get_radio_power"}, {"tapi_set_radio_power"}),
    Pick({}, {"tapi_send_modem_power"}), Pick({}, {"tapi_set_fast_dormancy"}),
    Pick({"tapi_sms_get_cell_broadcast_power_on"}, {"tapi_sms_set_cell_broadcast_power_on"}),
    Pick({"tapi_sms_get_cell_broadcast_topics"}, {"tapi_sms_set_cell_broadcast_topics"}),
    Pick({"tapi_sms_get_service_center_address"}, {"tapi_sms_set_service_center_address"})}

SkippedInterfaces == {"CallBarring", "CallForwarding", "CallSetting", "Sms"}
=============================================================================
