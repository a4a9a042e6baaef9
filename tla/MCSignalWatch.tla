---------------------------- MODULE MCSignalWatch ----------------------------
(***************************************************************************)
(* SignalWatch over the watches the library really makes.                  *)
(***************************************************************************)
EXTENDS SignalWatch

Table == INSTANCE IndicationTable

MCIndications == [
    MSG_RADIO_STATE_CHANGE_IND |-> Table!MSG_RADIO_STATE_CHANGE_IND,
    MSG_PHONE_STATE_CHANGE_IND |-> Table!MSG_PHONE_STATE_CHANGE_IND,
    MSG_OEM_HOOK_RAW_IND |-> Table!MSG_OEM_HOOK_RAW_IND,
    MSG_MODEM_RESTART_IND |-> Table!MSG_MODEM_RESTART_IND,
    MSG_AIRPLANE_MODE_CHANGE_IND |-> Table!MSG_AIRPLANE_MODE_CHANGE_IND,
    MSG_DEVICE_INFO_CHANGE_IND |-> Table!MSG_DEVICE_INFO_CHANGE_IND,
    MSG_MODEM_STATE_CHANGE_IND |-> Table!MSG_MODEM_STATE_CHANGE_IND,
    MSG_MODEM_ECC_LIST_CHANGE_IND |-> Table!MSG_MODEM_ECC_LIST_CHANGE_IND,
    MSG_DATA_LOGING_IND |-> Table!MSG_DATA_LOGING_IND,
    MSG_CALL_STATE_CHANGE_IND |-> Table!MSG_CALL_STATE_CHANGE_IND,
    MSG_CALL_RING_BACK_TONE_IND |-> Table!MSG_CALL_RING_BACK_TONE_IND,
    MSG_ECC_LIST_CHANGE_IND |-> Table!MSG_ECC_LIST_CHANGE_IND,
    MSG_DEFAULT_VOICECALL_SLOT_CHANGE_IND |-> Table!MSG_DEFAULT_VOICECALL_SLOT_CHANGE_IND,
    MSG_NETWORK_STATE_CHANGE_IND |-> Table!MSG_NETWORK_STATE_CHANGE_IND,
    MSG_VOICE_REGISTRATION_STATE_CHANGE_IND |-> Table!MSG_VOICE_REGISTRATION_STATE_CHANGE_IND,
    MSG_CELLINFO_CHANGE_IND |-> Table!MSG_CELLINFO_CHANGE_IND,
    MSG_SIGNAL_STRENGTH_CHANGE_IND |-> Table!MSG_SIGNAL_STRENGTH_CHANGE_IND,
    MSG_NITZ_STATE_CHANGE_IND |-> Table!MSG_NITZ_STATE_CHANGE_IND,
    MSG_DATA_ENABLED_CHANGE_IND |-> Table!MSG_DATA_ENABLED_CHANGE_IND,
    MSG_DATA_REGISTRATION_STATE_CHANGE_IND |-> Table!MSG_DATA_REGISTRATION_STATE_CHANGE_IND,
    MSG_DATA_NETWORK_TYPE_CHANGE_IND |-> Table!MSG_DATA_NETWORK_TYPE_CHANGE_IND,
    MSG_DATA_CONNECTION_STATE_CHANGE_IND |-> Table!MSG_DATA_CONNECTION_STATE_CHANGE_IND,
    MSG_DEFAULT_DATA_SLOT_CHANGE_IND |-> Table!MSG_DEFAULT_DATA_SLOT_CHANGE_IND,
    MSG_SIM_STATE_CHANGE_IND |-> Table!MSG_SIM_STATE_CHANGE_IND,
    MSG_SIM_UICC_APP_ENABLED_CHANGE_IND |-> Table!MSG_SIM_UICC_APP_ENABLED_CHANGE_IND,
    MSG_SIM_ICCID_CHANGE_IND |-> Table!MSG_SIM_ICCID_CHANGE_IND,
    MSG_INCOMING_MESSAGE_IND |-> Table!MSG_INCOMING_MESSAGE_IND,
    MSG_IMMEDIATE_MESSAGE_IND |-> Table!MSG_IMMEDIATE_MESSAGE_IND,
    MSG_STATUS_REPORT_MESSAGE_IND |-> Table!MSG_STATUS_REPORT_MESSAGE_IND,
    MSG_DEFAULT_SMS_SLOT_CHANGED_IND |-> Table!MSG_DEFAULT_SMS_SLOT_CHANGED_IND,
    MSG_INCOMING_CBS_IND |-> Table!MSG_INCOMING_CBS_IND,
    MSG_EMERGENCY_CBS_IND |-> Table!MSG_EMERGENCY_CBS_IND,
    MSG_CALL_BARRING_PROPERTY_CHANGE_IND |-> Table!MSG_CALL_BARRING_PROPERTY_CHANGE_IND,
    MSG_USSD_NOTIFICATION_RECEIVED_IND |-> Table!MSG_USSD_NOTIFICATION_RECEIVED_IND,
    MSG_USSD_REQUEST_RECEIVED_IND |-> Table!MSG_USSD_REQUEST_RECEIVED_IND,
    MSG_USSD_PROPERTY_CHANGE_IND |-> Table!MSG_USSD_PROPERTY_CHANGE_IND,
    MSG_IMS_REGISTRATION_MESSAGE_IND |-> Table!MSG_IMS_REGISTRATION_MESSAGE_IND]

AllMessages == DOMAIN MCIndications \ {Second}

\* Messages whose watches share signals, paths and callbacks.
SharedMessages ==
    {"MSG_RADIO_STATE_CHANGE_IND", "MSG_AIRPLANE_MODE_CHANGE_IND",
     "MSG_DEFAULT_DATA_SLOT_CHANGE_IND", "MSG_INCOMING_CBS_IND",
     "MSG_DATA_ENABLED_CHANGE_IND"}

OneSlot  == {"slot0"}
BothSlots == {"slot0", "slot1"}
=============================================================================
