--------------------------- MODULE IndicationTable ---------------------------
(***************************************************************************)
(* The indications of TAPI: for each message an application can register   *)
(* for, the D-Bus signal it is made from and what the signal callback of   *)
(* the library does with it.                                               *)
(***************************************************************************)

\* What a signal callback does: what it tells the application, and whether it returns
\* true, which keeps the watch.  "news" is status OK with what the signal carries,
\* "unnamed" the same with a msg_id nobody set, "stale" a status or result that the
\* signal did not set.
Tell(what) == [tells |-> what, keeps |-> TRUE]
News    == Tell("news")
Unnamed == Tell("unnamed")
Failure == Tell("error")
Stale   == Tell("stale")
Ignore  == [tells |-> "nothing", keeps |-> TRUE]
Drop    == [tells |-> "nothing", keeps |-> FALSE]

\* By the kind of signal: one the message is about, one about another property of the
\* interface, one without the arguments it should have, and one the message is about
\* while malloc fails.
Reacts(own, other, malformed, nomem) ==
    [own |-> {own}, other |-> {other}, malformed |-> {malformed}, nomem |-> {nomem}]

-----------------------------------------------------------------------------
(* The signal callbacks *)

\* tapi_manager.c
airplane_mode_changed           == Reacts(News, Ignore, Drop, News)
radio_state_changed             == Reacts(News, Ignore, Drop, News)
modem_state_changed             == Reacts(News, Ignore, Drop, News)
modem_ecc_list_change           == Reacts(News, Ignore, Drop, News)
phone_state_changed             == Reacts(News, News, Failure, News)
process_oem_hook_raw_indication == Reacts(News, News, Failure, News)
modem_restart                   == Reacts(News, News, News, News)
device_info_changed             == Reacts(News, News, News, News)
tapi_data_log_ind               == Reacts(News, News, Drop, News)

\* tapi_call.c
tapi_call_default_voicecall_slot_change == Reacts(News, Ignore, Drop, News)
tapi_call_property_change               == Reacts(News, Ignore, Drop, News)
ring_back_tone_change                   == Reacts(News, News, Ignore, News)
call_state_changed                      == Reacts(Unnamed, Unnamed, Drop, Unnamed)

\* tapi_network.c
network_state_changed   == Reacts(News, Ignore, Drop, News)
cellinfo_list_changed   == Reacts(News, Drop, Drop, News)
signal_strength_changed == Reacts(News, Ignore, Drop, Drop)
nitz_state_changed      == Reacts(News, Ignore, Drop, Drop)

\* Variant that gives up a watch on a property it does not know.
data_property_changed_once == Reacts(News, Drop, Ignore, News)
\* Variant that compares the property the wrong way round.
data_property_changed_deaf == Reacts(Ignore, Stale, Ignore, Ignore)

\* tapi_data.c
data_property_changed   == Reacts(News, Ignore, Ignore, News)
data_connection_changed == Reacts(News, News, Failure, Drop)

\* tapi_sim.c
sim_property_changed == Reacts(News, Ignore, Drop, News)

\* tapi_sms.c, for a message with a text and for a status report
unsol_sms_message    == Reacts(News, News, Failure, Failure)
unsol_sms_report     == Reacts(Stale, Stale, Failure, Stale)
sms_property_changed == Reacts(News, Ignore, Drop, News)

\* tapi_cbs.c
unsol_cbs_message == Reacts(News, News, Drop, Drop)

\* tapi_ss.c
call_barring_property_changed == Reacts(News, Stale, Failure, Failure)
ussd_state_changed            == Reacts(News, Stale, Failure, News)
ussd_notification_received    == Reacts(News, News, Failure, News)
ussd_request_received         == Reacts(News, News, Failure, News)

\* tapi_ims.c: another property comes with the capability of the one before.
ims_registration_changed == Reacts(News, Stale, Ignore, News)

-----------------------------------------------------------------------------
(* The watches: the signal's path and name, the properties that are the message's  *)
(* own when it is a PropertyChanged, and whether the callback takes its argument   *)
(* apart in place (strtok), so that nobody can read it again.                      *)

Watch(path, name, own, react) ==
    [path |-> path, name |-> name, own |-> own, react |-> react, spoils |-> FALSE]

Property(path, interface, own, react) ==
    Watch(path, <<interface, "PropertyChanged">>, own, react)

Event(path, interface, member, react) ==
    Watch(path, <<interface, member>>, {"event"}, react)

EmergencyList(interface, react) ==
    [Property("modem", interface, {"EmergencyNumbers"}, react) EXCEPT !.spoils = TRUE]

MSG_RADIO_STATE_CHANGE_IND ==
    Property("modem", "Modem", {"RadioState"}, radio_state_changed)
MSG_PHONE_STATE_CHANGE_IND ==
    Event("modem", "VoiceCallManager", "PhoneStatusChanged", phone_state_changed)
MSG_OEM_HOOK_RAW_IND ==
    Event("modem", "Modem", "OemHookIndication", process_oem_hook_raw_indication)
MSG_MODEM_RESTART_IND == Event("modem", "Modem", "ModemRestart", modem_restart)
MSG_AIRPLANE_MODE_CHANGE_IND ==
    Property("modem", "Modem", {"Online"}, airplane_mode_changed)
MSG_DEVICE_INFO_CHANGE_IND ==
    Event("modem", "Modem", "DeviceInfoChanged", device_info_changed)
MSG_MODEM_STATE_CHANGE_IND ==
    Property("modem", "Modem", {"ModemState"}, modem_state_changed)
MSG_MODEM_ECC_LIST_CHANGE_IND == EmergencyList("Modem", modem_ecc_list_change)
MSG_DATA_LOGING_IND == Event("manager", "Manager", "DataLogInd", tapi_data_log_ind)

MSG_CALL_STATE_CHANGE_IND ==
    Event("modem", "VoiceCallManager", "CallChanged", call_state_changed)
MSG_CALL_RING_BACK_TONE_IND ==
    Event("modem", "VoiceCallManager", "RingBackTone", ring_back_tone_change)
MSG_ECC_LIST_CHANGE_IND == EmergencyList("VoiceCallManager", tapi_call_property_change)
MSG_DEFAULT_VOICECALL_SLOT_CHANGE_IND ==
    Property("manager", "Manager", {"VoiceCallSlot"},
             tapi_call_default_voicecall_slot_change)

RegistrationProperties ==
    {"Mode", "Name", "Status", "LocationAreaCode", "CellId", "DenialReason",
     "Technology", "BaseStation", "MobileCountryCode", "MobileNetworkCode"}
MSG_NETWORK_STATE_CHANGE_IND ==
    Property("modem", "NetworkRegistration", RegistrationProperties,
             network_state_changed)
MSG_VOICE_REGISTRATION_STATE_CHANGE_IND == MSG_NETWORK_STATE_CHANGE_IND
MSG_CELLINFO_CHANGE_IND ==
    Property("modem", "NetworkMonitor", {"CellList"}, cellinfo_list_changed)
MSG_SIGNAL_STRENGTH_CHANGE_IND ==
    Property("modem", "NetworkRegistration", {"SignalStrength"},
             signal_strength_changed)
MSG_NITZ_STATE_CHANGE_IND ==
    Property("modem", "NetworkRegistration", {"NITZ"}, nitz_state_changed)

MSG_DATA_ENABLED_CHANGE_IND ==
    Property("modem", "ConnectionManager", {"DataOn"}, data_property_changed)
MSG_DATA_REGISTRATION_STATE_CHANGE_IND ==
    Property("modem", "ConnectionManager", {"Status"}, data_property_changed)
MSG_DATA_NETWORK_TYPE_CHANGE_IND ==
    Property("modem", "ConnectionManager", {"Technology"}, data_property_changed)
MSG_DATA_CONNECTION_STATE_CHANGE_IND ==
    Event("modem", "ConnectionManager", "ContextChanged", data_connection_changed)
MSG_DEFAULT_DATA_SLOT_CHANGE_IND ==
    Property("manager", "Manager", {"DataSlot"}, data_property_changed)

MSG_SIM_STATE_CHANGE_IND ==
    Property("modem", "SimManager", {"SimState"}, sim_property_changed)
MSG_SIM_UICC_APP_ENABLED_CHANGE_IND ==
    Property("modem", "SimManager", {"UiccActive"}, sim_property_changed)
MSG_SIM_ICCID_CHANGE_IND ==
    Property("modem", "SimManager", {"CardIdentifier"}, sim_property_changed)

MSG_INCOMING_MESSAGE_IND ==
    Event("modem", "MessageManager", "IncomingMessage", unsol_sms_message)
MSG_IMMEDIATE_MESSAGE_IND ==
    Event("modem", "MessageManager", "ImmediateMessage", unsol_sms_message)
MSG_STATUS_REPORT_MESSAGE_IND ==
    Event("modem", "MessageManager", "StatusReportMessage", unsol_sms_report)
MSG_DEFAULT_SMS_SLOT_CHANGED_IND ==
    Property("manager", "Manager", {"SmsSlot"}, sms_property_changed)

MSG_INCOMING_CBS_IND ==
    Event("modem", "CellBroadcast", "IncomingBroadcast", unsol_cbs_message)
MSG_EMERGENCY_CBS_IND ==
    Event("modem", "CellBroadcast", "EmergencyBroadcast", unsol_cbs_message)

MSG_CALL_BARRING_PROPERTY_CHANGE_IND ==
    Property("modem", "CallBarring", {"VoiceIncoming", "VoiceOutgoing"},
             call_barring_property_changed)
MSG_USSD_NOTIFICATION_RECEIVED_IND ==
    Event("modem", "SupplementaryServices", "NotificationReceived",
          ussd_notification_received)
MSG_USSD_REQUEST_RECEIVED_IND ==
    Event("modem", "SupplementaryServices", "RequestReceived", ussd_request_received)
MSG_USSD_PROPERTY_CHANGE_IND ==
    Property("modem", "SupplementaryServices", {"State"}, ussd_state_changed)

MSG_IMS_REGISTRATION_MESSAGE_IND ==
    Property("modem", "Ims", {"Registered", "VoiceCapable", "SmsCapable"},
             ims_registration_changed)
=============================================================================
