--------------------------- MODULE MCRequestsMany ---------------------------
EXTENDS MCRequests

\* What the theorems of RequestsProofs ask of the table, of the table of TAPI.
ASSUME TableIsDisciplined == \A f \in EveryFunction : Disciplined(f)
ASSUME TableReportsErrors ==
    \A f \in EveryFunction : Api[f].reply["error"] \subseteq {"ERROR", "silent"}

\* The functions that take a callback and always tell it a status.
Tellers == {f \in EveryFunction :
    Api[f].event => \A kind \in Kinds : Api[f].reply[kind] \subseteq {"OK", "ERROR"}}

\* The functions with a callback that do not are the ones of the findings and their
\* neighbours; the promise is checked of all others.
ASSUME TellersAreMost ==
    EveryFunction \ Tellers = {
        "tapi_get_modem_activity_info", "tapi_network_scan",
        "tapi_network_get_serving_cellinfos", "tapi_network_get_neighbouring_cellinfos",
        "tapi_network_get_registration_info", "tapi_network_set_cell_info_list_rate",
        "tapi_call_dial", "tapi_sms_send_message", "tapi_sms_send_data_message",
        "tapi_ss_query_call_forwarding_option"}

\* One function of each pattern of checks, allocation and release among them, and
\* one whose interface has no proxy.
Typical == {"tapi_query_modem_list", "tapi_call_get_all_calls",
            "tapi_sim_change_pin", "tapi_sim_open_logical_channel",
            "tapi_ss_set_call_barring_option", "tapi_call_deflect_by_id",
            "tapi_set_radio_power", "tapi_data_request_network",
            "tapi_phonebook_load_adn_entries"}

ASSUME TypicalTell == Typical \subseteq Tellers

NoPhonebook == {"Phonebook"}
=============================================================================
