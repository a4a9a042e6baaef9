---------------------------- MODULE PropertyTable ----------------------------
(***************************************************************************)
(* The functions of TAPI that answer at once from the properties gdbus     *)
(* keeps of oFono's objects, and the functions that set such a property,   *)
(* one record each.  Module PropertyCache runs them.                       *)
(*                                                                         *)
(* What a property can hold is a few values that the functions tell apart. *)
(***************************************************************************)
EXTENDS Integers, Sequences

Missing == "missing"    \* a property the cache does not have

YesNo == {"yes", "no"}
Texts == {"text", "other text"}
AsYes(condition) == IF condition THEN "yes" ELSE "no"

\* A table of tapi_utils.c read in the other direction, as its functions do that
\* compare with the same strings one after the other.
Inverted(table, default, string) ==
    IF \E key \in DOMAIN table : table[key] = string
    THEN CHOOSE key \in DOMAIN table : table[key] = string
    ELSE default

-----------------------------------------------------------------------------
(* tapi_utils.c *)

NetworkModes ==
    [ANY |-> "any", GSM_ONLY |-> "gsm", WCDMA_ONLY |-> "umts", LTE_ONLY |-> "lte",
     UMTS |-> "umts,gsm", LTE_WCDMA |-> "lte,umts", LTE_GSM_WCDMA |-> "lte,umts,gsm"]
tapi_utils_network_mode_to_string(mode) == NetworkModes[mode]

tapi_utils_network_mode_from_string(string) == Inverted(NetworkModes, "ANY", string)

RadioTechnologies == {"EDGE", "UMTS", "LTE", "HSDPA", "HSPA", "HSUPA", "LTE_CA"}
tapi_utils_network_type_from_ril_tech(type) ==
    IF type \in RadioTechnologies THEN type ELSE "UNKNOWN"

\* The states are named by the strings.
RegistrationStates ==
    {"unregistered", "registered", "searching", "denied", "unknown", "roaming",
     "registered_em", "unregistered_em", "searching_em", "denied_em", "unknown_em"}
tapi_utils_registration_status_from_string(status) ==
    IF status \in RegistrationStates THEN status ELSE "unknown"

\* CONFIG_MODEM_PATH, CONFIG_MODEM_PATH_2 and SLOT_NOT_SET, by slot.
ModemPaths == [slot0 |-> "/ril_0", slot1 |-> "/ril_1", none |-> "not set"]
tapi_utils_get_modem_path(slot) == ModemPaths[slot]
tapi_utils_get_slot_id(path) == Inverted(ModemPaths, "none", path)

\* The operators with more than one network code have it by that code.
get_op_code_base_mcc_mnc(mcc, mnc) ==
    IF mcc # "460" THEN "OP_UNKNOW"
    ELSE IF mnc = "00" THEN "OP_CMCC"
    ELSE IF mnc = "03" THEN "OP_CT"
    ELSE "OP_UNKNOW"

\* The digits as letters.
get_covered_plmn(mcc, mnc) == <<"letters of", mcc, mnc>>

-----------------------------------------------------------------------------
(* The properties, by interface and name: what they can hold *)

ValuesOf == [
    data_status |-> RegistrationStates \cup {"some other state"},
    data_technology |-> RadioTechnologies \cup {"some other technology"},
    preferred_apn |-> Texts, data_on |-> YesNo, roaming_allowed |-> YesNo,
    data_allowed |-> YesNo,
    data_slot |-> {"/ril_0", "/ril_1", "not set"},
    voice_slot |-> {"/ril_0", "/ril_1", "not set"},
    sms_slot |-> {"/ril_0", "/ril_1", "not set"},
    network_status |-> RegistrationStates \cup {"some other state"},
    network_technology |-> RadioTechnologies \cup {"some other technology"},
    network_mcc |-> {"460", "310"}, network_mnc |-> {"00", "03"}, network_name |-> Texts,
    ims_registered |-> YesNo, ims_voice |-> YesNo, ims_sms |-> YesNo,
    ims_uri |-> {"sip:number"}, ims_switch |-> YesNo,
    sim_present |-> YesNo, sim_state |-> {"absent", "ready"}, sim_iccid |-> Texts,
    sim_mcc |-> {"460"}, sim_mnc |-> {"00", "03"}, sim_provider |-> Texts,
    sim_imsi |-> Texts, sim_numbers |-> {"no number", "number"},
    sim_uicc |-> {"0", "1"},
    technology_preference |->
        {NetworkModes[mode] : mode \in DOMAIN NetworkModes} \cup {"nr"},
    online |-> YesNo, powered |-> YesNo, fast_dormancy |-> YesNo,
    radio_state |-> {"off", "on"}, modem_state |-> {"aware", "alive"},
    modem_serial |-> Texts, modem_version |-> Texts, modem_manufacturer |-> Texts,
    modem_model |-> Texts, modem_revision |-> Texts, phone_status |-> {"idle", "ringing"},
    carrier_config |-> {"empty", "has the key"},
    signal_strength |-> {"no array", "weak", "strong"},
    cbs_powered |-> YesNo, cbs_topics |-> Texts, sms_center |-> Texts,
    barring |-> {"disabled", "enabled"}, clip |-> {"disabled", "enabled"},
    ussd_state |-> {"idle", "active"},
    stk_idle_text |-> Texts, stk_idle_icon |-> Texts, stk_title |-> Texts,
    stk_icon |-> Texts,
    call_emergency |-> {"no number", "112", "112 and 120"},
    modem_emergency |-> {"112"}]

\* The interface of each property.
InterfaceFor == [
    data_status |-> "Data", data_technology |-> "Data", preferred_apn |-> "Data",
    data_on |-> "Data", roaming_allowed |-> "Data", data_allowed |-> "Data",
    data_slot |-> "Manager", voice_slot |-> "Manager", sms_slot |-> "Manager",
    network_status |-> "NetReg", network_technology |-> "NetReg", network_mcc |-> "NetReg",
    network_mnc |-> "NetReg", network_name |-> "NetReg", signal_strength |-> "NetReg",
    ims_registered |-> "Ims", ims_voice |-> "Ims", ims_sms |-> "Ims", ims_uri |-> "Ims",
    ims_switch |-> "Ims",
    sim_present |-> "Sim", sim_state |-> "Sim", sim_iccid |-> "Sim", sim_mcc |-> "Sim",
    sim_mnc |-> "Sim", sim_provider |-> "Sim", sim_imsi |-> "Sim", sim_numbers |-> "Sim",
    sim_uicc |-> "Sim",
    technology_preference |-> "Radio", fast_dormancy |-> "Radio",
    online |-> "Modem", powered |-> "Modem", radio_state |-> "Modem",
    modem_state |-> "Modem", modem_serial |-> "Modem", modem_version |-> "Modem",
    modem_manufacturer |-> "Modem", modem_model |-> "Modem", modem_revision |-> "Modem",
    carrier_config |-> "Modem", modem_emergency |-> "Modem",
    phone_status |-> "Call", call_emergency |-> "Call",
    cbs_powered |-> "Cbs", cbs_topics |-> "Cbs", sms_center |-> "Sms",
    barring |-> "CallBarring", clip |-> "CallSetting", ussd_state |-> "Ss",
    stk_idle_text |-> "Stk", stk_idle_icon |-> "Stk", stk_title |-> "Stk",
    stk_icon |-> "Stk"]

-----------------------------------------------------------------------------
(* The shapes of the functions *)

Told(value)  == [result |-> "OK", told |-> value]
Error(errno) == [result |-> errno, told |-> "nothing"]

Tuples(of) ==
    {values \in [1..Len(of) -> UNION {ValuesOf[of[k]] : k \in 1..Len(of)}
                               \cup {Missing}] :
        \A k \in 1..Len(of) : values[k] \in ValuesOf[of[k]] \cup {Missing}}

\* The properties a function looks at, all of one slot and interface, and what it makes
\* of what it finds; what it returns if the client is not ready and without a proxy.
Reads(of, Answer(_)) ==
    [of |-> of, answer |-> [v \in Tuples(of) |-> Answer(v)],
     where |-> "slot", notReady |-> "EAGAIN", noProxy |-> "EIO"]

Decoded(p, errno, Decode(_)) ==
    Reads(<<p>>, LAMBDA v : IF v[1] = Missing THEN Error(errno) ELSE Told(Decode(v[1])))
AsItIs(p, errno) == Decoded(p, errno, LAMBDA value : value)

OfDefault(getter) == [getter EXCEPT !.where = "default"]
OfManager(getter) == [getter EXCEPT !.where = "manager"]

\* A function that first asks whether there is a card (tapi_sim_has_icc_card).
WithCard(p, errno) ==
    Reads(<<"sim_present", p>>,
          LAMBDA v : IF v[1] # "yes" THEN Error("EINVAL")
                     ELSE IF v[2] = Missing THEN Error(errno) ELSE Told(v[2]))

\* A function that does not say that it found nothing.
Unfailing(p, default) ==
    Reads(<<p>>, LAMBDA v : Told(IF v[1] = Missing THEN default ELSE v[1]))

\* What a function sets, for which slots, from which arguments it takes and as what;
\* what it returns when the property cannot be sent.
Sets(p, encode) ==
    [sets |-> p, encode |-> encode, scope |-> "slot", card |-> FALSE,
     failures |-> {"EINVAL"}]
Plain(p) == Sets(p, [value \in ValuesOf[p] |-> value])

\* The functions with a callback need memory for its handler (property_set_done).
WithCallback(setter) == [setter EXCEPT !.failures = {"EINVAL", "ENOMEM"}]
ForAll(setter)       == [setter EXCEPT !.scope = "all"]
ForManager(setter)   == [setter EXCEPT !.scope = "manager"]

-----------------------------------------------------------------------------
(* tapi_data.c *)

ServiceStates   == {"registered", "roaming"}
EmergencyStates == {"registered_em", "unregistered_em", "searching_em", "denied_em",
                    "unknown_em"}

tapi_data_is_registered ==
    Decoded("data_status", "EINVAL", LAMBDA s : AsYes(s \in ServiceStates))
tapi_data_is_data_emergency_only ==
    Decoded("data_status", "EINVAL", LAMBDA s : AsYes(s \in EmergencyStates))
tapi_data_is_data_roaming ==
    Decoded("data_status", "EINVAL", LAMBDA s : AsYes(s = "roaming"))
tapi_data_get_network_type ==
    Decoded("data_technology", "EINVAL", tapi_utils_network_type_from_ril_tech)
\* Of its arguments it refuses a wrong slot only: it logs an apn that is NULL and reads
\* its id all the same, so that an apn is taken to be there.
tapi_data_set_preferred_apn    == Plain("preferred_apn")
tapi_data_get_preferred_apn    == AsItIs("preferred_apn", "EINVAL")
tapi_data_enable_data          == ForAll(Plain("data_on"))
tapi_data_get_enabled          == OfDefault(AsItIs("data_on", "EINVAL"))
tapi_data_enable_roaming       == ForAll(Plain("roaming_allowed"))
tapi_data_get_roaming_enabled  == OfDefault(AsItIs("roaming_allowed", "EINVAL"))
tapi_data_set_data_allow       == WithCallback(Plain("data_allowed"))

SlotFrom(p) == OfManager(Decoded(p, "EINVAL", tapi_utils_get_slot_id))
SlotTo(p, slots) ==
    ForManager(Sets(p, [slot \in slots |-> tapi_utils_get_modem_path(slot)]))

tapi_data_set_default_slot == SlotTo("data_slot", {"slot0", "slot1"})
tapi_data_get_default_slot == SlotFrom("data_slot")

-----------------------------------------------------------------------------
(* tapi_call.c, tapi_sms.c, tapi_cbs.c *)

tapi_call_set_default_slot == SlotTo("voice_slot", {"slot0", "slot1", "none"})
tapi_call_get_default_slot == SlotFrom("voice_slot")
tapi_sms_set_default_slot  == SlotTo("sms_slot", {"slot0", "slot1", "none"})
tapi_sms_get_default_slot  == SlotFrom("sms_slot")

\* The function returns a bool, so that a failure is one and success zero.
tapi_sms_set_service_center_address == [Plain("sms_center") EXCEPT !.failures = {"true"}]
tapi_sms_get_service_center_address ==
    [Unfailing("sms_center", "NULL") EXCEPT !.notReady = "not asked"]

tapi_sms_set_cell_broadcast_power_on == Plain("cbs_powered")
tapi_sms_get_cell_broadcast_power_on ==
    [Unfailing("cbs_powered", "no") EXCEPT !.notReady = "not asked", !.noProxy = "EISCONN"]
tapi_sms_set_cell_broadcast_topics == Plain("cbs_topics")
tapi_sms_get_cell_broadcast_topics ==
    [Unfailing("cbs_topics", "NULL") EXCEPT !.notReady = "not asked", !.noProxy = "EISCONN"]

\* The operation code, or the letters, of both codes of the network; of two calls.
OfNetworkCodes(Combine(_, _), failure) ==
    [Reads(<<"network_mcc", "network_mnc">>,
           LAMBDA v : IF Missing \in {v[1], v[2]} THEN Error(failure)
                      ELSE Told(Combine(v[1], v[2])))
     EXCEPT !.notReady = failure, !.noProxy = failure]
tapi_sms_get_op_code       == OfNetworkCodes(get_op_code_base_mcc_mnc, "OP_UNKNOW")
tapi_sms_get_coverted_plmn == OfNetworkCodes(get_covered_plmn, "unknow")

-----------------------------------------------------------------------------
(* tapi_network.c *)

OfVoiceState(Test(_)) ==
    Decoded("network_status", "EINVAL",
            LAMBDA s : AsYes(Test(tapi_utils_registration_status_from_string(s))))

tapi_network_is_voice_registered     == OfVoiceState(LAMBDA s : s \in ServiceStates)
tapi_network_is_voice_emergency_only == OfVoiceState(LAMBDA s : s \in EmergencyStates)
tapi_network_is_voice_roaming        == OfVoiceState(LAMBDA s : s = "roaming")
tapi_network_get_voice_network_type ==
    Decoded("network_technology", "EINVAL", tapi_utils_network_type_from_ril_tech)
tapi_network_get_mcc          == AsItIs("network_mcc", "EIO")
tapi_network_get_mnc          == AsItIs("network_mnc", "EIO")
tapi_network_get_display_name == AsItIs("network_name", "EINVAL")
tapi_network_get_signalstrength ==
    Reads(<<"signal_strength">>, LAMBDA v : IF v[1] \in {Missing, "no array"}
                                            THEN Error("EINVAL") ELSE Told(v[1]))

-----------------------------------------------------------------------------
(* tapi_ims.c *)

\* The flag of a capability is not set when its property is missing.
tapi_ims_get_registration ==
    Reads(<<"ims_registered", "ims_voice", "ims_sms">>,
          LAMBDA v : IF v[1] = Missing THEN Error("EIO")
                     ELSE Told(<<v[1], AsYes(v[2] = "yes"), AsYes(v[3] = "yes")>>))
tapi_ims_is_registered == AsItIs("ims_registered", "EIO")
tapi_ims_is_volte_available ==
    Reads(<<"ims_registered", "ims_voice">>,
          LAMBDA v : IF Missing \in {v[1], v[2]} THEN Error("EIO")
                     ELSE Told(AsYes({v[1], v[2]} = {"yes"})))
tapi_ims_get_subscriber_uri_number == AsItIs("ims_uri", "EINVAL")
tapi_ims_get_enabled               == AsItIs("ims_switch", "EINVAL")

-----------------------------------------------------------------------------
(* tapi_sim.c *)

tapi_sim_has_icc_card          == AsItIs("sim_present", "EINVAL")
tapi_sim_get_sim_state         == AsItIs("sim_state", "EINVAL")
tapi_sim_get_sim_iccid         == WithCard("sim_iccid", "EINVAL")
tapi_sim_get_sim_operator_name == WithCard("sim_provider", "EINVAL")
tapi_sim_get_subscriber_id     == WithCard("sim_imsi", "EINVAL")
tapi_sim_get_uicc_enablement   == WithCard("sim_uicc", "ERROR")
tapi_sim_get_sim_operator ==
    Reads(<<"sim_present", "sim_mcc", "sim_mnc">>,
          LAMBDA v : IF v[1] # "yes" THEN Error("EINVAL")
                     ELSE IF Missing \in {v[2], v[3]} THEN Error("EIO")
                     ELSE Told(<<v[2], v[3]>>))
tapi_sim_set_uicc_enablement == [WithCallback(Plain("sim_uicc")) EXCEPT !.card = TRUE]

-----------------------------------------------------------------------------
(* tapi_manager.c *)

tapi_set_pref_net_mode ==
    WithCallback(Sets("technology_preference",
        [mode \in DOMAIN NetworkModes |-> tapi_utils_network_mode_to_string(mode)]))
tapi_get_pref_net_mode ==
    Decoded("technology_preference", "EINVAL", tapi_utils_network_mode_from_string)
tapi_send_modem_power      == Plain("powered")
tapi_set_radio_power       == WithCallback(Plain("online"))
tapi_get_radio_power       == AsItIs("online", "EINVAL")
tapi_get_radio_state       == AsItIs("radio_state", "EINVAL")
tapi_set_fast_dormancy     == WithCallback(Plain("fast_dormancy"))
tapi_get_imei              == AsItIs("modem_serial", "EINVAL")
tapi_get_imeisv            == AsItIs("modem_version", "EINVAL")
tapi_get_modem_manufacturer == AsItIs("modem_manufacturer", "EINVAL")
tapi_get_modem_model       == AsItIs("modem_model", "EINVAL")
tapi_get_modem_revision    == AsItIs("modem_revision", "EINVAL")
tapi_get_phone_state       == AsItIs("phone_status", "EINVAL")
tapi_get_modem_status_sync == AsItIs("modem_state", "EINVAL")

\* The value of a key; the three functions differ in its type.
OfCarrierConfig ==
    Reads(<<"carrier_config">>, LAMBDA v : IF v[1] = "has the key" THEN Told("value")
                                           ELSE Error("EINVAL"))
tapi_get_carrier_config_bool   == OfCarrierConfig
tapi_get_carrier_config_int    == OfCarrierConfig
tapi_get_carrier_config_string == OfCarrierConfig

\* The first number; of an empty list nothing is told, with status OK.
tapi_get_msisdn_number ==
    Decoded("sim_numbers", "EIO", LAMBDA n : IF n = "no number" THEN "NULL" ELSE n)

-----------------------------------------------------------------------------
(* tapi_ss.c, tapi_stk.c *)

tapi_ss_get_call_barring_option            == AsItIs("barring", "EINVAL")
tapi_ss_get_calling_line_presentation_info == AsItIs("clip", "EINVAL")
tapi_get_ussd_state                        == AsItIs("ussd_state", "EINVAL")
tapi_stk_get_idle_mode_text  == AsItIs("stk_idle_text", "ERROR")
tapi_stk_get_idle_mode_icon  == AsItIs("stk_idle_icon", "ERROR")
tapi_stk_get_main_menu_title == AsItIs("stk_title", "ERROR")
tapi_stk_get_main_menu_icon  == AsItIs("stk_icon", "ERROR")
=============================================================================
