----------------------------- MODULE SignalWatch -----------------------------
(***************************************************************************)
(* Indications: the application registers for a message, the library puts  *)
(* a watch on a signal of oFono and tells the application's callback of    *)
(* each signal, until the application unregisters.                         *)
(*                                                                         *)
(* gdbus is external, as the library uses it: it gives a signal to every   *)
(* watch on it that was there when the signal came, one after the other,   *)
(* and removes a watch when the application asks or when the library's     *)
(* callback returns false; whenever it removes a watch it frees the        *)
(* handler.  The application's callback runs inside the library's, and may *)
(* call the library again.                                                 *)
(***************************************************************************)
EXTENDS Integers, Sequences

CONSTANTS
    Indications,    \* the watches of module IndicationTable, by message
    Messages,       \* the messages the application registers for
    Registrations,  \* bound: the registrations it makes
    Slots,          \* the SIM slots
    Faults,         \* what else can happen to a signal: "malformed", "nomem"
    LogsOverMiwear, \* CONFIG_OFONO_DATA_LOG_OVER_MIWEAR
    MaxSignals      \* bound: the signals oFono sends

Kinds     == {"own", "other", "malformed", "nomem"}
Told      == {"news", "unnamed", "error", "stale"}
Reactions == [tells: Told \cup {"nothing"}, keeps: BOOLEAN]

\* The emergency list is watched twice by tapi_register, the second time as this one.
Second == "MSG_MODEM_ECC_LIST_CHANGE_IND"

ASSUME WatchAssumption ==
    /\ \A m \in Messages \cup {Second} :
          /\ Indications[m].react \in [Kinds -> SUBSET Reactions]
          /\ "malformed" \notin Indications[m].own
    /\ "none" \notin Messages
    /\ Faults \subseteq {"malformed", "nomem"}
    /\ LogsOverMiwear \in BOOLEAN /\ MaxSignals \in Nat

Watches == Registrations \X {1, 2}
None    == <<>>

\* What a table of watches can be asked to be (the theorems need it): a callback that
\* runs the application's returns true; every callback returns true.
ReactionsTo(kinds) ==
    UNION {Indications[m].react[kind] : m \in Messages \cup {Second}, kind \in kinds}
Occurring    == {"own", "other"} \cup Faults
TellingKeeps == \A reaction \in ReactionsTo(Occurring) :
                   reaction.tells # "nothing" => reaction.keeps
AlwaysKeeps  == \A reaction \in ReactionsTo(Occurring) : reaction.keeps

\* One watch per registration, and no other way to the application's callback.
OneWay == "MSG_ECC_LIST_CHANGE_IND" \notin Messages /\ ~LogsOverMiwear

VARIABLES
    open,     \* the context is open
    message,  \* per registration: what it is for
    slot,     \* per registration: the slot
    stage,    \* per registration: how far it is
    returned, \* per registration: what the last function about it returned
    watch,    \* per watch: what became of its handler
    logger,   \* ctx->logging_over_miwear_cb, as the registration that set it
    heard,    \* per registration: what its callback was told, in order
    signals,  \* how many signals oFono sent
    signal,   \* the signal gdbus is dispatching
    todo,     \* the watches that have not been given it
    spoiled,  \* its argument has been taken apart
    running,  \* the watch whose callback runs the application's, or None
    keep      \* what the library's callback will return then

appVars    == <<open, message, slot, stage, returned, logger>>
signalVars == <<signals, signal, spoiled>>
callVars   == <<running, keep>>
vars == <<appVars, watch, heard, signalVars, todo, callVars>>

Stages == {"unborn", "refused", "registered", "unregistered", "lost"}

TypeOK ==
    /\ open \in BOOLEAN
    /\ message \in [Registrations -> Messages \cup {"none"}]
    /\ slot \in [Registrations -> Slots]
    /\ stage \in [Registrations -> Stages]
    /\ returned \in [Registrations -> {"nothing", "id", "zero", "one", "errno"}]
    /\ watch \in [Watches -> {"none", "live", "freed", "twice"}]
    /\ logger \in Registrations \cup {"none"}
    /\ heard \in [Registrations -> Seq(Told \cup {"undefined", "log"})]
    /\ signals \in 0..MaxSignals
    /\ todo \subseteq Watches
    /\ spoiled \in BOOLEAN
    /\ running \in Watches \cup {None}
    /\ keep \in BOOLEAN

Init ==
    /\ open = TRUE
    /\ message = [r \in Registrations |-> "none"]
    /\ slot \in [Registrations -> Slots]
    /\ stage = [r \in Registrations |-> "unborn"]
    /\ returned = [r \in Registrations |-> "nothing"]
    /\ watch = [w \in Watches |-> "none"]
    /\ logger = "none"
    /\ heard = [r \in Registrations |-> <<>>]
    /\ signals = 0 /\ signal = None /\ spoiled = FALSE
    /\ todo = {}
    /\ running = None /\ keep = TRUE

\* The application runs from the event loop or inside a callback.
ApplicationRuns == open /\ (running # None \/ todo = {})

Message(w) == IF w[2] = 1 THEN message[w[1]] ELSE Second

FreeHandler(w) == [watch EXCEPT ![w] = IF @ = "live" THEN "freed" ELSE "twice"]

-----------------------------------------------------------------------------
(* Registering *)

\* Variant: the handler is not freed when gdbus refuses the watch.
RegisterLeaks(r, m, parts) ==
    /\ ApplicationRuns /\ stage[r] = "unborn"
    /\ message' = [message EXCEPT ![r] = m]
    /\ \E made \in SUBSET parts :
          /\ watch' = [w \in Watches |->
                          IF w[1] = r /\ w[2] \in made THEN "live"
                          ELSE IF w[1] = r /\ w[2] \in parts THEN "leaked" ELSE watch[w]]
          /\ stage' = [stage EXCEPT ![r] = IF 1 \in made THEN "registered" ELSE "refused"]
          /\ returned' = [returned EXCEPT ![r] = IF 1 \in made THEN "id" ELSE "errno"]
          /\ logger' = IF m = "MSG_DATA_LOGING_IND" /\ 1 \in made THEN r ELSE logger
    /\ UNCHANGED <<open, slot, heard, signalVars, todo, callVars>>

\* A register function makes some of the watches it is after; arguments, memory and
\* gdbus can fail each of them, and then its blocks are freed.  Only the id of the first
\* is returned.  The logging callback is set when the watch for it is.
Register(r, m, parts) ==
    /\ ApplicationRuns /\ stage[r] = "unborn"
    /\ message' = [message EXCEPT ![r] = m]
    /\ \E made \in SUBSET parts :
          /\ watch' = [w \in Watches |->
                          IF w[1] = r /\ w[2] \in made THEN "live" ELSE watch[w]]
          /\ stage' = [stage EXCEPT ![r] = IF 1 \in made THEN "registered" ELSE "refused"]
          /\ returned' = [returned EXCEPT ![r] = IF 1 \in made THEN "id" ELSE "errno"]
          /\ logger' = IF m = "MSG_DATA_LOGING_IND" /\ 1 \in made THEN r ELSE logger
    /\ UNCHANGED <<open, slot, heard, signalVars, todo, callVars>>

RegisterOne(r, m) == Register(r, m, {1})

tapi_modem_register(r, m) ==
    /\ m \in {"MSG_RADIO_STATE_CHANGE_IND", "MSG_PHONE_STATE_CHANGE_IND",
              "MSG_OEM_HOOK_RAW_IND", "MSG_MODEM_RESTART_IND",
              "MSG_AIRPLANE_MODE_CHANGE_IND", "MSG_DEVICE_INFO_CHANGE_IND",
              "MSG_MODEM_STATE_CHANGE_IND"}
    /\ RegisterOne(r, m)

tapi_manager_register_data_loging(r, m) ==
    m = "MSG_DATA_LOGING_IND" /\ RegisterOne(r, m)

tapi_call_register_call_state_change(r, m) ==
    m = "MSG_CALL_STATE_CHANGE_IND" /\ RegisterOne(r, m)

\* tapi_register_manager_call_signal
tapi_call_register_ringback_tone_change(r, m) ==
    m = "MSG_CALL_RING_BACK_TONE_IND" /\ RegisterOne(r, m)
tapi_call_register_emergency_list_change(r, m) ==
    m = "MSG_ECC_LIST_CHANGE_IND" /\ RegisterOne(r, m)
tapi_call_register_default_voicecall_slot_change(r, m) ==
    m = "MSG_DEFAULT_VOICECALL_SLOT_CHANGE_IND" /\ RegisterOne(r, m)

tapi_network_register(r, m) ==
    /\ m \in {"MSG_NETWORK_STATE_CHANGE_IND", "MSG_VOICE_REGISTRATION_STATE_CHANGE_IND",
              "MSG_CELLINFO_CHANGE_IND", "MSG_SIGNAL_STRENGTH_CHANGE_IND",
              "MSG_NITZ_STATE_CHANGE_IND"}
    /\ RegisterOne(r, m)

tapi_data_register(r, m) ==
    /\ m \in {"MSG_DATA_ENABLED_CHANGE_IND", "MSG_DATA_REGISTRATION_STATE_CHANGE_IND",
              "MSG_DATA_NETWORK_TYPE_CHANGE_IND",
              "MSG_DATA_CONNECTION_STATE_CHANGE_IND",
              "MSG_DEFAULT_DATA_SLOT_CHANGE_IND"}
    /\ RegisterOne(r, m)

tapi_sim_register(r, m) ==
    /\ m \in {"MSG_SIM_STATE_CHANGE_IND", "MSG_SIM_UICC_APP_ENABLED_CHANGE_IND",
              "MSG_SIM_ICCID_CHANGE_IND"}
    /\ RegisterOne(r, m)

SmsMessages == {"MSG_INCOMING_MESSAGE_IND", "MSG_IMMEDIATE_MESSAGE_IND",
                "MSG_STATUS_REPORT_MESSAGE_IND", "MSG_DEFAULT_SMS_SLOT_CHANGED_IND"}

tapi_sms_register(r, m) == m \in SmsMessages /\ RegisterOne(r, m)

tapi_cbs_register(r, m) ==
    m \in {"MSG_INCOMING_CBS_IND", "MSG_EMERGENCY_CBS_IND"} /\ RegisterOne(r, m)

SsMessages == {"MSG_CALL_BARRING_PROPERTY_CHANGE_IND",
               "MSG_USSD_NOTIFICATION_RECEIVED_IND", "MSG_USSD_REQUEST_RECEIVED_IND",
               "MSG_USSD_PROPERTY_CHANGE_IND"}

tapi_ss_register(r, m) == m \in SsMessages /\ RegisterOne(r, m)

tapi_ims_register_registration_change(r, m) ==
    m = "MSG_IMS_REGISTRATION_MESSAGE_IND" /\ RegisterOne(r, m)

\* What tapi_register does not know it does not register, and says zero.
Unserved == SsMessages \cup {"MSG_SIM_ICCID_CHANGE_IND",
                             "MSG_DEFAULT_SMS_SLOT_CHANGED_IND"}

RegisterNothing(r, m) ==
    /\ ApplicationRuns /\ stage[r] = "unborn" /\ m \in Unserved
    /\ message' = [message EXCEPT ![r] = m]
    /\ stage' = [stage EXCEPT ![r] = "refused"]
    /\ returned' = [returned EXCEPT ![r] = "zero"]
    /\ UNCHANGED <<open, slot, watch, logger, heard, signalVars, todo, callVars>>

tapi_register(r, m) ==
    \/ m = "MSG_ECC_LIST_CHANGE_IND" /\ Register(r, m, {1, 2})
    \/ tapi_call_register_call_state_change(r, m)
    \/ tapi_call_register_ringback_tone_change(r, m)
    \/ tapi_call_register_default_voicecall_slot_change(r, m)
    \/ tapi_network_register(r, m)
    \/ tapi_data_register(r, m)
    \/ m \notin Unserved /\ tapi_sim_register(r, m)
    \/ m \notin Unserved /\ tapi_sms_register(r, m)
    \/ tapi_cbs_register(r, m)
    \/ tapi_modem_register(r, m)
    \/ tapi_ims_register_registration_change(r, m)
    \/ tapi_manager_register_data_loging(r, m)
    \/ RegisterNothing(r, m)

-----------------------------------------------------------------------------
(* Unregistering *)

\* Variant: unregistering succeeds, but the watch stays.
UnregisterForgets(r, success) ==
    /\ ApplicationRuns /\ stage[r] = "registered"
    /\ stage' = [stage EXCEPT ![r] = "unregistered"]
    /\ returned' = [returned EXCEPT ![r] = success]
    /\ UNCHANGED <<open, message, slot, watch, logger, heard, signalVars, todo, callVars>>

\* gdbus knows a watch until it is removed; the id is that of the first watch.
Unregister(r, success) ==
    /\ ApplicationRuns /\ stage[r] = "registered"
    /\ IF watch[<<r, 1>>] = "live"
       THEN /\ watch' = FreeHandler(<<r, 1>>)
            /\ todo' = todo \ {<<r, 1>>}
            /\ stage' = [stage EXCEPT ![r] = "unregistered"]
            /\ returned' = [returned EXCEPT ![r] = success]
       ELSE /\ stage' = [stage EXCEPT ![r] = "lost"]
            /\ returned' = [returned EXCEPT ![r] = IF success = "one" THEN "zero" ELSE "errno"]
            /\ UNCHANGED <<watch, todo>>
    /\ UNCHANGED <<open, message, slot, logger, heard, signalVars, callVars>>

\* All but one of the unregister functions are the same, and serve any message.
tapi_unregister(r) == Unregister(r, "zero")

tapi_sms_unregister(r) == message[r] \in SmsMessages /\ Unregister(r, "one")

-----------------------------------------------------------------------------
(* Signals *)

Watchable ==
    Messages \cup (IF "MSG_ECC_LIST_CHANGE_IND" \in Messages THEN {Second} ELSE {})

\* What a signal of this path and name is about: one of the properties somebody cares
\* about, or of the others.
Topics(path, name) ==
    LET listeners == {m \in Watchable : /\ Indications[m].path = path
                                       /\ Indications[m].name = name}
    IN  (UNION {Indications[m].own : m \in listeners})
        \cup (IF name[2] = "PropertyChanged" THEN {"unrelated"} ELSE {})
        \cup (Faults \cap {"malformed"})

\* The third thing a table can be asked to be: a callback tells of the signals about its
\* message and of no other it can be given.
Disciplined ==
    \A m \in Watchable :
        /\ \A reaction \in Indications[m].react["own"] : reaction.tells # "nothing"
        /\ \/ Topics(Indications[m].path, Indications[m].name)
                 \subseteq Indications[m].own \cup {"malformed"}
           \/ \A reaction \in Indications[m].react["other"] : reaction.tells = "nothing"

\* The manager's signals are about no slot.
Signals ==
    UNION {[path : {Indications[m].path}, name : {Indications[m].name},
            slot : IF Indications[m].path = "manager" THEN {"no slot"} ELSE Slots,
            topic : Topics(Indications[m].path, Indications[m].name)] : m \in Watchable}

On(w, s) ==
    LET i == Indications[Message(w)]
    IN  /\ watch[w] = "live"
        /\ i.path = s.path /\ i.name = s.name
        /\ i.path = "manager" \/ slot[w[1]] = s.slot

About(w) == signal.topic \in Indications[Message(w)].own

oFonoSignals(s) ==
    /\ open /\ running = None /\ todo = {} /\ signals < MaxSignals
    /\ signals' = signals + 1
    /\ signal' = s /\ spoiled' = FALSE
    /\ todo' = {w \in Watches : On(w, s)}
    /\ UNCHANGED <<appVars, watch, heard, callVars>>

\* malloc fails now or then, if at all.
KindsFor(w) ==
    IF signal.topic = "malformed" THEN {"malformed"}
    ELSE IF About(w) THEN {"own"} \cup (Faults \cap {"nomem"}) ELSE {"other"}

\* The library's callback returns at once, or runs the application's first.
Deliver(w) ==
    /\ running = None /\ w \in todo
    /\ LET i == Indications[Message(w)]
       IN  \E kind \in KindsFor(w) : \E reaction \in i.react[kind] :
          \/ /\ reaction.tells = "nothing"
             /\ todo' = todo \ {w}
             /\ watch' = IF reaction.keeps THEN watch ELSE FreeHandler(w)
             /\ UNCHANGED <<heard, spoiled, callVars>>
          \/ /\ reaction.tells # "nothing"
             /\ heard' = [heard EXCEPT ![w[1]] =
                   Append(@, IF spoiled /\ i.spoils THEN "undefined" ELSE reaction.tells)]
             /\ spoiled' = (spoiled \/ i.spoils)
             /\ running' = w /\ keep' = reaction.keeps
             /\ UNCHANGED <<watch, todo>>
    /\ UNCHANGED <<appVars, signals, signal>>

\* Variant: the callback returns false when the application has unregistered in it.
ReturnGivesUp ==
    /\ running # None
    /\ running' = None /\ keep' = TRUE
    /\ todo' = todo \ {running}
    /\ watch' = IF keep /\ watch[running] = "live" THEN watch ELSE FreeHandler(running)
    /\ UNCHANGED <<appVars, heard, signalVars>>

\* Both callbacks return.
Return ==
    /\ running # None
    /\ running' = None /\ keep' = TRUE
    /\ todo' = todo \ {running}
    /\ watch' = IF keep THEN watch ELSE FreeHandler(running)
    /\ UNCHANGED <<appVars, heard, signalVars>>

-----------------------------------------------------------------------------
(* Reports, and the end *)

\* report_data_logging_for_call, _for_sms and _for_ss, from what oFono answers or sends.
report_data_logging ==
    /\ open /\ running = None /\ todo = {} /\ signals < MaxSignals
    /\ LogsOverMiwear /\ logger # "none"
    /\ signals' = signals + 1
    /\ heard' = [heard EXCEPT ![logger] = Append(@, "log")]
    /\ UNCHANGED <<appVars, watch, signal, spoiled, todo, callVars>>

\* The application closes the context from its event loop.  Whether the watches and
\* their handlers go with the connection is gdbus's.
tapi_close ==
    /\ open /\ running = None /\ todo = {}
    /\ open' = FALSE
    /\ \E destroyed \in BOOLEAN :
          watch' = [w \in Watches |->
                       IF destroyed /\ watch[w] = "live" THEN "freed" ELSE watch[w]]
    /\ UNCHANGED <<message, slot, stage, returned, logger, heard, signalVars, todo, callVars>>

Next ==
    \/ \E r \in Registrations :
          \/ \E m \in Messages :
                \/ tapi_register(r, m)
                \/ tapi_network_register(r, m)
                \/ tapi_data_register(r, m)
                \/ tapi_sim_register(r, m)
                \/ tapi_sms_register(r, m)
                \/ tapi_cbs_register(r, m)
                \/ tapi_ss_register(r, m)
                \/ tapi_ims_register_registration_change(r, m)
                \/ tapi_call_register_call_state_change(r, m)
                \/ tapi_call_register_ringback_tone_change(r, m)
                \/ tapi_call_register_emergency_list_change(r, m)
                \/ tapi_call_register_default_voicecall_slot_change(r, m)
          \/ tapi_unregister(r)
          \/ tapi_sms_unregister(r)
    \/ \E s \in Signals : oFonoSignals(s)
    \/ \E w \in Watches : Deliver(w)
    \/ Return
    \/ report_data_logging
    \/ tapi_close

\* gdbus goes through the watches, and the callbacks return.
Fairness == WF_vars(\E w \in Watches : Deliver(w)) /\ WF_vars(Return)

Spec == Init /\ [][Next]_vars /\ Fairness

-----------------------------------------------------------------------------
(* Properties *)

\* A handler is freed once, also when the application unregisters inside its own
\* callback and when the callback gives the watch up.
HandlersFreedOnce == \A w \in Watches : watch[w] # "twice"

\* "Unregister radio event callback": only who is registered is called back
\* (tapi_unregister, tapi_register).
UnregisteredIsSilent ==
    [][\A r \in Registrations : heard'[r] # heard[r] => stage[r] = "registered"]_vars

\* No signal ends a registration: as long as the application has not unregistered and
\* the context is open, the watch is there (the values the signal callbacks return).
RegistrationLasts ==
    \A r \in Registrations :
        open /\ stage[r] = "registered" => watch[<<r, 1>>] = "live"

HeardOnly(bad) == \A r \in Registrations : \A i \in 1..Len(heard[r]) : heard[r][i] # bad

\* A result holds what its signal says, never what is left of an earlier one or of
\* nothing (the assignments to ar->status and ar->data before cb(ar)).  It does not hold
\* of ussd_state_changed, call_barring_property_changed, ims_registration_changed and the
\* status reports of unsol_sms_message.
NewsIsCurrent == HeardOnly("stale")

\* A result names its message, which the applications branch on (result->msg_id).
MessageIsNamed == HeardOnly("unnamed")

\* Whoever registers for the emergency list can read it (modem_ecc_list_change,
\* tapi_call_property_change).
ListIsReadable == HeardOnly("undefined")

\* "Positive value as watch_id on success; a negated errno value on failure", and "Zero
\* on success; a negated errno value on failure".
ReturnsAsDocumented ==
    \A r \in Registrations :
        /\ stage[r] = "registered" => returned[r] = "id"
        /\ stage[r] \in {"refused", "lost"} => returned[r] = "errno"
        /\ stage[r] = "unregistered" => returned[r] = "zero"

-----------------------------------------------------------------------------
(* What registering promises *)

StateOf(r) ==
    IF stage[r] = "refused" THEN "refused"
    ELSE IF stage[r] \in {"unregistered", "lost"} THEN "cancelled"
    ELSE IF ~open THEN "closed"
    ELSE IF stage[r] = "registered" THEN "active" ELSE "unborn"

Owed(r) == \E w \in todo : w[1] = r /\ w # running /\ About(w)

Promised ==
    INSTANCE Subscription WITH
        Subscribers <- Registrations,
        state <- [r \in Registrations |-> StateOf(r)],
        owed  <- [r \in Registrations |-> Owed(r)],
        heard <- [r \in Registrations |-> Len(heard[r])]

\* Registering keeps its promise: of each signal about its message a registered
\* application hears once, and of nothing else (the dispatch of the signals).
PromiseSpec == Promised!Spec

\* The same without the fairness, which is what can be proved.
PromiseSafety == Promised!Init /\ [][Promised!Next]_(Promised!subscriptionVars)
=============================================================================
