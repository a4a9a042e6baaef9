-------------------------- MODULE SignalWatchProofs --------------------------
(***************************************************************************)
(* Theorems about signal watches, for any number of registrations, slots   *)
(* and signals, and for every table of watches that is disciplined in the  *)
(* way the theorem says.                                                   *)
(***************************************************************************)
EXTENDS SignalWatch, TLAPS

\* A signal is malformed only if signals can be, gdbus waits only for watches that are
\* there, and a watch is for a message.
DispatchInv ==
    /\ todo # {} /\ signal.topic = "malformed" => "malformed" \in Faults
    /\ \A w \in todo : w = running \/ watch[w] = "live"
    /\ \A w \in Watches : watch[w] = "live" => message[w[1]] \in Messages

IInv == TypeOK /\ DispatchInv

\* What a function of the application does, whichever it is.
RegisterStep(r, m) ==
    \/ Register(r, m, {1})
    \/ m = "MSG_ECC_LIST_CHANGE_IND" /\ Register(r, m, {1, 2})

LEMMA WatchesArePairs ==
    ASSUME NEW w \in Watches
    PROVE  w # None /\ w[1] \in Registrations /\ w[2] \in {1, 2} /\ w = <<w[1], w[2]>>
  BY DEF Watches, None

LEMMA RegistersAlike ==
    ASSUME NEW r \in Registrations, NEW m \in Messages
    PROVE  /\ tapi_register(r, m) => RegisterStep(r, m) \/ RegisterNothing(r, m)
           /\ tapi_network_register(r, m) => RegisterStep(r, m)
           /\ tapi_data_register(r, m) => RegisterStep(r, m)
           /\ tapi_sim_register(r, m) => RegisterStep(r, m)
           /\ tapi_sms_register(r, m) => RegisterStep(r, m)
           /\ tapi_cbs_register(r, m) => RegisterStep(r, m)
           /\ tapi_ss_register(r, m) => RegisterStep(r, m)
           /\ tapi_ims_register_registration_change(r, m) => RegisterStep(r, m)
           /\ tapi_call_register_call_state_change(r, m) => RegisterStep(r, m)
           /\ tapi_call_register_ringback_tone_change(r, m) => RegisterStep(r, m)
           /\ tapi_call_register_emergency_list_change(r, m) => RegisterStep(r, m)
           /\ tapi_call_register_default_voicecall_slot_change(r, m)
                 => RegisterStep(r, m)
  <1>1. RegisterOne(r, m) => RegisterStep(r, m)
    BY DEF RegisterOne, RegisterStep
  <1>2. tapi_modem_register(r, m) \/ tapi_manager_register_data_loging(r, m)
           => RegisterStep(r, m)
    BY <1>1 DEF tapi_modem_register, tapi_manager_register_data_loging
  <1>3. /\ tapi_network_register(r, m) => RegisterStep(r, m)
        /\ tapi_data_register(r, m) => RegisterStep(r, m)
        /\ tapi_sim_register(r, m) => RegisterStep(r, m)
        /\ tapi_sms_register(r, m) => RegisterStep(r, m)
        /\ tapi_cbs_register(r, m) => RegisterStep(r, m)
        /\ tapi_ss_register(r, m) => RegisterStep(r, m)
        /\ tapi_ims_register_registration_change(r, m) => RegisterStep(r, m)
    BY <1>1 DEF tapi_network_register, tapi_data_register, tapi_sim_register,
                tapi_sms_register, tapi_cbs_register, tapi_ss_register,
                tapi_ims_register_registration_change
  <1>4. /\ tapi_call_register_call_state_change(r, m) => RegisterStep(r, m)
        /\ tapi_call_register_ringback_tone_change(r, m) => RegisterStep(r, m)
        /\ tapi_call_register_emergency_list_change(r, m) => RegisterStep(r, m)
        /\ tapi_call_register_default_voicecall_slot_change(r, m)
              => RegisterStep(r, m)
    BY <1>1 DEF tapi_call_register_call_state_change,
                tapi_call_register_ringback_tone_change,
                tapi_call_register_emergency_list_change,
                tapi_call_register_default_voicecall_slot_change
  <1>5. tapi_register(r, m) => RegisterStep(r, m) \/ RegisterNothing(r, m)
    BY <1>2, <1>3, <1>4 DEF tapi_register, RegisterStep
  <1>6. QED
    BY <1>3, <1>4, <1>5

\* The steps a proof has to look at.
LEMMA Steps ==
    ASSUME Next
    PROVE  \/ \E r \in Registrations : \E m \in Messages :
                 RegisterStep(r, m) \/ RegisterNothing(r, m)
           \/ \E r \in Registrations : \E success \in {"zero", "one"} :
                 Unregister(r, success)
           \/ \E s \in Signals : oFonoSignals(s)
           \/ \E w \in Watches : Deliver(w)
           \/ Return
           \/ report_data_logging
           \/ tapi_close
  <1>1. CASE \E r \in Registrations : tapi_unregister(r) \/ tapi_sms_unregister(r)
    BY <1>1 DEF tapi_unregister, tapi_sms_unregister
  <1>2. ASSUME NEW r \in Registrations, NEW m \in Messages,
               \/ tapi_register(r, m)
               \/ tapi_network_register(r, m)
               \/ tapi_data_register(r, m)
               \/ tapi_sim_register(r, m)
               \/ tapi_sms_register(r, m)
               \/ tapi_cbs_register(r, m)
               \/ tapi_ss_register(r, m)
               \/ tapi_ims_register_registration_change(r, m)
               \/ tapi_call_register_call_state_change(r, m)
               \/ tapi_call_register_ringback_tone_change(r, m)
               \/ tapi_call_register_emergency_list_change(r, m)
               \/ tapi_call_register_default_voicecall_slot_change(r, m)
        PROVE  RegisterStep(r, m) \/ RegisterNothing(r, m)
    BY <1>2, RegistersAlike
  <1>3. QED
    BY <1>1, <1>2 DEF Next

-----------------------------------------------------------------------------
(* Types, and what gdbus is dispatching *)

LEMMA MessageOfLive ==
    ASSUME IInv, NEW w \in Watches, watch[w] = "live"
    PROVE  /\ Message(w) \in Messages \cup {Second}
           /\ Indications[Message(w)].react \in [Kinds -> SUBSET Reactions]
  BY WatchesArePairs, WatchAssumption DEF IInv, DispatchInv, Message

LEMMA Freeing ==
    ASSUME TypeOK, NEW w \in Watches
    PROVE  /\ FreeHandler(w) \in [Watches -> {"none", "live", "freed", "twice"}]
           /\ FreeHandler(w)[w] = IF watch[w] = "live" THEN "freed" ELSE "twice"
           /\ \A v \in Watches : v # w => FreeHandler(w)[v] = watch[v]
  BY DEF TypeOK, FreeHandler

LEMMA KindsOccur ==
    ASSUME IInv, todo # {}, NEW w
    PROVE  KindsFor(w) \subseteq Occurring /\ Occurring \subseteq Kinds
  BY WatchAssumption DEF KindsFor, Kinds, Occurring, IInv, DispatchInv

LEMMA SignalsAreAllowed ==
    ASSUME NEW s \in Signals, s.topic = "malformed"
    PROVE  "malformed" \in Faults
  <1>1. \A m \in Watchable : m \in Messages \cup {Second}
    BY DEF Watchable
  <1>2. \A m \in Watchable : "malformed" \notin Indications[m].own
    BY <1>1, WatchAssumption
  <1>3. PICK m \in Watchable :
           s \in [path : {Indications[m].path}, name : {Indications[m].name},
                  slot : IF Indications[m].path = "manager" THEN {"no slot"} ELSE Slots,
                  topic : Topics(Indications[m].path, Indications[m].name)]
    BY DEF Signals
  <1>4. "malformed" \in Topics(Indications[m].path, Indications[m].name)
    BY <1>3
  <1>5. QED
    BY <1>2, <1>4 DEF Topics

LEMMA ReactionOccurs ==
    ASSUME NEW m \in Messages \cup {Second}, NEW kinds \in SUBSET Kinds,
           NEW kind \in kinds, NEW reaction \in Indications[m].react[kind]
    PROVE  reaction \in ReactionsTo(kinds) /\ reaction \in Reactions
  BY WatchAssumption DEF ReactionsTo

LEMMA RegisterKeeps ==
    ASSUME IInv, NEW r \in Registrations, NEW m \in Messages, NEW parts \in SUBSET {1, 2},
           Register(r, m, parts)
    PROVE  IInv'
  <1> USE DEF IInv, TypeOK, Register, appVars, signalVars, callVars
  <1>1. TypeOK'
    BY DEF Stages
  <1>2. DispatchInv'
    BY WatchesArePairs DEF DispatchInv
  <1>3. QED
    BY <1>1, <1>2

LEMMA UnregisterKeeps ==
    ASSUME IInv, NEW r \in Registrations, NEW success \in {"zero", "one"},
           Unregister(r, success)
    PROVE  IInv'
  <1>1. PICK w \in Watches : w = <<r, 1>>
    BY DEF Watches
  <1>2. /\ UNCHANGED <<open, message, slot, logger, heard, signalVars, callVars>>
        /\ \/ /\ watch[w] = "live" /\ watch' = FreeHandler(w)
              /\ todo' = todo \ {w}
              /\ stage' = [stage EXCEPT ![r] = "unregistered"]
              /\ returned' = [returned EXCEPT ![r] = success]
           \/ /\ watch[w] # "live" /\ UNCHANGED <<watch, todo>>
              /\ stage' = [stage EXCEPT ![r] = "lost"]
              /\ returned' = [returned EXCEPT ![r] =
                                 IF success = "one" THEN "zero" ELSE "errno"]
    BY <1>1 DEF Unregister
  <1>3. /\ stage' \in [Registrations -> Stages]
        /\ returned' \in [Registrations -> {"nothing", "id", "zero", "one", "errno"}]
    <2>1. stage \in [Registrations -> Stages]
      BY DEF IInv, TypeOK
    <2>2. returned \in [Registrations -> {"nothing", "id", "zero", "one", "errno"}]
      BY DEF IInv, TypeOK
    <2>3. \E s \in Stages : stage' = [stage EXCEPT ![r] = s]
      BY <1>2 DEF Stages
    <2>4. \E s \in {"zero", "one", "errno"} : returned' = [returned EXCEPT ![r] = s]
      BY <1>2
    <2>5. QED
      BY <2>1, <2>2, <2>3, <2>4
  <1>4. /\ watch' \in [Watches -> {"none", "live", "freed", "twice"}]
        /\ todo' \subseteq todo
        /\ \A v \in Watches : watch'[v] = "live" => watch[v] = "live"
        /\ \A v \in todo' : watch'[v] = watch[v]
    BY <1>2, Freeing DEF IInv, TypeOK
  <1>5. TypeOK'
    BY <1>2, <1>3, <1>4 DEF IInv, TypeOK, signalVars, callVars
  <1>6. DispatchInv'
    BY <1>2, <1>4 DEF IInv, TypeOK, DispatchInv, signalVars, callVars
  <1>7. QED
    BY <1>5, <1>6 DEF IInv

\* The two ways a callback of the library can go.
PassesOver(w, reaction) ==
    /\ reaction.tells = "nothing"
    /\ todo' = todo \ {w}
    /\ watch' = IF reaction.keeps THEN watch ELSE FreeHandler(w)
    /\ UNCHANGED <<appVars, heard, signalVars, callVars>>

Tells(w, reaction) ==
    /\ reaction.tells # "nothing"
    /\ \E told \in Told \cup {"undefined"} :
          heard' = [heard EXCEPT ![w[1]] = Append(@, told)]
    /\ spoiled' \in BOOLEAN
    /\ running' = w /\ keep' = reaction.keeps
    /\ UNCHANGED <<appVars, watch, signals, signal, todo>>

LEMMA DeliverSteps ==
    ASSUME IInv, NEW w \in Watches, Deliver(w)
    PROVE  /\ running = None /\ w \in todo /\ watch[w] = "live"
           /\ \E kind \in KindsFor(w) :
                 \E reaction \in Indications[Message(w)].react[kind] :
                    /\ reaction \in Reactions
                    /\ PassesOver(w, reaction) \/ Tells(w, reaction)
  <1>1. /\ running = None /\ w \in todo /\ watch[w] = "live"
        /\ spoiled \in BOOLEAN
    BY WatchesArePairs DEF IInv, TypeOK, DispatchInv, Deliver
  <1> DEFINE i == Indications[Message(w)]
             Passes(reaction) ==
               /\ reaction.tells = "nothing"
               /\ todo' = todo \ {w}
               /\ watch' = IF reaction.keeps THEN watch ELSE FreeHandler(w)
               /\ UNCHANGED <<heard, spoiled, callVars>>
             told(reaction) == IF spoiled /\ i.spoils THEN "undefined" ELSE reaction.tells
             Speaks(reaction) ==
               /\ reaction.tells # "nothing"
               /\ heard' = [heard EXCEPT ![w[1]] = Append(@, told(reaction))]
               /\ spoiled' = (spoiled \/ i.spoils)
               /\ running' = w /\ keep' = reaction.keeps
               /\ UNCHANGED <<watch, todo>>
  <1>2. /\ \E kind \in KindsFor(w) : \E reaction \in i.react[kind] :
              Passes(reaction) \/ Speaks(reaction)
        /\ UNCHANGED <<appVars, signals, signal>>
    BY DEF Deliver
  <1>3. PICK kind \in KindsFor(w) : \E reaction \in i.react[kind] :
           Passes(reaction) \/ Speaks(reaction)
    BY <1>2
  <1>4. PICK reaction \in i.react[kind] : Passes(reaction) \/ Speaks(reaction)
    BY <1>3
  <1>5. reaction \in Reactions
    BY <1>1, MessageOfLive, KindsOccur
  <1>6. CASE Passes(reaction)
    BY <1>1, <1>2, <1>5, <1>6 DEF PassesOver, signalVars
  <1>7. CASE Speaks(reaction)
    <2>1. told(reaction) \in Told \cup {"undefined"}
      BY <1>5, <1>7 DEF Reactions
    <2>2. Tells(w, reaction)
      BY <1>1, <1>2, <1>7, <2>1 DEF Tells
    <2>3. QED
      BY <1>1, <1>5, <2>2
  <1>8. QED
    BY <1>4, <1>6, <1>7

LEMMA Invariance == Spec => []IInv
  <1>1. ASSUME Init PROVE IInv
    <2>1. heard \in [Registrations -> Seq(Told \cup {"undefined", "log"})]
      BY <1>1 DEF Init
    <2>2. signals \in 0..MaxSignals
      BY <1>1, WatchAssumption DEF Init
    <2>3. /\ stage \in [Registrations -> Stages]
          /\ returned \in [Registrations -> {"nothing", "id", "zero", "one", "errno"}]
          /\ message \in [Registrations -> Messages \cup {"none"}]
          /\ watch \in [Watches -> {"none", "live", "freed", "twice"}]
          /\ \A w \in Watches : watch[w] = "none"
      BY <1>1 DEF Init, Stages
    <2>4. QED
      BY <1>1, <2>1, <2>2, <2>3 DEF Init, IInv, TypeOK, DispatchInv
  <1>2. IInv /\ [Next]_vars => IInv'
    <2> SUFFICES ASSUME IInv, [Next]_vars PROVE IInv'
      OBVIOUS
    <2>1. ASSUME NEW r \in Registrations, NEW m \in Messages, RegisterStep(r, m)
          PROVE  IInv'
      BY <2>1, RegisterKeeps DEF RegisterStep
    <2>2. ASSUME NEW r \in Registrations, NEW m \in Messages, RegisterNothing(r, m)
          PROVE  IInv'
      BY <2>2 DEF RegisterNothing, IInv, TypeOK, DispatchInv, Stages, signalVars, callVars
    <2>3. ASSUME NEW r \in Registrations, NEW success \in {"zero", "one"},
                 Unregister(r, success)
          PROVE  IInv'
      BY <2>3, UnregisterKeeps
    <2>4. ASSUME NEW s \in Signals, oFonoSignals(s)
          PROVE  IInv'
      <3>1. signals + 1 \in 0..MaxSignals
        BY <2>4, WatchAssumption DEF oFonoSignals, IInv, TypeOK
      <3>2. TypeOK'
        BY <2>4, <3>1 DEF oFonoSignals, IInv, TypeOK, appVars, callVars
      <3>3. DispatchInv'
        BY <2>4, SignalsAreAllowed
           DEF oFonoSignals, IInv, DispatchInv, On, appVars, callVars
      <3>4. QED
        BY <3>2, <3>3 DEF IInv
    <2>5. ASSUME NEW w \in Watches, Deliver(w)
          PROVE  IInv'
      <3>1. running = None /\ w \in todo /\ watch[w] = "live"
        BY <2>5, DeliverSteps
      <3>2. PICK reaction \in Reactions : PassesOver(w, reaction) \/ Tells(w, reaction)
        BY <2>5, DeliverSteps
      <3>3. CASE PassesOver(w, reaction)
        <4>1. /\ watch' \in [Watches -> {"none", "live", "freed", "twice"}]
              /\ \A v \in Watches : v # w => watch'[v] = watch[v]
          BY <3>3, Freeing DEF PassesOver, IInv, TypeOK
        <4>2. TypeOK'
          BY <3>3, <4>1 DEF PassesOver, IInv, TypeOK, appVars, signalVars, callVars
        <4>3. \A v \in todo' : v # w /\ v \in Watches /\ watch[v] = "live"
          BY <3>1, <3>3, WatchesArePairs
             DEF PassesOver, IInv, TypeOK, DispatchInv
        <4>4. \A v \in Watches : watch'[v] = "live" => watch[v] = "live"
          BY <3>1, <3>3, <4>1
        <4>5. DispatchInv'
          BY <3>3, <4>1, <4>3, <4>4
             DEF PassesOver, IInv, DispatchInv, appVars, signalVars, callVars
        <4>6. QED
          BY <4>2, <4>5 DEF IInv
      <3>4. CASE Tells(w, reaction)
        <4>1. w[1] \in Registrations /\ reaction.keeps \in BOOLEAN
          BY WatchesArePairs DEF Reactions
        <4>2. heard' \in [Registrations -> Seq(Told \cup {"undefined", "log"})]
          BY <3>4, <4>1 DEF Tells, IInv, TypeOK
        <4>3. TypeOK'
          BY <3>4, <4>1, <4>2 DEF Tells, IInv, TypeOK, appVars
        <4>4. DispatchInv'
          BY <3>1, <3>4, WatchesArePairs DEF Tells, IInv, TypeOK, DispatchInv, appVars
        <4>5. QED
          BY <4>3, <4>4 DEF IInv
      <3>5. QED
        BY <3>2, <3>3, <3>4
    <2>6. CASE Return
      <3>1. running \in Watches
        BY <2>6 DEF Return, IInv, TypeOK
      <3>2. /\ watch' \in [Watches -> {"none", "live", "freed", "twice"}]
            /\ \A v \in Watches : v # running => watch'[v] = watch[v]
            /\ \A v \in Watches : watch'[v] = "live" => watch[v] = "live"
        BY <2>6, <3>1, Freeing DEF Return, IInv, TypeOK
      <3>3. TypeOK'
        BY <2>6, <3>2 DEF Return, IInv, TypeOK, appVars, signalVars
      <3>4. DispatchInv'
        BY <2>6, <3>2 DEF Return, IInv, TypeOK, DispatchInv, appVars, signalVars
      <3>5. QED
        BY <3>3, <3>4 DEF IInv
    <2>7. CASE report_data_logging
      <3>1. /\ logger \in Registrations
            /\ signals + 1 \in 0..MaxSignals
        BY <2>7, WatchAssumption DEF report_data_logging, IInv, TypeOK
      <3>2. heard' \in [Registrations -> Seq(Told \cup {"undefined", "log"})]
        BY <2>7, <3>1 DEF report_data_logging, IInv, TypeOK
      <3>3. QED
        BY <2>7, <3>1, <3>2
           DEF report_data_logging, IInv, TypeOK, DispatchInv, appVars, callVars
    <2>8. CASE tapi_close
      <3>1. /\ watch' \in [Watches -> {"none", "live", "freed", "twice"}]
            /\ \A v \in Watches : watch'[v] = "live" => watch[v] = "live"
        BY <2>8 DEF tapi_close, IInv, TypeOK
      <3>2. todo' = {} /\ open' \in BOOLEAN
        BY <2>8 DEF tapi_close
      <3>3. QED
        BY <2>8, <3>1, <3>2
           DEF tapi_close, IInv, TypeOK, DispatchInv, signalVars, callVars
    <2>9. CASE UNCHANGED vars
      BY <2>9 DEF vars, appVars, signalVars, callVars, IInv, TypeOK, DispatchInv
    <2>10. QED
      BY <2>1, <2>2, <2>3, <2>4, <2>5, <2>6, <2>7, <2>8, <2>9, Steps
  <1>3. QED
    BY <1>1, <1>2, PTL DEF Spec

\* The state of registrations, watches and dispatch is well typed.
THEOREM TypeCorrect == Spec => []TypeOK
  <1>1. IInv => TypeOK
    BY DEF IInv
  <1>2. QED
    BY <1>1, Invariance, PTL

-----------------------------------------------------------------------------
(* Handlers *)

\* What Deliver does under a condition on the table: the reaction is one that occurs.
LEMMA DeliverOccurs ==
    ASSUME IInv, NEW w \in Watches, Deliver(w)
    PROVE  /\ running = None /\ w \in todo /\ watch[w] = "live"
           /\ \E reaction \in ReactionsTo(Occurring) :
                 /\ reaction \in Reactions
                 /\ PassesOver(w, reaction) \/ Tells(w, reaction)
  <1>1. PICK kind \in KindsFor(w) :
           \E reaction \in Indications[Message(w)].react[kind] :
              /\ reaction \in Reactions
              /\ PassesOver(w, reaction) \/ Tells(w, reaction)
    BY DeliverSteps
  <1>2. w \in todo /\ watch[w] = "live"
    BY DeliverSteps
  <1>3. Message(w) \in Messages \cup {Second} /\ kind \in Occurring
        /\ Occurring \subseteq Kinds
    BY <1>1, <1>2, MessageOfLive, KindsOccur
  <1>4. \A reaction \in Indications[Message(w)].react[kind] :
           reaction \in ReactionsTo(Occurring)
    BY <1>3, ReactionOccurs
  <1>5. QED
    BY <1>1, <1>4, DeliverSteps

FreedInv == keep = TRUE /\ \A w \in Watches : watch[w] # "twice"

\* If a callback that ran the application's returns true, gdbus and the library never
\* free a handler twice.
THEOREM FreedOnce ==
    ASSUME TellingKeeps
    PROVE  Spec => []HandlersFreedOnce
  <1>1. Init => FreedInv
    BY DEF Init, FreedInv
  <1>2. IInv /\ FreedInv /\ [Next]_vars => FreedInv'
    <2> SUFFICES ASSUME IInv, FreedInv, [Next]_vars PROVE FreedInv'
      OBVIOUS
    <2>1. ASSUME NEW r \in Registrations, NEW m \in Messages, RegisterStep(r, m)
          PROVE  FreedInv'
      BY <2>1 DEF RegisterStep, Register, FreedInv, callVars
    <2>2. ASSUME NEW r \in Registrations, NEW m \in Messages, RegisterNothing(r, m)
          PROVE  FreedInv'
      BY <2>2 DEF RegisterNothing, FreedInv, callVars
    <2>3. ASSUME NEW r \in Registrations, NEW success \in {"zero", "one"},
                 Unregister(r, success)
          PROVE  FreedInv'
      <3>1. PICK w \in Watches : w = <<r, 1>>
        BY DEF Watches
      <3>2. \/ watch' = watch
            \/ watch[w] = "live" /\ watch' = FreeHandler(w)
        BY <2>3, <3>1 DEF Unregister
      <3>3. keep' = keep
        BY <2>3 DEF Unregister, callVars
      <3>4. QED
        BY <3>2, <3>3, Freeing DEF IInv, FreedInv
    <2>4. ASSUME NEW s \in Signals, oFonoSignals(s)
          PROVE  FreedInv'
      BY <2>4 DEF oFonoSignals, FreedInv, callVars
    <2>5. ASSUME NEW w \in Watches, Deliver(w)
          PROVE  FreedInv'
      <3>1. watch[w] = "live"
        BY <2>5, DeliverOccurs
      <3>2. PICK reaction \in ReactionsTo(Occurring) :
               /\ reaction \in Reactions
               /\ PassesOver(w, reaction) \/ Tells(w, reaction)
        BY <2>5, DeliverOccurs
      <3>3. CASE PassesOver(w, reaction)
        BY <3>1, <3>3, Freeing DEF PassesOver, IInv, FreedInv, callVars
      <3>4. CASE Tells(w, reaction)
        <4>1. reaction.keeps = TRUE
          BY <3>2, <3>4 DEF Tells, TellingKeeps, Reactions
        <4>2. QED
          BY <3>4, <4>1 DEF Tells, FreedInv
      <3>5. QED
        BY <3>2, <3>3, <3>4
    <2>6. CASE Return
      BY <2>6 DEF Return, FreedInv
    <2>7. CASE report_data_logging
      BY <2>7 DEF report_data_logging, FreedInv, callVars
    <2>8. CASE tapi_close
      BY <2>8 DEF tapi_close, FreedInv, callVars
    <2>9. CASE UNCHANGED vars
      BY <2>9 DEF vars, callVars, FreedInv
    <2>10. QED
      BY <2>1, <2>2, <2>3, <2>4, <2>5, <2>6, <2>7, <2>8, <2>9, Steps
  <1>3. FreedInv => HandlersFreedOnce
    BY DEF FreedInv, HandlersFreedOnce
  <1>4. QED
    BY <1>1, <1>2, <1>3, Invariance, PTL DEF Spec

-----------------------------------------------------------------------------
(* Registrations *)

LastInv ==
    /\ keep = TRUE
    /\ \A r \in Registrations :
          open /\ stage[r] = "registered" => watch[<<r, 1>>] = "live"

\* If every callback returns true, no signal ends a registration.
THEOREM Lasting ==
    ASSUME AlwaysKeeps
    PROVE  Spec => []RegistrationLasts
  <1>0. \A r \in Registrations : <<r, 1>> \in Watches
    BY DEF Watches
  <1>1. Init => LastInv
    BY DEF Init, LastInv
  <1>2. IInv /\ LastInv /\ [Next]_vars => LastInv'
    <2> SUFFICES ASSUME IInv, LastInv, [Next]_vars PROVE LastInv'
      OBVIOUS
    <2>1. ASSUME NEW r \in Registrations, NEW m \in Messages, RegisterStep(r, m)
          PROVE  LastInv'
      <3>1. PICK parts \in SUBSET {1, 2} : 1 \in parts /\ Register(r, m, parts)
        BY <2>1 DEF RegisterStep
      <3>2. PICK made \in SUBSET parts :
               /\ watch' = [w \in Watches |->
                              IF w[1] = r /\ w[2] \in made THEN "live" ELSE watch[w]]
               /\ stage' = [stage EXCEPT ![r] =
                              IF 1 \in made THEN "registered" ELSE "refused"]
        BY <3>1 DEF Register
      <3>3. ASSUME NEW q \in Registrations, open, stage'[q] = "registered"
            PROVE  watch'[<<q, 1>>] = "live"
        <4>1. CASE q = r
          <5>1. 1 \in made
            BY <3>2, <3>3, <4>1 DEF IInv, TypeOK
          <5>2. QED
            BY <1>0, <3>2, <4>1, <5>1
        <4>2. CASE q # r
          <5>1. stage[q] = "registered"
            BY <3>2, <3>3, <4>2 DEF IInv, TypeOK
          <5>2. QED
            BY <1>0, <3>2, <3>3, <4>2, <5>1 DEF LastInv
        <4>3. QED
          BY <4>1, <4>2
      <3>4. QED
        BY <3>1, <3>3 DEF Register, LastInv, callVars
    <2>2. ASSUME NEW r \in Registrations, NEW m \in Messages, RegisterNothing(r, m)
          PROVE  LastInv'
      <3>1. \A q \in Registrations :
               stage'[q] = "registered" => stage[q] = "registered"
        BY <2>2 DEF RegisterNothing, IInv, TypeOK
      <3>2. UNCHANGED <<open, keep, watch>>
        BY <2>2 DEF RegisterNothing, callVars
      <3>3. QED
        BY <3>1, <3>2 DEF LastInv
    <2>3. ASSUME NEW r \in Registrations, NEW success \in {"zero", "one"},
                 Unregister(r, success)
          PROVE  LastInv'
      <3>1. /\ stage'[r] # "registered" /\ UNCHANGED <<open, keep>>
            /\ \A q \in Registrations : q # r => stage'[q] = stage[q]
            /\ \/ watch' = watch
               \/ watch' = FreeHandler(<<r, 1>>)
        BY <2>3 DEF Unregister, IInv, TypeOK, callVars
      <3>2. \A q \in Registrations : q # r => watch'[<<q, 1>>] = watch[<<q, 1>>]
        BY <1>0, <3>1, Freeing DEF IInv
      <3>3. QED
        BY <3>1, <3>2 DEF LastInv
    <2>4. ASSUME NEW s \in Signals, oFonoSignals(s)
          PROVE  LastInv'
      BY <2>4 DEF oFonoSignals, LastInv, appVars, callVars
    <2>5. ASSUME NEW w \in Watches, Deliver(w)
          PROVE  LastInv'
      <3>1. PICK reaction \in ReactionsTo(Occurring) :
               /\ reaction \in Reactions
               /\ PassesOver(w, reaction) \/ Tells(w, reaction)
        BY <2>5, DeliverOccurs
      <3>2. reaction.keeps = TRUE
        BY <3>1 DEF AlwaysKeeps, Reactions
      <3>3. CASE PassesOver(w, reaction)
        <4>1. UNCHANGED <<open, stage, watch, keep>>
          BY <3>2, <3>3 DEF PassesOver, appVars, callVars
        <4>2. QED
          BY <4>1 DEF LastInv
      <3>4. CASE Tells(w, reaction)
        <4>1. UNCHANGED <<open, stage, watch>> /\ keep' = TRUE
          BY <3>2, <3>4 DEF Tells, appVars
        <4>2. QED
          BY <4>1 DEF LastInv
      <3>5. QED
        BY <3>1, <3>3, <3>4
    <2>6. CASE Return
      BY <2>6 DEF Return, LastInv, appVars
    <2>7. CASE report_data_logging
      BY <2>7 DEF report_data_logging, LastInv, appVars, callVars
    <2>8. CASE tapi_close
      BY <2>8 DEF tapi_close, LastInv, callVars
    <2>9. CASE UNCHANGED vars
      BY <2>9 DEF vars, appVars, callVars, LastInv
    <2>10. QED
      BY <2>1, <2>2, <2>3, <2>4, <2>5, <2>6, <2>7, <2>8, <2>9, Steps
  <1>3. LastInv => RegistrationLasts
    BY DEF LastInv, RegistrationLasts
  <1>4. QED
    BY <1>1, <1>2, <1>3, Invariance, PTL DEF Spec

-----------------------------------------------------------------------------
(* What is heard *)

\* What the callback of a message can tell, and what the application can hear of it.
TellsOf(m) ==
    ({reaction.tells : reaction \in UNION {Indications[m].react[kind] : kind \in Occurring}}
        \ {"nothing"})
    \cup (IF Indications[m].spoils THEN {"undefined"} ELSE {})

Hearable(m) ==
    TellsOf(m)
    \cup (IF m = "MSG_ECC_LIST_CHANGE_IND" THEN TellsOf(Second) ELSE {})
    \cup (IF m = "MSG_DATA_LOGING_IND" /\ LogsOverMiwear THEN {"log"} ELSE {})

HeardIsItsOwn ==
    \A r \in Registrations : \A i \in 1..Len(heard[r]) : heard[r][i] \in Hearable(message[r])

\* Nothing is heard, watched or logged before a registration has its message; only that
\* for the emergency list has a second watch.
HeardInv ==
    /\ HeardIsItsOwn
    /\ \A r \in Registrations :
          IF stage[r] = "unborn" THEN heard[r] = <<>> ELSE message[r] \in Messages
    /\ \A w \in Watches : watch[w] = "live" =>
          /\ stage[w[1]] # "unborn"
          /\ w[2] = 2 => message[w[1]] = "MSG_ECC_LIST_CHANGE_IND"
    /\ logger # "none" =>
          stage[logger] # "unborn" /\ message[logger] = "MSG_DATA_LOGING_IND"

LEMMA DeliverTells ==
    ASSUME IInv, HeardInv, NEW w \in Watches, Deliver(w)
    PROVE  \/ heard' = heard
           \/ \E told \in Hearable(message[w[1]]) :
                 heard' = [heard EXCEPT ![w[1]] = Append(@, told)]
  <1> DEFINE m == Message(w)
  <1>1. watch[w] = "live" /\ w \in todo
    BY DeliverSteps
  <1>2. PICK kind \in KindsFor(w) : \E reaction \in Indications[m].react[kind] :
           \/ heard' = heard
           \/ /\ reaction.tells # "nothing"
              /\ heard' = [heard EXCEPT ![w[1]] =
                    Append(@, IF spoiled /\ Indications[m].spoils THEN "undefined"
                              ELSE reaction.tells)]
    BY DEF Deliver
  <1>3. PICK reaction \in Indications[m].react[kind] :
           \/ heard' = heard
           \/ /\ reaction.tells # "nothing"
              /\ heard' = [heard EXCEPT ![w[1]] =
                    Append(@, IF spoiled /\ Indications[m].spoils THEN "undefined"
                              ELSE reaction.tells)]
    BY <1>2
  <1>4. kind \in Occurring
    BY <1>1, <1>2, KindsOccur
  <1>5. reaction.tells # "nothing" => reaction.tells \in TellsOf(m)
    BY <1>3, <1>4 DEF TellsOf
  <1>6. Indications[m].spoils => "undefined" \in TellsOf(m)
    BY DEF TellsOf
  <1>7. TellsOf(m) \subseteq Hearable(message[w[1]])
    <2>1. m = message[w[1]] \/ (m = Second /\ message[w[1]] = "MSG_ECC_LIST_CHANGE_IND")
      BY <1>1, WatchesArePairs DEF Message, HeardInv
    <2> QED
      BY <2>1 DEF Hearable
  <1> HIDE DEF m
  <1>8. CASE spoiled /\ Indications[m].spoils
    BY <1>3, <1>6, <1>7, <1>8
  <1>9. CASE ~(spoiled /\ Indications[m].spoils)
    BY <1>3, <1>5, <1>7, <1>9
  <1> QED
    BY <1>8, <1>9

\* One more word for a registration.
LEMMA OneMoreWord ==
    ASSUME IInv, HeardIsItsOwn, NEW r \in Registrations, NEW told \in Hearable(message[r]),
           heard' = [heard EXCEPT ![r] = Append(@, told)], message' = message
    PROVE  HeardIsItsOwn' /\ \A q \in Registrations : q # r => heard'[q] = heard[q]
  <1>1. heard[r] \in Seq(Told \cup {"undefined", "log"})
        /\ heard \in [Registrations -> Seq(Told \cup {"undefined", "log"})]
    BY DEF IInv, TypeOK
  <1>2. /\ heard'[r] = Append(heard[r], told)
        /\ \A q \in Registrations : q # r => heard'[q] = heard[q]
    BY <1>1
  <1>3. /\ Len(Append(heard[r], told)) = Len(heard[r]) + 1 /\ Len(heard[r]) \in Nat
        /\ Append(heard[r], told)[Len(heard[r]) + 1] = told
        /\ \A i \in 1..Len(heard[r]) : Append(heard[r], told)[i] = heard[r][i]
    BY <1>1
  <1>4. \A i \in 1..(Len(heard[r]) + 1) : i \in 1..Len(heard[r]) \/ i = Len(heard[r]) + 1
    BY <1>3
  <1>5. \A i \in 1..Len(heard'[r]) : heard'[r][i] \in Hearable(message[r])
    BY <1>2, <1>3, <1>4 DEF HeardIsItsOwn
  <1>6. ASSUME NEW q \in Registrations, NEW i \in 1..Len(heard'[q])
        PROVE  heard'[q][i] \in Hearable(message[q])
    BY <1>2, <1>5, <1>6 DEF HeardIsItsOwn
  <1>7. HeardIsItsOwn'
    BY <1>6 DEF HeardIsItsOwn, Hearable, TellsOf, Occurring
  <1> QED
    BY <1>2, <1>7

\* A registration that begins.
LEMMA HeardBegins ==
    ASSUME IInv, HeardInv, NEW r \in Registrations, NEW m \in Messages, stage[r] = "unborn",
           message' = [message EXCEPT ![r] = m], heard' = heard,
           NEW s \in Stages, s # "unborn", stage' = [stage EXCEPT ![r] = s],
           \A w \in Watches : watch'[w] = "live" =>
              \/ watch[w] = "live"
              \/ w[1] = r /\ (w[2] = 2 => m = "MSG_ECC_LIST_CHANGE_IND"),
           logger' = logger \/ (logger' = r /\ m = "MSG_DATA_LOGING_IND")
    PROVE  HeardInv'
  <1>1. /\ message'[r] = m /\ stage'[r] = s
        /\ \A q \in Registrations : q # r => message'[q] = message[q] /\ stage'[q] = stage[q]
    BY DEF IInv, TypeOK
  <1>2. heard[r] = <<>>
    BY DEF HeardInv
  <1>3. HeardIsItsOwn'
    <2> SUFFICES ASSUME NEW q \in Registrations, NEW i \in 1..Len(heard[q])
                 PROVE  heard[q][i] \in Hearable(message'[q])
      BY DEF HeardIsItsOwn, Hearable, TellsOf, Occurring
    <2>1. q # r
      BY <1>2
    <2> QED
      BY <1>1, <2>1 DEF HeardInv, HeardIsItsOwn
  <1>4. \A q \in Registrations :
           IF stage'[q] = "unborn" THEN heard'[q] = <<>> ELSE message'[q] \in Messages
    BY <1>1 DEF HeardInv
  <1>5. ASSUME NEW w \in Watches, watch'[w] = "live"
        PROVE  /\ stage'[w[1]] # "unborn"
               /\ w[2] = 2 => message'[w[1]] = "MSG_ECC_LIST_CHANGE_IND"
    <2>1. CASE w[1] = r
      BY <1>1, <1>5, <2>1 DEF HeardInv
    <2>2. CASE w[1] # r
      BY <1>1, <1>5, <2>2, WatchesArePairs DEF HeardInv
    <2> QED
      BY <2>1, <2>2
  <1>6. logger' # "none" =>
           stage'[logger'] # "unborn" /\ message'[logger'] = "MSG_DATA_LOGING_IND"
    <2>1. CASE logger' = r /\ m = "MSG_DATA_LOGING_IND"
      BY <1>1, <2>1
    <2>2. CASE logger' = logger
      BY <1>1, <2>2 DEF HeardInv, IInv, TypeOK
    <2> QED
      BY <2>1, <2>2
  <1> QED
    BY <1>3, <1>4, <1>5, <1>6 DEF HeardInv

\* The steps that begin none and tell nothing.
LEMMA HeardKept ==
    ASSUME IInv, HeardInv, UNCHANGED <<message, heard, logger>>,
           \A r \in Registrations : stage'[r] = "unborn" <=> stage[r] = "unborn",
           \A w \in Watches : watch'[w] = "live" => watch[w] = "live"
    PROVE  HeardInv'
  <1>1. HeardIsItsOwn'
    BY DEF HeardInv, HeardIsItsOwn, Hearable, TellsOf, Occurring
  <1>2. logger # "none" => logger \in Registrations
    BY DEF IInv, TypeOK
  <1> QED
    BY <1>1, <1>2, WatchesArePairs DEF HeardInv

LEMMA HeardSteps == IInv /\ HeardInv /\ [Next]_vars => HeardInv'
  <1> SUFFICES ASSUME IInv, HeardInv, [Next]_vars
               PROVE  HeardInv'
    OBVIOUS
  <1> USE DEF appVars, callVars
  <1>1. ASSUME NEW r \in Registrations, NEW m \in Messages, RegisterStep(r, m)
        PROVE  HeardInv'
    <2>1. PICK parts \in SUBSET {1, 2} :
             /\ Register(r, m, parts)
             /\ 2 \in parts => m = "MSG_ECC_LIST_CHANGE_IND"
      BY <1>1 DEF RegisterStep
    <2>2. PICK made \in SUBSET parts :
             /\ watch' = [w \in Watches |->
                             IF w[1] = r /\ w[2] \in made THEN "live" ELSE watch[w]]
             /\ stage' = [stage EXCEPT ![r] = IF 1 \in made THEN "registered" ELSE "refused"]
             /\ logger' = IF m = "MSG_DATA_LOGING_IND" /\ 1 \in made THEN r ELSE logger
      BY <2>1 DEF Register
    <2>3. /\ stage[r] = "unborn" /\ message' = [message EXCEPT ![r] = m] /\ heard' = heard
      BY <2>1 DEF Register
    <2>4. PICK s \in Stages : s # "unborn" /\ stage' = [stage EXCEPT ![r] = s]
      BY <2>2 DEF Stages
    <2>5. \A w \in Watches : watch'[w] = "live" =>
             watch[w] = "live" \/ (w[1] = r /\ (w[2] = 2 => m = "MSG_ECC_LIST_CHANGE_IND"))
      BY <2>1, <2>2
    <2>6. logger' = logger \/ (logger' = r /\ m = "MSG_DATA_LOGING_IND")
      BY <2>2
    <2> HIDE DEF appVars, callVars
    <2> QED
      BY <2>3, <2>4, <2>5, <2>6, HeardBegins
  <1>2. ASSUME NEW r \in Registrations, NEW m \in Messages, RegisterNothing(r, m)
        PROVE  HeardInv'
    <2>1. /\ stage[r] = "unborn" /\ message' = [message EXCEPT ![r] = m] /\ heard' = heard
          /\ "refused" \in Stages /\ stage' = [stage EXCEPT ![r] = "refused"]
          /\ watch' = watch /\ logger' = logger
      BY <1>2 DEF RegisterNothing, Stages
    <2> QED
      BY <2>1, HeardBegins
  <1>3. ASSUME NEW r \in Registrations, NEW success \in {"zero", "one"},
               Unregister(r, success)
        PROVE  HeardInv'
    <2>1. PICK v \in Watches : v = <<r, 1>>
      BY DEF Watches
    <2>2. /\ UNCHANGED <<message, heard, logger>>
          /\ stage[r] = "registered"
          /\ watch' = watch \/ watch' = FreeHandler(v)
          /\ \/ stage' = [stage EXCEPT ![r] = "unregistered"]
             \/ stage' = [stage EXCEPT ![r] = "lost"]
      BY <1>3, <2>1 DEF Unregister
    <2>3. ASSUME NEW q \in Registrations
          PROVE  stage'[q] = "unborn" <=> stage[q] = "unborn"
      <3>1. stage'[r] # "unborn" /\ (q # r => stage'[q] = stage[q])
        BY <2>2 DEF IInv, TypeOK
      <3> QED
        BY <2>2, <3>1
    <2>4. \A w \in Watches : watch'[w] = "live" => watch[w] = "live"
      BY <2>2, Freeing DEF IInv
    <2> QED
      BY <2>2, <2>3, <2>4, HeardKept
  <1>4. ASSUME NEW s \in Signals, oFonoSignals(s)
        PROVE  HeardInv'
    BY <1>4, HeardKept DEF oFonoSignals
  <1>5. ASSUME NEW w \in Watches, Deliver(w)
        PROVE  HeardInv'
    <2>1. PICK reaction : PassesOver(w, reaction) \/ Tells(w, reaction)
      BY <1>5, DeliverOccurs
    <2>2. /\ UNCHANGED <<message, stage, logger>>
          /\ \A v \in Watches : watch'[v] = "live" => watch[v] = "live"
      BY <2>1, Freeing DEF PassesOver, Tells, IInv
    <2>3. CASE heard' = heard
      BY <2>2, <2>3, HeardKept
    <2>4. ASSUME NEW told \in Hearable(message[w[1]]),
                 heard' = [heard EXCEPT ![w[1]] = Append(@, told)]
          PROVE  HeardInv'
      <3>1. /\ w[1] \in Registrations /\ watch[w] = "live" /\ stage[w[1]] # "unborn"
        BY <1>5, DeliverOccurs, WatchesArePairs DEF HeardInv
      <3>2. HeardIsItsOwn' /\ \A q \in Registrations : q # w[1] => heard'[q] = heard[q]
        BY <2>2, <2>4, <3>1, OneMoreWord DEF HeardInv
      <3> QED
        BY <2>2, <3>1, <3>2 DEF HeardInv
    <2> QED
      BY <1>5, <2>3, <2>4, DeliverTells
  <1>6. CASE Return
    <2>1. running \in Watches
      BY <1>6 DEF Return, IInv, TypeOK
    <2>2. \A v \in Watches : watch'[v] = "live" => watch[v] = "live"
      BY <1>6, <2>1, Freeing DEF Return, IInv
    <2> QED
      BY <1>6, <2>2, HeardKept DEF Return
  <1>7. CASE report_data_logging
    <2>1. /\ LogsOverMiwear /\ logger # "none" /\ UNCHANGED <<message, stage, logger, watch>>
          /\ heard' = [heard EXCEPT ![logger] = Append(@, "log")]
      BY <1>7 DEF report_data_logging
    <2>2. /\ logger \in Registrations /\ stage[logger] # "unborn"
          /\ message[logger] = "MSG_DATA_LOGING_IND"
      BY <2>1 DEF HeardInv, IInv, TypeOK
    <2>3. "log" \in Hearable(message[logger])
      BY <2>1, <2>2 DEF Hearable
    <2>4. HeardIsItsOwn' /\ \A q \in Registrations : q # logger => heard'[q] = heard[q]
      BY <2>1, <2>2, <2>3, OneMoreWord DEF HeardInv
    <2> QED
      BY <2>1, <2>2, <2>4 DEF HeardInv
  <1>8. CASE tapi_close
    <2>1. \A v \in Watches : watch'[v] = "live" => watch[v] = "live"
      BY <1>8 DEF tapi_close
    <2> QED
      BY <1>8, <2>1, HeardKept DEF tapi_close
  <1>9. CASE UNCHANGED vars
    BY <1>9, HeardKept DEF vars
  <1> QED
    BY <1>1, <1>2, <1>3, <1>4, <1>5, <1>6, <1>7, <1>8, <1>9, Steps

LEMMA HeardInvariance == Spec => []HeardInv
  <1>1. Init => HeardInv
    <2> SUFFICES ASSUME Init
                 PROVE  HeardInv
      OBVIOUS
    <2>1. /\ \A r \in Registrations : heard[r] = <<>> /\ stage[r] = "unborn"
          /\ \A w \in Watches : watch[w] # "live"
          /\ logger = "none"
      BY DEF Init
    <2> QED
      BY <2>1 DEF HeardInv, HeardIsItsOwn
  <1>2. IInv /\ HeardInv /\ [Next]_vars => HeardInv'
    BY HeardSteps
  <1> QED
    BY <1>1, <1>2, Invariance, PTL DEF Spec

\* An application hears of a registration only what the library's callback of its message
\* tells, whichever watches share a signal or a callback; a log only if it asked for logs
\* (the msg_id and the callback in the handler).
THEOREM OwnNews == Spec => []HeardIsItsOwn
  <1>1. HeardInv => HeardIsItsOwn
    BY DEF HeardInv
  <1> QED
    BY <1>1, HeardInvariance, PTL

-----------------------------------------------------------------------------
(* Silence *)

OneWatchInv ==
    \A w \in Watches : watch[w] = "live" => w[2] = 1 /\ stage[w[1]] = "registered"

LEMMA OneWatch ==
    ASSUME OneWay
    PROVE  Spec => []OneWatchInv
  <1>1. Init => OneWatchInv
    BY DEF Init, OneWatchInv
  <1>2. IInv /\ OneWatchInv /\ [Next]_vars => OneWatchInv'
    <2> SUFFICES ASSUME IInv, OneWatchInv, [Next]_vars PROVE OneWatchInv'
      OBVIOUS
    <2>1. ASSUME NEW r \in Registrations, NEW m \in Messages, RegisterStep(r, m)
          PROVE  OneWatchInv'
      <3>1. Register(r, m, {1}) /\ stage[r] = "unborn"
        BY <2>1 DEF RegisterStep, OneWay, Register
      <3>2. PICK made \in SUBSET {1} :
               /\ watch' = [w \in Watches |->
                              IF w[1] = r /\ w[2] \in made THEN "live" ELSE watch[w]]
               /\ stage' = [stage EXCEPT ![r] =
                              IF 1 \in made THEN "registered" ELSE "refused"]
        BY <3>1 DEF Register
      <3>3. ASSUME NEW w \in Watches, watch'[w] = "live"
            PROVE  w[2] = 1 /\ stage'[w[1]] = "registered"
        <4>1. CASE w[1] = r
          <5>1. watch[w] # "live"
            BY <3>1, <4>1 DEF OneWatchInv
          <5>2. w[2] \in made
            BY <3>2, <3>3, <5>1
          <5>3. QED
            BY <3>2, <4>1, <5>2 DEF IInv, TypeOK
        <4>2. CASE w[1] # r
          BY <3>2, <3>3, <4>2, WatchesArePairs DEF OneWatchInv, IInv, TypeOK
        <4>3. QED
          BY <4>1, <4>2
      <3>4. QED
        BY <3>3 DEF OneWatchInv
    <2>2. ASSUME NEW r \in Registrations, NEW m \in Messages, RegisterNothing(r, m)
          PROVE  OneWatchInv'
      <3>1. \A q \in Registrations :
               stage[q] = "registered" => stage'[q] = "registered"
        BY <2>2 DEF RegisterNothing, IInv, TypeOK
      <3>2. QED
        BY <2>2, <3>1, WatchesArePairs DEF RegisterNothing, OneWatchInv
    <2>3. ASSUME NEW r \in Registrations, NEW success \in {"zero", "one"},
                 Unregister(r, success)
          PROVE  OneWatchInv'
      <3>1. PICK v \in Watches : v = <<r, 1>>
        BY DEF Watches
      <3>2. /\ \A q \in Registrations : q # r => stage'[q] = stage[q]
            /\ \/ watch' = watch /\ watch[v] # "live"
               \/ watch' = FreeHandler(v) /\ watch[v] = "live"
        BY <2>3, <3>1 DEF Unregister, IInv, TypeOK
      <3>3. /\ watch'[v] # "live"
            /\ \A w \in Watches : watch'[w] = "live" => watch[w] = "live"
        BY <3>2, Freeing DEF IInv
      <3>4. \A w \in Watches : watch'[w] = "live" => w[1] # r
        BY <3>1, <3>3, WatchesArePairs DEF OneWatchInv
      <3>5. QED
        BY <3>2, <3>3, <3>4, WatchesArePairs DEF OneWatchInv
    <2>4. ASSUME NEW s \in Signals, oFonoSignals(s)
          PROVE  OneWatchInv'
      BY <2>4 DEF oFonoSignals, OneWatchInv, appVars
    <2>5. ASSUME NEW w \in Watches, Deliver(w)
          PROVE  OneWatchInv'
      <3>1. PICK reaction : PassesOver(w, reaction) \/ Tells(w, reaction)
        BY <2>5, DeliverOccurs
      <3>2. \A v \in Watches : watch'[v] = "live" => watch[v] = "live"
        BY <3>1, Freeing DEF PassesOver, Tells, IInv
      <3>3. stage' = stage
        BY <3>1 DEF PassesOver, Tells, appVars
      <3>4. QED
        BY <3>2, <3>3 DEF OneWatchInv
    <2>6. CASE Return
      <3>1. running \in Watches
        BY <2>6 DEF Return, IInv, TypeOK
      <3>2. \A v \in Watches : watch'[v] = "live" => watch[v] = "live"
        BY <2>6, <3>1, Freeing DEF Return, IInv
      <3>3. QED
        BY <2>6, <3>2 DEF Return, OneWatchInv, appVars
    <2>7. CASE report_data_logging
      BY <2>7 DEF report_data_logging, OneWatchInv, appVars
    <2>8. CASE tapi_close
      BY <2>8 DEF tapi_close, OneWatchInv, IInv, TypeOK
    <2>9. CASE UNCHANGED vars
      BY <2>9 DEF vars, appVars, OneWatchInv
    <2>10. QED
      BY <2>1, <2>2, <2>3, <2>4, <2>5, <2>6, <2>7, <2>8, <2>9, Steps
  <1>3. QED
    BY <1>1, <1>2, Invariance, PTL DEF Spec

\* If a registration is one watch, an application that has unregistered, or was refused,
\* is never called back.
THEOREM Silent ==
    ASSUME OneWay
    PROVE  Spec => UnregisteredIsSilent
  <1> DEFINE Quiet == \A r \in Registrations :
                         heard'[r] # heard[r] => stage[r] = "registered"
  <1>1. IInv /\ OneWatchInv /\ [Next]_vars => [Quiet]_vars
    <2> SUFFICES ASSUME IInv, OneWatchInv, Next PROVE Quiet
      OBVIOUS
    <2>1. CASE heard' = heard
      BY <2>1
    <2>2. ASSUME NEW w \in Watches, Deliver(w)
          PROVE  Quiet
      <3>1. PICK reaction : PassesOver(w, reaction) \/ Tells(w, reaction)
        BY <2>2, DeliverOccurs
      <3>2. watch[w] = "live" /\ w[1] \in Registrations
        BY <2>2, DeliverOccurs, WatchesArePairs
      <3>3. \A r \in Registrations : heard'[r] # heard[r] => r = w[1]
        BY <3>1, <3>2 DEF PassesOver, Tells, IInv, TypeOK
      <3>4. QED
        BY <3>2, <3>3 DEF OneWatchInv
    <2>3. CASE report_data_logging
      BY <2>3 DEF report_data_logging, OneWay
    <2>4. QED
      BY <2>1, <2>2, <2>3, Steps
         DEF RegisterStep, Register, RegisterNothing, Unregister, oFonoSignals, Return,
             tapi_close
  <1>2. QED
    BY <1>1, Invariance, OneWatch, PTL DEF Spec, UnregisteredIsSilent

-----------------------------------------------------------------------------
(* Registering implements Subscription *)

SameState == \A r \in Registrations : StateOf(r)' = StateOf(r)
SameOwed  == \A r \in Registrations : Owed(r)' <=> Owed(r)
SameHeard == \A r \in Registrations : Len(heard[r])' = Len(heard[r])

\* The steps of Subscription, in the terms of this module.
Subscribes(r) ==
    /\ StateOf(r) = "unborn" /\ StateOf(r)' \in {"active", "refused"}
    /\ \A q \in Registrations \ {r} : StateOf(q)' = StateOf(q)
    /\ SameOwed /\ SameHeard

Publishes ==
    /\ \A r \in Registrations : ~Owed(r) /\ (Owed(r)' => StateOf(r) = "active")
    /\ SameState /\ SameHeard

Hears(r) ==
    /\ Owed(r) /\ ~Owed(r)' /\ Len(heard[r])' = Len(heard[r]) + 1
    /\ \A q \in Registrations \ {r} :
          (Owed(q)' <=> Owed(q)) /\ Len(heard[q])' = Len(heard[q])
    /\ SameState

Cancels(r) ==
    /\ StateOf(r) = "active" /\ StateOf(r)' = "cancelled" /\ ~Owed(r)'
    /\ \A q \in Registrations \ {r} :
          (Owed(q)' <=> Owed(q)) /\ StateOf(q)' = StateOf(q)
    /\ SameHeard

Closes ==
    /\ \A r \in Registrations :
          /\ ~Owed(r)
          /\ StateOf(r)' = IF StateOf(r) \in {"active", "unborn"}
                           THEN "closed" ELSE StateOf(r)
    /\ SameOwed /\ SameHeard

LEMMA OwedIsBoolean ==
    ASSUME NEW r
    PROVE  /\ Owed(r) \in BOOLEAN /\ Owed(r)' \in BOOLEAN
           /\ (Owed(r)' <=> Owed(r)) => Owed(r)' = Owed(r)
           /\ ~Owed(r)' => Owed(r)' = FALSE
           /\ Owed(r)' => Owed(r)' = TRUE
  <1>1. Owed(r) \in BOOLEAN /\ Owed(r)' \in BOOLEAN
    BY DEF Owed
  <1>2. QED
    BY <1>1

LEMMA AbstractSteps ==
    ASSUME \/ \E r \in Registrations : Subscribes(r) \/ Hears(r) \/ Cancels(r)
           \/ Publishes \/ Closes
           \/ SameState /\ SameOwed /\ SameHeard
    PROVE  [Promised!Next]_(Promised!subscriptionVars)
  <1> DEFINE st == [r \in Registrations |-> StateOf(r)]
             ow == [r \in Registrations |-> Owed(r)]
             he == [r \in Registrations |-> Len(heard[r])]
  <1>1. SameState => st' = st
    BY DEF SameState
  <1>2. SameOwed => ow' = ow
    BY OwedIsBoolean DEF SameOwed
  <1>3. SameHeard => he' = he
    BY DEF SameHeard
  <1>4. ASSUME NEW r \in Registrations, Subscribes(r) PROVE Promised!Next
    <2>1. st[r] = "unborn" /\ \E o \in {"active", "refused"} : st' = [st EXCEPT ![r] = o]
      BY <1>4 DEF Subscribes
    <2>2. UNCHANGED <<ow, he>>
      BY <1>2, <1>3, <1>4 DEF Subscribes
    <2>3. Promised!Subscribe(r)
      BY <2>1, <2>2 DEF Promised!Subscribe
    <2>4. QED
      BY <2>3 DEF Promised!Next
  <1>5. ASSUME NEW r \in Registrations, Hears(r) PROVE Promised!Next
    <2>1. ow[r] /\ ow' = [ow EXCEPT ![r] = FALSE]
      BY <1>5, OwedIsBoolean DEF Hears
    <2>2. he' = [he EXCEPT ![r] = he[r] + 1]
      BY <1>5 DEF Hears
    <2>3. UNCHANGED st
      BY <1>1, <1>5 DEF Hears
    <2>4. Promised!Hear(r)
      BY <2>1, <2>2, <2>3 DEF Promised!Hear
    <2>5. QED
      BY <2>4 DEF Promised!Next
  <1>6. ASSUME NEW r \in Registrations, Cancels(r) PROVE Promised!Next
    <2>1. ow' = [ow EXCEPT ![r] = FALSE]
      BY <1>6, OwedIsBoolean DEF Cancels
    <2>2. st[r] = "active" /\ st' = [st EXCEPT ![r] = "cancelled"]
      BY <1>6 DEF Cancels
    <2>3. UNCHANGED he
      BY <1>3, <1>6 DEF Cancels
    <2>4. Promised!Cancel(r)
      BY <2>1, <2>2, <2>3 DEF Promised!Cancel
    <2>5. QED
      BY <2>4 DEF Promised!Next
  <1>7. CASE Publishes
    <2> DEFINE interested == {r \in Registrations : Owed(r)'}
    <2>1. ow' = [r \in Registrations |-> r \in interested]
      <3>1. ASSUME NEW r \in Registrations PROVE Owed(r)' = (r \in interested)
        <4>1. CASE Owed(r)'
          BY <4>1, OwedIsBoolean
        <4>2. CASE ~Owed(r)'
          <5>1. Owed(r)' = FALSE
            BY <4>2, OwedIsBoolean
          <5>2. r \notin interested
            BY <4>2
          <5> HIDE DEF interested
          <5>3. (r \in interested) = FALSE
            BY <5>2
          <5>4. QED
            BY <5>1, <5>3, Zenon
        <4>3. QED
          BY <4>1, <4>2
      <3>2. QED
        BY <3>1
    <2>2. /\ \A r \in Registrations : ~ow[r]
          /\ \A r \in interested : st[r] = "active"
          /\ UNCHANGED <<st, he>>
      BY <1>1, <1>3, <1>7 DEF Publishes
    <2>3. Promised!Publish(interested)
      BY <2>1, <2>2 DEF Promised!Publish
    <2>4. interested \in SUBSET Registrations
      OBVIOUS
    <2>5. QED
      BY <2>3, <2>4 DEF Promised!Next
  <1>8. CASE Closes
    <2>1. /\ \A r \in Registrations : ~ow[r]
          /\ st' = [r \in Registrations |->
                      IF st[r] \in {"active", "unborn"} THEN "closed" ELSE st[r]]
      BY <1>8 DEF Closes
    <2>2. UNCHANGED <<ow, he>>
      BY <1>2, <1>3, <1>8 DEF Closes
    <2>3. Promised!Close
      BY <2>1, <2>2 DEF Promised!Close
    <2>4. QED
      BY <2>3 DEF Promised!Next
  <1>9. CASE SameState /\ SameOwed /\ SameHeard
    BY <1>1, <1>2, <1>3, <1>9 DEF Promised!subscriptionVars
  <1>10. QED
    BY <1>4, <1>5, <1>6, <1>7, <1>8, <1>9

\* Who waits for a signal is registered and has one watch.
LEMMA OwedIsLive ==
    ASSUME IInv, OneWatchInv, NEW w \in todo, w # running
    PROVE  /\ w \in Watches /\ watch[w] = "live" /\ stage[w[1]] = "registered"
           /\ w = <<w[1], 1>>
  <1>1. w \in Watches /\ watch[w] = "live"
    BY DEF IInv, TypeOK, DispatchInv
  <1>2. QED
    BY <1>1, WatchesArePairs DEF OneWatchInv

LEMMA AboutTheSame ==
    ASSUME NEW w, message'[w[1]] = message[w[1]], signal' = signal
    PROVE  About(w)' <=> About(w)
  BY DEF About, Message

LEMMA NothingOwed ==
    ASSUME todo = {}
    PROVE  \A r \in Registrations : ~Owed(r)
  BY DEF Owed

LEMMA RegisterSubscribes ==
    ASSUME IInv, OneWatchInv, OneWay, NEW r \in Registrations, NEW m \in Messages,
           RegisterStep(r, m) \/ RegisterNothing(r, m)
    PROVE  Subscribes(r)
  <1>1. /\ stage[r] = "unborn" /\ open
        /\ \E o \in {"registered", "refused"} : stage' = [stage EXCEPT ![r] = o]
        /\ message' = [message EXCEPT ![r] = m]
        /\ UNCHANGED <<open, heard, signal, todo, running>>
    BY DEF RegisterStep, Register, RegisterNothing, ApplicationRuns, signalVars, callVars
  <1>2. /\ \A q \in Registrations : q # r => stage'[q] = stage[q] /\ message'[q] = message[q]
        /\ stage'[r] \in {"registered", "refused"}
    BY <1>1 DEF IInv, TypeOK
  <1>3. /\ StateOf(r) = "unborn" /\ StateOf(r)' \in {"active", "refused"}
        /\ \A q \in Registrations \ {r} : StateOf(q)' = StateOf(q)
    BY <1>1, <1>2 DEF StateOf
  <1>4. ASSUME NEW q \in Registrations, NEW w \in todo, w[1] = q, w # running
        PROVE  About(w)' <=> About(w)
    <2>1. q # r
      BY <1>1, <1>4, OwedIsLive
    <2>2. QED
      BY <1>1, <1>2, <1>4, <2>1, AboutTheSame
  <1>5. SameOwed
    BY <1>1, <1>4 DEF SameOwed, Owed
  <1>6. SameHeard
    BY <1>1 DEF SameHeard
  <1>7. QED
    BY <1>3, <1>5, <1>6 DEF Subscribes

LEMMA UnregisterCancels ==
    ASSUME IInv, OneWatchInv, NEW r \in Registrations, NEW success,
           Unregister(r, success)
    PROVE  Cancels(r)
  <1>1. /\ stage[r] = "registered" /\ open
        /\ \E o \in {"unregistered", "lost"} : stage' = [stage EXCEPT ![r] = o]
        /\ UNCHANGED <<open, message, heard, signal, running>>
        /\ \/ todo' = todo \ {<<r, 1>>}
           \/ todo' = todo /\ watch[<<r, 1>>] # "live"
    BY DEF Unregister, ApplicationRuns, signalVars, callVars
  <1>2. /\ StateOf(r) = "active" /\ StateOf(r)' = "cancelled"
        /\ \A q \in Registrations \ {r} : StateOf(q)' = StateOf(q)
    BY <1>1 DEF StateOf, IInv, TypeOK
  <1>3. \A w : About(w)' <=> About(w)
    BY <1>1, AboutTheSame
  <1>4. ~Owed(r)'
    BY <1>1, OwedIsLive DEF Owed
  <1>5. ASSUME NEW q \in Registrations \ {r}
        PROVE  Owed(q)' <=> Owed(q)
    <2>1. \A w : w[1] = q => w # <<r, 1>>
      OBVIOUS
    <2>2. QED
      BY <1>1, <1>3, <2>1 DEF Owed
  <1>6. SameHeard
    BY <1>1 DEF SameHeard
  <1>7. QED
    BY <1>2, <1>4, <1>5, <1>6 DEF Cancels

LEMMA SignalPublishes ==
    ASSUME IInv, OneWatchInv, NEW s \in Signals, oFonoSignals(s)
    PROVE  Publishes
  <1>1. /\ open /\ todo = {} /\ UNCHANGED <<open, stage, heard>>
        /\ todo' = {w \in Watches : On(w, s)}
    BY DEF oFonoSignals, appVars
  <1>2. \A r \in Registrations : Owed(r)' => StateOf(r) = "active"
    BY <1>1 DEF Owed, On, OneWatchInv, StateOf
  <1>3. SameState /\ SameHeard
    BY <1>1 DEF SameState, SameHeard, StateOf
  <1>4. QED
    BY <1>1, <1>2, <1>3, NothingOwed DEF Publishes

LEMMA CloseCloses ==
    ASSUME IInv, tapi_close
    PROVE  Closes
  <1>1. /\ open /\ ~open' /\ todo = {} /\ todo' = {} /\ UNCHANGED <<stage, heard>>
    BY DEF tapi_close
  <1>2. \A r \in Registrations :
           StateOf(r)' = IF StateOf(r) \in {"active", "unborn"} THEN "closed"
                         ELSE StateOf(r)
    BY <1>1 DEF StateOf, IInv, TypeOK, Stages
  <1>3. SameOwed /\ SameHeard
    BY <1>1 DEF SameOwed, SameHeard, Owed
  <1>4. QED
    BY <1>1, <1>2, <1>3, NothingOwed DEF Closes

\* gdbus gives a watch only signals of its path and name.
SignalInv ==
    \A w \in todo : w # running =>
        LET i == Indications[Message(w)] IN signal.topic \in Topics(i.path, i.name)

LEMMA RightSignals ==
    ASSUME OneWay
    PROVE  Spec => []SignalInv
  <1>1. Init => SignalInv
    BY DEF Init, SignalInv
  <1>2. IInv /\ OneWatchInv /\ SignalInv /\ [Next]_vars => SignalInv'
    <2> SUFFICES ASSUME IInv, OneWatchInv, SignalInv, [Next]_vars PROVE SignalInv'
      OBVIOUS
    <2>1. ASSUME todo' \subseteq todo, signal' = signal,
                 \A w \in todo' : w # running' =>
                     w # running /\ message'[w[1]] = message[w[1]]
          PROVE  SignalInv'
      BY <2>1 DEF SignalInv, Message
    <2>2. ASSUME NEW r \in Registrations, NEW m \in Messages,
                 RegisterStep(r, m) \/ RegisterNothing(r, m)
          PROVE  SignalInv'
      <3>1. /\ stage[r] = "unborn" /\ message' = [message EXCEPT ![r] = m]
            /\ UNCHANGED <<todo, signal, running>>
        BY <2>2 DEF RegisterStep, Register, RegisterNothing, signalVars, callVars
      <3>2. \A w \in todo : w # running => w[1] \in Registrations /\ w[1] # r
        BY <3>1, OwedIsLive, WatchesArePairs
      <3>3. \A w \in todo : w # running => message'[w[1]] = message[w[1]]
        BY <3>1, <3>2 DEF IInv, TypeOK
      <3>4. QED
        BY <2>1, <3>1, <3>3
    <2>3. ASSUME NEW r \in Registrations, NEW success, Unregister(r, success)
          PROVE  SignalInv'
      BY <2>1, <2>3 DEF Unregister, signalVars, callVars
    <2>4. ASSUME NEW s \in Signals, oFonoSignals(s)
          PROVE  SignalInv'
      <3>1. /\ message' = message /\ signal' = s
            /\ \A w \in todo' : LET i == Indications[Message(w)]
                                IN  i.path = s.path /\ i.name = s.name
        BY <2>4 DEF oFonoSignals, On, appVars
      <3>2. s.topic \in Topics(s.path, s.name)
        <4>1. PICK m \in Watchable :
                 s \in [path : {Indications[m].path}, name : {Indications[m].name},
                        slot : IF Indications[m].path = "manager" THEN {"no slot"} ELSE Slots,
                        topic : Topics(Indications[m].path, Indications[m].name)]
          BY DEF Signals
        <4>2. /\ s.path = Indications[m].path /\ s.name = Indications[m].name
              /\ s.topic \in Topics(Indications[m].path, Indications[m].name)
          BY <4>1
        <4>3. QED
          BY <4>2
      <3>3. QED
        BY <3>1, <3>2 DEF SignalInv, Message
    <2>5. ASSUME NEW w \in Watches, Deliver(w)
          PROVE  SignalInv'
      <3>1. PICK reaction : PassesOver(w, reaction) \/ Tells(w, reaction)
        BY <2>5, DeliverSteps
      <3>2. running = None /\ \A v \in todo : v # None
        BY <2>5, DeliverSteps, WatchesArePairs DEF IInv, TypeOK
      <3>3. UNCHANGED <<message, signal>> /\ todo' \subseteq todo
        BY <3>1 DEF PassesOver, Tells, appVars, signalVars
      <3>4. QED
        BY <2>1, <3>2, <3>3
    <2>6. CASE Return
      BY <2>1, <2>6 DEF Return, appVars, signalVars
    <2>7. CASE report_data_logging
      BY <2>7 DEF report_data_logging, SignalInv
    <2>8. CASE tapi_close
      BY <2>1, <2>8 DEF tapi_close, signalVars, callVars
    <2>9. CASE UNCHANGED vars
      BY <2>1, <2>9 DEF vars, appVars, signalVars, callVars
    <2>10. QED
      BY <2>2, <2>3, <2>4, <2>5, <2>6, <2>7, <2>8, <2>9, Steps
  <1>3. QED
    BY <1>1, <1>2, Invariance, OneWatch, PTL DEF Spec

\* A disciplined watch tells of a signal just when the signal is about its message.
LEMMA DisciplinedDelivery ==
    ASSUME AlwaysKeeps, Disciplined, Faults = {}, IInv, OneWatchInv, SignalInv,
           NEW w \in Watches, Deliver(w)
    PROVE  \E reaction \in Reactions :
              /\ reaction.keeps
              /\ \/ PassesOver(w, reaction) /\ ~About(w)
                 \/ Tells(w, reaction) /\ About(w)
  <1>1. running = None /\ w \in todo /\ watch[w] = "live" /\ w # None
    BY DeliverSteps, WatchesArePairs
  <1> DEFINE i == Indications[Message(w)]
  <1>2. PICK kind \in KindsFor(w) : \E reaction \in i.react[kind] :
           /\ reaction \in Reactions
           /\ PassesOver(w, reaction) \/ Tells(w, reaction)
    BY DeliverSteps
  <1>3. PICK reaction \in i.react[kind] :
           /\ reaction \in Reactions
           /\ PassesOver(w, reaction) \/ Tells(w, reaction)
    BY <1>2
  <1>4. Message(w) \in Messages \cup {Second} /\ Message(w) \in Watchable
    BY <1>1, MessageOfLive DEF OneWatchInv, IInv, DispatchInv, Message, Watchable
  <1>5. /\ \/ About(w) /\ kind = "own"
           \/ ~About(w) /\ kind = "other"
        /\ {"own", "other"} \subseteq Kinds /\ Occurring = {"own", "other"}
    BY <1>1, <1>2 DEF KindsFor, IInv, DispatchInv, Kinds, Occurring
  <1>6. reaction \in ReactionsTo(Occurring)
    BY <1>3, <1>4, <1>5, ReactionOccurs
  <1>7. reaction.keeps
    BY <1>6 DEF AlwaysKeeps
  <1>8. ~About(w) => \A other \in i.react["other"] : other.tells = "nothing"
    <2>1. signal.topic \in Topics(i.path, i.name) /\ signal.topic # "malformed"
      BY <1>1 DEF SignalInv, IInv, DispatchInv
    <2>2. QED
      BY <1>4, <2>1 DEF Disciplined, About
  <1>9. reaction.tells # "nothing" <=> About(w)
    BY <1>3, <1>4, <1>5, <1>8 DEF Disciplined
  <1>10. QED
    BY <1>3, <1>7, <1>9 DEF PassesOver, Tells

LEMMA PassingOverIsNothing ==
    ASSUME IInv, NEW w \in Watches, NEW reaction, PassesOver(w, reaction), ~About(w)
    PROVE  SameState /\ SameOwed /\ SameHeard
  <1>1. /\ todo' = todo \ {w}
        /\ UNCHANGED <<open, message, stage, heard, signal, running>>
    BY DEF PassesOver, appVars, signalVars, callVars
  <1>2. \A v : About(v)' <=> About(v)
    BY <1>1, AboutTheSame
  <1>3. SameOwed
    BY <1>1, <1>2 DEF SameOwed, Owed
  <1>4. QED
    BY <1>1, <1>3 DEF SameState, SameHeard, StateOf

LEMMA TellingIsHearing ==
    ASSUME IInv, OneWatchInv, NEW w \in todo, running = None, NEW reaction,
           Tells(w, reaction), About(w)
    PROVE  w[1] \in Registrations /\ Hears(w[1])
  <1> DEFINE r == w[1]
  <1>0. w \in Watches /\ r \in Registrations /\ w # None
    BY WatchesArePairs DEF IInv, TypeOK
  <1>1. /\ running' = w
        /\ \E told \in Told \cup {"undefined"} : heard' = [heard EXCEPT ![r] = Append(@, told)]
        /\ UNCHANGED <<open, message, stage, signal, todo>>
    BY DEF Tells, appVars
  <1>2. \A v : About(v)' <=> About(v)
    BY <1>1, AboutTheSame
  <1>3. \A v \in todo : v # None /\ (v[1] = r => v = w)
    <2>1. \A v \in todo : v \in Watches /\ v # running /\ v = <<v[1], 1>>
      BY OwedIsLive, WatchesArePairs DEF IInv, TypeOK
    <2>2. QED
      BY <2>1, WatchesArePairs
  <1>4. Owed(r) /\ ~Owed(r)'
    BY <1>0, <1>1, <1>3 DEF Owed
  <1>5. /\ heard \in [Registrations -> Seq(Told \cup {"undefined", "log"})]
        /\ \A q \in Registrations \ {r} : heard'[q] = heard[q]
        /\ Len(heard'[r]) = Len(heard[r]) + 1
    BY <1>0, <1>1 DEF IInv, TypeOK
  <1>6. ASSUME NEW q \in Registrations \ {r}
        PROVE  Owed(q)' <=> Owed(q)
    <2>1. \A v \in todo : v[1] = q => v # w /\ v # None
      BY <1>3
    <2>2. QED
      BY <1>1, <1>2, <2>1 DEF Owed
  <1>7. SameState
    BY <1>1 DEF SameState, StateOf
  <1>8. QED
    BY <1>0, <1>4, <1>5, <1>6, <1>7 DEF Hears

LEMMA ReturningIsNothing ==
    ASSUME IInv, Return
    PROVE  SameState /\ SameOwed /\ SameHeard
  <1>1. /\ todo' = todo \ {running} /\ running' = None
        /\ UNCHANGED <<open, message, stage, heard, signal>>
    BY DEF Return, appVars, signalVars
  <1>2. \A v : About(v)' <=> About(v)
    BY <1>1, AboutTheSame
  <1>3. \A v \in todo : v # None
    BY WatchesArePairs DEF IInv, TypeOK
  <1>4. SameOwed
    BY <1>1, <1>2, <1>3 DEF SameOwed, Owed
  <1>5. QED
    BY <1>1, <1>4 DEF SameState, SameHeard, StateOf

\* From the moment it is registered until it is unregistered an application hears once
\* of every signal about its message and at no other time of anything, if each
\* registration is one watch and the callbacks of the table are disciplined.
THEOREM KeepsPromise ==
    ASSUME AlwaysKeeps, Disciplined, OneWay, Faults = {}
    PROVE  Spec => PromiseSafety
  <1>1. Init => Promised!Init
    BY DEF Init, Promised!Init, StateOf, Owed
  <1>2. IInv /\ OneWatchInv /\ SignalInv /\ [Next]_vars
           => [Promised!Next]_(Promised!subscriptionVars)
    <2> SUFFICES ASSUME IInv, OneWatchInv, SignalInv, [Next]_vars
                 PROVE  \/ \E r \in Registrations : Subscribes(r) \/ Hears(r) \/ Cancels(r)
                        \/ Publishes \/ Closes
                        \/ SameState /\ SameOwed /\ SameHeard
      BY AbstractSteps
    <2>1. ASSUME NEW w \in Watches, Deliver(w)
          PROVE  \/ \E r \in Registrations : Hears(r)
                 \/ SameState /\ SameOwed /\ SameHeard
      <3>1. PICK reaction \in Reactions :
               \/ PassesOver(w, reaction) /\ ~About(w)
               \/ Tells(w, reaction) /\ About(w)
        BY <2>1, DisciplinedDelivery
      <3>2. running = None /\ w \in todo
        BY <2>1, DeliverSteps
      <3>3. QED
        BY <3>1, <3>2, PassingOverIsNothing, TellingIsHearing
    <2>2. ~report_data_logging
      BY DEF report_data_logging, OneWay
    <2>3. CASE UNCHANGED vars
      <3>1. UNCHANGED <<open, message, stage, heard, signal, todo, running>>
        BY <2>3 DEF vars, appVars, signalVars, callVars
      <3>2. \A v : About(v)' <=> About(v)
        BY <3>1, AboutTheSame
      <3>3. SameState /\ SameOwed /\ SameHeard
        BY <3>1, <3>2 DEF SameState, SameOwed, SameHeard, StateOf, Owed
      <3>4. QED
        BY <3>3
    <2>4. QED
      BY <2>1, <2>2, <2>3, Steps, RegisterSubscribes, UnregisterCancels,
         SignalPublishes, ReturningIsNothing, CloseCloses
  <1>3. QED
    BY <1>1, <1>2, Invariance, OneWatch, RightSignals, PTL DEF Spec, PromiseSafety
=============================================================================
