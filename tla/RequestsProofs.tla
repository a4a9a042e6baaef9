--------------------------- MODULE RequestsProofs ---------------------------
(***************************************************************************)
(* Proofs about Requests, for every table of functions, every set of calls *)
(* and every set of interfaces.  What is asked of the table is stated as a *)
(* hypothesis of each theorem; the runs check it of the table of TAPI.     *)
(***************************************************************************)
EXTENDS Requests, TLAPS

-----------------------------------------------------------------------------
(* Facts about the table and the blocks *)

\* The parts of a record of the table.
LEMMA ApiParts ==
    ASSUME NEW f \in Functions
    PROVE  /\ Api[f].setup \in SUBSET Blocks
           /\ Api[f].destroy \in SUBSET Blocks
           /\ Api[f].event \in BOOLEAN
           /\ \A kind \in Kinds : Api[f].reply[kind] \subseteq Outcomes
           /\ Allocated(f) \subseteq Blocks
  <1>1. Api[f] \in ApiRecord
    BY ApiAssumption
  <1>2. Api[f].alloc \in Seq(Blocks)
    BY <1>1 DEF ApiRecord
  <1>3. \A k \in 1..Len(Api[f].alloc) : Api[f].alloc[k] \in Blocks
    BY <1>2
  <1>4. Allocated(f) \subseteq Blocks
    BY <1>3 DEF Allocated
  <1>5. Api[f].reply \in [Kinds -> (SUBSET Outcomes) \ {{}}]
    BY <1>1 DEF ApiRecord
  <1> QED
    BY <1>1, <1>4, <1>5 DEF ApiRecord

\* What the callback is told of one outcome is a sequence of statuses, and all that it
\* has been told when it has been told nothing before.
LEMMA SpokenIsSaid ==
    ASSUME NEW outcome \in Outcomes
    PROVE  /\ Spoken(outcome) \in Seq(Outcomes \ {"silent"})
           /\ <<>> \o Spoken(outcome) = Spoken(outcome)
  <1>1. CASE outcome = "silent"
    BY <1>1 DEF Spoken
  <1>2. CASE outcome # "silent"
    <2>1. <<outcome>> \in Seq(Outcomes \ {"silent"})
      BY <1>2
    <2> QED
      BY <1>2, <2>1 DEF Spoken
  <1> QED
    BY <1>1, <1>2

\* Allocating and freeing keep blocks in their four states.
LEMMA BlockTypes ==
    /\ \A some : Allocate(some) \in [Blocks -> BlockState]
    /\ \A h \in [Blocks -> BlockState] : \A some :
          Free(h, some) \in [Blocks -> BlockState]
    /\ NoBlock \in [Blocks -> BlockState]
  BY DEF Allocate, Free, FreeOne, NoBlock, BlockState

\* What a disciplined function has on the heap when its message is built.
LEMMA PreparedBlocks ==
    ASSUME NEW f \in Functions, Disciplined(f), NEW b \in Blocks
    PROVE  /\ b \in Api[f].setup => Prepared(f)[b] = "freed"
           /\ b \in Api[f].destroy => Prepared(f)[b] = "live"
           /\ b \notin Allocated(f) => Prepared(f)[b] = "none"
  BY DEF Prepared, Free, FreeOne, Allocate, Disciplined

\* Freeing everything that is live leaves nothing live.
LEMMA FreeAll ==
    ASSUME NEW h \in [Blocks -> BlockState], NEW some,
           \A b \in Blocks : h[b] = "live" => b \in some
    PROVE  \A b \in Blocks : Free(h, some)[b] # "live"
  BY DEF Free, FreeOne, BlockState

-----------------------------------------------------------------------------
(* Types *)

\* A call that was made has a function of the table, and a callback only if that
\* function takes one.
Called == \A c \in Calls :
    /\ stage[c] # "unborn" => function[c] \in Functions
    /\ wanted[c] => /\ stage[c] \notin {"unborn", "refused"}
                    /\ Api[function[c]].event

\* The state is well typed, and Called is what the types of an answer rest on: it is
\* taken from the table at the call's function.
LEMMA TypesInductive == TypeOK /\ Called /\ [Next]_vars => TypeOK' /\ Called'
  <1> SUFFICES ASSUME TypeOK, Called, [Next]_vars PROVE TypeOK' /\ Called'
    OBVIOUS
  <1> USE DEF TypeOK, Called, Stages
  <1>1. ASSUME NEW c \in Calls, NEW f \in Functions, Refuse(c, f)
        PROVE  TypeOK' /\ Called'
    BY <1>1, BlockTypes DEF Refuse, Starts, Ends, contextVars
  <1>2. ASSUME NEW c \in Calls, NEW f \in Functions, OutOfMemory(c, f)
        PROVE  TypeOK' /\ Called'
    <2>1. PICK some : Ends(c, "refused", Free(Allocate(some), some))
      BY <1>2 DEF OutOfMemory
    <2>2. Free(Allocate(some), some) \in [Blocks -> BlockState]
      BY BlockTypes
    <2> QED
      BY <1>2, <2>1, <2>2 DEF OutOfMemory, Starts, Ends, contextVars
  <1>3. ASSUME NEW c \in Calls, NEW f \in Functions, SendFails(c, f)
        PROVE  TypeOK' /\ Called'
    <2>1. PICK blocks \in {Allocate(Allocated(f)), Prepared(f)} :
              Ends(c, "refused", Free(blocks, Api[f].failed))
      BY <1>3 DEF SendFails
    <2>2. Free(blocks, Api[f].failed) \in [Blocks -> BlockState]
      BY BlockTypes DEF Prepared
    <2> QED
      BY <1>3, <2>1, <2>2 DEF SendFails, Starts, Ends, contextVars
  <1>4. ASSUME NEW c \in Calls, NEW f \in Functions, Send(c, f)
        PROVE  TypeOK' /\ Called'
    <2>1. Prepared(f) \in [Blocks -> BlockState]
      BY BlockTypes DEF Prepared
    <2>2. Api[f].event \in BOOLEAN
      BY ApiParts
    <2>3. wanted' \in [Calls -> BOOLEAN]
      BY <1>4, <2>2, Zenon DEF Send
    <2> QED
      BY <1>4, <2>1, <2>3 DEF Send, Starts, Ends, contextVars
  <1>5. ASSUME NEW c \in Calls, NEW kind \in Kinds, Reply(c, kind)
        PROVE  TypeOK' /\ Called'
    <2>1. Free(heap[c], Api[function[c]].destroy) \in [Blocks -> BlockState]
      BY BlockTypes
    <2>2. told' \in [Calls -> Seq(Outcomes \ {"silent"})]
      <3>1. PICK outcome \in Api[function[c]].reply[kind] :
                told' = IF wanted[c] THEN [told EXCEPT ![c] = @ \o Spoken(outcome)]
                        ELSE told
        BY <1>5 DEF Reply, Completes, CallsBack
      <3>2. function[c] \in Functions
        BY <1>5 DEF Reply, Completes, CallsBack
      <3>3. outcome \in Outcomes
        BY <3>1, <3>2, ApiParts
      <3>4. Spoken(outcome) \in Seq(Outcomes \ {"silent"})
        BY <3>3, SpokenIsSaid
      <3>5. told[c] \o Spoken(outcome) \in Seq(Outcomes \ {"silent"})
        BY <3>4
      <3> QED
        BY <3>1, <3>5
    <2> QED
      BY <1>5, <2>1, <2>2 DEF Reply, Completes, CallsBack, Ends, contextVars
  <1>6. CASE on_dbus_client_ready
    BY <1>6 DEF on_dbus_client_ready, callVars
  <1>7. CASE tapi_close
    <2>1. PICK destroyed \in SUBSET {c \in Calls : stage[c] = "pending"} :
              heap' = [c \in Calls |-> IF c \in destroyed
                                       THEN Free(heap[c], Api[function[c]].destroy)
                                       ELSE heap[c]]
      BY <1>7 DEF tapi_close
    <2>2. heap' \in [Calls -> [Blocks -> BlockState]]
      BY <2>1, BlockTypes
    <2> QED
      BY <1>7, <2>2 DEF tapi_close
  <1>8. CASE UNCHANGED vars
    BY <1>8 DEF vars, contextVars, callVars
  <1> QED
    BY <1>1, <1>2, <1>3, <1>4, <1>5, <1>6, <1>7, <1>8 DEF Next

\* Nothing has been called at first.
LEMMA InitTyped == Init => TypeOK /\ Called
  <1> SUFFICES ASSUME Init PROVE TypeOK /\ Called
    OBVIOUS
  <1>1. <<>> \in Seq(Outcomes \ {"silent"})
    OBVIOUS
  <1>2. told \in [Calls -> Seq(Outcomes \ {"silent"})]
    BY <1>1 DEF Init
  <1>3. heap \in [Calls -> [Blocks -> BlockState]]
    BY BlockTypes DEF Init
  <1> QED
    BY <1>2, <1>3 DEF Init, TypeOK, Called, Stages

\* The state is well typed, whatever the table (Requests, all actions).
THEOREM TypeCorrect == Spec => []TypeOK
  <1>1. Init => TypeOK /\ Called
    BY InitTyped
  <1>2. TypeOK /\ Called /\ [Next]_vars => (TypeOK /\ Called)'
    BY TypesInductive
  <1> QED
    BY <1>1, <1>2, PTL DEF Spec

-----------------------------------------------------------------------------
(* Answers *)

\* Until it is answered a call has told nothing; then it has told, once, what its
\* reply function makes of the reply, if it was asked to tell anything.
SaidOf(c) ==
    /\ stage[c] # "answered" => told[c] = <<>> /\ answer[c] = "none"
    /\ stage[c] = "answered" =>
          /\ answer[c] \in Kinds
          /\ wanted[c] => \E result \in Api[function[c]].reply[answer[c]] :
                             told[c] = Spoken(result)
          /\ ~wanted[c] => told[c] = <<>>

Said == \A c \in Calls : SaidOf(c)

\* Every step keeps what was said in line with the table.
LEMMA SaidInductive == TypeOK /\ Called /\ Said /\ [Next]_vars => Said'
  <1> SUFFICES ASSUME TypeOK, Called, Said, [Next]_vars, NEW d \in Calls PROVE SaidOf(d)'
    BY DEF Said
  <1>0. SaidOf(d)
    BY DEF Said
  <1> USE DEF TypeOK, SaidOf
  <1>1. ASSUME NEW c \in Calls, NEW f \in Functions, Refuse(c, f) PROVE SaidOf(d)'
    BY <1>0, <1>1 DEF Refuse, Starts, Ends
  <1>2. ASSUME NEW c \in Calls, NEW f \in Functions, OutOfMemory(c, f)
        PROVE  SaidOf(d)'
    BY <1>0, <1>2 DEF OutOfMemory, Starts, Ends
  <1>3. ASSUME NEW c \in Calls, NEW f \in Functions, SendFails(c, f)
        PROVE  SaidOf(d)'
    BY <1>0, <1>3 DEF SendFails, Starts, Ends
  <1>4. ASSUME NEW c \in Calls, NEW f \in Functions, Send(c, f) PROVE SaidOf(d)'
    <2>1. CASE d = c
      BY <1>0, <1>4, <2>1 DEF Send, Starts, Ends
    <2>2. CASE d # c
      BY <1>0, <1>4, <2>2 DEF Send, Starts, Ends
    <2> QED
      BY <2>1, <2>2
  <1>5. ASSUME NEW c \in Calls, NEW kind \in Kinds, Reply(c, kind)
        PROVE  SaidOf(d)'
    <2>1. CASE d = c
      <3>1. PICK result \in Api[function[c]].reply[kind] :
                told' = IF wanted[c] THEN [told EXCEPT ![c] = @ \o Spoken(result)]
                        ELSE told
        BY <1>5 DEF Reply, Completes, CallsBack
      <3>2. told[c] = <<>> /\ function[c] \in Functions
        BY <1>0, <1>5, <2>1 DEF Reply, Completes, CallsBack, Called
      <3>3. told[c] \o Spoken(result) = Spoken(result)
        BY <3>1, <3>2, ApiParts, SpokenIsSaid
      <3>4. told'[c] = IF wanted[c] THEN Spoken(result) ELSE <<>>
        BY <3>1, <3>2, <3>3
      <3>5. /\ stage'[c] = "answered" /\ answer'[c] = kind
            /\ function' = function /\ wanted' = wanted
        BY <1>5 DEF Reply, Completes, CallsBack, Ends
      <3> QED
        BY <2>1, <3>1, <3>4, <3>5
    <2>2. CASE d # c
      BY <1>0, <1>5, <2>2 DEF Reply, Completes, CallsBack, Ends
    <2> QED
      BY <2>1, <2>2
  <1>6. CASE on_dbus_client_ready
    BY <1>0, <1>6 DEF on_dbus_client_ready, callVars
  <1>7. CASE tapi_close
    BY <1>0, <1>7 DEF tapi_close
  <1>8. CASE UNCHANGED vars
    BY <1>0, <1>8 DEF vars, contextVars, callVars
  <1> QED
    BY <1>1, <1>2, <1>3, <1>4, <1>5, <1>6, <1>7, <1>8 DEF Next

\* A callback is called at most once, after the answer and with what the table says
\* of it, whatever the table.
THEOREM AnswersAreSaid == Spec => [](TypeOK /\ Called /\ Said)
  <1>1. Init => TypeOK /\ Called /\ Said
    BY InitTyped DEF Said, SaidOf, Init
  <1>2. TypeOK /\ Called /\ Said /\ [Next]_vars => (TypeOK /\ Called /\ Said)'
    BY TypesInductive, SaidInductive
  <1> QED
    BY <1>1, <1>2, PTL DEF Spec

\* An error is never reported as success, if the reply functions tell nothing but an
\* error of one (their first test is of dbus_set_error_from_message).
THEOREM FailuresAreReported ==
    ASSUME \A f \in Functions : Api[f].reply["error"] \subseteq {"ERROR", "silent"}
    PROVE  Spec => []FailureIsReported
  <1>1. TypeOK /\ Called /\ Said => FailureIsReported
    <2> SUFFICES ASSUME Called, Said, NEW c \in Calls, answer[c] = "error"
                 PROVE  told[c] \in {<<>>, <<"ERROR">>}
      BY DEF FailureIsReported
    <2>1. SaidOf(c)
      BY DEF Said
    <2>2. stage[c] = "answered" /\ function[c] \in Functions
      BY <2>1 DEF SaidOf, Called
    <2>3. CASE wanted[c]
      <3>1. PICK result \in Api[function[c]].reply["error"] : told[c] = Spoken(result)
        BY <2>1, <2>2, <2>3 DEF SaidOf
      <3>2. result \in {"ERROR", "silent"}
        BY <2>2, <3>1
      <3> QED
        BY <3>1, <3>2 DEF Spoken
    <2>4. CASE ~wanted[c]
      BY <2>1, <2>2, <2>4 DEF SaidOf
    <2> QED
      BY <2>3, <2>4
  <1> QED
    BY <1>1, AnswersAreSaid, PTL

\* Every answer reaches the callback that was given, of the functions whose reply
\* functions are never silent.  Of operator_scan_complete and the others that are silent on
\* an error or without memory it does not hold.
THEOREM AnswersReach ==
    ASSUME \A f \in Functions, kind \in Kinds : "silent" \notin Api[f].reply[kind]
    PROVE  Spec => []AnswerIsTold
  <1>1. TypeOK /\ Called /\ Said => AnswerIsTold
    <2> SUFFICES ASSUME Called, Said, NEW c \in Calls, stage[c] = "answered", wanted[c]
                 PROVE  told[c] # <<>>
      BY DEF AnswerIsTold
    <2>1. SaidOf(c)
      BY DEF Said
    <2>2. PICK result \in Api[function[c]].reply[answer[c]] : told[c] = Spoken(result)
      BY <2>1 DEF SaidOf
    <2>3. function[c] \in Functions /\ answer[c] \in Kinds
      BY <2>1 DEF SaidOf, Called
    <2> QED
      BY <2>2, <2>3 DEF Spoken
  <1> QED
    BY <1>1, AnswersAreSaid, PTL

-----------------------------------------------------------------------------
(* The promise to the caller *)

\* The functions with a callback always tell it a status.
AlwaysTells == \A f \in Functions, kind \in Kinds :
    Api[f].event => Api[f].reply[kind] \subseteq {"OK", "ERROR"}

\* One call changes its outcome, all others keep theirs.
Turns(c, to) == outcomes' = [outcomes EXCEPT ![c] = to]

LEMMA OthersKeep ==
    ASSUME NEW c \in Calls,
           \A d \in Calls \ {c} : /\ stage'[d] = stage[d] /\ told'[d] = told[d]
                                  /\ wanted'[d] = wanted[d]
    PROVE  Turns(c, Outcome(c)')
  <1>1. \A d \in Calls \ {c} : Outcome(d)' = Outcome(d)
    BY DEF Outcome, Heard
  <1> QED
    BY <1>1 DEF Turns, outcomes

\* What a call that has been answered looks like from outside.
StatusHeard == \A c \in Calls :
    stage[c] = "answered" => Outcome(c) \in {"OK", "ERROR"}

LEMMA AnsweredOutcome == TypeOK /\ Called /\ Said /\ AlwaysTells => StatusHeard
  <1> SUFFICES ASSUME TypeOK, Called, Said, AlwaysTells,
                      NEW c \in Calls, stage[c] = "answered"
               PROVE  Outcome(c) \in {"OK", "ERROR"}
    BY DEF StatusHeard
  <1>1. SaidOf(c) /\ function[c] \in Functions
    BY DEF Said, Called
  <1>2. CASE wanted[c]
    <2>1. PICK result \in Api[function[c]].reply[answer[c]] : told[c] = Spoken(result)
      BY <1>1, <1>2 DEF SaidOf
    <2>2. result \in {"OK", "ERROR"}
      BY <1>1, <1>2, <2>1 DEF SaidOf, Called, AlwaysTells
    <2>3. told[c] = <<result>>
      BY <2>1, <2>2 DEF Spoken
    <2> QED
      BY <1>2, <2>2, <2>3 DEF Outcome, Heard
  <1>3. CASE ~wanted[c]
    BY <1>3 DEF Outcome, Heard
  <1> QED
    BY <1>2, <1>3

\* What a call in flight looks like from outside.
LEMMA FlightOutcome ==
    ASSUME Said, NEW c \in Calls, stage[c] = "pending"
    PROVE  Outcome(c) = "pending"
  BY DEF Said, SaidOf, Outcome

\* Every step of the calls is a step of the promise, or none.
LEMMA StepsKeepPromise ==
    ASSUME TypeOK, Called, Said, AlwaysTells, [Next]_vars, TypeOK', Called', Said'
    PROVE  [Promise!Next]_outcomes
  <1>0. StatusHeard /\ StatusHeard'
    <2>1. (TypeOK /\ Called /\ Said /\ AlwaysTells)'
      BY DEF AlwaysTells
    <2>2. (TypeOK /\ Called /\ Said /\ AlwaysTells => StatusHeard)'
      BY AnsweredOutcome, PTL
    <2> QED
      BY AnsweredOutcome, <2>1, <2>2
  <1> USE DEF TypeOK
  <1>1. ASSUME NEW c \in Calls, NEW f \in Functions,
               Starts(c, f), stage' = [stage EXCEPT ![c] = "refused"], UNCHANGED wanted
        PROVE  Promise!Next
    <2>1. Outcome(c) = "unborn" /\ Outcome(c)' = "refused"
      BY <1>1 DEF Starts, Outcome
    <2>2. Turns(c, "refused")
      BY <1>1, <2>1, OthersKeep DEF Starts
    <2> QED
      BY <2>1, <2>2 DEF Turns, outcomes, Promise!Next, Promise!Becomes
  <1>2. ASSUME NEW c \in Calls, NEW f \in Functions, Send(c, f) PROVE Promise!Next
    <2>1. stage[c] = "unborn" /\ stage'[c] = "pending"
      BY <1>2 DEF Send, Starts, Ends
    <2>2. Outcome(c) = "unborn" /\ Outcome(c)' = "pending"
      BY <2>1 DEF Outcome, Said, SaidOf
    <2>3. Turns(c, "pending")
      BY <1>2, <2>2, OthersKeep DEF Send, Starts, Ends
    <2> QED
      BY <2>2, <2>3 DEF Turns, outcomes, Promise!Next, Promise!Becomes
  <1>3. ASSUME NEW c \in Calls, NEW kind \in Kinds, Reply(c, kind) PROVE Promise!Next
    <2>1. stage[c] = "pending" /\ stage'[c] = "answered"
      BY <1>3 DEF Reply, Completes, CallsBack, Ends
    <2>2. Outcome(c) = "pending" /\ Outcome(c)' \in {"OK", "ERROR"}
      BY <1>0, <2>1, FlightOutcome DEF StatusHeard
    <2>3. Turns(c, Outcome(c)')
      BY <1>3, OthersKeep DEF Reply, Completes, CallsBack, Ends
    <2> QED
      BY <2>2, <2>3 DEF Turns, outcomes, Promise!Next, Promise!Answered, Promise!Becomes
  <1>4. CASE tapi_close
    <2>1. \A c \in Calls : Outcome(c)' = IF stage[c] = "pending" THEN "dropped"
                                         ELSE Outcome(c)
      BY <1>4 DEF tapi_close, Outcome, Heard
    <2>2. \A c \in Calls : Outcome(c) = "pending" <=> stage[c] = "pending"
      <3>1. ASSUME NEW c \in Calls, stage[c] = "answered" PROVE Outcome(c) # "pending"
        BY <1>0, <3>1 DEF StatusHeard
      <3> QED
        BY <3>1, FlightOutcome DEF Outcome, Stages
    <2>3. outcomes' = [c \in Calls |-> IF outcomes[c] = "pending" THEN "dropped"
                                       ELSE outcomes[c]]
      BY <2>1, <2>2 DEF outcomes
    <2>4. CASE \E c \in Calls : outcomes[c] = "pending"
      BY <2>3, <2>4 DEF Promise!Next, Promise!Closed
    <2>5. CASE ~\E c \in Calls : outcomes[c] = "pending"
      BY <2>3, <2>5 DEF outcomes
    <2> QED
      BY <2>4, <2>5
  <1>5. CASE on_dbus_client_ready \/ UNCHANGED vars
    <2>1. UNCHANGED <<stage, wanted, told>>
      BY <1>5 DEF on_dbus_client_ready, vars, callVars
    <2> QED
      BY <2>1 DEF outcomes, Outcome, Heard
  <1> QED
    BY <1>1, <1>2, <1>3, <1>4, <1>5
    DEF Next, Refuse, OutOfMemory, SendFails, Ends

\* Every call of a function that always tells a status is a call of AsyncCall: refused
\* and silent, or answered exactly once, or dropped by tapi_close (the liveness part,
\* that it does not hang, is checked by the run requests_many).
THEOREM KeepsPromise ==
    ASSUME AlwaysTells
    PROVE  Spec => Promise!Init /\ [][Promise!Next]_outcomes
  <1>1. Init => Promise!Init
    <2> SUFFICES ASSUME Init PROVE outcomes = [c \in Calls |-> "unborn"]
      BY DEF Promise!Init
    <2>1. \A c \in Calls : stage[c] = "unborn"
      BY DEF Init
    <2>2. \A c \in Calls : Outcome(c) = "unborn"
      BY <2>1 DEF Outcome
    <2> QED
      BY <2>2 DEF outcomes
  <1>2. /\ TypeOK /\ Called /\ Said /\ [Next]_vars
        /\ (TypeOK /\ Called /\ Said)'
        => [Promise!Next]_outcomes
    BY StepsKeepPromise
  <1> QED
    BY <1>1, <1>2, AnswersAreSaid, PTL DEF Spec

-----------------------------------------------------------------------------
(* Memory *)

\* What a call has on the heap, by its stage.  A call in flight holds what is left of
\* its message, which is what makes the other stages come out right.
BlocksOf(c) ==
    /\ stage[c] = "unborn" => heap[c] = NoBlock
    /\ stage[c] = "refused" =>
          \A b \in Blocks : /\ heap[c][b] # "live"
                            /\ heap[c][b] = "twice" => b \in Api[function[c]].setup
    /\ stage[c] = "pending" => heap[c] = Prepared(function[c])
    /\ stage[c] = "answered" => \A b \in Blocks : heap[c][b] \in {"none", "freed"}
    /\ stage[c] = "dropped" => \A b \in Blocks : heap[c][b] # "twice"

Memory == \A c \in Calls : BlocksOf(c)

IInv == TypeOK /\ Called /\ Said /\ Memory

\* Whatever part of a block list was allocated, freeing that part leaves nothing.
LEMMA FreeAllocated ==
    ASSUME NEW some, NEW b \in Blocks
    PROVE  Free(Allocate(some), some)[b] \in {"none", "freed"}
  BY DEF Free, FreeOne, Allocate

\* Destroying a call in flight frees what is left of it, and each block once.
LEMMA Destroyed ==
    ASSUME NEW f \in Functions, Disciplined(f), NEW b \in Blocks
    PROVE  /\ Free(Prepared(f), Api[f].destroy)[b] \in {"none", "freed"}
           /\ Prepared(f)[b] # "twice"
  BY DEF Prepared, Free, FreeOne, Allocate, Disciplined

\* When gdbus cannot send, a disciplined function leaves nothing live, whether the
\* message was built or not, and frees twice only what its setup function had freed.
LEMMA FailedSend ==
    ASSUME NEW f \in Functions, Disciplined(f), NEW b \in Blocks,
           NEW blocks \in {Allocate(Allocated(f)), Prepared(f)}
    PROVE  /\ Free(blocks, Api[f].failed)[b] # "live"
           /\ Free(blocks, Api[f].failed)[b] = "twice" => b \in Api[f].setup
  BY DEF Prepared, Free, FreeOne, Allocate, Disciplined

\* Every step keeps the account of the blocks.
LEMMA MemoryInductive ==
    ASSUME \A f \in Functions : Disciplined(f), IInv, [Next]_vars
    PROVE  Memory'
  <1> USE DEF IInv, TypeOK, Called, Memory
  <1>1. ASSUME NEW c \in Calls, NEW f \in Functions, Refuse(c, f)
        PROVE  Memory'
    BY <1>1 DEF Refuse, Starts, Ends, contextVars, BlocksOf, NoBlock
  <1>2. ASSUME NEW c \in Calls, NEW f \in Functions, OutOfMemory(c, f)
        PROVE  Memory'
    <2>1. PICK some : Ends(c, "refused", Free(Allocate(some), some))
      BY <1>2 DEF OutOfMemory
    <2>2. \A b \in Blocks : heap'[c][b] \in {"none", "freed"}
      BY <2>1, FreeAllocated DEF Ends
    <2>3. BlocksOf(c)'
      BY <2>1, <2>2 DEF Ends, BlocksOf
    <2>4. ASSUME NEW d \in Calls, d # c PROVE BlocksOf(d)'
      BY <1>2, <2>1, <2>4 DEF OutOfMemory, Starts, Ends, BlocksOf
    <2> QED
      BY <2>3, <2>4
  <1>3. ASSUME NEW c \in Calls, NEW f \in Functions, SendFails(c, f)
        PROVE  Memory'
    <2>1. PICK blocks \in {Allocate(Allocated(f)), Prepared(f)} :
              Ends(c, "refused", Free(blocks, Api[f].failed))
      BY <1>3 DEF SendFails
    <2>2. \A b \in Blocks : /\ heap'[c][b] # "live"
                            /\ heap'[c][b] = "twice" => b \in Api[f].setup
      BY <2>1, FailedSend DEF Ends
    <2>3. function'[c] = f /\ stage'[c] = "refused"
      BY <1>3, <2>1 DEF SendFails, Starts, Ends
    <2>4. BlocksOf(c)'
      BY <2>2, <2>3 DEF BlocksOf
    <2>5. ASSUME NEW d \in Calls, d # c PROVE BlocksOf(d)'
      BY <1>3, <2>1, <2>5 DEF SendFails, Starts, Ends, BlocksOf
    <2> QED
      BY <2>4, <2>5
  <1>4. ASSUME NEW c \in Calls, NEW f \in Functions, Send(c, f)
        PROVE  Memory'
    BY <1>4 DEF Send, Starts, Ends, BlocksOf
  <1>5. ASSUME NEW c \in Calls, NEW kind \in Kinds, Reply(c, kind)
        PROVE  Memory'
    <2>1. /\ function[c] \in Functions
          /\ heap[c] = Prepared(function[c])
      BY <1>5 DEF Reply, Completes, CallsBack, BlocksOf
    <2>2. \A b \in Blocks : heap'[c][b] \in {"none", "freed"}
      BY <1>5, <2>1, Destroyed DEF Reply, Completes, CallsBack, Ends
    <2> QED
      BY <1>5, <2>2 DEF Reply, Completes, CallsBack, Ends, BlocksOf
  <1>6. CASE on_dbus_client_ready
    BY <1>6 DEF on_dbus_client_ready, callVars, BlocksOf
  <1>7. CASE tapi_close
    <2>1. PICK destroyed \in SUBSET {c \in Calls : stage[c] = "pending"} :
              heap' = [c \in Calls |-> IF c \in destroyed
                                       THEN Free(heap[c], Api[function[c]].destroy)
                                       ELSE heap[c]]
      BY <1>7 DEF tapi_close
    <2>2. ASSUME NEW c \in Calls PROVE BlocksOf(c)'
      <3>1. CASE stage[c] = "pending"
        <4>1. function[c] \in Functions /\ heap[c] = Prepared(function[c])
          BY <3>1 DEF BlocksOf
        <4>2. \A b \in Blocks : heap'[c][b] # "twice"
          BY <2>1, <4>1, Destroyed
        <4> QED
          BY <1>7, <3>1, <4>2 DEF tapi_close, BlocksOf
      <3>2. CASE stage[c] # "pending"
        BY <1>7, <2>1, <3>2 DEF tapi_close, BlocksOf
      <3> QED
        BY <3>1, <3>2
    <2> QED
      BY <1>7, <2>2 DEF tapi_close
  <1>8. CASE UNCHANGED vars
    BY <1>8 DEF vars, contextVars, callVars, BlocksOf
  <1> QED
    BY <1>1, <1>2, <1>3, <1>4, <1>5, <1>6, <1>7, <1>8 DEF Next

\* The account of the blocks holds throughout, for a table of disciplined functions
\* (the run requests_many evaluates Disciplined on the table of TAPI).
THEOREM Invariance ==
    ASSUME \A f \in Functions : Disciplined(f)
    PROVE  Spec => []IInv
  <1>1. Init => IInv
    BY InitTyped DEF IInv, Said, SaidOf, Memory, BlocksOf, Init
  <1>2. IInv /\ [Next]_vars => IInv'
    BY TypesInductive, SaidInductive, MemoryInductive DEF IInv
  <1> QED
    BY <1>1, <1>2, PTL DEF Spec

\* A function that returns an error leaves nothing behind and its callback never runs
\* (the guards, allocations and error labels of every tapi_* function).
THEOREM RefusalIsClean ==
    ASSUME \A f \in Functions : Disciplined(f)
    PROVE  Spec => []RefusedLeavesNothing
  <1>1. IInv => RefusedLeavesNothing
    BY DEF IInv, Said, SaidOf, Memory, BlocksOf, RefusedLeavesNothing
  <1> QED
    BY <1>1, Invariance, PTL

\* A call that is sent frees each of its blocks once, whether oFono answers it, gdbus
\* times it out or tapi_close gives it up (handler_free and the setup functions).
THEOREM SentCallsFreeOnce ==
    ASSUME \A f \in Functions : Disciplined(f)
    PROVE  Spec => []SentFreesOnce
  <1>1. IInv => SentFreesOnce
    <2> SUFFICES ASSUME IInv, NEW c \in Calls
                 PROVE  /\ stage[c] \in {"pending", "answered", "dropped"} =>
                              \A b \in Blocks : heap[c][b] # "twice"
                        /\ stage[c] = "answered" => \A b \in Blocks : heap[c][b] # "live"
      BY DEF SentFreesOnce
    <2>1. CASE stage[c] = "pending"
      <3>1. function[c] \in Functions /\ heap[c] = Prepared(function[c])
        BY <2>1 DEF IInv, Called, Memory, BlocksOf
      <3> QED
        BY <2>1, <3>1, Destroyed
    <2>2. CASE stage[c] # "pending"
      BY <2>2 DEF IInv, Memory, BlocksOf
    <2> QED
      BY <2>1, <2>2
  <1> QED
    BY <1>1, Invariance, PTL

\* A reply function always finds its handler and its result (the user data gdbus keeps
\* for every call in flight).
THEOREM HandlersOutlive ==
    ASSUME \A f \in Functions : Disciplined(f)
    PROVE  Spec => []HandlerOutlivesCall
  <1>1. IInv => HandlerOutlivesCall
    <2> SUFFICES ASSUME IInv, NEW c \in Calls, stage[c] = "pending",
                        NEW b \in {"handler", "ar"} \cap Allocated(function[c])
                 PROVE  heap[c][b] = "live"
      BY DEF HandlerOutlivesCall
    <2>1. function[c] \in Functions /\ heap[c] = Prepared(function[c])
      BY DEF IInv, Called, Memory, BlocksOf
    <2>2. b \in Blocks /\ b \notin Api[function[c]].setup
      BY <2>1 DEF Disciplined, Blocks
    <2> QED
      BY <2>1, <2>2 DEF Prepared, Free, Allocate
  <1> QED
    BY <1>1, Invariance, PTL

\* What is freed twice was freed by a setup function and is freed again by a function
\* that gdbus refused to send for, as tapi_call_dial and nine others do: the functions without such a setup function free nothing twice.
THEOREM OnlySetupFreesTwice ==
    ASSUME \A f \in Functions : Disciplined(f) /\ Api[f].setup = {}
    PROVE  Spec => []NoDoubleFree
  <1>1. IInv => NoDoubleFree
    <2> SUFFICES ASSUME IInv, NEW c \in Calls, NEW b \in Blocks
                 PROVE  heap[c][b] # "twice"
      BY DEF NoDoubleFree
    <2>1. BlocksOf(c)
      BY DEF IInv, Memory
    <2>2. CASE stage[c] = "unborn"
      BY <2>1, <2>2 DEF BlocksOf, NoBlock
    <2>3. CASE stage[c] = "refused"
      BY <2>1, <2>3 DEF BlocksOf, IInv, Called
    <2>4. CASE stage[c] = "pending"
      <3>1. function[c] \in Functions /\ heap[c] = Prepared(function[c])
        BY <2>1, <2>4 DEF BlocksOf, IInv, Called
      <3> QED
        BY <3>1, Destroyed
    <2>5. CASE stage[c] \in {"answered", "dropped"}
      BY <2>1, <2>5 DEF BlocksOf
    <2> QED
      BY <2>2, <2>3, <2>4, <2>5 DEF IInv, TypeOK, Stages
  <1>2. \A f \in Functions : Disciplined(f)
    OBVIOUS
  <1>3. Spec => []IInv
    BY <1>2, Invariance
  <1> QED
    BY <1>1, <1>3, PTL
=============================================================================
