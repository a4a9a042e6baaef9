------------------------------ MODULE Requests ------------------------------
(***************************************************************************)
(* The life of the asynchronous calls of TAPI.  A function of the table    *)
(* Api allocates a handler, a result and sometimes parameters, hands them  *)
(* to gdbus and returns; gdbus runs its setup function before it sends,    *)
(* its reply function when oFono answers and its destroy function after    *)
(* that.  gdbus is external, as the library uses it:                       *)
(*   - a call that cannot be sent runs neither reply nor destroy, and may  *)
(*     fail before or after the setup function;                            *)
(*   - a call that was sent is answered once, by oFono or, when oFono does *)
(*     not, with an error (time-out, connection lost);                     *)
(*   - when the connection is closed the calls that are not answered are   *)
(*     given up.                                                           *)
(***************************************************************************)
EXTENDS Integers, Sequences

CONSTANTS
    Api,          \* the functions: a record of module RequestTable for each
    Functions,    \* the functions the application calls in this instance
    Calls,        \* bound: the calls it makes
    Unsupported   \* the interfaces that have no proxy

Blocks   == {"handler", "ar", "param"}
Kinds    == {"error", "malformed", "good", "nomem"}
Outcomes == {"OK", "ERROR", "unset", "garbage", "silent"}

ApiRecord == [interface: STRING, ready: BOOLEAN, event: BOOLEAN, alloc: Seq(Blocks),
              setup: SUBSET Blocks, failed: SUBSET Blocks, destroy: SUBSET Blocks,
              reply: [Kinds -> (SUBSET Outcomes) \ {{}}]]

ASSUME ApiAssumption ==
    /\ \A f \in Functions : Api[f] \in ApiRecord
    /\ "none" \notin Functions

VARIABLES
    open,     \* the context is open
    ready,    \* ctx->client_ready
    function, \* per call: the function called
    stage,    \* per call: how far it is
    heap,     \* per call: what became of its blocks
    wanted,   \* per call: the function takes a callback and it is not NULL
    answer,   \* per call: the kind of reply it got
    told      \* per call: what the application's callback was told, in order

contextVars == <<open, ready>>
callVars    == <<function, stage, heap, wanted, answer, told>>
vars == <<contextVars, callVars>>

Stages     == {"unborn", "refused", "pending", "answered", "dropped"}
BlockState == {"none", "live", "freed", "twice"}

TypeOK ==
    /\ open \in BOOLEAN /\ ready \in BOOLEAN
    /\ function \in [Calls -> Functions \cup {"none"}]
    /\ stage \in [Calls -> Stages]
    /\ heap \in [Calls -> [Blocks -> BlockState]]
    /\ wanted \in [Calls -> BOOLEAN]
    /\ answer \in [Calls -> Kinds \cup {"none"}]
    /\ told \in [Calls -> Seq(Outcomes \ {"silent"})]

NoBlock == [b \in Blocks |-> "none"]

Init ==
    /\ open = TRUE /\ ready = FALSE
    /\ function = [c \in Calls |-> "none"]
    /\ stage = [c \in Calls |-> "unborn"]
    /\ heap = [c \in Calls |-> NoBlock]
    /\ wanted = [c \in Calls |-> FALSE]
    /\ answer = [c \in Calls |-> "none"]
    /\ told = [c \in Calls |-> <<>>]

-----------------------------------------------------------------------------
(* Memory *)

Allocated(f)    == {Api[f].alloc[k] : k \in 1..Len(Api[f].alloc)}
Allocate(some)  == [b \in Blocks |-> IF b \in some THEN "live" ELSE "none"]

FreeOne(state) == IF state = "live" THEN "freed"
                  ELSE IF state = "freed" THEN "twice" ELSE state
Free(h, some)  == [b \in Blocks |-> IF b \in some THEN FreeOne(h[b]) ELSE h[b]]

\* How a function shares out its blocks: the setup function frees some of them, the
\* destroy function the others, and the function itself all of them on a failure.
Disciplined(f) ==
    /\ Api[f].setup \cap Api[f].destroy = {}
    /\ Api[f].setup \cup Api[f].destroy = Allocated(f)
    /\ Api[f].setup \cap {"handler", "ar"} = {}
    /\ Allocated(f) \subseteq Api[f].failed

-----------------------------------------------------------------------------
(* The functions *)

\* What a function checks before it allocates: its arguments, the ready flag where it
\* matters, and the proxy.
Passes(f) == (Api[f].ready => ready) /\ Api[f].interface \notin Unsupported

Starts(c, f) ==
    /\ open /\ stage[c] = "unborn"
    /\ function' = [function EXCEPT ![c] = f]
    /\ UNCHANGED <<contextVars, answer, told>>

Ends(c, where, blocks) ==
    /\ stage' = [stage EXCEPT ![c] = where]
    /\ heap' = [heap EXCEPT ![c] = blocks]

\* -EINVAL, -EAGAIN or -EIO.  Arguments can always be wrong.
Refuse(c, f) ==
    /\ Starts(c, f)
    /\ Ends(c, "refused", NoBlock)
    /\ UNCHANGED wanted

\* Variant that returns without freeing the blocks before the one that failed.
OutOfMemoryLeaks(c, f) ==
    /\ Passes(f) /\ Starts(c, f)
    /\ \E k \in 1..Len(Api[f].alloc) :
          Ends(c, "refused", Allocate({Api[f].alloc[j] : j \in 1..(k - 1)}))
    /\ UNCHANGED wanted

\* -ENOMEM: an allocation fails and the blocks before it are freed.
OutOfMemory(c, f) ==
    /\ Passes(f) /\ Starts(c, f)
    /\ \E k \in 1..Len(Api[f].alloc) :
          LET before == {Api[f].alloc[j] : j \in 1..(k - 1)}
          IN  Ends(c, "refused", Free(Allocate(before), before))
    /\ UNCHANGED wanted

\* gdbus has built the message.
Prepared(f) == Free(Allocate(Allocated(f)), Api[f].setup)

\* -EINVAL or -EIO: gdbus cannot send.
SendFails(c, f) ==
    /\ Passes(f) /\ Starts(c, f)
    /\ \E blocks \in {Allocate(Allocated(f)), Prepared(f)} :
          Ends(c, "refused", Free(blocks, Api[f].failed))
    /\ UNCHANGED wanted

\* The call is on its way and the function returns OK.
Send(c, f) ==
    /\ Passes(f) /\ Starts(c, f)
    /\ Ends(c, "pending", Prepared(f))
    /\ \E callback \in BOOLEAN :
          wanted' = [wanted EXCEPT ![c] = callback /\ Api[f].event]

-----------------------------------------------------------------------------
(* What gdbus and the context do *)

\* The reply function has run, then the destroy function.
Completes(c, kind) ==
    /\ open /\ stage[c] = "pending"
    /\ answer' = [answer EXCEPT ![c] = kind]
    /\ Ends(c, "answered", Free(heap[c], Api[function[c]].destroy))
    /\ UNCHANGED <<contextVars, function, wanted>>

\* What the application's callback hears, if there is one.
CallsBack(c, said) == told' = IF wanted[c] THEN [told EXCEPT ![c] = @ \o said] ELSE told

\* Variant that runs the callback on every path, set up or not.
ReplyOnEveryPath(c, kind) ==
    /\ Completes(c, kind)
    /\ \E outcome \in Api[function[c]].reply[kind] : CallsBack(c, <<outcome>>)

\* Variant that runs the callback on an error and goes on to run it again.
ReplyGoesOn(c, kind) ==
    /\ Completes(c, kind)
    /\ \E outcome \in Api[function[c]].reply[kind] :
          CallsBack(c, IF outcome = "ERROR" THEN <<"ERROR", "OK">> ELSE <<outcome>>)

Spoken(outcome) == IF outcome = "silent" THEN <<>> ELSE <<outcome>>

Reply(c, kind) ==
    /\ Completes(c, kind)
    /\ \E outcome \in Api[function[c]].reply[kind] : CallsBack(c, Spoken(outcome))

on_dbus_client_ready ==
    /\ open /\ ~ready
    /\ ready' = TRUE
    /\ UNCHANGED <<open, callVars>>

\* The blocks of a call that is given up are destroyed or not, as gdbus likes.
tapi_close ==
    /\ open /\ open' = FALSE
    /\ stage' = [c \in Calls |-> IF stage[c] = "pending" THEN "dropped" ELSE stage[c]]
    /\ \E destroyed \in SUBSET {c \in Calls : stage[c] = "pending"} :
          heap' = [c \in Calls |-> IF c \in destroyed
                                   THEN Free(heap[c], Api[function[c]].destroy)
                                   ELSE heap[c]]
    /\ UNCHANGED <<ready, function, wanted, answer, told>>

-----------------------------------------------------------------------------
Next ==
    \/ \E c \in Calls, f \in Functions :
          \/ Refuse(c, f)
          \/ OutOfMemory(c, f)
          \/ SendFails(c, f)
          \/ Send(c, f)
    \/ \E c \in Calls, kind \in Kinds : Reply(c, kind)
    \/ on_dbus_client_ready
    \/ tapi_close

\* gdbus answers every call, if only with a time-out.
Fairness == \A c \in Calls : WF_vars(\E kind \in Kinds : Reply(c, kind))

Spec == Init /\ [][Next]_vars /\ Fairness

-----------------------------------------------------------------------------
(* Properties *)

\* Through every guard, allocation failure and failure to send, a function that
\* returns an error has freed what it allocated and its callback never runs.
RefusedLeavesNothing ==
    \A c \in Calls : stage[c] = "refused" =>
        /\ \A b \in Blocks : heap[c][b] # "live"
        /\ told[c] = <<>>

\* The blocks of a call that was sent are freed once, by the setup function or by the
\* destroy function, and when it is answered all of them are.
SentFreesOnce ==
    \A c \in Calls :
        /\ stage[c] \in {"pending", "answered", "dropped"} =>
              \A b \in Blocks : heap[c][b] # "twice"
        /\ stage[c] = "answered" => \A b \in Blocks : heap[c][b] # "live"

\* The reply function finds its handler and its result.
HandlerOutlivesCall ==
    \A c \in Calls : stage[c] = "pending" =>
        \A b \in {"handler", "ar"} \cap Allocated(function[c]) : heap[c][b] = "live"

\* A D-Bus error, a lost connection included, is never reported as success.
FailureIsReported ==
    \A c \in Calls : answer[c] = "error" =>
        \A k \in 1..Len(told[c]) : told[c][k] = "ERROR"

\* No block is freed twice.
NoDoubleFree == \A c \in Calls, b \in Blocks : heap[c][b] # "twice"

\* A call that was sent with a callback and was answered has told the callback.
AnswerIsTold ==
    \A c \in Calls : stage[c] = "answered" /\ wanted[c] => told[c] # <<>>

\* The callback is told a status that was set and a result that was decoded.
ResultIsDecoded ==
    \A c \in Calls : \A k \in 1..Len(told[c]) : told[c][k] \in {"OK", "ERROR"}

\* To a caller with a callback, each call is a call of AsyncCall.  (A call without one
\* is answered as well; that nobody is told is no concern of its caller.)
Heard(c) ==
    IF ~wanted[c] THEN "OK" ELSE IF Len(told[c]) = 1 THEN told[c][1] ELSE "untold"

Outcome(c) == IF stage[c] = "answered" THEN Heard(c) ELSE stage[c]

outcomes == [c \in Calls |-> Outcome(c)]

Promise == INSTANCE AsyncCall WITH outcome <- outcomes

\* Every call is refused and silent, or accepted and then answered exactly once, with
\* a status, or dropped by tapi_close: it never hangs.
PromiseSpec == Promise!Spec
=============================================================================
