----------------------------- MODULE AsyncCall -----------------------------
(***************************************************************************)
(* What an asynchronous function of TAPI promises its caller: a call is    *)
(* refused at once and the callback never runs, or it is accepted and the  *)
(* callback runs exactly once, with a status, unless the context is closed *)
(* first.                                                                  *)
(***************************************************************************)
CONSTANTS Calls

VARIABLES outcome

Outcomes == {"unborn", "refused", "pending", "OK", "ERROR", "dropped"}

Init == outcome = [c \in Calls |-> "unborn"]

Becomes(c, from, to) ==
    /\ outcome[c] = from
    /\ outcome' = [outcome EXCEPT ![c] = to]

Answered(c) == \E status \in {"OK", "ERROR"} : Becomes(c, "pending", status)

\* The context is closed: whatever is pending is dropped.
Closed ==
    /\ \E c \in Calls : outcome[c] = "pending"
    /\ outcome' = [c \in Calls |->
                     IF outcome[c] = "pending" THEN "dropped" ELSE outcome[c]]

Next ==
    \/ \E c \in Calls :
          \/ Becomes(c, "unborn", "refused")
          \/ Becomes(c, "unborn", "pending")
          \/ Answered(c)
    \/ Closed

Spec == Init /\ [][Next]_outcome /\ \A c \in Calls : WF_outcome(Answered(c))
=============================================================================
