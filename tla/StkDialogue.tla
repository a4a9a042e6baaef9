---------------------------- MODULE StkDialogue ----------------------------
(***************************************************************************)
(* What the agents of tapi_stk.c promise together: at most one request of  *)
(* the SIM is held for the application at any time, no request takes the   *)
(* place of the one that is held, and a request is settled once.  A        *)
(* request leaves with a reply, dropped (the SIM took it back), or strayed *)
(* (indicated to the application but never held).                          *)
(***************************************************************************)
EXTENDS Integers

CONSTANTS Requests, Nobody, Stranger

VARIABLES holder, outcome

dialogueVars == <<holder, outcome>>

\* A context that was not cleared may start with a holder nobody knows.
Init ==
    /\ holder \in {Nobody, Stranger}
    /\ outcome = [m \in Requests |-> "open"]

Settle(m, how) == outcome' = [outcome EXCEPT ![m] = how]

Hold(m) ==
    /\ holder = Nobody /\ outcome[m] = "open"
    /\ holder' = m /\ UNCHANGED outcome

\* A request that does not get hold of the dialogue is refused or strays.
TurnAway(m, how) ==
    /\ holder # m /\ outcome[m] = "open"
    /\ Settle(m, how) /\ UNCHANGED holder

Finish(m, how) ==
    /\ holder = m /\ outcome[m] = "open"
    /\ Settle(m, how) /\ holder' = Nobody

ForgetStranger ==
    /\ holder = Stranger
    /\ holder' = Nobody /\ UNCHANGED outcome

Next ==
    \/ \E m \in Requests :
          \/ Hold(m)
          \/ \E how \in {"replied", "strayed"} : TurnAway(m, how)
          \/ \E how \in {"replied", "dropped"} : Finish(m, how)
    \/ ForgetStranger

Spec == Init /\ [][Next]_dialogueVars
=============================================================================
