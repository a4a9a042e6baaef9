---------------------------- MODULE Subscription ----------------------------
(***************************************************************************)
(* What registering for an indication promises: from the moment it is      *)
(* registered until it is unregistered a subscriber hears of everything    *)
(* that is published, once, and at no other time of anything.              *)
(***************************************************************************)
EXTENDS Integers

CONSTANTS Subscribers

VARIABLES
    state,   \* per subscriber: what became of its registration
    owed,    \* per subscriber: it has to hear of what was published last
    heard    \* per subscriber: how often it heard

subscriptionVars == <<state, owed, heard>>

Init ==
    /\ state = [r \in Subscribers |-> "unborn"]
    /\ owed = [r \in Subscribers |-> FALSE]
    /\ heard = [r \in Subscribers |-> 0]

Subscribe(r) ==
    /\ state[r] = "unborn"
    /\ \E outcome \in {"active", "refused"} : state' = [state EXCEPT ![r] = outcome]
    /\ UNCHANGED <<owed, heard>>

\* Nothing is published before all have heard of what came before it.
Publish(interested) ==
    /\ \A r \in Subscribers : ~owed[r]
    /\ \A r \in interested : state[r] = "active"
    /\ owed' = [r \in Subscribers |-> r \in interested]
    /\ UNCHANGED <<state, heard>>

Hear(r) ==
    /\ owed[r]
    /\ owed' = [owed EXCEPT ![r] = FALSE]
    /\ heard' = [heard EXCEPT ![r] = @ + 1]
    /\ UNCHANGED state

Cancel(r) ==
    /\ state[r] = "active"
    /\ state' = [state EXCEPT ![r] = "cancelled"]
    /\ owed' = [owed EXCEPT ![r] = FALSE]
    /\ UNCHANGED heard

Close ==
    /\ \A r \in Subscribers : ~owed[r]
    /\ state' = [r \in Subscribers |->
                    IF state[r] \in {"active", "unborn"} THEN "closed" ELSE state[r]]
    /\ UNCHANGED <<owed, heard>>

Next ==
    \/ \E r \in Subscribers : Subscribe(r) \/ Hear(r) \/ Cancel(r)
    \/ \E interested \in SUBSET Subscribers : Publish(interested)
    \/ Close

Spec ==
    /\ Init /\ [][Next]_subscriptionVars
    /\ \A r \in Subscribers : WF_subscriptionVars(Hear(r))
=============================================================================
