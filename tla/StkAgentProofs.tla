--------------------------- MODULE StkAgentProofs ---------------------------
(***************************************************************************)
(* Theorems about the SIM toolkit agents, for any number of slots, agents, *)
(* methods and requests, and whatever uninitialised memory reads as.       *)
(***************************************************************************)
EXTENDS StkAgent, SequenceTheorems, TLAPS

\* A request is counted as replied to exactly when it has been.
CountInv == \A m \in Msgs : count[m] = (IF status[m] = "replied" THEN 1 ELSE 0)

\* Requests in the inbox are the queued ones, each there once.
QueueInv ==
    /\ \A i \in 1..Len(inbox) :
          inbox[i].type = "Request" =>
             inbox[i].id \in Msgs /\ status[inbox[i].id] = "queued"
    /\ \A i, j \in 1..Len(inbox) :
          inbox[i].type = "Request" /\ inbox[j].type = "Request"
             /\ inbox[i].id = inbox[j].id => i = j

\* oFono knows the agent of every request it made and waits only for those.
SentInv ==
    /\ \A m \in Msgs : m > sent => status[m] = "unsent"
    /\ \A m \in Msgs : m <= sent => req[m].agent \in Agents
    /\ \A s \in Slots : waiting[s] <= sent

IInv == TypeOK /\ HeldIsPending /\ CountInv /\ QueueInv /\ SentInv

-----------------------------------------------------------------------------
LEMMA QueueShrinks ==
    ASSUME inbox \in Seq(Messages), inbox # <<>>
    PROVE  /\ Head(inbox) \in Messages
           /\ Tail(inbox) \in Seq(Messages)
           /\ Len(inbox) \in Nat \ {0}
           /\ Head(inbox) = inbox[1]
           /\ \A i \in 1..Len(Tail(inbox)) :
                 Tail(inbox)[i] = inbox[i + 1] /\ i + 1 \in 2..Len(inbox)
  <1>1. Len(inbox) \in Nat /\ Len(inbox) # 0
    BY EmptySeq, LenProperties
  <1>2. /\ Head(inbox) \in Messages /\ Tail(inbox) \in Seq(Messages)
        /\ Len(Tail(inbox)) = Len(inbox) - 1
        /\ \A i \in 1..Len(Tail(inbox)) : Tail(inbox)[i] = inbox[i + 1]
    BY HeadTailProperties
  <1>3. Head(inbox) = inbox[1]
    BY <1>1
  <1>4. QED
    BY <1>1, <1>2, <1>3

\* Taking the head off the inbox keeps QueueInv as long as no other request leaves
\* the queue.
LEMMA Dequeue ==
    ASSUME TypeOK, QueueInv, inbox # <<>>, inbox' = Tail(inbox),
           \A m \in Msgs :
              /\ status[m] = "queued"
              /\ ~(Head(inbox).type = "Request" /\ Head(inbox).id = m)
              => status'[m] = "queued"
    PROVE  QueueInv' /\ inbox' \in Seq(Messages)
  <1>1. inbox \in Seq(Messages)
    BY DEF TypeOK
  <1> DEFINE n == Len(Tail(inbox))
  <1>2. /\ Tail(inbox) \in Seq(Messages) /\ 1 \in 1..Len(inbox)
        /\ Head(inbox) = inbox[1]
        /\ \A i \in 1..n : Tail(inbox)[i] = inbox[i + 1] /\ i + 1 \in 2..Len(inbox)
        /\ \A i \in 2..Len(inbox) : i \in 1..Len(inbox) /\ i # 1
    BY <1>1, QueueShrinks
  <1>3. ASSUME NEW i \in 1..n, Tail(inbox)[i].type = "Request"
        PROVE  Tail(inbox)[i].id \in Msgs /\ status'[Tail(inbox)[i].id] = "queued"
    BY <1>2, <1>3 DEF QueueInv
  <1>4. ASSUME NEW i \in 1..n, NEW j \in 1..n,
               Tail(inbox)[i].type = "Request", Tail(inbox)[j].type = "Request",
               Tail(inbox)[i].id = Tail(inbox)[j].id
        PROVE  i = j
    <2>1. i + 1 = j + 1
      BY <1>2, <1>4 DEF QueueInv
    <2>2. QED
      BY <2>1
  <1>5. QED
    BY <1>2, <1>3, <1>4 DEF QueueInv

\* Appending to the inbox keeps QueueInv: a withdrawal, or a request not sent before.
LEMMA Enqueue ==
    ASSUME TypeOK, QueueInv, NEW x \in Messages, inbox' = Append(inbox, x),
           \A m \in Msgs : status[m] = "queued" => status'[m] = "queued",
           x.type = "Request" =>
              /\ x.id \in Msgs
              /\ status[x.id] # "queued" /\ status'[x.id] = "queued"
    PROVE  QueueInv' /\ inbox' \in Seq(Messages)
  <1> DEFINE n == Len(inbox)
             q == Append(inbox, x)
  <1>1. /\ n \in Nat /\ q \in Seq(Messages) /\ Len(q) = n + 1
        /\ \A i \in 1..n : q[i] = inbox[i]
        /\ q[n + 1] = x
    BY AppendProperties, LenProperties DEF TypeOK
  <1>2. \A i \in 1..(n + 1) : i \in 1..n \/ i = n + 1
    BY <1>1
  <1>3. ASSUME NEW i \in 1..(n + 1), q[i].type = "Request"
        PROVE  q[i].id \in Msgs /\ status'[q[i].id] = "queued"
    BY <1>1, <1>2, <1>3 DEF QueueInv
  <1>4. ASSUME NEW i \in 1..n, inbox[i].type = "Request", x.type = "Request"
        PROVE  inbox[i].id # x.id
    BY <1>4 DEF QueueInv
  <1>5. ASSUME NEW i \in 1..(n + 1), NEW j \in 1..(n + 1),
               q[i].type = "Request", q[j].type = "Request", q[i].id = q[j].id
        PROVE  i = j
    <2>1. CASE i \in 1..n /\ j \in 1..n
      BY <1>1, <1>5, <2>1 DEF QueueInv
    <2>2. CASE i = n + 1 \/ j = n + 1
      BY <1>1, <1>2, <1>4, <1>5, <2>2
    <2>3. QED
      BY <1>2, <2>1, <2>2
  <1>6. QED
    BY <1>1, <1>3, <1>5 DEF QueueInv

-----------------------------------------------------------------------------
LEMMA InitIInv == Init => IInv
  <1> SUFFICES ASSUME Init PROVE IInv
    OBVIOUS
  <1>1. inbox \in Seq(Messages) /\ Len(inbox) = 0
    BY EmptySeq DEF Init
  <1>2. QED
    BY <1>1, ConstantsAssumption
    DEF Init, IInv, TypeOK, HeldIsPending, CountInv, QueueInv, SentInv, Msgs, NoMsg,
        Wild, IfaceStates, Statuses

\* A request at the head of the inbox is queued: nobody replied to it yet and it is
\* not the pending one.
LEMMA HeadIsQueued ==
    ASSUME IInv, Arrived("Request")
    PROVE  /\ Head(inbox).id \in Msgs /\ Head(inbox).agent \in Agents
           /\ status[Head(inbox).id] = "queued"
           /\ inbox # <<>>
  <1>1. /\ inbox # <<>> /\ Head(inbox).type = "Request"
        /\ Head(inbox) \in Messages /\ Head(inbox) = inbox[1] /\ 1 \in 1..Len(inbox)
    BY QueueShrinks DEF IInv, TypeOK, Arrived
  <1>2. QED
    BY <1>1 DEF IInv, QueueInv, Messages

LEMMA RejectKeeps ==
    ASSUME IInv, Arrived("Request"), Reject(Head(inbox).id),
           inbox' = Tail(inbox), UNCHANGED <<reqVars, bound>>
    PROVE  IInv'
  <1> DEFINE m == Head(inbox).id
  <1>1. m \in Msgs /\ status[m] = "queued" /\ inbox # <<>>
    BY HeadIsQueued
  <1>2. /\ status' = [status EXCEPT ![m] = "replied"]
        /\ count' = [count EXCEPT ![m] = @ + 1]
        /\ waiting' = [s \in Slots |-> IF waiting[s] = m THEN NoMsg ELSE waiting[s]]
        /\ UNCHANGED <<iface, pending, screen, req, sent, bound>>
    BY DEF Reject, SendReply, libVars, reqVars
  <1>3. QueueInv' /\ inbox' \in Seq(Messages)
    <2>1. \A x \in Msgs : status[x] = "queued" /\ x # m => status'[x] = "queued"
      BY <1>1, <1>2 DEF IInv, TypeOK
    <2>2. Head(inbox).type = "Request"
      BY DEF Arrived
    <2>3. QED
      BY <1>1, <2>1, <2>2, Dequeue DEF IInv
  <1>4. TypeOK'
    BY <1>1, <1>2, <1>3 DEF IInv, TypeOK, Statuses
  <1>5. HeldIsPending'
    BY <1>1, <1>2 DEF IInv, TypeOK, HeldIsPending
  <1>6. CountInv'
    BY <1>1, <1>2 DEF IInv, TypeOK, CountInv
  <1>7. SentInv'
    BY <1>1, <1>2 DEF IInv, TypeOK, SentInv, NoMsg, Msgs
  <1>8. QED
    BY <1>3, <1>4, <1>5, <1>6, <1>7 DEF IInv

\* Only the context's own pending can be set, and only when it was NULL.
LEMMA AcceptKeeps ==
    ASSUME IInv, Arrived("Request"),
           NoMsg \in PendingReads(Head(inbox).agent),
           Accept(Head(inbox).id, Head(inbox).agent),
           inbox' = Tail(inbox), UNCHANGED <<reqVars, bound>>
    PROVE  IInv'
  <1> DEFINE m == Head(inbox).id
             a == Head(inbox).agent
  <1>1. m \in Msgs /\ a \in Agents /\ status[m] = "queued" /\ inbox # <<>>
    BY HeadIsQueued
  <1>2. /\ iface' = [iface EXCEPT ![a] = "freed"]
        /\ screen' = m
        /\ UNCHANGED <<req, sent, count, waiting, bound>>
    BY DEF Accept, reqVars
  <1>3. \/ /\ pending = NoMsg /\ pending' = m
           /\ status' = [status EXCEPT ![m] = "held"]
        \/ /\ pending' = pending
           /\ status' = [status EXCEPT ![m] = "strayed"]
    BY DEF Accept, PendingReads
  <1>4. QueueInv' /\ inbox' \in Seq(Messages)
    <2>1. \A x \in Msgs : status[x] = "queued" /\ x # m => status'[x] = "queued"
      BY <1>1, <1>3 DEF IInv, TypeOK
    <2>2. Head(inbox).type = "Request"
      BY DEF Arrived
    <2>3. QED
      BY <1>1, <2>1, <2>2, Dequeue DEF IInv
  <1>5. TypeOK'
    BY <1>1, <1>2, <1>3, <1>4 DEF IInv, TypeOK, Statuses, IfaceStates
  <1>6. HeldIsPending'
    <2>1. CASE pending = NoMsg /\ pending' = m /\ status' = [status EXCEPT ![m] = "held"]
      BY <1>1, <2>1 DEF IInv, TypeOK, HeldIsPending, NoMsg, Msgs
    <2>2. CASE pending' = pending /\ status' = [status EXCEPT ![m] = "strayed"]
      BY <1>1, <2>2 DEF IInv, TypeOK, HeldIsPending
    <2>3. QED
      BY <1>3, <2>1, <2>2
  <1>7. CountInv'
    BY <1>1, <1>2, <1>3 DEF IInv, TypeOK, CountInv
  <1>8. SentInv'
    BY <1>1, <1>2, <1>3 DEF IInv, TypeOK, SentInv, Msgs
  <1>9. QED
    BY <1>4, <1>5, <1>6, <1>7, <1>8 DEF IInv

LEMMA HandlerKeeps ==
    ASSUME IInv, NEW method, NEW argsFirst, Handler(method, argsFirst)
    PROVE  IInv'
  <1>1. /\ Arrived("Request") /\ inbox' = Tail(inbox) /\ UNCHANGED <<reqVars, bound>>
        /\ \/ Reject(Head(inbox).id)
           \/ /\ NoMsg \in PendingReads(Head(inbox).agent)
              /\ Accept(Head(inbox).id, Head(inbox).agent)
    BY DEF Handler, Serve
  <1>2. QED
    BY <1>1, RejectKeeps, AcceptKeeps

LEMMA WithdrawnKeeps ==
    ASSUME IInv, NEW type, type # "Request", Withdrawn(type)
    PROVE  IInv'
  <1> DEFINE a == Head(inbox).agent
  <1>1. /\ inbox # <<>> /\ Head(inbox).type # "Request" /\ a \in Agents
        /\ inbox' = Tail(inbox)
        /\ UNCHANGED <<req, sent, count, bound, waiting>>
    BY QueueShrinks
    DEF IInv, TypeOK, Withdrawn, Arrived, reqVars, ofonoVars, Messages
  <1>2. \/ /\ pending' = NoMsg
           /\ status' = [m \in Msgs |-> IF m = pending THEN "dropped" ELSE status[m]]
        \/ UNCHANGED <<pending, status>>
    BY DEF Withdrawn, Withdraw, libVars
  <1>3. iface' \in [Agents -> IfaceStates] /\ screen' \in Msgs \cup {NoMsg}
    BY <1>1 DEF Withdrawn, Withdraw, libVars, IInv, TypeOK, IfaceStates
  <1>4. \A m \in Msgs : status[m] = "queued" => status'[m] = "queued"
    BY <1>2 DEF IInv, HeldIsPending
  <1>5. QueueInv' /\ inbox' \in Seq(Messages)
    BY <1>1, <1>4, Dequeue DEF IInv
  <1>6. TypeOK'
    BY <1>1, <1>2, <1>3, <1>5 DEF IInv, TypeOK, Statuses
  <1>7. HeldIsPending'
    <2>1. CASE /\ pending' = NoMsg
               /\ status' = [m \in Msgs |-> IF m = pending THEN "dropped" ELSE status[m]]
      BY <2>1 DEF IInv, HeldIsPending, NoMsg, Msgs
    <2>2. CASE UNCHANGED <<pending, status>>
      BY <2>2 DEF IInv, HeldIsPending
    <2>3. QED
      BY <1>2, <2>1, <2>2
  <1>8. CountInv'
    BY <1>1, <1>2 DEF IInv, CountInv, HeldIsPending
  <1>9. SentInv'
    BY <1>1, <1>2 DEF IInv, SentInv, HeldIsPending
  <1>10. QED
    BY <1>5, <1>6, <1>7, <1>8, <1>9 DEF IInv

LEMMA AnswerKeeps ==
    ASSUME IInv, NEW shape, Answer(shape)
    PROVE  IInv'
  <1>1. /\ screen' = NoMsg
        /\ UNCHANGED <<iface, req, sent, bound, inbox>>
    BY DEF Answer, reqVars
  <1>2. CASE pending \in Msgs
    <2>1. /\ pending' = NoMsg
          /\ status' = [status EXCEPT ![pending] = "replied"]
          /\ count' = [count EXCEPT ![pending] = @ + 1]
          /\ waiting' = [s \in Slots |->
                           IF waiting[s] = pending THEN NoMsg ELSE waiting[s]]
      BY <1>2 DEF Answer, stk_agent_dbus_pending_reply, SendReply, NoMsg, Msgs
    <2>2. status[pending] = "held"
      BY <1>2 DEF IInv, HeldIsPending
    <2>3. QueueInv'
      BY <1>1, <2>1, <2>2 DEF IInv, TypeOK, QueueInv
    <2>4. TypeOK'
      BY <1>1, <1>2, <2>1 DEF IInv, TypeOK, Statuses
    <2>5. HeldIsPending' /\ CountInv'
      BY <1>2, <2>1, <2>2 DEF IInv, TypeOK, HeldIsPending, CountInv, NoMsg, Msgs
    <2>6. SentInv'
      BY <1>1, <1>2, <2>1, <2>2 DEF IInv, TypeOK, SentInv, NoMsg, Msgs
    <2>7. QED
      BY <2>3, <2>4, <2>5, <2>6 DEF IInv
  <1>3. CASE pending \notin Msgs
    <2>1. pending' = NoMsg /\ UNCHANGED <<status, count, waiting>>
      BY <1>3 DEF Answer, stk_agent_dbus_pending_reply, replyVars
    <2>2. QED
      BY <1>1, <1>3, <2>1
      DEF IInv, TypeOK, HeldIsPending, CountInv, QueueInv, SentInv, NoMsg, Msgs
  <1>4. QED
    BY <1>2, <1>3

\* Registering and unregistering an agent's interface, binding and selecting an
\* agent.
RegistrationStep ==
    \/ \E a \in Agents, withCallback \in BOOLEAN :
          tapi_stk_agent_interface_register(a, withCallback)
    \/ \E a \in Agents : tapi_stk_agent_interface_unregister(a)
    \/ \E s \in Slots, a \in Agents :
          tapi_stk_agent_register(s, a) \/ tapi_stk_select_item(s, a)

LEMMA RegistrationKeeps == IInv /\ RegistrationStep => IInv'
  <1> SUFFICES ASSUME IInv, RegistrationStep PROVE IInv'
    OBVIOUS
  <1> USE DEF libVars, reqVars, replyVars, ofonoVars
  <1>1. /\ UNCHANGED <<pending, screen, req, status, count, sent, waiting, inbox>>
        /\ iface' \in [Agents -> IfaceStates]
        /\ bound' \in [Slots -> Agents \cup {NoAgent}]
    BY DEF RegistrationStep, tapi_stk_agent_interface_register,
           tapi_stk_agent_interface_unregister, tapi_stk_agent_register,
           tapi_stk_select_item, IInv, TypeOK, IfaceStates
  <1>2. QED
    BY <1>1 DEF IInv, TypeOK, HeldIsPending, CountInv, QueueInv, SentInv

LEMMA ReleaseKeeps ==
    ASSUME IInv, NEW s \in Slots, OfonoRelease(s)
    PROVE  IInv'
  <1> DEFINE x == Message("AgentRelease", bound[s], NoMsg)
  <1>1. /\ UNCHANGED <<iface, pending, screen, req, status, count, sent, waiting>>
        /\ bound' = [bound EXCEPT ![s] = NoAgent]
        /\ bound[s] \in Agents
        /\ inbox' = Append(inbox, x)
    BY DEF OfonoRelease, libVars, reqVars, replyVars, IInv, TypeOK
  <1>2. x \in Messages /\ x.type # "Request"
    BY <1>1 DEF Message, Messages
  <1> HIDE DEF x
  <1>3. QueueInv' /\ inbox' \in Seq(Messages)
    BY <1>1, <1>2, Enqueue DEF IInv
  <1>4. QED
    BY <1>1, <1>3 DEF IInv, TypeOK, HeldIsPending, CountInv, SentInv

LEMMA CancelKeeps ==
    ASSUME IInv, NEW s \in Slots, OfonoCancel(s)
    PROVE  IInv'
  <1> DEFINE x == Message("Cancel", req[waiting[s]].agent, NoMsg)
  <1>1. /\ UNCHANGED <<iface, pending, screen, req, status, count, sent, bound>>
        /\ waiting' = [waiting EXCEPT ![s] = NoMsg]
        /\ waiting[s] # NoMsg
        /\ inbox' = Append(inbox, x)
    BY DEF OfonoCancel, libVars, reqVars, replyVars
  <1>2. x \in Messages /\ x.type # "Request"
    <2>1. waiting[s] \in Msgs /\ waiting[s] <= sent
      BY <1>1 DEF IInv, TypeOK, SentInv
    <2>2. req[waiting[s]].agent \in Agents
      BY <2>1 DEF IInv, SentInv
    <2>3. QED
      BY <2>2 DEF Message, Messages
  <1> HIDE DEF x
  <1>3. QueueInv' /\ inbox' \in Seq(Messages)
    BY <1>1, <1>2, Enqueue DEF IInv
  <1>4. SentInv'
    BY <1>1 DEF IInv, TypeOK, SentInv, NoMsg
  <1>5. QED
    BY <1>1, <1>3, <1>4 DEF IInv, TypeOK, HeldIsPending, CountInv

LEMMA RequestKeeps ==
    ASSUME IInv, NEW s \in Slots, NEW method \in Methods, OfonoRequest(s, method)
    PROVE  IInv'
  <1> DEFINE m == sent + 1
             x == Message("Request", bound[s], m)
             r == [method |-> method, agent |-> bound[s]]
  <1>1. /\ UNCHANGED <<iface, pending, screen, count, bound>>
        /\ sent < MaxRequests /\ sent' = m /\ bound[s] \in Agents
        /\ req' = [req EXCEPT ![m] = r]
        /\ status' = [status EXCEPT ![m] = "queued"]
        /\ waiting' = [waiting EXCEPT ![s] = m]
        /\ inbox' = Append(inbox, x)
    BY DEF OfonoRequest, libVars, IInv, TypeOK
  <1>2. m \in Msgs /\ status[m] = "unsent" /\ sent \in Nat
    BY <1>1, ConstantsAssumption DEF IInv, TypeOK, SentInv, Msgs
  <1>3. x \in Messages /\ x.type = "Request" /\ x.id = m
    BY <1>1, <1>2 DEF Message, Messages
  <1>4. /\ r \in [method: DOMAIN ReplyShape \cup {"none"}, agent: Agents \cup {NoAgent}]
        /\ r.agent \in Agents
    BY <1>1, ConstantsAssumption
  <1> HIDE DEF x, r
  <1>5. QueueInv' /\ inbox' \in Seq(Messages)
    <2>1. \A y \in Msgs : status[y] = "queued" => status'[y] = "queued"
      BY <1>1, <1>2 DEF IInv, TypeOK
    <2>2. status'[m] = "queued"
      BY <1>1, <1>2 DEF IInv, TypeOK
    <2>3. QED
      BY <1>1, <1>2, <1>3, <2>1, <2>2, Enqueue DEF IInv
  <1>6. TypeOK'
    <2>1. status' \in [Msgs -> Statuses] /\ waiting' \in [Slots -> Msgs \cup {NoMsg}]
      BY <1>1, <1>2 DEF IInv, TypeOK, Statuses
    <2>2. sent' \in 0..MaxRequests
      BY <1>1, <1>2, ConstantsAssumption
    <2>3. QED
      BY <1>1, <1>2, <1>4, <1>5, <2>1, <2>2 DEF IInv, TypeOK
  <1>7. HeldIsPending' /\ CountInv'
    BY <1>1, <1>2 DEF IInv, TypeOK, HeldIsPending, CountInv
  <1>8. SentInv'
    <2>1. \A y \in Msgs : y > m => status'[y] = "unsent"
      BY <1>1, <1>2 DEF IInv, TypeOK, SentInv, Msgs
    <2>2. ASSUME NEW y \in Msgs, y <= m PROVE req'[y].agent \in Agents
      <3>1. CASE y = m
        BY <1>1, <1>2, <1>4, <3>1 DEF IInv, TypeOK
      <3>2. CASE y # m
        BY <1>1, <1>2, <2>2, <3>2 DEF IInv, TypeOK, SentInv, Msgs
      <3>3. QED
        BY <3>1, <3>2
    <2>3. \A t \in Slots : waiting'[t] <= m
      BY <1>1, <1>2 DEF IInv, TypeOK, SentInv, Msgs, NoMsg
    <2>4. QED
      BY <1>1, <2>1, <2>2, <2>3 DEF SentInv
  <1>9. QED
    BY <1>5, <1>6, <1>7, <1>8 DEF IInv

LEMMA NextKeeps == IInv /\ [Next]_vars => IInv'
  <1> SUFFICES ASSUME IInv, [Next]_vars PROVE IInv'
    OBVIOUS
  <1>1. CASE AgentRequest
    BY <1>1, HandlerKeeps
    DEF AgentRequest, stk_agent_show_information, stk_agent_handle_request_digit,
        stk_agent_handle_request_key, stk_agent_handle_request_confirmation,
        stk_agent_handle_request_input, stk_agent_handle_request_digits,
        stk_agent_handle_play_tone, stk_agent_handle_loop_tone,
        stk_agent_handle_request_selection, stk_agent_handle_request_quick_digit,
        stk_agent_confirm_call_setup, stk_agent_display_action_information,
        stk_agent_confirm_launch_browser, stk_agent_display_action,
        stk_agent_confirm_open_channel
  <1>2. CASE NoSuchObject
    BY <1>2, RejectKeeps DEF NoSuchObject
  <1>3. CASE stk_agent_release \/ stk_agent_cancel
    BY <1>3, WithdrawnKeeps DEF stk_agent_release, stk_agent_cancel
  <1>4. CASE \E shape : Answer(shape)
    BY <1>4, AnswerKeeps
  <1>5. CASE RegistrationStep
    BY <1>5, RegistrationKeeps
  <1>6. CASE \E s \in Slots : OfonoCancel(s) \/ OfonoRelease(s)
    BY <1>6, CancelKeeps, ReleaseKeeps
  <1>7. CASE \E s \in Slots, method \in Methods : OfonoRequest(s, method)
    BY <1>7, RequestKeeps
  <1>8. CASE UNCHANGED vars
    BY <1>8
    DEF vars, libVars, reqVars, replyVars, ofonoVars,
        IInv, TypeOK, HeldIsPending, CountInv, QueueInv, SentInv
  <1>9. QED
    <2>1. \A s \in Slots : DefaultAgent[s] \in Agents
      BY ConstantsAssumption
    <2>2. QED
      BY <1>1, <1>2, <1>3, <1>4, <1>5, <1>6, <1>7, <1>8, <2>1
      DEF Next, RegistrationStep, tapi_stk_handle_agent_display_text,
          tapi_stk_handle_agent_play_tone, tapi_stk_handle_agent_request_key,
          tapi_stk_handle_agent_request_input,
          tapi_stk_handle_agent_request_confirmation,
          tapi_stk_handle_agent_request_selection,
          tapi_stk_default_agent_interface_register,
          tapi_stk_default_agent_interface_unregister,
          tapi_stk_default_agent_register, tapi_stk_default_agent_unregister,
          tapi_stk_agent_unregister

-----------------------------------------------------------------------------
\* The inductive invariant holds in every state.
THEOREM Invariance == Spec => []IInv
  BY InitIInv, NextKeeps, PTL DEF Spec

\* The agents' state keeps its type (TypeOK).
THEOREM TypeCorrect == Spec => []TypeOK
  <1>1. IInv => TypeOK
    BY DEF IInv
  <1>2. QED
    BY <1>1, Invariance, PTL

\* No request is replied to twice, by whatever mixture of error replies, answers,
\* cancellations and dangling handlers.
THEOREM RepliesOnce == Spec => []AtMostOneReply
  <1>1. IInv => AtMostOneReply
    BY DEF IInv, CountInv, AtMostOneReply
  <1>2. QED
    BY <1>1, Invariance, PTL

\* ctx->pending is exactly the request that waits for the application.
THEOREM PendingIsHeld == Spec => []HeldIsPending
  <1>1. IInv => HeldIsPending
    BY DEF IInv
  <1>2. QED
    BY <1>1, Invariance, PTL

-----------------------------------------------------------------------------
(* The agents implement StkDialogue *)

\* What an action does to the dialogue, in terms of ctx->pending and the statuses.
\* A request that becomes queued, held or stays where it is stays open.
SameDialogue ==
    /\ pending' = pending
    /\ \A m \in Msgs : Outcome(m)' = Outcome(m)

Holds(m) ==
    /\ pending = NoMsg /\ pending' = m /\ Outcome(m) = "open"
    /\ \A x \in Msgs : Outcome(x)' = Outcome(x)

Turns(m, how) ==
    /\ pending' = pending /\ pending # m /\ Outcome(m) = "open"
    /\ \A x \in Msgs : Outcome(x)' = IF x = m THEN how ELSE Outcome(x)

Finishes(how) ==
    /\ pending \in Msgs /\ pending' = NoMsg /\ Outcome(pending) = "open"
    /\ \A x \in Msgs : Outcome(x)' = IF x = pending THEN how ELSE Outcome(x)

Forgets ==
    /\ pending \in {NoMsg, Wild} /\ pending' = NoMsg
    /\ \A x \in Msgs : Outcome(x)' = Outcome(x)

Abstractly ==
    \/ SameDialogue
    \/ \E m \in Msgs : Holds(m) \/ Turns(m, "replied") \/ Turns(m, "strayed")
    \/ Finishes("replied") \/ Finishes("dropped")
    \/ Forgets

LEMMA AbstractlyIsAStep ==
    IInv /\ Abstractly => [Dialogue!Next]_(Dialogue!dialogueVars)
  <1> SUFFICES ASSUME IInv, Abstractly
               PROVE  [Dialogue!Next]_(Dialogue!dialogueVars)
    OBVIOUS
  <1> DEFINE oc == [m \in Msgs |-> Outcome(m)]
  <1>1. oc' = [m \in Msgs |-> Outcome(m)']
    OBVIOUS
  <1>2. CASE SameDialogue
    <2>1. oc' = oc
      BY <1>1, <1>2 DEF SameDialogue
    <2>2. QED
      BY <1>2, <2>1 DEF SameDialogue, Dialogue!dialogueVars
  <1>3. ASSUME NEW m \in Msgs, Holds(m) PROVE Dialogue!Next
    <2>1. oc' = oc
      BY <1>1, <1>3 DEF Holds
    <2>2. Dialogue!Hold(m)
      BY <1>3, <2>1 DEF Holds, Dialogue!Hold
    <2>3. QED
      BY <2>2 DEF Dialogue!Next
  <1>4. ASSUME NEW m \in Msgs, NEW how \in {"replied", "strayed"}, Turns(m, how)
        PROVE  Dialogue!Next
    <2>1. oc' = [oc EXCEPT ![m] = how]
      BY <1>1, <1>4 DEF Turns
    <2>2. Dialogue!TurnAway(m, how)
      BY <1>4, <2>1 DEF Turns, Dialogue!TurnAway, Dialogue!Settle
    <2>3. QED
      BY <2>2 DEF Dialogue!Next
  <1>5. ASSUME NEW how \in {"replied", "dropped"}, Finishes(how) PROVE Dialogue!Next
    <2>1. oc' = [oc EXCEPT ![pending] = how]
      BY <1>1, <1>5 DEF Finishes
    <2>2. Dialogue!Finish(pending, how)
      BY <1>5, <2>1 DEF Finishes, Dialogue!Finish, Dialogue!Settle
    <2>3. QED
      BY <1>5, <2>2 DEF Dialogue!Next, Finishes
  <1>6. CASE Forgets
    <2>1. oc' = oc
      BY <1>1, <1>6 DEF Forgets
    <2>2. QED
      BY <1>6, <2>1
      DEF Forgets, Dialogue!Next, Dialogue!ForgetStranger, Dialogue!dialogueVars
  <1>7. QED
    BY <1>2, <1>3, <1>4, <1>5, <1>6 DEF Abstractly

LEMMA RejectIsAbstract ==
    ASSUME IInv, Arrived("Request"), Reject(Head(inbox).id)
    PROVE  Abstractly
  <1> DEFINE m == Head(inbox).id
  <1>1. m \in Msgs /\ status[m] = "queued" /\ pending # m
    BY HeadIsQueued DEF IInv, HeldIsPending
  <1>2. pending' = pending /\ status' = [status EXCEPT ![m] = "replied"]
    BY DEF Reject, SendReply, libVars
  <1>3. Turns(m, "replied")
    BY <1>1, <1>2 DEF Turns, Outcome, IInv, TypeOK
  <1>4. QED
    BY <1>1, <1>3 DEF Abstractly

LEMMA HandlerIsAbstract ==
    ASSUME IInv, NEW method, NEW argsFirst, Handler(method, argsFirst)
    PROVE  Abstractly
  <1> DEFINE m == Head(inbox).id
             a == Head(inbox).agent
  <1>1. /\ Arrived("Request")
        /\ Reject(m) \/ (NoMsg \in PendingReads(a) /\ Accept(m, a))
    BY DEF Handler, Serve
  <1>2. CASE Reject(m)
    BY <1>1, <1>2, RejectIsAbstract
  <1>3. CASE NoMsg \in PendingReads(a) /\ Accept(m, a)
    <2>1. m \in Msgs /\ status[m] = "queued" /\ pending # m
      BY <1>1, HeadIsQueued DEF IInv, HeldIsPending
    <2>2. \/ /\ pending = NoMsg /\ pending' = m
             /\ status' = [status EXCEPT ![m] = "held"]
          \/ /\ pending' = pending
             /\ status' = [status EXCEPT ![m] = "strayed"]
      BY <1>3 DEF Accept, PendingReads
    <2>3. Holds(m) \/ Turns(m, "strayed")
      BY <2>1, <2>2 DEF Holds, Turns, Outcome, IInv, TypeOK
    <2>4. QED
      BY <2>1, <2>3 DEF Abstractly
  <1>4. QED
    BY <1>1, <1>2, <1>3

LEMMA WithdrawnIsAbstract ==
    ASSUME IInv, NEW type, Withdrawn(type)
    PROVE  Abstractly
  <1>1. CASE /\ pending' = NoMsg
             /\ status' = [m \in Msgs |-> IF m = pending THEN "dropped" ELSE status[m]]
    <2>1. CASE pending \in Msgs
      <3>1. status[pending] = "held"
        BY <2>1 DEF IInv, HeldIsPending
      <3>2. Finishes("dropped")
        BY <1>1, <2>1, <3>1 DEF Finishes, Outcome
      <3>3. QED
        BY <3>2 DEF Abstractly
    <2>2. CASE pending \notin Msgs
      <3>1. Forgets
        BY <1>1, <2>2 DEF Forgets, Outcome, IInv, TypeOK
      <3>2. QED
        BY <3>1 DEF Abstractly
    <2>3. QED
      BY <2>1, <2>2
  <1>2. CASE UNCHANGED <<pending, status>>
    BY <1>2 DEF Abstractly, SameDialogue, Outcome
  <1>3. QED
    BY <1>1, <1>2 DEF Withdrawn, Withdraw, libVars

LEMMA AnswerIsAbstract ==
    ASSUME IInv, NEW shape, Answer(shape)
    PROVE  Abstractly
  <1>1. CASE pending \in Msgs
    <2>1. pending' = NoMsg /\ status' = [status EXCEPT ![pending] = "replied"]
      BY <1>1 DEF Answer, stk_agent_dbus_pending_reply, SendReply, NoMsg, Msgs
    <2>2. status[pending] = "held"
      BY <1>1 DEF IInv, HeldIsPending
    <2>3. Finishes("replied")
      BY <1>1, <2>1, <2>2 DEF Finishes, Outcome, IInv, TypeOK
    <2>4. QED
      BY <2>3 DEF Abstractly
  <1>2. CASE pending \notin Msgs
    <2>1. pending' = NoMsg /\ UNCHANGED status
      BY <1>2 DEF Answer, stk_agent_dbus_pending_reply, replyVars
    <2>2. Forgets
      BY <1>2, <2>1 DEF Forgets, Outcome, IInv, TypeOK
    <2>3. QED
      BY <2>2 DEF Abstractly
  <1>3. QED
    BY <1>1, <1>2

LEMMA RequestIsAbstract ==
    ASSUME IInv, NEW s \in Slots, NEW method \in Methods, OfonoRequest(s, method)
    PROVE  Abstractly
  <1>1. /\ pending' = pending
        /\ sent < MaxRequests
        /\ status' = [status EXCEPT ![sent + 1] = "queued"]
    BY DEF OfonoRequest, libVars
  <1>2. sent + 1 \in Msgs /\ status[sent + 1] = "unsent"
    BY <1>1, ConstantsAssumption DEF IInv, TypeOK, SentInv, Msgs
  <1>3. SameDialogue
    BY <1>1, <1>2 DEF SameDialogue, Outcome, IInv, TypeOK
  <1>4. QED
    BY <1>3 DEF Abstractly

LEMMA NextIsAbstract == IInv /\ [Next]_vars => Abstractly
  <1> SUFFICES ASSUME IInv, [Next]_vars PROVE Abstractly
    OBVIOUS
  <1>0. ASSUME UNCHANGED <<pending, status>> PROVE Abstractly
    BY <1>0 DEF Abstractly, SameDialogue, Outcome
  <1>1. CASE AgentRequest
    BY <1>1, HandlerIsAbstract
    DEF AgentRequest, stk_agent_show_information, stk_agent_handle_request_digit,
        stk_agent_handle_request_key, stk_agent_handle_request_confirmation,
        stk_agent_handle_request_input, stk_agent_handle_request_digits,
        stk_agent_handle_play_tone, stk_agent_handle_loop_tone,
        stk_agent_handle_request_selection, stk_agent_handle_request_quick_digit,
        stk_agent_confirm_call_setup, stk_agent_display_action_information,
        stk_agent_confirm_launch_browser, stk_agent_display_action,
        stk_agent_confirm_open_channel
  <1>2. CASE NoSuchObject
    BY <1>2, RejectIsAbstract DEF NoSuchObject
  <1>3. CASE stk_agent_release \/ stk_agent_cancel
    BY <1>3, WithdrawnIsAbstract DEF stk_agent_release, stk_agent_cancel
  <1>4. CASE \E shape : Answer(shape)
    BY <1>4, AnswerIsAbstract
  <1>5. CASE RegistrationStep
    <2>1. UNCHANGED <<pending, status>>
      BY <1>5 DEF RegistrationStep, tapi_stk_agent_interface_register,
                  tapi_stk_agent_interface_unregister, tapi_stk_agent_register,
                  tapi_stk_select_item, libVars, replyVars
    <2>2. QED
      BY <1>0, <2>1
  <1>6. CASE \E s \in Slots : OfonoCancel(s) \/ OfonoRelease(s)
    <2>1. UNCHANGED <<pending, status>>
      BY <1>6 DEF OfonoCancel, OfonoRelease, libVars, replyVars
    <2>2. QED
      BY <1>0, <2>1
  <1>7. CASE \E s \in Slots, method \in Methods : OfonoRequest(s, method)
    BY <1>7, RequestIsAbstract
  <1>8. CASE UNCHANGED vars
    <2>1. UNCHANGED <<pending, status>>
      BY <1>8 DEF vars, libVars, replyVars
    <2>2. QED
      BY <1>0, <2>1
  <1>9. QED
    <2>1. \A s \in Slots : DefaultAgent[s] \in Agents
      BY ConstantsAssumption
    <2>2. QED
      BY <1>1, <1>2, <1>3, <1>4, <1>5, <1>6, <1>7, <1>8, <2>1
      DEF Next, RegistrationStep, tapi_stk_handle_agent_display_text,
          tapi_stk_handle_agent_play_tone, tapi_stk_handle_agent_request_key,
          tapi_stk_handle_agent_request_input,
          tapi_stk_handle_agent_request_confirmation,
          tapi_stk_handle_agent_request_selection,
          tapi_stk_default_agent_interface_register,
          tapi_stk_default_agent_interface_unregister,
          tapi_stk_default_agent_register, tapi_stk_default_agent_unregister,
          tapi_stk_agent_unregister

\* The agents of all slots together are one dialogue in which no request takes the
\* place of another and none is settled twice.
THEOREM ImplementsDialogue == Spec => DialogueSpec
  <1>1. Init => Dialogue!Init
    <2> SUFFICES ASSUME Init PROVE Dialogue!Init
      OBVIOUS
    <2>1. pending \in {NoMsg, Wild}
      BY ConstantsAssumption DEF Init
    <2>2. [m \in Msgs |-> Outcome(m)] = [m \in Msgs |-> "open"]
      BY DEF Init, Outcome
    <2>3. QED
      BY <2>1, <2>2 DEF Dialogue!Init
  <1>2. IInv /\ [Next]_vars => [Dialogue!Next]_(Dialogue!dialogueVars)
    BY NextIsAbstract, AbstractlyIsAStep
  <1>3. QED
    BY <1>1, <1>2, Invariance, PTL DEF Spec, DialogueSpec, Dialogue!Spec

-----------------------------------------------------------------------------
(* One slot and one agent: answers meet the request they were meant for *)

\* The phone has one slot, and one agent serves it.
Alone == (\E s \in Slots : Slots = {s}) /\ (\E a \in Agents : Agents = {a})

\* Of the messages of inbox q after position i, those up to the next request take m back;
\* or there is no further request, and oFono waits for m (w is its waiting).
Turn(q, w, i, m) ==
    \/ /\ \E s \in Slots : w[s] = m
       /\ \A k \in (i + 1)..Len(q) : q[k].type # "Request"
    \/ \E j \in (i + 1)..Len(q) :
          /\ q[j].type = "Cancel"
          /\ \A k \in (i + 1)..(j - 1) : q[k].type # "Request"

\* oFono makes no request before it has taken back the one before, or has its answer.
TurnInv ==
    \A i \in 1..Len(inbox) :
        inbox[i].type = "Request" => Turn(inbox, waiting, i, inbox[i].id)

\* While a request is held, the agent whose ar->data is the freed block is not asked
\* again before it is told to cancel, which makes ar->data NULL.
FreedInv ==
    \A a \in Agents :
        iface[a] = "freed" /\ pending \in Msgs => Turn(inbox, waiting, 0, pending)

\* Nothing has been shown over the request that is held.
ScreenInv == pending \in Msgs => screen \in {NoMsg, pending}

ShownInv == TurnInv /\ FreedInv /\ ScreenInv

LEMMA TurnMovesUp ==
    ASSUME NEW q \in Seq(Messages), q # <<>>, NEW w, NEW m,
           NEW i \in 0..(Len(q) - 1), Turn(q, w, i + 1, m)
    PROVE  Turn(Tail(q), w, i, m)
  <1> DEFINE n == Len(q) - 1
             t == Tail(q)
  <1>1. /\ Len(q) \in Nat /\ Len(t) = n /\ n \in Nat
        /\ \A k \in 1..n : t[k] = q[k + 1] /\ k + 1 \in 1..Len(q)
    BY HeadTailProperties, EmptySeq, LenProperties
  <1>2. ASSUME NEW s \in Slots, w[s] = m,
               \A k \in (i + 2)..Len(q) : q[k].type # "Request"
        PROVE  Turn(t, w, i, m)
    <2>1. \A k \in (i + 1)..n : k \in 1..n /\ k + 1 \in (i + 2)..Len(q)
      BY <1>1
    <2>2. \A k \in (i + 1)..n : t[k].type # "Request"
      BY <1>1, <1>2, <2>1
    <2> QED
      BY <1>1, <1>2, <2>2 DEF Turn
  <1>3. ASSUME NEW j \in (i + 2)..Len(q), q[j].type = "Cancel",
               \A k \in (i + 2)..(j - 1) : q[k].type # "Request"
        PROVE  Turn(t, w, i, m)
    <2>1. j - 1 \in (i + 1)..n /\ j - 1 \in 1..n /\ (j - 1) + 1 = j
      BY <1>1
    <2>2. t[j - 1].type = "Cancel"
      BY <1>1, <1>3, <2>1
    <2>3. \A k \in (i + 1)..((j - 1) - 1) : k \in 1..n /\ k + 1 \in (i + 2)..(j - 1)
      BY <1>1
    <2>4. \A k \in (i + 1)..((j - 1) - 1) : t[k].type # "Request"
      BY <1>1, <1>3, <2>3
    <2> QED
      BY <1>1, <2>1, <2>2, <2>4 DEF Turn
  <1>4. (i + 1) + 1 = i + 2
    OBVIOUS
  <1> QED
    BY <1>2, <1>3, <1>4 DEF Turn

LEMMA TurnStays ==
    ASSUME NEW q, NEW w, NEW v, NEW i, NEW m, Turn(q, w, i, m),
           \A s \in Slots : w[s] = m => v[s] = m
    PROVE  Turn(q, v, i, m)
  BY DEF Turn

LEMMA NoRequestBeforeTurn ==
    ASSUME NEW q \in Seq(Messages), q # <<>>, NEW w, NEW m, Turn(q, w, 0, m)
    PROVE  Head(q).type # "Request"
  <1>1. Len(q) \in Nat /\ Len(q) >= 1 /\ Head(q) = q[1]
    BY HeadTailProperties, EmptySeq, LenProperties
  <1>2. CASE \A k \in 1..Len(q) : q[k].type # "Request"
    BY <1>1, <1>2
  <1>3. ASSUME NEW j \in 1..Len(q), q[j].type = "Cancel",
               \A k \in 1..(j - 1) : q[k].type # "Request"
        PROVE  q[1].type # "Request"
    BY <1>1, <1>3
  <1> QED
    BY <1>1, <1>2, <1>3 DEF Turn

\* A message that is appended ends no turn unless it is a request; after a Cancel, or if
\* oFono waits for nothing, it does not matter what oFono waits for.
LEMMA TurnGrows ==
    ASSUME NEW q \in Seq(Messages), NEW x \in Messages, NEW w, NEW v, NEW m,
           NEW i \in 0..Len(q), Turn(q, w, i, m),
           \/ x.type = "AgentRelease" /\ v = w
           \/ x.type = "Cancel"
           \/ \A s \in Slots : w[s] # m
    PROVE  Turn(Append(q, x), v, i, m)
  <1> DEFINE n == Len(q)
             p == Append(q, x)
  <1>1. /\ n \in Nat /\ Len(p) = n + 1 /\ p[n + 1] = x
        /\ \A k \in 1..n : p[k] = q[k]
    BY AppendProperties, LenProperties
  <1>2. ASSUME NEW s \in Slots, w[s] = m,
               \A k \in (i + 1)..n : q[k].type # "Request"
        PROVE  Turn(p, v, i, m)
    <2>1. \A k \in (i + 1)..n : p[k].type # "Request"
      BY <1>1, <1>2
    <2>2. CASE x.type = "Cancel"
      <3>1. n + 1 \in (i + 1)..Len(p) /\ (n + 1) - 1 = n
        BY <1>1
      <3> QED
        BY <1>1, <2>1, <2>2, <3>1 DEF Turn
    <2>3. CASE x.type = "AgentRelease" /\ v = w
      <3>1. \A k \in (i + 1)..(n + 1) : k \in (i + 1)..n \/ k = n + 1
        BY <1>1
      <3>2. \A k \in (i + 1)..(n + 1) : p[k].type # "Request"
        BY <1>1, <2>1, <2>3, <3>1
      <3> QED
        BY <1>1, <1>2, <2>3, <3>2 DEF Turn
    <2> QED
      BY <1>2, <2>2, <2>3
  <1>3. ASSUME NEW j \in (i + 1)..n, q[j].type = "Cancel",
               \A k \in (i + 1)..(j - 1) : q[k].type # "Request"
        PROVE  Turn(p, v, i, m)
    <2>1. j \in (i + 1)..Len(p) /\ p[j].type = "Cancel"
      BY <1>1, <1>3
    <2>2. \A k \in (i + 1)..(j - 1) : p[k].type # "Request"
      BY <1>1, <1>3
    <2> QED
      BY <2>1, <2>2 DEF Turn
  <1> QED
    BY <1>2, <1>3 DEF Turn

\* What a message at the head leaves behind.
LEMMA TurnsMoveUp ==
    ASSUME IInv, TurnInv, inbox # <<>>, inbox' = Tail(inbox),
           \A s \in Slots : \A m \in Msgs :
              waiting[s] = m /\ ~(Head(inbox).type = "Request" /\ Head(inbox).id = m)
              /\ m # pending => waiting'[s] = m
    PROVE  TurnInv'
  <1> DEFINE n == Len(inbox) - 1
  <1>1. inbox \in Seq(Messages)
    BY DEF IInv, TypeOK
  <1>2. /\ n \in Nat /\ Len(Tail(inbox)) = n /\ Head(inbox) = inbox[1] /\ 1 \in 1..Len(inbox)
        /\ \A i \in 1..n : Tail(inbox)[i] = inbox[i + 1] /\ i + 1 \in 1..Len(inbox)
    BY <1>1, HeadTailProperties, EmptySeq, LenProperties
  <1>3. ASSUME NEW i \in 1..n, Tail(inbox)[i].type = "Request"
        PROVE  Turn(Tail(inbox), waiting', i, Tail(inbox)[i].id)
    <2> DEFINE m == inbox[i + 1].id
    <2>1. /\ i + 1 \in 1..Len(inbox) /\ inbox[i + 1].type = "Request"
          /\ Tail(inbox)[i].id = m
      BY <1>2, <1>3
    <2>2. Turn(inbox, waiting, i + 1, m)
      BY <2>1 DEF TurnInv
    <2>3. i \in 0..(Len(inbox) - 1)
      BY <1>2
    <2>4. Turn(Tail(inbox), waiting, i, m)
      BY <1>1, <2>2, <2>3, TurnMovesUp
    <2>5. m \in Msgs /\ status[m] = "queued"
      BY <2>1 DEF IInv, QueueInv
    <2>6. m # pending
      BY <2>5 DEF IInv, HeldIsPending
    <2>7. ~(Head(inbox).type = "Request" /\ Head(inbox).id = m)
      <3>1. i + 1 # 1
        BY <1>2
      <3> QED
        BY <1>2, <2>1, <3>1 DEF IInv, QueueInv
    <2>8. \A s \in Slots : waiting[s] = m => waiting'[s] = m
      BY <2>5, <2>6, <2>7
    <2> QED
      BY <2>1, <2>4, <2>8, TurnStays
  <1> QED
    BY <1>2, <1>3 DEF TurnInv

\* No request reaches a freed block while another is held.
LEMMA HeldIsNotPassed ==
    ASSUME IInv, ShownInv, Arrived("Request"), iface[Head(inbox).agent] = "freed"
    PROVE  pending \notin Msgs
  <1>1. inbox \in Seq(Messages) /\ inbox # <<>> /\ Head(inbox).type = "Request"
    BY DEF IInv, TypeOK, Arrived
  <1>2. Head(inbox).agent \in Agents
    BY HeadIsQueued
  <1>3. pending \in Msgs => Turn(inbox, waiting, 0, pending)
    BY <1>2 DEF ShownInv, FreedInv
  <1> QED
    BY <1>1, <1>3, NoRequestBeforeTurn

LEMMA OnlyAgent ==
    ASSUME Alone, NEW a \in Agents, NEW b \in Agents
    PROVE  a = b
  BY DEF Alone

LEMMA OnlySlot ==
    ASSUME Alone, NEW s \in Slots, NEW t \in Slots
    PROVE  s = t
  BY DEF Alone

LEMMA RejectShows ==
    ASSUME Alone, IInv, ShownInv, Arrived("Request"), Reject(Head(inbox).id),
           inbox' = Tail(inbox)
    PROVE  ShownInv'
  <1> DEFINE m == Head(inbox).id
             a == Head(inbox).agent
  <1>1. m \in Msgs /\ a \in Agents /\ inbox # <<>>
    BY HeadIsQueued
  <1>2. /\ UNCHANGED <<iface, pending, screen>>
        /\ waiting' = [s \in Slots |-> IF waiting[s] = m THEN NoMsg ELSE waiting[s]]
    BY DEF Reject, SendReply, libVars
  <1>3. TurnInv'
    <2>1. \A s \in Slots : \A x \in Msgs :
             waiting[s] = x /\ ~(Head(inbox).type = "Request" /\ Head(inbox).id = x)
             /\ x # pending => waiting'[s] = x
      BY <1>2 DEF Arrived
    <2> QED
      BY <1>1, <2>1, TurnsMoveUp DEF ShownInv
  <1>4. FreedInv'
    <2> SUFFICES ASSUME NEW b \in Agents, iface[b] = "freed", pending \in Msgs
                 PROVE  FALSE
      BY <1>2 DEF FreedInv
    <2>1. iface[a] = "freed"
      BY <1>1, OnlyAgent
    <2> QED
      BY <2>1, HeldIsNotPassed
  <1>5. ScreenInv'
    BY <1>2 DEF ShownInv, ScreenInv
  <1> QED
    BY <1>3, <1>4, <1>5 DEF ShownInv

LEMMA AcceptShows ==
    ASSUME Alone, IInv, ShownInv, Arrived("Request"),
           NoMsg \in PendingReads(Head(inbox).agent),
           Accept(Head(inbox).id, Head(inbox).agent), inbox' = Tail(inbox)
    PROVE  ShownInv'
  <1> DEFINE m == Head(inbox).id
             a == Head(inbox).agent
  <1>1. /\ m \in Msgs /\ a \in Agents /\ inbox # <<>> /\ inbox \in Seq(Messages)
        /\ Head(inbox).type = "Request"
    BY HeadIsQueued DEF IInv, TypeOK, Arrived
  <1>2. screen' = m /\ waiting' = waiting
    BY DEF Accept
  <1>3. \/ pending' = m
        \/ pending' = pending /\ pending \notin Msgs
    <2>1. CASE iface[a] = "ctx"
      BY <2>1 DEF Accept
    <2>2. CASE iface[a] = "freed"
      BY <2>2, HeldIsNotPassed DEF Accept
    <2> QED
      BY <2>1, <2>2 DEF PendingReads
  <1>4. TurnInv'
    BY <1>1, <1>2, TurnsMoveUp DEF ShownInv
  <1>5. Turn(Tail(inbox), waiting, 0, m)
    <2>1. Head(inbox) = inbox[1] /\ 1 \in 1..Len(inbox) /\ 0 \in 0..(Len(inbox) - 1)
      BY <1>1, HeadTailProperties, EmptySeq, LenProperties
    <2>2. Turn(inbox, waiting, 0 + 1, m)
      BY <1>1, <2>1 DEF ShownInv, TurnInv
    <2> QED
      BY <1>1, <2>1, <2>2, TurnMovesUp
  <1>6. FreedInv'
    BY <1>2, <1>3, <1>5 DEF FreedInv
  <1>7. ScreenInv'
    BY <1>2, <1>3 DEF ScreenInv
  <1> QED
    BY <1>4, <1>6, <1>7 DEF ShownInv

LEMMA HandlerShows ==
    ASSUME Alone, IInv, ShownInv, NEW method, NEW argsFirst, Handler(method, argsFirst)
    PROVE  ShownInv'
  <1>1. /\ Arrived("Request") /\ inbox' = Tail(inbox)
        /\ \/ Reject(Head(inbox).id)
           \/ /\ NoMsg \in PendingReads(Head(inbox).agent)
              /\ Accept(Head(inbox).id, Head(inbox).agent)
    BY DEF Handler, Serve
  <1> QED
    BY <1>1, RejectShows, AcceptShows

\* A Cancel or AgentRelease leaves no freed block to the only agent.
LEMMA WithdrawnShows ==
    ASSUME Alone, IInv, ShownInv, NEW type, type # "Request", Withdrawn(type)
    PROVE  ShownInv'
  <1> DEFINE a == Head(inbox).agent
  <1>1. /\ inbox # <<>> /\ a \in Agents /\ inbox' = Tail(inbox) /\ waiting' = waiting
    BY QueueShrinks
    DEF IInv, TypeOK, Withdrawn, Arrived, ofonoVars, Messages
  <1>2. TurnInv'
    BY <1>1, TurnsMoveUp DEF ShownInv
  <1>3. FreedInv'
    <2>1. iface'[a] # "freed"
      BY <1>1 DEF Withdrawn, Withdraw, libVars, IInv, TypeOK
    <2>2. \A b \in Agents : iface'[b] # "freed"
      BY <1>1, <2>1, OnlyAgent
    <2> QED
      BY <2>2 DEF FreedInv
  <1>4. ScreenInv'
    <2>1. pending' \in {NoMsg, pending} /\ screen' \in {NoMsg, screen}
      BY DEF Withdrawn, Withdraw, libVars
    <2> QED
      BY <2>1 DEF ShownInv, ScreenInv, NoMsg, Msgs
  <1> QED
    BY <1>2, <1>3, <1>4 DEF ShownInv

LEMMA AnswerShows ==
    ASSUME IInv, ShownInv, NEW shape, Answer(shape)
    PROVE  ShownInv'
  <1>1. /\ screen' = NoMsg /\ UNCHANGED <<iface, inbox>>
        /\ pending' = NoMsg
        /\ waiting' = waiting \/ waiting' = [s \in Slots |->
                           IF waiting[s] = pending THEN NoMsg ELSE waiting[s]]
    BY DEF Answer, stk_agent_dbus_pending_reply, SendReply
  <1>2. TurnInv'
    <2> SUFFICES ASSUME NEW i \in 1..Len(inbox), inbox[i].type = "Request"
                 PROVE  Turn(inbox, waiting', i, inbox[i].id)
      BY <1>1 DEF TurnInv
    <2>1. Turn(inbox, waiting, i, inbox[i].id)
      BY DEF ShownInv, TurnInv
    <2>2. inbox[i].id # pending
      BY DEF IInv, QueueInv, HeldIsPending
    <2>3. \A s \in Slots : waiting[s] = inbox[i].id => waiting'[s] = inbox[i].id
      BY <1>1, <2>2
    <2> QED
      BY <2>1, <2>3, TurnStays
  <1>3. FreedInv' /\ ScreenInv'
    BY <1>1 DEF FreedInv, ScreenInv, NoMsg, Msgs
  <1> QED
    BY <1>2, <1>3 DEF ShownInv

LEMMA RegistrationShows ==
    ASSUME IInv, ShownInv, RegistrationStep
    PROVE  ShownInv'
  <1> USE DEF libVars, reqVars, replyVars, ofonoVars
  <1>1. /\ UNCHANGED <<pending, screen, waiting, inbox>>
        /\ \A a \in Agents : iface'[a] = "freed" => iface[a] = "freed"
    BY DEF RegistrationStep, tapi_stk_agent_interface_register,
           tapi_stk_agent_interface_unregister, tapi_stk_agent_register,
           tapi_stk_select_item, IInv, TypeOK
  <1> QED
    BY <1>1 DEF ShownInv, TurnInv, FreedInv, ScreenInv

\* Whatever oFono appends that is no request.
LEMMA NoticeShows ==
    ASSUME IInv, ShownInv, NEW x \in Messages, inbox' = Append(inbox, x),
           UNCHANGED <<iface, pending, screen>>,
           \/ x.type = "AgentRelease" /\ waiting' = waiting
           \/ x.type = "Cancel"
    PROVE  ShownInv'
  <1>1. inbox \in Seq(Messages)
    BY DEF IInv, TypeOK
  <1> DEFINE n == Len(inbox)
  <1>2. /\ n \in Nat /\ Len(Append(inbox, x)) = n + 1 /\ Append(inbox, x)[n + 1] = x
        /\ \A i \in 1..n : Append(inbox, x)[i] = inbox[i] /\ i \in 0..n
        /\ \A i \in 1..(n + 1) : i \in 1..n \/ i = n + 1
        /\ 0 \in 0..n
    BY <1>1, AppendProperties, LenProperties
  <1>3. TurnInv'
    <2> SUFFICES ASSUME NEW i \in 1..(n + 1), Append(inbox, x)[i].type = "Request"
                 PROVE  Turn(Append(inbox, x), waiting', i, Append(inbox, x)[i].id)
      BY <1>2 DEF TurnInv
    <2>1. i \in 1..n
      BY <1>2
    <2>2. Turn(inbox, waiting, i, inbox[i].id)
      BY <1>2, <2>1 DEF ShownInv, TurnInv
    <2> QED
      BY <1>1, <1>2, <2>1, <2>2, TurnGrows
  <1>4. FreedInv'
    <2> SUFFICES ASSUME NEW a \in Agents, iface[a] = "freed", pending \in Msgs
                 PROVE  Turn(Append(inbox, x), waiting', 0, pending)
      BY DEF FreedInv
    <2>1. Turn(inbox, waiting, 0, pending)
      BY DEF ShownInv, FreedInv
    <2> QED
      BY <1>1, <1>2, <2>1, TurnGrows
  <1>5. ScreenInv'
    BY DEF ShownInv, ScreenInv
  <1> QED
    BY <1>3, <1>4, <1>5 DEF ShownInv

\* The slot waits for nothing when oFono makes a request, so that every turn before it
\* has its Cancel.
LEMMA RequestShows ==
    ASSUME Alone, IInv, ShownInv, NEW s \in Slots, NEW method \in Methods,
           OfonoRequest(s, method)
    PROVE  ShownInv'
  <1> DEFINE m == sent + 1
             x == Message("Request", bound[s], m)
             n == Len(inbox)
  <1>1. /\ UNCHANGED <<iface, pending, screen>> /\ bound[s] \in Agents
        /\ sent < MaxRequests /\ waiting[s] = NoMsg
        /\ waiting' = [waiting EXCEPT ![s] = m] /\ inbox' = Append(inbox, x)
    BY DEF OfonoRequest, libVars, IInv, TypeOK
  <1>2. m \in Msgs /\ inbox \in Seq(Messages)
    BY <1>1, ConstantsAssumption DEF IInv, TypeOK, Msgs
  <1>3. x \in Messages /\ x.type = "Request" /\ x.id = m
    BY <1>1, <1>2 DEF Message, Messages
  <1>4. waiting'[s] = m /\ \A t \in Slots : waiting[t] = NoMsg
    BY <1>1, OnlySlot DEF IInv, TypeOK
  <1> HIDE DEF x, m
  <1>5. /\ n \in Nat /\ Len(Append(inbox, x)) = n + 1 /\ Append(inbox, x)[n + 1] = x
        /\ \A i \in 1..n : Append(inbox, x)[i] = inbox[i] /\ i \in 0..n
        /\ \A i \in 1..(n + 1) : i \in 1..n \/ i = n + 1
        /\ 0 \in 0..n
    BY <1>2, <1>3, AppendProperties, LenProperties
  <1>6. TurnInv'
    <2> SUFFICES ASSUME NEW i \in 1..(n + 1), Append(inbox, x)[i].type = "Request"
                 PROVE  Turn(Append(inbox, x), waiting', i, Append(inbox, x)[i].id)
      BY <1>1, <1>5 DEF TurnInv
    <2>1. CASE i \in 1..n
      <3>1. Turn(inbox, waiting, i, inbox[i].id) /\ inbox[i].id \in Msgs
        BY <1>5, <2>1 DEF ShownInv, TurnInv, IInv, QueueInv
      <3>2. \A t \in Slots : waiting[t] # inbox[i].id
        BY <1>4, <3>1 DEF NoMsg, Msgs
      <3> QED
        BY <1>2, <1>3, <1>5, <2>1, <3>1, <3>2, TurnGrows
    <2>2. CASE i = n + 1
      <3>1. \A k \in (i + 1)..(n + 1) : Append(inbox, x)[k].type # "Request"
        BY <1>5, <2>2
      <3> QED
        BY <1>3, <1>4, <1>5, <2>2, <3>1 DEF Turn
    <2> QED
      BY <1>5, <2>1, <2>2
  <1>7. FreedInv'
    <2> SUFFICES ASSUME NEW a \in Agents, iface[a] = "freed", pending \in Msgs
                 PROVE  Turn(Append(inbox, x), waiting', 0, pending)
      BY <1>1 DEF FreedInv
    <2>1. Turn(inbox, waiting, 0, pending)
      BY DEF ShownInv, FreedInv
    <2>2. \A t \in Slots : waiting[t] # pending
      BY <1>4 DEF NoMsg, Msgs
    <2> QED
      BY <1>2, <1>3, <1>5, <2>1, <2>2, TurnGrows
  <1>8. ScreenInv'
    BY <1>1 DEF ShownInv, ScreenInv
  <1> QED
    BY <1>6, <1>7, <1>8 DEF ShownInv

LEMMA OfonoShows ==
    ASSUME IInv, ShownInv, NEW s \in Slots, OfonoCancel(s) \/ OfonoRelease(s)
    PROVE  ShownInv'
  <1>1. CASE OfonoCancel(s)
    <2> DEFINE x == Message("Cancel", req[waiting[s]].agent, NoMsg)
    <2>1. /\ UNCHANGED <<iface, pending, screen>> /\ inbox' = Append(inbox, x)
      BY <1>1 DEF OfonoCancel, libVars
    <2>2. x \in Messages /\ x.type = "Cancel"
      <3>1. waiting[s] \in Msgs /\ waiting[s] <= sent
        BY <1>1 DEF OfonoCancel, IInv, TypeOK, SentInv
      <3>2. req[waiting[s]].agent \in Agents
        BY <3>1 DEF IInv, SentInv
      <3> QED
        BY <3>2 DEF Message, Messages
    <2> QED
      BY <2>1, <2>2, NoticeShows
  <1>2. CASE OfonoRelease(s)
    <2> DEFINE x == Message("AgentRelease", bound[s], NoMsg)
    <2>1. /\ UNCHANGED <<iface, pending, screen, waiting>> /\ inbox' = Append(inbox, x)
          /\ bound[s] \in Agents
      BY <1>2 DEF OfonoRelease, libVars, IInv, TypeOK
    <2>2. x \in Messages /\ x.type = "AgentRelease"
      BY <2>1 DEF Message, Messages
    <2> QED
      BY <2>1, <2>2, NoticeShows
  <1> QED
    BY <1>1, <1>2

\* The steps of the specification, by what they do.
LEMMA Steps ==
    ASSUME [Next]_vars
    PROVE  \/ \E method, argsFirst : Handler(method, argsFirst)
           \/ NoSuchObject
           \/ \E type : type # "Request" /\ Withdrawn(type)
           \/ \E shape : Answer(shape)
           \/ RegistrationStep
           \/ \E s \in Slots : OfonoCancel(s) \/ OfonoRelease(s)
           \/ \E s \in Slots, method \in Methods : OfonoRequest(s, method)
           \/ UNCHANGED vars
  <1>1. AgentRequest => \E method, argsFirst : Handler(method, argsFirst)
    BY DEF AgentRequest, stk_agent_show_information, stk_agent_handle_request_digit,
        stk_agent_handle_request_key, stk_agent_handle_request_confirmation,
        stk_agent_handle_request_input, stk_agent_handle_request_digits,
        stk_agent_handle_play_tone, stk_agent_handle_loop_tone,
        stk_agent_handle_request_selection, stk_agent_handle_request_quick_digit,
        stk_agent_confirm_call_setup, stk_agent_display_action_information,
        stk_agent_confirm_launch_browser, stk_agent_display_action,
        stk_agent_confirm_open_channel
  <1>2. stk_agent_release \/ stk_agent_cancel => \E type : type # "Request" /\ Withdrawn(type)
    BY DEF stk_agent_release, stk_agent_cancel
  <1>3. \A s \in Slots : DefaultAgent[s] \in Agents
    BY ConstantsAssumption
  <1> QED
    BY <1>1, <1>2, <1>3
    DEF Next, RegistrationStep, tapi_stk_handle_agent_display_text,
        tapi_stk_handle_agent_play_tone, tapi_stk_handle_agent_request_key,
        tapi_stk_handle_agent_request_input,
        tapi_stk_handle_agent_request_confirmation,
        tapi_stk_handle_agent_request_selection,
        tapi_stk_default_agent_interface_register,
        tapi_stk_default_agent_interface_unregister,
        tapi_stk_default_agent_register, tapi_stk_default_agent_unregister,
        tapi_stk_agent_unregister

LEMMA ShownKeeps ==
    ASSUME Alone
    PROVE  IInv /\ ShownInv /\ [Next]_vars => ShownInv'
  <1> SUFFICES ASSUME IInv, ShownInv, [Next]_vars PROVE ShownInv'
    OBVIOUS
  <1>1. CASE NoSuchObject
    BY <1>1, RejectShows DEF NoSuchObject
  <1>2. CASE UNCHANGED vars
    BY <1>2 DEF vars, libVars, ofonoVars, ShownInv, TurnInv, FreedInv, ScreenInv
  <1> QED
    BY <1>1, <1>2, Steps, HandlerShows, WithdrawnShows, AnswerShows, RegistrationShows,
       OfonoShows, RequestShows

\* Who answers only what is on the screen answers the request that is held.
LEMMA AnswerMeets ==
    ASSUME FollowsIndication, IInv, ScreenInv, [Next]_vars,
           NEW m \in Msgs, status[m] = "held", status'[m] = "replied"
    PROVE  screen = m
  <1>1. CASE NoSuchObject \/ \E method, argsFirst : Handler(method, argsFirst)
    <2> DEFINE x == Head(inbox).id
    <2>1. Arrived("Request") /\ (Reject(x) \/ Accept(x, Head(inbox).agent))
      BY <1>1 DEF NoSuchObject, Handler, Serve
    <2>2. x \in Msgs /\ status[x] = "queued"
      BY <2>1, HeadIsQueued
    <2>3. \E how : status' = [status EXCEPT ![x] = how]
      BY <2>1 DEF Reject, SendReply, Accept
    <2> QED
      BY <2>2, <2>3 DEF IInv, TypeOK
  <1>2. CASE \E type : Withdrawn(type)
    BY <1>2 DEF Withdrawn, Withdraw
  <1>3. ASSUME NEW shape, Answer(shape)
        PROVE  screen = m
    <2>1. screen # NoMsg /\ pending = m
      BY <1>3 DEF Answer, IInv, HeldIsPending
    <2> QED
      BY <2>1 DEF ScreenInv
  <1>4. CASE RegistrationStep \/ UNCHANGED vars
             \/ \E s \in Slots : OfonoCancel(s) \/ OfonoRelease(s)
    <2>1. UNCHANGED status
      BY <1>4 DEF RegistrationStep, tapi_stk_agent_interface_register,
                  tapi_stk_agent_interface_unregister, tapi_stk_agent_register,
                  tapi_stk_select_item, OfonoCancel, OfonoRelease, vars, libVars, replyVars
    <2> QED
      BY <2>1
  <1>5. CASE \E s \in Slots, method \in Methods : OfonoRequest(s, method)
    <2>1. status' = [status EXCEPT ![sent + 1] = "queued"]
      BY <1>5 DEF OfonoRequest
    <2> QED
      BY <2>1 DEF IInv, TypeOK
  <1> QED
    BY <1>1, <1>2, <1>3, <1>4, <1>5, Steps

\* On a phone with one slot and one agent, an application that answers only the request
\* it was shown last never has its answer sent to another one: not even when the handler
\* has overwritten ar->data, and whatever the freed block reads as.
THEOREM AnswersMeetTheirRequests ==
    ASSUME FollowsIndication, Alone
    PROVE  Spec => AnswersWhatIsShown
  <1>1. Init => ShownInv
    <2> SUFFICES ASSUME Init PROVE ShownInv
      OBVIOUS
    <2>1. Len(inbox) = 0 /\ pending \notin Msgs
      BY EmptySeq, ConstantsAssumption DEF Init, NoMsg, Wild, Msgs
    <2> QED
      BY <2>1 DEF ShownInv, TurnInv, FreedInv, ScreenInv
  <1>2. IInv /\ ShownInv /\ [Next]_vars => ShownInv'
    BY ShownKeeps
  <1>3. Spec => []ShownInv
    BY <1>1, <1>2, Invariance, PTL DEF Spec
  <1>4. IInv /\ ShownInv /\ [Next]_vars
        => [\A m \in Msgs : status[m] = "held" /\ status'[m] = "replied" => screen = m]_vars
    BY AnswerMeets DEF ShownInv
  <1> QED
    BY <1>3, <1>4, Invariance, PTL DEF Spec, AnswersWhatIsShown
=============================================================================
