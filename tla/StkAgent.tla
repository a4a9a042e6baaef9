------------------------------ MODULE StkAgent ------------------------------
(***************************************************************************)
(* The SIM toolkit agent of TAPI (src/src/tapi_stk.c).  oFono calls the    *)
(* methods of agent objects the application exports on its connection; the *)
(* library indicates a request to the application's callback, keeps the    *)
(* D-Bus message in ctx->pending and replies to it when the application    *)
(* calls one of the tapi_stk_handle_agent_* functions.                     *)
(*                                                                         *)
(* There is ONE ctx->pending per tapi_context, shared by the agents of all *)
(* slots, and the only pointer a handler has to the context is ar->data of *)
(* its registration, which the handler itself overwrites.                  *)
(***************************************************************************)
EXTENDS Integers, Sequences

CONSTANTS
    Slots,             \* the SIM slots
    Agents,            \* object paths of agents
    DefaultAgent,      \* [Slots -> Agents], STK_AGENT_DEFAULT_ID_0 and _1
    NoAgent,
    Methods,           \* the agent methods oFono calls in this instance
    HeapWords,         \* what a word of uninitialised or freed memory reads as
    FollowsIndication, \* the application only answers what was indicated last
    MaxRequests,       \* bound: requests oFono makes
    MaxInbox           \* bound: messages from oFono not yet dispatched

NoMsg == 0
Wild  == -1            \* a pointer to something that is not a live message
Msgs  == 1..MaxRequests

\* The table agent_methods: the agent's methods and the signature of the reply
\* each one owes.
ReplyShape ==
    [ShowInformation |-> "void", DisplayAction |-> "void",
     DisplayActionInformation |-> "void", RequestLoopTone |-> "void",
     RequestPlayTone |-> "void", ConfirmCallSetup |-> "bool",
     ConfirmLaunchBrowser |-> "bool", ConfirmOpenChannel |-> "bool",
     ConfirmRequest |-> "bool", RequestQuickDigit |-> "string",
     RequestWithDigit |-> "string", RequestWithDigits |-> "string",
     RequestWithInput |-> "string", RequestWithKey |-> "string",
     RequestSelection |-> "byte"]

ASSUME ConstantsAssumption ==
    /\ DefaultAgent \in [Slots -> Agents]
    /\ NoAgent \notin Agents
    /\ Methods \subseteq DOMAIN ReplyShape
    /\ HeapWords \subseteq {NoMsg, Wild} /\ HeapWords # {}
    /\ FollowsIndication \in BOOLEAN
    /\ MaxRequests \in Nat /\ MaxInbox \in Nat

VARIABLES
    iface,    \* per agent: its registration and what ar->data points to
    pending,  \* ctx->pending
    screen,   \* the request last indicated with status OK and not yet dealt with
    req,      \* per message: the method called and the agent it was sent to
    status,   \* per message: where the request is
    count,    \* per message: how many replies were sent to it
    sent,     \* oFono: number of requests made so far
    bound,    \* oFono, per slot: the agent it calls
    waiting,  \* oFono, per slot: the request it waits for
    inbox     \* messages from oFono, in order, not yet dispatched

libVars   == <<iface, pending, screen>>
reqVars   == <<req, sent>>
replyVars == <<status, count>>
ofonoVars == <<bound, waiting>>
vars == <<libVars, reqVars, replyVars, ofonoVars, inbox>>

\* A handler's ar->data: the context, a params block that has been freed, or
\* NULL; "nocb" is a registration made with a NULL callback.
IfaceStates == {"none", "nocb", "ctx", "freed", "null"}
Statuses    == {"unsent", "queued", "held", "strayed", "dropped", "replied"}
Messages    == [type: {"Request", "Cancel", "AgentRelease"},
                agent: Agents, id: Msgs \cup {NoMsg}]

TypeOK ==
    /\ iface \in [Agents -> IfaceStates]
    /\ pending \in Msgs \cup {NoMsg, Wild}
    /\ screen \in Msgs \cup {NoMsg}
    /\ req \in [Msgs -> [method: DOMAIN ReplyShape \cup {"none"},
                         agent: Agents \cup {NoAgent}]]
    /\ status \in [Msgs -> Statuses]
    /\ count \in [Msgs -> Nat]
    /\ sent \in 0..MaxRequests
    /\ bound \in [Slots -> Agents \cup {NoAgent}]
    /\ waiting \in [Slots -> Msgs \cup {NoMsg}]
    /\ inbox \in Seq(Messages)

\* tapi_open allocates the context with malloc and does not set its pending.
Init ==
    /\ iface = [a \in Agents |-> "none"]
    /\ pending \in HeapWords
    /\ screen = NoMsg
    /\ req = [m \in Msgs |-> [method |-> "none", agent |-> NoAgent]]
    /\ status = [m \in Msgs |-> "unsent"]
    /\ count = [m \in Msgs |-> 0]
    /\ sent = 0
    /\ bound = [s \in Slots |-> NoAgent]
    /\ waiting = [s \in Slots |-> NoMsg]
    /\ inbox = <<>>

-----------------------------------------------------------------------------
(* Replies *)

\* A reply, a return or an error, reaches oFono, which stops waiting if it still
\* waits for it.
SendReply(m) ==
    /\ status' = [status EXCEPT ![m] = "replied"]
    /\ count' = [count EXCEPT ![m] = @ + 1]
    /\ waiting' = [s \in Slots |-> IF waiting[s] = m THEN NoMsg ELSE waiting[s]]

Arrived(type) == inbox # <<>> /\ Head(inbox).type = type

-----------------------------------------------------------------------------
(* Agent methods, dispatched by gdbus from the connection *)

\* An error reply returned by the handler; ctx->pending and ar->data stay.
Reject(m) == SendReply(m) /\ UNCHANGED libVars

\* What the test of ctx->pending reads through ar->data.
PendingReads(a) ==
    CASE iface[a] = "ctx"   -> {pending}
      [] iface[a] = "freed" -> HeapWords
      [] OTHER              -> {}

\* Variant: the params block is never freed.
AcceptLeaks(m, a) ==
    /\ iface' = [iface EXCEPT ![a] = "params"]
    /\ pending' = m
    /\ status' = [status EXCEPT ![m] = "held"]
    /\ screen' = m
    /\ UNCHANGED <<count, waiting>>

\* The message is stored in the pending of whatever ar->data points to, ar->data
\* becomes the params block, the callback runs and the block is freed.
Accept(m, a) ==
    /\ iface' = [iface EXCEPT ![a] = "freed"]
    /\ IF iface[a] = "ctx"
       THEN /\ pending' = m
            /\ status' = [status EXCEPT ![m] = "held"]
       ELSE /\ pending' = pending
            /\ status' = [status EXCEPT ![m] = "strayed"]
    /\ screen' = m
    /\ UNCHANGED <<count, waiting>>

\* Variant: the test of ctx->pending is missing.
ServeWithoutBusy(m, a, argsFirst) ==
    \/ iface[a] = "null" /\ Reject(m)
    \/ iface[a] # "null" /\ (Accept(m, a) \/ Reject(m))

\* How a request that reached its handler ends.  The arguments are checked last,
\* except by a handler that reads them with an iterator (argsFirst).
Serve(m, a, argsFirst) ==
    \/ iface[a] = "null" /\ Reject(m)                                \* Failed
    \/ (\E word \in PendingReads(a) : word # NoMsg) /\ Reject(m)     \* Busy
    \/ NoMsg \in PendingReads(a) /\ Reject(m)    \* NotImplemented: no memory
    \/ NoMsg \in PendingReads(a) /\ Accept(m, a)
    \/ (argsFirst \/ NoMsg \in PendingReads(a)) /\ Reject(m)  \* InvalidArguments

\* Every handler starts with the checks of its registration and callback.
Handler(method, argsFirst) ==
    /\ Arrived("Request")
    /\ LET m == Head(inbox).id
           a == Head(inbox).agent
       IN  /\ req[m].method = method
           /\ \/ iface[a] = "nocb" /\ Reject(m)                     \* NotImplemented
              \/ iface[a] \notin {"none", "nocb"} /\ Serve(m, a, argsFirst)
    /\ inbox' = Tail(inbox)
    /\ UNCHANGED <<reqVars, bound>>

stk_agent_show_information            == Handler("ShowInformation", FALSE)
stk_agent_handle_request_digit        == Handler("RequestWithDigit", FALSE)
stk_agent_handle_request_key          == Handler("RequestWithKey", FALSE)
stk_agent_handle_request_confirmation == Handler("ConfirmRequest", FALSE)
stk_agent_handle_request_input        == Handler("RequestWithInput", FALSE)
stk_agent_handle_request_digits       == Handler("RequestWithDigits", FALSE)
stk_agent_handle_play_tone            == Handler("RequestPlayTone", FALSE)
stk_agent_handle_loop_tone            == Handler("RequestLoopTone", FALSE)
stk_agent_handle_request_selection    == Handler("RequestSelection", TRUE)
stk_agent_handle_request_quick_digit  == Handler("RequestQuickDigit", FALSE)
stk_agent_confirm_call_setup          == Handler("ConfirmCallSetup", FALSE)
stk_agent_display_action_information  == Handler("DisplayActionInformation", FALSE)
stk_agent_confirm_launch_browser      == Handler("ConfirmLaunchBrowser", FALSE)
stk_agent_display_action              == Handler("DisplayAction", FALSE)
stk_agent_confirm_open_channel        == Handler("ConfirmOpenChannel", FALSE)

AgentRequest ==
    \/ stk_agent_show_information
    \/ stk_agent_handle_request_digit
    \/ stk_agent_handle_request_key
    \/ stk_agent_handle_request_confirmation
    \/ stk_agent_handle_request_input
    \/ stk_agent_handle_request_digits
    \/ stk_agent_handle_play_tone
    \/ stk_agent_handle_loop_tone
    \/ stk_agent_handle_request_selection
    \/ stk_agent_handle_request_quick_digit
    \/ stk_agent_confirm_call_setup
    \/ stk_agent_display_action_information
    \/ stk_agent_confirm_launch_browser
    \/ stk_agent_display_action
    \/ stk_agent_confirm_open_channel

\* libdbus answers a call to an object path where nothing is registered.
NoSuchObject ==
    /\ Arrived("Request")
    /\ iface[Head(inbox).agent] = "none"
    /\ Reject(Head(inbox).id)
    /\ inbox' = Tail(inbox)
    /\ UNCHANGED <<reqVars, bound>>

\* Variant: the message is unreferenced but the pointer to it stays.
WithdrawKeepsPending(a) ==
    /\ status' = [m \in Msgs |-> IF iface[a] = "ctx" /\ m = pending
                                THEN "dropped" ELSE status[m]]
    /\ iface' = [iface EXCEPT ![a] = "null"]
    /\ screen' = IF screen # NoMsg /\ req[screen].agent = a THEN NoMsg ELSE screen
    /\ UNCHANGED pending

\* Variant: ar->data is not set to NULL.
WithdrawKeepsData(a) ==
    /\ IF iface[a] = "ctx"
       THEN /\ pending' = NoMsg
            /\ status' = [m \in Msgs |->
                            IF m = pending THEN "dropped" ELSE status[m]]
       ELSE UNCHANGED <<pending, status>>
    /\ screen' = IF screen # NoMsg /\ req[screen].agent = a THEN NoMsg ELSE screen
    /\ UNCHANGED iface

\* The message in pending is unreferenced without a reply and ar->data becomes
\* NULL.  Through a freed params block only the block is written to.  The
\* application takes the agent's request off its screen.
Withdraw(a) ==
    /\ CASE iface[a] = "ctx" ->
              /\ pending' = NoMsg
              /\ status' = [m \in Msgs |->
                              IF m = pending THEN "dropped" ELSE status[m]]
         [] OTHER -> UNCHANGED <<pending, status>>
    /\ iface' = [iface EXCEPT ![a] = "null"]
    /\ screen' = IF screen # NoMsg /\ req[screen].agent = a THEN NoMsg ELSE screen

Withdrawn(type) ==
    /\ Arrived(type)
    /\ LET a == Head(inbox).agent
       IN  \/ iface[a] \in {"ctx", "freed"} /\ Withdraw(a)
           \/ iface[a] \notin {"ctx", "freed"} /\ UNCHANGED <<libVars, status>>
    /\ inbox' = Tail(inbox)
    /\ UNCHANGED <<reqVars, count, ofonoVars>>

stk_agent_release == Withdrawn("AgentRelease")
stk_agent_cancel  == Withdrawn("Cancel")

-----------------------------------------------------------------------------
(* Answers of the application *)

\* Variant: ctx->pending is not cleared.
PendingReplyKeepsPending ==
    /\ IF pending \in Msgs THEN SendReply(pending)
                          ELSE UNCHANGED <<replyVars, waiting>>
    /\ UNCHANGED pending

\* The reply is sent, the reference dropped and ctx->pending cleared.
stk_agent_dbus_pending_reply ==
    /\ pending' = NoMsg
    /\ IF pending \in Msgs THEN SendReply(pending)
                          ELSE UNCHANGED <<replyVars, waiting>>

\* An answer goes to whatever is pending, whatever request it was meant for.  The
\* operation code only selects the reply: a return with the shape of the function
\* called, or one of the errors EndSession, GoBack and Failed.  Nothing pending is
\* -EINVAL; a reply that cannot be built leaves everything as it was.
Answer(shape) ==
    /\ FollowsIndication => /\ screen # NoMsg
                            /\ ReplyShape[req[screen].method] = shape
    /\ \/ pending # NoMsg /\ stk_agent_dbus_pending_reply
       \/ pending = NoMsg /\ UNCHANGED <<pending, replyVars, waiting>>
    /\ screen' = NoMsg
    /\ UNCHANGED <<iface, reqVars, bound, inbox>>

tapi_stk_handle_agent_display_text         == Answer("void")
tapi_stk_handle_agent_play_tone            == Answer("void")
tapi_stk_handle_agent_request_key          == Answer("string")
tapi_stk_handle_agent_request_input        == Answer("string")
tapi_stk_handle_agent_request_confirmation == Answer("bool")
tapi_stk_handle_agent_request_selection    == Answer("byte")

-----------------------------------------------------------------------------
(* Registration of agents *)

\* Fails when the path already has the interface.
tapi_stk_agent_interface_register(a, withCallback) ==
    /\ iface[a] = "none"
    /\ iface' = [iface EXCEPT ![a] = IF withCallback THEN "ctx" ELSE "nocb"]
    /\ UNCHANGED <<pending, screen, reqVars, replyVars, ofonoVars, inbox>>

\* The registration's handler is freed; ctx->pending is not touched.
tapi_stk_agent_interface_unregister(a) ==
    /\ iface[a] # "none"
    /\ iface' = [iface EXCEPT ![a] = "none"]
    /\ UNCHANGED <<pending, screen, reqVars, replyVars, ofonoVars, inbox>>

tapi_stk_default_agent_interface_register(s, withCallback) ==
    tapi_stk_agent_interface_register(DefaultAgent[s], withCallback)

tapi_stk_default_agent_interface_unregister(s) ==
    tapi_stk_agent_interface_unregister(DefaultAgent[s])

Message(type, a, m) == [type |-> type, agent |-> a, id |-> m]

\* The agent is told that oFono will not use it any more.
OfonoRelease(s) ==
    /\ bound[s] # NoAgent /\ waiting[s] = NoMsg /\ Len(inbox) < MaxInbox
    /\ bound' = [bound EXCEPT ![s] = NoAgent]
    /\ inbox' = Append(inbox, Message("AgentRelease", bound[s], NoMsg))
    /\ UNCHANGED <<libVars, reqVars, replyVars, waiting>>

\* The asynchronous calls to oFono's SimToolkit object of a slot.  They change
\* nothing in the library, so that the moment oFono takes one stands for the call.
\* RegisterAgent binds the agent of a slot that has none.
tapi_stk_agent_register(s, a) ==
    /\ bound[s] = NoAgent
    /\ bound' = [bound EXCEPT ![s] = a]
    /\ UNCHANGED <<libVars, reqVars, replyVars, waiting, inbox>>

\* SelectItem starts a session with an agent of its own.
tapi_stk_select_item(s, a) ==
    /\ waiting[s] = NoMsg
    /\ bound' = [bound EXCEPT ![s] = a]
    /\ UNCHANGED <<libVars, reqVars, replyVars, waiting, inbox>>

\* oFono releases the agent it is asked to forget.
tapi_stk_agent_unregister(s, a) ==
    /\ bound[s] = a
    /\ OfonoRelease(s)

tapi_stk_default_agent_register(s)   == tapi_stk_agent_register(s, DefaultAgent[s])
tapi_stk_default_agent_unregister(s) == tapi_stk_agent_unregister(s, DefaultAgent[s])

-----------------------------------------------------------------------------
(* oFono *)

\* A proactive command of the SIM: one at a time per slot, while an agent is bound.
OfonoRequest(s, method) ==
    LET m == sent + 1 IN
    /\ bound[s] # NoAgent /\ waiting[s] = NoMsg
    /\ sent < MaxRequests /\ Len(inbox) < MaxInbox
    /\ sent' = m
    /\ req' = [req EXCEPT ![m] = [method |-> method, agent |-> bound[s]]]
    /\ status' = [status EXCEPT ![m] = "queued"]
    /\ waiting' = [waiting EXCEPT ![s] = m]
    /\ inbox' = Append(inbox, Message("Request", bound[s], m))
    /\ UNCHANGED <<libVars, count, bound>>

\* The SIM ends the session or oFono's timer for the request expires.
OfonoCancel(s) ==
    /\ waiting[s] # NoMsg /\ Len(inbox) < MaxInbox
    /\ waiting' = [waiting EXCEPT ![s] = NoMsg]
    /\ inbox' = Append(inbox, Message("Cancel", req[waiting[s]].agent, NoMsg))
    /\ UNCHANGED <<libVars, reqVars, replyVars, bound>>

-----------------------------------------------------------------------------
Next ==
    \/ AgentRequest
    \/ NoSuchObject
    \/ stk_agent_release
    \/ stk_agent_cancel
    \/ tapi_stk_handle_agent_display_text
    \/ tapi_stk_handle_agent_play_tone
    \/ tapi_stk_handle_agent_request_key
    \/ tapi_stk_handle_agent_request_input
    \/ tapi_stk_handle_agent_request_confirmation
    \/ tapi_stk_handle_agent_request_selection
    \/ \E a \in Agents :
          \/ \E withCallback \in BOOLEAN :
                tapi_stk_agent_interface_register(a, withCallback)
          \/ tapi_stk_agent_interface_unregister(a)
    \/ \E s \in Slots, a \in Agents :
          \/ tapi_stk_agent_register(s, a)
          \/ tapi_stk_agent_unregister(s, a)
          \/ tapi_stk_select_item(s, a)
    \/ \E s \in Slots :
          \/ \E withCallback \in BOOLEAN :
                tapi_stk_default_agent_interface_register(s, withCallback)
          \/ tapi_stk_default_agent_interface_unregister(s)
          \/ tapi_stk_default_agent_register(s)
          \/ tapi_stk_default_agent_unregister(s)
    \/ \E s \in Slots :
          \/ \E method \in Methods : OfonoRequest(s, method)
          \/ OfonoCancel(s)
          \/ OfonoRelease(s)

Spec == Init /\ [][Next]_vars

-----------------------------------------------------------------------------
(* Properties *)

\* No request of oFono is replied to twice: not by a handler that also kept the
\* message, nor by two answers, nor by an answer after an error reply.
AtMostOneReply == \A m \in Msgs : count[m] <= 1

\* ctx->pending and the requests agree: the message in it is one that waits for the
\* application, and every such message is in it.  A request accepted over another,
\* or an answer that forgets to clear the pointer, breaks it.
HeldIsPending == \A m \in Msgs : status[m] = "held" <=> pending = m

\* An application that answers only the request it was shown last never has its
\* answer sent to another one.
AnswersWhatIsShown ==
    [][\A m \in Msgs : status[m] = "held" /\ status'[m] = "replied"
                           => screen = m]_vars

\* A request that was indicated with status OK can be answered: it is the one the
\* tapi_stk_handle_agent_* functions reply to.
IndicatedIsHeld == screen # NoMsg => pending = screen

\* Cancel and AgentRelease of an agent only take back a request made to that agent.
WithdrawsOwnRequest ==
    [][\A m \in Msgs : status[m] = "held" /\ status'[m] = "dropped"
                           => Head(inbox).agent = req[m].agent]_vars

\* A command to a registered agent is not rejected because of an earlier one that
\* was taken back.
RegisteredAgentServes ==
    [][\A m \in Msgs : status[m] = "queued" /\ status'[m] = "replied"
                           => iface[req[m].agent] # "null"]_vars

\* The agents of all slots together are one dialogue.
Outcome(m) == IF status[m] \in {"replied", "dropped", "strayed"}
              THEN status[m] ELSE "open"

Dialogue == INSTANCE StkDialogue WITH
    Requests <- Msgs, Nobody <- NoMsg, Stranger <- Wild,
    holder <- pending, outcome <- [m \in Msgs |-> Outcome(m)]

\* Every behaviour of the agents is one of the dialogue.
DialogueSpec == Dialogue!Spec
=============================================================================
