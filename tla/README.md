# TLA+ models of TAPI, the telephony client library

TAPI (`src/src`, `src/include`) is a C library that an application links to use
oFono, the telephony service, over D-Bus.  It runs in one process and on one
event loop: the application calls `tapi_*` functions, libdbus and gdbus call the
library's callbacks from the loop, and the library calls the application's
callbacks from them.  The library has no threads and no locks of its own; what is
hard is the order in which calls of the application, replies and signals of oFono,
and changes of the modems meet, and what each path does with the blocks it
allocated.  `tools/telephony_tool.c`, a shell over the library, is the one program
here with two threads.

## Inventory

Every component keeps what it knows in one `dbus_context` per client
(`tapi_internal.h:80-91`): the connection, the gdbus client, whether it is
ready, a table of proxies per slot and interface, the modem states, the pending
message of the SIM toolkit agent and one logging callback.  Everything else is
in the blocks of a request: a handler, its result `ar` (`tapi_async_result`) and
sometimes a parameter block, allocated by the call and freed by callbacks.

| component | state | operations | interacts through | hard behaviour | what makes it correct |
|---|---|---|---|---|---|
| Context and modem proxies (`tapi_manager.c`) | proxies per slot and interface, ready flag, modem states | open with retries, close, ready callback, modem state watch, bus disconnect | gdbus property cache; oFono's modem state machine | modem starts around open; one modem replaces the proxies of all; failures half way through open | no proxy leaks or is released twice; a modem that is alive is readable; a failed open leaves nothing |
| SIM toolkit agent (`tapi_stk.c`) | agent registrations, `ar->data`, one `ctx->pending` | 15 agent methods, Cancel, Release, 6 answers, register and unregister, SelectItem | method calls from oFono, callbacks and answers of the application | requests of two slots over one pending message; cancel against answer; second request on a registration | a request is answered once, by the answer meant for it; one slot does not disturb another |
| Properties (all files) | gdbus's copy of oFono's properties, in each proxy | 58 getters that answer from the copy at once, 15 setters that return before oFono has seen the request | gdbus reads and signals; other clients of oFono | reads, signals, settings and the replacement of proxies cross each other; several slots, one after the other | getters settle on what oFono has and never go back; a setting that returned OK takes hold |
| Lists (five files) | an array on the stack, blocks per entry | 13 functions that take a list out of a message | replies, signals, properties | lists longer than the array; memory that runs out in an entry; entries passed over | the application is told the list; nothing leaks |
| Requests (all files) | handler, result and parameters of each call in flight | 99 functions that send one D-Bus call | setup, reply and destroy callbacks of gdbus | the send fails before or after the setup callback; error, malformed and missing replies; allocation failures | one callback per accepted call and none for a refused one; each block freed once; a failure is never reported as success |
| Signal watches (`tapi_register` and one register function per file) | D-Bus watches and their handlers | register, unregister | signals of oFono | two watches behind one id; results reused from one signal to the next | a callback is not called after unregister; one registration is one watch |
| Data (`tapi_data.c`) | switches per slot, kept by oFono | enable, roaming, default slot, APN contexts | properties of several slots | a switch set on some slots and not on others | all slots or an error |
| Calls (`tapi_call.c`) | none of its own; lists of calls | dial, answer, hang up, conference, emergency numbers | voice call manager | lists longer than the arrays; lookup over several slots | bounded lists; an emergency number is found on any slot |
| Network (`tapi_network.c`) | none of its own | registration, scan, cell information | network registration and monitor | a result filled from the state at request time | results only of decoded values |
| SMS and cell broadcast | none of its own | send, list, delete, topics | message manager | a result that carries a freed message | as for requests |
| SIM (`tapi_sim.c`) | none of its own | PIN operations, logical channels, APDU | SIM manager | parameters freed by setup or by the caller | as for requests |
| Supplementary services (`tapi_ss.c`) | none of its own | barring, forwarding, waiting, USSD | four interfaces of oFono | facilities outside the table | only known facilities are set |
| Phonebook, IMS | none of their own | FDN entries, IMS switch | phonebook, IMS | bounded lists | as for requests |
| Conversions (`tapi_utils.c`) | none | strings to enumerations and back, slot and path | all the above | unknown values | conversions agree both ways |
| Command line tool (`tools/telephony_tool.c`) | exit flag, loop handle, context | 152 commands, quit, Ctrl-C | two threads: one runs the event loop, one reads lines and calls the library | start and end of the two threads; a signal at any moment | commands are given only while the loop runs; quitting ends both threads and closes the context last |

`test/` drives a real modem; it was read to see how the API is used and is not
modelled.

## Plan

The order is that of what would hurt most: first the state that several parties
share (the agent's pending message, the proxies), then the life of the blocks
every function handles by hand, then the registrations that stay.  What is left
are the functions with logic of their own.

| step | modules | abstract specification | state |
|---|---|---|---|
| 1 | `StkAgent`, `StkAgentProofs` | `StkDialogue`: one dialogue for all slots | done |
| 2 | `TapiContext`, `TapiContextProofs`, `ReadableProofs` | none; its liveness is the promise | done |
| 3 | `RequestTable`, `Requests`, `RequestsProofs` | `AsyncCall`: refused, answered once, or dropped | done |
| 4 | `IndicationTable`, `SignalWatch`, `SignalWatchProofs` | `Subscription`: each subscriber hears once of what is published | done |
| 5 | `PropertyTable`, `PropertyCache`: all getters and setters, with the switches over several slots and the tables of `tapi_utils.c` | `TrailingCopy`: what is shown never goes back | done, with `PropertyCacheProofs` |
| 6 | `EmergencyNumbers`: the lists and the lookup over slots | the set of numbers | done |
| 7 | `ListTable`, `Lists`, `ListsProofs`: the decoding of lists, with the sizes of the arrays | the sequence of entries | done |
| 8 | `CommandTable`, `TelephonyTool`, `TelephonyToolProofs` | | done |
| 9 | proofs of `ReadsSettle`, `SettingIsInForce`, `FoundThroughout` and `FoundOnAnySlot`, which need that the news of every cell is under way | | done, in `PropertyCacheProofs` |
| 10 | proof of `AnswersWhatIsShown` | | done, in `StkAgentProofs`, for one slot and one agent |
| 11 | composition of `TapiContext` with `Requests` and of `TelephonyTool` with the library; decoding of single results | | left |

Runs are few on purpose: a later module replaces the run of a disagreement that
is described below rather than adding one more.  In a module that is proved
about, recursion is written as a recursive function or a fold.

## Modules and the code

A definition that carries the name of a C function is that function.  Which
lines every definition stands for is in `PROJECT.json`, `map`.

### StkAgent: the SIM toolkit agent (`tapi_stk.c`)

One action per agent method (all fifteen go through `Handler`, which is their
common text; `RequestSelection` reads its arguments before it looks at
`ctx->pending`, the others after), Cancel, Release, the six answer functions,
registering and unregistering of the interface and of the agent, and SelectItem.

- `iface[a]` is what `ar->data` of agent `a`'s registration points to: the
  context, a parameter block that has been freed, or NULL.  The handlers
  overwrite it; that is where the three disagreements about the agent come from.
- `pending` is `ctx->pending`.  `Wild` is a pointer read from memory that was
  freed or never written; `HeapWords` is what such a word can read as.  What a
  write through a freed block hits is no variable of the model.
- `inbox` is what oFono has sent and the loop has not dispatched; `bound` and
  `waiting` are oFono's side.  oFono serves one proactive command per slot at a
  time and may cancel it at any moment.
- The calls that register an agent with oFono are modelled as the moment oFono
  takes them.  Opcodes, texts and contents of replies are left out; the
  signature of a reply (void, string, bool, byte) is kept.

### TapiContext: context and proxies (`tapi_manager.c`)

`tapi_open` step by step with its retries (allocating, connecting, requesting the
name, making the client, watching it, each with the way it fails),
`on_dbus_client_ready`, the modem property watch
(`ModemStateReported`), the replacement of the proxies of **all** slots when one
modem goes from AWARE to ALIVE, `system_dbus_disconnected`, `tapi_close` and the
getters (`GetProperty`).  `proxy` is the table `ctx->dbus_proxy`, as generation
numbers; `live` counts the proxies that really exist, so that a leak or a second
release shows.  A proxy reads its properties once, in `calls`; oFono answers in
the order of the connection and has the properties only while the modem lives.
gdbus calls ready once per open, and tells a new property watch the value at
hand; a restart of oFono is not modelled, and a lost private connection never
comes back.  The data of a ready callback leaks when the context is closed
before it was called; `CleanShutdown` says so.

`held` counts for each thing that `tapi_open` obtains how often more it was obtained
than released, so that a leak is one too many and a second release one too few.  The
label `error` (`OpenError`) knows what there is only by the local `connection`, which
is a variable of the model and has any value before the first round; a client is not
its business, and the failure of the watch releases it first (`WatchFails`).  Without
memory for the context itself `tapi_open` changes nothing, which is a stutter.  A proxy
that gdbus has no memory for is left out here (a missing one is in `PropertyCache`).

### Requests and RequestTable: the asynchronous functions (all files)

All 99 functions that send one call share a shape: checks, two or three
allocations, a send, a setup function, a reply function, a destroy function.
`RequestTable` has one record per function: the interface, whether it waits for
the client to be ready, the blocks in the order they are allocated, what its
setup function, its failure path and its destroy function free, and what its
reply function tells the callback on an error, a malformed reply, a good one and
a failed allocation.  `Requests` is the life of the calls over that table:
`Refuse`, `OutOfMemory`, `SendFails`, `Send`, `Reply`, `tapi_close`.  gdbus is
external: a send may fail before or after the setup function ran; a call that
was sent is answered once, in the worst case by a time-out error; a close gives
outstanding calls up, destroying their blocks or not.

The loading of the emergency list at start is not in the table; the setters of
properties are in `PropertyTable`.  The order in which a
function checks its parameters is abstracted: they are one refusal, before
anything is allocated.  The conference functions allocate before they look for
the proxy, and free what they allocated.

### SignalWatch and IndicationTable: indications (all files but two)

`IndicationTable` has one record per message: the path and name of the signal,
which property of it the watch is about, what the callback does with a signal
about it, about something else, malformed, or when memory fails (tells the
application or not, with what; keeps the watch or not), and whether it takes the
signal's string apart in place.  `SignalWatch` registers, dispatches and
unregisters over that table.  The application's callback runs inside the
library's (`running`), and may register and unregister there.

gdbus is external: it gives a signal to the watches that were there when it
came, one after the other in any order; a watch is removed on request or when
its callback returns false, also in the middle of a dispatch; the handler is
freed whenever a watch is removed; all watches see the same D-Bus message.  A
register function can fail at any of its steps and frees what it made.  NULL
callbacks are left out, the slot of a registration is chosen at the start, and
the application closes the context from its loop only.

Phonebook and SIM toolkit indications, and the decoding of the arguments, are
not modelled.

### PropertyCache and PropertyTable: getters and setters (all files)

gdbus keeps a copy of an object's properties in each proxy.  A getter answers from
the copy; a setter sends a request and returns.  `PropertyTable` has one record
per function: for a getter the object it asks (the slot it is given, the default
slot, the manager), which properties, what it returns if the client is not ready
or the proxy is missing, and as a function from the values found (or missing) to
what is told, with the tables of `tapi_utils.c` it goes through; for a setter the
property, whether it is for one slot, all or the manager, the encoding of its
argument and what else it looks at (a card, a range).

`PropertyCache` runs them.  A *cell* is a property of an object.  `history[c]` is
every value oFono has held there, and `cache[c]` the index of the one the proxy has,
so that "older" is a comparison.  `calls` and `events` are the two directions of the
connection, which keep their order; `proxy` has the generation of each proxy, and an
answer is for the generation that asked while a signal is for whatever proxy there
is.  `on_modem_property_change` replaces the proxies of all slots, without the copies
and possibly without one of the proxies; gdbus reads those that `object_filter`
allows.  `Set` is the whole of a setter, with its loop over the slots that ends at the
first without a proxy.  An APN context handed to `tapi_data_set_preferred_apn` is taken to
exist: the code logs a NULL and then reads through it (`tapi_data.c:1408`, `1423`).
oFono answers each read with all properties; reads that find nothing, as the modem is
down, are in `TapiContext`.  oFono may refuse a request, and properties change by
themselves.  Several properties of one object that a signal or an answer carries
arrive in one event; `tapi_get_phone_number` and others read more than one object.

`EmergencyNumbers` adds `tapi_call_get_ecc_list` (the list of Call, else that of
Modem) and `tapi_call_is_emergency_number`, which looks in the lists slot after slot.
`TrailingCopy` is what a reader of the cache is promised: a value the cell has held,
and from one look to the next never an older one.

### Lists and ListTable: lists in messages (five files)

`ListTable` has one record per function: the capacity of the array, whether it is
compared after an entry is stored, before, or never, the blocks of an entry and of
its properties, whether entries are freed after the callback, and the kinds of entries
(whole, without some properties, passed over).  `Lists` is the loop: `Decode` one
entry, `OutOfMemory` at one of its blocks, `End`, `Callback`, `Free` from the last
entry to the first.  `stored` is the array by the positions of its entries, `live` the
blocks that exist.

### TelephonyTool and CommandTable: the shell (`tools/telephony_tool.c`)

`CommandTable` has one record for each of the 152 commands: how many words it takes,
which slots, which functions of the library it calls and how often, and whether it
keeps the result for itself.  `TelephonyTool` has the two threads as they interleave:
`main` by the statement it does next, `reader` by where `read_stdin` is.  The handle
`g_uv_exit` is raw memory until `uv_async_init`, and a send to a handle that is not
set up is lost.  Between the start of the reader and `uv_run` there is a window in which
commands are already served: `main` is at "uv_run" and then in "loop".  `exit_handler` (Ctrl-C) only sets the flag.  A call of the library is
a step of the reader and its return another.

## Runs

Every property of a passing run has a mutant in `PROJECT.json`: a change of the model,
as a plausible bug would make it, under which TLC finds the property violated.  The
definitions marked "Variant" in the modules are those changes; no specification uses
them.

| run | distinct states | what it shows |
|---|---|---|
| `stk_two_slots` | 918,859 | Two slots with an agent each over the one `ctx->pending`, an application that answers whenever it likes, any value for unwritten memory: no request is replied to twice (`AtMostOneReply`), the message held and the pointer agree (`HeldIsPending`), and the agents are one dialogue (`DialogueSpec`). |
| `stk_one_slot` | 175,466 | One slot, all methods, an application that answers only what it was shown last: its answer never reaches another request (`AnswersWhatIsShown`).  With two slots this is not claimed. |
| `context` | 328,852 | Two slots, every order of modem changes, retries, failures, a lost bus and close: proxies are balanced, a closed context leaves nothing, nor does a `tapi_open` that failed at any of its steps, a modem that is alive is readable with properties of this life, `tapi_open` returns, and slots whose proxies were replaced come back. |
| `requests_all` | 4,418 | Each of the 99 functions through every path: a refused call has freed everything and stays silent, a sent one frees each block once, the reply function finds its blocks, an error is never told as success. |
| `requests_many` | 37,950 | Two calls at once, of nine functions that stand for the patterns of the table: each is a call of `AsyncCall`, and none hangs.  The module's assumptions evaluate the theorems' hypotheses over all 99 records. |
| `watch_all` | 77,875 | Any message, every fault, an application that unregisters inside its own callback: no handler is freed twice.  `MCWatchTable` evaluates the hypotheses of the theorems over the table. |
| `watch_shared` | 144,574 | Two registrations over two slots whose watches share signals: a registration lasts until it is ended, nobody hears after unregistering, and registering implements `Subscription`, with its liveness. |
| `properties` | 260,672 | All getters and setters over two slots while proxies are replaced, properties change, requests are refused or cannot be sent: when nothing is under way getters tell what oFono has (`ReadsSettle`), what is shown never goes back (`NeverGoesBack`), a setting that returned OK is in force once things are quiet and gets there (`SettingIsInForce`, `SettingTakesHold`), and an emergency number that is in all lists is found at every moment (`FoundThroughout`), one that is in some when things are quiet (`FoundOnAnySlot`). |
| `tool` | 20,712 | All commands, two lines, Ctrl-C at any moment, a start that fails: commands are given only while the loop runs on an open context, or `main` is on its way into it, the reader finds the handle set up, the context is closed after its last use, and quitting ends the tool. |
| `lists` | 18,210 | Thirteen functions with the arrays they really have: the application is told the list or as much as fits, the entries' blocks are there while it looks, and all are freed however the loop ends. |

### Bounds

| instance | bounds | why they are enough |
|---|---|---|
| agent | 2 slots, 2 requests, 2 messages in flight (3 with one slot) | the shared state is one pointer: one request that holds it and one that meets it are all the parties there are; the theorems have no bounds |
| context | 2 slots, 1 retry, 3 modem changes, 3 interfaces of 15 | one slot that starts and one that is disturbed by it; three changes are a full start and one more step, of one modem or split over both; the three interfaces are one of each kind: normal, switched off, not read |
| requests | 1 call of 99 functions, 2 calls of 9 | calls share only the context, so that one call over the whole table and two over its patterns see all there is |
| watches | 1 registration for 36 messages with 2 signals; 2 registrations for 5 messages, 2 slots, 2 signals | a second signal is needed for what one leaves for the next, a second registration for watches on one signal; the theorems have no bounds |
| properties | 2 slots, one group of related getters and setters at a time; per group bounds on settings, changes by themselves and replacements: `Few` and `One` (0, 1, 1), `Many` (0, 0, 1), `Long` (0, 2, 2), `Twice` (2, 1, 0), `Pick` (1, 1, 1) | cells of different properties share only the order of messages; one read that crosses one change and one replacement is the race there is, `Long` has two of each for one getter; two settings in a row are needed to see the second overtake the first |
| lists | the real capacities; lengths 0, 1, 2 and from one below the capacity to two above; one entry that is not whole, at the start, or around the end of the array | what happens to an entry depends on its kind and on how full the array is; the theorems have no bounds |
| tool | 2 lines, 1 command at a time | nothing but the flag goes from one line to the next; the theorems have no bounds |

### Fairness

| specification | fairness | why the code justifies it |
|---|---|---|
| `StkAgent` | none | only safety is claimed; an application may never answer |
| `TapiContext` | `WF(Opening)`, `WF(OfonoAnswers)`, `WF` of the dispatch | `tapi_open` is a loop that runs to its end; oFono answers a GetProperties; the application runs its event loop |
| `Requests` | `WF` of the reply to each call | gdbus gives every call an answer, if only its own time-out |
| `PropertyCache` | `WF(Serving)`, `WF(Dispatch)` | oFono works through what it was sent; the application runs its event loop |
| `TelephonyTool` | `WF(Main)`, `WF(Reader)` | both threads are scheduled, and a call of the library returns; the user need not enter anything |
| `SignalWatch` | `WF` of some `Deliver`, `WF(Return)` | gdbus walks the list of watches to its end; callbacks return |

`CHECK_DEADLOCK FALSE` stands where the calls, requests or signals are bounded
and the system really stops when they are used up, or after `tapi_close`.

## Disagreements

Runs that TLC must find violated, each against the sentence of a header:

| run | what the code does |
|---|---|
| `stk_second_request` | A second request on a registration is indicated with status OK, but its message was stored through `ar->data`, which the first request left pointing to a freed block (`tapi_stk.c:453`, `487`).  No answer reaches it. |
| `emergency_missed` | `tapi_call_is_emergency_number` says a number is none ("-1: not emergency number", `tapi_call.h:267`) although it is in the list of a slot: the lookup ends at the first slot whose list is missing or empty (`tapi_call.c:1462`). |

Further ones no run is spent on.  The properties are in the modules; each is
seen by giving the cfg named the values named and checking the property.

| property | cfg | change | what TLC shows |
|---|---|---|---|
| `WithdrawsOwnRequest` | `MCStkTwoSlots` | | Cancel or Release of one slot's agent drops the request of another slot (`tapi_stk.c:356`, `406`): there is one `ctx->pending` |
| `RegisteredAgentServes` | `MCStkOneSlot` | | after a Cancel the agent stays registered and every later command is answered Failed (`tapi_stk.c:362`, `413`): `ar->data` is NULL and nothing sets it |
| `NoDoubleFree` | `MCRequestsAll` | | `tapi_call_dial` frees its parameters again when gdbus fails after the setup function has freed them (`tapi_call.c:147`, `1096`), and nine other functions do the same |
| `UnregisteredIsSilent` | `MCWatchShared` | `Messages = {"MSG_ECC_LIST_CHANGE_IND"}` | the emergency list makes two watches and returns one id (`tapi_manager.c:2427-2436`): after a `tapi_unregister` that succeeded the callback still runs |
| `NothingIsOverrun` | `MCLists` | | the list of calls and that of messages are decoded into arrays of 10 and 200 entries without a look at how full they are (`tapi_call.c:598`, `tapi_sms.c:459`) |
| `OnlyBlocksAreFreed` | `MCLists` | | the strings of a message that its properties did not set are freed (`tapi_sms.c:479`) |
| `QuitEnds` | `MCTool` | `Faults = {"memory"}` | the reader finds no memory for its buffer and leaves; the loop runs for ever, whatever the user does (`telephony_tool.c:4294`) |
| `AnswerIsTold` | `MCRequestsAll` | | functions that stay silent on an error or a failed allocation (`tapi_network.c:805`, `tapi_manager.c:248`) |
| `ResultIsDecoded` | `MCRequestsAll` | | a status never set (`tapi_call.c:441`), a result read into the wrong place (`tapi_manager.c:268`) |
| `UnregisteredIsSilent` | `MCWatchAll` | `Messages = {"MSG_DATA_LOGING_IND"}` | the logging callback is never cleared (`tapi_manager.c:2386`) |
| `RegistrationLasts` | `MCWatchAll` | `Messages = {"MSG_SIGNAL_STRENGTH_CHANGE_IND"}`, `Faults = {"nomem"}` | one failed allocation ends the registration (`tapi_network.c:455`, also `541`, `tapi_cbs.c:102`, `tapi_data.c:298`); with `MSG_CELLINFO_CHANGE_IND` any other property does, without a fault (`tapi_network.c:358`) |
| `NewsIsCurrent` | `MCWatchAll` | `Messages = {"MSG_USSD_PROPERTY_CHANGE_IND"}`, `Faults = {}` | a property that is not `State` calls back with what is left of the signal before (`tapi_ss.c:878`); call barring, IMS and the SMS status report do the same |
| `MessageIsNamed` | `MCWatchAll` | `Messages = {"MSG_CALL_STATE_CHANGE_IND"}`, `Faults = {}` | the result has no `msg_id` (`tapi_call.c:1617-1619`) |
| `ListIsReadable` | `MCWatchShared` | `Messages = {"MSG_ECC_LIST_CHANGE_IND"}` | two callbacks take one string apart (`tapi_call.c:667-670`, `tapi_manager.c:712`) |
| `ReturnsAsDocumented` | `MCWatchAll` | `Messages = {"MSG_SIM_ICCID_CHANGE_IND"}` or an SMS message | zero for a message `tapi_register` does not serve (`tapi_manager.c:2478`, against `tapi_manager.h:284`); one for success in `tapi_sms_unregister` (`tapi_sms.c:1088`, against `tapi_sms.h:157`) |

## Proofs

The theorems hold for every value of the constants: any slots, agents, tables,
calls, registrations and bounds.  Their assumptions are those the modules state
about their constants (what a table is), and TLC evaluates them on the real
tables in every run.

**StkAgentProofs.**  `AtMostOneReply` and `HeldIsPending` are not inductive: that
a message is replied to once needs that the inbox holds each request once and
only while it is unanswered, and that oFono numbers its requests upwards.
`IInv == TypeOK /\ HeldIsPending /\ CountInv /\ QueueInv /\ SentInv` is: a count
is one exactly for what was replied to, a request in the inbox is queued and
stands there once, and what was not sent yet is unsent and nobody waits for it.
From it
follow `TypeCorrect`, `RepliesOnce`, `PendingIsHeld` and `ImplementsDialogue`
(`Spec => DialogueSpec`, whole, as both sides are free of fairness).

`AnswersMeetTheirRequests` (`AnswersWhatIsShown`) is about the pointer that a handler
leaves to freed memory: a second request to the same agent may be shown and yet not be
kept, and must not come between the screen and the request that is held.  `ShownInv ==
TurnInv /\ FreedInv /\ ScreenInv` says why it does not: oFono makes no request before it
has taken back or been answered the one before (`TurnInv`, over positions of the inbox),
and the Cancel in between sets `ar->data` to NULL, so that while a request is held nothing
reaches the freed block (`FreedInv`).  Then what is shown is what is held, or nothing is
(`ScreenInv`).  The theorem is about one slot and one agent (`Alone`), any methods,
any contents of freed memory and any bounds; the hypothesis is needed.  With a second
agent, even on one slot (`Agents <- TwoAgents`, four requests), TLC finds the freed block
of one agent take a request while that of the other is still held, as its Cancel went to
the other.

**RequestsProofs.**  `Called` (a call that was made has a function) and `Said`
(what the callback was told is what the table says of the answer) give
`TypeCorrect`, `AnswersAreSaid`, `FailuresAreReported` and `AnswersReach`.  The
memory theorems `RefusalIsClean`, `SentCallsFreeOnce` and `HandlersOutlive` need
`IInv`, which adds `Memory`: the blocks of a pending call are those it
allocated, less what its setup function freed, and a refused or answered one has
no live block.  Their hypothesis `Disciplined`
says of a table what the C code does at each function: the setup function frees
nothing the destroy function frees, both together free what was allocated, and
the failure path frees it all.  The assumptions of `MCRequestsMany` show it of all
99 functions.  `OnlySetupFreesTwice` locates the double free: functions whose
setup function frees nothing have none.  `KeepsPromise` is the safety part of
`PromiseSpec`.

**SignalWatchProofs.**  `IInv == TypeOK /\ DispatchInv`: what gdbus still has to
deliver is for watches that are live, or for the one whose callback runs, so that
unregistering inside a callback is safe.  Each theorem adds what it needs and
says which tables it is about:

| theorem | strengthened by | hypothesis about the table |
|---|---|---|
| `TypeCorrect` | | none |
| `FreedOnce` | no callback under way will drop its watch | `TellingKeeps`: a callback that told the application returns true |
| `Lasting` | the same | `AlwaysKeeps`: every callback returns true |
| `OwnNews` | `HeardInv`: a live watch or a log belongs to a registration that has its message | none |
| `Silent` | `OneWatchInv`: a live watch is the one of a registered application | `OneWay`: no message with two watches, no logging callback |
| `KeepsPromise` | `OneWatchInv`; `SignalInv`: a watch is given only signals of its path and name | `AlwaysKeeps`, `Disciplined` (a callback tells of the signals about its message and of no other it can be given), `OneWay`, no faults |

`TellingKeeps` holds of the whole table with all faults, the others of the
messages of `watch_shared`; `MCWatchTable` assumes, and so TLC evaluates, both.
Where a hypothesis fails the disagreements above show what happens.
`KeepsPromise` names the abstract step of every concrete one: registering
subscribes, a signal publishes to those it is about, a delivery that tells is a
hearing, all else is a stutter.

**TelephonyToolProofs.**  `IInv == TypeOK /\ StageInv /\ LineInv`.  None of the
properties about the two threads is inductive, as each relates one thread's position to
what the other has done; `StageInv` says for each position of `main` where the reader
can be, what the handle is and whether the context is open, so that the join is the one
place where the two positions meet.  `LineInv` says of a line how many calls it has left
and what was told of it.  `TypeCorrect`, `CommandsAreServed`, `ExitReachesLoop`,
`ClosesLast` and `NothingIsIgnored` (`IgnoredIsTold`: a line with the name of a command
that led to no call is reported) follow for every set of commands that satisfies
`CommandAssumption` and any number of lines.

**ListsProofs.**  `IInv` has `OrderInv` (the array holds positions before the one looked
at, in order, none twice), `LiveInv` (the blocks that exist are those of the entries in
the array), `RoomInv` (in the loop there is room for one more, where the function looks)
and `ToldInv` (what was told is what the array held).  `LiveInv` is what makes `AllFreed`
and `BlocksAreThere` inductive: both are about the same equality, at the end and before
it.  `NeverPastTheEnd` (`InBounds`) and `FreesOnlyBlocks` (`FreesItsBlocks`) say what the
decoders that look at their arrays, and those that set all their pointers, are safe from,
for every capacity and every list.

**TapiContextProofs.**  `IInv == TypeOK /\ ProxiesBalanced /\ HeldInv /\ BlankInv`:
`HeldInv` says for each step of `tapi_open` exactly what is held there, each thing once,
and from the first round on that `connection` is NULL or not as there is a connection;
`BlankInv` that there are no proxies, calls or events before `tapi_open` is done, without
which `Connect` could put new proxies over old ones.  `TypeCorrect`, `EachProxyOnce`
(`ProxiesBalanced`), `ClosesClean` (`CleanShutdown`) and `FailsClean`
(`FailedOpenFreesAll`) follow for any
number of slots, any table of interfaces and any number of retries.  The order of the
calls of new proxies (`get_mutable_dbus_proxy`, a sequence over slots and interfaces) is
described by `MutableCalls`.  `ServersAssumption` says of the table that it names each
interface once, through `Asked`: what `SelectSeq` computes for every table needs
induction over sequences, which the prover does not have, so that TLC evaluates it for
the tables of the run.  `FailsClean` is why `HeldInv` must be exact: the label `error`
serves five failures and releases by looking at the local, so that it is right only if
at each jump the local tells what is held and the rest was released before.

**ReadableProofs.**  `ModemsAreReadable` (`AliveMeansReadable`).  The property speaks of
quiet moments only and says nothing of how they are reached, so that the invariant has
to say what each moment still has to hope for.  `ReadInv`: for a modem that is alive,
each copy is of its present life, or its read waits for oFono, or the answer waits to be
dispatched, or the events will show some modem come alive (`ComesAlive`), which replaces
all proxies.  `ViewInv` says that what the library will know of a modem after the events
is true, or it is still asking; it makes the aware modem that comes alive one that is
*seen* to.  `OrderInv` is where the order of calls in `tapi_open` matters: the properties
of a slot are asked for after the state of its modem, so that a modem that comes alive
before the library knows it has its properties read later than that.  `OnceInv` keeps an
old answer from overwriting a new one: a proxy is read once.  `GenInv` says which proxies
those are.  The mutant of the run (mutable proxies first) breaks `OrderInv`.

**PropertyCacheProofs.**  The proofs are about one cell, a property of an object, at a
time, and about what is under way for it in both directions of the connection.  There
are four layers, each invariant given the ones before it.

| invariant | what it says | what it gives |
|---|---|---|
| `IInv == Typed /\ SeenInv /\ SaidInv /\ OrderInv` | what was shown of a cell, each thing oFono has said of it since, in that order, and what it holds are each at least as new as the one before | `ShownNeverGoesBack` (`NeverGoesBack`, the refinement of `TrailingCopy`) |
| `RestInv` | a proxy has nothing that was not shown; the bounded counters | `TypeCorrect` (`TypeOK`) |
| `NewsInv == \A c : Signalled(c) /\ Current(c)` | a proxy knows what its cell holds, or it has asked, or it will be told; the last signal under way of a cell is the newest | `EveryGetterTells` (`ReadsSettle`), `FoundExactly` (`FoundOnAnySlot`) |
| `AskedInv` | the last request under way for each cell of a setting carries what the setting wants, and where none is under way the cell holds it | `SettingTakesHoldIfQuiet` (`SettingIsInForce`) |

`SaidInv` alone is not inductive: showing the first of two events would leave the second
older than what was shown, so `OrderInv`.  `ReadsSettle` speaks of quiet moments only and
says nothing of how they are reached: `Current` has one case for each place where the
news of a cell can be.  The case that makes replacing the proxies safe is the first,
`ReadPending`: `on_modem_property_change` asks for everything in the same step that makes the
new proxies.  A property of an interface that gdbus does not read (`Unread`) has a case of
its own: its proxy has nothing until a signal comes, and that signal must then be the newest
(`Signalled`), as there is no read to repair it.  `AskedInv` speaks of the *last* request
because an earlier one for the same cell, of another setter or another value, may still be
under way; the mutant of the run (no second request while one is under way) breaks it.
`FoundAtEveryMoment` (`FoundThroughout`) needs no quiet: a getter tells something that the
history has, and a number that is in all of a history is in that.

The theorems are about every number of slots, every bound and every table that satisfies
the assumptions of `PropertyCache`, which TLC evaluates for the table of `PropertyTable`
in the run `properties`:

| assumption | what it says of a table |
|---|---|
| `TableAssumption` | every property can hold something; a setter sends what its property can hold, to the slots or to the manager as the property is of |
| `GetterAssumption` | a getter is of some properties, all of the manager or none |
| `ReadBackAssumption` | a getter of what a setter sets tells what was set, or fails; one of the default slot is set for all slots |
| `NumberAssumption` | the getters of the two numbers that `tapi_get_phone_number` chooses from tell them as they are |

`ReadBackAssumption` is where the tables of `tapi_utils.c` meet: that the decoding of a
network mode, say, undoes its encoding is a fact of two finite tables, which evaluation
settles.

**Only model-checked.**  All liveness (`OpenReturns`, `EventuallyReadable`,
`SettingTakesHold`, `QuitEnds`, the fairness of `AsyncCall` and `Subscription`): the
prover has no rule for fairness here.  All invariants and all
other action properties of the passing runs are theorems.

## Hazards that are not in a run

`PROJECT.json`, `hazards`, has those that matter most.  Further ones, found while the
models were written:

- `tapi_manager.c:268` reads a reply into an array where a pointer is wanted, and
  `tapi_call.c:441` leaves a status unset: `ResultIsDecoded`.
- `tapi_manager.c:712`: two callbacks of one signal take its string apart: `ListIsReadable`.
- `tapi_manager.c:1155`: `system_dbus_disconnected` calls the ready callback even if
  `tapi_open` was given none.
- `tapi_manager.c:1871`: a list of numbers whose first element is no string is read for
  ever, as the iterator moves only past strings.
- `tapi_utils.c:605`: `get_modem_id_by_proxy` answers slot 0 for a proxy that is no longer
  in the table.
- `tapi_network.c:757`: the roaming type is made from a state that the reply need not
  have set.  `tapi_data.c:298`: two addresses are freed that a signal without arguments
  did not set.  `tapi_ims.c:140`: the slot of a registration is overwritten by the first
  property it hears of.
- `tapi_ss.c:1206`: a facility outside the table leaves the index one past its end.
- `tapi_stk.c:1663`: the handler and the result of a registration that fails stay
  allocated.  `tapi_stk.c:2109`: each item of the main menu counts twice.
- `telephony_tool.c:4064`: `get-ims-registration` of an unknown kind does nothing and says
  nothing; `IgnoredIsTold` names it.
- `telephony_tool.c:4325`: the reader calls the library while the event loop runs it.

## Not modelled

- Decoding of a single entry or result field by field (a cell, an operator, the
  registration info, the time of the network, addresses of a data connection): data
  without control.  The list of FDN entries and the main menu of the SIM toolkit read a
  basic value where the iterator stands on a structure, which is undefined: there is no
  behaviour to translate.
- `trigger_modem_load_ecc_list`, which asks for the list once more when it is missing;
  `get_modem_id_by_proxy`; the table of barring facilities.
- Phonebook and SIM toolkit indications.
- The data race between the reader of the tool and the event loop: both use
  `dbus_context`, which has no lock.
- Help, scripts and the output of the tool; logging, tracing, text and layout of messages.
- Restarts of oFono, and the memory behind a stray write.
- `test/`: cmocka tests that need a modem.
