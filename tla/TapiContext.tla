----------------------------- MODULE TapiContext -----------------------------
(***************************************************************************)
(* The tapi_context of TAPI (src/src/tapi_manager.c): tapi_open with its   *)
(* retries, the table of gdbus proxies per slot and interface, the client  *)
(* ready callback, the modem state watch that replaces the proxies when a  *)
(* modem comes alive, and tapi_close.                                      *)
(*                                                                         *)
(* A gdbus proxy caches the properties it read when it was created.  oFono *)
(* has a modem's interfaces only while the modem is alive, so that a proxy *)
(* made too early stays empty: the library makes new ones when it sees the *)
(* modem go from AWARE to ALIVE.  oFono, the bus and gdbus are external;   *)
(* both directions of the connection keep the order of messages.           *)
(***************************************************************************)
EXTENDS Integers, Sequences

CONSTANTS
    ModemCount,    \* CONFIG_MODEM_ACTIVE_COUNT
    Servers,       \* the table dbus_proxy_server: a sequence of mutable interfaces
    Unsupported,   \* the interfaces the environment turns off
    Unread,        \* the interfaces object_filter keeps gdbus from reading
    MaxRetries,    \* MAX_DBUS_INIT_RETRY_COUNT
    MaxSteps       \* bound: changes of modem state

Slots   == 0..(ModemCount - 1)
Mutable == {Servers[j] : j \in 1..Len(Servers)}
Modem   == "Modem"    \* the interface whose proxies stay, DBUS_PROXY_MODEM
Interfaces == {Modem} \cup Mutable

\* gdbus reads the properties of a new proxy unless the filter says not to.
object_filter(i) == i \in Unread

\* The interfaces that get proxies and whose properties are read, as a set and in the
\* order of the table.
Readable == {i \in Mutable : i \notin Unsupported /\ ~object_filter(i)}
Asked    == SelectSeq(Servers, LAMBDA i : i \in Readable)

ASSUME ContextAssumption ==
    /\ ModemCount \in Nat \ {0} /\ Servers \in Seq(STRING)
    /\ Modem \notin Mutable
    /\ Unsupported \subseteq Mutable /\ Unread \subseteq Mutable
    /\ MaxRetries \in Nat /\ MaxSteps \in Nat

\* The table names each interface once.
ASSUME ServersAssumption ==
    /\ Asked \in Seq(Readable)
    /\ \A i \in Readable : \E j \in 1..Len(Asked) : Asked[j] = i
    /\ \A j, k \in 1..Len(Asked) : Asked[j] = Asked[k] => j = k

VARIABLES
    phase,      \* where tapi_open, the context and tapi_close are
    retry,      \* retry_round of tapi_open
    connection, \* the local of this name in tapi_open
    held,       \* of what tapi_open obtained last: how often more than it was released
    ready,      \* ctx->client_ready
    modemState, \* ctx->modem_state
    proxy,      \* ctx->dbus_proxy: the generation a proxy is of, 0 for NULL
    live,       \* per slot and interface: the proxies that were not released
    cache,      \* per slot and interface: the modem's life its properties are of
    gen,        \* the last generation of proxies
    modem,      \* oFono, per slot: the state of the modem
    life,       \* oFono, per slot: how many times the modem came alive
    steps,      \* oFono: how many times a modem changed its state
    calls,      \* GetProperties calls of the proxies oFono has not answered
    events      \* answers and signals of oFono not yet dispatched

openVars  == <<phase, retry, connection, held, ready>>
proxyVars == <<proxy, live, cache, gen>>
ofonoVars == <<modem, life, steps>>
vars == <<openVars, modemState, proxyVars, ofonoVars, calls, events>>

States    == {"off", "aware", "alive"}

\* The steps of tapi_open, by what it does next.
OpenSteps == {"allocating", "connecting", "naming", "making", "watching"}
InOpen    == phase \in OpenSteps

\* What tapi_open obtains: two blocks, a connection, which is open ("link") and has a
\* reference ("connection"), a client and the proxy of the manager.
Resources == {"ctx", "cbd", "link", "connection", "client", "manager"}
Nothing   == [r \in Resources |-> 0]
With(h, rs)    == [r \in Resources |-> IF r \in rs THEN h[r] + 1 ELSE h[r]]
Without(h, rs) == [r \in Resources |-> IF r \in rs THEN h[r] - 1 ELSE h[r]]

Blank     == [s \in Slots |-> [i \in Interfaces |-> 0]]

GetProperties(s, i, n)      == [slot |-> s, interface |-> i, gen |-> n]
ModemStateIs(s, state)      == [type |-> "ModemState", slot |-> s, state |-> state]
Properties(s, i, n, inLife) == [type |-> "Properties", slot |-> s, interface |-> i,
                                gen |-> n, life |-> inLife]

Call  == [slot: Slots, interface: Interfaces, gen: Nat]
Event == [type: {"ModemState"}, slot: Slots, state: States] \cup
         [type: {"Properties"}, slot: Slots, interface: Mutable, gen: Nat, life: Nat]
Count == [Slots -> [Interfaces -> Nat]]

TypeOK ==
    /\ phase \in {"closed", "open", "lost"} \cup OpenSteps
    /\ retry \in 0..MaxRetries
    /\ connection \in {"NULL", "made"}
    /\ held \in [Resources -> Int]
    /\ ready \in BOOLEAN
    /\ modemState \in [Slots -> States]
    /\ proxy \in Count /\ live \in Count /\ cache \in Count
    /\ gen \in Nat
    /\ modem \in [Slots -> States] /\ life \in [Slots -> Nat] /\ steps \in 0..MaxSteps
    /\ calls \in Seq(Call) /\ events \in Seq(Event)

Init ==
    /\ phase = "closed" /\ retry = 0 /\ connection = "NULL" /\ held = Nothing /\ ready = FALSE
    /\ modemState = [s \in Slots |-> "off"]
    /\ proxy = Blank /\ live = Blank /\ cache = Blank /\ gen = 0
    /\ modem \in [Slots -> States]
    /\ life = [s \in Slots |-> 1]
    /\ steps = 0
    /\ calls = <<>> /\ events = <<>>

-----------------------------------------------------------------------------
(* Proxies *)

\* g_dbus_proxy_new for each slot: one GetProperties per proxy, in that order.
get_persistent_dbus_proxy(n) ==
    [k \in 1..ModemCount |-> GetProperties(k - 1, Modem, n)]

get_mutable_dbus_proxy(n) ==
    LET m == Len(Asked)
    IN  [k \in 1..(ModemCount * m) |->
            GetProperties((k - 1) \div m, Asked[((k - 1) % m) + 1], n)]

\* The table after the proxies of some interfaces are made, and how many are alive
\* then; an interface that is not supported gets none.
Table(which, n) ==
    [s \in Slots |-> [i \in Interfaces |->
        IF i \notin which THEN proxy[s][i] ELSE IF i \in Unsupported THEN 0 ELSE n]]

Made(count, which) ==
    [s \in Slots |-> [i \in Interfaces |->
        IF i \in which \ Unsupported THEN count[s][i] + 1 ELSE count[s][i]]]

\* What the release of the table's proxies of some interfaces leaves alive.
Released(which) ==
    [s \in Slots |-> [i \in Interfaces |->
        IF i \in which /\ proxy[s][i] # 0 THEN live[s][i] - 1 ELSE live[s][i]]]

\* Variant: the old proxies are forgotten but not released.
ReleaseNothing == live

release_persistent_dbus_proxy == Released({Modem})
release_mutable_dbus_proxy    == Released(Mutable)

-----------------------------------------------------------------------------
(* tapi_open: its caller is blocked until it returns *)

untouched == <<ready, modemState, proxyVars, ofonoVars, calls, events>>

\* The context is allocated; without memory for it tapi_open changes nothing.  The
\* local connection is not initialised.
tapi_open ==
    /\ phase = "closed"
    /\ phase' = "allocating" /\ retry' = 0 /\ connection' \in {"NULL", "made"}
    /\ held' = With(Nothing, {"ctx"})
    /\ UNCHANGED untouched

\* The data of the ready callback is allocated, or there is no memory for it.
AllocateCbd ==
    /\ phase = "allocating"
    /\ phase' = "connecting" /\ held' = With(held, {"cbd"})
    /\ UNCHANGED <<retry, connection, untouched>>

NoCbd ==
    /\ phase = "allocating"
    /\ phase' = "closed" /\ held' = Without(held, {"ctx"})
    /\ UNCHANGED <<retry, connection, untouched>>

\* The label error of tapi_open, reached while h is held and conn is in connection.
OpenError(h, conn) ==
    /\ phase' = "closed" /\ UNCHANGED retry /\ connection' = conn
    /\ held' = Without(h, {"ctx", "cbd"} \cup
                          (IF conn # "NULL" THEN {"link", "connection"} ELSE {}))

\* Variants: one attempt too many; an error that is never given up on.
SetupFailsLate ==
    /\ phase = "connecting"
    /\ IF retry <= MaxRetries
       THEN retry' = retry + 1 /\ connection' = "NULL" /\ UNCHANGED <<phase, held>>
       ELSE OpenError(held, "NULL")
    /\ UNCHANGED untouched

SetupFailsForever ==
    /\ phase = "connecting"
    /\ retry' = (IF retry < MaxRetries THEN retry + 1 ELSE 0) /\ connection' = "NULL"
    /\ UNCHANGED <<phase, held, untouched>>

\* g_dbus_setup_private returns NULL: pause and try again, or give up.
SetupFails ==
    /\ phase = "connecting"
    /\ IF retry < MaxRetries
       THEN retry' = retry + 1 /\ connection' = "NULL" /\ UNCHANGED <<phase, held>>
       ELSE OpenError(held, "NULL")
    /\ UNCHANGED untouched

SetupSucceeds ==
    /\ phase = "connecting"
    /\ phase' = "naming" /\ connection' = "made"
    /\ held' = With(held, {"link", "connection"})
    /\ UNCHANGED <<retry, untouched>>

\* dbus_request_name sets an error, or does not.
NameFails ==
    /\ phase = "naming"
    /\ OpenError(held, connection)
    /\ UNCHANGED untouched

NameRequested ==
    /\ phase = "naming"
    /\ phase' = "making"
    /\ UNCHANGED <<retry, connection, held, untouched>>

\* g_dbus_client_new returns NULL, or a client.
ClientFails ==
    /\ phase = "making"
    /\ OpenError(held, connection)
    /\ UNCHANGED untouched

ClientMade ==
    /\ phase = "making"
    /\ phase' = "watching" /\ held' = With(held, {"client"})
    /\ UNCHANGED <<retry, connection, untouched>>

\* Variant: the client is left to the label error, which does not know it.
WatchFailsKeepsClient ==
    /\ phase = "watching"
    /\ OpenError(held, connection)
    /\ UNCHANGED untouched

\* g_dbus_client_set_ready_watch fails: the client is released before the rest.
WatchFails ==
    /\ phase = "watching"
    /\ OpenError(Without(held, {"client"}), connection)
    /\ UNCHANGED untouched

\* Variant: the mutable proxies are made before the persistent ones.
ConnectMutableFirst ==
    /\ phase = "watching"
    /\ phase' = "open" /\ held' = With(held, {"manager"}) /\ UNCHANGED <<retry, connection>>
    /\ ready' = FALSE /\ modemState' = [s \in Slots |-> "off"]
    /\ gen' = gen + 1
    /\ proxy' = Table(Interfaces, gen + 1) /\ live' = Made(live, Interfaces)
    /\ calls' = get_mutable_dbus_proxy(gen + 1) \o get_persistent_dbus_proxy(gen + 1)
    /\ UNCHANGED <<cache, ofonoVars, events>>

\* The watch is set, and the rest of tapi_open: the manager's proxy and those of the
\* table.  The request to enable abnormal events it ends with has no callback and
\* concerns no variable of this module.
Connect ==
    /\ phase = "watching"
    /\ phase' = "open" /\ held' = With(held, {"manager"}) /\ UNCHANGED <<retry, connection>>
    /\ ready' = FALSE /\ modemState' = [s \in Slots |-> "off"]
    /\ gen' = gen + 1
    /\ proxy' = Table(Interfaces, gen + 1) /\ live' = Made(live, Interfaces)
    /\ calls' = get_persistent_dbus_proxy(gen + 1) \o get_mutable_dbus_proxy(gen + 1)
    /\ UNCHANGED <<cache, ofonoVars, events>>

\* The steps of tapi_open after the first: those that fail, and all.
OpenFails == NoCbd \/ SetupFails \/ NameFails \/ ClientFails \/ WatchFails
OpenGoesOn == AllocateCbd \/ SetupSucceeds \/ NameRequested \/ ClientMade
Opening == OpenFails \/ OpenGoesOn \/ Connect

-----------------------------------------------------------------------------
(* The open context *)

\* gdbus calls the ready watch once; the data of the callback is freed.
on_dbus_client_ready ==
    /\ phase = "open" /\ ~ready
    /\ ready' = TRUE /\ held' = Without(held, {"cbd"})
    /\ UNCHANGED <<phase, retry, connection, modemState, proxyVars, ofonoVars, calls, events>>

\* Variants: a modem that was off counts as one that comes alive, not one that was
\* aware; the proxies are not replaced.
ModemComesAliveFromOff(s, state) ==
    /\ modemState' = [modemState EXCEPT ![s] = state]
    /\ IF modemState[s] = "off" /\ state = "alive"
       THEN /\ gen' = gen + 1
            /\ proxy' = Table(Mutable, gen + 1) /\ cache' = Blank
            /\ live' = Made(release_mutable_dbus_proxy, Mutable)
            /\ calls' = calls \o get_mutable_dbus_proxy(gen + 1)
       ELSE UNCHANGED <<proxyVars, calls>>

ModemStateOnly(s, state) ==
    /\ modemState' = [modemState EXCEPT ![s] = state]
    /\ UNCHANGED <<proxyVars, calls>>

\* The modem proxy of a slot reports ModemState.  A modem that comes alive replaces
\* the mutable proxies of ALL slots.
on_modem_property_change(s, state) ==
    /\ modemState' = [modemState EXCEPT ![s] = state]
    /\ IF modemState[s] = "aware" /\ state = "alive"
       THEN /\ gen' = gen + 1
            /\ live' = Made(release_mutable_dbus_proxy, Mutable)
            /\ proxy' = Table(Mutable, gen + 1) /\ cache' = Blank
            /\ calls' = calls \o get_mutable_dbus_proxy(gen + 1)
       ELSE UNCHANGED <<proxyVars, calls>>

ModemStateReported ==
    /\ phase = "open" /\ events # <<>> /\ Head(events).type = "ModemState"
    /\ on_modem_property_change(Head(events).slot, Head(events).state)
    /\ events' = Tail(events)
    /\ UNCHANGED <<openVars, ofonoVars>>

\* gdbus fills the cache of a proxy; the call of a released proxy was cancelled.  A
\* proxy whose interface does not exist stays as it is.
PropertiesRead ==
    /\ phase = "open" /\ events # <<>> /\ Head(events).type = "Properties"
    /\ LET e == Head(events)
       IN  cache' = IF proxy[e.slot][e.interface] = e.gen /\ e.life # 0
                    THEN [cache EXCEPT ![e.slot][e.interface] = e.life] ELSE cache
    /\ events' = Tail(events)
    /\ UNCHANGED <<openVars, modemState, proxy, live, gen, ofonoVars, calls>>

\* The bus goes away: what was under way is lost.  The ready callback is called with
\* NULL for the name.
system_dbus_disconnected ==
    /\ phase = "open"
    /\ phase' = "lost" /\ calls' = <<>> /\ events' = <<>>
    /\ UNCHANGED <<retry, connection, held, ready, modemState, proxyVars, ofonoVars>>

\* Variant: the persistent proxies are not released.
CloseKeepsPersistent ==
    /\ phase \in {"open", "lost"}
    /\ phase' = "closed"
    /\ held' = Without(held, {"client", "link", "connection", "ctx"})
    /\ live' = release_mutable_dbus_proxy
    /\ proxy' = Blank /\ cache' = Blank /\ gen' = 0
    /\ calls' = <<>> /\ events' = <<>>
    /\ UNCHANGED <<retry, connection, ready, modemState, ofonoVars>>

\* The proxies, the client, the connection and the context are released; a ready
\* callback that was not called yet keeps its data.
tapi_close ==
    /\ phase \in {"open", "lost"}
    /\ phase' = "closed"
    /\ held' = Without(held, {"manager", "client", "link", "connection", "ctx"})
    /\ live' = [s \in Slots |-> [i \in Interfaces |->
                   IF i = Modem THEN release_persistent_dbus_proxy[s][i]
                                ELSE release_mutable_dbus_proxy[s][i]]]
    /\ proxy' = Blank /\ cache' = Blank /\ gen' = 0
    /\ calls' = <<>> /\ events' = <<>>
    /\ UNCHANGED <<retry, connection, ready, modemState, ofonoVars>>

\* What a getter of a cached property returns, for any interface of any slot.
GetProperty(s, i) ==
    IF ~ready THEN "EAGAIN"
    ELSE IF proxy[s][i] = 0 THEN "EIO"
    ELSE IF cache[s][i] = 0 THEN "EINVAL"
    ELSE "OK"

-----------------------------------------------------------------------------
(* oFono *)

\* The calls are answered one by one with what is true then.
OfonoAnswers ==
    /\ calls # <<>>
    /\ LET c == Head(calls)
           present == IF modem[c.slot] = "alive" THEN life[c.slot] ELSE 0
       IN  events' = Append(events,
               IF c.interface = Modem THEN ModemStateIs(c.slot, modem[c.slot])
               ELSE Properties(c.slot, c.interface, c.gen, present))
    /\ calls' = Tail(calls)
    /\ UNCHANGED <<openVars, modemState, proxyVars, ofonoVars>>

\* A modem comes up one state at a time and can go down from any.
OfonoModemChanges(s, state) ==
    /\ steps < MaxSteps /\ steps' = steps + 1
    /\ <<modem[s], state>> \in {<<"off", "aware">>, <<"aware", "alive">>,
                                <<"alive", "aware">>, <<"aware", "off">>, <<"alive", "off">>}
    /\ modem' = [modem EXCEPT ![s] = state]
    /\ life' = IF state = "alive" THEN [life EXCEPT ![s] = @ + 1] ELSE life
    /\ events' = IF phase = "open" THEN Append(events, ModemStateIs(s, state)) ELSE events
    /\ UNCHANGED <<openVars, modemState, proxyVars, calls>>

-----------------------------------------------------------------------------
Next ==
    \/ tapi_open
    \/ Opening
    \/ on_dbus_client_ready
    \/ ModemStateReported
    \/ PropertiesRead
    \/ system_dbus_disconnected
    \/ tapi_close
    \/ OfonoAnswers
    \/ \E s \in Slots, state \in States : OfonoModemChanges(s, state)

\* tapi_open runs until it returns, oFono answers and the event loop dispatches.
Fairness ==
    /\ WF_vars(Opening)
    /\ WF_vars(OfonoAnswers)
    /\ WF_vars(ModemStateReported \/ PropertiesRead)

Spec == Init /\ [][Next]_vars /\ Fairness

-----------------------------------------------------------------------------
(* Properties *)

\* Through every replacement of the proxies and every close, each entry of the table
\* that is not NULL stands for exactly one live proxy, and there are no others: none
\* leaks and none is released twice.
ProxiesBalanced ==
    \A s \in Slots, i \in Interfaces : live[s][i] = IF proxy[s][i] # 0 THEN 1 ELSE 0

\* A closed context leaves nothing behind but the data of a ready callback that was
\* never called, whatever was replaced, lost or never ready before, and nothing is
\* released twice.
CleanShutdown ==
    phase = "closed" =>
        /\ \A r \in Resources : held[r] = 0 \/ (r = "cbd" /\ ~ready /\ held[r] = 1)
        /\ live = Blank

\* A tapi_open that fails, at whichever of its steps, has released all that the steps
\* before obtained, each exactly once: what the early return frees, what is released
\* before the jump to the label error and what the label frees add up, and the label
\* closes the connection of this attempt or none.
FailedOpenFreesAll ==
    [][InOpen /\ phase' = "closed" => held' = Nothing]_vars

\* The getters of a slot work, with properties read in this life of its modem.
Fresh(s) == \A i \in Readable : ready => GetProperty(s, i) = "OK" /\ cache[s][i] = life[s]

\* When nothing is under way, every getter of a modem that is alive works, and from
\* properties read in this life of the modem: no order of the modem's start and
\* tapi_open leaves a slot with proxies that were made too early.
AliveMeansReadable ==
    phase = "open" /\ calls = <<>> /\ events = <<>> =>
        \A s \in Slots : modem[s] = "alive" =>
            /\ modemState[s] = "alive"
            /\ Fresh(s)

\* tapi_open returns.
OpenReturns == InOpen ~> ~InOpen

\* A slot whose getters stop working, because its modem or ANOTHER slot's modem came
\* alive and its proxies were replaced, gets them back.
EventuallyReadable ==
    \A s \in Slots : phase = "open" /\ modem[s] = "alive"
                         ~> phase # "open" \/ modem[s] # "alive" \/ Fresh(s)
=============================================================================
