---------------------------- MODULE PropertyCache ----------------------------
(***************************************************************************)
(* The properties of oFono's objects: gdbus keeps a copy of them in each   *)
(* proxy, the getters of TAPI answer from the copy at once, and the        *)
(* setters send a request and return before oFono has seen it.             *)
(*                                                                         *)
(* A proxy reads all its properties when it is made, unless the object     *)
(* filter keeps it from doing so, and follows the PropertyChanged signals; *)
(* when any modem comes alive the proxies of all slots are replaced.       *)
(* oFono and gdbus are external; both directions of the connection keep    *)
(* the order of messages.                                                  *)
(***************************************************************************)
EXTENDS Integers, Sequences, SequencesExt

CONSTANTS
    ModemCount,      \* CONFIG_MODEM_ACTIVE_COUNT
    InterfaceOf,     \* per property: its interface
    PropertyValues,  \* per property: what it can hold
    Getters,         \* the getters of module PropertyTable, by name
    Setters,         \* its setters, by name
    Groups,          \* which of them, and which properties, to look at together, and
                     \* the bounds: the slots whose properties can start as anything
                     \* and change by themselves, the settings the application makes,
                     \* the changes oFono makes by itself, the modems that come alive
    Unread,          \* the interfaces object_filter keeps gdbus from reading
    Faults           \* "refusal", "send", "memory": what can fail

Slots   == 0..(ModemCount - 1)
Manager == ModemCount    \* stands for the manager object, which is of no slot
DEFAULT_SLOT_ID == 0
None    == [setter |-> "none", cells |-> {}, slot |-> 0, arg |-> "none"]
Missing == "missing"

Persistent == {"Modem", "Manager"}
Values     == UNION {PropertyValues[p] : p \in DOMAIN PropertyValues}

ASSUME PropertyAssumption ==
    /\ ModemCount \in Nat \ {0}
    /\ DOMAIN InterfaceOf = DOMAIN PropertyValues
    /\ \A g \in Groups :
          /\ g.props \subseteq DOMAIN PropertyValues
          /\ {g.settings, g.news, g.replacements} \subseteq Nat
    /\ Unread \cap Persistent = {}

\* Every property can hold something, and a setter sends something its property can hold,
\* to the slots or to the manager as the property is of.
ASSUME TableAssumption ==
    /\ \A p \in DOMAIN PropertyValues : PropertyValues[p] # {}
    /\ \A g \in Groups : \A name \in g.setters :
          LET setter == Setters[name]
          IN  /\ setter.sets \in g.props
              /\ setter.scope = "manager" <=> InterfaceOf[setter.sets] = "Manager"
              /\ \A arg \in DOMAIN setter.encode :
                    setter.encode[arg] \in PropertyValues[setter.sets]

\* A getter is of some properties, all of the manager or none.
ASSUME GetterAssumption ==
    \A g \in Groups : \A name \in g.getters :
        LET getter == Getters[name]
        IN  /\ getter.of \in Seq(g.props) /\ getter.of # <<>>
            /\ \A k \in 1..Len(getter.of) :
                  getter.where = "manager" <=> InterfaceOf[getter.of[k]] = "Manager"

\* What a getter can find of the properties it is of.
Holdable(of) ==
    {values \in [1..Len(of) -> UNION {PropertyValues[of[k]] : k \in 1..Len(of)}] :
        \A k \in 1..Len(of) : values[k] \in PropertyValues[of[k]]}

\* A getter that is of what a setter sets is of a slot the setter sets it for, and tells
\* what was set unless it fails.
ASSUME ReadBackAssumption ==
    \A g \in Groups : \A name \in g.getters, set \in g.setters :
        LET getter == Getters[name]
            setter == Setters[set]
        IN  Last(getter.of) = setter.sets =>
              /\ getter.where = "default" => setter.scope = "all"
              /\ \A arg \in DOMAIN setter.encode : \A values \in Holdable(getter.of) :
                    values[Len(getter.of)] = setter.encode[arg] =>
                       \/ getter.answer[values].result # "OK"
                       \/ getter.answer[values].told = arg

\* The two getters of a number tell it as it is, that of the card NULL if it has none.
ASSUME NumberAssumption ==
    LET card == "tapi_get_msisdn_number"
        ims  == "tapi_ims_get_subscriber_uri_number"
    IN  \A g \in Groups : {card, ims} \subseteq g.getters =>
          /\ Getters[card].of = <<"sim_numbers">> /\ Getters[card].where = "slot"
          /\ Getters[ims].of = <<"ims_uri">> /\ Getters[ims].where = "slot"
          /\ \A v \in Holdable(<<"sim_numbers">>) :
                /\ v[1] # "NULL"
                /\ Getters[card].answer[v] =
                      [result |-> "OK", told |-> IF v[1] = "no number" THEN "NULL" ELSE v[1]]
          /\ \A v \in Holdable(<<"ims_uri">>) :
                Getters[ims].answer[v] = [result |-> "OK", told |-> v[1]]

VARIABLES
    group,        \* what is looked at
    ready,        \* ctx->client_ready
    proxy,        \* per object: the generation of its proxy, 0 for NULL
    gen,          \* the last generation
    cache,        \* per cell: which value of its history the proxy has, 0 for none
    seen,         \* per cell: which value a cache had last
    history,      \* oFono: the values of each cell, the last is the one it holds
    calls,        \* what the library sent to oFono
    events,       \* what oFono sent to the library
    settings,     \* how many settings the application made
    news,         \* how many changes oFono made by itself
    asked,        \* the last setting, if it returned OK
    spoilt,       \* oFono refused it or somebody else changed the property since
    returned      \* what the last setter returned

clientVars == <<ready, proxy, gen, cache, seen>>
ofonoVars  == <<history, news>>
appVars    == <<settings, asked, returned>>
vars == <<group, clientVars, ofonoVars, appVars, spoilt, calls, events>>

-----------------------------------------------------------------------------
(* A cell is a property of an object: of a slot's modem, or of the manager. *)

Cells ==
    {c \in (0..ModemCount) \X group.props : c[1] = Manager <=> InterfaceOf[c[2]] = "Manager"}
Object(c) == <<c[1], InterfaceOf[c[2]]>>
Objects   == {Object(c) : c \in Cells}
Mutable   == {o \in Objects : o[2] \notin Persistent}
Varies(c) == c[1] \in group.vary \cup {Manager}
CellsOf(o) == {c \in Cells : Object(c) = o}

Read(o, n)      == [call |-> "read", objects |-> o, gen |-> n]
Write(cells, v) == [call |-> "write", cells |-> cells, value |-> v]

\* A signal is for whatever proxy there is, an answer for the proxy that asked.
Changed(c, version) == [gen |-> 0, versions |-> [x \in {c} |-> version]]
Properties(o, n)    == [gen |-> n, versions |-> [c \in CellsOf(o) |-> Len(history[c])]]

Held(c)   == Last(history[c])
Cached(c) == IF cache[c] = 0 THEN Missing ELSE history[c][cache[c]]
Quiet     == calls = <<>> /\ events = <<>>

\* The group is that of the initial state (Init).
TypeOK ==
    /\ ready \in BOOLEAN
    /\ gen \in Nat \ {0}
    /\ proxy \in [Objects -> 0..gen]
    /\ history \in [Cells -> Seq(Values) \ {<<>>}]
    /\ \A c \in Cells : {cache[c], seen[c]} \subseteq 0..Len(history[c])
    /\ \A i \in 1..Len(calls) :
          \/ /\ calls[i].call = "read" /\ calls[i].gen \in 1..gen
             /\ calls[i].objects \in (SUBSET Objects) \ {{}}
          \/ /\ calls[i].call = "write" /\ calls[i].value \in Values
             /\ calls[i].cells \in (SUBSET Cells) \ {{}}
    /\ \A i \in 1..Len(events) : events[i].gen \in 0..gen
    /\ settings \in 0..group.settings /\ news \in 0..group.news /\ spoilt \in BOOLEAN

-----------------------------------------------------------------------------
(* The proxies *)

Readable(objects) == {o \in objects : o[2] \notin Unread}
Reads(objects, n) == IF objects = {} THEN <<>> ELSE <<Read(objects, n)>>

\* tapi_open has just made the proxies.
Init ==
    /\ group \in Groups
    /\ ready = FALSE /\ gen = 1
    /\ proxy = [o \in Objects |-> 1]
    /\ cache = [c \in Cells |-> 0] /\ seen = cache
    /\ \E start \in [{c \in Cells : Varies(c)} -> UNION {PropertyValues[p] : p \in group.props}] :
          /\ \A c \in DOMAIN start : start[c] \in PropertyValues[c[2]]
          /\ history = [c \in Cells |-> <<IF Varies(c) THEN start[c]
                                        ELSE CHOOSE v \in PropertyValues[c[2]] : TRUE>>]
    /\ calls = Reads(Readable(Objects), 1) /\ events = <<>>
    /\ settings = 0 /\ news = 0 /\ asked = None /\ spoilt = FALSE /\ returned = "nothing"

on_dbus_client_ready ==
    /\ ~ready /\ ready' = TRUE
    /\ UNCHANGED <<group, proxy, gen, cache, seen, ofonoVars, appVars, spoilt, calls, events>>

\* Variant: the new proxies start with what the old ones had.
ReplaceKeepsCache(lost) ==
    /\ gen <= group.replacements
    /\ gen' = gen + 1
    /\ proxy' = [o \in Objects |-> IF o \notin Mutable THEN proxy[o]
                                   ELSE IF o \in lost THEN 0 ELSE gen + 1]
    /\ UNCHANGED <<cache, calls>>
    /\ UNCHANGED <<group, ready, seen, ofonoVars, appVars, spoilt, events>>

\* A modem comes alive: the proxies of all slots are replaced, and gdbus reads the
\* properties of the new ones.  There may be no memory for one of them.
on_modem_property_change(lost) ==
    /\ gen <= group.replacements
    /\ gen' = gen + 1
    /\ proxy' = [o \in Objects |-> IF o \notin Mutable THEN proxy[o]
                                   ELSE IF o \in lost THEN 0 ELSE gen + 1]
    /\ cache' = [c \in Cells |-> IF Object(c) \in Mutable THEN 0 ELSE cache[c]]
    /\ calls' = calls \o Reads(Readable(Mutable \ lost), gen + 1)
    /\ UNCHANGED <<group, ready, seen, ofonoVars, appVars, spoilt, events>>

Losses == {{}} \cup (IF "memory" \in Faults THEN {{o} : o \in Mutable} ELSE {})

Accepts(e, c) ==
    /\ c \in DOMAIN e.versions
    /\ proxy[Object(c)] # 0
    /\ e.gen \in {0, proxy[Object(c)]}

\* gdbus takes the next answer or signal.
Dispatch ==
    /\ events # <<>>
    /\ LET e == Head(events)
       IN  /\ cache' = [c \in Cells |-> IF Accepts(e, c) THEN e.versions[c] ELSE cache[c]]
           /\ seen'  = [c \in Cells |-> IF Accepts(e, c) THEN e.versions[c] ELSE seen[c]]
    /\ events' = Tail(events)
    /\ UNCHANGED <<group, ready, proxy, gen, ofonoVars, appVars, spoilt, calls>>

-----------------------------------------------------------------------------
(* Getters *)

Failed(errno) == [result |-> errno, told |-> "nothing"]
Target(g, s)  == IF Getters[g].where = "manager" THEN Manager
                 ELSE IF Getters[g].where = "default" THEN DEFAULT_SLOT_ID ELSE s

\* What a getter makes of the values View finds.
Answer(g, s, View(_)) ==
    LET of == Getters[g].of
    IN  Getters[g].answer[[k \in 1..Len(of) |-> View(<<Target(g, s), of[k]>>)]]

Get(g, s) ==
    IF ~ready /\ Getters[g].notReady # "not asked" THEN Failed(Getters[g].notReady)
    ELSE IF proxy[Object(<<Target(g, s), Getters[g].of[1]>>)] = 0
    THEN Failed(Getters[g].noProxy)
    ELSE Answer(g, s, Cached)

\* The number of the card, and without it that of IMS; the function never fails.
PhoneNumber(card, ims) ==
    IF card.result = "OK" /\ card.told # "NULL" THEN card.told
    ELSE IF ims.result = "OK" THEN ims.told ELSE "NULL"

tapi_get_phone_number(s) ==
    PhoneNumber(Get("tapi_get_msisdn_number", s),
                Get("tapi_ims_get_subscriber_uri_number", s))

-----------------------------------------------------------------------------
(* Setters *)

Scope(name, s) ==
    IF Setters[name].scope = "all" THEN Slots
    ELSE IF Setters[name].scope = "manager" THEN {Manager} ELSE {s}

\* The loop over the slots ends at the first one without a proxy.
Reached(name, s) ==
    {t \in Scope(name, s) : \A u \in Scope(name, s) :
        u <= t => proxy[Object(<<u, Setters[name].sets>>)] # 0}

CellsFor(name, targets) == {<<t, Setters[name].sets>> : t \in targets}

\* Variant: only the first slot is asked.
AsksFirst(name, s) == {t \in Reached(name, s) : \A u \in Reached(name, s) : t <= u}

Asks(name, s) == Reached(name, s)

\* Variant: a request for no slot at all.
SentAnyway(cells, value) == Append(calls, Write(cells, value))

\* Variant: no second request while one for the same is under way.
SentOnce(cells, value) ==
    IF cells = {} \/ \E i \in 1..Len(calls) : calls[i].call = "write"
                                               /\ calls[i].cells = cells
    THEN calls ELSE Append(calls, Write(cells, value))

Sent(cells, value) == IF cells = {} THEN calls ELSE Append(calls, Write(cells, value))

\* A function that fails before it sends anything.
SetFails(name, errno) ==
    /\ returned' = errno /\ asked' = None /\ settings' = settings + 1
    /\ UNCHANGED <<group, clientVars, ofonoVars, spoilt, calls, events>>

\* A function that sends the property, if it can, for each of its slots.
SetSends(name, s, arg, unsent) ==
    LET complete == Reached(name, s) = Scope(name, s)
    IN  /\ calls' = Sent(CellsFor(name, Asks(name, s) \ unsent), Setters[name].encode[arg])
        /\ IF ~complete THEN returned' = "EIO"
           ELSE IF unsent # {} THEN returned' \in Setters[name].failures
           ELSE returned' = "OK"
        /\ asked' = IF complete /\ unsent = {}
                    THEN [setter |-> name, slot |-> s, arg |-> arg,
                          cells |-> CellsFor(name, Scope(name, s))]
                    ELSE None
        /\ spoilt' = FALSE /\ settings' = settings + 1
        /\ UNCHANGED <<group, clientVars, ofonoVars, events>>

HasCard(s) == Cached(<<s, "sim_present">>) = "yes"

Set(name, s, arg) ==
    /\ settings < group.settings
    /\ IF ~ready THEN SetFails(name, "EAGAIN")
       ELSE IF arg \notin DOMAIN Setters[name].encode THEN SetFails(name, "EINVAL")
       ELSE IF Setters[name].card /\ ~HasCard(s) THEN SetFails(name, "EINVAL")
       ELSE \E unsent \in SUBSET (IF "send" \in Faults THEN Reached(name, s) ELSE {}) :
               SetSends(name, s, arg, unsent)

\* A slot to give; not every setter takes one.
SlotsFor(name)  == IF Setters[name].scope = "slot" THEN Slots ELSE {DEFAULT_SLOT_ID}
Arguments(name) == DOMAIN Setters[name].encode \cup {"invalid"}

-----------------------------------------------------------------------------
(* oFono *)

\* Variant: the answer overtakes the signals that were sent before it.
ReadsOvertake(o) ==
    /\ calls # <<>> /\ Head(calls).call = "read" /\ o \in Head(calls).objects
    /\ events' = <<Properties(o, Head(calls).gen)>> \o events
    /\ calls' = Reads(Head(calls).objects \ {o}, Head(calls).gen) \o Tail(calls)
    /\ UNCHANGED <<group, clientVars, ofonoVars, appVars, spoilt>>

\* It answers a GetProperties, with all properties of the object, as it does while the
\* modem is alive; TapiContext has the reads that find nothing.  The proxies of a slot are
\* in any order.
OfonoReads(o) ==
    /\ calls # <<>> /\ Head(calls).call = "read" /\ o \in Head(calls).objects
    /\ \A other \in Head(calls).objects : o[1] <= other[1]
    /\ events' = Append(events, Properties(o, Head(calls).gen))
    /\ calls' = Reads(Head(calls).objects \ {o}, Head(calls).gen) \o Tail(calls)
    /\ UNCHANGED <<group, clientVars, ofonoVars, appVars, spoilt>>

\* A value that is not new is not signalled.
Change(c, v) ==
    IF Held(c) = v THEN UNCHANGED <<history, events>>
    ELSE /\ history' = [history EXCEPT ![c] = Append(@, v)]
         /\ events' = Append(events, Changed(c, Len(history[c]) + 1))

Concerns(c) == c \in asked.cells

IsNext(call, c) ==
    /\ call.call = "write" /\ c \in call.cells
    /\ \A other \in call.cells : c[1] <= other[1]

Done(call, c) ==
    IF call.cells = {c} THEN Tail(calls)
    ELSE <<Write(call.cells \ {c}, call.value)>> \o Tail(calls)

\* It does what a SetProperty asks.
OfonoWrites(c) ==
    /\ calls # <<>> /\ IsNext(Head(calls), c)
    /\ Change(c, Head(calls).value)
    /\ calls' = Done(Head(calls), c)
    /\ UNCHANGED <<group, clientVars, news, appVars, spoilt>>

\* It refuses: whoever gave no callback does not learn of it.
OfonoRefuses(c) ==
    /\ "refusal" \in Faults
    /\ calls # <<>> /\ IsNext(Head(calls), c)
    /\ calls' = Done(Head(calls), c)
    /\ spoilt' = (spoilt \/ Concerns(c))
    /\ UNCHANGED <<group, clientVars, ofonoVars, appVars, events>>

\* The property changes by itself, or somebody else changes it.
OfonoChanges(c, v) ==
    /\ news < group.news /\ news' = news + 1 /\ Varies(c)
    /\ Held(c) # v /\ Change(c, v)
    /\ spoilt' = (spoilt \/ Concerns(c))
    /\ UNCHANGED <<group, clientVars, appVars, calls>>

\* oFono does what was asked first.
Serving ==
    /\ calls # <<>>
    /\ \/ /\ Head(calls).call = "read"
          /\ \E o \in Head(calls).objects : OfonoReads(o)
       \/ /\ Head(calls).call = "write"
          /\ \E c \in Head(calls).cells : OfonoWrites(c) \/ OfonoRefuses(c)

-----------------------------------------------------------------------------
Next ==
    \/ on_dbus_client_ready
    \/ \E lost \in Losses : on_modem_property_change(lost)
    \/ Dispatch
    \/ \E name \in group.setters :
          \E s \in SlotsFor(name), arg \in Arguments(name) : Set(name, s, arg)
    \/ Serving
    \/ \E c \in Cells : \E v \in PropertyValues[c[2]] : OfonoChanges(c, v)

\* oFono works through what it was sent, the event loop through what comes back.
Fairness == WF_vars(Serving) /\ WF_vars(Dispatch)

Spec == Init /\ [][Next]_vars /\ Fairness

-----------------------------------------------------------------------------
(* Properties *)

Known(c) == proxy[Object(c)] # 0 /\ (cache[c] # 0 \/ InterfaceOf[c[2]] \notin Unread)

GettersTell ==
    \A g \in group.getters : \A s \in Slots :
        (\A k \in 1..Len(Getters[g].of) : Known(<<Target(g, s), Getters[g].of[k]>>))
            => Get(g, s) = Answer(g, s, Held)

\* The number of the card if it has one, and that of IMS if not, also when the two
\* interfaces are read at different times.
PhoneNumberIsTold ==
    {"tapi_get_msisdn_number", "tapi_ims_get_subscriber_uri_number"} \subseteq group.getters =>
        \A s \in Slots :
            Known(<<s, "sim_numbers">>) /\ Known(<<s, "ims_uri">>) =>
                tapi_get_phone_number(s) = (IF Held(<<s, "sim_numbers">>) = "no number"
                                            THEN Held(<<s, "ims_uri">>)
                                            ELSE Held(<<s, "sim_numbers">>))

\* When nothing is under way, every getter tells what oFono has: however many times the
\* proxies were replaced, whatever was answered to proxies that are gone (object_filter,
\* get_mutable_dbus_proxy, tapi_get_phone_number).  Of the interfaces gdbus does not read,
\* it may not know.
ReadsSettle == Quiet /\ ready => GettersTell /\ PhoneNumberIsTold

\* What a getter shows never goes back to what was there before: not from one proxy to
\* the next, and not from an answer to a signal that overtook it.
Copy == INSTANCE TrailingCopy WITH
    Values <- Values, history <- history, shown <- seen

NeverGoesBack == Copy!Spec

\* "Switch data on or off", "Set preferred apn": once a setter has returned OK, and
\* unless oFono refuses or somebody else changes the property, the setting gets to
\* everything it is for, and the getter of the same property reads back what was set.
ReadsBack(setting, g) ==
    LET of == Getters[g].of
        read == Get(g, setting.slot)
    IN  (/\ Last(of) = Setters[setting.setter].sets
         /\ \A k \in 1..Len(of) : Known(<<Target(g, setting.slot), of[k]>>)
         /\ read.result = "OK")
            => read.told = setting.arg

InForce(setting) ==
    /\ \A c \in setting.cells : Held(c) = Setters[setting.setter].encode[setting.arg]
    /\ \A g \in group.getters : ReadsBack(setting, g)

SettingIsInForce == Quiet /\ asked # None /\ ~spoilt => InForce(asked)

\* The last setting, if it returned OK, takes hold: whatever was under way when it was
\* made, the settings before it included.
SettingTakesHold ==
    settings = group.settings /\ asked # None
        ~> spoilt \/ (asked # None /\ InForce(asked))
=============================================================================
