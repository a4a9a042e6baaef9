------------------------- MODULE PropertyCacheProofs -------------------------
(***************************************************************************)
(* Of the getters and setters, for every number of slots, every table of   *)
(* properties, getters and setters the assumptions of PropertyCache admit, *)
(* and every bound: what is shown of a property never goes back            *)
(* (PropertyCache implements TrailingCopy); when nothing is under way      *)
(* every getter tells what oFono has; a setting that returned OK is in     *)
(* force then; and the emergency numbers are found.                        *)
(***************************************************************************)
EXTENDS EmergencyNumbers, TLAPS

\* What cells can have held, and what the library and oFono can send each other.
Histories ==
    {h \in [Cells -> Seq(Values)] : \A c \in Cells :
        h[c] # <<>> /\ \A k \in 1..Len(h[c]) : h[c][k] \in PropertyValues[c[2]]}

Versions == UNION {[D -> Nat] : D \in SUBSET Cells}

Call ==
    [call : {"read"}, objects : (SUBSET Readable(Objects)) \ {{}}, gen : 1..gen]
    \cup {w \in [call : {"write"}, cells : (SUBSET Cells) \ {{}}, value : Values] :
             \A c \in w.cells : w.value \in PropertyValues[c[2]]}

\* Of the interfaces nobody reads there are signals only.
Event ==
    {e \in [gen : 0..gen, versions : Versions] :
        e.gen = 0 \/ \A c \in DOMAIN e.versions : InterfaceOf[c[2]] \notin Unread}

Typed ==
    /\ group \in Groups /\ gen \in Nat \ {0}
    /\ history \in Histories
    /\ seen \in [Cells -> Nat]
    /\ calls \in Seq(Call) /\ events \in Seq(Event)

\* What was shown of a cell, what oFono has said of it since, in that order, and what it
\* holds: each is at least as new as the one before.
SeenInv == \A c \in Cells : seen[c] <= Len(history[c])

SaidInv ==
    \A k \in 1..Len(events) : \A c \in DOMAIN events[k].versions :
        /\ seen[c] <= events[k].versions[c]
        /\ events[k].versions[c] <= Len(history[c])

OrderInv ==
    \A k, l \in 1..Len(events) :
        k < l => \A c \in DOMAIN events[k].versions \cap DOMAIN events[l].versions :
                    events[k].versions[c] <= events[l].versions[c]

IInv == Typed /\ SeenInv /\ SaidInv /\ OrderInv

-----------------------------------------------------------------------------
(* Sequences *)

LEMMA TailAt ==
    ASSUME NEW S, NEW q \in Seq(S), q # <<>>
    PROVE  /\ Tail(q) \in Seq(S) /\ Len(Tail(q)) = Len(q) - 1 /\ Len(q) \in Nat \ {0}
           /\ Head(q) = q[1] /\ Head(q) \in S
           /\ \A k \in 1..(Len(q) - 1) : Tail(q)[k] = q[k + 1]
  OBVIOUS

LEMMA AppendAt ==
    ASSUME NEW S, NEW q \in Seq(S), NEW e \in S
    PROVE  /\ Append(q, e) \in Seq(S) /\ Len(Append(q, e)) = Len(q) + 1 /\ Len(q) \in Nat
           /\ Append(q, e)[Len(q) + 1] = e
           /\ \A k \in 1..Len(q) : Append(q, e)[k] = q[k]
           /\ \A k \in 1..(Len(q) + 1) : k \in 1..Len(q) \/ k = Len(q) + 1
  OBVIOUS

LEMMA JoinAt ==
    ASSUME NEW S, NEW p \in Seq(S), NEW q \in Seq(S)
    PROVE  /\ p \o q \in Seq(S) /\ Len(p \o q) = Len(p) + Len(q)
           /\ Len(p) \in Nat /\ Len(q) \in Nat
           /\ \A k \in 1..Len(p) : (p \o q)[k] = p[k]
           /\ \A k \in 1..Len(q) : (p \o q)[Len(p) + k] = q[k]
  OBVIOUS

LEMMA SeqOfMore ==
    ASSUME NEW S, NEW T, S \subseteq T, NEW q \in Seq(S)
    PROVE  q \in Seq(T)
  OBVIOUS

\* An event that says of its cells what they hold comes last.
LEMMA EventAppended ==
    ASSUME IInv, NEW e \in Event, NEW h \in Histories,
           events' = Append(events, e), history' = h, seen' = seen, group' = group,
           \A c \in Cells : Len(history[c]) <= Len(h[c]),
           \A c \in DOMAIN e.versions : e.versions[c] = Len(h[c])
    PROVE  SeenInv' /\ SaidInv' /\ OrderInv' /\ events' \in Seq(Event)
  <1>1. /\ events \in Seq(Event) /\ seen \in [Cells -> Nat]
        /\ history \in [Cells -> Seq(Values)] /\ h \in [Cells -> Seq(Values)]
    BY DEF IInv, Typed, Histories
  <1>2. /\ Append(events, e) \in Seq(Event) /\ Len(Append(events, e)) = Len(events) + 1
        /\ Len(events) \in Nat /\ Append(events, e)[Len(events) + 1] = e
        /\ \A k \in 1..Len(events) : Append(events, e)[k] = events[k]
        /\ \A k \in 1..(Len(events) + 1) : k \in 1..Len(events) \/ k = Len(events) + 1
    BY <1>1, AppendAt
  <1>3. Cells' = Cells
    BY DEF Cells
  <1>4. \A c \in Cells : /\ Len(h[c]) \in Nat /\ Len(history[c]) \in Nat /\ seen[c] \in Nat
                         /\ seen[c] <= Len(history[c]) /\ seen[c] <= Len(h[c])
    BY <1>1 DEF IInv, SeenInv
  <1>5. \A f \in Event : DOMAIN f.versions \subseteq Cells
                         /\ \A c \in DOMAIN f.versions : f.versions[c] \in Nat
    BY DEF Event, Versions
  <1>6. SeenInv'
    BY <1>3, <1>4 DEF SeenInv
  <1>7. \A k \in 1..Len(events) : events[k] \in Event
    BY <1>1
  <1>8. ASSUME NEW k \in 1..Len(events), NEW c \in DOMAIN events[k].versions
        PROVE  /\ c \in Cells /\ events[k].versions[c] \in Nat
               /\ seen[c] <= events[k].versions[c] /\ events[k].versions[c] <= Len(history[c])
               /\ events[k].versions[c] <= Len(h[c])
    <2>1. c \in Cells /\ events[k].versions[c] \in Nat
      BY <1>5, <1>7
    <2>2. seen[c] <= events[k].versions[c] /\ events[k].versions[c] <= Len(history[c])
      BY DEF IInv, SaidInv
    <2> QED
      BY <1>4, <2>1, <2>2
  <1>9. SaidInv'
    <2> SUFFICES ASSUME NEW k \in 1..(Len(events) + 1),
                        NEW c \in DOMAIN Append(events, e)[k].versions
                 PROVE  /\ seen[c] <= Append(events, e)[k].versions[c]
                        /\ Append(events, e)[k].versions[c] <= Len(h[c])
      BY <1>2 DEF SaidInv
    <2>1. CASE k \in 1..Len(events)
      BY <1>2, <1>8, <2>1
    <2>2. CASE k = Len(events) + 1
      <3>1. c \in DOMAIN e.versions /\ c \in Cells
        BY <1>2, <1>5, <2>2
      <3> QED
        BY <1>2, <1>4, <2>2, <3>1
    <2> QED
      BY <1>2, <2>1, <2>2
  <1>10. OrderInv'
    <2> SUFFICES ASSUME NEW k \in 1..(Len(events) + 1), NEW l \in 1..(Len(events) + 1), k < l,
                        NEW c \in DOMAIN Append(events, e)[k].versions
                                  \cap DOMAIN Append(events, e)[l].versions
                 PROVE  Append(events, e)[k].versions[c] <= Append(events, e)[l].versions[c]
      BY <1>2 DEF OrderInv
    <2>1. k \in 1..Len(events)
      BY <1>2
    <2>2. CASE l \in 1..Len(events)
      BY <1>2, <2>1, <2>2 DEF IInv, OrderInv
    <2>3. CASE l = Len(events) + 1
      BY <1>2, <1>8, <2>1, <2>3
    <2> QED
      BY <1>2, <2>2, <2>3
  <1> QED
    BY <1>2, <1>6, <1>9, <1>10

-----------------------------------------------------------------------------
(* The steps *)

LEMMA SameSets ==
    ASSUME group' = group
    PROVE  /\ Cells' = Cells /\ Objects' = Objects /\ Mutable' = Mutable
           /\ Histories' = Histories /\ Versions' = Versions
           /\ gen' = gen => Call' = Call /\ Event' = Event
  <1>1. Cells' = Cells
    BY DEF Cells
  <1>2. Objects' = Objects
    BY <1>1 DEF Objects, Object
  <1>3. Versions' = Versions /\ Histories' = Histories /\ Mutable' = Mutable
    BY <1>1, <1>2 DEF Versions, Histories, Mutable
  <1>4. Readable(Objects)' = Readable(Objects)
    BY <1>2 DEF Readable
  <1>5. ASSUME gen' = gen
        PROVE  Call' = Call /\ Event' = Event
    BY <1>1, <1>2, <1>3, <1>4, <1>5 DEF Call, Event
  <1> QED
    BY <1>1, <1>2, <1>3, <1>5

\* New proxies make what is under way no stranger.
LEMMA MoreSets ==
    ASSUME group' = group, gen \in Nat, gen' = gen + 1
    PROVE  Call \subseteq Call' /\ Event \subseteq Event'
  <1>1. /\ Cells' = Cells /\ Objects' = Objects /\ Versions' = Versions
        /\ Readable(Objects)' = Readable(Objects)
    BY SameSets DEF Readable
  <1>2. 1..gen \subseteq 1..gen' /\ 0..gen \subseteq 0..gen'
    OBVIOUS
  <1>3. Call \subseteq Call'
    BY <1>1, <1>2 DEF Call
  <1>4. Event \subseteq Event'
    BY <1>1, <1>2 DEF Event
  <1> QED
    BY <1>3, <1>4

\* The steps that say and show nothing.
LEMMA OnlyCalls ==
    ASSUME IInv, group' = group, gen' \in {gen, gen + 1}, calls' \in Seq(Call'),
           UNCHANGED <<history, seen, events>>
    PROVE  IInv'
  <1>1. gen \in Nat \ {0} /\ gen' \in Nat \ {0} /\ events \in Seq(Event)
    BY DEF IInv, Typed
  <1>2. Event \subseteq Event'
    BY <1>1, SameSets, MoreSets
  <1>3. events' \in Seq(Event')
    BY <1>1, <1>2, SeqOfMore
  <1>4. Typed'
    BY <1>1, <1>3, SameSets DEF IInv, Typed
  <1>5. SeenInv' /\ SaidInv' /\ OrderInv'
    BY SameSets DEF IInv, SeenInv, SaidInv, OrderInv
  <1> QED
    BY <1>4, <1>5 DEF IInv

\* What oFono says is true then.
LEMMA Said ==
    ASSUME IInv, NEW e \in Event, NEW h \in Histories,
           events' = Append(events, e), history' = h, seen' = seen, group' = group, gen' = gen,
           calls' \in Seq(Call),
           \A c \in Cells : Len(history[c]) <= Len(h[c]),
           \A c \in DOMAIN e.versions : e.versions[c] = Len(h[c])
    PROVE  IInv'
  <1>1. SeenInv' /\ SaidInv' /\ OrderInv' /\ events' \in Seq(Event)
    BY EventAppended
  <1>2. Typed'
    BY <1>1, SameSets DEF IInv, Typed
  <1> QED
    BY <1>1, <1>2 DEF IInv

LEMMA ReadsTyped ==
    ASSUME NEW objects \in SUBSET Readable(Objects), NEW n \in 1..gen
    PROVE  Reads(objects, n) \in Seq(Call)
  <1>1. CASE objects = {}
    BY <1>1 DEF Reads
  <1>2. CASE objects # {}
    <2>1. Read(objects, n) \in Call
      BY <1>2 DEF Read, Call
    <2> QED
      BY <1>2, <2>1 DEF Reads
  <1> QED
    BY <1>1, <1>2

LEMMA WritesTyped ==
    ASSUME NEW cells \in (SUBSET Cells) \ {{}}, NEW v \in Values,
           \A c \in cells : v \in PropertyValues[c[2]]
    PROVE  Write(cells, v) \in Call
  BY DEF Write, Call

LEMMA CellsHold ==
    ASSUME group \in Groups, NEW c \in Cells
    PROVE  /\ c[2] \in group.props /\ c[2] \in DOMAIN PropertyValues
           /\ PropertyValues[c[2]] # {} /\ PropertyValues[c[2]] \subseteq Values
           /\ Object(c) \in Objects /\ Object(c)[2] = InterfaceOf[c[2]]
  <1>1. c[2] \in group.props
    BY DEF Cells
  <1>2. c[2] \in DOMAIN PropertyValues
    BY <1>1, PropertyAssumption
  <1>3. PropertyValues[c[2]] # {} /\ PropertyValues[c[2]] \subseteq Values
    BY <1>2, TableAssumption DEF Values
  <1> QED
    BY <1>1, <1>2, <1>3 DEF Objects, Object

LEMMA InitInv == Init => IInv /\ Copy!Init
  <1> SUFFICES ASSUME Init
               PROVE  IInv /\ Copy!Init
    OBVIOUS
  <1>1. group \in Groups /\ gen = 1 /\ events = <<>> /\ seen = [c \in Cells |-> 0]
    BY DEF Init
  <1>2. PICK start \in [{c \in Cells : Varies(c)} -> UNION {PropertyValues[p] : p \in group.props}] :
           /\ \A c \in DOMAIN start : start[c] \in PropertyValues[c[2]]
           /\ history = [c \in Cells |-> <<IF Varies(c) THEN start[c]
                                          ELSE CHOOSE v \in PropertyValues[c[2]] : TRUE>>]
    BY DEF Init
  <1>3. \A c \in Cells : c[2] \in DOMAIN PropertyValues
    <2>1. \A c \in Cells : c[2] \in group.props
      BY DEF Cells
    <2>2. group.props \subseteq DOMAIN PropertyValues
      BY <1>1, PropertyAssumption
    <2> QED
      BY <2>1, <2>2
  <1>4. \A c \in Cells : \E v \in PropertyValues[c[2]] : history[c] = <<v>> /\ v \in Values
    <2> SUFFICES ASSUME NEW c \in Cells
                 PROVE  \E v \in PropertyValues[c[2]] : history[c] = <<v>> /\ v \in Values
      OBVIOUS
    <2>1. \A v \in PropertyValues[c[2]] : v \in Values
      BY <1>3 DEF Values
    <2>2. CASE Varies(c)
      <3>1. c \in DOMAIN start /\ history[c] = <<start[c]>>
        BY <1>2, <2>2
      <3> QED
        BY <1>2, <2>1, <3>1
    <2>3. CASE ~Varies(c)
      <3>1. PropertyValues[c[2]] # {}
        BY <1>3, TableAssumption
      <3>2. (CHOOSE v \in PropertyValues[c[2]] : TRUE) \in PropertyValues[c[2]]
        BY <3>1
      <3>3. history[c] = <<CHOOSE v \in PropertyValues[c[2]] : TRUE>>
        BY <1>2, <2>3
      <3> QED
        BY <2>1, <3>2, <3>3
    <2> QED
      BY <2>2, <2>3
  <1>5. ASSUME NEW c \in Cells
        PROVE  /\ history[c] \in Seq(Values) /\ Len(history[c]) = 1 /\ history[c] # <<>>
               /\ \A k \in 1..Len(history[c]) : history[c][k] \in PropertyValues[c[2]]
    <2>1. PICK v \in PropertyValues[c[2]] : history[c] = <<v>> /\ v \in Values
      BY <1>4
    <2>2. <<v>> \in Seq(Values) /\ Len(<<v>>) = 1 /\ <<v>> # <<>> /\ <<v>>[1] = v
      BY <2>1
    <2> QED
      BY <2>1, <2>2
  <1>6. DOMAIN history = Cells
    BY <1>2
  <1>7. history \in [Cells -> Seq(Values)]
    <2> DEFINE first(c) == <<IF Varies(c) THEN start[c]
                             ELSE CHOOSE v \in PropertyValues[c[2]] : TRUE>>
    <2>1. history = [c \in Cells |-> first(c)]
      BY <1>2
    <2> HIDE DEF first
    <2>2. \A c \in Cells : first(c) \in Seq(Values)
      BY <1>5, <2>1
    <2> QED
      BY <2>1, <2>2
  <1>8. calls \in Seq(Call)
    <2>1. 1 \in 1..gen
      BY <1>1
    <2> QED
      BY <2>1, ReadsTyped DEF Init
  <1>9. Typed
    <2>1. history \in Histories
      BY <1>5, <1>7 DEF Histories
    <2>2. events \in Seq(Event)
      BY <1>1
    <2> QED
      BY <1>1, <1>8, <2>1, <2>2 DEF Typed
  <1>10. SeenInv /\ SaidInv /\ OrderInv
    BY <1>1, <1>5 DEF SeenInv, SaidInv, OrderInv
  <1>11. Copy!Init
    BY <1>1, <1>4, <1>6 DEF Copy!Init, Copy!Cells
  <1> QED
    BY <1>9, <1>10, <1>11 DEF IInv

LEMMA Ready ==
    ASSUME IInv, on_dbus_client_ready
    PROVE  IInv' /\ UNCHANGED <<history, seen>>
  <1>1. /\ group' = group /\ gen' = gen /\ calls' = calls /\ calls \in Seq(Call)
        /\ UNCHANGED <<history, seen, events>>
    BY DEF IInv, Typed, on_dbus_client_ready, ofonoVars
  <1> QED
    BY <1>1, SameSets, OnlyCalls

\* gdbus reads the properties of the new proxies once it has read those of the old ones.
LEMMA ReplacedReads ==
    ASSUME IInv, NEW lost, on_modem_property_change(lost)
    PROVE  /\ calls \in Seq(Call') /\ Reads(Readable(Mutable \ lost), gen + 1) \in Seq(Call')
           /\ calls' = calls \o Reads(Readable(Mutable \ lost), gen + 1)
           /\ gen' = gen + 1 /\ gen \in Nat \ {0} /\ group' = group
           /\ UNCHANGED <<history, seen, events>>
  <1>1. /\ group' = group /\ gen' = gen + 1 /\ UNCHANGED <<history, seen, events>>
        /\ calls' = calls \o Reads(Readable(Mutable \ lost), gen + 1)
    BY DEF on_modem_property_change, ofonoVars
  <1>2. gen \in Nat \ {0} /\ calls \in Seq(Call)
    BY DEF IInv, Typed
  <1>3. calls \in Seq(Call')
    BY <1>1, <1>2, MoreSets, SeqOfMore
  <1> DEFINE objects == Readable(Mutable \ lost)
  <1>4. Reads(objects, gen + 1) \in Seq(Call')
    <2>1. CASE objects = {}
      <3>1. Reads(objects, gen + 1) = <<>>
        BY <2>1 DEF Reads
      <3>2. <<>> \in Seq(Call')
        OBVIOUS
      <3> QED
        BY <3>1, <3>2
    <2>2. CASE objects # {}
      <3>1. objects \in (SUBSET Readable(Objects)) \ {{}}
        BY <2>2 DEF Readable, Mutable
      <3>2. Readable(Objects)' = Readable(Objects)
        BY <1>1, SameSets DEF Readable
      <3>3. gen + 1 \in 1..gen'
        BY <1>1, <1>2
      <3>4. Read(objects, gen + 1) \in Call'
        BY <3>1, <3>2, <3>3 DEF Read, Call
      <3>5. Reads(objects, gen + 1) = <<Read(objects, gen + 1)>>
        BY <2>2 DEF Reads
      <3>6. <<Read(objects, gen + 1)>> \in Seq(Call')
        BY <3>4
      <3> QED
        BY <3>5, <3>6
    <2> QED
      BY <2>1, <2>2
  <1> QED
    BY <1>1, <1>2, <1>3, <1>4

LEMMA Replaced ==
    ASSUME IInv, NEW lost, on_modem_property_change(lost)
    PROVE  IInv' /\ UNCHANGED <<history, seen>>
  <1>1. /\ calls \in Seq(Call') /\ Reads(Readable(Mutable \ lost), gen + 1) \in Seq(Call')
        /\ calls' = calls \o Reads(Readable(Mutable \ lost), gen + 1)
        /\ gen' = gen + 1 /\ group' = group
        /\ UNCHANGED <<history, seen, events>>
    BY ReplacedReads
  <1>2. calls' \in Seq(Call')
    BY <1>1, JoinAt
  <1> QED
    BY <1>1, <1>2, OnlyCalls

LEMMA Dispatched ==
    ASSUME IInv, Dispatch
    PROVE  IInv' /\ Copy!Show
  <1> DEFINE e == Head(events)
  <1>1. /\ events # <<>> /\ events' = Tail(events)
        /\ UNCHANGED <<group, gen, history, calls>>
        /\ seen' = [c \in Cells |-> IF Accepts(e, c) THEN e.versions[c] ELSE seen[c]]
    BY DEF Dispatch, ofonoVars
  <1>2. /\ events \in Seq(Event) /\ seen \in [Cells -> Nat]
        /\ history \in [Cells -> Seq(Values)]
    BY DEF IInv, Typed, Histories
  <1>3. /\ Tail(events) \in Seq(Event) /\ Len(Tail(events)) = Len(events) - 1
        /\ Len(events) \in Nat \ {0} /\ e = events[1] /\ e \in Event
        /\ \A k \in 1..(Len(events) - 1) : Tail(events)[k] = events[k + 1]
    BY <1>1, <1>2, TailAt
  <1>4. \A c \in DOMAIN e.versions : /\ seen[c] <= e.versions[c] /\ e.versions[c] \in Nat
                                     /\ e.versions[c] <= Len(history[c])
    <2>1. \A c \in DOMAIN e.versions : e.versions[c] \in Nat
      BY <1>3 DEF Event, Versions
    <2>2. 1 \in 1..Len(events)
      BY <1>3
    <2> QED
      BY <1>3, <2>1, <2>2 DEF IInv, SaidInv
  <1> HIDE DEF e
  <1>5. ASSUME NEW c \in Cells
        PROVE  /\ seen'[c] \in Nat /\ seen[c] \in Nat /\ Len(history[c]) \in Nat
               /\ seen[c] <= seen'[c] /\ seen'[c] <= Len(history[c])
    <2>1. seen[c] \in Nat /\ Len(history[c]) \in Nat /\ seen[c] <= Len(history[c])
      BY <1>2 DEF IInv, SeenInv
    <2>2. CASE Accepts(e, c)
      BY <1>1, <1>4, <2>1, <2>2 DEF Accepts
    <2>3. CASE ~Accepts(e, c)
      BY <1>1, <2>1, <2>3
    <2> QED
      BY <2>2, <2>3
  <1>6. Typed'
    <2>1. seen' \in [Cells -> Nat]
      BY <1>1, <1>5
    <2> QED
      BY <1>1, <1>3, <2>1, SameSets DEF IInv, Typed
  <1>7. SeenInv'
    BY <1>1, <1>5, SameSets DEF SeenInv
  <1>8. \A k \in 1..(Len(events) - 1) : k + 1 \in 1..Len(events) /\ 1 < k + 1
    BY <1>3
  <1>9. SaidInv'
    <2> SUFFICES ASSUME NEW k \in 1..(Len(events) - 1), NEW c \in DOMAIN events[k + 1].versions
                 PROVE  /\ seen'[c] <= events[k + 1].versions[c]
                        /\ events[k + 1].versions[c] <= Len(history[c])
      BY <1>1, <1>3 DEF SaidInv
    <2>1. k + 1 \in 1..Len(events) /\ 1 < k + 1 /\ 1 \in 1..Len(events)
      BY <1>3, <1>8
    <2>2. events[k + 1] \in Event
      BY <1>2, <2>1
    <2>3. c \in Cells
      BY <2>2 DEF Event, Versions
    <2>4. /\ seen[c] <= events[k + 1].versions[c]
          /\ events[k + 1].versions[c] <= Len(history[c])
      BY <2>1 DEF IInv, SaidInv
    <2>5. CASE Accepts(e, c)
      <3>1. c \in DOMAIN e.versions /\ seen'[c] = e.versions[c]
        BY <1>1, <2>3, <2>5 DEF Accepts
      <3>2. events[1].versions[c] <= events[k + 1].versions[c]
        BY <1>3, <2>1, <3>1 DEF IInv, OrderInv
      <3> QED
        BY <1>3, <2>4, <3>1, <3>2
    <2>6. CASE ~Accepts(e, c)
      BY <1>1, <2>3, <2>4, <2>6
    <2> QED
      BY <2>5, <2>6
  <1>10. OrderInv'
    <2> SUFFICES ASSUME NEW k \in 1..(Len(events) - 1), NEW l \in 1..(Len(events) - 1), k < l,
                        NEW c \in DOMAIN events[k + 1].versions \cap DOMAIN events[l + 1].versions
                 PROVE  events[k + 1].versions[c] <= events[l + 1].versions[c]
      BY <1>1, <1>3 DEF OrderInv
    <2>1. k + 1 \in 1..Len(events) /\ l + 1 \in 1..Len(events) /\ k + 1 < l + 1
      BY <1>8
    <2> QED
      BY <2>1 DEF IInv, OrderInv
  <1>11. Copy!Show
    <2>1. DOMAIN history = Cells /\ DOMAIN seen' = Cells
      BY <1>1, <1>2
    <2>2. \A c \in Cells : seen'[c] \in seen[c]..Len(history[c])
      BY <1>5
    <2> QED
      BY <1>1, <2>1, <2>2 DEF Copy!Show, Copy!Cells
  <1> QED
    BY <1>6, <1>7, <1>9, <1>10, <1>11 DEF IInv

\* What a setting sends.
LEMMA SettingSends ==
    ASSUME IInv, NEW name \in group.setters, NEW s \in SlotsFor(name),
           NEW arg \in DOMAIN Setters[name].encode, NEW targets \in SUBSET Scope(name, s)
    PROVE  /\ CellsFor(name, targets) \subseteq Cells
           /\ Setters[name].encode[arg] \in Values
           /\ \A c \in CellsFor(name, targets) :
                 Setters[name].encode[arg] \in PropertyValues[c[2]]
  <1> DEFINE p == Setters[name].sets
             v == Setters[name].encode[arg]
  <1>1. group \in Groups /\ ModemCount \in Nat \ {0}
    BY PropertyAssumption DEF IInv, Typed
  <1>2. /\ p \in group.props /\ v \in PropertyValues[p]
        /\ Setters[name].scope = "manager" <=> InterfaceOf[p] = "Manager"
    BY <1>1, TableAssumption
  <1>3. v \in Values
    <2>1. p \in DOMAIN PropertyValues
      BY <1>1, <1>2, PropertyAssumption
    <2> QED
      BY <1>2, <2>1 DEF Values
  <1>4. \A t \in targets : t \in 0..ModemCount /\ (t = Manager <=> InterfaceOf[p] = "Manager")
    <2>1. CASE Setters[name].scope = "manager"
      <3>1. Scope(name, s) = {Manager}
        BY <2>1 DEF Scope
      <3> QED
        BY <1>1, <1>2, <2>1, <3>1 DEF Manager
    <2>2. CASE Setters[name].scope # "manager"
      <3>1. s \in Slots
        BY <1>1 DEF SlotsFor, Slots, DEFAULT_SLOT_ID
      <3>2. Scope(name, s) \subseteq Slots
        BY <2>2, <3>1 DEF Scope
      <3> QED
        BY <1>1, <1>2, <2>2, <3>2 DEF Slots, Manager
    <2> QED
      BY <2>1, <2>2
  <1>5. CellsFor(name, targets) \subseteq Cells
    BY <1>2, <1>4 DEF CellsFor, Cells
  <1>6. \A c \in CellsFor(name, targets) : c[2] = p
    BY DEF CellsFor
  <1> QED
    BY <1>2, <1>3, <1>5, <1>6

LEMMA ASetting ==
    ASSUME IInv, NEW name \in group.setters, NEW s \in SlotsFor(name), NEW arg \in Arguments(name),
           Set(name, s, arg)
    PROVE  IInv' /\ UNCHANGED <<history, seen>>
  <1>1. group' = group /\ gen' = gen /\ UNCHANGED <<history, seen, events>>
    BY DEF Set, SetFails, SetSends, clientVars, ofonoVars
  <1>2. gen \in Nat /\ calls \in Seq(Call)
    BY DEF IInv, Typed
  <1>3. calls' \in Seq(Call)
    <2>1. CASE calls' = calls
      BY <1>2, <2>1
    <2>2. ASSUME NEW unsent, arg \in DOMAIN Setters[name].encode, SetSends(name, s, arg, unsent)
          PROVE  calls' \in Seq(Call)
      <3> DEFINE cells == CellsFor(name, Asks(name, s) \ unsent)
                 v == Setters[name].encode[arg]
      <3>1. Asks(name, s) \ unsent \in SUBSET Scope(name, s)
        BY DEF Asks, Reached
      <3>2. cells \subseteq Cells /\ v \in Values /\ \A c \in cells : v \in PropertyValues[c[2]]
        BY <2>2, <3>1, SettingSends
      <3>3. calls' = Sent(cells, v)
        BY <2>2 DEF SetSends
      <3> HIDE DEF cells, v
      <3>4. CASE cells = {}
        BY <1>2, <3>3, <3>4 DEF Sent
      <3>5. CASE cells # {}
        <4>1. Write(cells, v) \in Call
          BY <3>2, <3>5, WritesTyped
        <4>2. calls' = Append(calls, Write(cells, v))
          BY <3>3, <3>5 DEF Sent
        <4> QED
          BY <1>2, <4>1, <4>2
      <3> QED
        BY <3>4, <3>5
    <2> QED
      BY <2>1, <2>2 DEF Set, SetFails
  <1> QED
    BY <1>1, <1>2, <1>3, SameSets, OnlyCalls

\* The first call that is under way.
LEMMA FirstCall ==
    ASSUME IInv, calls # <<>>
    PROVE  /\ calls \in Seq(Call) /\ Head(calls) \in Call /\ Tail(calls) \in Seq(Call)
           /\ Head(calls).call = "read" =>
                 /\ Head(calls).gen \in 1..gen /\ Head(calls).objects \subseteq Readable(Objects)
                 /\ Head(calls).objects \subseteq Objects
           /\ Head(calls).call = "write" =>
                 /\ Head(calls).cells \subseteq Cells /\ Head(calls).value \in Values
                 /\ \A c \in Head(calls).cells : Head(calls).value \in PropertyValues[c[2]]
  <1>1. calls \in Seq(Call)
    BY DEF IInv, Typed
  <1>2. Head(calls) \in Call /\ Tail(calls) \in Seq(Call)
    BY <1>1, TailAt
  <1> QED
    BY <1>1, <1>2 DEF Call, Readable

LEMMA ReadsAnswered ==
    ASSUME IInv, NEW o, OfonoReads(o)
    PROVE  IInv' /\ UNCHANGED <<history, seen>>
  <1> DEFINE c == Head(calls)
             e == Properties(o, c.gen)
  <1>1. /\ calls # <<>> /\ c.call = "read" /\ events' = Append(events, e)
        /\ calls' = Reads(c.objects \ {o}, c.gen) \o Tail(calls) /\ o \in c.objects
        /\ UNCHANGED <<group, gen, history, seen>>
    BY DEF OfonoReads, clientVars, ofonoVars
  <1>2. history \in Histories /\ history \in [Cells -> Seq(Values)] /\ gen \in Nat
    BY DEF IInv, Typed, Histories
  <1>3. c \in Call /\ Tail(calls) \in Seq(Call)
    BY <1>1, FirstCall
  <1>4. c.gen \in 1..gen /\ c.objects \subseteq Readable(Objects) /\ o \in Readable(Objects)
    BY <1>1, FirstCall
  <1>5. calls' \in Seq(Call)
    <2>1. Reads(c.objects \ {o}, c.gen) \in Seq(Call)
      BY <1>4, ReadsTyped
    <2> HIDE DEF c
    <2>2. Reads(c.objects \ {o}, c.gen) \o Tail(calls) \in Seq(Call)
      BY <1>3, <2>1, JoinAt
    <2> QED
      BY <1>1, <2>2
  <1>6. e.versions = [x \in CellsOf(o) |-> Len(history[x])] /\ e.gen = c.gen
        /\ e = [gen |-> c.gen, versions |-> [x \in CellsOf(o) |-> Len(history[x])]]
    BY DEF Properties
  <1>7. e \in Event
    <2>1. CellsOf(o) \in SUBSET Cells /\ \A x \in CellsOf(o) : Len(history[x]) \in Nat
      BY <1>2 DEF CellsOf
    <2>2. [x \in CellsOf(o) |-> Len(history[x])] \in [CellsOf(o) -> Nat]
      BY <2>1
    <2>3. [x \in CellsOf(o) |-> Len(history[x])] \in Versions
      BY <2>1, <2>2 DEF Versions
    <2>4. \A x \in CellsOf(o) : InterfaceOf[x[2]] \notin Unread
      BY <1>4 DEF CellsOf, Object, Readable
    <2>5. c.gen \in 0..gen
      BY <1>2, <1>4
    <2> HIDE DEF c, e
    <2> QED
      BY <1>6, <2>3, <2>4, <2>5 DEF Event
  <1>8. \A x \in DOMAIN e.versions : e.versions[x] = Len(history[x])
    BY <1>6
  <1>9. \A x \in Cells : Len(history[x]) <= Len(history[x])
    BY <1>2
  <1> HIDE DEF c, e
  <1>10. history' = history /\ seen' = seen /\ group' = group /\ gen' = gen
    BY <1>1
  <1> QED
    BY <1>1, <1>2, <1>5, <1>7, <1>8, <1>9, <1>10, Said

\* What becomes of the history of a cell that changes.
LEMMA HistoryGrows ==
    ASSUME IInv, NEW c \in Cells, NEW v \in PropertyValues[c[2]]
    PROVE  LET h == [history EXCEPT ![c] = Append(@, v)]
           IN  /\ h \in Histories /\ h[c] = Append(history[c], v)
               /\ Len(h[c]) = Len(history[c]) + 1 /\ h[c][Len(h[c])] = v
               /\ Len(history[c]) \in Nat /\ \A x \in Cells \ {c} : h[x] = history[x]
  <1> DEFINE h == [history EXCEPT ![c] = Append(@, v)]
  <1>1. /\ history \in [Cells -> Seq(Values)] /\ group \in Groups
        /\ \A x \in Cells : history[x] # <<>>
              /\ \A k \in 1..Len(history[x]) : history[x][k] \in PropertyValues[x[2]]
    BY DEF IInv, Typed, Histories
  <1>2. v \in Values
    BY <1>1, CellsHold
  <1>3. history[c] \in Seq(Values)
    BY <1>1
  <1>4. /\ Append(history[c], v) \in Seq(Values) /\ Len(history[c]) \in Nat
        /\ Len(Append(history[c], v)) = Len(history[c]) + 1
        /\ Append(history[c], v)[Len(history[c]) + 1] = v
        /\ \A k \in 1..Len(history[c]) : Append(history[c], v)[k] = history[c][k]
        /\ \A k \in 1..(Len(history[c]) + 1) : k \in 1..Len(history[c]) \/ k = Len(history[c]) + 1
    BY <1>2, <1>3, AppendAt
  <1>5. /\ h \in [Cells -> Seq(Values)] /\ h[c] = Append(history[c], v)
        /\ \A x \in Cells \ {c} : h[x] = history[x]
    BY <1>1, <1>4
  <1> HIDE DEF h
  <1>6. ASSUME NEW x \in Cells
        PROVE  h[x] # <<>> /\ \A k \in 1..Len(h[x]) : h[x][k] \in PropertyValues[x[2]]
    <2>1. CASE x # c
      BY <1>1, <1>5, <2>1
    <2>2. CASE x = c
      <3>1. h[x] # <<>>
        BY <1>4, <1>5, <2>2
      <3>2. \A k \in 1..(Len(history[c]) + 1) : Append(history[c], v)[k] \in PropertyValues[c[2]]
        BY <1>1, <1>4
      <3> QED
        BY <1>4, <1>5, <2>2, <3>1, <3>2
    <2> QED
      BY <2>1, <2>2
  <1>7. h \in Histories
    BY <1>5, <1>6 DEF Histories
  <1> QED
    BY <1>4, <1>5, <1>7 DEF h

\* oFono changes a property, or finds that it has the value already.
LEMMA Changes ==
    ASSUME IInv, NEW c \in Cells, NEW v \in PropertyValues[c[2]], Change(c, v),
           group' = group, gen' = gen, seen' = seen, calls' \in Seq(Call)
    PROVE  IInv' /\ (Copy!Write(c) \/ UNCHANGED <<history, seen>>)
  <1>1. gen \in Nat /\ history \in [Cells -> Seq(Values)]
    BY DEF IInv, Typed, Histories
  <1>2. CASE Held(c) = v
    <2>1. UNCHANGED <<history, events>>
      BY <1>2 DEF Change
    <2> QED
      BY <1>1, <2>1, SameSets, OnlyCalls
  <1>3. CASE Held(c) # v
    <2> DEFINE h == [history EXCEPT ![c] = Append(@, v)]
               n == Len(history[c]) + 1
               e == Changed(c, n)
    <2>1. history' = h /\ events' = Append(events, e)
      BY <1>3 DEF Change
    <2>2. /\ h \in Histories /\ h[c] = Append(history[c], v) /\ Len(h[c]) = n /\ n \in Nat
          /\ Len(history[c]) \in Nat /\ \A x \in Cells \ {c} : h[x] = history[x]
      BY HistoryGrows
    <2>3. v \in Values
      BY CellsHold DEF IInv, Typed
    <2> HIDE DEF h
    <2>4. \A x \in Cells : Len(history[x]) <= Len(h[x])
      <3> SUFFICES ASSUME NEW x \in Cells
                   PROVE  Len(history[x]) <= Len(h[x])
        OBVIOUS
      <3>1. Len(history[x]) \in Nat
        BY <1>1
      <3>2. CASE x = c
        BY <2>2, <3>1, <3>2
      <3>3. CASE x # c
        BY <2>2, <3>1, <3>3
      <3> QED
        BY <3>2, <3>3
    <2>5. e.versions = [x \in {c} |-> n] /\ e = [gen |-> 0, versions |-> [x \in {c} |-> n]]
          /\ e.gen = 0
      BY DEF Changed
    <2>6. e \in Event
      <3>1. {c} \in SUBSET Cells /\ [x \in {c} |-> n] \in [{c} -> Nat]
        BY <2>2
      <3>2. [x \in {c} |-> n] \in Versions
        BY <3>1 DEF Versions
      <3>3. 0 \in 0..gen
        BY <1>1
      <3> HIDE DEF e, n
      <3> QED
        BY <2>5, <3>2, <3>3 DEF Event
    <2>7. \A x \in DOMAIN e.versions : e.versions[x] = Len(h[x])
      BY <2>2, <2>5
    <2>8. Copy!Write(c)
      <3>1. history'[c] = Append(history[c], v)
        BY <2>1, <2>2
      <3>2. history' = [history EXCEPT ![c] = history'[c]]
        BY <2>1, <3>1 DEF h
      <3> QED
        BY <2>3, <3>1, <3>2 DEF Copy!Write
    <2> HIDE DEF n, e
    <2> QED
      BY <2>1, <2>2, <2>4, <2>6, <2>7, <2>8, Said
  <1> QED
    BY <1>2, <1>3

LEMMA CallsDone ==
    ASSUME IInv, calls # <<>>, NEW c, IsNext(Head(calls), c)
    PROVE  /\ Done(Head(calls), c) \in Seq(Call)
           /\ c \in Cells /\ Head(calls).value \in PropertyValues[c[2]]
  <1> DEFINE w == Head(calls)
  <1>1. w.call = "write" /\ c \in w.cells
    BY DEF IsNext
  <1>2. /\ w \in Call /\ Tail(calls) \in Seq(Call)
        /\ w.cells \subseteq Cells /\ w.value \in Values
        /\ \A x \in w.cells : w.value \in PropertyValues[x[2]]
    BY <1>1, FirstCall
  <1> HIDE DEF w
  <1>3. Done(w, c) \in Seq(Call)
    <2>1. CASE w.cells = {c}
      BY <1>2, <2>1 DEF Done
    <2>2. CASE w.cells # {c}
      <3>1. w.cells \ {c} \in (SUBSET Cells) \ {{}}
        BY <1>1, <1>2, <2>2
      <3>2. Write(w.cells \ {c}, w.value) \in Call
        BY <1>2, <3>1, WritesTyped
      <3>3. <<Write(w.cells \ {c}, w.value)>> \in Seq(Call)
        BY <3>2
      <3>4. <<Write(w.cells \ {c}, w.value)>> \o Tail(calls) \in Seq(Call)
        BY <1>2, <3>3, JoinAt
      <3> QED
        BY <2>2, <3>4 DEF Done
    <2> QED
      BY <2>1, <2>2
  <1> QED
    BY <1>1, <1>2, <1>3 DEF w

LEMMA WritesDone ==
    ASSUME IInv, NEW c, OfonoWrites(c)
    PROVE  IInv' /\ ((c \in Cells /\ Copy!Write(c)) \/ UNCHANGED <<history, seen>>)
  <1>1. calls # <<>> /\ IsNext(Head(calls), c)
    BY DEF OfonoWrites
  <1>2. /\ Done(Head(calls), c) \in Seq(Call)
        /\ c \in Cells /\ Head(calls).value \in PropertyValues[c[2]]
    BY <1>1, CallsDone
  <1>3. /\ Change(c, Head(calls).value) /\ calls' \in Seq(Call)
        /\ group' = group /\ gen' = gen /\ seen' = seen
    BY <1>2 DEF OfonoWrites, clientVars
  <1> QED
    BY <1>2, <1>3, Changes

LEMMA Refused ==
    ASSUME IInv, NEW c, OfonoRefuses(c)
    PROVE  IInv' /\ UNCHANGED <<history, seen>>
  <1>1. calls # <<>> /\ IsNext(Head(calls), c)
    BY DEF OfonoRefuses
  <1>2. Done(Head(calls), c) \in Seq(Call)
    BY <1>1, CallsDone
  <1>3. /\ calls' \in Seq(Call) /\ group' = group /\ gen' = gen /\ gen \in Nat
        /\ UNCHANGED <<history, seen, events>>
    BY <1>2 DEF OfonoRefuses, clientVars, ofonoVars, IInv, Typed
  <1> QED
    BY <1>3, SameSets, OnlyCalls

LEMMA ChangesByItself ==
    ASSUME IInv, NEW c \in Cells, NEW v \in PropertyValues[c[2]], OfonoChanges(c, v)
    PROVE  IInv' /\ (Copy!Write(c) \/ UNCHANGED <<history, seen>>)
  <1>1. /\ Change(c, v) /\ calls' \in Seq(Call)
        /\ group' = group /\ gen' = gen /\ seen' = seen
    BY DEF OfonoChanges, clientVars, IInv, Typed
  <1> QED
    BY <1>1, Changes

\* Every step of the cache is a step of TrailingCopy or none of its business.
LEMMA Steps ==
    IInv /\ [Next]_vars => IInv' /\ [Copy!Next]_<<history, seen>>
  <1> SUFFICES ASSUME IInv, [Next]_vars
               PROVE  IInv' /\ (Copy!Next \/ UNCHANGED <<history, seen>>)
    OBVIOUS
  <1>0. DOMAIN history = Cells
    BY DEF IInv, Typed, Histories
  <1>1. CASE UNCHANGED vars
    <2>1. /\ group' = group /\ gen' = gen /\ calls' \in Seq(Call)
          /\ UNCHANGED <<history, seen, events>>
      BY <1>1 DEF vars, clientVars, ofonoVars, IInv, Typed
    <2> QED
      BY <2>1, SameSets, OnlyCalls
  <1>2. CASE on_dbus_client_ready
    BY <1>2, Ready
  <1>3. ASSUME NEW lost \in Losses, on_modem_property_change(lost)
        PROVE  IInv' /\ UNCHANGED <<history, seen>>
    BY <1>3, Replaced
  <1>4. CASE Dispatch
    BY <1>4, Dispatched DEF Copy!Next
  <1>5. ASSUME NEW name \in group.setters, NEW s \in SlotsFor(name), NEW arg \in Arguments(name),
               Set(name, s, arg)
        PROVE  IInv' /\ UNCHANGED <<history, seen>>
    BY <1>5, ASetting
  <1>6. CASE Serving
    <2>1. ASSUME NEW o, OfonoReads(o)
          PROVE  IInv' /\ UNCHANGED <<history, seen>>
      BY <2>1, ReadsAnswered
    <2>2. ASSUME NEW c, OfonoWrites(c)
          PROVE  IInv' /\ (Copy!Next \/ UNCHANGED <<history, seen>>)
      BY <1>0, <2>2, WritesDone DEF Copy!Next, Copy!Cells
    <2>3. ASSUME NEW c, OfonoRefuses(c)
          PROVE  IInv' /\ UNCHANGED <<history, seen>>
      BY <2>3, Refused
    <2> QED
      BY <1>6, <2>1, <2>2, <2>3 DEF Serving
  <1>7. ASSUME NEW c \in Cells, NEW v \in PropertyValues[c[2]], OfonoChanges(c, v)
        PROVE  IInv' /\ (Copy!Next \/ UNCHANGED <<history, seen>>)
    BY <1>0, <1>7, ChangesByItself DEF Copy!Next, Copy!Cells
  <1> QED
    BY <1>1, <1>2, <1>3, <1>4, <1>5, <1>6, <1>7 DEF Next

-----------------------------------------------------------------------------
\* What a getter shows of a property never goes back to what was there before, however
\* often on_modem_property_change replaces the proxies, and whatever was under way then:
\* the cache of properties implements TrailingCopy.
THEOREM ShownNeverGoesBack == Spec => NeverGoesBack
  <1>1. Init => IInv /\ Copy!Init
    BY InitInv
  <1>2. IInv /\ [Next]_vars => IInv' /\ [Copy!Next]_<<history, seen>>
    BY Steps
  <1> QED
    BY <1>1, <1>2, PTL DEF Spec, NeverGoesBack, Copy!Spec
-----------------------------------------------------------------------------
(* The types *)

\* A proxy has nothing that was not shown.
RestInv ==
    /\ ready \in BOOLEAN /\ spoilt \in BOOLEAN
    /\ proxy \in [Objects -> 0..gen]
    /\ cache \in [Cells -> Nat] /\ \A c \in Cells : cache[c] <= seen[c]
    /\ settings \in 0..group.settings /\ news \in 0..group.news

LEMMA Bounds ==
    ASSUME IInv
    PROVE  group.settings \in Nat /\ group.news \in Nat /\ group.replacements \in Nat
  BY PropertyAssumption DEF IInv, Typed

LEMMA ClientKept ==
    ASSUME RestInv, group' = group, UNCHANGED clientVars, spoilt' \in BOOLEAN,
           settings' \in 0..group.settings, news' \in 0..group.news
    PROVE  RestInv'
  BY SameSets DEF RestInv, clientVars

LEMMA RestInit == Init => RestInv
  <1> SUFFICES ASSUME Init
               PROVE  RestInv
    OBVIOUS
  <1>1. IInv
    BY InitInv
  <1>2. /\ gen = 1 /\ proxy = [o \in Objects |-> 1] /\ cache = [c \in Cells |-> 0]
        /\ seen = [c \in Cells |-> 0]
    BY DEF Init
  <1>3. proxy \in [Objects -> 0..gen]
    BY <1>2
  <1>4. ready \in BOOLEAN /\ spoilt \in BOOLEAN /\ settings = 0 /\ news = 0
    BY DEF Init
  <1> QED
    BY <1>1, <1>2, <1>3, <1>4, Bounds DEF RestInv

LEMMA RestReplaced ==
    ASSUME IInv, RestInv, NEW lost, on_modem_property_change(lost)
    PROVE  RestInv'
  <1>1. /\ group' = group /\ gen' = gen + 1 /\ ready' = ready /\ spoilt' = spoilt
        /\ seen' = seen /\ settings' = settings /\ news' = news
        /\ proxy' = [o \in Objects |-> IF o \notin Mutable THEN proxy[o]
                                       ELSE IF o \in lost THEN 0 ELSE gen + 1]
        /\ cache' = [c \in Cells |-> IF Object(c) \in Mutable THEN 0 ELSE cache[c]]
    BY DEF on_modem_property_change, ofonoVars, appVars
  <1>2. gen \in Nat /\ seen \in [Cells -> Nat]
    BY DEF IInv, Typed
  <1>3. proxy' \in [Objects -> 0..gen']
    BY <1>1, <1>2 DEF RestInv
  <1>4. cache' \in [Cells -> Nat] /\ \A c \in Cells : cache'[c] <= seen[c]
    BY <1>1, <1>2 DEF RestInv
  <1> QED
    BY <1>1, <1>3, <1>4, SameSets DEF RestInv

\* What a proxy takes was shown, and is what oFono said of the cell.
LEMMA HeadSays ==
    ASSUME IInv, RestInv, events # <<>>, NEW c \in Cells
    PROVE  /\ Len(history[c]) \in Nat /\ cache[c] \in Nat /\ seen[c] \in Nat
           /\ cache[c] <= seen[c] /\ seen[c] <= Len(history[c])
           /\ c \in DOMAIN Head(events).versions =>
                 /\ Head(events).versions[c] \in Nat
                 /\ seen[c] <= Head(events).versions[c]
                 /\ Head(events).versions[c] <= Len(history[c])
  <1>1. events \in Seq(Event) /\ history \in [Cells -> Seq(Values)] /\ seen \in [Cells -> Nat]
    BY DEF IInv, Typed, Histories
  <1>2. Head(events) = events[1] /\ Head(events) \in Event /\ Len(events) \in Nat \ {0}
    BY <1>1, TailAt
  <1>3. Head(events).versions \in Versions /\ 1 \in 1..Len(events)
    BY <1>2 DEF Event
  <1>4. c \in DOMAIN Head(events).versions => Head(events).versions[c] \in Nat
    BY <1>3 DEF Versions
  <1> QED
    BY <1>1, <1>2, <1>3, <1>4 DEF IInv, SaidInv, SeenInv, RestInv

LEMMA RestDispatched ==
    ASSUME IInv, RestInv, Dispatch
    PROVE  RestInv'
  <1> DEFINE e == Head(events)
  <1>1. /\ events # <<>>
        /\ cache' = [c \in Cells |-> IF Accepts(e, c) THEN e.versions[c] ELSE cache[c]]
        /\ seen' = [c \in Cells |-> IF Accepts(e, c) THEN e.versions[c] ELSE seen[c]]
        /\ group' = group /\ gen' = gen /\ ready' = ready /\ proxy' = proxy
        /\ spoilt' = spoilt /\ settings' = settings /\ news' = news
    BY DEF Dispatch, ofonoVars, appVars
  <1>2. ASSUME NEW c \in Cells
        PROVE  cache'[c] \in Nat /\ cache'[c] <= seen'[c]
    <2>1. /\ cache[c] \in Nat /\ cache[c] <= seen[c]
          /\ c \in DOMAIN e.versions => e.versions[c] \in Nat
      BY <1>1, HeadSays
    <2> HIDE DEF e
    <2>2. Accepts(e, c) => c \in DOMAIN e.versions
      BY DEF Accepts
    <2> QED
      BY <1>1, <2>1, <2>2
  <1>3. cache' \in [Cells -> Nat]
    BY <1>1, <1>2
  <1> QED
    BY <1>1, <1>2, <1>3, SameSets DEF RestInv

LEMMA RestSteps == IInv /\ RestInv /\ [Next]_vars => RestInv'
  <1> SUFFICES ASSUME IInv, RestInv, [Next]_vars
               PROVE  RestInv'
    OBVIOUS
  <1> USE DEF appVars, ofonoVars
  <1>0. /\ spoilt \in BOOLEAN /\ settings \in 0..group.settings /\ news \in 0..group.news
        /\ group.settings \in Nat /\ group.news \in Nat
    BY Bounds DEF RestInv
  <1>1. CASE UNCHANGED vars
    BY <1>0, <1>1, ClientKept DEF vars
  <1>2. CASE on_dbus_client_ready
    BY <1>2, SameSets DEF on_dbus_client_ready, RestInv
  <1>3. ASSUME NEW lost \in Losses, on_modem_property_change(lost)
        PROVE  RestInv'
    BY <1>3, RestReplaced
  <1>4. CASE Dispatch
    BY <1>4, RestDispatched
  <1>5. ASSUME NEW name \in group.setters, NEW s \in SlotsFor(name), NEW arg \in Arguments(name),
               Set(name, s, arg)
        PROVE  RestInv'
    <2>1. /\ group' = group /\ UNCHANGED clientVars /\ news' = news
          /\ settings < group.settings /\ settings' = settings + 1
          /\ spoilt' = spoilt \/ spoilt' = FALSE
      BY <1>5 DEF Set, SetFails, SetSends
    <2>2. settings' \in 0..group.settings
      BY <1>0, <2>1
    <2> QED
      BY <1>0, <2>1, <2>2, ClientKept
  <1>6. CASE Serving
    <2>1. ASSUME NEW o, OfonoReads(o)
          PROVE  RestInv'
      BY <1>0, <2>1, ClientKept DEF OfonoReads
    <2>2. ASSUME NEW c, OfonoWrites(c)
          PROVE  RestInv'
      BY <1>0, <2>2, ClientKept DEF OfonoWrites
    <2>3. ASSUME NEW c, OfonoRefuses(c)
          PROVE  RestInv'
      <3>1. /\ group' = group /\ UNCHANGED clientVars /\ news' = news /\ settings' = settings
            /\ spoilt' \in BOOLEAN
        BY <2>3 DEF OfonoRefuses
      <3> QED
        BY <1>0, <3>1, ClientKept
    <2> QED
      BY <1>6, <2>1, <2>2, <2>3 DEF Serving
  <1>7. ASSUME NEW c \in Cells, NEW v \in PropertyValues[c[2]], OfonoChanges(c, v)
        PROVE  RestInv'
    <2>1. /\ group' = group /\ UNCHANGED clientVars /\ settings' = settings
          /\ news < group.news /\ news' = news + 1 /\ spoilt' \in BOOLEAN
      BY <1>7 DEF OfonoChanges
    <2>2. news' \in 0..group.news
      BY <1>0, <2>1
    <2> QED
      BY <1>0, <2>1, <2>2, ClientKept
  <1> QED
    BY <1>1, <1>2, <1>3, <1>4, <1>5, <1>6, <1>7 DEF Next

LEMMA Invariance == Spec => [](IInv /\ RestInv)
  <1>1. Init => IInv /\ RestInv
    BY InitInv, RestInit
  <1>2. IInv /\ RestInv /\ [Next]_vars => IInv' /\ RestInv'
    BY Steps, RestSteps
  <1> QED
    BY <1>1, <1>2, PTL DEF Spec

\* Whatever the slots, the tables and the bounds, the variables have their types: what is
\* under way asks for something, and no copy is of a value oFono has not had.
THEOREM TypeCorrect == Spec => []TypeOK
  <1>1. IInv /\ RestInv => TypeOK
    <2> SUFFICES ASSUME IInv, RestInv
                 PROVE  TypeOK
      OBVIOUS
    <2>1. /\ history \in [Cells -> Seq(Values) \ {<<>>}] /\ gen \in Nat \ {0}
          /\ \A c \in Cells : Len(history[c]) \in Nat
      BY DEF IInv, Typed, Histories
    <2>2. \A c \in Cells : {cache[c], seen[c]} \subseteq 0..Len(history[c])
      <3>1. seen \in [Cells -> Nat]
        BY DEF IInv, Typed
      <3> QED
        BY <2>1, <3>1 DEF IInv, SeenInv, RestInv
    <2>3. ASSUME NEW i \in 1..Len(calls)
          PROVE  \/ /\ calls[i].call = "read" /\ calls[i].gen \in 1..gen
                    /\ calls[i].objects \in (SUBSET Objects) \ {{}}
                 \/ /\ calls[i].call = "write" /\ calls[i].value \in Values
                    /\ calls[i].cells \in (SUBSET Cells) \ {{}}
      <3>1. calls[i] \in Call
        BY DEF IInv, Typed
      <3> QED
        BY <3>1 DEF Call, Readable
    <2>4. ASSUME NEW i \in 1..Len(events)
          PROVE  events[i].gen \in 0..gen
      <3>1. events[i] \in Event
        BY DEF IInv, Typed
      <3> QED
        BY <3>1 DEF Event
    <2> QED
      BY <2>1, <2>2, <2>3, <2>4 DEF TypeOK, RestInv
  <1> QED
    BY <1>1, Invariance, PTL
-----------------------------------------------------------------------------
(* The news under way *)

\* The proxy of c has asked what c holds, and has no answer yet.
ReadPending(c) ==
    \E i \in 1..Len(calls) : /\ calls[i].call = "read" /\ calls[i].gen = proxy[Object(c)]
                             /\ Object(c) \in calls[i].objects

\* The event says of c what it holds.
Says(k, c) == c \in DOMAIN events[k].versions /\ events[k].versions[c] = Len(history[c])

NewsPending(c) ==
    \E k \in 1..Len(events) : events[k].gen \in {0, proxy[Object(c)]} /\ Says(k, c)

SignalPending(c) ==
    \E k \in 1..Len(events) : events[k].gen = 0 /\ c \in DOMAIN events[k].versions

\* The last signal of a cell says what it holds.
Signalled(c) ==
    SignalPending(c) => \E k \in 1..Len(events) : events[k].gen = 0 /\ Says(k, c)

\* A proxy knows what a cell holds, or it has asked, or it will be told; or nobody asks,
\* and it has not been told anything.
Current(c) ==
    proxy[Object(c)] # 0 =>
        \/ ReadPending(c) \/ NewsPending(c)
        \/ cache[c] = Len(history[c])
        \/ InterfaceOf[c[2]] \in Unread /\ cache[c] = 0 /\ ~SignalPending(c)

NewsInv == \A c \in Cells : Signalled(c) /\ Current(c)

\* What is left of the calls when the first has become a shorter one, or none.
LEMMA BehindFirst ==
    ASSUME NEW S, NEW q \in Seq(S), q # <<>>, NEW r \in Seq(S), Len(r) \in {0, 1},
           NEW t, t = r \o Tail(q)
    PROVE  /\ t \in Seq(S) /\ Len(q) \in Nat \ {0} /\ Len(t) = Len(r) + Len(q) - 1
           /\ \A k \in 1..Len(q) : k # 1 => /\ Len(r) + k - 1 \in 1..Len(t)
                                            /\ t[Len(r) + k - 1] = q[k]
           /\ \A k \in 1..Len(t) : k > Len(r) => /\ k - Len(r) + 1 \in 1..Len(q)
                                                 /\ k - Len(r) + 1 # 1
                                                 /\ t[k] = q[k - Len(r) + 1]
           /\ \A k \in 1..Len(t) : k <= Len(r) => k = 1 /\ t[k] = r[1]
           /\ Len(r) = 1 => 1 \in 1..Len(t) /\ t[1] = r[1]
  <1> DEFINE u == Tail(q)
  <1>1. /\ u \in Seq(S) /\ Len(u) = Len(q) - 1 /\ Len(q) \in Nat \ {0}
        /\ \A k \in 1..(Len(q) - 1) : u[k] = q[k + 1]
    BY TailAt
  <1> HIDE DEF u
  <1>2. /\ t \in Seq(S) /\ Len(t) = Len(r) + Len(u) /\ Len(u) \in Nat
        /\ \A k \in 1..Len(r) : t[k] = r[k]
        /\ \A k \in 1..Len(u) : t[Len(r) + k] = u[k]
    <2>1. t = r \o u
      BY DEF u
    <2> QED
      BY <1>1, <2>1, JoinAt
  <1>3. ASSUME NEW k \in 1..Len(q), k # 1
        PROVE  Len(r) + k - 1 \in 1..Len(t) /\ t[Len(r) + k - 1] = q[k]
    <2>1. k - 1 \in 1..Len(u) /\ k - 1 \in 1..(Len(q) - 1)
      BY <1>1, <1>3
    <2>2. u[k - 1] = q[k - 1 + 1] /\ k - 1 + 1 = k
      BY <1>1, <2>1
    <2>3. t[Len(r) + (k - 1)] = u[k - 1]
      BY <1>2, <2>1
    <2>4. Len(r) + (k - 1) = Len(r) + k - 1 /\ Len(r) + k - 1 \in 1..Len(t)
      BY <1>2, <2>1
    <2> QED
      BY <2>2, <2>3, <2>4
  <1>4. ASSUME NEW k \in 1..Len(t), k > Len(r)
        PROVE  /\ k - Len(r) + 1 \in 1..Len(q) /\ k - Len(r) + 1 # 1
               /\ t[k] = q[k - Len(r) + 1]
    <2>1. k - Len(r) \in 1..Len(u) /\ k - Len(r) \in 1..(Len(q) - 1)
          /\ Len(r) + (k - Len(r)) = k
      BY <1>1, <1>2, <1>4
    <2>2. t[Len(r) + (k - Len(r))] = u[k - Len(r)] /\ u[k - Len(r)] = q[(k - Len(r)) + 1]
      BY <1>1, <1>2, <2>1
    <2>3. k - Len(r) + 1 \in 1..Len(q) /\ k - Len(r) + 1 # 1
      BY <1>1, <2>1
    <2> QED
      BY <2>1, <2>2, <2>3
  <1>5. ASSUME NEW k \in 1..Len(t), k <= Len(r)
        PROVE  k = 1 /\ t[k] = r[1]
    <2>1. k = 1 /\ k \in 1..Len(r)
      BY <1>2, <1>5
    <2> QED
      BY <1>2, <2>1
  <1>6. ASSUME Len(r) = 1
        PROVE  1 \in 1..Len(t) /\ t[1] = r[1]
    BY <1>2, <1>6
  <1> QED
    BY <1>1, <1>2, <1>3, <1>4, <1>5, <1>6

LEMMA OneOf ==
    ASSUME NEW S, NEW d \in S
    PROVE  <<d>> \in Seq(S) /\ Len(<<d>>) = 1 /\ <<d>>[1] = d
  OBVIOUS

LEMMA NoneOf ==
    ASSUME NEW S
    PROVE  <<>> \in Seq(S) /\ Len(<<>>) = 0
  OBVIOUS

\* What an answer leaves of the first call, and what is left of a setting that has been
\* done or refused for c.
ReadLeft(o)  == Reads(Head(calls).objects \ {o}, Head(calls).gen)
WriteLeft(c) == IF Head(calls).cells = {c} THEN <<>>
                ELSE <<Write(Head(calls).cells \ {c}, Head(calls).value)>>

LEMMA ReadsLeft ==
    ASSUME IInv, NEW o, OfonoReads(o)
    PROVE  /\ calls # <<>> /\ calls' = ReadLeft(o) \o Tail(calls)
           /\ ReadLeft(o) \in Seq(Call) /\ Len(ReadLeft(o)) \in {0, 1}
           /\ Len(ReadLeft(o)) = 0 => Head(calls).objects = {o}
           /\ Len(ReadLeft(o)) = 1 =>
                 ReadLeft(o)[1] = Read(Head(calls).objects \ {o}, Head(calls).gen)
  <1> DEFINE c == Head(calls)
             rest == c.objects \ {o}
  <1>1. /\ calls # <<>> /\ c.call = "read" /\ o \in c.objects
        /\ calls' = Reads(rest, c.gen) \o Tail(calls)
    BY DEF OfonoReads
  <1>2. rest \subseteq Readable(Objects) /\ c.gen \in 1..gen
    BY <1>1, FirstCall
  <1>3. Reads(rest, c.gen) \in Seq(Call) /\ ReadLeft(o) = Reads(rest, c.gen)
    BY <1>2, ReadsTyped DEF ReadLeft
  <1>4. CASE rest = {}
    <2>1. Reads(rest, c.gen) = <<>>
      BY <1>4 DEF Reads
    <2>2. Len(Reads(rest, c.gen)) = 0
      BY <2>1
    <2>3. c.objects = {o}
      BY <1>1, <1>4
    <2>4. Len(ReadLeft(o)) = 0 /\ ReadLeft(o) \in Seq(Call)
      BY <1>3, <2>2
    <2>5. calls # <<>> /\ calls' = ReadLeft(o) \o Tail(calls)
      BY <1>1, <1>3
    <2> HIDE DEF c, rest
    <2> QED
      BY <2>3, <2>4, <2>5 DEF c
  <1>5. CASE rest # {}
    <2>1. Reads(rest, c.gen) = <<Read(rest, c.gen)>>
      BY <1>5 DEF Reads
    <2>2. Len(Reads(rest, c.gen)) = 1 /\ Reads(rest, c.gen)[1] = Read(rest, c.gen)
      BY <2>1
    <2>3. /\ Len(ReadLeft(o)) = 1 /\ ReadLeft(o) \in Seq(Call)
          /\ ReadLeft(o)[1] = Read(Head(calls).objects \ {o}, Head(calls).gen)
      BY <1>3, <2>2
    <2>4. calls # <<>> /\ calls' = ReadLeft(o) \o Tail(calls)
      BY <1>1, <1>3
    <2> HIDE DEF c, rest
    <2> QED
      BY <2>3, <2>4
  <1> QED
    BY <1>4, <1>5

LEMMA WritesLeft ==
    ASSUME IInv, calls # <<>>, NEW c, IsNext(Head(calls), c)
    PROVE  /\ Done(Head(calls), c) = WriteLeft(c) \o Tail(calls)
           /\ WriteLeft(c) \in Seq(Call) /\ Len(WriteLeft(c)) \in {0, 1}
           /\ Len(WriteLeft(c)) = 0 => Head(calls).cells = {c}
           /\ Len(WriteLeft(c)) = 1 =>
                 WriteLeft(c)[1] = Write(Head(calls).cells \ {c}, Head(calls).value)
  <1> DEFINE w == Head(calls)
  <1>1. w.call = "write" /\ c \in w.cells
    BY DEF IsNext
  <1>2. /\ w \in Call /\ Tail(calls) \in Seq(Call)
        /\ w.cells \subseteq Cells /\ w.value \in Values
        /\ \A x \in w.cells : w.value \in PropertyValues[x[2]]
    BY <1>1, FirstCall
  <1>3. WriteLeft(c) = IF w.cells = {c} THEN <<>> ELSE <<Write(w.cells \ {c}, w.value)>>
    BY DEF WriteLeft
  <1> HIDE DEF w
  <1>4. CASE w.cells = {c}
    <2>1. Done(w, c) = Tail(calls) /\ WriteLeft(c) = <<>>
      BY <1>3, <1>4 DEF Done, w
    <2>2. Tail(calls) = <<>> \o Tail(calls)
      BY <1>2
    <2>3. WriteLeft(c) \in Seq(Call) /\ Len(WriteLeft(c)) = 0
      BY <2>1, NoneOf
    <2>4. Done(Head(calls), c) = WriteLeft(c) \o Tail(calls) /\ Head(calls).cells = {c}
      BY <1>4, <2>1, <2>2 DEF w
    <2> QED
      BY <2>3, <2>4
  <1>5. CASE w.cells # {c}
    <2> DEFINE d == Write(w.cells \ {c}, w.value)
    <2>1. w.cells \ {c} \in (SUBSET Cells) \ {{}}
      BY <1>1, <1>2, <1>5
    <2>2. d \in Call
      BY <1>2, <2>1, WritesTyped
    <2>3. Done(w, c) = <<d>> \o Tail(calls) /\ WriteLeft(c) = <<d>>
      BY <1>3, <1>5 DEF Done, w
    <2>4. d = Write(Head(calls).cells \ {c}, Head(calls).value)
      BY DEF w
    <2> HIDE DEF d
    <2>5. WriteLeft(c) \in Seq(Call) /\ Len(WriteLeft(c)) = 1 /\ WriteLeft(c)[1] = d
      BY <2>2, <2>3, OneOf
    <2>6. Done(Head(calls), c) = WriteLeft(c) \o Tail(calls)
      BY <2>3 DEF w
    <2> QED
      BY <2>4, <2>5, <2>6
  <1> QED
    BY <1>4, <1>5

\* A call behind the first stays, and every call is one that was there.
LEMMA BehindStay ==
    ASSUME IInv, calls # <<>>, NEW r \in Seq(Call), Len(r) \in {0, 1},
           calls' = r \o Tail(calls)
    PROVE  /\ calls \in Seq(Call) /\ Head(calls) = calls[1] /\ Len(calls) \in Nat \ {0}
           /\ \A k \in 1..Len(calls) : k # 1 => /\ Len(r) + k - 1 \in 1..Len(calls')
                                                /\ calls'[Len(r) + k - 1] = calls[k]
           /\ \A k \in 1..Len(calls') : k > Len(r) => /\ k - Len(r) + 1 \in 1..Len(calls)
                                                      /\ k - Len(r) + 1 # 1
                                                      /\ calls'[k] = calls[k - Len(r) + 1]
           /\ \A k \in 1..Len(calls') : k <= Len(r) => k = 1 /\ calls'[k] = r[1]
           /\ Len(r) = 1 => 1 \in 1..Len(calls') /\ calls'[1] = r[1]
  <1> DEFINE t == calls'
  <1>1. calls \in Seq(Call) /\ Head(calls) = calls[1] /\ Len(calls) \in Nat \ {0}
    BY FirstCall, TailAt
  <1>2. t = r \o Tail(calls)
    OBVIOUS
  <1> HIDE DEF t
  <1>3. /\ \A k \in 1..Len(calls) : k # 1 => /\ Len(r) + k - 1 \in 1..Len(t)
                                             /\ t[Len(r) + k - 1] = calls[k]
        /\ \A k \in 1..Len(t) : k > Len(r) => /\ k - Len(r) + 1 \in 1..Len(calls)
                                              /\ k - Len(r) + 1 # 1
                                              /\ t[k] = calls[k - Len(r) + 1]
        /\ \A k \in 1..Len(t) : k <= Len(r) => k = 1 /\ t[k] = r[1]
        /\ Len(r) = 1 => 1 \in 1..Len(t) /\ t[1] = r[1]
    BY <1>1, <1>2, BehindFirst
  <1> QED
    BY <1>1, <1>3 DEF t

\* A read behind a write stays where it was.
LEMMA ReadsStay ==
    ASSUME IInv, calls # <<>>, NEW c, IsNext(Head(calls), c),
           calls' = Done(Head(calls), c), proxy' = proxy, NEW x, ReadPending(x)
    PROVE  ReadPending(x)'
  <1> DEFINE r == WriteLeft(c)
  <1>1. r \in Seq(Call) /\ calls' = r \o Tail(calls) /\ Len(r) \in {0, 1}
    BY WritesLeft
  <1> HIDE DEF r
  <1>2. PICK i \in 1..Len(calls) : /\ calls[i].call = "read"
                                   /\ calls[i].gen = proxy[Object(x)]
                                   /\ Object(x) \in calls[i].objects
    BY DEF ReadPending
  <1>3. i # 1
    BY <1>1, <1>2, BehindStay DEF IsNext
  <1>4. Len(r) + i - 1 \in 1..Len(calls') /\ calls'[Len(r) + i - 1] = calls[i]
    BY <1>1, <1>3, BehindStay
  <1> QED
    BY <1>2, <1>4 DEF ReadPending, Object

\* The steps that say and show nothing.
LEMMA NoNews ==
    ASSUME NewsInv, group' = group,
           UNCHANGED <<proxy, cache, history, events>>,
           \A c \in Cells : ReadPending(c) => ReadPending(c)'
    PROVE  NewsInv'
  <1>1. Cells' = Cells
    BY SameSets
  <1>2. ASSUME NEW c \in Cells
        PROVE  /\ SignalPending(c)' <=> SignalPending(c)
               /\ NewsPending(c)' <=> NewsPending(c)
               /\ Signalled(c)' <=> Signalled(c)
    BY DEF SignalPending, NewsPending, Signalled, Says, Object
  <1>3. ASSUME NEW c \in Cells
        PROVE  Current(c)'
    BY <1>2 DEF NewsInv, Current, Object
  <1> QED
    BY <1>1, <1>2, <1>3 DEF NewsInv

LEMMA CallsAdded ==
    ASSUME IInv, NEW more, NEW S, calls \in Seq(S), more \in Seq(S), calls' = calls \o more,
           NEW c, proxy'[Object(c)] = proxy[Object(c)], ReadPending(c)
    PROVE  ReadPending(c)'
  <1>1. PICK i \in 1..Len(calls) : /\ calls[i].call = "read"
                                   /\ calls[i].gen = proxy[Object(c)]
                                   /\ Object(c) \in calls[i].objects
    BY DEF ReadPending
  <1>2. i \in 1..Len(calls') /\ calls'[i] = calls[i]
    BY JoinAt
  <1> QED
    BY <1>1, <1>2 DEF ReadPending, Object
LEMMA CallAppended ==
    ASSUME NEW S, calls \in Seq(S), NEW d \in S, calls' = Append(calls, d),
           proxy' = proxy, NEW c, ReadPending(c)
    PROVE  ReadPending(c)'
  <1>1. PICK i \in 1..Len(calls) : /\ calls[i].call = "read"
                                   /\ calls[i].gen = proxy[Object(c)]
                                   /\ Object(c) \in calls[i].objects
    BY DEF ReadPending
  <1>2. i \in 1..Len(calls') /\ calls'[i] = calls[i]
    <2> DEFINE q == calls
    <2>1. Append(q, d)[i] = q[i] /\ Len(Append(q, d)) = Len(q) + 1 /\ Len(q) \in Nat
      BY AppendAt
    <2> QED
      BY <2>1
  <1> QED
    BY <1>1, <1>2 DEF ReadPending, Object

\* What one more event changes for the cells that keep their value, and what it says.
LEMMA OneMore ==
    ASSUME IInv, NEW e \in Event, events' = Append(events, e), proxy' = proxy,
           NEW c, history'[c] = history[c]
    PROVE  /\ NewsPending(c) => NewsPending(c)'
           /\ SignalPending(c)' => SignalPending(c) \/ (e.gen = 0 /\ c \in DOMAIN e.versions)
           /\ (\E k \in 1..Len(events) : events[k].gen = 0 /\ Says(k, c))
                 => (\E k \in 1..Len(events) : events[k].gen = 0 /\ Says(k, c))'
  <1>1. events \in Seq(Event)
    BY DEF IInv, Typed
  <1>2. /\ Len(events') = Len(events) + 1 /\ Len(events) \in Nat
        /\ events'[Len(events) + 1] = e
        /\ \A k \in 1..Len(events) : events'[k] = events[k] /\ k \in 1..Len(events')
        /\ \A k \in 1..Len(events') : k \in 1..Len(events) \/ k = Len(events) + 1
    BY <1>1, AppendAt
  <1>3. ASSUME NEW k \in 1..Len(events)
        PROVE  /\ k \in 1..Len(events') /\ events'[k] = events[k]
               /\ Says(k, c)' <=> Says(k, c)
    BY <1>2 DEF Says
  <1>4. NewsPending(c) => NewsPending(c)'
    BY <1>3 DEF NewsPending, Object
  <1>5. SignalPending(c)' => SignalPending(c) \/ (e.gen = 0 /\ c \in DOMAIN e.versions)
    BY <1>2 DEF SignalPending
  <1>6. (\E k \in 1..Len(events) : events[k].gen = 0 /\ Says(k, c))
           => (\E k \in 1..Len(events) : events[k].gen = 0 /\ Says(k, c))'
    BY <1>3
  <1> QED
    BY <1>4, <1>5, <1>6

LEMMA LastSays ==
    ASSUME IInv, NEW e \in Event, events' = Append(events, e), proxy' = proxy, NEW c,
           c \in DOMAIN e.versions, e.versions[c] = Len(history'[c]),
           e.gen \in {0, proxy[Object(c)]}
    PROVE  /\ NewsPending(c)'
           /\ e.gen = 0 => (\E k \in 1..Len(events) : events[k].gen = 0 /\ Says(k, c))'
  <1>1. events \in Seq(Event)
    BY DEF IInv, Typed
  <1>2. PICK k \in 1..Len(events') : events'[k] = e
    <2>1. /\ Len(events') = Len(events) + 1 /\ Len(events) \in Nat
          /\ events'[Len(events) + 1] = e
      BY <1>1, AppendAt
    <2> QED
      BY <2>1
  <1>3. Says(k, c)'
    BY <1>2 DEF Says
  <1> QED
    BY <1>2, <1>3 DEF NewsPending, Object

LEMMA NewsInit == Init => NewsInv
  <1> SUFFICES ASSUME Init, NEW c \in Cells
               PROVE  Signalled(c) /\ Current(c)
    BY DEF NewsInv
  <1>1. /\ proxy = [o \in Objects |-> 1] /\ cache = [x \in Cells |-> 0] /\ events = <<>>
        /\ calls = Reads(Readable(Objects), 1)
    BY DEF Init
  <1>2. Object(c) \in Objects /\ Object(c)[2] = InterfaceOf[c[2]]
    BY DEF Objects, Object
  <1>3. ~SignalPending(c)
    BY <1>1 DEF SignalPending
  <1>4. CASE InterfaceOf[c[2]] \in Unread
    BY <1>1, <1>3, <1>4 DEF Signalled, Current
  <1>5. CASE InterfaceOf[c[2]] \notin Unread
    <2>1. Object(c) \in Readable(Objects) /\ proxy[Object(c)] = 1
      BY <1>1, <1>2, <1>5 DEF Readable
    <2>2. calls = <<Read(Readable(Objects), 1)>>
      BY <1>1, <2>1 DEF Reads
    <2>3. Len(calls) = 1 /\ calls[1] = Read(Readable(Objects), 1)
      BY <2>2
    <2>4. calls[1].call = "read" /\ calls[1].gen = 1 /\ calls[1].objects = Readable(Objects)
      BY <2>3 DEF Read
    <2>5. ReadPending(c)
      BY <2>1, <2>3, <2>4 DEF ReadPending
    <2> QED
      BY <1>3, <2>5 DEF Signalled, Current
  <1> QED
    BY <1>4, <1>5

\* The property changes, if it does, and every question that was asked is still asked.
LEMMA NewsOfChange ==
    ASSUME IInv, NewsInv, NEW c \in Cells, NEW v \in PropertyValues[c[2]], Change(c, v),
           UNCHANGED <<group, gen, proxy, cache>>,
           \A x \in Cells : ReadPending(x) => ReadPending(x)'
    PROVE  NewsInv'
  <1>0. Cells' = Cells
    BY SameSets
  <1>1. CASE Held(c) = v
    BY <1>1, NoNews DEF Change
  <1>2. CASE Held(c) # v
    <2> DEFINE n == Len(history[c]) + 1
               e == Changed(c, n)
    <2>1. history' = [history EXCEPT ![c] = Append(@, v)] /\ events' = Append(events, e)
      BY <1>2 DEF Change
    <2>2. /\ Len(history'[c]) = n /\ n \in Nat
          /\ \A x \in Cells \ {c} : history'[x] = history[x]
      BY <2>1, HistoryGrows
    <2>3. /\ e.versions = [x \in {c} |-> n] /\ e.gen = 0
          /\ e = [gen |-> 0, versions |-> [x \in {c} |-> n]]
      BY DEF Changed
    <2>4. e \in Event
      <3>1. {c} \in SUBSET Cells /\ [x \in {c} |-> n] \in [{c} -> Nat]
        BY <2>2
      <3>2. [x \in {c} |-> n] \in Versions
        BY <3>1 DEF Versions
      <3>3. 0 \in 0..gen
        BY DEF IInv, Typed
      <3> HIDE DEF e, n
      <3> QED
        BY <2>3, <3>2, <3>3 DEF Event
    <2>5. c \in DOMAIN e.versions /\ e.versions[c] = n /\ DOMAIN e.versions = {c}
      BY <2>3
    <2> HIDE DEF e, n
    <2>6. Signalled(c)' /\ Current(c)'
      <3>1. NewsPending(c)' /\ (\E k \in 1..Len(events) : events[k].gen = 0 /\ Says(k, c))'
        BY <2>1, <2>2, <2>3, <2>4, <2>5, LastSays
      <3> QED
        BY <3>1 DEF Signalled, Current
    <2>7. ASSUME NEW x \in Cells \ {c}
          PROVE  Signalled(x)' /\ Current(x)'
      <3>1. /\ NewsPending(x) => NewsPending(x)'
            /\ SignalPending(x)' => SignalPending(x)
            /\ (\E k \in 1..Len(events) : events[k].gen = 0 /\ Says(k, x))
                  => (\E k \in 1..Len(events) : events[k].gen = 0 /\ Says(k, x))'
        <4>1. history'[x] = history[x] /\ x \notin DOMAIN e.versions
          BY <2>2, <2>5
        <4> QED
          BY <2>1, <2>4, <4>1, OneMore
      <3>2. Signalled(x)'
        BY <3>1 DEF NewsInv, Signalled
      <3>3. Current(x)'
        BY <2>2, <3>1 DEF NewsInv, Current, Object
      <3> QED
        BY <3>2, <3>3
    <2> QED
      BY <1>0, <2>6, <2>7 DEF NewsInv
  <1> QED
    BY <1>1, <1>2

LEMMA NewsOfRead ==
    ASSUME IInv, RestInv, NewsInv, NEW o, OfonoReads(o)
    PROVE  NewsInv'
  <1> DEFINE d == Head(calls)
             e == Properties(o, d.gen)
             r == ReadLeft(o)
  <1>1. /\ calls # <<>> /\ d.call = "read" /\ o \in d.objects /\ events' = Append(events, e)
        /\ UNCHANGED <<group, proxy, cache, history>>
    BY DEF OfonoReads, clientVars, ofonoVars
  <1>2. /\ calls' = r \o Tail(calls) /\ r \in Seq(Call) /\ Len(r) \in {0, 1}
        /\ Len(r) = 0 => d.objects = {o}
        /\ Len(r) = 1 => r[1] = Read(d.objects \ {o}, d.gen)
    BY ReadsLeft
  <1>3. Cells' = Cells
    BY <1>1, SameSets
  <1>4. /\ e.versions = [x \in CellsOf(o) |-> Len(history[x])] /\ e.gen = d.gen
        /\ d.gen \in 1..gen /\ gen \in Nat
    BY <1>1, FirstCall DEF Properties, IInv, Typed
  <1>5. e \in Event
    <2>1. events' \in Seq(Event) /\ events \in Seq(Event)
      <3>1. IInv'
        BY ReadsAnswered
      <3>2. group' = group /\ gen' = gen
        BY DEF OfonoReads, clientVars
      <3> QED
        BY <3>1, <3>2, SameSets DEF IInv, Typed
    <2> HIDE DEF e
    <2>2. events'[Len(events) + 1] = e /\ Len(events) + 1 \in 1..Len(events')
      BY <1>1, <2>1
    <2> QED
      BY <2>1, <2>2
  <1> HIDE DEF d, e, r
  <1>6. ASSUME NEW c \in Cells
        PROVE  Signalled(c)' /\ Current(c)'
    <2>1. /\ NewsPending(c) => NewsPending(c)'
          /\ SignalPending(c)' => SignalPending(c)
          /\ (\E k \in 1..Len(events) : events[k].gen = 0 /\ Says(k, c))
                => (\E k \in 1..Len(events) : events[k].gen = 0 /\ Says(k, c))'
      <3>1. e.gen # 0 /\ history'[c] = history[c]
        BY <1>1, <1>4
      <3> QED
        BY <1>1, <1>5, <3>1, OneMore
    <2>2. Signalled(c)'
      BY <2>1 DEF NewsInv, Signalled
    <2>3. ReadPending(c) => ReadPending(c)' \/ NewsPending(c)'
      <3> SUFFICES ASSUME ReadPending(c)
                   PROVE  ReadPending(c)' \/ NewsPending(c)'
        OBVIOUS
      <3>1. PICK i \in 1..Len(calls) : /\ calls[i].call = "read"
                                       /\ calls[i].gen = proxy[Object(c)]
                                       /\ Object(c) \in calls[i].objects
        BY DEF ReadPending
      <3>2. CASE i # 1
        <4>1. Len(r) + i - 1 \in 1..Len(calls') /\ calls'[Len(r) + i - 1] = calls[i]
          BY <1>1, <1>2, <3>2, BehindStay
        <4> QED
          BY <1>1, <3>1, <4>1 DEF ReadPending, Object
      <3>3. CASE i = 1 /\ Object(c) = o
        <4>1. d = calls[1]
          BY <1>1, <1>2, BehindStay DEF d
        <4>2. /\ e.gen = proxy[Object(c)] /\ c \in DOMAIN e.versions
              /\ e.versions[c] = Len(history'[c])
          BY <1>1, <1>4, <3>1, <3>3, <4>1 DEF CellsOf
        <4> QED
          BY <1>1, <1>5, <4>2, LastSays
      <3>4. CASE i = 1 /\ Object(c) # o
        <4>1. d = calls[1]
          BY <1>1, <1>2, BehindStay DEF d
        <4>2. Object(c) \in d.objects \ {o} /\ d.gen = proxy[Object(c)]
          BY <3>1, <3>4, <4>1
        <4>3. Len(r) = 1
          BY <1>2, <4>2
        <4>4. 1 \in 1..Len(calls') /\ calls'[1] = Read(d.objects \ {o}, d.gen)
          BY <1>1, <1>2, <4>3, BehindStay
        <4>5. /\ calls'[1].call = "read" /\ calls'[1].gen = d.gen
              /\ calls'[1].objects = d.objects \ {o}
          BY <4>4 DEF Read
        <4> QED
          BY <1>1, <4>2, <4>4, <4>5 DEF ReadPending, Object
      <3> QED
        BY <3>2, <3>3, <3>4
    <2>4. Current(c)'
      BY <1>1, <2>1, <2>3 DEF NewsInv, Current, Object
    <2> QED
      BY <2>2, <2>4
  <1> QED
    BY <1>3, <1>6 DEF NewsInv

LEMMA NewsOfReplacement ==
    ASSUME IInv, RestInv, NewsInv, NEW lost, on_modem_property_change(lost)
    PROVE  NewsInv'
  <1> DEFINE objects == Readable(Mutable \ lost)
             more == Reads(objects, gen + 1)
  <1>1. /\ calls \in Seq(Call') /\ more \in Seq(Call') /\ calls' = calls \o more
        /\ group' = group /\ gen \in Nat \ {0} /\ UNCHANGED <<history, events>>
    BY ReplacedReads
  <1>2. /\ proxy' = [o \in Objects |-> IF o \notin Mutable THEN proxy[o]
                                       ELSE IF o \in lost THEN 0 ELSE gen + 1]
        /\ cache' = [c \in Cells |-> IF Object(c) \in Mutable THEN 0 ELSE cache[c]]
    BY DEF on_modem_property_change
  <1>3. Cells' = Cells
    BY <1>1, SameSets
  <1>4. ASSUME NEW c \in Cells
        PROVE  Signalled(c)' /\ Current(c)'
    <2>1. Object(c) \in Objects /\ Object(c)[2] = InterfaceOf[c[2]] /\ Object(c)' = Object(c)
      BY DEF Objects, Object
    <2>2. /\ \A k : Says(k, c)' <=> Says(k, c)
          /\ SignalPending(c)' <=> SignalPending(c)
      BY <1>1 DEF Says, SignalPending
    <2>3. Signalled(c)'
      BY <1>1, <2>2 DEF NewsInv, Signalled
    <2>4. CASE Object(c) \notin Mutable
      <3>1. proxy'[Object(c)] = proxy[Object(c)] /\ cache'[c] = cache[c]
        BY <1>2, <2>1, <2>4
      <3>2. NewsPending(c) => NewsPending(c)'
        BY <1>1, <2>1, <2>2, <3>1 DEF NewsPending
      <3>3. ReadPending(c) => ReadPending(c)'
        BY <1>1, <2>1, <3>1, CallsAdded
      <3> QED
        BY <1>1, <2>1, <2>2, <2>3, <3>1, <3>2, <3>3 DEF NewsInv, Current
    <2>5. CASE Object(c) \in Mutable /\ Object(c) \in lost
      <3>1. proxy'[Object(c)] = 0
        BY <1>2, <2>1, <2>5
      <3> QED
        BY <2>1, <2>3, <3>1 DEF Current
    <2>6. CASE Object(c) \in Mutable /\ Object(c) \notin lost /\ InterfaceOf[c[2]] \in Unread
      <3>1. cache'[c] = 0
        BY <1>2, <2>6
      <3>2. CASE SignalPending(c)
        <4>1. PICK k \in 1..Len(events) : events[k].gen = 0 /\ Says(k, c)
          BY <3>2 DEF NewsInv, Signalled
        <4>2. NewsPending(c)'
          BY <1>1, <2>2, <4>1 DEF NewsPending
        <4> QED
          BY <2>3, <4>2 DEF Current
      <3>3. CASE ~SignalPending(c)
        BY <2>2, <2>3, <2>6, <3>1, <3>3 DEF Current
      <3> QED
        BY <3>2, <3>3
    <2>7. CASE Object(c) \in Mutable /\ Object(c) \notin lost /\ InterfaceOf[c[2]] \notin Unread
      <3>1. Object(c) \in objects /\ proxy'[Object(c)] = gen + 1
        BY <1>2, <2>1, <2>7 DEF Readable
      <3>2. more = <<Read(objects, gen + 1)>>
        BY <3>1 DEF Reads
      <3>3. Len(more) = 1 /\ more[1] = Read(objects, gen + 1)
        BY <3>2
      <3> HIDE DEF more, objects
      <3>4. /\ Len(calls) + 1 \in 1..Len(calls')
            /\ calls'[Len(calls) + 1] = Read(objects, gen + 1)
        <4>1. /\ Len(calls \o more) = Len(calls) + Len(more) /\ Len(calls) \in Nat
              /\ \A k \in 1..Len(more) : (calls \o more)[Len(calls) + k] = more[k]
          BY <1>1, JoinAt
        <4> QED
          BY <1>1, <3>3, <4>1
      <3>5. /\ calls'[Len(calls) + 1].call = "read" /\ calls'[Len(calls) + 1].gen = gen + 1
            /\ calls'[Len(calls) + 1].objects = objects
        BY <3>4 DEF Read
      <3>6. ReadPending(c)'
        BY <2>1, <3>1, <3>4, <3>5 DEF ReadPending
      <3> QED
        BY <2>3, <3>6 DEF Current
    <2> QED
      BY <2>4, <2>5, <2>6, <2>7
  <1> QED
    BY <1>3, <1>4 DEF NewsInv
LEMMA NewsOfDispatch ==
    ASSUME IInv, RestInv, NewsInv, Dispatch
    PROVE  NewsInv'
  <1> DEFINE e == Head(events)
  <1>1. /\ events # <<>> /\ events' = Tail(events)
        /\ UNCHANGED <<group, proxy, history, calls>>
        /\ cache' = [c \in Cells |-> IF Accepts(e, c) THEN e.versions[c] ELSE cache[c]]
    BY DEF Dispatch, ofonoVars
  <1>2. Cells' = Cells
    BY <1>1, SameSets
  <1>3. /\ events \in Seq(Event) /\ e = events[1] /\ e \in Event
        /\ Len(events') = Len(events) - 1 /\ Len(events) \in Nat \ {0}
        /\ \A k \in 1..(Len(events) - 1) : events'[k] = events[k + 1]
    BY <1>1, TailAt DEF IInv, Typed
  <1>4. ASSUME NEW k \in 1..Len(events), k # 1
        PROVE  k - 1 \in 1..Len(events') /\ events'[k - 1] = events[k]
    <2>1. k - 1 \in 1..(Len(events) - 1) /\ k - 1 + 1 = k
      BY <1>3, <1>4
    <2> QED
      BY <1>3, <2>1
  <1>5. ASSUME NEW k \in 1..Len(events')
        PROVE  k + 1 \in 1..Len(events) /\ 1 < k + 1 /\ events'[k] = events[k + 1]
    BY <1>3
  <1>6. ASSUME NEW c \in Cells
        PROVE  Signalled(c)' /\ Current(c)'
    <2>1. /\ Len(history[c]) \in Nat /\ cache[c] \in Nat /\ seen[c] \in Nat
          /\ cache[c] <= seen[c] /\ seen[c] <= Len(history[c])
          /\ c \in DOMAIN e.versions =>
                 /\ e.versions[c] \in Nat
                 /\ seen[c] <= e.versions[c] /\ e.versions[c] <= Len(history[c])
      BY <1>1, HeadSays
    <2> HIDE DEF e
    <2>2. SignalPending(c)' => SignalPending(c)
      BY <1>5 DEF SignalPending
    <2>3. Signalled(c)'
      <3> SUFFICES ASSUME NEW l \in 1..Len(events'),
                          events'[l].gen = 0, c \in DOMAIN events'[l].versions
                   PROVE  \E k \in 1..Len(events') : events'[k].gen = 0 /\ Says(k, c)'
        BY DEF Signalled, SignalPending
      <3>1. /\ l + 1 \in 1..Len(events) /\ 1 < l + 1 /\ events'[l] = events[l + 1]
            /\ events[l + 1].gen = 0 /\ c \in DOMAIN events[l + 1].versions
        BY <1>5
      <3>2. SignalPending(c)
        BY <3>1 DEF SignalPending
      <3>3. PICK k \in 1..Len(events) : events[k].gen = 0 /\ Says(k, c)
        BY <3>2 DEF NewsInv, Signalled
      <3>4. CASE k # 1
        <4>1. PICK m \in 1..Len(events') : events'[m] = events[k]
          BY <1>4, <3>4
        <4> QED
          BY <1>1, <3>3, <4>1 DEF Says
      <3>5. CASE k = 1
        <4>1. /\ c \in DOMAIN events[1].versions
              /\ events[1].versions[c] = Len(history[c])
              /\ 1 \in 1..Len(events)
          BY <3>3, <3>5 DEF Says
        <4>2. events[1].versions[c] <= events[l + 1].versions[c]
          BY <3>1, <4>1 DEF IInv, OrderInv
        <4>3. events[l + 1].versions[c] <= Len(history[c])
          BY <3>1 DEF IInv, SaidInv
        <4>4. events[l + 1].versions[c] \in Nat
          <5>1. events[l + 1] \in Event
            BY <1>3, <3>1
          <5> QED
            BY <3>1, <5>1 DEF Event, Versions
        <4>5. events'[l].versions[c] = Len(history[c])
          BY <2>1, <3>1, <4>1, <4>2, <4>3, <4>4
        <4>6. Says(l, c)'
          BY <1>1, <3>1, <4>5 DEF Says
        <4> QED
          BY <4>6
      <3> QED
        BY <3>4, <3>5
    <2>4. ReadPending(c) => ReadPending(c)'
      BY <1>1 DEF ReadPending, Object
    <2>5. ASSUME proxy[Object(c)] # 0, NewsPending(c)
          PROVE  NewsPending(c)' \/ cache'[c] = Len(history[c])
      <3>1. PICK k \in 1..Len(events) : events[k].gen \in {0, proxy[Object(c)]} /\ Says(k, c)
        BY <2>5 DEF NewsPending
      <3>2. CASE k # 1
        <4>1. PICK m \in 1..Len(events') : events'[m] = events[k]
          BY <1>4, <3>2
        <4>2. Says(m, c)' /\ events'[m].gen \in {0, proxy'[Object(c)]}
          BY <1>1, <3>1, <4>1 DEF Says
        <4> QED
          BY <4>2 DEF NewsPending, Object
      <3>3. CASE k = 1
        <4>1. Accepts(e, c) /\ e.versions[c] = Len(history[c])
          BY <1>3, <2>5, <3>1, <3>3 DEF Accepts, Says
        <4> QED
          BY <1>1, <4>1
      <3> QED
        BY <3>2, <3>3
    <2>6. cache[c] = Len(history[c]) => cache'[c] = Len(history[c])
      BY <1>1, <2>1 DEF Accepts
    <2>7. ASSUME InterfaceOf[c[2]] \in Unread, cache[c] = 0, ~SignalPending(c)
          PROVE  cache'[c] = 0 /\ ~SignalPending(c)'
      <3>1. ~Accepts(e, c)
        <4> SUFFICES ASSUME Accepts(e, c)
                     PROVE  FALSE
          OBVIOUS
        <4>1. c \in DOMAIN e.versions
          BY DEF Accepts
        <4>2. e.gen = 0
          BY <1>3, <2>7, <4>1 DEF Event
        <4> QED
          BY <1>3, <2>7, <4>1, <4>2 DEF SignalPending
      <3> QED
        BY <1>1, <2>2, <2>7, <3>1
    <2>8. Current(c)'
      <3> SUFFICES ASSUME proxy[Object(c)] # 0
                   PROVE  \/ ReadPending(c)' \/ NewsPending(c)'
                          \/ cache'[c] = Len(history[c])
                          \/ InterfaceOf[c[2]] \in Unread /\ cache'[c] = 0 /\ ~SignalPending(c)'
        BY <1>1 DEF Current, Object
      <3> QED
        BY <2>4, <2>5, <2>6, <2>7 DEF NewsInv, Current
    <2> QED
      BY <2>3, <2>8
  <1> QED
    BY <1>2, <1>6 DEF NewsInv

LEMMA NewsSteps == IInv /\ RestInv /\ NewsInv /\ [Next]_vars => NewsInv'
  <1> SUFFICES ASSUME IInv, RestInv, NewsInv, [Next]_vars
               PROVE  NewsInv'
    OBVIOUS
  <1> USE DEF clientVars, ofonoVars
  <1>0. calls' = calls /\ proxy' = proxy => \A c \in Cells : ReadPending(c) => ReadPending(c)'
    BY DEF ReadPending, Object
  <1>1. CASE UNCHANGED vars
    BY <1>0, <1>1, NoNews DEF vars
  <1>2. CASE on_dbus_client_ready
    BY <1>0, <1>2, NoNews DEF on_dbus_client_ready
  <1>3. ASSUME NEW lost \in Losses, on_modem_property_change(lost)
        PROVE  NewsInv'
    BY <1>3, NewsOfReplacement
  <1>4. CASE Dispatch
    BY <1>4, NewsOfDispatch
  <1>5. ASSUME NEW name \in group.setters, NEW s \in SlotsFor(name), NEW arg \in Arguments(name),
               Set(name, s, arg)
        PROVE  NewsInv'
    <2>1. group' = group /\ UNCHANGED <<proxy, cache, history, events>>
      BY <1>5 DEF Set, SetFails, SetSends
    <2>2. CASE calls' = calls
      BY <1>0, <2>1, <2>2, NoNews
    <2>3. ASSUME NEW d, calls' = Append(calls, d)
          PROVE  NewsInv'
      <3>1. calls \in Seq(Call \cup {d}) /\ d \in Call \cup {d}
        BY SeqOfMore DEF IInv, Typed
      <3>2. \A c \in Cells : ReadPending(c) => ReadPending(c)'
        BY <2>1, <2>3, <3>1, CallAppended
      <3> QED
        BY <2>1, <3>2, NoNews
    <2> QED
      BY <1>5, <2>2, <2>3 DEF Set, SetFails, SetSends, Sent
  <1>6. CASE Serving
    <2>1. ASSUME NEW o, OfonoReads(o)
          PROVE  NewsInv'
      BY <2>1, NewsOfRead
    <2>2. ASSUME NEW c, OfonoWrites(c)
          PROVE  NewsInv'
      <3>1. /\ calls # <<>> /\ IsNext(Head(calls), c) /\ calls' = Done(Head(calls), c)
            /\ Change(c, Head(calls).value) /\ UNCHANGED <<group, gen, proxy, cache>>
        BY <2>2 DEF OfonoWrites
      <3>2. c \in Cells /\ Head(calls).value \in PropertyValues[c[2]]
        BY <3>1, CallsDone
      <3>3. \A x \in Cells : ReadPending(x) => ReadPending(x)'
        BY <3>1, ReadsStay
      <3> QED
        BY <3>1, <3>2, <3>3, NewsOfChange
    <2>3. ASSUME NEW c, OfonoRefuses(c)
          PROVE  NewsInv'
      <3>1. /\ calls # <<>> /\ IsNext(Head(calls), c) /\ calls' = Done(Head(calls), c)
            /\ UNCHANGED <<group, proxy, cache, history, events>>
        BY <2>3 DEF OfonoRefuses
      <3>2. \A x \in Cells : ReadPending(x) => ReadPending(x)'
        BY <3>1, ReadsStay
      <3> QED
        BY <3>1, <3>2, NoNews
    <2> QED
      BY <1>6, <2>1, <2>2, <2>3 DEF Serving
  <1>7. ASSUME NEW c \in Cells, NEW v \in PropertyValues[c[2]], OfonoChanges(c, v)
        PROVE  NewsInv'
    BY <1>0, <1>7, NewsOfChange DEF OfonoChanges
  <1> QED
    BY <1>1, <1>2, <1>3, <1>4, <1>5, <1>6, <1>7 DEF Next

\* When nothing is under way, a proxy has what the cell holds.
LEMMA Settled ==
    ASSUME IInv, RestInv, NewsInv, Quiet, NEW c \in Cells, Known(c)
    PROVE  Cached(c) = Held(c) /\ Held(c) \in PropertyValues[c[2]]
  <1>1. /\ history[c] \in Seq(Values) /\ history[c] # <<>>
        /\ \A k \in 1..Len(history[c]) : history[c][k] \in PropertyValues[c[2]]
    BY DEF IInv, Typed, Histories
  <1>2. Len(history[c]) \in Nat \ {0}
    BY <1>1
  <1>3. ~ReadPending(c) /\ ~NewsPending(c)
    BY DEF Quiet, ReadPending, NewsPending
  <1>4. cache[c] = Len(history[c])
    BY <1>3 DEF NewsInv, Current, Known
  <1> QED
    BY <1>1, <1>2, <1>4 DEF Cached, Held, Last
LEMMA NewsInvariance == Spec => [](IInv /\ RestInv /\ NewsInv)
  <1>1. Init => IInv /\ RestInv /\ NewsInv
    BY InitInv, RestInit, NewsInit
  <1>2. IInv /\ RestInv /\ NewsInv /\ [Next]_vars => IInv' /\ RestInv' /\ NewsInv'
    BY Steps, RestSteps, NewsSteps
  <1> QED
    BY <1>1, <1>2, PTL DEF Spec

-----------------------------------------------------------------------------
(* Getters *)

\* Every getter is of cells there are.
LEMMA GetterCells ==
    ASSUME group \in Groups, NEW g \in group.getters, NEW s \in Slots
    PROVE  /\ Len(Getters[g].of) \in Nat \ {0} /\ 1 \in 1..Len(Getters[g].of)
           /\ Len(Getters[g].of) \in 1..Len(Getters[g].of)
           /\ \A k \in 1..Len(Getters[g].of) : <<Target(g, s), Getters[g].of[k]>> \in Cells
  <1> DEFINE of == Getters[g].of
             t == Target(g, s)
  <1>1. /\ of \in Seq(group.props) /\ of # <<>>
        /\ \A k \in 1..Len(of) : Getters[g].where = "manager" <=> InterfaceOf[of[k]] = "Manager"
    BY GetterAssumption
  <1>2. Len(of) \in Nat \ {0}
    BY <1>1
  <1>3. ModemCount \in Nat \ {0}
    BY PropertyAssumption
  <1>4. t \in 0..ModemCount /\ (t = Manager <=> Getters[g].where = "manager")
    BY <1>3 DEF Target, Slots, Manager, DEFAULT_SLOT_ID
  <1>5. ASSUME NEW k \in 1..Len(of)
        PROVE  <<t, of[k]>> \in Cells
    <2>1. of[k] \in group.props
      BY <1>1
    <2> HIDE DEF of, t
    <2> QED
      BY <1>1, <1>4, <1>5, <2>1 DEF Cells
  <1> QED
    BY <1>2, <1>5

\* What a getter finds in the properties when it knows them all.
LEMMA Found ==
    ASSUME IInv, RestInv, NewsInv, Quiet, NEW g \in group.getters, NEW s \in Slots,
           \A k \in 1..Len(Getters[g].of) : Known(<<Target(g, s), Getters[g].of[k]>>)
    PROVE  /\ Answer(g, s, Cached) = Answer(g, s, Held)
           /\ ready => Get(g, s) = Answer(g, s, Held)
           /\ [k \in 1..Len(Getters[g].of) |-> Held(<<Target(g, s), Getters[g].of[k]>>)]
                 \in Holdable(Getters[g].of)
  <1> DEFINE of == Getters[g].of
             t == Target(g, s)
  <1>1. group \in Groups
    BY DEF IInv, Typed
  <1>2. /\ Len(of) \in Nat \ {0} /\ 1 \in 1..Len(of)
        /\ \A k \in 1..Len(of) : <<t, of[k]>> \in Cells
    BY <1>1, GetterCells
  <1>3. \A k \in 1..Len(of) : /\ Cached(<<t, of[k]>>) = Held(<<t, of[k]>>)
                              /\ Held(<<t, of[k]>>) \in PropertyValues[of[k]]
    <2> SUFFICES ASSUME NEW k \in 1..Len(of)
                 PROVE  /\ Cached(<<t, of[k]>>) = Held(<<t, of[k]>>)
                        /\ Held(<<t, of[k]>>) \in PropertyValues[of[k]]
      OBVIOUS
    <2>1. <<t, of[k]>> \in Cells /\ Known(<<t, of[k]>>) /\ <<t, of[k]>>[2] = of[k]
      BY <1>2
    <2> QED
      BY <2>1, Settled
  <1>4. proxy[Object(<<t, of[1]>>)] # 0
    BY <1>2 DEF Known
  <1>5. [k \in 1..Len(of) |-> Cached(<<t, of[k]>>)] = [k \in 1..Len(of) |-> Held(<<t, of[k]>>)]
    BY <1>3
  <1>6. Answer(g, s, Cached) = Answer(g, s, Held)
    BY <1>5 DEF Answer
  <1>7. ready => Get(g, s) = Answer(g, s, Cached)
    BY <1>4 DEF Get
  <1>8. [k \in 1..Len(of) |-> Held(<<t, of[k]>>)] \in Holdable(of)
    <2> DEFINE found == [k \in 1..Len(of) |-> Held(<<t, of[k]>>)]
    <2>1. \A k \in 1..Len(of) : found[k] \in PropertyValues[of[k]]
      BY <1>3
    <2>2. found \in [1..Len(of) -> UNION {PropertyValues[of[k]] : k \in 1..Len(of)}]
      <3>1. \A k \in 1..Len(of) :
               found[k] \in UNION {PropertyValues[of[j]] : j \in 1..Len(of)}
        BY <2>1
      <3>2. DOMAIN found = 1..Len(of) /\ found = [k \in 1..Len(of) |-> found[k]]
        OBVIOUS
      <3> HIDE DEF found
      <3> QED
        BY <3>1, <3>2
    <2> HIDE DEF found
    <2>3. found \in Holdable(of)
      BY <2>1, <2>2 DEF Holdable
    <2> QED
      BY <2>3 DEF found
  <1> QED
    BY <1>6, <1>7, <1>8

LEMMA NumberIsTold ==
    ASSUME IInv, RestInv, NewsInv, Quiet, ready
    PROVE  PhoneNumberIsTold
  <1> DEFINE card == "tapi_get_msisdn_number"
             ims  == "tapi_ims_get_subscriber_uri_number"
  <1> SUFFICES ASSUME {card, ims} \subseteq group.getters, NEW s \in Slots,
                      Known(<<s, "sim_numbers">>), Known(<<s, "ims_uri">>)
               PROVE  tapi_get_phone_number(s) =
                         (IF Held(<<s, "sim_numbers">>) = "no number"
                          THEN Held(<<s, "ims_uri">>) ELSE Held(<<s, "sim_numbers">>))
    BY DEF PhoneNumberIsTold
  <1>1. /\ Getters[card].of = <<"sim_numbers">> /\ Getters[card].where = "slot"
        /\ Getters[ims].of = <<"ims_uri">> /\ Getters[ims].where = "slot"
        /\ \A v \in Holdable(<<"sim_numbers">>) :
              /\ v[1] # "NULL"
              /\ Getters[card].answer[v] =
                    [result |-> "OK", told |-> IF v[1] = "no number" THEN "NULL" ELSE v[1]]
        /\ \A v \in Holdable(<<"ims_uri">>) :
              Getters[ims].answer[v] = [result |-> "OK", told |-> v[1]]
    BY NumberAssumption DEF IInv, Typed
  <1>2. Target(card, s) = s /\ Target(ims, s) = s
    BY <1>1 DEF Target
  <1>3. ASSUME NEW g \in {card, ims}, NEW p, Getters[g].of = <<p>>, Target(g, s) = s,
               Known(<<s, p>>)
        PROVE  \E v \in Holdable(<<p>>) :
                  v[1] = Held(<<s, p>>) /\ Get(g, s) = Getters[g].answer[v]
    <2> DEFINE v == [k \in 1..Len(Getters[g].of) |-> Held(<<Target(g, s), Getters[g].of[k]>>)]
    <2>1. Len(<<p>>) = 1 /\ <<p>>[1] = p
      OBVIOUS
    <2>2. \A k \in 1..Len(Getters[g].of) : Known(<<Target(g, s), Getters[g].of[k]>>)
      <3>1. \A k \in 1..Len(<<p>>) : <<p>>[k] = p
        OBVIOUS
      <3> QED
        BY <1>3, <3>1
    <2>3. v \in Holdable(Getters[g].of) /\ Get(g, s) = Answer(g, s, Held)
      BY <2>2, Found
    <2>4. Answer(g, s, Held) = Getters[g].answer[v]
      BY DEF Answer
    <2>5. v[1] = Held(<<s, p>>)
      BY <1>3, <2>1
    <2> HIDE DEF v
    <2> QED
      BY <1>3, <2>3, <2>4, <2>5
  <1>4. PICK v \in Holdable(<<"sim_numbers">>) :
           v[1] = Held(<<s, "sim_numbers">>) /\ Get(card, s) = Getters[card].answer[v]
    BY <1>1, <1>2, <1>3
  <1>5. PICK w \in Holdable(<<"ims_uri">>) :
           w[1] = Held(<<s, "ims_uri">>) /\ Get(ims, s) = Getters[ims].answer[w]
    BY <1>1, <1>2, <1>3
  <1>6. /\ Get(card, s).result = "OK" /\ v[1] # "NULL"
        /\ Get(card, s).told = IF v[1] = "no number" THEN "NULL" ELSE v[1]
    <2>1. /\ v[1] # "NULL"
          /\ Getters[card].answer[v] =
                [result |-> "OK", told |-> IF v[1] = "no number" THEN "NULL" ELSE v[1]]
      BY <1>1, Zenon
    <2> DEFINE number == IF v[1] = "no number" THEN "NULL" ELSE v[1]
    <2>2. Get(card, s) = [result |-> "OK", told |-> number]
      BY <1>4, <2>1, Zenon
    <2>3. Get(card, s).result = "OK" /\ Get(card, s).told = number
      <3> HIDE DEF number
      <3> QED
        BY <2>2
    <2> QED
      BY <2>1, <2>3, Zenon
  <1>7. Get(ims, s).result = "OK" /\ Get(ims, s).told = w[1]
    <2>1. Getters[ims].answer[w] = [result |-> "OK", told |-> w[1]]
      BY <1>1, Zenon
    <2> QED
      BY <1>5, <2>1
  <1> QED
    BY <1>4, <1>5, <1>6, <1>7 DEF tapi_get_phone_number, PhoneNumber

\* When nothing is under way, every getter tells what oFono has, of every property gdbus
\* reads: however often on_modem_property_change replaced the proxies, and whatever was
\* answered to proxies that are gone.
THEOREM EveryGetterTells == Spec => []ReadsSettle
  <1>1. IInv /\ RestInv /\ NewsInv => ReadsSettle
    <2> SUFFICES ASSUME IInv, RestInv, NewsInv, Quiet, ready
                 PROVE  GettersTell /\ PhoneNumberIsTold
      BY DEF ReadsSettle
    <2>1. GettersTell
      BY Found DEF GettersTell
    <2> QED
      BY <2>1, NumberIsTold
  <1> QED
    BY <1>1, NewsInvariance, PTL
-----------------------------------------------------------------------------
(* The last setting *)

Writes(i, c) == calls[i].call = "write" /\ c \in calls[i].cells
LastWrite(i, c) == Writes(i, c) /\ \A j \in 1..Len(calls) : i < j => ~Writes(j, c)

\* The cell holds the value or will: the last request for it that is under way carries it.
WillHold(c, v) ==
    /\ \A i \in 1..Len(calls) : LastWrite(i, c) => calls[i].value = v
    /\ (\A i \in 1..Len(calls) : ~Writes(i, c)) => Held(c) = v

Wanted == Setters[asked.setter].encode[asked.arg]

AskedInv ==
    asked # None =>
        /\ ready
        /\ asked.setter \in group.setters /\ asked.arg \in DOMAIN Setters[asked.setter].encode
        /\ asked.slot \in SlotsFor(asked.setter)
        /\ asked.cells = CellsFor(asked.setter, Scope(asked.setter, asked.slot))
        /\ spoilt \/ \A c \in asked.cells : WillHold(c, Wanted)

\* A cell whose requests are still those that were under way.
LEMMA StillHeld ==
    ASSUME NEW c, NEW v, WillHold(c, v), history'[c] = history[c],
           \A k \in 1..Len(calls') : LastWrite(k, c)' =>
              \E i \in 1..Len(calls) : LastWrite(i, c) /\ calls[i].value = calls'[k].value,
           (\A k \in 1..Len(calls') : ~Writes(k, c)')
              => (\A i \in 1..Len(calls) : ~Writes(i, c))
    PROVE  /\ \A k \in 1..Len(calls') : LastWrite(k, c)' => calls'[k].value = v
           /\ (\A k \in 1..Len(calls') : ~Writes(k, c)') => Last(history'[c]) = v
  BY DEF WillHold, Held

\* The steps after which the setting is still the last one.
LEMMA StillAsked ==
    ASSUME AskedInv, group' = group, asked' = asked, ready' \in {ready, TRUE},
           ~spoilt' /\ asked # None => \A c \in asked.cells :
              /\ \A k \in 1..Len(calls') : LastWrite(k, c)' => calls'[k].value = Wanted
              /\ (\A k \in 1..Len(calls') : ~Writes(k, c)') => Last(history'[c]) = Wanted
    PROVE  AskedInv'
  <1>1. Wanted' = Wanted
    BY DEF Wanted
  <1>2. ASSUME asked # None
        PROVE  /\ ready' /\ SlotsFor(asked.setter)' = SlotsFor(asked.setter)
               /\ CellsFor(asked.setter, Scope(asked.setter, asked.slot))'
                    = CellsFor(asked.setter, Scope(asked.setter, asked.slot))
    BY <1>2 DEF AskedInv, SlotsFor, CellsFor, Scope
  <1>3. ASSUME asked # None, ~spoilt', NEW c \in asked.cells
        PROVE  WillHold(c, Wanted)'
    BY <1>1, <1>3 DEF WillHold, Held
  <1> QED
    BY <1>2, <1>3 DEF AskedInv

LEMMA SameCallsAsked ==
    ASSUME AskedInv, group' = group, asked' = asked, ready' \in {ready, TRUE},
           calls' = calls, ~spoilt' => ~spoilt,
           ~spoilt' /\ asked # None => \A c \in asked.cells : history'[c] = history[c]
    PROVE  AskedInv'
  <1>1. ASSUME ~spoilt', asked # None, NEW c \in asked.cells
        PROVE  /\ \A k \in 1..Len(calls') : LastWrite(k, c)' => calls'[k].value = Wanted
               /\ (\A k \in 1..Len(calls') : ~Writes(k, c)') => Last(history'[c]) = Wanted
    <2>1. WillHold(c, Wanted) /\ history'[c] = history[c]
      BY <1>1 DEF AskedInv
    <2>2. \A k \in 1..Len(calls) : /\ LastWrite(k, c)' <=> LastWrite(k, c)
                                   /\ Writes(k, c)' <=> Writes(k, c)
      BY DEF LastWrite, Writes
    <2> QED
      BY <2>1, <2>2, StillHeld
  <1> QED
    BY <1>1, StillAsked

\* The requests for a cell are still those that were under way, when what is left of the
\* first call is a request for it if that was one, with the same value.
LEMMA SameWrites ==
    ASSUME IInv, calls # <<>>, NEW r \in Seq(Call), Len(r) \in {0, 1},
           calls' = r \o Tail(calls), NEW c,
           Len(r) = 1 /\ r[1].call = "write" /\ c \in r[1].cells =>
              Writes(1, c) /\ r[1].value = calls[1].value,
           Writes(1, c) => Len(r) = 1 /\ r[1].call = "write" /\ c \in r[1].cells
    PROVE  /\ \A k \in 1..Len(calls') : LastWrite(k, c)' =>
                 \E i \in 1..Len(calls) : LastWrite(i, c) /\ calls[i].value = calls'[k].value
           /\ (\A k \in 1..Len(calls') : ~Writes(k, c)')
                 => (\A i \in 1..Len(calls) : ~Writes(i, c))
  <1>1. /\ \A k \in 1..Len(calls) : k # 1 => /\ Len(r) + k - 1 \in 1..Len(calls')
                                             /\ calls'[Len(r) + k - 1] = calls[k]
        /\ \A k \in 1..Len(calls') : k > Len(r) => /\ k - Len(r) + 1 \in 1..Len(calls)
                                                   /\ k - Len(r) + 1 # 1
                                                   /\ calls'[k] = calls[k - Len(r) + 1]
        /\ \A k \in 1..Len(calls') : k <= Len(r) => k = 1 /\ calls'[k] = r[1]
        /\ Len(r) = 1 => 1 \in 1..Len(calls') /\ calls'[1] = r[1]
        /\ Len(calls) \in Nat \ {0}
    BY BehindStay
  \* Each request behind has its place, and they keep their order.
  <1>2. ASSUME NEW i \in 1..Len(calls), Writes(i, c)
        PROVE  \E k \in 1..Len(calls') : Writes(k, c)' /\ k = Len(r) + i - 1
    <2>1. CASE i # 1
      <3>1. PICK k \in 1..Len(calls') : k = Len(r) + i - 1 /\ calls'[k] = calls[i]
        BY <1>1, <2>1
      <3> QED
        BY <1>2, <3>1 DEF Writes
    <2>2. CASE i = 1
      <3>1. Len(r) = 1 /\ r[1].call = "write" /\ c \in r[1].cells
        BY <1>2, <2>2
      <3>2. 1 \in 1..Len(calls') /\ calls'[1] = r[1]
        BY <1>1, <3>1
      <3>3. Writes(1, c)' /\ 1 = Len(r) + i - 1
        BY <2>2, <3>1, <3>2 DEF Writes
      <3> QED
        BY <3>2, <3>3
    <2> QED
      BY <2>1, <2>2
  <1>3. ASSUME NEW k \in 1..Len(calls'), Writes(k, c)'
        PROVE  \E i \in 1..Len(calls) : /\ Writes(i, c) /\ calls[i].value = calls'[k].value
                                        /\ k = Len(r) + i - 1
    <2>1. CASE k > Len(r)
      <3>1. PICK i \in 1..Len(calls) : i = k - Len(r) + 1 /\ calls'[k] = calls[i]
        BY <1>1, <2>1
      <3>2. k = Len(r) + i - 1
        BY <3>1
      <3>3. Writes(i, c) /\ calls[i].value = calls'[k].value
        BY <1>3, <3>1 DEF Writes
      <3> QED
        BY <3>2, <3>3
    <2>2. CASE ~(k > Len(r))
      <3>0. k <= Len(r)
        BY <2>2
      <3>1. k = 1 /\ calls'[k] = r[1] /\ Len(r) = 1
        BY <1>1, <3>0
      <3>2. r[1].call = "write" /\ c \in r[1].cells
        BY <1>3, <3>1 DEF Writes
      <3>3. Writes(1, c) /\ calls[1].value = calls'[k].value /\ k = Len(r) + 1 - 1
        BY <3>1, <3>2
      <3>4. 1 \in 1..Len(calls)
        BY <1>1
      <3>5. WITNESS 1 \in 1..Len(calls)
      <3> QED
        BY <3>3, <3>4
    <2> QED
      BY <2>1, <2>2, Zenon
  <1>4. ASSUME NEW k \in 1..Len(calls'), LastWrite(k, c)'
        PROVE  \E i \in 1..Len(calls) : LastWrite(i, c) /\ calls[i].value = calls'[k].value
    <2>1. PICK i \in 1..Len(calls) : /\ Writes(i, c) /\ calls[i].value = calls'[k].value
                                     /\ k = Len(r) + i - 1
      BY <1>3, <1>4 DEF LastWrite
    <2>2. ASSUME NEW j \in 1..Len(calls), i < j, Writes(j, c)
          PROVE  FALSE
      <3>1. PICK l \in 1..Len(calls') : Writes(l, c)' /\ l = Len(r) + j - 1
        BY <1>2, <2>2
      <3>2. k < l
        BY <2>1, <2>2, <3>1
      <3> QED
        BY <1>4, <3>1, <3>2 DEF LastWrite
    <2> QED
      BY <2>1, <2>2 DEF LastWrite
  <1> QED
    BY <1>2, <1>4

\* A request that is done, or refused, for c changes nothing for the other cells.
LEMMA OthersAsked ==
    ASSUME IInv, calls # <<>>, NEW c, IsNext(Head(calls), c), calls' = Done(Head(calls), c),
           NEW x, x # c, NEW v, WillHold(x, v), history'[x] = history[x]
    PROVE  /\ \A k \in 1..Len(calls') : LastWrite(k, x)' => calls'[k].value = v
           /\ (\A k \in 1..Len(calls') : ~Writes(k, x)') => Last(history'[x]) = v
  <1> DEFINE w == Head(calls)
             r == WriteLeft(c)
  <1>1. /\ r \in Seq(Call) /\ calls' = r \o Tail(calls) /\ Len(r) \in {0, 1}
        /\ Len(r) = 0 => w.cells = {c}
        /\ Len(r) = 1 => r[1] = Write(w.cells \ {c}, w.value)
    BY WritesLeft
  <1>2. w = calls[1] /\ w.call = "write" /\ c \in w.cells
    BY FirstCall, TailAt DEF IsNext
  <1> HIDE DEF w, r
  <1>3. Len(r) = 1 => r[1].call = "write" /\ r[1].cells = w.cells \ {c} /\ r[1].value = w.value
    BY <1>1 DEF Write
  <1>4. /\ Len(r) = 1 /\ r[1].call = "write" /\ x \in r[1].cells =>
              Writes(1, x) /\ r[1].value = calls[1].value
        /\ Writes(1, x) => Len(r) = 1 /\ r[1].call = "write" /\ x \in r[1].cells
    BY <1>1, <1>2, <1>3 DEF Writes
  <1>5. /\ \A k \in 1..Len(calls') : LastWrite(k, x)' =>
              \E i \in 1..Len(calls) : LastWrite(i, x) /\ calls[i].value = calls'[k].value
        /\ (\A k \in 1..Len(calls') : ~Writes(k, x)')
              => (\A i \in 1..Len(calls) : ~Writes(i, x))
    BY <1>1, <1>4, SameWrites
  <1> QED
    BY <1>5, StillHeld

\* When a request has been done for c, the next one for it is the last as before, or the
\* cell has what the last one brought.
LEMMA DoneAsked ==
    ASSUME IInv, calls # <<>>, NEW c, IsNext(Head(calls), c), calls' = Done(Head(calls), c),
           NEW v, WillHold(c, v), Last(history'[c]) = Head(calls).value
    PROVE  /\ \A k \in 1..Len(calls') : LastWrite(k, c)' => calls'[k].value = v
           /\ (\A k \in 1..Len(calls') : ~Writes(k, c)') => Last(history'[c]) = v
  <1> DEFINE w == Head(calls)
             r == WriteLeft(c)
  <1>1. /\ r \in Seq(Call) /\ calls' = r \o Tail(calls) /\ Len(r) \in {0, 1}
        /\ Len(r) = 1 => r[1] = Write(w.cells \ {c}, w.value)
    BY WritesLeft
  <1>2. w = calls[1] /\ w.call = "write" /\ c \in w.cells
    BY FirstCall, TailAt DEF IsNext
  <1> HIDE DEF w, r
  <1>3. Len(r) = 1 => r[1].cells = w.cells \ {c}
    BY <1>1 DEF Write
  <1>4. /\ \A k \in 1..Len(calls) : k # 1 => /\ Len(r) + k - 1 \in 1..Len(calls')
                                             /\ calls'[Len(r) + k - 1] = calls[k]
        /\ \A k \in 1..Len(calls') : k > Len(r) => /\ k - Len(r) + 1 \in 1..Len(calls)
                                                   /\ k - Len(r) + 1 # 1
                                                   /\ calls'[k] = calls[k - Len(r) + 1]
        /\ \A k \in 1..Len(calls') : k <= Len(r) => k = 1 /\ calls'[k] = r[1]
        /\ Len(calls) \in Nat \ {0}
    BY <1>1, BehindStay
  <1>5. ASSUME NEW k \in 1..Len(calls'), LastWrite(k, c)'
        PROVE  calls'[k].value = v
    <2>1. k > Len(r)
      <3> SUFFICES ASSUME k <= Len(r)
                   PROVE  FALSE
        BY <1>1
      <3>1. Len(r) = 1 /\ calls'[k] = r[1]
        BY <1>1, <1>4
      <3> QED
        BY <1>3, <1>5, <3>1 DEF LastWrite, Writes
    <2>2. PICK i \in 1..Len(calls) : i = k - Len(r) + 1 /\ i # 1 /\ calls'[k] = calls[i]
      BY <1>4, <2>1
    <2>3. ASSUME NEW j \in 1..Len(calls), i < j, Writes(j, c)
          PROVE  FALSE
      <3>1. PICK l \in 1..Len(calls') : l = Len(r) + j - 1 /\ calls'[l] = calls[j]
        BY <1>4, <2>2, <2>3
      <3>2. k < l
        BY <1>1, <2>2, <2>3, <3>1
      <3> QED
        BY <1>5, <2>3, <3>1, <3>2 DEF LastWrite, Writes
    <2>4. LastWrite(i, c)
      BY <1>5, <2>2, <2>3 DEF LastWrite, Writes
    <2> QED
      BY <2>2, <2>4 DEF WillHold
  <1>6. ASSUME \A k \in 1..Len(calls') : ~Writes(k, c)'
        PROVE  w.value = v
    <2>1. ASSUME NEW j \in 1..Len(calls), 1 < j, Writes(j, c)
          PROVE  FALSE
      <3>1. PICK l \in 1..Len(calls') : calls'[l] = calls[j]
        BY <1>4, <2>1
      <3> QED
        BY <1>6, <2>1, <3>1 DEF Writes
    <2>2. LastWrite(1, c) /\ 1 \in 1..Len(calls)
      BY <1>2, <1>4, <2>1 DEF LastWrite, Writes
    <2> QED
      BY <1>2, <2>2 DEF WillHold
  <1> QED
    BY <1>5, <1>6 DEF w
LEMMA AskedCells ==
    ASSUME IInv, AskedInv, asked # None
    PROVE  asked.cells \subseteq Cells
  BY SettingSends DEF AskedInv

LEMMA AskedOfSetting ==
    ASSUME IInv, NEW name \in group.setters, NEW s \in SlotsFor(name), NEW arg \in Arguments(name),
           Set(name, s, arg)
    PROVE  AskedInv'
  <1>1. CASE asked' = None
    BY <1>1 DEF AskedInv
  <1>2. CASE asked' # None
    <2> DEFINE cells == CellsFor(name, Scope(name, s))
               v == Setters[name].encode[arg]
    <2>1. /\ ready /\ arg \in DOMAIN Setters[name].encode
          /\ \E unsent \in SUBSET (IF "send" \in Faults THEN Reached(name, s) ELSE {}) :
                SetSends(name, s, arg, unsent)
      BY <1>2 DEF Set, SetFails
    <2>2. /\ asked' = [setter |-> name, slot |-> s, arg |-> arg, cells |-> cells]
          /\ calls' = Sent(cells, v) /\ group' = group /\ ready' = ready /\ proxy' = proxy
      <3>1. PICK unsent : SetSends(name, s, arg, unsent)
        BY <2>1
      <3>2. Reached(name, s) = Scope(name, s) /\ unsent = {}
        BY <1>2, <3>1 DEF SetSends
      <3>3. Asks(name, s) \ unsent = Scope(name, s)
        BY <3>2 DEF Asks
      <3> QED
        BY <1>2, <3>1, <3>2, <3>3 DEF SetSends, clientVars
    <2>3. /\ cells # {} /\ cells \subseteq Cells /\ v \in Values
          /\ \A c \in cells : v \in PropertyValues[c[2]]
      <3>1. Scope(name, s) # {}
        BY PropertyAssumption DEF Scope, Slots
      <3>2. cells # {}
        BY <3>1 DEF CellsFor
      <3> QED
        BY <2>1, <3>2, SettingSends
    <2>4. SlotsFor(name)' = SlotsFor(name) /\ CellsFor(name, Scope(name, s))' = cells
      BY DEF SlotsFor, CellsFor, Scope
    <2>5. /\ asked'.setter = name /\ asked'.slot = s /\ asked'.arg = arg
          /\ asked'.cells = cells /\ Wanted' = v
      BY <2>2 DEF Wanted
    <2> HIDE DEF cells, v
    <2>6. calls' = Append(calls, Write(cells, v)) /\ Write(cells, v) \in Call
      BY <2>2, <2>3, WritesTyped DEF Sent
    <2>7. /\ Len(calls') = Len(calls) + 1 /\ Len(calls) \in Nat
          /\ calls'[Len(calls) + 1] = Write(cells, v)
      <3> DEFINE q == calls
      <3>1. q \in Seq(Call)
        BY DEF IInv, Typed
      <3> HIDE DEF q
      <3>2. /\ Len(Append(q, Write(cells, v))) = Len(q) + 1 /\ Len(q) \in Nat
            /\ Append(q, Write(cells, v))[Len(q) + 1] = Write(cells, v)
        BY <2>6, <3>1, AppendAt
      <3> QED
        BY <2>6, <3>2 DEF q
    <2>8. PICK l \in 1..Len(calls') : calls'[l] = Write(cells, v) /\ \A k \in 1..Len(calls') : k <= l
      BY <2>7
    <2>9. ASSUME NEW c \in cells
          PROVE  WillHold(c, v)'
      <3>1. calls'[l].call = "write" /\ c \in calls'[l].cells /\ calls'[l].value = v
        BY <2>8 DEF Write
      <3>2. ASSUME NEW k \in 1..Len(calls'), LastWrite(k, c)'
            PROVE  calls'[k].value = v
        <4>1. ~(k < l)
          BY <3>1, <3>2 DEF LastWrite, Writes
        <4>2. k = l
          BY <2>8, <4>1
        <4> QED
          BY <3>1, <4>2
      <3>3. ~\A k \in 1..Len(calls') : ~Writes(k, c)'
        BY <3>1 DEF Writes
      <3>4. v' = v
        BY DEF v
      <3> QED
        BY <3>2, <3>3, <3>4 DEF WillHold
    <2>10. v' = v /\ cells' = cells
      BY <2>4 DEF v, cells
    <2> QED
      BY <2>1, <2>2, <2>4, <2>5, <2>9, <2>10 DEF AskedInv, cells, v
  <1> QED
    BY <1>1, <1>2

LEMMA AskedOfReplacement ==
    ASSUME IInv, AskedInv, NEW lost, on_modem_property_change(lost)
    PROVE  AskedInv'
  <1> DEFINE objects == Readable(Mutable \ lost)
             more == Reads(objects, gen + 1)
  <1>1. /\ calls \in Seq(Call') /\ more \in Seq(Call') /\ calls' = calls \o more
        /\ group' = group /\ UNCHANGED history
    BY ReplacedReads
  <1>2. asked' = asked /\ ready' = ready /\ spoilt' = spoilt
    BY DEF on_modem_property_change, appVars
  <1>3. \A k \in 1..Len(more) : more[k].call = "read"
    <2>1. CASE objects = {}
      BY <2>1 DEF Reads
    <2>2. CASE objects # {}
      <3>1. more = <<Read(objects, gen + 1)>>
        BY <2>2 DEF Reads
      <3>2. Read(objects, gen + 1).call = "read"
        BY DEF Read
      <3> HIDE DEF objects
      <3> QED
        BY <3>1, <3>2
    <2> QED
      BY <2>1, <2>2
  <1> HIDE DEF more, objects
  <1>4. /\ Len(calls') = Len(calls) + Len(more) /\ Len(calls) \in Nat /\ Len(more) \in Nat
        /\ \A k \in 1..Len(calls) : calls'[k] = calls[k] /\ k \in 1..Len(calls')
        /\ \A k \in 1..Len(more) : calls'[Len(calls) + k] = more[k]
    BY <1>1, JoinAt
  <1>5. ASSUME NEW k \in 1..Len(calls'), calls'[k].call = "write"
        PROVE  k \in 1..Len(calls) /\ calls'[k] = calls[k]
    <2>1. CASE k <= Len(calls)
      BY <1>4, <2>1
    <2>2. CASE k > Len(calls)
      <3>1. k - Len(calls) \in 1..Len(more) /\ Len(calls) + (k - Len(calls)) = k
        BY <1>4, <2>2
      <3>2. calls'[k] = more[k - Len(calls)]
        BY <1>4, <3>1
      <3> QED
        BY <1>3, <1>5, <3>1, <3>2
    <2> QED
      BY <1>4, <2>1, <2>2
  <1>6. ASSUME NEW c, NEW v, WillHold(c, v)
        PROVE  /\ \A k \in 1..Len(calls') : LastWrite(k, c)' => calls'[k].value = v
               /\ (\A k \in 1..Len(calls') : ~Writes(k, c)') => Last(history'[c]) = v
    <2>1. ASSUME NEW k \in 1..Len(calls'), LastWrite(k, c)'
          PROVE  k \in 1..Len(calls) /\ LastWrite(k, c) /\ calls[k].value = calls'[k].value
      <3>1. k \in 1..Len(calls) /\ calls'[k] = calls[k]
        BY <1>5, <2>1 DEF LastWrite, Writes
      <3>2. \A j \in 1..Len(calls) : Writes(j, c) => Writes(j, c)' /\ j \in 1..Len(calls')
        BY <1>4 DEF Writes
      <3> QED
        BY <2>1, <3>1, <3>2 DEF LastWrite, Writes
    <2>2. (\A k \in 1..Len(calls') : ~Writes(k, c)') => (\A i \in 1..Len(calls) : ~Writes(i, c))
      BY <1>4 DEF Writes
    <2> QED
      BY <1>1, <1>6, <2>1, <2>2, StillHeld
  <1>7. ~spoilt' /\ asked # None => \A c \in asked.cells : WillHold(c, Wanted)
    BY <1>2 DEF AskedInv
  <1> QED
    BY <1>1, <1>2, <1>6, <1>7, StillAsked

LEMMA AskedOfRead ==
    ASSUME IInv, AskedInv, NEW o, OfonoReads(o)
    PROVE  AskedInv'
  <1> DEFINE d == Head(calls)
             r == ReadLeft(o)
  <1>1. /\ calls # <<>> /\ d.call = "read" /\ asked' = asked /\ spoilt' = spoilt
        /\ group' = group /\ ready' = ready /\ history' = history
    BY DEF OfonoReads, clientVars, appVars, ofonoVars
  <1>2. /\ calls' = r \o Tail(calls) /\ r \in Seq(Call) /\ Len(r) \in {0, 1}
        /\ Len(r) = 1 => r[1] = Read(d.objects \ {o}, d.gen)
    BY ReadsLeft
  <1> HIDE DEF d, r
  <1>3. d = calls[1]
    BY <1>1, <1>2, BehindStay DEF d
  <1>4. Len(r) = 1 => r[1].call = "read"
    BY <1>2 DEF Read
  <1>5. ASSUME NEW c, NEW v, WillHold(c, v)
        PROVE  /\ \A k \in 1..Len(calls') : LastWrite(k, c)' => calls'[k].value = v
               /\ (\A k \in 1..Len(calls') : ~Writes(k, c)') => Last(history'[c]) = v
    <2>1. ~Writes(1, c)
      BY <1>1, <1>3 DEF Writes
    <2>2. /\ \A k \in 1..Len(calls') : LastWrite(k, c)' =>
                \E i \in 1..Len(calls) : LastWrite(i, c) /\ calls[i].value = calls'[k].value
          /\ (\A k \in 1..Len(calls') : ~Writes(k, c)')
                => (\A i \in 1..Len(calls) : ~Writes(i, c))
      BY <1>1, <1>2, <1>4, <2>1, SameWrites
    <2>3. history'[c] = history[c]
      BY <1>1
    <2> QED
      BY <1>5, <2>2, <2>3, StillHeld
  <1>6. ~spoilt' /\ asked # None => \A c \in asked.cells : WillHold(c, Wanted)
    BY <1>1 DEF AskedInv
  <1> QED
    BY <1>1, <1>5, <1>6, StillAsked

LEMMA AskedOfWrite ==
    ASSUME IInv, AskedInv, NEW c, OfonoWrites(c)
    PROVE  AskedInv'
  <1>1. /\ calls # <<>> /\ IsNext(Head(calls), c) /\ calls' = Done(Head(calls), c)
        /\ Change(c, Head(calls).value) /\ asked' = asked /\ spoilt' = spoilt
        /\ group' = group /\ ready' = ready
    BY DEF OfonoWrites, clientVars, appVars
  <1>2. c \in Cells /\ Head(calls).value \in PropertyValues[c[2]]
    BY <1>1, CallsDone
  <1> DEFINE w == Head(calls).value
  <1>3. Last(history'[c]) = w /\ \A x \in Cells \ {c} : history'[x] = history[x]
    <2>1. CASE Held(c) = w
      BY <1>1, <2>1 DEF Change, Held
    <2>2. CASE Held(c) # w
      <3>1. history' = [history EXCEPT ![c] = Append(@, w)]
        BY <1>1, <2>2 DEF Change
      <3> HIDE DEF w
      <3>2. /\ history'[c][Len(history'[c])] = w
            /\ \A x \in Cells \ {c} : history'[x] = history[x]
        BY <1>2, <3>1, HistoryGrows DEF w
      <3> QED
        BY <3>2 DEF Last
    <2> QED
      BY <2>1, <2>2
  <1>4. ASSUME ~spoilt', asked # None, NEW x \in asked.cells
        PROVE  /\ \A k \in 1..Len(calls') : LastWrite(k, x)' => calls'[k].value = Wanted
               /\ (\A k \in 1..Len(calls') : ~Writes(k, x)') => Last(history'[x]) = Wanted
    <2>1. WillHold(x, Wanted) /\ x \in Cells
      BY <1>1, <1>4, AskedCells DEF AskedInv
    <2>2. CASE x = c
      BY <1>1, <1>3, <2>1, <2>2, DoneAsked
    <2>3. CASE x # c
      BY <1>1, <1>3, <2>1, <2>3, OthersAsked
    <2> QED
      BY <2>2, <2>3
  <1> QED
    BY <1>1, <1>4, StillAsked

LEMMA AskedOfRefusal ==
    ASSUME IInv, AskedInv, NEW c, OfonoRefuses(c)
    PROVE  AskedInv'
  <1>1. /\ calls # <<>> /\ IsNext(Head(calls), c) /\ calls' = Done(Head(calls), c)
        /\ asked' = asked /\ spoilt' = (spoilt \/ Concerns(c)) /\ history' = history
        /\ group' = group /\ ready' = ready
    BY DEF OfonoRefuses, clientVars, ofonoVars, appVars
  <1>2. ASSUME ~spoilt', asked # None, NEW x \in asked.cells
        PROVE  /\ \A k \in 1..Len(calls') : LastWrite(k, x)' => calls'[k].value = Wanted
               /\ (\A k \in 1..Len(calls') : ~Writes(k, x)') => Last(history'[x]) = Wanted
    <2>1. WillHold(x, Wanted) /\ x # c /\ history'[x] = history[x]
      BY <1>1, <1>2 DEF AskedInv, Concerns
    <2> QED
      BY <1>1, <2>1, OthersAsked
  <1> QED
    BY <1>1, <1>2, StillAsked

LEMMA AskedSteps == IInv /\ RestInv /\ AskedInv /\ [Next]_vars => AskedInv'
  <1> SUFFICES ASSUME IInv, RestInv, AskedInv, [Next]_vars
               PROVE  AskedInv'
    OBVIOUS
  <1> USE DEF clientVars, ofonoVars, appVars
  <1>1. CASE UNCHANGED vars
    BY <1>1, SameCallsAsked DEF vars
  <1>2. CASE on_dbus_client_ready
    BY <1>2, SameCallsAsked DEF on_dbus_client_ready
  <1>3. ASSUME NEW lost \in Losses, on_modem_property_change(lost)
        PROVE  AskedInv'
    BY <1>3, AskedOfReplacement
  <1>4. CASE Dispatch
    BY <1>4, SameCallsAsked DEF Dispatch
  <1>5. ASSUME NEW name \in group.setters, NEW s \in SlotsFor(name), NEW arg \in Arguments(name),
               Set(name, s, arg)
        PROVE  AskedInv'
    BY <1>5, AskedOfSetting
  <1>6. CASE Serving
    BY <1>6, AskedOfRead, AskedOfWrite, AskedOfRefusal DEF Serving
  <1>7. ASSUME NEW c \in Cells, NEW v \in PropertyValues[c[2]], OfonoChanges(c, v)
        PROVE  AskedInv'
    <2>1. /\ group' = group /\ asked' = asked /\ ready' = ready /\ calls' = calls
          /\ spoilt' = (spoilt \/ Concerns(c)) /\ history' = [history EXCEPT ![c] = Append(@, v)]
      BY <1>7 DEF OfonoChanges, Change
    <2>2. CASE asked = None
      BY <2>1, <2>2 DEF AskedInv
    <2>3. CASE asked # None
      <3>1. \A x \in Cells \ {c} : history'[x] = history[x]
        BY <2>1, HistoryGrows
      <3>2. ~spoilt' => ~spoilt /\ c \notin asked.cells
        BY <2>1 DEF Concerns
      <3>3. ~spoilt' /\ asked # None => \A x \in asked.cells : history'[x] = history[x]
        BY <3>1, <3>2, AskedCells
      <3> QED
        BY <2>1, <3>2, <3>3, SameCallsAsked
    <2> QED
      BY <2>2, <2>3
  <1> QED
    BY <1>1, <1>2, <1>3, <1>4, <1>5, <1>6, <1>7 DEF Next
LEMMA AskedInvariance == Spec => [](IInv /\ RestInv /\ NewsInv /\ AskedInv)
  <1>1. Init => IInv /\ RestInv /\ NewsInv /\ AskedInv
    <2>1. Init => AskedInv
      BY DEF Init, AskedInv
    <2> QED
      BY <2>1, InitInv, RestInit, NewsInit
  <1>2. IInv /\ RestInv /\ NewsInv /\ AskedInv /\ [Next]_vars
           => IInv' /\ RestInv' /\ NewsInv' /\ AskedInv'
    BY Steps, RestSteps, NewsSteps, AskedSteps
  <1> QED
    BY <1>1, <1>2, PTL DEF Spec

\* A getter of what a setting set reads it back, when nothing is under way.
LEMMA GetterReadsBack ==
    ASSUME IInv, RestInv, NewsInv, AskedInv, Quiet, asked # None, NEW g \in group.getters,
           \A c \in asked.cells : Held(c) = Wanted
    PROVE  ReadsBack(asked, g)
  <1> DEFINE name == asked.setter
             s == asked.slot
             of == Getters[g].of
             t == Target(g, s)
             p == Setters[name].sets
  <1> SUFFICES ASSUME Last(of) = p, \A k \in 1..Len(of) : Known(<<t, of[k]>>),
                      Get(g, s).result = "OK"
               PROVE  Get(g, s).told = asked.arg
    BY DEF ReadsBack
  <1>1. /\ ready /\ name \in group.setters /\ asked.arg \in DOMAIN Setters[name].encode
        /\ s \in SlotsFor(name) /\ asked.cells = CellsFor(name, Scope(name, s))
        /\ group \in Groups /\ ModemCount \in Nat \ {0}
    BY PropertyAssumption DEF AskedInv, IInv, Typed
  <1>2. s \in Slots /\ DEFAULT_SLOT_ID \in Slots
    BY <1>1 DEF SlotsFor, Slots, DEFAULT_SLOT_ID
  <1>3. /\ Len(of) \in 1..Len(of) /\ of[Len(of)] = p
        /\ Getters[g].where = "manager" <=> InterfaceOf[p] = "Manager"
    <2>1. Len(of) \in 1..Len(of)
      BY <1>1, <1>2, GetterCells
    <2>2. Getters[g].where = "manager" <=> InterfaceOf[of[Len(of)]] = "Manager"
      BY <1>1, <2>1, GetterAssumption
    <2> QED
      BY <2>1, <2>2 DEF Last
  <1>4. Setters[name].scope = "manager" <=> InterfaceOf[p] = "Manager"
    BY <1>1, TableAssumption
  <1>5. /\ Getters[g].where = "default" => Setters[name].scope = "all"
        /\ \A values \in Holdable(of) :
              values[Len(of)] = Setters[name].encode[asked.arg] =>
                 \/ Getters[g].answer[values].result # "OK"
                 \/ Getters[g].answer[values].told = asked.arg
    BY <1>1, ReadBackAssumption
  <1>6. t \in Scope(name, s)
    <2>1. CASE Getters[g].where = "manager"
      BY <1>3, <1>4, <2>1 DEF Target, Scope
    <2>2. CASE Getters[g].where = "default"
      BY <1>2, <1>5, <2>2 DEF Target, Scope
    <2>3. CASE Getters[g].where \notin {"manager", "default"}
      BY <1>2, <1>3, <1>4, <2>3 DEF Target, Scope
    <2> QED
      BY <2>1, <2>2, <2>3
  <1>7. Held(<<t, p>>) = Wanted
    BY <1>1, <1>6 DEF CellsFor
  <1> DEFINE found == [k \in 1..Len(of) |-> Held(<<t, of[k]>>)]
  <1>8. /\ Get(g, s) = Answer(g, s, Held) /\ found \in Holdable(of)
        /\ Answer(g, s, Held) = Getters[g].answer[found]
    BY <1>1, <1>2, Found DEF Answer
  <1>9. found[Len(of)] = Setters[name].encode[asked.arg]
    BY <1>3, <1>7 DEF Wanted
  <1> HIDE DEF found, of, t, p, name, s
  <1>10. \/ Getters[g].answer[found].result # "OK"
         \/ Getters[g].answer[found].told = asked.arg
    BY <1>5, <1>8, <1>9
  <1> QED
    BY <1>8, <1>10 DEF s

\* Once a setter has returned OK, and unless oFono refuses or somebody else changes the
\* property, everything the setting is for holds it when nothing is under way, and the
\* getters of the property read back what was set: whatever was under way when it was made.
THEOREM SettingTakesHoldIfQuiet == Spec => []SettingIsInForce
  <1>1. IInv /\ RestInv /\ NewsInv /\ AskedInv => SettingIsInForce
    <2> SUFFICES ASSUME IInv, RestInv, NewsInv, AskedInv, Quiet, asked # None, ~spoilt
                 PROVE  InForce(asked)
      BY DEF SettingIsInForce
    <2>1. \A c \in asked.cells : Held(c) = Wanted
      BY DEF AskedInv, WillHold, Quiet
    <2>2. \A g \in group.getters : ReadsBack(asked, g)
      BY <2>1, GetterReadsBack
    <2> QED
      BY <2>1, <2>2 DEF InForce, Wanted
  <1> QED
    BY <1>1, AskedInvariance, PTL

-----------------------------------------------------------------------------
(* Emergency numbers *)

\* What the lookup finds when it sees the lists of all slots: the first alone will do if
\* the number is in it.
LEMMA InTheFirst ==
    ASSUME NEW number, number \in tapi_call_get_ecc_list(DEFAULT_SLOT_ID).told,
           tapi_call_get_ecc_list(DEFAULT_SLOT_ID).result = "OK"
    PROVE  tapi_call_is_emergency_number(number)
  <1>1. DEFAULT_SLOT_ID \in Slots /\ 0..DEFAULT_SLOT_ID = {DEFAULT_SLOT_ID}
    BY PropertyAssumption DEF Slots, DEFAULT_SLOT_ID
  <1>2. HasNumbers(tapi_call_get_ecc_list(DEFAULT_SLOT_ID))
    BY DEF HasNumbers
  <1> QED
    BY <1>1, <1>2 DEF tapi_call_is_emergency_number

LEMMA CopyWasHeld ==
    ASSUME IInv, RestInv, NEW c \in Cells, cache[c] # 0
    PROVE  \E k \in 1..Len(history[c]) : Cached(c) = history[c][k]
  <1>1. /\ seen \in [Cells -> Nat] /\ history[c] \in Seq(Values)
        /\ cache[c] \in Nat /\ cache[c] <= seen[c] /\ seen[c] <= Len(history[c])
    BY DEF IInv, RestInv, Typed, Histories, SeenInv
  <1>2. cache[c] \in 1..Len(history[c])
    BY <1>1
  <1> QED
    BY <1>2 DEF Cached

\* A number in every list the phone has had is found at every moment, the moments when
\* the proxies of Call have been replaced and have nothing yet included: the list of the
\* Modem interface, whose proxy is never replaced, stands in for the one of Call.
THEOREM FoundAtEveryMoment == Spec => []FoundThroughout
  <1>1. IInv /\ RestInv => FoundThroughout
    <2> SUFFICES ASSUME IInv, RestInv, LooksAtLists,
                        \A s \in Slots : cache[ModemList(s)] # 0 /\ proxy[Object(CallList(s))] # 0,
                        NEW number \in Numbers,
                        \A c \in Lists : \A i \in 1..Len(history[c]) :
                           number \in NumbersOf(history[c][i])
                 PROVE  tapi_call_is_emergency_number(number)
      BY DEF FoundThroughout
    <2> DEFINE s == DEFAULT_SLOT_ID
    <2>1. s \in Slots
      BY PropertyAssumption DEF Slots, DEFAULT_SLOT_ID
    <2>2. /\ CallList(s) \in Cells /\ ModemList(s) \in Cells /\ ready
          /\ CallList(s) \in Lists /\ ModemList(s) \in Lists
      BY <2>1 DEF LooksAtLists, Lists
    <2>3. cache[ModemList(s)] # 0 /\ proxy[Object(CallList(s))] # 0
      BY <2>1
    <2> HIDE DEF s
    <2>4. ASSUME NEW c \in {CallList(s), ModemList(s)}, cache[c] # 0
          PROVE  number \in NumbersOf(Cached(c)) /\ Cached(c) # Missing
      <3>1. PICK k \in 1..Len(history[c]) : Cached(c) = history[c][k]
        BY <2>2, <2>4, CopyWasHeld
      <3>2. number \in NumbersOf(Cached(c))
        BY <2>2, <3>1
      <3>3. NumbersOf(Missing) = {}
        BY DEF NumbersOf, Missing
      <3> QED
        BY <3>2, <3>3
    <2>5. cache[CallList(s)] = 0 => Cached(CallList(s)) = Missing
      BY DEF Cached
    <2>6. /\ tapi_call_get_ecc_list(s).result = "OK"
          /\ number \in tapi_call_get_ecc_list(s).told
      <3>1. CASE cache[CallList(s)] # 0
        <4>1. tapi_call_get_ecc_list(s)
                 = [result |-> "OK", told |-> NumbersOf(Cached(CallList(s)))]
          BY <2>2, <2>3, <2>4, <3>1 DEF tapi_call_get_ecc_list
        <4> QED
          BY <2>4, <3>1, <4>1
      <3>2. CASE cache[CallList(s)] = 0
        <4>1. tapi_call_get_ecc_list(s)
                 = [result |-> "OK", told |-> NumbersOf(Cached(ModemList(s)))]
          BY <2>2, <2>3, <2>4, <2>5, <3>2 DEF tapi_call_get_ecc_list
        <4> QED
          BY <2>3, <2>4, <4>1
      <3> QED
        BY <3>1, <3>2
    <2> QED
      BY <2>6, InTheFirst DEF s
  <1> QED
    BY <1>1, Invariance, PTL

\* When nothing is under way and every slot has a list, a number is found exactly if it
\* stands in the list of one of the slots.
THEOREM FoundExactly == Spec => []FoundOnAnySlot
  <1>1. IInv /\ RestInv /\ NewsInv => FoundOnAnySlot
    <2> SUFFICES ASSUME IInv, RestInv, NewsInv, LooksAtLists, Quiet,
                        \A s \in Slots : Known(CallList(s))
                                         /\ NumbersOf(Held(CallList(s))) # {},
                        NEW number \in Numbers
                 PROVE  tapi_call_is_emergency_number(number)
                           <=> \E s \in Slots : number \in NumbersOf(Held(CallList(s)))
      BY DEF FoundOnAnySlot
    <2>1. ASSUME NEW s \in Slots
          PROVE  /\ tapi_call_get_ecc_list(s).result = "OK"
                 /\ tapi_call_get_ecc_list(s).told = NumbersOf(Held(CallList(s)))
                 /\ HasNumbers(tapi_call_get_ecc_list(s))
      <3>1. CallList(s) \in Cells /\ Known(CallList(s)) /\ ready
        BY <2>1 DEF LooksAtLists, Lists
      <3>2. Cached(CallList(s)) = Held(CallList(s)) /\ proxy[Object(CallList(s))] # 0
        BY <3>1, Settled DEF Known
      <3>3. Cached(CallList(s)) # Missing
        <4>1. NumbersOf(Missing) = {}
          BY DEF NumbersOf, Missing
        <4> QED
          BY <2>1, <3>2, <4>1
      <3>4. tapi_call_get_ecc_list(s)
               = [result |-> "OK", told |-> NumbersOf(Held(CallList(s)))]
        BY <3>1, <3>2, <3>3 DEF tapi_call_get_ecc_list
      <3> QED
        BY <2>1, <3>4 DEF HasNumbers
    <2>2. \A s \in Slots : 0..s \subseteq Slots
      BY PropertyAssumption DEF Slots
    <2> QED
      BY <2>1, <2>2 DEF tapi_call_is_emergency_number
  <1> QED
    BY <1>1, NewsInvariance, PTL
=============================================================================
