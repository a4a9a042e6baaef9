---------------------------- MODULE ReadableProofs ----------------------------
(***************************************************************************)
(* The proof that a modem that is alive is readable (TapiContext), for     *)
(* every number of slots, every table of interfaces and every bound.       *)
(*                                                                         *)
(* A getter that does not work yet has one of three reasons to hope: the   *)
(* read of its proxy has not been answered, the answer has not been        *)
(* dispatched, or the modem of some slot is about to be seen coming alive, *)
(* which replaces all proxies.  The invariant says that one of them is     *)
(* there; the rest of it is what keeps it there.                           *)
(***************************************************************************)
EXTENDS TapiContextProofs

\* Where the read of an interface waits for oFono, and where its answer waits for gdbus.
AskedAt(q, s, i, n)    == {k \in 1..Len(q) : q[k] = GetProperties(s, i, n)}
AnsweredAt(q, s, i, n) == {k \in 1..Len(q) : /\ q[k].type = "Properties" /\ q[k].slot = s
                                             /\ q[k].interface = i /\ q[k].gen = n}
ModemAskedAt(q, s)     == {k \in 1..Len(q) : q[k].slot = s /\ q[k].interface = Modem}

StateOf(e, s) == e.type = "ModemState" /\ e.slot = s

\* What on_modem_property_change knows of a slot after the first k events, if it knows
\* view now.
Known(view, q, s, k, x) ==
    \/ \E j \in 1..k : /\ q[j] = ModemStateIs(s, x)
                       /\ \A l \in (j + 1)..k : ~StateOf(q[l], s)
    \/ view[s] = x /\ \A l \in 1..k : ~StateOf(q[l], s)

\* The events make it see some modem come alive.
ComesAlive(view, q) ==
    \E s \in Slots, k \in 1..Len(q) :
        q[k] = ModemStateIs(s, "alive") /\ Known(view, q, s, k - 1, "aware")

\* The proxies are of the last generation, and nothing under way is of a later one.
GenInv ==
    /\ gen >= 1
    /\ \A s \in Slots, i \in Readable : proxy[s][i] = gen
    /\ \A k \in 1..Len(calls) : calls[k].gen <= gen
    /\ \A k \in 1..Len(events) : events[k].type = "Properties" => events[k].gen <= gen

\* A proxy is read once: the read waits, or its answer does, or the properties are there.
OnceInv ==
    \A s \in Slots, i \in Readable :
        /\ \A k, l \in AskedAt(calls, s, i, gen) : k = l
        /\ \A k, l \in AnsweredAt(events, s, i, gen) : k = l
        /\ AskedAt(calls, s, i, gen) = {} \/ AnsweredAt(events, s, i, gen) = {}
        /\ cache[s][i] # 0 => AskedAt(calls, s, i, gen) = {} /\ AnsweredAt(events, s, i, gen) = {}

\* The library asks for the state of a modem, or what it will know of it is true.
ViewInv ==
    \A s \in Slots : \/ ModemAskedAt(calls, s) # {}
                     \/ Known(modemState, events, s, Len(events), modem[s])

\* The properties of a slot are asked for after the state of its modem.
OrderInv ==
    \A s \in Slots : \A k \in ModemAskedAt(calls, s) : \A i \in Readable :
        \E l \in AskedAt(calls, s, i, gen) : l > k

ReadInv ==
    \A s \in Slots, i \in Readable :
        modem[s] = "alive" =>
            \/ cache[s][i] = life[s]
            \/ AskedAt(calls, s, i, gen) # {}
            \/ \E k \in 1..Len(events) : events[k] = Properties(s, i, gen, life[s])
            \/ ComesAlive(modemState, events)

LifeInv == \A s \in Slots : life[s] >= 1

OpenInv == GenInv /\ OnceInv /\ ViewInv /\ OrderInv /\ ReadInv

HopeInv == LifeInv /\ (phase = "open" => OpenInv)

-----------------------------------------------------------------------------
(* What is known after some of the events *)

LEMMA TailAt ==
    ASSUME NEW S, NEW q \in Seq(S), q # <<>>
    PROVE  /\ Tail(q) \in Seq(S) /\ Len(Tail(q)) = Len(q) - 1 /\ Len(q) \in Nat \ {0}
           /\ Head(q) = q[1]
           /\ \A k \in 1..(Len(q) - 1) : Tail(q)[k] = q[k + 1]
  OBVIOUS

LEMMA AppendAt ==
    ASSUME NEW S, NEW q \in Seq(S), NEW e \in S
    PROVE  /\ Append(q, e) \in Seq(S) /\ Len(Append(q, e)) = Len(q) + 1 /\ Len(q) \in Nat
           /\ Append(q, e)[Len(q) + 1] = e
           /\ \A k \in 1..Len(q) : Append(q, e)[k] = q[k]
  OBVIOUS

LEMMA KnownAppended ==
    ASSUME NEW view, NEW q \in Seq(Event), NEW e \in Event, NEW s, NEW x,
           NEW k \in 0..Len(q), Known(view, q, s, k, x)
    PROVE  Known(view, Append(q, e), s, k, x)
  <1>1. \A j \in 1..k : Append(q, e)[j] = q[j]
    BY AppendAt
  <1>2. CASE view[s] = x /\ \A l \in 1..k : ~StateOf(q[l], s)
    BY <1>1, <1>2 DEF Known
  <1>3. CASE \E j \in 1..k : q[j] = ModemStateIs(s, x) /\ \A l \in (j + 1)..k : ~StateOf(q[l], s)
    <2>1. PICK j \in 1..k : q[j] = ModemStateIs(s, x) /\ \A l \in (j + 1)..k : ~StateOf(q[l], s)
      BY <1>3
    <2>2. \A l \in (j + 1)..k : l \in 1..k
      OBVIOUS
    <2>3. \A l \in (j + 1)..k : ~StateOf(Append(q, e)[l], s)
      BY <1>1, <2>1, <2>2
    <2> QED
      BY <1>1, <2>1, <2>3 DEF Known
  <1> QED
    BY <1>2, <1>3 DEF Known

\* An event about the slot decides what is known after it, any other changes nothing.
LEMMA KnownLast ==
    ASSUME NEW view, NEW q \in Seq(Event), NEW s, NEW x
    PROVE  Known(view, Append(q, ModemStateIs(s, x)), s, Len(q) + 1, x)
  <1> DEFINE p == Append(q, ModemStateIs(s, x))
  <1>1. Len(q) + 1 \in 1..(Len(q) + 1) /\ p[Len(q) + 1] = ModemStateIs(s, x)
    OBVIOUS
  <1>2. \A l \in ((Len(q) + 1) + 1)..(Len(q) + 1) : FALSE
    OBVIOUS
  <1> QED
    BY <1>1, <1>2 DEF Known

LEMMA KnownOther ==
    ASSUME NEW view, NEW q \in Seq(Event), NEW e \in Event, NEW s, NEW x,
           ~StateOf(e, s), Known(view, q, s, Len(q), x)
    PROVE  Known(view, Append(q, e), s, Len(q) + 1, x)
  <1> DEFINE p == Append(q, e)
  <1>1. /\ p[Len(q) + 1] = e /\ Len(q) \in Nat
        /\ \A k \in 1..Len(q) : p[k] = q[k]
    BY AppendAt
  <1> HIDE DEF p
  <1>2. CASE view[s] = x /\ \A l \in 1..Len(q) : ~StateOf(q[l], s)
    <2>1. \A l \in 1..(Len(q) + 1) : l \in 1..Len(q) \/ l = Len(q) + 1
      BY <1>1
    <2>2. \A l \in 1..(Len(q) + 1) : ~StateOf(p[l], s)
      BY <1>1, <1>2, <2>1
    <2> QED
      BY <1>2, <2>2 DEF Known, p
  <1>3. CASE \E j \in 1..Len(q) :
                q[j] = ModemStateIs(s, x) /\ \A l \in (j + 1)..Len(q) : ~StateOf(q[l], s)
    <2>1. PICK j \in 1..Len(q) :
              q[j] = ModemStateIs(s, x) /\ \A l \in (j + 1)..Len(q) : ~StateOf(q[l], s)
      BY <1>3
    <2>2. \A l \in (j + 1)..(Len(q) + 1) :
              (l \in (j + 1)..Len(q) /\ l \in 1..Len(q)) \/ l = Len(q) + 1
      BY <1>1
    <2>3. \A l \in (j + 1)..(Len(q) + 1) : ~StateOf(p[l], s)
      BY <1>1, <2>1, <2>2
    <2>4. j \in 1..(Len(q) + 1) /\ p[j] = ModemStateIs(s, x)
      BY <1>1, <2>1
    <2> QED
      BY <2>3, <2>4 DEF Known, p
  <1> QED
    BY <1>2, <1>3 DEF Known

\* Dispatching the first event.
LEMMA KnownTail ==
    ASSUME NEW view, NEW view2, NEW q \in Seq(Event), q # <<>>, NEW s, NEW x,
           NEW k \in 1..Len(q), Known(view, q, s, k, x),
           StateOf(Head(q), s) => view2[s] = Head(q).state,
           ~StateOf(Head(q), s) => view2[s] = view[s]
    PROVE  Known(view2, Tail(q), s, k - 1, x)
  <1>1. /\ Head(q) = q[1] /\ Len(q) \in Nat
        /\ \A l \in 1..(Len(q) - 1) : Tail(q)[l] = q[l + 1]
    BY TailAt
  <1>2. \A l \in 1..(k - 1) : l \in 1..(Len(q) - 1) /\ l + 1 \in 2..k /\ l + 1 \in 1..k
    BY <1>1
  <1>3. \A l \in 1..(k - 1) : Tail(q)[l] = q[l + 1]
    BY <1>1, <1>2
  <1>4. CASE view[s] = x /\ \A l \in 1..k : ~StateOf(q[l], s)
    <2>1. view2[s] = x
      BY <1>1, <1>4
    <2>2. \A l \in 1..(k - 1) : ~StateOf(Tail(q)[l], s)
      BY <1>2, <1>3, <1>4
    <2> QED
      BY <2>1, <2>2 DEF Known
  <1>5. CASE \E j \in 1..k : q[j] = ModemStateIs(s, x) /\ \A l \in (j + 1)..k : ~StateOf(q[l], s)
    <2>1. PICK j \in 1..k : q[j] = ModemStateIs(s, x) /\ \A l \in (j + 1)..k : ~StateOf(q[l], s)
      BY <1>5
    <2>2. CASE j = 1
      <3>1. StateOf(Head(q), s) /\ Head(q).state = x
        BY <1>1, <2>1, <2>2 DEF StateOf, ModemStateIs
      <3>2. \A l \in 1..(k - 1) : l + 1 \in (j + 1)..k
        BY <1>2, <2>2
      <3>3. \A l \in 1..(k - 1) : ~StateOf(Tail(q)[l], s)
        BY <1>3, <2>1, <3>2
      <3> QED
        BY <3>1, <3>3 DEF Known
    <2>3. CASE j # 1
      <3>1. j - 1 \in 1..(k - 1) /\ Tail(q)[j - 1] = q[j]
        BY <1>3, <2>3
      <3>2. \A l \in ((j - 1) + 1)..(k - 1) : l \in 1..(k - 1) /\ l + 1 \in (j + 1)..k
        BY <2>3
      <3>3. \A l \in ((j - 1) + 1)..(k - 1) : ~StateOf(Tail(q)[l], s)
        BY <1>3, <2>1, <3>2
      <3> QED
        BY <2>1, <3>1, <3>3 DEF Known
    <2> QED
      BY <2>2, <2>3
  <1> QED
    BY <1>4, <1>5 DEF Known

LEMMA ComesAliveAppended ==
    ASSUME NEW view, NEW q \in Seq(Event), NEW e \in Event, ComesAlive(view, q)
    PROVE  ComesAlive(view, Append(q, e))
  <1>1. PICK s \in Slots, k \in 1..Len(q) :
            q[k] = ModemStateIs(s, "alive") /\ Known(view, q, s, k - 1, "aware")
    BY DEF ComesAlive
  <1>2. k - 1 \in 0..Len(q)
    OBVIOUS
  <1>3. Known(view, Append(q, e), s, k - 1, "aware")
    BY <1>1, <1>2, KnownAppended
  <1>4. Append(q, e)[k] = q[k] /\ k \in 1..Len(Append(q, e))
    BY AppendAt
  <1> QED
    BY <1>1, <1>3, <1>4 DEF ComesAlive

\* A modem that was known to be aware comes alive.
LEMMA AliveAppended ==
    ASSUME NEW view, NEW q \in Seq(Event), NEW s \in Slots, Known(view, q, s, Len(q), "aware")
    PROVE  ComesAlive(view, Append(q, ModemStateIs(s, "alive")))
  <1> DEFINE e == ModemStateIs(s, "alive")
  <1>1. e \in Event
    BY DEF ModemStateIs, Event, States
  <1>2. Len(q) \in 0..Len(q)
    OBVIOUS
  <1>3. Known(view, Append(q, e), s, Len(q), "aware")
    BY <1>1, <1>2, KnownAppended
  <1>4. /\ Len(q) + 1 \in 1..Len(Append(q, e)) /\ Append(q, e)[Len(q) + 1] = e
        /\ (Len(q) + 1) - 1 = Len(q)
    OBVIOUS
  <1> HIDE DEF e
  <1>5. Known(view, Append(q, e), s, (Len(q) + 1) - 1, "aware")
    BY <1>3, <1>4
  <1> QED
    BY <1>4, <1>5 DEF ComesAlive, e

LEMMA ComesAliveTail ==
    ASSUME NEW view, NEW view2, NEW q \in Seq(Event), q # <<>>, ComesAlive(view, q),
           \A s \in Slots : /\ StateOf(Head(q), s) => view2[s] = Head(q).state
                            /\ ~StateOf(Head(q), s) => view2[s] = view[s]
    PROVE  \/ ComesAlive(view2, Tail(q))
           \/ \E s \in Slots : Head(q) = ModemStateIs(s, "alive") /\ view[s] = "aware"
  <1>1. PICK s \in Slots, k \in 1..Len(q) :
            q[k] = ModemStateIs(s, "alive") /\ Known(view, q, s, k - 1, "aware")
    BY DEF ComesAlive
  <1>2. CASE k = 1
    <2>1. Known(view, q, s, 0, "aware")
      BY <1>1, <1>2
    <2>2. view[s] = "aware"
      BY <2>1 DEF Known
    <2> QED
      BY <1>1, <1>2, <2>2, TailAt
  <1>3. CASE k # 1
    <2>1. k - 1 \in 1..Len(q) /\ k - 1 \in 1..(Len(q) - 1)
      BY <1>3
    <2>2. Known(view2, Tail(q), s, (k - 1) - 1, "aware")
      BY <1>1, <2>1, KnownTail
    <2>3. Tail(q)[k - 1] = q[k] /\ k - 1 \in 1..Len(Tail(q))
      BY <2>1, TailAt
    <2> QED
      BY <1>1, <2>2, <2>3 DEF ComesAlive
  <1> QED
    BY <1>2, <1>3

-----------------------------------------------------------------------------
(* What waits after a step *)

LEMMA AskedTail ==
    ASSUME NEW q \in Seq(Call), q # <<>>, NEW s, NEW i, NEW n
    PROVE  /\ \A k \in AskedAt(Tail(q), s, i, n) : k + 1 \in AskedAt(q, s, i, n)
           /\ \A k \in AskedAt(q, s, i, n) : k # 1 => k - 1 \in AskedAt(Tail(q), s, i, n)
           /\ 1 \in AskedAt(q, s, i, n) <=> Head(q) = GetProperties(s, i, n)
  <1>1. /\ Head(q) = q[1] /\ Len(q) \in Nat \ {0} /\ Len(Tail(q)) = Len(q) - 1
        /\ \A l \in 1..(Len(q) - 1) : Tail(q)[l] = q[l + 1]
    BY TailAt
  <1>2. \A k \in 1..(Len(q) - 1) : k + 1 \in 1..Len(q)
    BY <1>1
  <1>3. \A k \in 1..Len(q) : k # 1 => k - 1 \in 1..(Len(q) - 1) /\ (k - 1) + 1 = k
    BY <1>1
  <1>4. \A k \in AskedAt(Tail(q), s, i, n) : k + 1 \in AskedAt(q, s, i, n)
    BY <1>1, <1>2 DEF AskedAt
  <1>5. \A k \in AskedAt(q, s, i, n) : k # 1 => k - 1 \in AskedAt(Tail(q), s, i, n)
    BY <1>1, <1>3 DEF AskedAt
  <1>6. 1 \in AskedAt(q, s, i, n) <=> Head(q) = GetProperties(s, i, n)
    BY <1>1 DEF AskedAt
  <1> QED
    BY <1>4, <1>5, <1>6

LEMMA ModemAskedTail ==
    ASSUME NEW q \in Seq(Call), q # <<>>, NEW s
    PROVE  /\ \A k \in ModemAskedAt(Tail(q), s) : k + 1 \in ModemAskedAt(q, s)
           /\ \A k \in ModemAskedAt(q, s) : k # 1 => k - 1 \in ModemAskedAt(Tail(q), s)
           /\ 1 \in ModemAskedAt(q, s) <=> Head(q).slot = s /\ Head(q).interface = Modem
  <1>1. /\ Head(q) = q[1] /\ Len(q) \in Nat \ {0} /\ Len(Tail(q)) = Len(q) - 1
        /\ \A l \in 1..(Len(q) - 1) : Tail(q)[l] = q[l + 1]
    BY TailAt
  <1>2. \A k \in 1..(Len(q) - 1) : k + 1 \in 1..Len(q)
    BY <1>1
  <1>3. \A k \in 1..Len(q) : k # 1 => k - 1 \in 1..(Len(q) - 1) /\ (k - 1) + 1 = k
    BY <1>1
  <1>4. \A k \in ModemAskedAt(Tail(q), s) : k + 1 \in ModemAskedAt(q, s)
    BY <1>1, <1>2 DEF ModemAskedAt
  <1>5. \A k \in ModemAskedAt(q, s) : k # 1 => k - 1 \in ModemAskedAt(Tail(q), s)
    BY <1>1, <1>3 DEF ModemAskedAt
  <1>6. 1 \in ModemAskedAt(q, s) <=> Head(q).slot = s /\ Head(q).interface = Modem
    BY <1>1 DEF ModemAskedAt
  <1> QED
    BY <1>4, <1>5, <1>6

LEMMA AnsweredTail ==
    ASSUME NEW q \in Seq(Event), q # <<>>, NEW s, NEW i, NEW n
    PROVE  /\ \A k \in AnsweredAt(Tail(q), s, i, n) : k + 1 \in AnsweredAt(q, s, i, n)
           /\ 1 \in AnsweredAt(q, s, i, n) <=>
                 /\ Head(q).type = "Properties" /\ Head(q).slot = s
                 /\ Head(q).interface = i /\ Head(q).gen = n
  <1>1. /\ Head(q) = q[1] /\ Len(q) \in Nat \ {0} /\ Len(Tail(q)) = Len(q) - 1
        /\ \A l \in 1..(Len(q) - 1) : Tail(q)[l] = q[l + 1]
    BY TailAt
  <1>2. \A k \in 1..(Len(q) - 1) : k + 1 \in 1..Len(q)
    BY <1>1
  <1>3. \A k \in AnsweredAt(Tail(q), s, i, n) : k + 1 \in AnsweredAt(q, s, i, n)
    BY <1>1, <1>2 DEF AnsweredAt
  <1>4. 1 \in AnsweredAt(q, s, i, n) <=>
                 /\ Head(q).type = "Properties" /\ Head(q).slot = s
                 /\ Head(q).interface = i /\ Head(q).gen = n
    BY <1>1 DEF AnsweredAt
  <1> QED
    BY <1>3, <1>4

LEMMA AnsweredAppended ==
    ASSUME NEW q \in Seq(Event), NEW e \in Event, NEW s, NEW i, NEW n
    PROVE  \A k \in AnsweredAt(Append(q, e), s, i, n) :
              \/ k \in AnsweredAt(q, s, i, n)
              \/ /\ k = Len(q) + 1 /\ e.type = "Properties" /\ e.slot = s
                 /\ e.interface = i /\ e.gen = n
  <1>1. /\ Len(Append(q, e)) = Len(q) + 1 /\ Len(q) \in Nat
        /\ Append(q, e)[Len(q) + 1] = e
        /\ \A k \in 1..Len(q) : Append(q, e)[k] = q[k]
    BY AppendAt
  <1>2. \A k \in 1..(Len(q) + 1) : k \in 1..Len(q) \/ k = Len(q) + 1
    BY <1>1
  <1> QED
    BY <1>1, <1>2 DEF AnsweredAt

LEMMA ConcatAt ==
    ASSUME NEW S, NEW p \in Seq(S), NEW q \in Seq(S)
    PROVE  /\ p \o q \in Seq(S) /\ Len(p \o q) = Len(p) + Len(q)
           /\ Len(p) \in Nat /\ Len(q) \in Nat
           /\ \A k \in 1..Len(p) : (p \o q)[k] = p[k]
           /\ \A k \in 1..Len(q) : (p \o q)[k + Len(p)] = q[k]
           /\ \A k \in 1..Len(p \o q) : k \in 1..Len(p) \/ k - Len(p) \in 1..Len(q)
  OBVIOUS

LEMMA AskedConcat ==
    ASSUME NEW p \in Seq(Call), NEW q \in Seq(Call), NEW s, NEW i, NEW n
    PROVE  /\ \A k \in AskedAt(p \o q, s, i, n) :
                 k \in AskedAt(p, s, i, n) \/ k - Len(p) \in AskedAt(q, s, i, n)
           /\ \A k \in AskedAt(p, s, i, n) : k \in AskedAt(p \o q, s, i, n)
           /\ \A k \in AskedAt(q, s, i, n) : k + Len(p) \in AskedAt(p \o q, s, i, n)
  <1>1. /\ Len(p \o q) = Len(p) + Len(q) /\ Len(p) \in Nat /\ Len(q) \in Nat
        /\ \A k \in 1..Len(p) : (p \o q)[k] = p[k]
        /\ \A k \in 1..Len(q) : (p \o q)[k + Len(p)] = q[k]
        /\ \A k \in 1..Len(p \o q) : k \in 1..Len(p) \/ k - Len(p) \in 1..Len(q)
    BY ConcatAt
  <1>2. \A k \in 1..Len(p \o q) : k - Len(p) \in 1..Len(q) => (p \o q)[k] = q[k - Len(p)]
    <2>1. \A k \in 1..Len(p \o q) : (k - Len(p)) + Len(p) = k
      BY <1>1
    <2> QED
      BY <1>1, <2>1
  <1>3. /\ \A k \in 1..Len(p) : k \in 1..Len(p \o q)
        /\ \A k \in 1..Len(q) : k + Len(p) \in 1..Len(p \o q)
    BY <1>1
  <1> QED
    BY <1>1, <1>2, <1>3 DEF AskedAt

LEMMA ModemAskedConcat ==
    ASSUME NEW p \in Seq(Call), NEW q \in Seq(Call), NEW s
    PROVE  /\ \A k \in ModemAskedAt(p \o q, s) :
                 k \in ModemAskedAt(p, s) \/ k - Len(p) \in ModemAskedAt(q, s)
           /\ \A k \in ModemAskedAt(p, s) : k \in ModemAskedAt(p \o q, s)
  <1>1. /\ Len(p \o q) = Len(p) + Len(q) /\ Len(p) \in Nat /\ Len(q) \in Nat
        /\ \A k \in 1..Len(p) : (p \o q)[k] = p[k]
        /\ \A k \in 1..Len(q) : (p \o q)[k + Len(p)] = q[k]
        /\ \A k \in 1..Len(p \o q) : k \in 1..Len(p) \/ k - Len(p) \in 1..Len(q)
    BY ConcatAt
  <1>2. \A k \in 1..Len(p \o q) : k - Len(p) \in 1..Len(q) => (p \o q)[k] = q[k - Len(p)]
    <2>1. \A k \in 1..Len(p \o q) : (k - Len(p)) + Len(p) = k
      BY <1>1
    <2> QED
      BY <1>1, <2>1
  <1>3. \A k \in 1..Len(p) : k \in 1..Len(p \o q)
    BY <1>1
  <1> QED
    BY <1>1, <1>2, <1>3 DEF ModemAskedAt

\* The calls of new proxies of a generation: each interface that is read, once.
LEMMA NewReads ==
    ASSUME NEW n \in Nat
    PROVE  LET q == get_mutable_dbus_proxy(n)
           IN  /\ q \in Seq(Call)
               /\ \A k \in 1..Len(q) : q[k].gen = n
               /\ \A s \in Slots, i \in Readable :
                     /\ AskedAt(q, s, i, n) # {}
                     /\ \A k, l \in AskedAt(q, s, i, n) : k = l
               /\ \A s \in Slots : ModemAskedAt(q, s) = {}
  <1> DEFINE q == get_mutable_dbus_proxy(n)
  <1>1. /\ q \in Seq(Call)
        /\ \A k \in 1..Len(q) : q[k].interface \in Readable /\ q[k].gen = n
        /\ \A s \in Slots, i \in Readable : \E k \in 1..Len(q) : q[k] = GetProperties(s, i, n)
        /\ \A k, l \in 1..Len(q) : q[k] = q[l] => k = l
    BY MutableCalls
  <1> HIDE DEF q
  <1>2. Modem \notin Readable
    BY Constants
  <1>3. \A s \in Slots, i \in Readable :
           /\ AskedAt(q, s, i, n) # {}
           /\ \A k, l \in AskedAt(q, s, i, n) : k = l
    BY <1>1 DEF AskedAt
  <1>4. \A s \in Slots : ModemAskedAt(q, s) = {}
    BY <1>1, <1>2 DEF ModemAskedAt
  <1> QED
    BY <1>1, <1>3, <1>4 DEF q

-----------------------------------------------------------------------------
(* The steps *)

LEMMA Typing ==
    ASSUME IInv
    PROVE  /\ calls \in Seq(Call) /\ events \in Seq(Event) /\ gen \in Nat
           /\ proxy \in Count /\ cache \in Count
           /\ modem \in [Slots -> States] /\ life \in [Slots -> Nat]
           /\ modemState \in [Slots -> States]
  BY DEF IInv, TypeOK

\* Outside an open context only the lives count.
LEMMA NotOpen ==
    ASSUME HopeInv, phase' # "open", UNCHANGED life
    PROVE  HopeInv'
  BY DEF HopeInv, LifeInv

LEMMA NothingMoves ==
    ASSUME HopeInv, phase' = phase, UNCHANGED <<modemState, proxyVars, ofonoVars, calls, events>>
    PROVE  HopeInv'
  BY DEF HopeInv, LifeInv, OpenInv, GenInv, OnceInv, ViewInv, OrderInv, ReadInv, proxyVars, ofonoVars

LEMMA ConnectHope ==
    ASSUME IInv, HopeInv, Connect
    PROVE  HopeInv'
  <1> DEFINE n == gen + 1
             p == get_persistent_dbus_proxy(n)
             q == get_mutable_dbus_proxy(n)
  <1>1. /\ n \in Nat /\ n >= 1 /\ gen' = n /\ calls' = p \o q
        /\ cache' = Blank /\ events' = <<>> /\ life' = life
        /\ proxy' = Table(Interfaces, n)
    BY Typing DEF Connect, IInv, BlankInv, InOpen, OpenSteps, ofonoVars
  <1>2. /\ q \in Seq(Call)
        /\ \A k \in 1..Len(q) : q[k].gen = n
        /\ \A s \in Slots, i \in Readable :
              /\ AskedAt(q, s, i, n) # {}
              /\ \A k, l \in AskedAt(q, s, i, n) : k = l
        /\ \A s \in Slots : ModemAskedAt(q, s) = {}
    BY <1>1, NewReads
  <1>3. /\ p \in Seq(Call) /\ Len(p) = ModemCount /\ ModemCount \in Nat \ {0}
        /\ \A k \in 1..ModemCount : p[k] = GetProperties(k - 1, Modem, n)
    BY <1>1, PersistentCalls, Constants
  <1>4. \A s \in Slots, i \in Readable : Table(Interfaces, n)[s][i] = n
    BY <1>1, Constants DEF Table, Readable
  <1> HIDE DEF n, p, q
  <1>5. \A s \in Slots, i \in Readable : AskedAt(p, s, i, n) = {}
    BY <1>3, Constants DEF AskedAt, GetProperties
  <1>6. \A s \in Slots : s + 1 \in ModemAskedAt(p, s)
    BY <1>3 DEF ModemAskedAt, GetProperties, Slots
  <1>7. /\ Len(p) \in Nat /\ Len(q) \in Nat /\ Len(p \o q) = Len(p) + Len(q)
        /\ \A k \in 1..Len(p) : (p \o q)[k] = p[k]
        /\ \A k \in 1..Len(q) : (p \o q)[k + Len(p)] = q[k]
        /\ \A k \in 1..Len(p \o q) : k \in 1..Len(p) \/ k - Len(p) \in 1..Len(q)
    <2>1. p \in Seq(Call) /\ q \in Seq(Call)
      BY <1>2, <1>3
    <2> QED
      BY <2>1, ConcatAt
  <1>8. \A k \in 1..Len(p \o q) : (p \o q)[k].gen = n
    <2> SUFFICES ASSUME NEW k \in 1..Len(p \o q)
                 PROVE  (p \o q)[k].gen = n
      OBVIOUS
    <2>1. CASE k \in 1..Len(p)
      BY <1>3, <1>7, <2>1 DEF GetProperties
    <2>2. CASE k - Len(p) \in 1..Len(q)
      <3>1. (p \o q)[(k - Len(p)) + Len(p)] = q[k - Len(p)] /\ (k - Len(p)) + Len(p) = k
        BY <1>7, <2>2
      <3> QED
        BY <1>2, <2>2, <3>1
    <2> QED
      BY <1>7, <2>1, <2>2
  <1>9. GenInv'
    BY <1>1, <1>4, <1>8 DEF GenInv
  <1>10. ASSUME NEW s \in Slots, NEW i \in Readable
         PROVE  /\ AskedAt(p \o q, s, i, n) # {}
                /\ \A k, l \in AskedAt(p \o q, s, i, n) : k = l
                /\ \A k \in AskedAt(p \o q, s, i, n) : k > Len(p)
    <2>0. p \in Seq(Call) /\ q \in Seq(Call) /\ AskedAt(p, s, i, n) = {}
      BY <1>2, <1>3, <1>5
    <2>1. \A k \in AskedAt(p \o q, s, i, n) :
             k \in Int /\ k - Len(p) \in AskedAt(q, s, i, n)
      <3>1. \A k \in AskedAt(p \o q, s, i, n) : k - Len(p) \in AskedAt(q, s, i, n)
        BY <2>0, AskedConcat
      <3>2. \A k \in AskedAt(p \o q, s, i, n) : k \in Int
        BY DEF AskedAt
      <3> QED
        BY <3>1, <3>2
    <2>2. \A k \in AskedAt(p \o q, s, i, n) : k - Len(p) \in 1..Len(q)
      BY <2>1 DEF AskedAt
    <2>3. \A k \in AskedAt(q, s, i, n) : k + Len(p) \in AskedAt(p \o q, s, i, n)
      BY <1>2, <1>3, AskedConcat
    <2>4. AskedAt(q, s, i, n) # {} /\ \A k, l \in AskedAt(q, s, i, n) : k = l
      BY <1>2
    <2>5. \A k, l \in AskedAt(p \o q, s, i, n) : k = l
      <3> SUFFICES ASSUME NEW k \in AskedAt(p \o q, s, i, n), NEW l \in AskedAt(p \o q, s, i, n)
                   PROVE  k = l
        OBVIOUS
      <3>1. k - Len(p) = l - Len(p) /\ k \in Int /\ l \in Int
        BY <2>1, <2>4
      <3> QED
        BY <1>7, <3>1
    <2>6. \A k \in AskedAt(p \o q, s, i, n) : k > Len(p)
      BY <1>7, <2>1, <2>2
    <2> QED
      BY <2>3, <2>4, <2>5, <2>6
  <1>11. \A s \in Slots, i \in Readable : AnsweredAt(<<>>, s, i, n) = {}
    BY DEF AnsweredAt
  <1>12. OnceInv'
    BY <1>1, <1>10, <1>11, Constants DEF OnceInv, Blank, Interfaces
  <1>13. ViewInv'
    <2>1. \A s \in Slots : ModemAskedAt(p \o q, s) # {}
      BY <1>2, <1>3, <1>6, ModemAskedConcat
    <2> QED
      BY <1>1, <2>1 DEF ViewInv
  <1>14. OrderInv'
    <2> SUFFICES ASSUME NEW s \in Slots, NEW k \in ModemAskedAt(p \o q, s), NEW i \in Readable
                 PROVE  \E l \in AskedAt(p \o q, s, i, n) : l > k
      BY <1>1 DEF OrderInv
    <2>1. k \in ModemAskedAt(p, s)
      BY <1>2, <1>3, ModemAskedConcat
    <2>2. k \in 1..Len(p)
      BY <2>1 DEF ModemAskedAt
    <2>3. PICK l \in AskedAt(p \o q, s, i, n) : l > Len(p)
      BY <1>10
    <2>4. l \in Int
      BY DEF AskedAt
    <2> QED
      BY <1>7, <2>2, <2>3, <2>4
  <1>15. ReadInv'
    BY <1>1, <1>10 DEF ReadInv
  <1> QED
    BY <1>1, <1>9, <1>12, <1>13, <1>14, <1>15 DEF HopeInv, OpenInv, LifeInv

\* What dispatching the first event does to what is known, whichever it is.
LEMMA ViewTail ==
    ASSUME IInv, ViewInv, events # <<>>, NEW s \in Slots, ModemAskedAt(calls, s) = {},
           NEW view,
           StateOf(Head(events), s) => view[s] = Head(events).state,
           ~StateOf(Head(events), s) => view[s] = modemState[s]
    PROVE  Known(view, Tail(events), s, Len(Tail(events)), modem[s])
  <1>1. Known(modemState, events, s, Len(events), modem[s])
    BY DEF ViewInv
  <1>2. /\ events \in Seq(Event) /\ Len(events) \in 1..Len(events)
        /\ Len(Tail(events)) = Len(events) - 1
    BY Typing, TailAt
  <1>3. Known(view, Tail(events), s, Len(events) - 1, modem[s])
    BY <1>1, <1>2, KnownTail
  <1> QED
    BY <1>2, <1>3

LEMMA GenTail ==
    ASSUME IInv, GenInv, events # <<>>
    PROVE  \A k \in 1..Len(Tail(events)) :
              Tail(events)[k].type = "Properties" => Tail(events)[k].gen <= gen
  <1>1. /\ events \in Seq(Event) /\ Len(Tail(events)) = Len(events) - 1 /\ Len(events) \in Nat
        /\ \A k \in 1..(Len(events) - 1) : Tail(events)[k] = events[k + 1]
    BY Typing, TailAt
  <1>2. \A k \in 1..(Len(events) - 1) : k + 1 \in 1..Len(events)
    BY <1>1
  <1> QED
    BY <1>1, <1>2 DEF GenInv

\* A modem comes alive and the proxies are replaced.
LEMMA ReplaceHope ==
    ASSUME IInv, HopeInv, ModemStateReported,
           modemState[Head(events).slot] = "aware" /\ Head(events).state = "alive"
    PROVE  HopeInv'
  <1> DEFINE n == gen + 1
             q == get_mutable_dbus_proxy(n)
             e == Head(events)
  <1>1. /\ n \in Nat /\ n >= 1 /\ gen' = n /\ calls' = calls \o q
        /\ cache' = Blank /\ events' = Tail(events) /\ modem' = modem /\ life' = life
        /\ proxy' = Table(Mutable, n) /\ modemState' = [modemState EXCEPT ![e.slot] = e.state]
        /\ events # <<>> /\ e.type = "ModemState" /\ phase = "open"
    BY Typing DEF ModemStateReported, on_modem_property_change, ofonoVars
  <1>2. /\ q \in Seq(Call)
        /\ \A k \in 1..Len(q) : q[k].gen = n
        /\ \A s \in Slots, i \in Readable :
              /\ AskedAt(q, s, i, n) # {}
              /\ \A k, l \in AskedAt(q, s, i, n) : k = l
        /\ \A s \in Slots : ModemAskedAt(q, s) = {}
    BY <1>1, NewReads
  <1>3. /\ calls \in Seq(Call) /\ events \in Seq(Event) /\ gen \in Nat /\ n = gen + 1
        /\ modemState \in [Slots -> States]
    BY Typing
  <1>4. \A s \in Slots, i \in Readable : Table(Mutable, n)[s][i] = n
    BY <1>1, Constants DEF Table, Readable
  <1>5. GenInv /\ ViewInv
    BY <1>1 DEF HopeInv, OpenInv
  <1>6. e.slot \in Slots /\ \A s \in Slots : StateOf(e, s) <=> s = e.slot
    <2>1. e \in Event
      BY <1>1, <1>3
    <2> QED
      BY <1>1, <2>1 DEF Event, StateOf
  <1> HIDE DEF n, q, e
  <1>7. \A s \in Slots, i \in Readable : AskedAt(calls, s, i, n) = {}
    <2>1. \A k \in 1..Len(calls) : calls[k].gen # n /\ calls[k] \in Call
      <3> SUFFICES ASSUME NEW k \in 1..Len(calls)
                   PROVE  calls[k].gen # n /\ calls[k] \in Call
        OBVIOUS
      <3>1. calls[k] \in Call /\ calls[k].gen <= gen
        BY <1>3, <1>5 DEF GenInv
      <3>2. calls[k].gen \in Nat
        BY <3>1 DEF Call
      <3> QED
        BY <1>3, <3>1, <3>2
    <2> QED
      BY <2>1 DEF AskedAt, GetProperties
  <1>8. \A k \in 1..Len(Tail(events)) :
           Tail(events)[k].type = "Properties" => Tail(events)[k].gen <= gen
    BY <1>1, <1>5, GenTail
  <1>9. \A s \in Slots, i \in Readable : AnsweredAt(Tail(events), s, i, n) = {}
    <2>1. ~(n <= gen)
      BY <1>3
    <2> QED
      BY <1>8, <2>1 DEF AnsweredAt
  <1>10. /\ Len(calls) \in Nat /\ Len(q) \in Nat /\ Len(calls \o q) = Len(calls) + Len(q)
         /\ \A k \in 1..Len(calls) : (calls \o q)[k] = calls[k]
         /\ \A k \in 1..Len(q) : (calls \o q)[k + Len(calls)] = q[k]
         /\ \A k \in 1..Len(calls \o q) : k \in 1..Len(calls) \/ k - Len(calls) \in 1..Len(q)
    BY <1>2, <1>3, ConcatAt
  <1>11. \A k \in 1..Len(calls \o q) : (calls \o q)[k].gen <= n
    <2> SUFFICES ASSUME NEW k \in 1..Len(calls \o q)
                 PROVE  (calls \o q)[k].gen <= n
      OBVIOUS
    <2>1. CASE k \in 1..Len(calls)
      <3>1. calls[k] \in Call /\ calls[k].gen <= gen
        BY <1>3, <1>5, <2>1 DEF GenInv
      <3>2. calls[k].gen \in Nat
        BY <3>1 DEF Call
      <3> QED
        BY <1>3, <1>10, <2>1, <3>1, <3>2
    <2>2. CASE k - Len(calls) \in 1..Len(q)
      <3>1. /\ (calls \o q)[(k - Len(calls)) + Len(calls)] = q[k - Len(calls)]
            /\ (k - Len(calls)) + Len(calls) = k
        BY <1>10, <2>2
      <3> QED
        BY <1>1, <1>2, <2>2, <3>1
    <2> QED
      BY <1>10, <2>1, <2>2
  <1>12. GenInv'
    <2>1. \A k \in 1..Len(Tail(events)) :
             Tail(events)[k].type = "Properties" => Tail(events)[k].gen <= n
      <3> SUFFICES ASSUME NEW k \in 1..Len(Tail(events)), Tail(events)[k].type = "Properties"
                   PROVE  Tail(events)[k].gen <= n
        OBVIOUS
      <3>1. Tail(events)[k] \in Event
        BY <1>1, <1>3, TailAt
      <3>2. Tail(events)[k].gen \in Nat
        BY <3>1 DEF Event
      <3> QED
        BY <1>3, <1>8, <3>2
    <2> QED
      BY <1>1, <1>4, <1>11, <2>1 DEF GenInv
  <1>13. ASSUME NEW s \in Slots, NEW i \in Readable
         PROVE  /\ AskedAt(calls \o q, s, i, n) # {}
                /\ \A k, l \in AskedAt(calls \o q, s, i, n) : k = l
                /\ \A k \in AskedAt(calls \o q, s, i, n) : k > Len(calls)
    <2>0. calls \in Seq(Call) /\ q \in Seq(Call) /\ AskedAt(calls, s, i, n) = {}
      BY <1>2, <1>3, <1>7
    <2>1. \A k \in AskedAt(calls \o q, s, i, n) :
             k \in Int /\ k - Len(calls) \in AskedAt(q, s, i, n)
      <3>1. \A k \in AskedAt(calls \o q, s, i, n) : k - Len(calls) \in AskedAt(q, s, i, n)
        BY <2>0, AskedConcat
      <3>2. \A k \in AskedAt(calls \o q, s, i, n) : k \in Int
        BY DEF AskedAt
      <3> QED
        BY <3>1, <3>2
    <2>2. \A k \in AskedAt(calls \o q, s, i, n) : k - Len(calls) \in 1..Len(q)
      BY <2>1 DEF AskedAt
    <2>3. \A k \in AskedAt(q, s, i, n) : k + Len(calls) \in AskedAt(calls \o q, s, i, n)
      BY <1>2, <1>3, AskedConcat
    <2>4. AskedAt(q, s, i, n) # {} /\ \A k, l \in AskedAt(q, s, i, n) : k = l
      BY <1>2
    <2>5. \A k, l \in AskedAt(calls \o q, s, i, n) : k = l
      <3> SUFFICES ASSUME NEW k \in AskedAt(calls \o q, s, i, n),
                          NEW l \in AskedAt(calls \o q, s, i, n)
                   PROVE  k = l
        OBVIOUS
      <3>1. k - Len(calls) = l - Len(calls) /\ k \in Int /\ l \in Int
        BY <2>1, <2>4
      <3> QED
        BY <1>10, <3>1
    <2>6. \A k \in AskedAt(calls \o q, s, i, n) : k > Len(calls)
      BY <1>10, <2>1, <2>2
    <2> QED
      BY <2>3, <2>4, <2>5, <2>6
  <1>14. OnceInv'
    BY <1>1, <1>9, <1>13, Constants DEF OnceInv, Blank, Interfaces
  <1>15. \A s \in Slots : /\ StateOf(e, s) => modemState'[s] = e.state
                          /\ ~StateOf(e, s) => modemState'[s] = modemState[s]
    BY <1>1, <1>3, <1>6
  <1>16. ViewInv'
    <2> SUFFICES ASSUME NEW s \in Slots, ModemAskedAt(calls \o q, s) = {}
                 PROVE  Known(modemState', Tail(events), s, Len(Tail(events)), modem[s])
      BY <1>1 DEF ViewInv
    <2>1. ModemAskedAt(calls, s) = {}
      BY <1>2, <1>3, ModemAskedConcat
    <2> QED
      BY <1>1, <1>5, <1>15, <2>1, ViewTail DEF e
  <1>17. OrderInv'
    <2> SUFFICES ASSUME NEW s \in Slots, NEW k \in ModemAskedAt(calls \o q, s), NEW i \in Readable
                 PROVE  \E l \in AskedAt(calls \o q, s, i, n) : l > k
      BY <1>1 DEF OrderInv
    <2>1. k \in ModemAskedAt(calls, s)
      BY <1>2, <1>3, ModemAskedConcat
    <2>2. k \in 1..Len(calls)
      BY <2>1 DEF ModemAskedAt
    <2>3. PICK l \in AskedAt(calls \o q, s, i, n) : l > Len(calls)
      BY <1>13
    <2>4. l \in Int
      BY DEF AskedAt
    <2> QED
      BY <1>10, <2>2, <2>3, <2>4
  <1>18. ReadInv'
    BY <1>1, <1>13 DEF ReadInv
  <1> QED
    BY <1>1, <1>12, <1>14, <1>16, <1>17, <1>18 DEF HopeInv, OpenInv, LifeInv

\* A change of state that replaces nothing.
LEMMA ReportHope ==
    ASSUME IInv, HopeInv, ModemStateReported,
           ~(modemState[Head(events).slot] = "aware" /\ Head(events).state = "alive")
    PROVE  HopeInv'
  <1> DEFINE e == Head(events)
  <1>1. /\ UNCHANGED <<proxy, cache, gen, calls, modem, life>> /\ events' = Tail(events)
        /\ modemState' = [modemState EXCEPT ![e.slot] = e.state]
        /\ events # <<>> /\ e.type = "ModemState" /\ phase = "open"
    BY DEF ModemStateReported, on_modem_property_change, proxyVars, ofonoVars
  <1>2. /\ events \in Seq(Event) /\ modemState \in [Slots -> States]
        /\ e \in Event /\ e = events[1] /\ Len(events) \in Nat
        /\ Len(Tail(events)) = Len(events) - 1
        /\ \A k \in 1..(Len(events) - 1) : Tail(events)[k] = events[k + 1]
    BY <1>1, Typing, TailAt
  <1>3. GenInv /\ OnceInv /\ ViewInv /\ OrderInv /\ ReadInv
    BY <1>1 DEF HopeInv, OpenInv
  <1>4. e.slot \in Slots /\ \A s \in Slots : StateOf(e, s) <=> s = e.slot
    BY <1>1, <1>2 DEF Event, StateOf
  <1>5. ~(modemState[e.slot] = "aware" /\ e.state = "alive")
    OBVIOUS
  <1> HIDE DEF e
  <1>6. \A s \in Slots : /\ StateOf(e, s) => modemState'[s] = e.state
                         /\ ~StateOf(e, s) => modemState'[s] = modemState[s]
    BY <1>1, <1>2, <1>4
  <1>7. GenInv'
    BY <1>1, <1>3, GenTail DEF GenInv
  <1>8. ASSUME NEW s \in Slots, NEW i \in Readable
        PROVE  \A k \in AnsweredAt(Tail(events), s, i, gen) :
                  k \in Int /\ k + 1 \in AnsweredAt(events, s, i, gen)
    <2>1. \A k \in AnsweredAt(Tail(events), s, i, gen) : k + 1 \in AnsweredAt(events, s, i, gen)
      BY <1>1, <1>2, AnsweredTail
    <2> QED
      BY <2>1 DEF AnsweredAt
  <1>9. OnceInv'
    <2> SUFFICES ASSUME NEW s \in Slots, NEW i \in Readable
                 PROVE  /\ \A k, l \in AnsweredAt(Tail(events), s, i, gen) : k = l
                        /\ AnsweredAt(events, s, i, gen) = {}
                               => AnsweredAt(Tail(events), s, i, gen) = {}
      BY <1>1, <1>3 DEF OnceInv
    <2>1. \A k, l \in AnsweredAt(events, s, i, gen) : k = l
      BY <1>3 DEF OnceInv
    <2>2. ASSUME NEW k \in AnsweredAt(Tail(events), s, i, gen),
                 NEW l \in AnsweredAt(Tail(events), s, i, gen)
          PROVE  k = l
      <3>1. k + 1 = l + 1 /\ k \in Int /\ l \in Int
        BY <1>8, <2>1
      <3> QED
        BY <3>1
    <2> QED
      BY <1>8, <2>2
  <1>10. ViewInv'
    <2> SUFFICES ASSUME NEW s \in Slots, ModemAskedAt(calls, s) = {}
                 PROVE  Known(modemState', Tail(events), s, Len(Tail(events)), modem[s])
      BY <1>1 DEF ViewInv
    <2> QED
      BY <1>1, <1>3, <1>6, ViewTail DEF e
  <1>11. OrderInv'
    BY <1>1, <1>3 DEF OrderInv
  <1>12. ReadInv'
    <2> SUFFICES ASSUME NEW s \in Slots, NEW i \in Readable, modem[s] = "alive"
                 PROVE  \/ cache[s][i] = life[s]
                        \/ AskedAt(calls, s, i, gen) # {}
                        \/ \E k \in 1..Len(Tail(events)) :
                              Tail(events)[k] = Properties(s, i, gen, life[s])
                        \/ ComesAlive(modemState', Tail(events))
      BY <1>1 DEF ReadInv
    <2>1. \/ cache[s][i] = life[s]
          \/ AskedAt(calls, s, i, gen) # {}
          \/ \E k \in 1..Len(events) : events[k] = Properties(s, i, gen, life[s])
          \/ ComesAlive(modemState, events)
      BY <1>3 DEF ReadInv
    <2>2. CASE \E k \in 1..Len(events) : events[k] = Properties(s, i, gen, life[s])
      <3>1. PICK k \in 1..Len(events) : events[k] = Properties(s, i, gen, life[s])
        BY <2>2
      <3>2. k # 1
        BY <1>1, <1>2, <3>1 DEF Properties
      <3>3. k - 1 \in 1..(Len(events) - 1) /\ (k - 1) + 1 = k
        BY <1>2, <3>2
      <3>4. Tail(events)[k - 1] = events[k] /\ k - 1 \in 1..Len(Tail(events))
        BY <1>2, <3>3
      <3> QED
        BY <3>1, <3>4
    <2>3. CASE ComesAlive(modemState, events)
      <3>1. \/ ComesAlive(modemState', Tail(events))
            \/ \E t \in Slots : e = ModemStateIs(t, "alive") /\ modemState[t] = "aware"
        BY <1>1, <1>2, <1>6, <2>3, ComesAliveTail DEF e
      <3>2. \A t \in Slots : e = ModemStateIs(t, "alive") => e.slot = t /\ e.state = "alive"
        BY DEF ModemStateIs
      <3> QED
        BY <1>5, <3>1, <3>2
    <2> QED
      BY <2>1, <2>2, <2>3
  <1> QED
    BY <1>1, <1>3, <1>7, <1>9, <1>10, <1>11, <1>12 DEF HopeInv, OpenInv, LifeInv

LEMMA ReadHope ==
    ASSUME IInv, HopeInv, PropertiesRead
    PROVE  HopeInv'
  <1> DEFINE e == Head(events)
  <1>1. /\ UNCHANGED <<proxy, gen, calls, modem, life, modemState>> /\ events' = Tail(events)
        /\ cache' = IF proxy[e.slot][e.interface] = e.gen /\ e.life # 0
                    THEN [cache EXCEPT ![e.slot][e.interface] = e.life] ELSE cache
        /\ events # <<>> /\ e.type = "Properties" /\ phase = "open"
    BY DEF PropertiesRead, ofonoVars
  <1>2. /\ events \in Seq(Event) /\ cache \in Count
        /\ e \in Event /\ e = events[1] /\ Len(events) \in Nat
        /\ Len(Tail(events)) = Len(events) - 1
        /\ \A k \in 1..(Len(events) - 1) : Tail(events)[k] = events[k + 1]
    BY <1>1, Typing, TailAt
  <1>3. GenInv /\ OnceInv /\ ViewInv /\ OrderInv /\ ReadInv
    BY <1>1 DEF HopeInv, OpenInv
  <1>4. /\ e.slot \in Slots /\ e.interface \in Mutable /\ e.gen \in Nat /\ e.life \in Nat
        /\ \A s \in Slots : ~StateOf(e, s)
    BY <1>1, <1>2 DEF Event, StateOf
  <1> HIDE DEF e
  <1>5. \A s \in Slots, i \in Readable : i \in Interfaces /\ proxy[s][i] = gen
    BY <1>3, Constants DEF GenInv
  <1>6. GenInv'
    BY <1>1, <1>3, GenTail DEF GenInv
  <1>7. ASSUME NEW s \in Slots, NEW i \in Readable, ~(e.slot = s /\ e.interface = i /\ e.gen = gen)
        PROVE  cache'[s][i] = cache[s][i]
    <2>1. CASE e.slot = s /\ e.interface = i
      BY <1>1, <1>5, <1>7, <2>1
    <2>2. CASE ~(e.slot = s /\ e.interface = i)
      BY <1>1, <1>2, <1>5, <2>2 DEF Count
    <2> QED
      BY <2>1, <2>2
  <1>8. ASSUME NEW s \in Slots, NEW i \in Readable
        PROVE  /\ \A k \in AnsweredAt(Tail(events), s, i, gen) :
                     k \in Nat \ {0} /\ k + 1 \in AnsweredAt(events, s, i, gen)
               /\ 1 \in AnsweredAt(events, s, i, gen)
                     <=> e.slot = s /\ e.interface = i /\ e.gen = gen
    <2>1. \A k \in AnsweredAt(Tail(events), s, i, gen) : k + 1 \in AnsweredAt(events, s, i, gen)
      BY <1>1, <1>2, AnsweredTail
    <2>2. 1 \in AnsweredAt(events, s, i, gen) <=> e.slot = s /\ e.interface = i /\ e.gen = gen
      BY <1>1, <1>2, AnsweredTail DEF e
    <2>3. \A k \in AnsweredAt(Tail(events), s, i, gen) : k \in Nat \ {0}
      BY DEF AnsweredAt
    <2> QED
      BY <2>1, <2>2, <2>3
  <1>9. ASSUME NEW s \in Slots, NEW i \in Readable
        PROVE  /\ \A k, l \in AnsweredAt(events, s, i, gen) : k = l
               /\ AskedAt(calls, s, i, gen) = {} \/ AnsweredAt(events, s, i, gen) = {}
               /\ cache[s][i] # 0 => AskedAt(calls, s, i, gen) = {}
                                     /\ AnsweredAt(events, s, i, gen) = {}
               /\ \A k, l \in AskedAt(calls, s, i, gen) : k = l
    BY <1>3 DEF OnceInv
  <1>10. OnceInv'
    <2> SUFFICES ASSUME NEW s \in Slots, NEW i \in Readable
                 PROVE  /\ \A k, l \in AnsweredAt(Tail(events), s, i, gen) : k = l
                        /\ AskedAt(calls, s, i, gen) = {} \/ AnsweredAt(Tail(events), s, i, gen) = {}
                        /\ cache'[s][i] # 0 => AskedAt(calls, s, i, gen) = {}
                                               /\ AnsweredAt(Tail(events), s, i, gen) = {}
      BY <1>1, <1>9 DEF OnceInv
    <2>1. \A k, l \in AnsweredAt(Tail(events), s, i, gen) : k = l
      <3> SUFFICES ASSUME NEW k \in AnsweredAt(Tail(events), s, i, gen),
                          NEW l \in AnsweredAt(Tail(events), s, i, gen)
                   PROVE  k = l
        OBVIOUS
      <3>1. k + 1 = l + 1 /\ k \in Nat /\ l \in Nat
        BY <1>8, <1>9
      <3> QED
        BY <3>1
    <2>2. AnsweredAt(events, s, i, gen) = {} => AnsweredAt(Tail(events), s, i, gen) = {}
      BY <1>8
    <2>3. CASE e.slot = s /\ e.interface = i /\ e.gen = gen
      <3>1. 1 \in AnsweredAt(events, s, i, gen)
        BY <1>8, <2>3
      <3>2. AnsweredAt(Tail(events), s, i, gen) = {}
        <4> SUFFICES ASSUME NEW k \in AnsweredAt(Tail(events), s, i, gen)
                     PROVE  FALSE
          OBVIOUS
        <4>1. k + 1 = 1 /\ k \in Nat \ {0}
          BY <1>8, <1>9, <3>1
        <4> QED
          BY <4>1
      <3>3. AskedAt(calls, s, i, gen) = {}
        BY <1>9, <3>1
      <3> QED
        BY <2>1, <3>2, <3>3
    <2>4. CASE ~(e.slot = s /\ e.interface = i /\ e.gen = gen)
      BY <1>7, <1>9, <2>1, <2>2, <2>4
    <2> QED
      BY <2>3, <2>4
  <1>11. ViewInv'
    <2> SUFFICES ASSUME NEW s \in Slots, ModemAskedAt(calls, s) = {}
                 PROVE  Known(modemState, Tail(events), s, Len(Tail(events)), modem[s])
      BY <1>1 DEF ViewInv
    <2> QED
      BY <1>1, <1>3, <1>4, ViewTail DEF e
  <1>12. OrderInv'
    BY <1>1, <1>3 DEF OrderInv
  <1>13. ReadInv'
    <2> SUFFICES ASSUME NEW s \in Slots, NEW i \in Readable, modem[s] = "alive"
                 PROVE  \/ cache'[s][i] = life[s]
                        \/ AskedAt(calls, s, i, gen) # {}
                        \/ \E k \in 1..Len(Tail(events)) :
                              Tail(events)[k] = Properties(s, i, gen, life[s])
                        \/ ComesAlive(modemState, Tail(events))
      BY <1>1 DEF ReadInv
    <2>0. life[s] # 0
      BY DEF HopeInv, LifeInv
    <2>1. \/ cache[s][i] = life[s]
          \/ AskedAt(calls, s, i, gen) # {}
          \/ \E k \in 1..Len(events) : events[k] = Properties(s, i, gen, life[s])
          \/ ComesAlive(modemState, events)
      BY <1>3 DEF ReadInv
    <2>2. CASE cache[s][i] = life[s]
      <3>1. 1 \notin AnsweredAt(events, s, i, gen)
        BY <1>9, <2>0, <2>2
      <3> QED
        BY <1>7, <1>8, <2>2, <3>1
    <2>3. CASE \E k \in 1..Len(events) : events[k] = Properties(s, i, gen, life[s])
      <3>1. PICK k \in 1..Len(events) : events[k] = Properties(s, i, gen, life[s])
        BY <2>3
      <3>2. CASE k = 1
        <4>1. e.slot = s /\ e.interface = i /\ e.gen = gen /\ e.life = life[s]
          BY <1>2, <3>1, <3>2 DEF Properties
        <4>2. cache' = [cache EXCEPT ![s][i] = life[s]]
          BY <1>1, <1>5, <2>0, <4>1
        <4> QED
          BY <1>2, <1>5, <4>2 DEF Count
      <3>3. CASE k # 1
        <4>1. k - 1 \in 1..(Len(events) - 1) /\ (k - 1) + 1 = k
          BY <1>2, <3>3
        <4>2. Tail(events)[k - 1] = events[k] /\ k - 1 \in 1..Len(Tail(events))
          BY <1>2, <4>1
        <4> QED
          BY <3>1, <4>2
      <3> QED
        BY <3>2, <3>3
    <2>4. CASE ComesAlive(modemState, events)
      <3>1. \/ ComesAlive(modemState, Tail(events))
            \/ \E t \in Slots : e = ModemStateIs(t, "alive") /\ modemState[t] = "aware"
        BY <1>1, <1>2, <1>4, <2>4, ComesAliveTail DEF e
      <3>2. \A t \in Slots : e # ModemStateIs(t, "alive")
        BY <1>1 DEF ModemStateIs
      <3> QED
        BY <3>1, <3>2
    <2> QED
      BY <2>1, <2>2, <2>3, <2>4
  <1> QED
    BY <1>1, <1>3, <1>6, <1>10, <1>11, <1>12, <1>13 DEF HopeInv, OpenInv, LifeInv

LEMMA AnswerHope ==
    ASSUME IInv, HopeInv, OfonoAnswers
    PROVE  HopeInv'
  <1> DEFINE c == Head(calls)
             present == IF modem[c.slot] = "alive" THEN life[c.slot] ELSE 0
             e == IF c.interface = Modem THEN ModemStateIs(c.slot, modem[c.slot])
                  ELSE Properties(c.slot, c.interface, c.gen, present)
  <1>1. /\ UNCHANGED <<phase, proxy, gen, cache, modem, life, modemState>>
        /\ calls # <<>> /\ calls' = Tail(calls) /\ events' = Append(events, e)
    BY DEF OfonoAnswers, openVars, proxyVars, ofonoVars
  <1>2. /\ calls \in Seq(Call) /\ events \in Seq(Event) /\ gen \in Nat
        /\ modem \in [Slots -> States] /\ life \in [Slots -> Nat]
    BY Typing
  <1>3. /\ c \in Call /\ c = calls[1] /\ Len(calls) \in Nat \ {0}
        /\ Len(Tail(calls)) = Len(calls) - 1
        /\ \A k \in 1..(Len(calls) - 1) : Tail(calls)[k] = calls[k + 1]
    BY <1>1, <1>2, TailAt
  <1>4. c.slot \in Slots /\ c.interface \in Interfaces /\ c.gen \in Nat
    BY <1>3 DEF Call
  <1>5. e \in Event
    <2>1. CASE c.interface = Modem
      BY <1>2, <1>4, <2>1 DEF ModemStateIs, Event
    <2>2. CASE c.interface # Modem
      <3>1. present \in Nat /\ c.interface \in Mutable
        BY <1>2, <1>4, <2>2, Constants
      <3> QED
        BY <1>4, <2>2, <3>1 DEF Properties, Event
    <2> QED
      BY <2>1, <2>2
  <1>6. CASE phase # "open"
    BY <1>1, <1>6, NotOpen
  <1>7. CASE phase = "open"
    <2>1. GenInv /\ OnceInv /\ ViewInv /\ OrderInv /\ ReadInv
      BY <1>7 DEF HopeInv, OpenInv
    <2>2. /\ Len(Append(events, e)) = Len(events) + 1 /\ Len(events) \in Nat
          /\ Append(events, e)[Len(events) + 1] = e
          /\ \A k \in 1..Len(events) : Append(events, e)[k] = events[k]
      BY <1>2, <1>5, AppendAt
    <2>3. e.type = "Properties" => /\ e = Properties(c.slot, c.interface, c.gen, present)
                                   /\ e.slot = c.slot /\ e.interface = c.interface
                                   /\ e.gen = c.gen
      BY DEF ModemStateIs, Properties
    <2>4. c.interface # Modem => e = Properties(c.slot, c.interface, c.gen, present)
      OBVIOUS
    <2>5. c.interface = Modem => e = ModemStateIs(c.slot, modem[c.slot])
      OBVIOUS
    <2>6. modem[c.slot] = "alive" => present = life[c.slot]
      OBVIOUS
    <2>7. c.gen <= gen
      BY <1>3, <2>1 DEF GenInv
    <2> HIDE DEF c, e, present
    <2>8. Modem \notin Readable
      BY Constants
    <2>9. GenInv'
      <3>1. \A k \in 1..(Len(calls) - 1) : Tail(calls)[k].gen <= gen
        <4>1. \A k \in 1..(Len(calls) - 1) : k + 1 \in 1..Len(calls)
          BY <1>3
        <4> QED
          BY <1>3, <2>1, <4>1 DEF GenInv
      <3>2. \A k \in 1..(Len(events) + 1) : k \in 1..Len(events) \/ k = Len(events) + 1
        BY <2>2
      <3>3. \A k \in 1..(Len(events) + 1) :
               Append(events, e)[k].type = "Properties" => Append(events, e)[k].gen <= gen
        BY <2>1, <2>2, <2>3, <2>7, <3>2 DEF GenInv
      <3> QED
        BY <1>1, <1>3, <2>1, <2>2, <3>1, <3>3 DEF GenInv
    <2>10. ASSUME NEW s \in Slots, NEW i \in Readable
           PROVE  /\ \A k, l \in AskedAt(calls, s, i, gen) : k = l
                  /\ \A k, l \in AnsweredAt(events, s, i, gen) : k = l
                  /\ AskedAt(calls, s, i, gen) = {} \/ AnsweredAt(events, s, i, gen) = {}
                  /\ cache[s][i] # 0 => AskedAt(calls, s, i, gen) = {}
                                        /\ AnsweredAt(events, s, i, gen) = {}
      BY <2>1 DEF OnceInv
    <2>11. ASSUME NEW s \in Slots, NEW i \in Readable
           PROVE  /\ \A k \in AskedAt(Tail(calls), s, i, gen) :
                        k \in Nat \ {0} /\ k + 1 \in AskedAt(calls, s, i, gen)
                  /\ \A k \in AskedAt(calls, s, i, gen) :
                        k \in Nat /\ (k # 1 => k - 1 \in AskedAt(Tail(calls), s, i, gen))
                  /\ 1 \in AskedAt(calls, s, i, gen) <=> c = GetProperties(s, i, gen)
      <3>1. /\ \A k \in AskedAt(Tail(calls), s, i, gen) : k + 1 \in AskedAt(calls, s, i, gen)
            /\ \A k \in AskedAt(calls, s, i, gen) :
                  k # 1 => k - 1 \in AskedAt(Tail(calls), s, i, gen)
            /\ 1 \in AskedAt(calls, s, i, gen) <=> c = GetProperties(s, i, gen)
        BY <1>1, <1>2, AskedTail DEF c
      <3>2. /\ \A k \in AskedAt(Tail(calls), s, i, gen) : k \in Nat \ {0}
            /\ \A k \in AskedAt(calls, s, i, gen) : k \in Nat
        BY DEF AskedAt
      <3> QED
        BY <3>1, <3>2
    <2>12. ASSUME NEW s \in Slots, NEW i \in Readable
           PROVE  \A k \in AnsweredAt(Append(events, e), s, i, gen) :
                     \/ k \in AnsweredAt(events, s, i, gen)
                     \/ k = Len(events) + 1 /\ c = GetProperties(s, i, gen)
      <3>1. \A k \in AnsweredAt(Append(events, e), s, i, gen) :
               \/ k \in AnsweredAt(events, s, i, gen)
               \/ /\ k = Len(events) + 1 /\ e.type = "Properties" /\ e.slot = s
                  /\ e.interface = i /\ e.gen = gen
        BY <1>2, <1>5, AnsweredAppended
      <3>2. e.type = "Properties" /\ e.slot = s /\ e.interface = i /\ e.gen = gen
               => c = GetProperties(s, i, gen)
        BY <1>3, <2>3 DEF GetProperties, Call
      <3> QED
        BY <3>1, <3>2
    <2>13. OnceInv'
      <3> SUFFICES ASSUME NEW s \in Slots, NEW i \in Readable
                   PROVE  /\ \A k, l \in AskedAt(Tail(calls), s, i, gen) : k = l
                          /\ \A k, l \in AnsweredAt(Append(events, e), s, i, gen) : k = l
                          /\ \/ AskedAt(Tail(calls), s, i, gen) = {}
                             \/ AnsweredAt(Append(events, e), s, i, gen) = {}
                          /\ cache[s][i] # 0 => /\ AskedAt(Tail(calls), s, i, gen) = {}
                                                /\ AnsweredAt(Append(events, e), s, i, gen) = {}
        BY <1>1 DEF OnceInv
      <3>1. \A k, l \in AskedAt(Tail(calls), s, i, gen) : k = l
        <4> SUFFICES ASSUME NEW k \in AskedAt(Tail(calls), s, i, gen),
                            NEW l \in AskedAt(Tail(calls), s, i, gen)
                     PROVE  k = l
          OBVIOUS
        <4>1. k + 1 = l + 1 /\ k \in Nat /\ l \in Nat
          BY <2>10, <2>11
        <4> QED
          BY <4>1
      <3>2. CASE c = GetProperties(s, i, gen)
        <4>1. 1 \in AskedAt(calls, s, i, gen)
          BY <2>11, <3>2
        <4>2. AskedAt(Tail(calls), s, i, gen) = {}
          <5> SUFFICES ASSUME NEW k \in AskedAt(Tail(calls), s, i, gen)
                       PROVE  FALSE
            OBVIOUS
          <5>1. k + 1 = 1 /\ k \in Nat \ {0}
            BY <2>10, <2>11, <4>1
          <5> QED
            BY <5>1
        <4>3. AnsweredAt(events, s, i, gen) = {} /\ ~(cache[s][i] # 0)
          BY <2>10, <4>1
        <4>4. \A k, l \in AnsweredAt(Append(events, e), s, i, gen) : k = l
          BY <2>12, <4>3
        <4> QED
          BY <4>2, <4>3, <4>4
      <3>3. CASE c # GetProperties(s, i, gen)
        <4>1. \A k \in AnsweredAt(Append(events, e), s, i, gen) : k \in AnsweredAt(events, s, i, gen)
          BY <2>12, <3>3
        <4>2. AskedAt(calls, s, i, gen) = {} => AskedAt(Tail(calls), s, i, gen) = {}
          BY <2>11
        <4>3. AnsweredAt(events, s, i, gen) = {} => AnsweredAt(Append(events, e), s, i, gen) = {}
          BY <4>1
        <4> QED
          BY <2>10, <3>1, <4>1, <4>2, <4>3
      <3> QED
        BY <3>2, <3>3
    <2>14. ASSUME NEW s \in Slots
           PROVE  /\ \A k \in ModemAskedAt(Tail(calls), s) :
                        k \in Nat \ {0} /\ k + 1 \in ModemAskedAt(calls, s)
                  /\ \A k \in ModemAskedAt(calls, s) :
                        k # 1 => k - 1 \in ModemAskedAt(Tail(calls), s)
                  /\ 1 \in ModemAskedAt(calls, s) <=> c.slot = s /\ c.interface = Modem
      <3>1. /\ \A k \in ModemAskedAt(Tail(calls), s) : k + 1 \in ModemAskedAt(calls, s)
            /\ \A k \in ModemAskedAt(calls, s) : k # 1 => k - 1 \in ModemAskedAt(Tail(calls), s)
            /\ 1 \in ModemAskedAt(calls, s) <=> c.slot = s /\ c.interface = Modem
        BY <1>1, <1>2, ModemAskedTail DEF c
      <3>2. \A k \in ModemAskedAt(Tail(calls), s) : k \in Nat \ {0}
        BY DEF ModemAskedAt
      <3> QED
        BY <3>1, <3>2
    <2>15. ViewInv'
      <3> SUFFICES ASSUME NEW s \in Slots, ModemAskedAt(Tail(calls), s) = {}
                   PROVE  Known(modemState, Append(events, e), s, Len(events) + 1, modem[s])
        BY <1>1, <2>2 DEF ViewInv
      <3>1. CASE c.slot = s /\ c.interface = Modem
        BY <1>2, <2>5, <3>1, KnownLast
      <3>2. CASE ~(c.slot = s /\ c.interface = Modem)
        <4>1. ModemAskedAt(calls, s) = {}
          BY <2>14, <3>2
        <4>2. Known(modemState, events, s, Len(events), modem[s])
          BY <2>1, <4>1 DEF ViewInv
        <4>3. ~StateOf(e, s)
          <5>1. CASE c.interface = Modem
            BY <2>5, <3>2, <5>1 DEF StateOf, ModemStateIs
          <5>2. CASE c.interface # Modem
            BY <2>4, <5>2 DEF StateOf, Properties
          <5> QED
            BY <5>1, <5>2
        <4> QED
          BY <1>2, <1>5, <4>2, <4>3, KnownOther
      <3> QED
        BY <3>1, <3>2
    <2>16. OrderInv'
      <3> SUFFICES ASSUME NEW s \in Slots, NEW k \in ModemAskedAt(Tail(calls), s),
                          NEW i \in Readable
                   PROVE  \E l \in AskedAt(Tail(calls), s, i, gen) : l > k
        BY <1>1 DEF OrderInv
      <3>1. k \in Nat \ {0} /\ k + 1 \in ModemAskedAt(calls, s)
        BY <2>14
      <3>2. PICK l \in AskedAt(calls, s, i, gen) : l > k + 1
        BY <2>1, <3>1 DEF OrderInv
      <3>3. l \in Nat
        BY <2>11
      <3>4. l # 1 /\ l - 1 > k
        BY <3>1, <3>2, <3>3
      <3>5. l - 1 \in AskedAt(Tail(calls), s, i, gen)
        BY <2>11, <3>4
      <3> QED
        BY <3>4, <3>5
    <2>17. ReadInv'
      <3> SUFFICES ASSUME NEW s \in Slots, NEW i \in Readable, modem[s] = "alive"
                   PROVE  \/ cache[s][i] = life[s]
                          \/ AskedAt(Tail(calls), s, i, gen) # {}
                          \/ \E k \in 1..Len(Append(events, e)) :
                                Append(events, e)[k] = Properties(s, i, gen, life[s])
                          \/ ComesAlive(modemState, Append(events, e))
        BY <1>1 DEF ReadInv
      <3>1. \/ cache[s][i] = life[s]
            \/ AskedAt(calls, s, i, gen) # {}
            \/ \E k \in 1..Len(events) : events[k] = Properties(s, i, gen, life[s])
            \/ ComesAlive(modemState, events)
        BY <2>1 DEF ReadInv
      <3>2. CASE AskedAt(calls, s, i, gen) # {}
        <4>1. PICK k \in AskedAt(calls, s, i, gen) : TRUE
          BY <3>2
        <4>2. CASE k = 1
          <5>1. c = GetProperties(s, i, gen)
            BY <2>11, <4>1, <4>2
          <5>2. c.slot = s /\ c.interface = i /\ c.gen = gen
            BY <5>1 DEF GetProperties
          <5>3. e = Properties(s, i, gen, life[s])
            BY <2>4, <2>6, <2>8, <5>2
          <5>4. Len(events) + 1 \in 1..Len(Append(events, e))
            BY <2>2
          <5> QED
            BY <2>2, <5>3, <5>4
        <4>3. CASE k # 1
          BY <2>11, <4>3
        <4> QED
          BY <4>2, <4>3
      <3>3. CASE \E k \in 1..Len(events) : events[k] = Properties(s, i, gen, life[s])
        <4>1. \A k \in 1..Len(events) : k \in 1..Len(Append(events, e))
          BY <2>2
        <4> QED
          BY <2>2, <3>3, <4>1
      <3>4. CASE ComesAlive(modemState, events)
        BY <1>2, <1>5, <3>4, ComesAliveAppended
      <3> QED
        BY <3>1, <3>2, <3>3, <3>4
    <2> QED
      BY <1>1, <2>9, <2>13, <2>15, <2>16, <2>17 DEF HopeInv, OpenInv, LifeInv
  <1> QED
    BY <1>6, <1>7

LEMMA ChangeHope ==
    ASSUME IInv, HopeInv, NEW t \in Slots, NEW state \in States, OfonoModemChanges(t, state)
    PROVE  HopeInv'
  <1> DEFINE e == ModemStateIs(t, state)
  <1>1. /\ UNCHANGED <<phase, proxy, gen, cache, calls, modemState>>
        /\ modem' = [modem EXCEPT ![t] = state]
        /\ life' = IF state = "alive" THEN [life EXCEPT ![t] = @ + 1] ELSE life
        /\ phase = "open" => events' = Append(events, e)
        /\ state = "alive" => modem[t] = "aware"
    BY DEF OfonoModemChanges, openVars, proxyVars
  <1>2. /\ events \in Seq(Event) /\ gen \in Nat
        /\ modem \in [Slots -> States] /\ life \in [Slots -> Nat]
    BY Typing
  <1>3. e \in Event /\ e.type # "Properties" /\ \A s \in Slots : StateOf(e, s) <=> s = t
    BY DEF ModemStateIs, Event, StateOf
  <1>4. LifeInv'
    <2> SUFFICES ASSUME NEW s \in Slots
                 PROVE  life'[s] >= 1
      BY DEF LifeInv
    <2>1. life[s] \in Nat /\ life[s] >= 1
      BY <1>2 DEF HopeInv, LifeInv
    <2>2. life'[s] = life[s] \/ life'[s] = life[s] + 1
      BY <1>1, <1>2
    <2> QED
      BY <2>1, <2>2
  <1>5. CASE phase # "open"
    BY <1>1, <1>4, <1>5 DEF HopeInv
  <1>6. CASE phase = "open"
    <2>1. GenInv /\ OnceInv /\ ViewInv /\ OrderInv /\ ReadInv
      BY <1>6 DEF HopeInv, OpenInv
    <2>2. /\ Len(Append(events, e)) = Len(events) + 1 /\ Len(events) \in Nat
          /\ Append(events, e)[Len(events) + 1] = e
          /\ \A k \in 1..Len(events) : Append(events, e)[k] = events[k]
      BY <1>2, <1>3, AppendAt
    <2>3. events' = Append(events, e)
      BY <1>1, <1>6
    <2>4. \A k \in 1..(Len(events) + 1) : k \in 1..Len(events) \/ k = Len(events) + 1
      BY <2>2
    <2>5. e = ModemStateIs(t, state)
      OBVIOUS
    <2> HIDE DEF e
    <2>6. GenInv'
      <3>1. \A k \in 1..(Len(events) + 1) :
               Append(events, e)[k].type = "Properties" => Append(events, e)[k].gen <= gen
        BY <1>3, <2>1, <2>2, <2>4 DEF GenInv
      <3> QED
        BY <1>1, <2>1, <2>2, <2>3, <3>1 DEF GenInv
    <2>7. OnceInv'
      <3>1. \A s \in Slots, i \in Readable : \A k \in AnsweredAt(Append(events, e), s, i, gen) :
               k \in AnsweredAt(events, s, i, gen)
        BY <1>2, <1>3, AnsweredAppended
      <3>2. \A s \in Slots, i \in Readable :
               AnsweredAt(events, s, i, gen) = {} => AnsweredAt(Append(events, e), s, i, gen) = {}
        BY <3>1
      <3> QED
        BY <1>1, <2>1, <2>3, <3>1, <3>2 DEF OnceInv
    <2>8. ViewInv'
      <3> SUFFICES ASSUME NEW s \in Slots, ModemAskedAt(calls, s) = {}
                   PROVE  Known(modemState, Append(events, e), s, Len(events) + 1, modem'[s])
        BY <1>1, <2>2, <2>3 DEF ViewInv
      <3>1. CASE s = t
        <4>1. modem'[s] = state
          BY <1>1, <1>2, <3>1
        <4> QED
          BY <1>2, <2>5, <3>1, <4>1, KnownLast
      <3>2. CASE s # t
        <4>1. modem'[s] = modem[s] /\ ~StateOf(e, s)
          BY <1>1, <1>2, <1>3, <3>2
        <4>2. Known(modemState, events, s, Len(events), modem[s])
          BY <2>1 DEF ViewInv
        <4> QED
          BY <1>2, <1>3, <4>1, <4>2, KnownOther
      <3> QED
        BY <3>1, <3>2
    <2>9. OrderInv'
      BY <1>1, <2>1 DEF OrderInv
    <2>10. ReadInv'
      <3> SUFFICES ASSUME NEW s \in Slots, NEW i \in Readable, modem'[s] = "alive"
                   PROVE  \/ cache[s][i] = life'[s]
                          \/ AskedAt(calls, s, i, gen) # {}
                          \/ \E k \in 1..Len(Append(events, e)) :
                                Append(events, e)[k] = Properties(s, i, gen, life'[s])
                          \/ ComesAlive(modemState, Append(events, e))
        BY <1>1, <2>3 DEF ReadInv
      <3>1. CASE s = t
        <4>1. state = "alive" /\ modem[t] = "aware"
          BY <1>1, <1>2, <3>1
        <4>2. CASE ModemAskedAt(calls, t) # {}
          <5>1. PICK k \in ModemAskedAt(calls, t) : TRUE
            BY <4>2
          <5>2. \E l \in AskedAt(calls, t, i, gen) : l > k
            BY <2>1, <5>1 DEF OrderInv
          <5> QED
            BY <3>1, <5>2
        <4>3. CASE ModemAskedAt(calls, t) = {}
          <5>1. Known(modemState, events, t, Len(events), "aware")
            BY <2>1, <4>1, <4>3 DEF ViewInv
          <5>2. ComesAlive(modemState, Append(events, ModemStateIs(t, "alive")))
            BY <1>2, <5>1, AliveAppended
          <5> QED
            BY <2>5, <4>1, <5>2
        <4> QED
          BY <4>2, <4>3
      <3>2. CASE s # t
        <4>1. modem[s] = "alive" /\ life'[s] = life[s]
          BY <1>1, <1>2, <3>2
        <4>2. \/ cache[s][i] = life[s]
              \/ AskedAt(calls, s, i, gen) # {}
              \/ \E k \in 1..Len(events) : events[k] = Properties(s, i, gen, life[s])
              \/ ComesAlive(modemState, events)
          BY <2>1, <4>1 DEF ReadInv
        <4>3. CASE \E k \in 1..Len(events) : events[k] = Properties(s, i, gen, life[s])
          <5>1. \A k \in 1..Len(events) : k \in 1..Len(Append(events, e))
            BY <2>2
          <5> QED
            BY <2>2, <4>1, <4>3, <5>1
        <4>4. CASE ComesAlive(modemState, events)
          BY <1>2, <1>3, <4>4, ComesAliveAppended
        <4> QED
          BY <4>1, <4>2, <4>3, <4>4
      <3> QED
        BY <3>1, <3>2
    <2> QED
      BY <1>1, <1>4, <2>6, <2>7, <2>8, <2>9, <2>10 DEF HopeInv, OpenInv
  <1> QED
    BY <1>5, <1>6

LEMMA InitHope == Init => HopeInv
  BY DEF Init, HopeInv, LifeInv

LEMMA HopeInductive == IInv /\ HopeInv /\ [Next]_vars => HopeInv'
  <1> SUFFICES ASSUME IInv, HopeInv, [Next]_vars
               PROVE  HopeInv'
    OBVIOUS
  <1>1. CASE UNCHANGED vars
    BY <1>1, NothingMoves DEF vars, openVars
  <1>2. CASE tapi_open \/ OpenFails \/ OpenGoesOn
    <2>1. phase' # "open" /\ UNCHANGED life
      BY <1>2 DEF tapi_open, OpenFails, NoCbd, SetupFails, NameFails, ClientFails, WatchFails,
                  OpenError, OpenGoesOn, AllocateCbd, SetupSucceeds, NameRequested, ClientMade, untouched,
                  ofonoVars
    <2> QED
      BY <2>1, NotOpen
  <1>3. CASE system_dbus_disconnected \/ tapi_close
    <2>1. phase' # "open" /\ UNCHANGED life
      BY <1>3 DEF system_dbus_disconnected, tapi_close, ofonoVars
    <2> QED
      BY <2>1, NotOpen
  <1>4. CASE Connect
    BY <1>4, ConnectHope
  <1>5. CASE on_dbus_client_ready
    BY <1>5, NothingMoves DEF on_dbus_client_ready
  <1>6. CASE ModemStateReported
    BY <1>6, ReplaceHope, ReportHope
  <1>7. CASE PropertiesRead
    BY <1>7, ReadHope
  <1>8. CASE OfonoAnswers
    BY <1>8, AnswerHope
  <1>9. ASSUME NEW s \in Slots, NEW state \in States, OfonoModemChanges(s, state)
        PROVE  HopeInv'
    BY <1>9, ChangeHope
  <1> QED
    BY <1>1, <1>2, <1>3, <1>4, <1>5, <1>6, <1>7, <1>8, <1>9 DEF Next, Opening

-----------------------------------------------------------------------------
\* Whatever the order in which modems start, stop and start again around tapi_open, once
\* nothing is under way every getter of a modem that is alive works, with properties of
\* this life of its modem: on_modem_property_change replaces the proxies whenever they
\* were made too early, for any number of slots and any table of interfaces.
THEOREM ModemsAreReadable == Spec => []AliveMeansReadable
  <1>1. Spec => [](IInv /\ HopeInv)
    <2>1. Init => IInv /\ HopeInv
      BY InitInv, InitHope
    <2>2. IInv /\ HopeInv /\ [Next]_vars => (IInv /\ HopeInv)'
      BY Inductive, HopeInductive
    <2> QED
      BY <2>1, <2>2, PTL DEF Spec
  <1>2. IInv /\ HopeInv => AliveMeansReadable
    <2> SUFFICES ASSUME IInv, HopeInv, phase = "open", calls = <<>>, events = <<>>,
                        NEW s \in Slots, modem[s] = "alive"
                 PROVE  modemState[s] = "alive" /\ Fresh(s)
      BY DEF AliveMeansReadable
    <2>1. GenInv /\ ViewInv /\ ReadInv /\ LifeInv
      BY DEF HopeInv, OpenInv
    <2>2. modemState[s] = "alive"
      <3>1. ModemAskedAt(calls, s) = {}
        BY DEF ModemAskedAt
      <3>2. Known(modemState, <<>>, s, 0, "alive")
        BY <2>1, <3>1 DEF ViewInv
      <3> QED
        BY <3>2 DEF Known
    <2>3. ~ComesAlive(modemState, events)
      BY DEF ComesAlive
    <2>4. \A i \in Readable : AskedAt(calls, s, i, gen) = {}
      BY DEF AskedAt
    <2>5. \A i \in Readable : cache[s][i] = life[s]
      BY <2>1, <2>3, <2>4 DEF ReadInv
    <2>6. life[s] # 0 /\ \A i \in Readable : proxy[s][i] # 0
      BY <2>1 DEF LifeInv, GenInv
    <2>7. \A i \in Readable : ready => GetProperty(s, i) = "OK"
      BY <2>5, <2>6 DEF GetProperty
    <2> QED
      BY <2>2, <2>5, <2>7 DEF Fresh
  <1> QED
    BY <1>1, <1>2, PTL
=============================================================================
