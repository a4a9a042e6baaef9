-------------------------- MODULE TapiContextProofs --------------------------
(***************************************************************************)
(* Theorems about TapiContext, for every number of slots, every table of   *)
(* interfaces and every bound.                                             *)
(***************************************************************************)
EXTENDS TapiContext, TLAPS

\* Each of rs is held once, and nothing else.
One(rs) == [r \in Resources |-> IF r \in rs THEN 1 ELSE 0]

Blocks == {"ctx", "cbd"}
Link   == {"link", "connection"}
Opened == {"ctx", "client", "manager"} \cup Link
Waits  == IF ready THEN {} ELSE {"cbd"}    \* the data of the ready callback

\* What is held at each step of tapi_open and after it, exactly, and that the local the
\* label error looks at says whether there is a connection.
HeldInv ==
    /\ phase = "closed" => held = One({}) \/ held = One(Waits)
    /\ phase = "allocating" => held = One({"ctx"})
    /\ phase = "connecting" => held = One(Blocks)
    /\ phase \in {"naming", "making"} => held = One(Blocks \cup Link) /\ connection = "made"
    /\ phase = "watching" => held = One(Blocks \cup Link \cup {"client"}) /\ connection = "made"
    /\ phase \in {"open", "lost"} => held = One(Opened \cup Waits)

\* There are no proxies before tapi_open is done.
BlankInv ==
    phase = "closed" \/ InOpen =>
        proxy = Blank /\ cache = Blank /\ calls = <<>> /\ events = <<>>

IInv == TypeOK /\ ProxiesBalanced /\ HeldInv /\ BlankInv

-----------------------------------------------------------------------------
(* The order of the calls of the new proxies *)

LEMMA SlotAndServer ==
    ASSUME NEW N \in Nat, NEW m \in Nat \ {0}, NEW k \in 1..(N * m)
    PROVE  (k - 1) \div m \in 0..(N - 1) /\ (k - 1) % m \in 0..(m - 1)
  OBVIOUS

LEMMA PlaceOf ==
    ASSUME NEW N \in Nat, NEW m \in Nat \ {0}, NEW s \in 0..(N - 1), NEW j \in 1..m
    PROVE  \E k \in 1..(N * m) : (k - 1) \div m = s /\ ((k - 1) % m) + 1 = j
  <1>1. /\ s * m + j \in 1..(N * m)
        /\ (s * m + j - 1) \div m = s
        /\ (s * m + j - 1) % m = j - 1
    OBVIOUS
  <1> DEFINE k == s * m + j
  <1>2. k \in 1..(N * m) /\ (k - 1) \div m = s /\ (k - 1) % m = j - 1
    BY <1>1
  <1> HIDE DEF k
  <1>3. ((k - 1) % m) + 1 = j
    BY <1>2
  <1> QED
    BY <1>2, <1>3

LEMMA OnePlace ==
    ASSUME NEW m \in Nat \ {0}, NEW a \in Nat, NEW b \in Nat,
           a \div m = b \div m, a % m = b % m
    PROVE  a = b
  OBVIOUS

\* One call for each slot, of its Modem interface.
LEMMA PersistentCalls ==
    ASSUME NEW n \in Nat
    PROVE  /\ get_persistent_dbus_proxy(n) \in Seq(Call)
           /\ Len(get_persistent_dbus_proxy(n)) = ModemCount
           /\ \A k \in 1..ModemCount :
                 get_persistent_dbus_proxy(n)[k] = GetProperties(k - 1, Modem, n)
  <1>1. ModemCount \in Nat \ {0}
    BY ContextAssumption
  <1>2. \A k \in 1..ModemCount : GetProperties(k - 1, Modem, n) \in Call
    BY <1>1 DEF GetProperties, Call, Slots, Interfaces
  <1> QED
    BY <1>1, <1>2 DEF get_persistent_dbus_proxy

\* Exactly one call for each slot and interface that is read, and no others.
LEMMA MutableCalls ==
    ASSUME NEW n \in Nat
    PROVE  /\ get_mutable_dbus_proxy(n) \in Seq(Call)
           /\ \A k \in 1..Len(get_mutable_dbus_proxy(n)) :
                 /\ get_mutable_dbus_proxy(n)[k].interface \in Readable
                 /\ get_mutable_dbus_proxy(n)[k].gen = n
           /\ \A s \in Slots, i \in Readable : \E k \in 1..Len(get_mutable_dbus_proxy(n)) :
                 get_mutable_dbus_proxy(n)[k] = GetProperties(s, i, n)
           /\ \A k, l \in 1..Len(get_mutable_dbus_proxy(n)) :
                 get_mutable_dbus_proxy(n)[k] = get_mutable_dbus_proxy(n)[l] => k = l
  <1>0. PICK m \in Nat : m = Len(Asked)
    BY ServersAssumption
  <1> DEFINE q == get_mutable_dbus_proxy(n)
             Place(k) == ((k - 1) % m) + 1
  <1>1. ModemCount \in Nat \ {0} /\ m \in Nat /\ Asked \in Seq(Readable)
    BY ContextAssumption, ServersAssumption
  <1>2. ModemCount * m \in Nat
    BY <1>1
  <1>3. q = [k \in 1..(ModemCount * m) |-> GetProperties((k - 1) \div m, Asked[Place(k)], n)]
    BY <1>0 DEF get_mutable_dbus_proxy
  <1>4. ASSUME NEW k \in 1..(ModemCount * m)
        PROVE  /\ m # 0 /\ (k - 1) \div m \in Slots
               /\ Place(k) \in 1..m /\ Asked[Place(k)] \in Readable
    <2>1. m # 0
      BY <1>1
    <2>2. (k - 1) \div m \in 0..(ModemCount - 1) /\ (k - 1) % m \in 0..(m - 1)
      BY <1>1, <2>1, SlotAndServer
    <2>3. Place(k) \in 1..m
      BY <1>1, <2>1, <2>2
    <2> QED
      BY <1>0, <1>1, <2>1, <2>2, <2>3 DEF Slots
  <1> HIDE DEF q, Place
  <1>5. Readable \subseteq Interfaces
    BY DEF Readable, Interfaces
  <1>6. q \in Seq(Call) /\ Len(q) = ModemCount * m
    <2>1. \A k \in 1..(ModemCount * m) : GetProperties((k - 1) \div m, Asked[Place(k)], n) \in Call
      BY <1>4, <1>5 DEF GetProperties, Call
    <2> QED
      BY <1>2, <1>3, <2>1
  <1>7. ASSUME NEW k \in 1..Len(q)
        PROVE  q[k].interface = Asked[Place(k)] /\ q[k].gen = n /\ q[k].slot = (k - 1) \div m
    BY <1>3, <1>6 DEF GetProperties
  <1>8. \A k \in 1..Len(q) : q[k].interface \in Readable /\ q[k].gen = n
    BY <1>4, <1>6, <1>7
  <1>9. ASSUME NEW s \in Slots, NEW i \in Readable
        PROVE  \E k \in 1..Len(q) : q[k] = GetProperties(s, i, n)
    <2>1. PICK j \in 1..m : Asked[j] = i
      BY <1>0, ServersAssumption
    <2>2. /\ ModemCount \in Nat /\ m \in Nat \ {0}
          /\ s \in 0..(ModemCount - 1) /\ j \in 1..m
      BY <1>1, <2>1 DEF Slots
    <2>3. PICK k \in 1..(ModemCount * m) : (k - 1) \div m = s /\ ((k - 1) % m) + 1 = j
      <3>1. \A N \in Nat : \A mm \in Nat \ {0} : \A ss \in 0..(N - 1) : \A jj \in 1..mm :
               \E k \in 1..(N * mm) : (k - 1) \div mm = ss /\ ((k - 1) % mm) + 1 = jj
        BY PlaceOf
      <3>2. \A ss \in 0..(ModemCount - 1) : \A jj \in 1..m :
               \E k \in 1..(ModemCount * m) : (k - 1) \div m = ss /\ ((k - 1) % m) + 1 = jj
        BY <2>2, <3>1
      <3> QED
        BY <2>2, <3>2
    <2>4. q[k] = GetProperties((k - 1) \div m, Asked[Place(k)], n) /\ Place(k) = j
      BY <1>3, <2>3 DEF Place
    <2> QED
      BY <1>6, <2>1, <2>3, <2>4
  <1>10. ASSUME NEW k \in 1..Len(q), NEW l \in 1..Len(q), q[k] = q[l]
         PROVE  k = l
    <2>1. (k - 1) \div m = (l - 1) \div m /\ Asked[Place(k)] = Asked[Place(l)]
      BY <1>7, <1>10
    <2>2. m # 0 /\ Place(k) \in 1..m /\ Place(l) \in 1..m
      BY <1>4, <1>6
    <2>3. Place(k) = Place(l)
      BY <2>1, <2>2, <1>0, ServersAssumption
    <2>4. (k - 1) % m = (l - 1) % m
      BY <1>1, <1>4, <1>6, <2>2, <2>3 DEF Place
    <2>5. k - 1 \in Nat /\ l - 1 \in Nat /\ m \in Nat \ {0}
      BY <1>1, <1>2, <1>6, <2>2
    <2>6. k - 1 = l - 1
      BY <2>1, <2>4, <2>5, OnePlace
    <2> QED
      BY <1>2, <1>6, <2>6
  <1> QED
    BY <1>6, <1>8, <1>9, <1>10 DEF q

-----------------------------------------------------------------------------
(* The invariant *)

LEMMA Constants ==
    /\ ModemCount \in Nat \ {0} /\ MaxRetries \in Nat /\ MaxSteps \in Nat
    /\ Modem \notin Mutable /\ Interfaces = {Modem} \cup Mutable
    /\ Unsupported \subseteq Mutable /\ Readable \subseteq Mutable
  BY ContextAssumption DEF Interfaces, Readable

LEMMA BlankIsTyped == Blank \in Count
  BY DEF Blank, Count

LEMMA NothingUnderWay == <<>> \in Seq(Call) /\ <<>> \in Seq(Event)
  OBVIOUS

LEMMA HoldMore ==
    ASSUME NEW rs, NEW more, more \subseteq Resources, rs \cap more = {}
    PROVE  With(One(rs), more) = One(rs \cup more)
  BY DEF With, One

LEMMA HoldLess ==
    ASSUME NEW rs, NEW less, less \subseteq rs
    PROVE  Without(One(rs), less) = One(rs \ less)
  BY DEF Without, One

LEMMA NothingIsOne == Nothing = One({})
  BY DEF Nothing, One

LEMMA OneIsTyped == \A rs : One(rs) \in [Resources -> Int]
  BY DEF One

LEMMA InitInv == Init => IInv
  <1> SUFFICES ASSUME Init
               PROVE  IInv
    OBVIOUS
  <1>1. TypeOK
    <2>1. [s \in Slots |-> "off"] \in [Slots -> States] /\ [s \in Slots |-> 1] \in [Slots -> Nat]
      BY DEF States
    <2>2. retry \in 0..MaxRetries /\ steps \in 0..MaxSteps /\ gen \in Nat
      BY Constants DEF Init
    <2>3. /\ phase \in {"closed", "open", "lost"} \cup OpenSteps
          /\ connection \in {"NULL", "made"} /\ held \in [Resources -> Int]
      BY NothingIsOne, OneIsTyped DEF Init
    <2>4. ready \in BOOLEAN /\ modem \in [Slots -> States]
      BY DEF Init
    <2>5. modemState \in [Slots -> States] /\ life \in [Slots -> Nat]
      BY <2>1 DEF Init
    <2>6. /\ proxy \in Count /\ live \in Count /\ cache \in Count
          /\ calls \in Seq(Call) /\ events \in Seq(Event)
      BY BlankIsTyped, NothingUnderWay DEF Init
    <2> QED
      BY <2>2, <2>3, <2>4, <2>5, <2>6 DEF TypeOK
  <1>2. ProxiesBalanced
    BY DEF Init, ProxiesBalanced, Blank
  <1>3. HeldInv
    BY NothingIsOne DEF Init, HeldInv
  <1> QED
    BY <1>1, <1>2, <1>3 DEF IInv, BlankInv, Init

LEMMA Stutter ==
    ASSUME IInv, UNCHANGED vars
    PROVE  IInv'
  BY DEF IInv, TypeOK, ProxiesBalanced, HeldInv, Waits, BlankInv, InOpen, vars, openVars, proxyVars,
         ofonoVars

\* A step of tapi_open before it makes proxies changes only what openVars has.
LEMMA StepOfOpen ==
    ASSUME IInv, phase = "closed" \/ InOpen, UNCHANGED untouched,
           phase' \in {"closed"} \cup OpenSteps, retry' \in 0..MaxRetries,
           connection' \in {"NULL", "made"}, held' \in [Resources -> Int], HeldInv'
    PROVE  IInv'
  <1>1. TypeOK'
    BY DEF IInv, TypeOK, untouched, proxyVars, ofonoVars
  <1>2. ProxiesBalanced' /\ BlankInv'
    BY DEF IInv, ProxiesBalanced, BlankInv, untouched, proxyVars
  <1> QED
    BY <1>1, <1>2 DEF IInv

LEMMA OpenStarts ==
    ASSUME IInv, tapi_open
    PROVE  IInv'
  <1>1. held' = One({"ctx"})
    BY NothingIsOne, HoldMore DEF tapi_open, Resources
  <1>2. retry' \in 0..MaxRetries
    BY Constants DEF tapi_open
  <1>3. HeldInv'
    BY <1>1 DEF tapi_open, HeldInv
  <1> QED
    BY <1>1, <1>2, <1>3, OneIsTyped, StepOfOpen DEF tapi_open, OpenSteps

\* The label error gives back what is held then.
LEMMA AtError ==
    ASSUME IInv, InOpen, UNCHANGED untouched, NEW rs, NEW conn \in {"NULL", "made"},
           rs = Blocks \cup (IF conn # "NULL" THEN Link ELSE {}),
           OpenError(One(rs), conn)
    PROVE  IInv' /\ held' = Nothing
  <1>1. held' = Without(One(rs), rs)
    BY DEF OpenError, Blocks, Link
  <1>2. held' = One({})
    <2>1. Without(One(rs), rs) = One(rs \ rs)
      BY HoldLess
    <2>2. rs \ rs = {}
      OBVIOUS
    <2> QED
      BY <1>1, <2>1, <2>2
  <1>3. HeldInv'
    BY <1>2 DEF OpenError, HeldInv
  <1>4. retry' \in 0..MaxRetries
    BY DEF IInv, TypeOK, OpenError
  <1>5. phase' = "closed" /\ connection' = conn
    BY DEF OpenError
  <1> QED
    BY <1>2, <1>3, <1>4, <1>5, NothingIsOne, OneIsTyped, StepOfOpen

LEMMA SetupGoesWrong ==
    ASSUME IInv, SetupFails
    PROVE  IInv' /\ (phase' = "closed" => held' = Nothing)
  <1>1. phase = "connecting" /\ held = One(Blocks) /\ InOpen
    BY DEF IInv, HeldInv, SetupFails, InOpen, OpenSteps
  <1>2. UNCHANGED untouched
    BY DEF SetupFails
  <1>3. CASE retry < MaxRetries
    <2>1. UNCHANGED <<phase, held>> /\ connection' = "NULL" /\ retry' = retry + 1
      BY <1>3 DEF SetupFails
    <2>2. retry' \in 0..MaxRetries
      BY <1>3, <2>1, Constants DEF IInv, TypeOK
    <2>3. HeldInv'
      BY <1>1, <2>1 DEF HeldInv
    <2> QED
      BY <1>1, <1>2, <2>1, <2>2, <2>3, OneIsTyped, StepOfOpen DEF OpenSteps
  <1>4. CASE ~(retry < MaxRetries)
    <2>1. OpenError(One(Blocks), "NULL")
      BY <1>1, <1>4 DEF SetupFails, OpenError
    <2> QED
      BY <1>1, <1>2, <2>1, AtError
  <1> QED
    BY <1>3, <1>4

LEMMA OpenGoesWrong ==
    ASSUME IInv, OpenFails
    PROVE  IInv' /\ (phase' = "closed" => held' = Nothing)
  <1>1. CASE NoCbd
    <2>1. held' = One({})
      <3>1. held' = Without(One({"ctx"}), {"ctx"})
        BY <1>1 DEF IInv, HeldInv, NoCbd
      <3>2. Without(One({"ctx"}), {"ctx"}) = One({"ctx"} \ {"ctx"})
        BY HoldLess
      <3>3. {"ctx"} \ {"ctx"} = {}
        OBVIOUS
      <3> QED
        BY <3>1, <3>2, <3>3
    <2>2. HeldInv'
      BY <1>1, <2>1 DEF NoCbd, HeldInv
    <2>3. InOpen /\ retry' \in 0..MaxRetries /\ connection' \in {"NULL", "made"}
      BY <1>1 DEF IInv, TypeOK, NoCbd, InOpen, OpenSteps
    <2> QED
      BY <1>1, <2>1, <2>2, <2>3, NothingIsOne, OneIsTyped, StepOfOpen DEF NoCbd
  <1>2. CASE SetupFails
    BY <1>2, SetupGoesWrong
  <1>3. CASE NameFails \/ ClientFails
    <2>1. /\ held = One(Blocks \cup Link) /\ connection = "made" /\ InOpen
          /\ OpenError(held, connection) /\ UNCHANGED untouched
      BY <1>3 DEF IInv, HeldInv, NameFails, ClientFails, InOpen, OpenSteps
    <2>2. OpenError(One(Blocks \cup Link), "made")
      BY <2>1 DEF OpenError
    <2> QED
      BY <2>1, <2>2, AtError
  <1>4. CASE WatchFails
    <2>1. /\ held = One(Blocks \cup Link \cup {"client"}) /\ connection = "made" /\ InOpen
          /\ OpenError(Without(held, {"client"}), connection) /\ UNCHANGED untouched
      BY <1>4 DEF IInv, HeldInv, WatchFails, InOpen, OpenSteps
    <2>2. Without(held, {"client"}) = One(Blocks \cup Link)
      <3>1. Without(held, {"client"}) = One((Blocks \cup Link \cup {"client"}) \ {"client"})
        BY <2>1, HoldLess
      <3>2. (Blocks \cup Link \cup {"client"}) \ {"client"} = Blocks \cup Link
        BY DEF Blocks, Link
      <3> QED
        BY <3>1, <3>2
    <2>3. OpenError(One(Blocks \cup Link), "made")
      BY <2>1, <2>2 DEF OpenError
    <2> QED
      BY <2>1, <2>3, AtError
  <1> QED
    BY <1>1, <1>2, <1>3, <1>4 DEF OpenFails

LEMMA OpenProceeds ==
    ASSUME IInv, OpenGoesOn
    PROVE  IInv' /\ phase' # "closed"
  <1>1. InOpen /\ retry' \in 0..MaxRetries /\ UNCHANGED untouched
    BY DEF IInv, TypeOK, OpenGoesOn, AllocateCbd, SetupSucceeds, NameRequested, ClientMade, InOpen,
           OpenSteps
  <1>2. CASE AllocateCbd
    <2>1. held' = One(Blocks)
      <3>1. held' = With(One({"ctx"}), {"cbd"})
        BY <1>2 DEF IInv, HeldInv, AllocateCbd
      <3>2. With(One({"ctx"}), {"cbd"}) = One({"ctx"} \cup {"cbd"})
        BY HoldMore DEF Resources
      <3>3. {"ctx"} \cup {"cbd"} = Blocks
        BY DEF Blocks
      <3> QED
        BY <3>1, <3>2, <3>3
    <2>2. HeldInv' /\ phase' = "connecting" /\ connection' \in {"NULL", "made"}
      BY <1>2, <2>1 DEF IInv, TypeOK, HeldInv, AllocateCbd
    <2> QED
      BY <1>1, <2>1, <2>2, OneIsTyped, StepOfOpen DEF OpenSteps
  <1>3. CASE SetupSucceeds
    <2>1. held' = One(Blocks \cup Link)
      <3>1. held' = With(One(Blocks), Link)
        BY <1>3 DEF IInv, HeldInv, SetupSucceeds, Link
      <3>2. Link \subseteq Resources /\ Blocks \cap Link = {}
        BY DEF Link, Blocks, Resources
      <3> QED
        BY <3>1, <3>2, HoldMore
    <2>2. HeldInv' /\ phase' = "naming" /\ connection' = "made"
      BY <1>3, <2>1 DEF HeldInv, SetupSucceeds
    <2> QED
      BY <1>1, <2>1, <2>2, OneIsTyped, StepOfOpen DEF OpenSteps
  <1>4. CASE NameRequested
    <2>1. held' = One(Blocks \cup Link) /\ phase' = "making" /\ connection' = "made"
      BY <1>4 DEF IInv, HeldInv, NameRequested
    <2>2. HeldInv'
      BY <2>1 DEF HeldInv
    <2> QED
      BY <1>1, <2>1, <2>2, OneIsTyped, StepOfOpen DEF OpenSteps
  <1>5. CASE ClientMade
    <2>1. held' = One(Blocks \cup Link \cup {"client"})
      <3>1. held' = With(One(Blocks \cup Link), {"client"})
        BY <1>5 DEF IInv, HeldInv, ClientMade
      <3>2. {"client"} \subseteq Resources /\ (Blocks \cup Link) \cap {"client"} = {}
        BY DEF Link, Blocks, Resources
      <3> QED
        BY <3>1, <3>2, HoldMore
    <2>2. phase' = "watching" /\ connection' = "made"
      BY <1>5 DEF IInv, HeldInv, ClientMade
    <2>3. HeldInv'
      BY <2>1, <2>2 DEF HeldInv
    <2> QED
      BY <1>1, <2>1, <2>2, <2>3, OneIsTyped, StepOfOpen DEF OpenSteps
  <1> QED
    BY <1>2, <1>3, <1>4, <1>5 DEF OpenGoesOn

\* The proxies of some interfaces are made anew, from a table in which there are none
\* of these.
LEMMA TableIsMade ==
    ASSUME NEW which, which \subseteq Interfaces,
           proxy \in Count, gen \in Nat,
           NEW count \in Count,
           \A s \in Slots, i \in Interfaces :
              count[s][i] = IF i \notin which /\ proxy[s][i] # 0 THEN 1 ELSE 0
    PROVE  /\ Table(which, gen + 1) \in Count
           /\ Made(count, which) \in Count
           /\ \A s \in Slots, i \in Interfaces :
                 /\ Table(which, gen + 1)[s][i] = IF i \notin which THEN proxy[s][i]
                                                  ELSE IF i \in Unsupported THEN 0 ELSE gen + 1
                 /\ Made(count, which)[s][i] = IF Table(which, gen + 1)[s][i] # 0 THEN 1 ELSE 0
  <1>1. \A s \in Slots, i \in Interfaces :
           Table(which, gen + 1)[s][i] = IF i \notin which THEN proxy[s][i]
                                         ELSE IF i \in Unsupported THEN 0 ELSE gen + 1
    BY DEF Table
  <1>2. \A s \in Slots, i \in Interfaces :
           Made(count, which)[s][i] = IF i \in which \ Unsupported THEN count[s][i] + 1
                                      ELSE count[s][i]
    BY DEF Made
  <1>3. Table(which, gen + 1) \in Count
    BY DEF Table, Count
  <1>4. Made(count, which) \in Count
    BY DEF Made, Count
  <1>5. gen + 1 # 0
    OBVIOUS
  <1>6. ASSUME NEW s \in Slots, NEW i \in Interfaces
        PROVE  Made(count, which)[s][i] = IF Table(which, gen + 1)[s][i] # 0 THEN 1 ELSE 0
    BY <1>1, <1>2, <1>5
  <1> QED
    BY <1>1, <1>3, <1>4, <1>6

LEMMA Connected ==
    ASSUME IInv, Connect
    PROVE  IInv'
  <1>0. held' = One(Opened \cup Waits')
    <2>1. held' = With(One(Blocks \cup Link \cup {"client"}), {"manager"})
      BY DEF IInv, HeldInv, Connect
    <2>2. /\ {"manager"} \subseteq Resources
          /\ (Blocks \cup Link \cup {"client"}) \cap {"manager"} = {}
      BY DEF Blocks, Link, Resources
    <2>3. held' = One(Blocks \cup Link \cup {"client"} \cup {"manager"})
      BY <2>1, <2>2, HoldMore
    <2>4. Waits' = {"cbd"}
      BY DEF Connect, Waits
    <2>5. Blocks \cup Link \cup {"client"} \cup {"manager"} = Opened \cup {"cbd"}
      BY DEF Blocks, Link, Opened
    <2> QED
      BY <2>3, <2>4, <2>5
  <1>1. /\ \A s \in Slots, i \in Interfaces : live[s][i] = 0
        /\ live \in Count /\ gen \in Nat
        /\ proxy \in Count
    BY DEF IInv, TypeOK, ProxiesBalanced, BlankInv, Blank, InOpen, OpenSteps, Connect
  <1>2. /\ Table(Interfaces, gen + 1) \in Count
        /\ Made(live, Interfaces) \in Count
        /\ \A s \in Slots, i \in Interfaces :
              Made(live, Interfaces)[s][i] = IF Table(Interfaces, gen + 1)[s][i] # 0 THEN 1 ELSE 0
    <2>1. \A s \in Slots, i \in Interfaces :
             live[s][i] = IF i \notin Interfaces /\ proxy[s][i] # 0 THEN 1 ELSE 0
      BY <1>1
    <2> QED
      BY <1>1, <2>1, TableIsMade
  <1>3. calls' \in Seq(Call)
    BY <1>1, PersistentCalls, MutableCalls DEF Connect
  <1>4. TypeOK'
    <2>1. modemState' \in [Slots -> States]
      BY DEF Connect, States
    <2>2. held' \in [Resources -> Int]
      BY <1>0, OneIsTyped
    <2>3. proxy' \in Count /\ live' \in Count /\ gen' \in Nat
      BY <1>1, <1>2 DEF Connect
    <2>4. phase' \in {"closed", "open", "lost"} \cup OpenSteps /\ ready' \in BOOLEAN
      BY DEF Connect
    <2> QED
      BY <1>3, <2>1, <2>2, <2>3, <2>4 DEF IInv, TypeOK, Connect, ofonoVars
  <1>5. ProxiesBalanced'
    BY <1>2 DEF ProxiesBalanced, Connect
  <1>6. HeldInv' /\ BlankInv'
    BY <1>0 DEF HeldInv, BlankInv, InOpen, OpenSteps, Connect
  <1> QED
    BY <1>4, <1>5, <1>6 DEF IInv

LEMMA Ready ==
    ASSUME IInv, on_dbus_client_ready
    PROVE  IInv'
  <1>1. held' = One(Opened \cup Waits')
    <2>1. held' = Without(One(Opened \cup {"cbd"}), {"cbd"}) /\ Waits' = {}
      BY DEF IInv, HeldInv, Waits, on_dbus_client_ready
    <2>2. Without(One(Opened \cup {"cbd"}), {"cbd"}) = One((Opened \cup {"cbd"}) \ {"cbd"})
      BY HoldLess
    <2>3. (Opened \cup {"cbd"}) \ {"cbd"} = Opened \cup {}
      BY DEF Opened, Link
    <2> QED
      BY <2>1, <2>2, <2>3
  <1>2. TypeOK'
    BY <1>1, OneIsTyped DEF IInv, TypeOK, on_dbus_client_ready, proxyVars, ofonoVars
  <1>3. HeldInv'
    BY <1>1 DEF HeldInv, on_dbus_client_ready
  <1> QED
    BY <1>2, <1>3 DEF IInv, ProxiesBalanced, BlankInv, InOpen, OpenSteps, on_dbus_client_ready,
                      proxyVars, ofonoVars

\* What the release of the mutable proxies leaves: those of Modem.
LEMMA MutableReleased ==
    ASSUME IInv
    PROVE  /\ release_mutable_dbus_proxy \in Count
           /\ \A s \in Slots, i \in Interfaces :
                 release_mutable_dbus_proxy[s][i]
                     = IF i \notin Mutable /\ proxy[s][i] # 0 THEN 1 ELSE 0
  <1>1. \A s \in Slots, i \in Interfaces : live[s][i] = IF proxy[s][i] # 0 THEN 1 ELSE 0
    BY DEF IInv, ProxiesBalanced
  <1>2. \A s \in Slots, i \in Interfaces :
           release_mutable_dbus_proxy[s][i]
               = IF i \in Mutable /\ proxy[s][i] # 0 THEN live[s][i] - 1 ELSE live[s][i]
    BY DEF release_mutable_dbus_proxy, Released
  <1>3. \A s \in Slots, i \in Interfaces :
           release_mutable_dbus_proxy[s][i]
               = IF i \notin Mutable /\ proxy[s][i] # 0 THEN 1 ELSE 0
    BY <1>1, <1>2
  <1>4. \A s \in Slots, i \in Interfaces :
           (IF i \in Mutable /\ proxy[s][i] # 0 THEN live[s][i] - 1 ELSE live[s][i]) \in Nat
    BY <1>1
  <1>5. release_mutable_dbus_proxy \in Count
    BY <1>4 DEF release_mutable_dbus_proxy, Released, Count
  <1> QED
    BY <1>3, <1>5

LEMMA Replaced ==
    ASSUME IInv
    PROVE  /\ Table(Mutable, gen + 1) \in Count
           /\ Made(release_mutable_dbus_proxy, Mutable) \in Count
           /\ \A s \in Slots, i \in Interfaces :
                 /\ Table(Mutable, gen + 1)[s][i] = IF i \notin Mutable THEN proxy[s][i]
                                                    ELSE IF i \in Unsupported THEN 0 ELSE gen + 1
                 /\ Made(release_mutable_dbus_proxy, Mutable)[s][i]
                        = IF Table(Mutable, gen + 1)[s][i] # 0 THEN 1 ELSE 0
  <1>1. proxy \in Count /\ gen \in Nat /\ Mutable \subseteq Interfaces
    BY Constants DEF IInv, TypeOK
  <1> QED
    BY <1>1, MutableReleased, TableIsMade

LEMMA Reported ==
    ASSUME IInv, ModemStateReported
    PROVE  IInv'
  <1> DEFINE e == Head(events)
  <1>1. /\ events \in Seq(Event) /\ events # <<>> /\ calls \in Seq(Call) /\ gen \in Nat
        /\ e \in Event /\ e.type = "ModemState" /\ Tail(events) \in Seq(Event)
    BY DEF IInv, TypeOK, ModemStateReported
  <1>2. e.slot \in Slots /\ e.state \in States
    BY <1>1 DEF Event
  <1>3. modemState' \in [Slots -> States]
    BY <1>2 DEF IInv, TypeOK, ModemStateReported, on_modem_property_change
  <1>4. HeldInv' /\ BlankInv'
    BY DEF IInv, HeldInv, Waits, BlankInv, InOpen, OpenSteps, ModemStateReported, openVars
  <1>5. CASE modemState[e.slot] = "aware" /\ e.state = "alive"
    <2>1. calls' \in Seq(Call)
      <3>1. calls' = calls \o get_mutable_dbus_proxy(gen + 1)
        BY <1>5 DEF ModemStateReported, on_modem_property_change
      <3>2. gen + 1 \in Nat
        BY <1>1
      <3>3. get_mutable_dbus_proxy(gen + 1) \in Seq(Call)
        BY <3>2, MutableCalls
      <3> QED
        BY <1>1, <3>1, <3>3
    <2>2. TypeOK'
      BY <1>1, <1>3, <1>5, <2>1, Replaced, BlankIsTyped
         DEF IInv, TypeOK, ModemStateReported, on_modem_property_change, openVars, ofonoVars
    <2>3. ProxiesBalanced'
      BY <1>5, Replaced DEF ProxiesBalanced, ModemStateReported, on_modem_property_change
    <2> QED
      BY <1>4, <2>2, <2>3 DEF IInv
  <1>6. CASE ~(modemState[e.slot] = "aware" /\ e.state = "alive")
    <2>1. UNCHANGED <<proxyVars, calls>>
      BY <1>6 DEF ModemStateReported, on_modem_property_change
    <2>2. TypeOK'
      BY <1>1, <1>3, <2>1 DEF IInv, TypeOK, ModemStateReported, openVars, ofonoVars, proxyVars
    <2> QED
      BY <1>4, <2>1, <2>2 DEF IInv, ProxiesBalanced, proxyVars
  <1> QED
    BY <1>5, <1>6

LEMMA Read ==
    ASSUME IInv, PropertiesRead
    PROVE  IInv'
  <1> DEFINE e == Head(events)
  <1>1. /\ events \in Seq(Event) /\ events # <<>> /\ e \in Event /\ e.type = "Properties"
        /\ Tail(events) \in Seq(Event)
    BY DEF IInv, TypeOK, PropertiesRead
  <1>2. e.slot \in Slots /\ e.interface \in Interfaces /\ e.life \in Nat
    BY <1>1, Constants DEF Event
  <1>3. cache' \in Count
    BY <1>2 DEF IInv, TypeOK, PropertiesRead, Count
  <1>4. TypeOK'
    BY <1>1, <1>3 DEF IInv, TypeOK, PropertiesRead, openVars, ofonoVars
  <1> QED
    BY <1>4 DEF IInv, ProxiesBalanced, HeldInv, Waits, BlankInv, InOpen, OpenSteps, PropertiesRead,
                openVars

LEMMA Lost ==
    ASSUME IInv, system_dbus_disconnected
    PROVE  IInv'
  <1>1. TypeOK'
    BY DEF IInv, TypeOK, system_dbus_disconnected, proxyVars, ofonoVars
  <1> QED
    BY <1>1 DEF IInv, ProxiesBalanced, HeldInv, Waits, BlankInv, InOpen, OpenSteps,
                system_dbus_disconnected, proxyVars, ofonoVars

LEMMA Closed ==
    ASSUME IInv, tapi_close
    PROVE  IInv' /\ live' = Blank
  <1>0. held' = One(Waits')
    <2>1. held' = Without(One(Opened \cup Waits), Opened) /\ Waits' = Waits
      <3>1. {"manager", "client", "link", "connection", "ctx"} = Opened
        BY DEF Opened, Link
      <3> QED
        BY <3>1 DEF IInv, HeldInv, Waits, tapi_close
    <2>2. Without(One(Opened \cup Waits), Opened) = One((Opened \cup Waits) \ Opened)
      BY HoldLess
    <2>3. (Opened \cup Waits) \ Opened = Waits
      BY DEF Opened, Link, Waits
    <2> QED
      BY <2>1, <2>2, <2>3
  <1>1. \A s \in Slots, i \in Interfaces : live[s][i] = IF proxy[s][i] # 0 THEN 1 ELSE 0
    BY DEF IInv, ProxiesBalanced
  <1>2. \A s \in Slots, i \in Interfaces :
           (IF i = Modem THEN release_persistent_dbus_proxy[s][i]
            ELSE release_mutable_dbus_proxy[s][i]) = 0
    BY <1>1, Constants DEF release_persistent_dbus_proxy, release_mutable_dbus_proxy, Released
  <1>3. live' = [s \in Slots |-> [i \in Interfaces |-> 0]]
    BY <1>2 DEF tapi_close
  <1>4. TypeOK'
    <2>1. live' \in Count /\ proxy' \in Count /\ cache' \in Count /\ gen' \in Nat
      BY <1>3, BlankIsTyped DEF tapi_close, Blank
    <2>2. calls' \in Seq(Call) /\ events' \in Seq(Event)
      BY NothingUnderWay DEF tapi_close
    <2>3. phase' \in {"closed", "open", "lost"} \cup OpenSteps /\ held' \in [Resources -> Int]
      BY <1>0, OneIsTyped DEF tapi_close
    <2> QED
      BY <2>1, <2>2, <2>3 DEF IInv, TypeOK, tapi_close, ofonoVars
  <1>5. ProxiesBalanced'
    BY <1>3 DEF ProxiesBalanced, tapi_close, Blank
  <1> QED
    BY <1>0, <1>3, <1>4, <1>5 DEF IInv, HeldInv, BlankInv, tapi_close, Blank

LEMMA Answers ==
    ASSUME IInv, OfonoAnswers
    PROVE  IInv' /\ Head(calls) \in Call
  <1> DEFINE c == Head(calls)
  <1>1. /\ calls \in Seq(Call) /\ calls # <<>> /\ c \in Call /\ Tail(calls) \in Seq(Call)
        /\ events \in Seq(Event)
    BY DEF IInv, TypeOK, OfonoAnswers
  <1>2. c.slot \in Slots /\ c.interface \in Interfaces /\ c.gen \in Nat
    BY <1>1 DEF Call
  <1>3. modem[c.slot] \in States /\ life[c.slot] \in Nat
    BY <1>2 DEF IInv, TypeOK
  <1>4. ModemStateIs(c.slot, modem[c.slot]) \in Event
    BY <1>2, <1>3 DEF ModemStateIs, Event
  <1>5. ASSUME NEW n \in Nat, c.interface # Modem
        PROVE  Properties(c.slot, c.interface, c.gen, n) \in Event
    BY <1>2, <1>5, Constants DEF Properties, Event
  <1>6. events' \in Seq(Event)
    BY <1>1, <1>3, <1>4, <1>5 DEF OfonoAnswers
  <1>7. TypeOK'
    BY <1>1, <1>6 DEF IInv, TypeOK, OfonoAnswers, openVars, proxyVars, ofonoVars
  <1>8. ~(phase = "closed" \/ InOpen)
    BY <1>1 DEF IInv, BlankInv
  <1>9. UNCHANGED openVars
    BY DEF OfonoAnswers
  <1>10. HeldInv' /\ BlankInv'
    BY <1>8, <1>9 DEF IInv, HeldInv, Waits, BlankInv, InOpen, openVars
  <1> QED
    BY <1>1, <1>7, <1>10 DEF IInv, ProxiesBalanced, OfonoAnswers, proxyVars

LEMMA ModemChanges ==
    ASSUME IInv, NEW s \in Slots, NEW state \in States, OfonoModemChanges(s, state)
    PROVE  IInv'
  <1>1. ModemStateIs(s, state) \in Event /\ events \in Seq(Event)
    BY DEF IInv, TypeOK, Event, ModemStateIs
  <1>2. events' \in Seq(Event)
    BY <1>1 DEF OfonoModemChanges
  <1>3. modem' \in [Slots -> States] /\ life' \in [Slots -> Nat] /\ steps' \in 0..MaxSteps
    BY Constants DEF IInv, TypeOK, OfonoModemChanges
  <1>4. TypeOK'
    BY <1>2, <1>3 DEF IInv, TypeOK, OfonoModemChanges, openVars, proxyVars
  <1>5. phase # "open" => UNCHANGED events
    BY DEF OfonoModemChanges
  <1>6. HeldInv'
    BY DEF IInv, HeldInv, Waits, OfonoModemChanges, openVars
  <1> QED
    BY <1>4, <1>5, <1>6 DEF IInv, ProxiesBalanced, BlankInv, InOpen, OpenSteps, OfonoModemChanges,
                            openVars, proxyVars

LEMMA Inductive == IInv /\ [Next]_vars => IInv'
  BY Stutter, OpenStarts, OpenGoesWrong, OpenProceeds, Connected, Ready, Reported, Read, Lost,
     Closed, Answers, ModemChanges DEF Next, Opening

LEMMA Invariant == Spec => []IInv
  BY InitInv, Inductive, PTL DEF Spec

-----------------------------------------------------------------------------
\* The state of the context, of its proxies and of what is under way is well typed.
THEOREM TypeCorrect == Spec => []TypeOK
  <1>1. IInv => TypeOK
    BY DEF IInv
  <1> QED
    BY <1>1, Invariant, PTL

\* No proxy leaks and none is released twice (get_mutable_dbus_proxy,
\* release_mutable_dbus_proxy), for any number of slots and any table of interfaces.
THEOREM EachProxyOnce == Spec => []ProxiesBalanced
  <1>1. IInv => ProxiesBalanced
    BY DEF IInv
  <1> QED
    BY <1>1, Invariant, PTL

\* A context that was closed, or never opened, leaves only what CleanShutdown grants it.
THEOREM ClosesClean == Spec => []CleanShutdown
  <1>1. IInv => CleanShutdown
    <2> SUFFICES ASSUME IInv, phase = "closed"
                 PROVE  CleanShutdown
      BY DEF CleanShutdown
    <2>1. \A s \in Slots, i \in Interfaces : live[s][i] = 0
      BY DEF IInv, ProxiesBalanced, BlankInv, Blank
    <2>2. live \in Count
      BY DEF IInv, TypeOK
    <2>3. \A s \in Slots : live[s] = [i \in Interfaces |-> 0]
      BY <2>1, <2>2 DEF Count
    <2>4. live = Blank
      BY <2>2, <2>3 DEF Blank, Count
    <2>5. held = One({}) \/ (~ready /\ held = One({"cbd"}))
      BY DEF IInv, HeldInv, Waits
    <2>6. \A r \in Resources : held[r] = 0 \/ (r = "cbd" /\ ~ready /\ held[r] = 1)
      BY <2>5 DEF One
    <2> QED
      BY <2>4, <2>6 DEF CleanShutdown
  <1> QED
    BY <1>1, Invariant, PTL

\* At whichever step tapi_open fails, after any number of attempts, what it obtained
\* before is released, each exactly once: nothing leaks and nothing is freed twice.
THEOREM FailsClean == Spec => FailedOpenFreesAll
  <1>1. IInv /\ [Next]_vars => [InOpen /\ phase' = "closed" => held' = Nothing]_vars
    <2> SUFFICES ASSUME IInv, Next, InOpen, phase' = "closed"
                 PROVE  held' = Nothing
      BY DEF vars
    <2>1. CASE Opening
      BY <2>1, OpenGoesWrong, OpenProceeds DEF Opening, Connect
    <2>2. ~tapi_open /\ ~on_dbus_client_ready /\ ~ModemStateReported
      BY DEF InOpen, OpenSteps, tapi_open, on_dbus_client_ready, ModemStateReported
    <2>3. ~PropertiesRead /\ ~system_dbus_disconnected /\ ~tapi_close
      BY DEF InOpen, OpenSteps, PropertiesRead, system_dbus_disconnected, tapi_close
    <2>4. ~OfonoAnswers
      BY DEF InOpen, OpenSteps, OfonoAnswers, openVars
    <2>5. \A s \in Slots, state \in States : ~OfonoModemChanges(s, state)
      BY DEF InOpen, OpenSteps, OfonoModemChanges, openVars
    <2> QED
      BY <2>1, <2>2, <2>3, <2>4, <2>5 DEF Next
  <1> QED
    BY <1>1, Invariant, PTL DEF Spec, FailedOpenFreesAll
=============================================================================
