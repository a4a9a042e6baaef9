------------------------------ MODULE ListsProofs ------------------------------
(***************************************************************************)
(* Theorems about the lists TAPI decodes: for arrays of every capacity,    *)
(* lists of every length, and every set of functions that are records as   *)
(* module ListTable has them.                                              *)
(***************************************************************************)
EXTENDS Lists, SequenceTheorems, TLAPS

\* The array holds entries that were looked at and not passed over, in their order.
OrderInv ==
    /\ \A k \in 1..Len(stored) : stored[k] < at /\ message[stored[k]] # "passed"
    /\ \A k, l \in 1..Len(stored) : k < l => stored[k] < stored[l]

\* The blocks there are, are those of the entries in the array.
LiveInv ==
    /\ \A b \in live : \E k \in 1..Len(stored) : b \in Blocks(stored[k])
    /\ phase # "done" => \A k \in 1..Len(stored) : Blocks(stored[k]) \subseteq live
    /\ phase = "done" => live = {}

\* As long as the loop runs there is room for the next entry.
RoomInv ==
    /\ InBounds
    /\ phase \in {"reply", "loop"} /\ decoder.test = "after" =>
          Len(stored) < decoder.capacity

\* Nothing is told before the callback, and what will be told is not short of an entry.
ToldInv ==
    /\ phase \in {"reply", "loop"} => told = Nothing
    /\ phase = "reply" => at = 1
    /\ phase \in {"reply", "loop", "callback"} =>
          \A i \in 1..(at - 1) :
              message[i] # "passed" => \E k \in 1..Len(stored) : stored[k] = i
    /\ phase = "callback" /\ told.status = "OK" =>
          at > Len(message) \/ noMemory = TRUE \/ Len(stored) = decoder.capacity
    /\ TellsTheList

IInv == TypeOK /\ OrderInv /\ LiveInv /\ RoomInv /\ ToldInv /\ FreesItsBlocks

-----------------------------------------------------------------------------
(* Sequences *)

LEMMA AppendFacts ==
    ASSUME NEW S, NEW seq \in Seq(S), NEW e \in S
    PROVE  /\ Append(seq, e) \in Seq(S)
           /\ Len(Append(seq, e)) = Len(seq) + 1
           /\ \A i \in 1..Len(seq) : Append(seq, e)[i] = seq[i]
           /\ Append(seq, e)[Len(seq) + 1] = e
  OBVIOUS

LEMMA FrontFacts ==
    ASSUME NEW S, NEW seq \in Seq(S), seq # <<>>
    PROVE  /\ Len(seq) \in Nat \ {0}
           /\ Last(seq) \in S /\ Last(seq) = seq[Len(seq)]
           /\ Front(seq) \in Seq(S)
           /\ Len(Front(seq)) = Len(seq) - 1
           /\ \A i \in 1..(Len(seq) - 1) : Front(seq)[i] = seq[i]
  <1>1. Len(seq) \in Nat \ {0} /\ \A i \in 1..Len(seq) : seq[i] \in S
    OBVIOUS
  <1>2. \A i \in 1..(Len(seq) - 1) : seq[i] \in S
    BY <1>1
  <1>3. Len(seq) - 1 \in Nat /\ 1 \in Int
    BY <1>1
  <1>4. Front(seq) \in Seq(S)
    BY <1>2, <1>3, SubSeqProperties DEF Front
  <1>5. Len(Front(seq)) = Len(seq) - 1
    <2>1. ASSUME NEW n \in Nat, n <= Len(seq)
          PROVE  Len(SubSeq(seq, 1, n)) = n
      OBVIOUS
    <2>2. Len(seq) - 1 <= Len(seq)
      BY <1>1
    <2> QED
      BY <1>3, <2>1, <2>2 DEF Front
  <1>6. \A i \in 1..(Len(seq) - 1) : Front(seq)[i] = seq[i]
    BY <1>2, <1>3, SubSeqProperties DEF Front
  <1> QED
    BY <1>1, <1>4, <1>5, <1>6 DEF Last

-----------------------------------------------------------------------------
LEMMA InitInv == Init => IInv
  <1> SUFFICES ASSUME Init PROVE IInv
    OBVIOUS
  <1> USE DecoderAssumption
  <1>1. message \in Seq(Kinds) /\ decoder.capacity \in Nat \ {0}
    BY DEF Init
  <1>2. stored = <<>> /\ Len(stored) = 0 /\ stored \in Seq(1..Len(message)) /\ live = {}
    BY DEF Init
  <1>3. told \in [status : {"none", "OK", "ERROR"}, entries : Seq(1..Len(message))]
    BY DEF Init, Nothing
  <1>4. TypeOK
    <2>1. Len(message) \in Nat
      BY <1>1
    <2>2. misfreed \in BOOLEAN /\ noMemory \in BOOLEAN
      BY DEF Init
    <2> QED
      BY <1>2, <1>3, <2>1, <2>2 DEF Init, TypeOK
  <1>5. OrderInv /\ LiveInv /\ RoomInv /\ FreesItsBlocks
    BY <1>1, <1>2 DEF Init, OrderInv, LiveInv, RoomInv, InBounds, FreesItsBlocks
  <1>6. ToldInv
    BY <1>1, <1>2 DEF Init, ToldInv, TellsTheList
  <1> QED
    BY <1>4, <1>5, <1>6 DEF IInv

LEMMA StutterInv ==
    ASSUME IInv, UNCHANGED vars
    PROVE  IInv'
  <1> USE DEF vars
  <1>1. TypeOK'
    BY DEF IInv, TypeOK, Blocks, Names
  <1>2. OrderInv'
    BY DEF IInv, OrderInv
  <1>3. LiveInv'
    BY DEF IInv, LiveInv, Blocks, Names
  <1>4. RoomInv'
    BY DEF IInv, RoomInv, InBounds
  <1>5. ToldInv'
    BY DEF IInv, ToldInv, TellsTheList
  <1>6. FreesItsBlocks'
    BY DEF IInv, FreesItsBlocks
  <1> QED
    BY <1>1, <1>2, <1>3, <1>4, <1>5, <1>6 DEF IInv

-----------------------------------------------------------------------------
\* The facts about types that the steps need.
LEMMA Types ==
    ASSUME TypeOK
    PROVE  /\ message \in Seq(Kinds) /\ Len(message) \in Nat
           /\ decoder.capacity \in Nat \ {0}
           /\ decoder.test \in {"after", "before", "never"}
           /\ at \in Nat /\ at >= 1 /\ at <= Len(message) + 1
           /\ stored \in Seq(1..Len(message)) /\ Len(stored) \in Nat
           /\ \A k \in 1..Len(stored) : stored[k] \in Nat
           /\ told.entries \in Seq(1..Len(message))
  <1>1. message \in Seq(Kinds) /\ decoder.capacity \in Nat \ {0}
        /\ decoder.test \in {"after", "before", "never"}
    BY DecoderAssumption DEF TypeOK
  <1>2. Len(message) \in Nat
    BY <1>1
  <1>3. stored \in Seq(1..Len(message)) /\ Len(stored) \in Nat
    BY DEF TypeOK
  <1>4. \A k \in 1..Len(stored) : stored[k] \in 1..Len(message)
    BY <1>3
  <1>5. \A k \in 1..Len(stored) : stored[k] \in Nat
    BY <1>4
  <1> QED
    BY <1>1, <1>2, <1>3, <1>5 DEF TypeOK

\* A step that leaves the array and its blocks alone and does not end it all.
LEMMA SameArray ==
    ASSUME IInv, UNCHANGED <<decoder, message, at, stored, live, misfreed>>,
           phase # "done", phase' # "done"
    PROVE  OrderInv' /\ LiveInv' /\ InBounds' /\ FreesItsBlocks'
  <1>1. OrderInv'
    BY DEF IInv, OrderInv
  <1>2. LiveInv'
    BY DEF IInv, LiveInv, Blocks, Names
  <1>3. InBounds'
    BY DEF IInv, RoomInv, InBounds
  <1>4. FreesItsBlocks'
    BY DEF IInv, FreesItsBlocks
  <1> QED
    BY <1>1, <1>2, <1>3, <1>4

LEMMA EndsFacts ==
    ASSUME IInv, NEW status \in {"OK", "ERROR"}, Ends(status), phase \in {"reply", "loop"}
    PROVE  /\ phase' = "callback" /\ told'.status = status /\ told'.entries = <<>>
           /\ told' \in [status : {"none", "OK", "ERROR"}, entries : Seq(1..Len(message))]
  <1>1. phase' = "callback" /\ told' = [told EXCEPT !.status = status]
    BY DEF Ends
  <1>2. told = [status |-> "none", entries |-> <<>>]
    BY DEF IInv, ToldInv, Nothing
  <1>3. told' = [status |-> status, entries |-> <<>>]
    BY <1>1, <1>2
  <1>4. <<>> \in Seq(1..Len(message))
    OBVIOUS
  <1>5. told' \in [status : {"none", "OK", "ERROR"}, entries : Seq(1..Len(message))]
    BY <1>3, <1>4
  <1> QED
    BY <1>1, <1>3, <1>5

\* Every way the loop ends before the callback.
LEMMA LoopEnds ==
    ASSUME IInv, NEW status \in {"OK", "ERROR"}, Ends(status), phase \in {"reply", "loop"},
           UNCHANGED <<decoder, message, at, stored, live, misfreed>>,
           noMemory' \in BOOLEAN,
           status = "OK" => at > Len(message) \/ noMemory' = TRUE
    PROVE  IInv'
  <1>1. /\ phase' = "callback" /\ told'.status = status /\ told'.entries = <<>>
        /\ told' \in [status : {"none", "OK", "ERROR"}, entries : Seq(1..Len(message))]
    BY EndsFacts
  <1>2. TypeOK'
    BY <1>1 DEF IInv, TypeOK, Blocks, Names
  <1>3. OrderInv' /\ LiveInv' /\ InBounds' /\ FreesItsBlocks'
    BY <1>1, SameArray
  <1>4. RoomInv'
    BY <1>1, <1>3 DEF RoomInv
  <1>5. ToldInv'
    BY <1>1 DEF IInv, ToldInv, TellsTheList
  <1> QED
    BY <1>2, <1>3, <1>4, <1>5 DEF IInv

LEMMA ReplyInv ==
    ASSUME IInv, Reply
    PROVE  IInv'
  <1>1. CASE Ends("ERROR")
    BY <1>1, LoopEnds DEF Reply, IInv, TypeOK
  <1>2. CASE GoesOn
    <2>1. phase = "reply" /\ phase' = "loop" /\ told' = told
      BY <1>2 DEF GoesOn, Reply
    <2>2. UNCHANGED <<decoder, message, at, stored, live, misfreed, noMemory>>
      BY DEF Reply
    <2>3. TypeOK'
      BY <2>1, <2>2 DEF IInv, TypeOK, Blocks, Names
    <2>4. OrderInv' /\ LiveInv' /\ InBounds' /\ FreesItsBlocks'
      BY <2>1, <2>2, SameArray
    <2>5. RoomInv'
      BY <2>1, <2>2, <2>4 DEF IInv, RoomInv
    <2>6. ToldInv'
      BY <2>1, <2>2 DEF IInv, ToldInv, TellsTheList
    <2> QED
      BY <2>3, <2>4, <2>5, <2>6 DEF IInv
  <1> QED
    BY <1>1, <1>2 DEF Reply

LEMMA ShortInv ==
    ASSUME IInv, TooMany \/ End \/ \E k \in 1..Len(decoder.blocks) : OutOfMemory(k)
    PROVE  IInv'
  <1>1. CASE TooMany
    BY <1>1, LoopEnds DEF TooMany, IInv, TypeOK
  <1>2. CASE End
    BY <1>2, LoopEnds DEF End, IInv, TypeOK
  <1>3. CASE \E k \in 1..Len(decoder.blocks) : OutOfMemory(k)
    BY <1>3, LoopEnds DEF OutOfMemory
  <1> QED
    BY <1>1, <1>2, <1>3

-----------------------------------------------------------------------------
\* The next entry, passed over or stored.
LEMMA DecodeInv ==
    ASSUME IInv, Decode
    PROVE  IInv'
  <1>1. /\ phase = "loop" /\ at <= Len(message) /\ at' = at + 1 /\ told = Nothing
        /\ UNCHANGED <<decoder, message, misfreed, noMemory>>
    BY DEF Decode, IInv, ToldInv
  <1>2. /\ message \in Seq(Kinds) /\ Len(message) \in Nat
        /\ decoder.capacity \in Nat \ {0} /\ decoder.test \in {"after", "before", "never"}
        /\ at \in 1..Len(message)
        /\ stored \in Seq(1..Len(message)) /\ Len(stored) \in Nat
        /\ \A k \in 1..Len(stored) : stored[k] \in Nat
    BY <1>1, Types DEF IInv
  <1>3. /\ phase' \in {"loop", "callback"}
        /\ phase' = "loop" => told' = Nothing /\ ~Full(stored')
        /\ phase' = "callback" => Full(stored')
        /\ told'.entries = <<>> /\ told'.status \in {"none", "OK"}
        /\ told' \in [status : {"none", "OK", "ERROR"}, entries : Seq(1..Len(message))]
    <2>1. CASE Full(stored')
      <3>1. Ends("OK")
        BY <2>1 DEF Decode
      <3> QED
        BY <1>1, <2>1, <3>1, EndsFacts
    <2>2. CASE ~Full(stored')
      <3>1. phase' = "loop" /\ told' = told
        BY <2>2 DEF Decode, GoesOn
      <3> QED
        BY <1>1, <2>2, <3>1 DEF IInv, TypeOK, Nothing
    <2> QED
      BY <2>1, <2>2
  <1>4. FreesItsBlocks'
    BY <1>1 DEF IInv, FreesItsBlocks
  <1>5. CASE message[at] = "passed"
    <2>1. stored' = stored /\ live' = live
      BY <1>5 DEF Decode
    <2>2. TypeOK'
      BY <1>1, <1>2, <1>3, <2>1 DEF IInv, TypeOK, Blocks, Names
    <2>3. OrderInv'
      BY <1>1, <1>2, <2>1 DEF IInv, OrderInv
    <2>4. LiveInv'
      BY <1>1, <1>3, <2>1 DEF IInv, LiveInv, Blocks, Names
    <2>5. RoomInv'
      BY <1>1, <1>2, <1>3, <2>1 DEF IInv, RoomInv, InBounds, Full
    <2>6. ToldInv'
      <3>1. \A i \in 1..at : message[i] # "passed" =>
                                 \E k \in 1..Len(stored) : stored[k] = i
        BY <1>1, <1>2, <1>5 DEF IInv, ToldInv
      <3>2. phase' = "callback" => Len(stored) = decoder.capacity
        BY <1>1, <1>2, <1>3, <2>1 DEF IInv, RoomInv, Full
      <3> QED
        BY <1>1, <1>2, <1>3, <2>1, <3>1, <3>2 DEF ToldInv, TellsTheList
    <2> QED
      BY <1>4, <2>2, <2>3, <2>4, <2>5, <2>6 DEF IInv
  <1>6. CASE message[at] # "passed"
    <2>1. stored' = Append(stored, at) /\ live' = live \cup Blocks(at)
      BY <1>6 DEF Decode
    <2>2. /\ stored' \in Seq(1..Len(message)) /\ Len(stored') = Len(stored) + 1
          /\ \A k \in 1..Len(stored) : stored'[k] = stored[k]
          /\ stored'[Len(stored) + 1] = at
      BY <1>2, <2>1, AppendFacts
    <2>3. \A k \in 1..Len(stored') : k \in 1..Len(stored) \/ k = Len(stored) + 1
      BY <1>2, <2>2
    <2>4. TypeOK'
      <3>1. live' \subseteq UNION {Blocks(i) : i \in 1..Len(message)}
        BY <1>2, <2>1 DEF IInv, TypeOK
      <3> QED
        BY <1>1, <1>2, <1>3, <2>2, <3>1 DEF IInv, TypeOK, Blocks, Names
    <2>5. OrderInv'
      <3>1. \A k \in 1..Len(stored') : stored'[k] < at + 1 /\ message[stored'[k]] # "passed"
        <4> SUFFICES ASSUME NEW k \in 1..Len(stored')
                     PROVE  stored'[k] < at + 1 /\ message[stored'[k]] # "passed"
          OBVIOUS
        <4>1. CASE k = Len(stored) + 1
          BY <1>2, <1>6, <2>2, <4>1
        <4>2. CASE k \in 1..Len(stored)
          <5>1. stored'[k] = stored[k] /\ stored[k] < at /\ message[stored[k]] # "passed"
            BY <2>2, <4>2 DEF IInv, OrderInv
          <5> QED
            BY <1>2, <4>2, <5>1
        <4> QED
          BY <2>3, <4>1, <4>2
      <3>2. ASSUME NEW k \in 1..Len(stored'), NEW l \in 1..Len(stored'), k < l
            PROVE  stored'[k] < stored'[l]
        <4>1. k \in 1..Len(stored)
          BY <1>2, <2>2, <3>2
        <4>2. CASE l \in 1..Len(stored)
          BY <2>2, <3>2, <4>1, <4>2 DEF IInv, OrderInv
        <4>3. CASE l = Len(stored) + 1
          BY <2>2, <4>1, <4>3 DEF IInv, OrderInv
        <4> QED
          BY <2>3, <4>2, <4>3
      <3> QED
        BY <1>1, <3>1, <3>2 DEF OrderInv
    <2>6. LiveInv'
      <3>1. \A b \in live' : \E k \in 1..Len(stored') : b \in Blocks(stored'[k])
        <4> SUFFICES ASSUME NEW b \in live'
                     PROVE  \E k \in 1..Len(stored') : b \in Blocks(stored'[k])
          OBVIOUS
        <4>1. CASE b \in live
          <5>1. PICK k \in 1..Len(stored) : b \in Blocks(stored[k])
            BY <4>1 DEF IInv, LiveInv
          <5>2. k \in 1..Len(stored') /\ stored'[k] = stored[k]
            BY <1>2, <2>2
          <5> QED
            BY <5>1, <5>2
        <4>2. CASE b \in Blocks(at)
          <5>1. Len(stored) + 1 \in 1..Len(stored')
            BY <1>2, <2>2
          <5> QED
            BY <2>2, <4>2, <5>1
        <4> QED
          BY <2>1, <4>1, <4>2
      <3>2. \A k \in 1..Len(stored') : Blocks(stored'[k]) \subseteq live'
        BY <1>1, <2>1, <2>2, <2>3 DEF IInv, LiveInv
      <3>3. \A i : Blocks(i)' = Blocks(i)
        BY <1>1 DEF Blocks, Names
      <3> QED
        BY <1>3, <3>1, <3>2, <3>3 DEF LiveInv
    <2>7. decoder.test = "before" => Len(stored) # decoder.capacity
      BY DEF Decode, NoRoom
    <2>8. RoomInv'
      <3>1. decoder.test # "never" => Len(stored) < decoder.capacity
        BY <1>1, <1>2, <2>7 DEF IInv, RoomInv, InBounds
      <3>2. InBounds'
        BY <1>1, <1>2, <2>2, <3>1 DEF InBounds
      <3>3. phase' = "loop" /\ decoder.test = "after" => Len(stored') < decoder.capacity
        <4>1. phase' = "loop" => ~Full(stored')
          BY <1>3
        <4>2. Len(stored') \in Nat
          BY <1>2, <2>2
        <4> QED
          BY <1>2, <4>1, <4>2 DEF Full
      <3> QED
        BY <1>1, <1>3, <3>2, <3>3 DEF RoomInv
    <2>9. ToldInv'
      <3>1. \A i \in 1..at : message[i] # "passed" =>
                                 \E k \in 1..Len(stored') : stored'[k] = i
        <4> SUFFICES ASSUME NEW i \in 1..at, message[i] # "passed"
                     PROVE  \E k \in 1..Len(stored') : stored'[k] = i
          OBVIOUS
        <4>1. CASE i = at
          <5>1. Len(stored) + 1 \in 1..Len(stored')
            BY <1>2, <2>2
          <5> QED
            BY <2>2, <4>1, <5>1
        <4>2. CASE i # at
          <5>1. i \in 1..(at - 1)
            BY <1>2, <4>2
          <5>2. PICK k \in 1..Len(stored) : stored[k] = i
            BY <1>1, <5>1 DEF IInv, ToldInv
          <5>3. k \in 1..Len(stored') /\ stored'[k] = i
            BY <1>2, <2>2, <5>2
          <5> QED
            BY <5>3
        <4> QED
          BY <4>1, <4>2
      <3>2. phase' = "callback" => Len(stored') = decoder.capacity
        BY <1>1, <1>2, <1>3, <2>2 DEF IInv, RoomInv, Full
      <3> QED
        BY <1>1, <1>2, <1>3, <3>1, <3>2 DEF ToldInv, TellsTheList
    <2> QED
      BY <1>4, <2>4, <2>5, <2>6, <2>8, <2>9 DEF IInv
  <1> QED
    BY <1>5, <1>6

-----------------------------------------------------------------------------
\* What the callback is given is the array.
LEMMA CallbackInv ==
    ASSUME IInv, Callback
    PROVE  IInv'
  <1>1. /\ phase = "callback" /\ phase' = IF decoder.frees THEN "free" ELSE "done"
        /\ told' = IF told.status = "OK" THEN [told EXCEPT !.entries = stored] ELSE told
        /\ UNCHANGED <<decoder, message, at, stored, live, misfreed, noMemory>>
    BY DEF Callback
  <1>2. /\ Len(message) \in Nat /\ at \in Nat /\ at >= 1 /\ at <= Len(message) + 1
        /\ stored \in Seq(1..Len(message)) /\ Len(stored) \in Nat
        /\ \A k \in 1..Len(stored) : stored[k] \in Nat
    BY Types DEF IInv
  <1>3. told' \in [status : {"none", "OK", "ERROR"}, entries : Seq(1..Len(message))]
    BY <1>1, <1>2 DEF IInv, TypeOK
  <1>4. told'.status = "OK" => told'.entries = stored /\ told.status = "OK"
    BY <1>1 DEF IInv, TypeOK
  <1>5. TypeOK'
    BY <1>1, <1>3 DEF IInv, TypeOK, Blocks, Names
  <1>6. OrderInv' /\ RoomInv' /\ FreesItsBlocks'
    BY <1>1 DEF IInv, OrderInv, RoomInv, InBounds, FreesItsBlocks
  <1>7. LiveInv'
    <2>1. CASE decoder.frees
      BY <1>1, <2>1 DEF IInv, LiveInv, Blocks, Names
    <2>2. CASE ~decoder.frees
      <3>1. decoder.blocks = <<>> /\ decoder.fields = {}
        BY <2>2, DecoderAssumption DEF IInv, TypeOK
      <3>2. \A i : Blocks(i) = {}
        BY <3>1 DEF Blocks, Names, Range
      <3>3. live = {} /\ \A i : Blocks(i)' = {}
        BY <1>1, <3>2 DEF IInv, LiveInv, Blocks, Names
      <3> QED
        BY <1>1, <3>3 DEF LiveInv
    <2> QED
      BY <2>1, <2>2
  <1>8. ToldInv'
    <2>1. CASE told'.status # "OK"
      BY <1>1, <2>1 DEF ToldInv, TellsTheList
    <2>2. CASE told'.status = "OK"
      <3>1. Range(stored) = {i \in 1..(at - 1) : message[i] # "passed"}
        <4>1. \A i \in Range(stored) : i \in 1..(at - 1) /\ message[i] # "passed"
          <5> SUFFICES ASSUME NEW i \in Range(stored)
                       PROVE  i \in 1..(at - 1) /\ message[i] # "passed"
            OBVIOUS
          <5>1. PICK k \in 1..Len(stored) : i = stored[k]
            BY <1>2 DEF Range
          <5>2. i \in 1..Len(message) /\ i < at
            BY <1>2, <5>1 DEF IInv, OrderInv
          <5> QED
            BY <1>2, <5>1, <5>2 DEF IInv, OrderInv
        <4>2. \A i \in 1..(at - 1) : message[i] # "passed" => i \in Range(stored)
          <5> SUFFICES ASSUME NEW i \in 1..(at - 1), message[i] # "passed"
                       PROVE  i \in Range(stored)
            OBVIOUS
          <5>1. PICK k \in 1..Len(stored) : stored[k] = i
            BY <1>1 DEF IInv, ToldInv
          <5> QED
            BY <1>2, <5>1 DEF Range
        <4> QED
          BY <4>1, <4>2
      <3>2. \A k \in 1..(Len(stored) - 1) : stored[k] < stored[k + 1]
        BY <1>2 DEF IInv, OrderInv
      <3>3. at > Len(message) \/ noMemory = TRUE \/ Len(stored) = decoder.capacity
        BY <1>1, <1>4, <2>2 DEF IInv, ToldInv
      <3>4. TellsTheList'
        BY <1>1, <1>4, <2>2, <3>1, <3>2, <3>3 DEF TellsTheList
      <3> QED
        BY <1>1, <3>4 DEF ToldInv
    <2> QED
      BY <2>1, <2>2
  <1> QED
    BY <1>5, <1>6, <1>7, <1>8 DEF IInv

\* The last entry is freed: its blocks are there, and they are no other entry's.
LEMMA FreeInv ==
    ASSUME IInv, Free
    PROVE  IInv'
  <1>1. /\ phase = "free" /\ stored # <<>> /\ stored' = Front(stored)
        /\ live' = live \ Blocks(Last(stored))
        /\ misfreed' = (misfreed \/ Wild(Last(stored))
                                 \/ ~(Blocks(Last(stored)) \subseteq live))
        /\ UNCHANGED <<decoder, message, phase, at, told, noMemory>>
    BY DEF Free
  <1>2. /\ Len(message) \in Nat /\ decoder.capacity \in Nat
        /\ stored \in Seq(1..Len(message)) /\ Len(stored) \in Nat
        /\ \A k \in 1..Len(stored) : stored[k] \in Nat
    BY Types DEF IInv
  <1>3. /\ Len(stored) \in Nat \ {0} /\ Last(stored) = stored[Len(stored)]
        /\ stored' \in Seq(1..Len(message)) /\ Len(stored') = Len(stored) - 1
        /\ \A k \in 1..Len(stored') : stored'[k] = stored[k] /\ k \in 1..Len(stored)
    <2>1. /\ Len(stored) \in Nat \ {0} /\ Last(stored) = stored[Len(stored)]
          /\ Front(stored) \in Seq(1..Len(message)) /\ Len(Front(stored)) = Len(stored) - 1
          /\ \A k \in 1..(Len(stored) - 1) : Front(stored)[k] = stored[k]
      BY <1>1, <1>2, FrontFacts
    <2>2. \A k \in 1..(Len(stored) - 1) : k \in 1..Len(stored)
      BY <2>1
    <2> QED
      BY <1>1, <2>1, <2>2
  <1>4. Last(stored) \in 1..Len(message)
    BY <1>1, <1>2, FrontFacts
  <1>5. \A i : Blocks(i)' = Blocks(i)
    BY <1>1 DEF Blocks, Names
  <1>6. TypeOK'
    BY <1>1, <1>3, <1>5 DEF IInv, TypeOK
  <1>7. OrderInv'
    BY <1>1, <1>3 DEF IInv, OrderInv
  <1>8. LiveInv'
    <2>1. \A k \in 1..Len(stored') : stored'[k] # Last(stored)
      <3> SUFFICES ASSUME NEW k \in 1..Len(stored') PROVE stored'[k] # Last(stored)
        OBVIOUS
      <3>1. k < Len(stored) /\ k \in 1..Len(stored) /\ Len(stored) \in 1..Len(stored)
        BY <1>3
      <3>2. stored[k] < stored[Len(stored)]
        BY <3>1 DEF IInv, OrderInv
      <3> QED
        BY <1>2, <1>3, <3>1, <3>2
    <2>2. \A i, j : i # j => Blocks(i) \cap Blocks(j) = {}
      BY DEF Blocks
    <2>3. \A k \in 1..Len(stored') : Blocks(stored'[k]) \subseteq live'
      BY <1>1, <1>3, <2>1, <2>2 DEF IInv, LiveInv
    <2>4. \A b \in live' : \E k \in 1..Len(stored') : b \in Blocks(stored'[k])
      <3> SUFFICES ASSUME NEW b \in live'
                   PROVE  \E k \in 1..Len(stored') : b \in Blocks(stored'[k])
        OBVIOUS
      <3>1. PICK k \in 1..Len(stored) : b \in Blocks(stored[k])
        BY <1>1 DEF IInv, LiveInv
      <3>2. k # Len(stored)
        BY <1>1, <1>3, <3>1
      <3>3. k \in 1..Len(stored')
        BY <1>3, <3>2
      <3> QED
        BY <1>3, <3>1, <3>3
    <2> QED
      BY <1>1, <1>5, <2>3, <2>4 DEF LiveInv
  <1>9. RoomInv'
    BY <1>1, <1>2, <1>3 DEF IInv, RoomInv, InBounds
  <1>10. ToldInv'
    BY <1>1 DEF IInv, ToldInv, TellsTheList
  <1>11. FreesItsBlocks'
    <2>1. Len(stored) \in 1..Len(stored)
      BY <1>3
    <2>2. Blocks(Last(stored)) \subseteq live
      BY <1>1, <1>3, <2>1 DEF IInv, LiveInv
    <2>3. CASE Wild(Last(stored))
      BY <1>1, <1>4, <2>3 DEF FreesItsBlocks, Wild
    <2>4. CASE ~Wild(Last(stored))
      BY <1>1, <2>2, <2>4 DEF IInv, FreesItsBlocks
    <2> QED
      BY <2>3, <2>4
  <1> QED
    BY <1>6, <1>7, <1>8, <1>9, <1>10, <1>11 DEF IInv

LEMMA DoneInv ==
    ASSUME IInv, Done
    PROVE  IInv'
  <1>1. /\ phase = "free" /\ stored = <<>> /\ phase' = "done"
        /\ UNCHANGED <<decoder, message, at, stored, live, misfreed, told, noMemory>>
    BY DEF Done
  <1>2. live = {}
    BY <1>1 DEF IInv, LiveInv
  <1>3. TypeOK'
    BY <1>1 DEF IInv, TypeOK, Blocks, Names
  <1>4. OrderInv' /\ RoomInv' /\ FreesItsBlocks'
    BY <1>1 DEF IInv, OrderInv, RoomInv, InBounds, FreesItsBlocks
  <1>5. LiveInv'
    BY <1>1, <1>2 DEF LiveInv
  <1>6. ToldInv'
    BY <1>1 DEF IInv, ToldInv, TellsTheList
  <1> QED
    BY <1>3, <1>4, <1>5, <1>6 DEF IInv

-----------------------------------------------------------------------------
LEMMA Inductive == IInv /\ [Next]_vars => IInv'
  BY StutterInv, ReplyInv, ShortInv, DecodeInv, CallbackInv, FreeInv, DoneInv DEF Next

LEMMA Invariant == Spec => []IInv
  BY InitInv, Inductive, PTL DEF Spec

\* The state of every function that decodes a list is well typed.
THEOREM TypeCorrect == Spec => []TypeOK
  <1>1. IInv => TypeOK
    BY DEF IInv
  <1> QED
    BY <1>1, Invariant, PTL

\* The functions that look at how full their array is never write past its end.
THEOREM NeverPastTheEnd == Spec => []InBounds
  <1>1. IInv => InBounds
    BY DEF IInv, RoomInv
  <1> QED
    BY <1>1, Invariant, PTL

\* The application is told the entries oFono sent, none lost before the list is cut short.
THEOREM ListsAreTold == Spec => []TellsTheList
  <1>1. IInv => TellsTheList
    BY DEF IInv, ToldInv
  <1> QED
    BY <1>1, Invariant, PTL

\* What the application is given during its callback has not been freed.
THEOREM ToldIsThere == Spec => []BlocksAreThere
  <1>1. IInv => BlocksAreThere
    BY DEF IInv, LiveInv, BlocksAreThere
  <1> QED
    BY <1>1, Invariant, PTL

\* No function leaks a block, wherever memory runs out.
THEOREM NothingLeaks == Spec => []AllFreed
  <1>1. IInv => AllFreed
    BY DEF IInv, LiveInv, AllFreed
  <1> QED
    BY <1>1, Invariant, PTL

\* No block is freed twice, and what is no block is not freed unless a function leaves
\* the members of missing properties unset.
THEOREM FreesOnlyBlocks == Spec => []FreesItsBlocks
  <1>1. IInv => FreesItsBlocks
    BY DEF IInv
  <1> QED
    BY <1>1, Invariant, PTL
=============================================================================
