--------------------------------- MODULE Lists ---------------------------------
(***************************************************************************)
(* How TAPI takes a list out of a message: entry by entry into an array on *)
(* the stack, with memory for each entry where the function needs it; the  *)
(* callback is given the array, and then the memory is freed, last entry   *)
(* first.  The functions differ as module ListTable says.                  *)
(***************************************************************************)
EXTENDS Integers, Sequences, SequencesExt

CONSTANTS
    Decoders,   \* the functions: records of module ListTable
    Messages,   \* for each of them, the lists oFono sends: sequences of kinds of entries
    Faults      \* "reply": an error or a wrong signature; "memory"

VARIABLES
    decoder, message,
    phase,      \* "reply", "loop", "callback", "free", "done"
    at,         \* the entry looked at
    stored,     \* the array: which entries it holds
    live,       \* the blocks there are: an entry and a name
    misfreed,   \* something was freed that is no block
    told,       \* what the callback was given: status and entries
    noMemory    \* an allocation failed

vars == <<decoder, message, phase, at, stored, live, misfreed, told, noMemory>>

\* An entry can be whole, lack properties, or be one the function passes over.
Kinds == {"whole", "partial", "passed"}

ASSUME DecoderAssumption ==
    /\ \A d \in Decoders :
          /\ Messages[d] \subseteq Seq(Kinds)
          /\ d.capacity \in Nat \ {0} /\ d.test \in {"after", "before", "never"}
          /\ d.blocks \in Seq(STRING)
          /\ {d.frees, d.raw} \subseteq BOOLEAN
          /\ ~d.frees => d.blocks = <<>> /\ d.fields = {}

\* What decoding an entry leaves allocated: the blocks of its own, and a string or a
\* structure for each property it has.
Names(i)  == Range(decoder.blocks) \cup (IF message[i] = "whole" THEN decoder.fields ELSE {})
Blocks(i) == {<<i, name>> : name \in Names(i)}

Nothing == [status |-> "none", entries |-> <<>>]

TypeOK ==
    /\ decoder \in Decoders /\ message \in Messages[decoder]
    /\ phase \in {"reply", "loop", "callback", "free", "done"}
    /\ at \in 1..(Len(message) + 1)
    /\ stored \in Seq(1..Len(message))
    /\ live \subseteq UNION {Blocks(i) : i \in 1..Len(message)}
    /\ {misfreed, noMemory} \subseteq BOOLEAN
    /\ told \in [status : {"none", "OK", "ERROR"}, entries : Seq(1..Len(message))]

Init ==
    /\ decoder \in Decoders /\ message \in Messages[decoder]
    /\ phase = "reply" /\ at = 1 /\ stored = <<>> /\ live = {} /\ misfreed = FALSE
    /\ told = Nothing /\ noMemory = FALSE

-----------------------------------------------------------------------------
Ends(status) == phase' = "callback" /\ told' = [told EXCEPT !.status = status]
GoesOn       == phase' = "loop" /\ UNCHANGED told

\* dbus_set_error_from_message, dbus_message_has_signature.  A signal that is not as it
\* should be is dropped (module SignalWatch).
Reply ==
    /\ phase = "reply"
    /\ GoesOn \/ ("reply" \in Faults /\ decoder.errors /\ Ends("ERROR"))
    /\ UNCHANGED <<decoder, message, at, stored, live, misfreed, noMemory>>

Full(entries) == decoder.test = "after" /\ Len(entries) >= decoder.capacity

\* "too many strings": the one function that looks before it stores.
NoRoom == decoder.test = "before" /\ Len(stored) = decoder.capacity

TooMany ==
    /\ phase = "loop" /\ at <= Len(message) /\ NoRoom
    /\ Ends("ERROR")
    /\ UNCHANGED <<decoder, message, at, stored, live, misfreed, noMemory>>

\* Variant: the iterator moves on before the entry is read.
MovesOnFirst ==
    /\ phase = "loop" /\ at <= Len(message) /\ ~NoRoom
    /\ IF message[at] = "passed"
       THEN UNCHANGED <<stored, live>>
       ELSE stored' = Append(stored, at + 1) /\ live' = live \cup Blocks(at)
    /\ at' = at + 1
    /\ IF Full(stored') THEN Ends("OK") ELSE GoesOn
    /\ UNCHANGED <<decoder, message, misfreed, noMemory>>

\* Variant: an entry that is to be passed over is stored.
StoresAll ==
    /\ phase = "loop" /\ at <= Len(message) /\ ~NoRoom
    /\ stored' = Append(stored, at) /\ live' = live \cup Blocks(at)
    /\ at' = at + 1
    /\ IF Full(stored') THEN Ends("OK") ELSE GoesOn
    /\ UNCHANGED <<decoder, message, misfreed, noMemory>>

\* Variant: what is for an entry that is passed over is done for every entry.
GivesBackAll ==
    /\ phase = "loop" /\ at <= Len(message) /\ ~NoRoom
    /\ stored' = IF message[at] = "passed" THEN stored ELSE Append(stored, at)
    /\ at' = at + 1
    /\ IF Full(stored') THEN Ends("OK") ELSE GoesOn
    /\ UNCHANGED <<decoder, message, live, misfreed, noMemory>>

\* The next entry is decoded and stored; one that is passed over gives back its blocks.
Decode ==
    /\ phase = "loop" /\ at <= Len(message) /\ ~NoRoom
    /\ IF message[at] = "passed"
       THEN UNCHANGED <<stored, live>>
       ELSE stored' = Append(stored, at) /\ live' = live \cup Blocks(at)
    /\ at' = at + 1
    /\ IF Full(stored') THEN Ends("OK") ELSE GoesOn
    /\ UNCHANGED <<decoder, message, misfreed, noMemory>>

\* Variant: the blocks allocated before the one that fails stay.
OutOfMemoryLeaks(k) ==
    /\ "memory" \in Faults
    /\ phase = "loop" /\ at <= Len(message) /\ ~NoRoom
    /\ live' = live \cup {<<at, decoder.blocks[j]>> : j \in 1..(k - 1)}
    /\ noMemory' = TRUE /\ Ends("OK")
    /\ UNCHANGED <<decoder, message, at, stored, misfreed>>

\* The allocation of the entry's k-th block fails, the ones before it are given back, and
\* the list ends there.
OutOfMemory(k) ==
    /\ "memory" \in Faults
    /\ phase = "loop" /\ at <= Len(message) /\ ~NoRoom
    /\ noMemory' = TRUE /\ Ends("OK")
    /\ UNCHANGED <<decoder, message, at, stored, live, misfreed>>

End ==
    /\ phase = "loop" /\ at > Len(message) /\ Ends("OK")
    /\ UNCHANGED <<decoder, message, at, stored, live, misfreed, noMemory>>

\* ar->data and ar->arg2 are set if the status is OK.
Callback ==
    /\ phase = "callback" /\ phase' = IF decoder.frees THEN "free" ELSE "done"
    /\ told' = IF told.status = "OK" THEN [told EXCEPT !.entries = stored] ELSE told
    /\ UNCHANGED <<decoder, message, at, stored, live, misfreed, noMemory>>

\* A member that was never set is freed: what it holds is not a block.
Wild(i) == decoder.raw /\ message[i] = "partial" /\ decoder.fields # {}

\* while (--index >= 0) free(result[index]...).
Free ==
    /\ phase = "free" /\ stored # <<>>
    /\ live' = live \ Blocks(Last(stored)) /\ stored' = Front(stored)
    /\ misfreed' = (misfreed \/ Wild(Last(stored)) \/ ~(Blocks(Last(stored)) \subseteq live))
    /\ UNCHANGED <<decoder, message, phase, at, told, noMemory>>

Done ==
    /\ phase = "free" /\ stored = <<>> /\ phase' = "done"
    /\ UNCHANGED <<decoder, message, at, stored, live, misfreed, told, noMemory>>

Next ==
    \/ Reply \/ TooMany \/ Decode \/ End \/ Callback \/ Free \/ Done
    \/ \E k \in 1..Len(decoder.blocks) : OutOfMemory(k)

Spec == Init /\ [][Next]_vars

-----------------------------------------------------------------------------
(* Properties *)

\* The array is never written past its end, however long the list oFono sends, by the
\* functions that look at how full it is (MAX_APN_LIST_CAPACITY and its like).
InBounds == decoder.test # "never" => Len(stored) <= decoder.capacity

\* What the application is told are the entries that are not passed over, none lost, none
\* twice and in their order, until the list ends, the array is full or memory runs out.
TellsTheList ==
    phase \in {"free", "done"} /\ told.status = "OK" =>
        /\ Range(told.entries) = {i \in 1..(at - 1) : message[i] # "passed"}
        /\ \A k \in 1..(Len(told.entries) - 1) : told.entries[k] < told.entries[k + 1]
        /\ at > Len(message) \/ noMemory \/ Len(told.entries) = decoder.capacity

\* While the callback runs, and until each entry is freed, the blocks of every entry it
\* was given are there.
BlocksAreThere ==
    phase \in {"loop", "callback", "free"} => \A k \in 1..Len(stored) : Blocks(stored[k]) \subseteq live

\* In the end every block was freed, wherever the list was cut short.
AllFreed == phase = "done" => live = {}

\* Nothing but a block is freed, and no block twice; the list of messages holds to that
\* only if every message has all its properties.
FreesItsBlocks ==
    misfreed => decoder.raw /\ \E i \in 1..Len(message) : message[i] = "partial"

\* The two that no run is spent on.  No function writes past the end of its array: the
\* list of calls and the list of messages do, they never look.
NothingIsOverrun == Len(stored) <= decoder.capacity

\* Nothing but a block is freed: a message without a text frees an unset pointer.
OnlyBlocksAreFreed == ~misfreed
=============================================================================
