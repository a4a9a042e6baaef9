----------------------------- MODULE TrailingCopy -----------------------------
(***************************************************************************)
(* What reading a property through a cache promises: what is shown of a    *)
(* cell is something the cell has held, and from one look to the next it   *)
(* never goes back to something older.                                     *)
(***************************************************************************)
EXTENDS Integers, Sequences

CONSTANTS Values

VARIABLES
    history,  \* per cell: what it held, the last is what it holds
    shown     \* per cell: which of these was shown last, 0 for none

Cells == DOMAIN history

Init ==
    /\ \A c \in Cells : \E v \in Values : history[c] = <<v>>
    /\ shown = [c \in Cells |-> 0]

Write(c) ==
    /\ history'[c] \in {Append(history[c], v) : v \in Values}
    /\ history' = [history EXCEPT ![c] = history'[c]]
    /\ UNCHANGED shown

\* Any cells are looked at.
Show ==
    /\ DOMAIN shown' = Cells
    /\ \A c \in Cells : shown'[c] \in shown[c]..Len(history[c])
    /\ UNCHANGED history

Next == Show \/ \E c \in Cells : Write(c)

Spec == Init /\ [][Next]_<<history, shown>>
=============================================================================
