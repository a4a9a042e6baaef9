------------------------------- MODULE MCLists -------------------------------
(***************************************************************************)
(* Lists with every function of the table: lists that are empty, short,    *)
(* one entry off what the array takes on either side and one more, in      *)
(* which all entries are whole but at most one.                            *)
(***************************************************************************)
EXTENDS Lists

Table == INSTANCE ListTable

MCDecoders == Table!AllDecoders

Lengths(d)  == {0, 1, 2} \cup ((d.capacity - 1)..(d.capacity + 2))
Odd(d)      == {0, 1, 2, d.capacity, d.capacity + 1}

MCMessages ==
    [d \in MCDecoders |->
        {[i \in 1..n |-> IF i = odd THEN kind ELSE "whole"] :
            n \in Lengths(d), odd \in Odd(d), kind \in d.kinds}]
=============================================================================
