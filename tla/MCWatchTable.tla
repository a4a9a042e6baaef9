----------------------------- MODULE MCWatchTable -----------------------------
(***************************************************************************)
(* What the theorems of SignalWatchProofs ask of a table of watches, asked *)
(* of the watches the library really makes.                                *)
(***************************************************************************)
EXTENDS MCSignalWatch

\* Of all messages, with every fault: FreedOnce.
ASSUME AllTellersKeep == TellingKeeps

\* Of the messages that share signals, without faults: Lasting, Silent, KeepsPromise.
Shared == INSTANCE SignalWatch WITH
    Messages <- SharedMessages, Faults <- {}, LogsOverMiwear <- FALSE

ASSUME SharedAreDisciplined ==
    Shared!AlwaysKeeps /\ Shared!Disciplined /\ Shared!OneWay
=============================================================================
