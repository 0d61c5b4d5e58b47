---------------------------- MODULE FirmwareSlot ----------------------------
(***************************************************************************)
(* What the EEPROM promises to the program that boots: a slot that is      *)
(* empty or offers one firmware file.  A file on offer is never edited in  *)
(* place; it has to be withdrawn before another one is offered.            *)
(***************************************************************************)
EXTENDS Sequences

CONSTANT Chunk

VARIABLE slot       \* the file on offer, <<>> for none

Empty == <<>>

Init == slot = Empty

Offer ==
    /\ slot = Empty
    /\ slot' # Empty
    /\ slot' \in Seq(Chunk)

Withdraw ==
    /\ slot # Empty
    /\ slot' = Empty

Next == Offer \/ Withdraw

Spec == Init /\ [][Next]_slot
=============================================================================
