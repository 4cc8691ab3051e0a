------------------------------- MODULE MCUart -------------------------------
(***************************************************************************)
(* Uart on a FIFO of two bytes with one character and every interleaving,  *)
(* and on one of three with two characters and one operation at a time.    *)
(***************************************************************************)
EXTENDS Uart

CONSTANTS a, b

OneChar == {a}
TwoChars == {a, b}
EveryLsr == SUBSET Flags
NoLsr == {}

=============================================================================
