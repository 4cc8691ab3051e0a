------------------------------- MODULE MCAlu --------------------------------
(***************************************************************************)
(* Alu with registers of 8 bits and 32-bit forms of 4: two registers that  *)
(* take every pair of values.                                              *)
(***************************************************************************)
EXTENDS Alu

MCXLen == 8
MCWLen == 4
MCRegs == 0..2
MCOperands == {<<1, 1, 2>>, <<2, 1, 1>>, <<0, 2, 2>>}
MCImmediates == {-3, 1}

=============================================================================
