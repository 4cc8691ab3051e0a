----------------------------- MODULE MCTrapUnit -----------------------------
(***************************************************************************)
(* TrapUnit on an address space of four words (0 is below LowPc, 1 and 2   *)
(* hold the program, 3 is past its end).                                   *)
(***************************************************************************)
EXTENDS TrapUnit

MCLowPc == 1
MCBasePc == 1
MCEndPc == 3
MCLoadPc == 1
MCTargets == {0, 2}
MCMppValues == {PRV_S}
MCMieValues == {{}, Sources}

=============================================================================
