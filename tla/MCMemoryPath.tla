---------------------------- MODULE MCMemoryPath ----------------------------
(***************************************************************************)
(* MemoryPath with bytes of one bit, so that the widths keep their ratios  *)
(* and a doubleword is one of 256.  Behind the counter there is one more   *)
(* doubleword, addressed at two alignments.  Outside the memory are an     *)
(* address below LowLimit, a device and an address that is out of range.   *)
(***************************************************************************)
EXTENDS MemoryPath

MCAddresses == {0, 5, 24, 27, 32}
MCValues == {6, 165}
MCEncodings == {<<0, 0>>} \cup {3} \X {1, 4, 8, 12, 16, 20, 24, 28}

=============================================================================
