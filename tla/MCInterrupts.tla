---------------------------- MODULE MCInterrupts ----------------------------
(***************************************************************************)
(* Interrupts with a timer that is armed or not and due or not, and a      *)
(* guest that enables all interrupts or none, requests software interrupts *)
(* and clears mip.                                                         *)
(***************************************************************************)
EXTENDS Interrupts

MCMaxTime == 1
MCAlarms == {1, 2}
MCEnableValues == {{}, Sources}

Update(set, clear) == [set |-> set, clear |-> clear, then |-> "handle"]

MCGuestUpdates ==
    {Update({"MSIP"}, {}), Update({}, Bits)}

=============================================================================
