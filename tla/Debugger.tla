------------------------------ MODULE Debugger ------------------------------
(***************************************************************************)
(* What the user of the simulator is promised.  A stopped machine does one *)
(* thing for every key typed in CPU mode and nothing by itself; what it    *)
(* does is what the newest key says, even one typed for the guest.  A      *)
(* running machine is stopped or reset by the newest key.  What a command  *)
(* or a running machine has changed is shown in the end.  (Not promised:   *)
(* that a key typed for the guest, or the trap of a bad pc, is shown.)     *)
(*                                                                         *)
(* RunControl implements it: src/src/simulator.c, src/src/keyboard.c and   *)
(* src/src/display.c.                                                      *)
(***************************************************************************)
EXTENDS Naturals

CONSTANT Keys

VARIABLES
    key,        \* the newest key
    mode,       \* whom the next key is for
    running,    \* the machine executes by itself
    grants,     \* keys typed in CPU mode that have not been acted upon
    doing,      \* what the last key made a machine that does not run do
    unseen,     \* a command or the running machine did what is not on the screen
    ended

vars == <<key, mode, running, grants, doing, unseen, ended>>

Deed(k) ==
    IF k \in {"s", "c"} THEN "instruction"
    ELSE IF k = "r" THEN "reset"
    ELSE IF k = "q" THEN "quit"
    ELSE "nothing"

Init ==
    /\ key = "none"
    /\ mode = "CPU"
    /\ ~running
    /\ grants = 0
    /\ doing = "nothing"
    /\ ~unseen
    /\ ~ended

TypeCommand(k) ==
    /\ mode = "CPU"
    /\ key' = k
    /\ grants' = grants + 1
    /\ mode' = (IF k \in {"c", "ctrl-g"} THEN "UART" ELSE "CPU")
    /\ UNCHANGED <<running, doing, unseen, ended>>

TypeToGuest(k) ==
    /\ mode = "UART"
    /\ key' = k
    /\ mode' = (IF k = "ctrl-g" THEN "CPU" ELSE "UART")
    /\ UNCHANGED <<running, grants, doing, unseen, ended>>

\* A stopped machine takes a key: step, continue (from its first instruction
\* on), reset, quit, or nothing.
Obey ==
    /\ ~running /\ doing = "nothing"
    /\ grants > 0
    /\ grants' = grants - 1
    /\ doing' = Deed(key)
    /\ running' = (key = "c")
    /\ UNCHANGED <<key, mode, unseen, ended>>

Finish ==
    /\ doing \in {"instruction", "reset"}
    /\ doing' = "nothing"
    /\ unseen' = TRUE
    /\ UNCHANGED <<key, mode, running, grants, ended>>

\* A running machine is stopped by the newest key, which it looks at without
\* taking it: the grant stays.
Stop ==
    /\ running /\ doing = "nothing"
    /\ key \in {"s", "b", "r", "q"}
    /\ running' = FALSE
    /\ doing' = (IF key = "s" THEN "nothing" ELSE Deed(key))
    /\ UNCHANGED <<key, mode, grants, unseen, ended>>

\* The program has come to its end.
End ==
    /\ running /\ doing = "nothing"
    /\ running' = FALSE
    /\ UNCHANGED <<key, mode, grants, doing, unseen, ended>>

\* An instruction of a running machine, the first half of a reset, or the
\* keyboard mode, which is also on the screen.
Change ==
    /\ unseen' = TRUE
    /\ UNCHANGED <<key, mode, running, grants, doing, ended>>

Show ==
    /\ unseen
    /\ unseen' = FALSE
    /\ UNCHANGED <<key, mode, running, grants, doing, ended>>

\* q, or a reset that finds no program to load.
Exit ==
    /\ doing \in {"quit", "reset"}
    /\ ended' = TRUE
    /\ unseen' = (unseen \/ doing = "reset")
    /\ UNCHANGED <<key, mode, running, grants, doing>>

Type == \E k \in Keys : TypeCommand(k) \/ TypeToGuest(k)

Next == ~ended /\ (Type \/ Obey \/ Finish \/ Stop \/ End \/ Change \/ Show \/ Exit)

SafeSpec == Init /\ [][Next]_vars

Obeying == ~ended /\ Obey
Finishing == ~ended /\ (Finish \/ Exit)
Stopping == ~ended /\ mode = "CPU" /\ Stop
Showing == ~ended /\ Show

Spec ==
    /\ SafeSpec
    /\ WF_vars(Obeying) /\ WF_vars(Finishing) /\ WF_vars(Stopping) /\ WF_vars(Showing)

=============================================================================
