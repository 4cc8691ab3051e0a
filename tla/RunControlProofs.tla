-------------------------- MODULE RunControlProofs --------------------------
(***************************************************************************)
(* The safety properties of RunControl, for any number of tokens and any   *)
(* period of the full redraw.                                              *)
(***************************************************************************)
EXTENDS RunControl, TLAPS

(* The display has a token, or will get one, for every change a command    *)
(* made since its last full redraw; or fast mode redraws anyway.           *)
RedrawDue ==
    "command" \in unshown =>
        \/ semRefresh > 0
        \/ fast
        \/ spc \in {"post", "free", "reload"}
        \/ kpc = "postRefresh"
        \/ exited

(* The place in the loop tells the speed: only the simulator changes it.   *)
SpeedByPlace ==
    /\ spc \in {"wait", "readKey", "dispatch", "free", "reload"} => ~fast
    /\ spc \in {"getMode", "fastReadKey", "fastDispatch", "fastBody"} => fast

IInv == TypeOK /\ RedrawDue /\ SpeedByPlace /\ NoLostWakeup

LEMMA InitIInv == Init => IInv
<1> SUFFICES ASSUME Init PROVE IInv
  OBVIOUS
<1> USE ConstantAssumption DEF Init
<1>1. TypeOK
  <2>1. KeyboardTypeOK
    BY DEF KeyboardTypeOK
  <2>2. SimulatorTypeOK
    <3>1. fast \in BOOLEAN
      OBVIOUS
    <3>2. QED
      BY <3>1 DEF SimulatorTypeOK
  <2>3. DisplayTypeOK
    BY DEF DisplayTypeOK
  <2>4. SharedTypeOK
    <3>1. exited \in BOOLEAN
      OBVIOUS
    <3>2. QED
      BY <3>1 DEF SharedTypeOK
  <2>5. QED
    BY <2>1, <2>2, <2>3, <2>4 DEF TypeOK
<1>2. RedrawDue /\ SpeedByPlace /\ NoLostWakeup
  BY DEF RedrawDue, SpeedByPlace, NoLostWakeup
<1>3. QED
  BY <1>1, <1>2 DEF IInv

-----------------------------------------------------------------------------
(* No step breaks the typing.                                              *)

LEMMA KeyboardKeepsTypes == ASSUME TypeOK, KeyboardStep \/ Type PROVE TypeOK'
<1> USE DEF TypeOK
<1>1. CASE PostContinue \/ SwitchMode \/ PostRefresh \/ Receive \/ Trigger
  <2> USE <1>1 DEF PostContinue, SwitchMode, PostRefresh, Receive, Trigger, simulatorVars,
                   displayVars
  <2>1. KeyboardTypeOK'
    BY DEF KeyboardTypeOK
  <2>2. SimulatorTypeOK' /\ DisplayTypeOK'
    BY DEF SimulatorTypeOK, DisplayTypeOK
  <2>3. SharedTypeOK'
    <3>1. unshown' \subseteq {"command", "key", "fault"}
      BY DEF SharedTypeOK, Changed
    <3>2. semContinue' \in Nat /\ semRefresh' \in Nat /\ exited' = exited
      BY DEF SharedTypeOK
    <3>3. QED
      BY <3>1, <3>2 DEF SharedTypeOK
  <2>4. QED
    BY <2>1, <2>2, <2>3
<1>2. CASE \E k \in Keys : ReadKey(k)
  <2> USE <1>2 DEF ReadKey, simulatorVars, displayVars
  <2>1. KeyboardTypeOK'
    BY DEF KeyboardTypeOK
  <2>2. SimulatorTypeOK' /\ DisplayTypeOK' /\ SharedTypeOK'
    BY DEF SimulatorTypeOK, DisplayTypeOK, SharedTypeOK
  <2>3. QED
    BY <2>1, <2>2
<1>3. QED
  BY <1>1, <1>2 DEF KeyboardStep, Type

LEMMA DisplayKeepsTypes == ASSUME TypeOK, DisplayStep PROVE TypeOK'
<1> USE DEF TypeOK, DisplayStep, EndDrawing, CheckFast, FastDraw, WaitRefresh,
            BeginFullDrawing, keyboardVars, simulatorVars
<1>1. KeyboardTypeOK' /\ SimulatorTypeOK'
  BY DEF KeyboardTypeOK, SimulatorTypeOK
<1>2. DisplayTypeOK'
  BY ConstantAssumption DEF DisplayTypeOK
<1>3. SharedTypeOK'
  <2>1. unshown' \subseteq unshown /\ exited' = exited
    OBVIOUS
  <2>2. semContinue' \in Nat /\ semRefresh' \in Nat
    BY DEF SharedTypeOK
  <2>3. QED
    BY <2>1, <2>2 DEF SharedTypeOK
<1>4. QED
  BY <1>1, <1>2, <1>3

LEMMA SimulatorKeepsTypes == ASSUME TypeOK, SimulatorStep PROVE TypeOK'
<1> USE DEF TypeOK, SimulatorStep, Loop, WaitContinue, CopyKey, Dispatch, ExecuteOne, Post,
            GetMode, FastDispatch, FastExecute, FastEnd, ResetFree, ResetReload, Quit,
            keyboardVars, displayVars, Changed
<1>1. KeyboardTypeOK' /\ DisplayTypeOK'
  BY DEF KeyboardTypeOK, DisplayTypeOK
<1>2. SimulatorTypeOK'
  <2>1. fast' \in BOOLEAN
    BY DEF SimulatorTypeOK
  <2>2. ch' \in Keys \cup {"none"}
    BY DEF KeyboardTypeOK, SimulatorTypeOK
  <2>3. QED
    BY <2>1, <2>2 DEF SimulatorTypeOK
<1>3. SharedTypeOK'
  <2>1. exited' \in BOOLEAN
    BY DEF SharedTypeOK
  <2>2. semContinue' \in Nat /\ semRefresh' \in Nat
    BY DEF SharedTypeOK
  <2>3. QED
    BY <2>1, <2>2 DEF SharedTypeOK
<1>4. QED
  BY <1>1, <1>2, <1>3

-----------------------------------------------------------------------------
(* No step loses a redraw or a wakeup.                                     *)

LEMMA KeyboardKeepsRedraw ==
    ASSUME IInv, KeyboardStep \/ Type
    PROVE  RedrawDue' /\ SpeedByPlace' /\ NoLostWakeup'
<1> USE DEF IInv, TypeOK, RedrawDue, SpeedByPlace, NoLostWakeup, simulatorVars, displayVars
<1>1. CASE PostContinue \/ SwitchMode \/ Receive \/ Trigger
  BY <1>1 DEF PostContinue, SwitchMode, Receive, Trigger, Changed
<1>2. CASE PostRefresh
  BY <1>2 DEF PostRefresh, SharedTypeOK
<1>3. CASE \E k \in Keys : ReadKey(k)
  BY <1>3 DEF ReadKey
<1>4. QED
  BY <1>1, <1>2, <1>3 DEF KeyboardStep, Type

LEMMA DisplayKeepsRedraw ==
    ASSUME IInv, DisplayStep
    PROVE  RedrawDue' /\ SpeedByPlace' /\ NoLostWakeup'
<1> USE DEF IInv, RedrawDue, SpeedByPlace, NoLostWakeup, keyboardVars, simulatorVars
<1>1. CASE EndDrawing \/ CheckFast
  BY <1>1 DEF EndDrawing, CheckFast
<1>2. CASE FastDraw
  BY <1>2 DEF FastDraw, BeginFullDrawing
<1>3. CASE WaitRefresh
  BY <1>3 DEF WaitRefresh, BeginFullDrawing
<1>4. QED
  BY <1>1, <1>2, <1>3 DEF DisplayStep

LEMMA SimulatorKeepsRedraw ==
    ASSUME IInv, SimulatorStep
    PROVE  RedrawDue' /\ SpeedByPlace' /\ NoLostWakeup'
<1> USE DEF IInv, TypeOK, SharedTypeOK, RedrawDue, SpeedByPlace, NoLostWakeup,
            keyboardVars, displayVars, Changed
<1>1. CASE Loop \/ WaitContinue \/ Post \/ GetMode
  BY <1>1 DEF Loop, WaitContinue, Post, GetMode
<1>2. CASE CopyKey("readKey", "dispatch") \/ CopyKey("fastReadKey", "fastDispatch")
  BY <1>2 DEF CopyKey
<1>3. CASE ExecuteOne \/ FastExecute \/ FastEnd \/ ResetFree
  BY <1>3 DEF ExecuteOne, FastExecute, FastEnd, ResetFree
<1>4. CASE Dispatch
  <2>1. RedrawDue'
    BY <1>4 DEF Dispatch, Quit
  <2>2. SpeedByPlace'
    BY <1>4 DEF Dispatch, Quit
  <2>3. NoLostWakeup'
    BY <1>4 DEF Dispatch, Quit
  <2>4. QED
    BY <2>1, <2>2, <2>3
<1>5. CASE FastDispatch
  <2>1. RedrawDue'
    BY <1>5 DEF FastDispatch, Quit
  <2>2. SpeedByPlace' /\ NoLostWakeup'
    BY <1>5 DEF FastDispatch, Quit
  <2>3. QED
    BY <2>1, <2>2
<1>6. CASE ResetReload
  BY <1>6 DEF ResetReload
<1>7. QED
  BY <1>1, <1>2, <1>3, <1>4, <1>5, <1>6 DEF SimulatorStep

-----------------------------------------------------------------------------
(* The theorems.                                                           *)

LEMMA NextIInv == IInv /\ [Next]_vars => IInv'
<1> SUFFICES ASSUME IInv, [Next]_vars PROVE IInv'
  OBVIOUS
<1>1. CASE KeyboardStep \/ Type
  BY <1>1, KeyboardKeepsTypes, KeyboardKeepsRedraw DEF IInv
<1>2. CASE DisplayStep
  BY <1>2, DisplayKeepsTypes, DisplayKeepsRedraw DEF IInv
<1>3. CASE SimulatorStep
  BY <1>3, SimulatorKeepsTypes, SimulatorKeepsRedraw DEF IInv
<1>4. CASE UNCHANGED vars
  BY <1>4 DEF IInv, TypeOK, KeyboardTypeOK, SimulatorTypeOK, DisplayTypeOK, SharedTypeOK,
              RedrawDue, SpeedByPlace, NoLostWakeup, vars, keyboardVars, simulatorVars,
              displayVars
<1>5. QED
  BY <1>1, <1>2, <1>3, <1>4 DEF Next, Ended

LEMMA Invariance == Spec => []IInv
<1>1. Init => IInv
  BY InitIInv
<1>2. IInv /\ [Next]_vars => IInv'
  BY NextIInv
<1>3. QED
  BY <1>1, <1>2, PTL DEF Spec

(* The semaphores never go below zero, and every thread stays at one of    *)
(* the places of its loop.                                                 *)
THEOREM TypeCorrect == Spec => []TypeOK
<1>1. IInv => TypeOK
  BY DEF IInv
<1>2. QED
  BY <1>1, Invariance, PTL

(* What commands and the running machine have done is on the screen of a   *)
(* resting simulator (simulator.c:94-117, keyboard.c:27-42,                *)
(* display.c:303-311).                                                     *)
THEOREM CommandsAreShownAtRest == Spec => []RestShowsCommands
<1>1. IInv => RestShowsCommands
  BY DEF IInv, SpeedByPlace, RedrawDue, AtRest, RestShowsCommands
<1>2. QED
  BY <1>1, Invariance, PTL

(* The display is never asleep in fast mode without a token on its way     *)
(* (simulator.c:100-104, display.c:286-303).                               *)
THEOREM WakeupIsNotLost == Spec => []NoLostWakeup
<1>1. IInv => NoLostWakeup
  BY DEF IInv
<1>2. QED
  BY <1>1, Invariance, PTL

-----------------------------------------------------------------------------
(* Debugger, step by step.                                                 *)

LEMMA InitIsPromised == Init => Promised!Init
BY DEF Init, Promised!Init, One, Mode, Running, Grants, Copied, Doing

(* What Debugger sees depends on a few variables only.                     *)
LEMMA DebuggerSees ==
    /\ UNCHANGED <<key, mode, kpc>> => UNCHANGED Mode
    /\ UNCHANGED <<fast, spc, ch>> => UNCHANGED <<Running, Doing>>
    /\ UNCHANGED <<semContinue, kpc, spc>> => UNCHANGED Grants
BY DEF Mode, Running, Doing, Copied, Grants, One

LEMMA KeyboardIsPromised ==
    ASSUME IInv, KeyboardStep \/ Type
    PROVE  [Promised!Next]_(Promised!vars)
<1>1. UNCHANGED <<Running, Doing, exited>>
  BY DebuggerSees DEF KeyboardStep, Type, ReadKey, PostContinue, SwitchMode, PostRefresh, Receive,
     Trigger, simulatorVars
<1>2. CASE Type
  <2>1. PICK k \in Keys : ReadKey(k)
    BY <1>2 DEF Type
  <2>2. ~exited /\ UNCHANGED unshown
    BY <1>2, <2>1 DEF Type, ReadKey
  <2>3. CASE mode = "CPU"
    <3>1. /\ Mode = "CPU"
          /\ Mode' = (IF k \in {"c", "ctrl-g"} THEN "UART" ELSE "CPU")
      BY <2>1, <2>3 DEF ReadKey, Mode
    <3>2. Grants' = Grants + 1
      BY <2>1, <2>3 DEF ReadKey, Grants, One, IInv, TypeOK, SharedTypeOK, simulatorVars
    <3>3. Promised!TypeCommand(k)
      BY <1>1, <2>1, <2>2, <3>1, <3>2 DEF ReadKey, Promised!TypeCommand
    <3>4. QED
      BY <2>2, <3>3 DEF Promised!Next, Promised!Type
  <2>4. CASE mode = "UART"
    <3>1. /\ Mode = "UART"
          /\ Mode' = (IF k = "ctrl-g" THEN "CPU" ELSE "UART")
      BY <2>1, <2>4 DEF ReadKey, Mode
    <3>2. Grants' = Grants
      BY <2>1, <2>4 DEF ReadKey, Grants, One, simulatorVars
    <3>3. Promised!TypeToGuest(k)
      BY <1>1, <2>1, <2>2, <3>1, <3>2 DEF ReadKey, Promised!TypeToGuest
    <3>4. QED
      BY <2>2, <3>3 DEF Promised!Next, Promised!Type
  <2>5. QED
    BY <2>3, <2>4 DEF IInv, TypeOK, KeyboardTypeOK
<1>3. CASE PostContinue
  <2>1. UNCHANGED <<Mode, Grants>>
    BY <1>3 DEF PostContinue, Mode, Grants, One, simulatorVars, IInv, TypeOK, SharedTypeOK
  <2>2. QED
    BY <1>1, <1>3, <2>1 DEF PostContinue, Promised!vars
<1>4. CASE PostRefresh \/ Receive \/ Trigger
  <2>1. UNCHANGED <<Mode, Grants>>
    BY <1>4 DEF PostRefresh, Receive, Trigger, Mode, Grants, One, simulatorVars
  <2>2. UNCHANGED <<key, "command" \in unshown>>
    BY <1>4 DEF PostRefresh, Receive, Trigger, Changed
  <2>3. QED
    BY <1>1, <2>1, <2>2 DEF Promised!vars
<1>5. CASE ~exited /\ SwitchMode
  <2>1. UNCHANGED <<Mode, Grants, key>> /\ "command" \in unshown'
    BY <1>5 DEF SwitchMode, Mode, Grants, One, simulatorVars, Changed, IInv, TypeOK, KeyboardTypeOK
  <2>2. Promised!Change
    BY <1>1, <2>1 DEF Promised!Change
  <2>3. QED
    BY <1>5, <2>2 DEF Promised!Next
<1>6. QED
  BY <1>2, <1>3, <1>4, <1>5 DEF KeyboardStep

LEMMA DisplayIsPromised ==
    ASSUME IInv, DisplayStep
    PROVE  [Promised!Next]_(Promised!vars)
<1>1. UNCHANGED <<key, Mode, Running, Grants, Doing, exited>>
  BY DebuggerSees DEF DisplayStep, EndDrawing, CheckFast, FastDraw, WaitRefresh, keyboardVars,
     simulatorVars
<1>2. CASE UNCHANGED unshown
  BY <1>1, <1>2 DEF Promised!vars
<1>3. CASE unshown' = {}
  <2>1. CASE "command" \in unshown
    <3>1. Promised!Show
      BY <1>1, <1>3, <2>1 DEF Promised!Show
    <3>2. QED
      BY <3>1 DEF DisplayStep, Promised!Next
  <2>2. CASE "command" \notin unshown
    BY <1>1, <1>3, <2>2 DEF Promised!vars
  <2>3. QED
    BY <2>1, <2>2
<1>4. QED
  BY <1>2, <1>3 DEF DisplayStep, EndDrawing, CheckFast, FastDraw, WaitRefresh, BeginFullDrawing

LEMMA SimulatorIsPromised ==
    ASSUME IInv, SimulatorStep
    PROVE  [Promised!Next]_(Promised!vars)
<1>1. ~exited /\ UNCHANGED <<key, mode, kpc>>
  BY DEF SimulatorStep, Loop, WaitContinue, CopyKey, Dispatch, ExecuteOne, Post, GetMode,
     FastDispatch, FastExecute, FastEnd, ResetFree, ResetReload, keyboardVars
<1>2. UNCHANGED Mode
  BY <1>1, DebuggerSees
<1> USE DEF IInv, SpeedByPlace
<1>3. CASE Loop \/ Post \/ GetMode \/ WaitContinue
  <2>1. UNCHANGED <<exited, "command" \in unshown>>
    BY <1>3 DEF Loop, Post, GetMode, WaitContinue
  <2>2. UNCHANGED Running
    BY <1>3 DEF Loop, Post, GetMode, WaitContinue, Running
  <2>3. UNCHANGED Doing
    BY <1>3 DEF Loop, Post, GetMode, WaitContinue, Doing, Copied
  <2>4. UNCHANGED Grants
    BY <1>1, <1>3 DEF Loop, Post, GetMode, WaitContinue, Grants, One, TypeOK, SharedTypeOK
  <2>5. QED
    BY <1>1, <1>2, <2>1, <2>2, <2>3, <2>4 DEF Promised!vars
<1>4. CASE CopyKey("readKey", "dispatch")
  <2>1. ~Running /\ Doing = "nothing"
    BY <1>4 DEF CopyKey, Running, Doing, Copied
  <2>2. Running' = (key = "c")
    BY <1>4 DEF CopyKey, Running
  <2>3. Doing' = Promised!Deed(key)
    BY <1>4 DEF CopyKey, Doing, Copied, Promised!Deed
  <2>4. Grants > 0 /\ Grants' = Grants - 1
    BY <1>1, <1>4 DEF CopyKey, Grants, One, TypeOK, SharedTypeOK
  <2>5. Promised!Obey
    BY <1>1, <1>2, <1>4, <2>1, <2>2, <2>3, <2>4 DEF CopyKey, Promised!Obey
  <2>6. QED
    BY <1>1, <2>5 DEF Promised!Next
<1>5. CASE CopyKey("fastReadKey", "fastDispatch")
  <2>1. Running /\ Doing = "nothing"
    BY <1>5 DEF CopyKey, Running, Doing, Copied
  <2>2. UNCHANGED <<Grants, unshown, exited>>
    BY <1>1, <1>5 DEF CopyKey, Grants, One
  <2>3. Running' = (key \notin {"s", "b", "r", "q"})
    BY <1>5 DEF CopyKey, Running
  <2>4. Doing' = (IF key = "r" THEN "reset" ELSE IF key = "q" THEN "quit" ELSE "nothing")
    BY <1>5 DEF CopyKey, Doing, Copied
  <2>5. CASE key \in {"s", "b", "r", "q"}
    <3>1. Promised!Stop
      BY <1>1, <1>2, <2>1, <2>2, <2>3, <2>4, <2>5 DEF Promised!Stop, Promised!Deed
    <3>2. QED
      BY <1>1, <3>1 DEF Promised!Next
  <2>6. CASE key \notin {"s", "b", "r", "q"}
    <3>1. UNCHANGED <<Running, Doing>>
      BY <2>1, <2>3, <2>4, <2>6 DEF Running
    <3>2. QED
      BY <1>1, <1>2, <2>2, <3>1 DEF Promised!vars
  <2>7. QED
    BY <2>5, <2>6
<1>6. CASE Dispatch \/ FastDispatch
  <2>1. UNCHANGED <<unshown, Grants>> /\ ch' = ch
    BY <1>1, <1>6 DEF Dispatch, FastDispatch, Quit, Grants, One
  <2>2. CASE ch = "q"
    <3>1. exited' = TRUE /\ UNCHANGED <<fast, spc>>
      BY <1>6, <2>2 DEF Dispatch, FastDispatch, Quit, Commands
    <3>2. UNCHANGED <<Running, Doing>>
      BY <2>1, <3>1, DebuggerSees
    <3>3. Doing = "quit"
      BY <1>6, <2>2 DEF Dispatch, FastDispatch, Doing, Copied
    <3>4. Promised!Exit
      BY <1>1, <1>2, <2>1, <3>1, <3>2, <3>3 DEF Promised!Exit
    <3>5. QED
      BY <1>1, <3>4 DEF Promised!Next
  <2>3. CASE ch # "q"
    <3>1. UNCHANGED exited
      BY <1>6, <2>3 DEF Dispatch, FastDispatch, Quit
    <3>2. UNCHANGED Running
      BY <1>6, <2>3 DEF Dispatch, FastDispatch, Quit, Running, Commands, TypeOK, SimulatorTypeOK
    <3>3. UNCHANGED Doing
      BY <1>6, <2>3 DEF Dispatch, FastDispatch, Quit, Doing, Copied, Commands
    <3>4. QED
      BY <1>1, <1>2, <2>1, <3>1, <3>2, <3>3 DEF Promised!vars
  <2>4. QED
    BY <2>2, <2>3
<1>7. CASE ExecuteOne
  <2>1. UNCHANGED <<Running, Grants, exited>> /\ "command" \in unshown'
    BY <1>1, <1>7 DEF ExecuteOne, Running, Grants, One, Changed
  <2>2. Doing = "instruction" /\ Doing' = "nothing"
    BY <1>7 DEF ExecuteOne, Doing, Copied
  <2>3. Promised!Finish
    BY <1>1, <1>2, <2>1, <2>2 DEF Promised!Finish
  <2>4. QED
    BY <1>1, <2>3 DEF Promised!Next
<1>8. CASE FastExecute \/ ResetFree
  <2>1. UNCHANGED <<Running, Grants, exited>> /\ "command" \in unshown'
    BY <1>1, <1>8 DEF FastExecute, ResetFree, Running, Grants, One, Changed
  <2>2. UNCHANGED Doing
    BY <1>8 DEF FastExecute, ResetFree, Doing, Copied
  <2>3. Promised!Change
    BY <1>1, <1>2, <2>1, <2>2 DEF Promised!Change
  <2>4. QED
    BY <1>1, <2>3 DEF Promised!Next
<1>9. CASE FastEnd
  <2>1. Running /\ ~Running' /\ UNCHANGED <<Grants, exited, unshown>>
    BY <1>1, <1>9 DEF FastEnd, Running, Grants, One
  <2>2. Doing = "nothing" /\ Doing' = "nothing"
    BY <1>9 DEF FastEnd, Doing, Copied
  <2>3. Promised!End
    BY <1>1, <1>2, <2>1, <2>2 DEF Promised!End, Running
  <2>4. QED
    BY <1>1, <2>3 DEF Promised!Next
<1>10. CASE ResetReload
  <2>1. ~Running /\ ~Running' /\ UNCHANGED Grants /\ "command" \in unshown'
    BY <1>1, <1>10 DEF ResetReload, Running, Grants, One, Changed
  <2>2. Doing = "reset"
    BY <1>10 DEF ResetReload, Doing
  <2>3. CASE exited' = exited
    <3>1. Doing' = "nothing"
      BY <1>1, <1>10, <2>3 DEF ResetReload, Doing, Copied
    <3>2. Promised!Finish
      BY <1>1, <1>2, <2>1, <2>2, <2>3, <3>1 DEF Promised!Finish, Running
    <3>3. QED
      BY <1>1, <3>2 DEF Promised!Next
  <2>4. CASE exited' = TRUE
    <3>1. UNCHANGED Doing
      BY <1>1, <1>10, <2>4, DebuggerSees DEF ResetReload
    <3>2. Promised!Exit
      BY <1>1, <1>2, <2>1, <2>2, <2>4, <3>1 DEF Promised!Exit, Running
    <3>3. QED
      BY <1>1, <3>2 DEF Promised!Next
  <2>5. QED
    BY <1>10, <2>3, <2>4 DEF ResetReload
<1>11. QED
  BY <1>3, <1>4, <1>5, <1>6, <1>7, <1>8, <1>9, <1>10 DEF SimulatorStep

(* The safety half of ImplementsDebugger: a stopped machine does what the  *)
(* newest key says, once for a key typed in CPU mode and never by itself,  *)
(* and a running one is stopped by the newest key only or at its end, in   *)
(* any interleaving and for any number of waiting tokens.                  *)
THEOREM DebuggerIsImplemented == Spec => Promised!SafeSpec
<1>1. IInv /\ [Next]_vars => [Promised!Next]_(Promised!vars)
  <2> SUFFICES ASSUME IInv, [Next]_vars PROVE [Promised!Next]_(Promised!vars)
    OBVIOUS
  <2>1. CASE UNCHANGED vars
    BY <2>1 DEF vars, keyboardVars, simulatorVars, Promised!vars, Mode, Running, Grants,
       One, Copied, Doing
  <2>2. QED
    BY <2>1, KeyboardIsPromised, DisplayIsPromised, SimulatorIsPromised DEF Next, Ended
<1>2. QED
  BY <1>1, InitIsPromised, Invariance, PTL DEF Spec, Promised!SafeSpec

=============================================================================
