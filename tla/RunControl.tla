----------------------------- MODULE RunControl -----------------------------
(***************************************************************************)
(* How the user drives the simulator: the keyboard thread                  *)
(* (src/src/keyboard.c), the loop of the simulator thread                  *)
(* (src/src/simulator.c) and the redraw loop of the display thread         *)
(* (src/src/display.c).  They share the last key, the keyboard mode,       *)
(* fast_mode and two semaphores, and take no lock: every action below is   *)
(* one access to shared state, or several of which only one can be seen or *)
(* disturbed by another thread.                                            *)
(*                                                                         *)
(* What an instruction does is left to TrapUnit, and the receive FIFO that *)
(* UART mode fills to Uart: here the machine only has, or has not, changed *)
(* since the display last read it.  The timer thread (src/src/clint.c),    *)
(* which moves mtime all the time and asks for no redraw, is left out.     *)
(***************************************************************************)
EXTENDS Naturals

CONSTANTS
    OtherKeys,   \* keys that mean nothing in CPU mode
    FullEvery,   \* one in so many redraws of fast mode shows everything (5000)
    MaxTokens    \* bound of the model: the user pauses at this many tokens

ASSUME ConstantAssumption ==
    /\ OtherKeys \cap {"none", "s", "c", "b", "r", "q", "ctrl-g"} = {}
    /\ FullEvery \in Nat \ {0}
    /\ MaxTokens \in Nat \ {0}

Commands == {"s", "c", "b", "r", "q"}
Keys == Commands \cup {"ctrl-g"} \cup OtherKeys

VARIABLES
    \* keyboard.c
    key,            \* data->key; "none" before the first one
    mode,           \* current_mode
    kpc,
    \* simulator.c
    fast,           \* cpu->fast_mode
    spc,
    ch,             \* the local copy of key
    memory,         \* memory->data: "loaded", or "freed" during reset_system
    \* display.c
    dpc,
    tick,           \* the counter i, modulo FullEvery
    unshown,        \* what changed since the display began its last full redraw
    \* shared by all
    semContinue, semRefresh,
    exited          \* the process has ended

keyboardVars == <<key, mode, kpc>>
simulatorVars == <<fast, spc, ch, memory>>
displayVars == <<dpc, tick>>
vars == <<keyboardVars, simulatorVars, displayVars, unshown, semContinue, semRefresh, exited>>

KeyboardTypeOK ==
    /\ key \in Keys \cup {"none"}
    /\ mode \in {"CPU", "UART"}
    /\ kpc \in {"poll", "postContinue", "switch", "postRefresh",
                "postFirst", "receive", "trigger"}

SimulatorTypeOK ==
    /\ ch \in Keys \cup {"none"}
    /\ fast \in BOOLEAN
    /\ spc \in {"loop", "wait", "readKey", "dispatch", "execute", "getMode",
                "fastReadKey", "fastDispatch", "fastBody", "free", "reload", "post"}
    /\ memory \in {"loaded", "freed"}

DisplayTypeOK ==
    /\ dpc \in {"drawing", "check", "fast", "wait"}
    /\ tick \in 0..(FullEvery - 1)

SharedTypeOK ==
    /\ unshown \subseteq {"command", "key", "fault"}
    /\ semContinue \in Nat /\ semRefresh \in Nat
    /\ exited \in BOOLEAN

TypeOK == KeyboardTypeOK /\ SimulatorTypeOK /\ DisplayTypeOK /\ SharedTypeOK

\* main: everything initialised and loaded, then the threads are created.
Init ==
    /\ key = "none"
    /\ mode = "CPU"
    /\ kpc = "poll"
    /\ fast = FALSE
    /\ spc = "loop"
    /\ ch = "none"
    /\ memory = "loaded"
    /\ dpc = "drawing"
    /\ tick = 0
    /\ unshown = {}
    /\ semContinue = 0 /\ semRefresh = 0
    /\ exited = FALSE

Changed(what) == unshown' = unshown \cup {what}

-----------------------------------------------------------------------------
(* The keyboard thread.  Nobody else writes key or mode.                   *)

\* read() into data->key, then get_mode.
ReadKey(k) ==
    /\ kpc = "poll"
    /\ semContinue < MaxTokens /\ semRefresh < MaxTokens
    /\ key' = k
    /\ kpc' = (IF mode = "CPU" THEN "postContinue"
               ELSE IF k = "ctrl-g" THEN "switch"
               ELSE "postFirst")
    /\ UNCHANGED <<mode, simulatorVars, displayVars, unshown, semContinue, semRefresh, exited>>

\* Mutant: the simulator thread is not told that a key was typed.
PostContinueNoToken ==
    /\ kpc = "postContinue"
    /\ kpc' = (IF key \in {"c", "ctrl-g"} THEN "switch" ELSE "poll")
    /\ UNCHANGED <<key, mode, simulatorVars, displayVars, unshown, semContinue,
                   semRefresh, exited>>

\* process_cpu_input
PostContinue ==
    /\ kpc = "postContinue"
    /\ semContinue' = semContinue + 1
    /\ kpc' = (IF key \in {"c", "ctrl-g"} THEN "switch" ELSE "poll")
    /\ UNCHANGED <<key, mode, simulatorVars, displayVars, unshown, semRefresh, exited>>

\* switch_mode, in either direction
SwitchMode ==
    /\ kpc = "switch"
    /\ mode' = (IF mode = "CPU" THEN "UART" ELSE "CPU")
    /\ Changed("command")
    /\ kpc' = "postRefresh"
    /\ UNCHANGED <<key, simulatorVars, displayVars, semContinue, semRefresh, exited>>

\* Mutant: the display is not told of the new mode.
PostRefreshNoToken ==
    /\ kpc \in {"postRefresh", "postFirst"}
    /\ kpc' = (IF kpc = "postFirst" THEN "receive" ELSE "poll")
    /\ UNCHANGED <<key, mode, simulatorVars, displayVars, unshown, semContinue,
                   semRefresh, exited>>

\* After a switch of the mode; and process_uart_input with a key for the
\* guest, which is not in the FIFO yet.
PostRefresh ==
    /\ kpc \in {"postRefresh", "postFirst"}
    /\ semRefresh' = semRefresh + 1
    /\ kpc' = (IF kpc = "postFirst" THEN "receive" ELSE "poll")
    /\ UNCHANGED <<key, mode, simulatorVars, displayVars, unshown, semContinue, exited>>

\* The key goes into the FIFO and sets RX_READY, unless the FIFO is full.
Receive ==
    /\ kpc = "receive"
    /\ \/ Changed("key") /\ kpc' = "trigger"
       \/ UNCHANGED unshown /\ kpc' = "poll"
    /\ UNCHANGED <<key, mode, simulatorVars, displayVars, semContinue, semRefresh, exited>>

\* trigger_interrupt: pending in the PLIC, MEIP in mip
Trigger ==
    /\ kpc = "trigger"
    /\ Changed("key")
    /\ kpc' = "poll"
    /\ UNCHANGED <<key, mode, simulatorVars, displayVars, semContinue, semRefresh, exited>>

-----------------------------------------------------------------------------
(* The simulator thread.  Nobody else writes fast_mode.                    *)

\* The head of the loop: pc out of range raises an exception.
Loop ==
    /\ spc = "loop"
    /\ unshown' \in {unshown, unshown \cup {"fault"}}
    /\ spc' = (IF fast THEN "getMode" ELSE "wait")
    /\ UNCHANGED <<keyboardVars, fast, ch, memory, displayVars,
                   semContinue, semRefresh, exited>>

\* Mutant: the wait does not wait.
WaitContinueUnguarded ==
    /\ spc = "wait"
    /\ semContinue' = semContinue - 1
    /\ spc' = "readKey"
    /\ UNCHANGED <<keyboardVars, fast, ch, memory, displayVars, unshown,
                   semRefresh, exited>>

WaitContinue ==
    /\ spc = "wait"
    /\ semContinue > 0
    /\ semContinue' = semContinue - 1
    /\ spc' = "readKey"
    /\ UNCHANGED <<keyboardVars, fast, ch, memory, displayVars, unshown,
                   semRefresh, exited>>

CopyKey(from, to) ==
    /\ spc = from
    /\ spc' = to
    /\ ch' = key
    /\ UNCHANGED <<keyboardVars, fast, memory, displayVars, unshown, semContinue,
                   semRefresh, exited>>

Quit ==
    /\ ch = "q"
    /\ exited' = TRUE
    /\ UNCHANGED <<spc, fast>>

\* What a key does when the machine is stopped.
Dispatch ==
    /\ spc = "dispatch"
    /\ \/ ch = "s"   /\ spc' = "execute" /\ UNCHANGED <<fast, exited>>
       \/ ch = "c"   /\ spc' = "execute" /\ fast' = TRUE  /\ UNCHANGED exited
       \/ ch = "r"   /\ spc' = "free"    /\ fast' = FALSE /\ UNCHANGED exited
       \/ ch = "b"   /\ spc' = "post"    /\ fast' = FALSE /\ UNCHANGED exited
       \/ ch \notin Commands /\ spc' = "loop" /\ UNCHANGED <<fast, exited>>
       \/ Quit
    /\ UNCHANGED <<keyboardVars, ch, memory, displayVars, unshown,
                   semContinue, semRefresh>>

\* Mutant: a step does not ask for a redraw.
ExecuteOneNoPost ==
    /\ spc = "execute"
    /\ Changed("command")
    /\ spc' = "loop"
    /\ UNCHANGED <<keyboardVars, fast, ch, memory, displayVars,
                   semContinue, semRefresh, exited>>

\* cpu_execute and minstret, in step mode or as the first instruction of fast mode
ExecuteOne ==
    /\ spc = "execute"
    /\ Changed("command")
    /\ spc' = "post"
    /\ UNCHANGED <<keyboardVars, fast, ch, memory, displayVars,
                   semContinue, semRefresh, exited>>

Post ==
    /\ spc = "post"
    /\ semRefresh' = semRefresh + 1
    /\ spc' = "loop"
    /\ UNCHANGED <<keyboardVars, fast, ch, memory, displayVars, unshown,
                   semContinue, exited>>

\* Fast mode looks at the key only while the keyboard is in CPU mode.
GetMode ==
    /\ spc = "getMode"
    /\ spc' = (IF mode = "CPU" THEN "fastReadKey" ELSE "fastBody")
    /\ UNCHANGED <<keyboardVars, fast, ch, memory, displayVars, unshown,
                   semContinue, semRefresh, exited>>

\* Mutant: stopping fast mode by s also executes.
FastDispatchStepping ==
    /\ spc = "fastDispatch"
    /\ \/ ch = "s"          /\ spc' = "execute" /\ fast' = FALSE /\ UNCHANGED exited
       \/ ch = "b"          /\ spc' = "post" /\ fast' = FALSE /\ UNCHANGED exited
       \/ ch = "r"          /\ spc' = "free" /\ fast' = FALSE /\ UNCHANGED exited
       \/ ch \notin {"s", "b", "r", "q"} /\ spc' = "fastBody" /\ UNCHANGED <<fast, exited>>
       \/ Quit
    /\ UNCHANGED <<keyboardVars, ch, memory, displayVars, unshown,
                   semContinue, semRefresh>>

FastDispatch ==
    /\ spc = "fastDispatch"
    /\ \/ ch \in {"s", "b"} /\ spc' = "post" /\ fast' = FALSE /\ UNCHANGED exited
       \/ ch = "r"          /\ spc' = "free" /\ fast' = FALSE /\ UNCHANGED exited
       \/ ch \notin {"s", "b", "r", "q"} /\ spc' = "fastBody" /\ UNCHANGED <<fast, exited>>
       \/ Quit
    /\ UNCHANGED <<keyboardVars, ch, memory, displayVars, unshown,
                   semContinue, semRefresh>>

FastExecute ==
    /\ spc = "fastBody"
    /\ Changed("command")
    /\ spc' = "loop"
    /\ UNCHANGED <<keyboardVars, fast, ch, memory, displayVars,
                   semContinue, semRefresh, exited>>

\* pc has reached end_address.
FastEnd ==
    /\ spc = "fastBody"
    /\ fast' = FALSE
    /\ spc' = "post"
    /\ UNCHANGED <<keyboardVars, ch, memory, displayVars, unshown,
                   semContinue, semRefresh, exited>>

\* reset_system, up to and including memory_free
ResetFree ==
    /\ spc = "free"
    /\ memory' = "freed"
    /\ Changed("command")
    /\ spc' = "reload"
    /\ UNCHANGED <<keyboardVars, fast, ch, displayVars, semContinue, semRefresh, exited>>

\* memory_init, cpu_init and load_file_to_memory, which exits if the file is gone
ResetReload ==
    /\ spc = "reload"
    /\ \/ /\ memory' = "loaded"
          /\ fast' = FALSE
          /\ spc' = "post"
          /\ UNCHANGED exited
       \/ /\ exited' = TRUE
          /\ UNCHANGED <<memory, fast, spc>>
    /\ Changed("command")
    /\ UNCHANGED <<keyboardVars, ch, displayVars, semContinue, semRefresh>>

-----------------------------------------------------------------------------
(* The display thread.  Its first drawing, of everything, needs no token.  *)

EndDrawing ==
    /\ dpc = "drawing"
    /\ dpc' = "check"
    /\ UNCHANGED <<keyboardVars, simulatorVars, tick, unshown, semContinue, semRefresh, exited>>

CheckFast ==
    /\ dpc = "check"
    /\ dpc' = (IF fast THEN "fast" ELSE "wait")
    /\ UNCHANGED <<keyboardVars, simulatorVars, tick, unshown, semContinue, semRefresh, exited>>

BeginFullDrawing ==
    /\ dpc' = "drawing"
    /\ unshown' = {}

FastDraw ==
    /\ dpc = "fast"
    /\ tick' = (tick + 1) % FullEvery
    /\ \/ tick = 0 /\ BeginFullDrawing
       \/ tick # 0 /\ dpc' = "check" /\ UNCHANGED unshown
    /\ UNCHANGED <<keyboardVars, simulatorVars, semContinue, semRefresh, exited>>

WaitRefresh ==
    /\ dpc = "wait"
    /\ semRefresh > 0
    /\ semRefresh' = semRefresh - 1
    /\ BeginFullDrawing
    /\ UNCHANGED <<keyboardVars, simulatorVars, tick, semContinue, exited>>

-----------------------------------------------------------------------------

KeyboardStep == ~exited /\ (PostContinue \/ SwitchMode \/ PostRefresh \/ Receive \/ Trigger)

SimulatorStep ==
    /\ ~exited
    /\ \/ Loop
       \/ WaitContinue
       \/ CopyKey("readKey", "dispatch")
       \/ Dispatch
       \/ ExecuteOne
       \/ Post
       \/ GetMode
       \/ CopyKey("fastReadKey", "fastDispatch")
       \/ FastDispatch
       \/ FastExecute
       \/ FastEnd
       \/ ResetFree
       \/ ResetReload

DisplayStep == ~exited /\ (EndDrawing \/ CheckFast \/ FastDraw \/ WaitRefresh)

Type == ~exited /\ \E k \in Keys : ReadKey(k)

Ended == exited /\ UNCHANGED vars

Next == KeyboardStep \/ SimulatorStep \/ DisplayStep \/ Type \/ Ended

\* The threads are scheduled; the user need not type.
Fairness == WF_vars(KeyboardStep) /\ WF_vars(SimulatorStep) /\ WF_vars(DisplayStep)

Spec == Init /\ [][Next]_vars /\ Fairness

-----------------------------------------------------------------------------
(* Properties.                                                             *)

(* Nothing is left to do until the user types.                             *)
AtRest ==
    /\ ~exited
    /\ kpc = "poll"
    /\ spc = "wait" /\ semContinue = 0
    /\ dpc = "wait" /\ semRefresh = 0

(* When the three threads have come to rest, the screen shows everything   *)
(* that commands and the running machine have done, and the keyboard mode: *)
(* no interleaving of steps, resets, breaks and mode switches loses the    *)
(* redraw that should follow them.  What no redraw follows is the trap of  *)
(* a bad pc, taken before the next key, and a key typed for the guest.     *)
(* (A full redraw skips the stack and the source window while sp and pc    *)
(* are what they were: display.c:69-93.)                                   *)
RestShowsCommands == AtRest => "command" \notin unshown

(* The refresh that a key typed for the guest asks for ("notify the        *)
(* display thread to refresh", keyboard.c:42) shows what the key did to    *)
(* LSR, the PLIC and mip.                                                  *)
RestShowsKey == AtRest => "key" \notin unshown

(* The display does not sleep through fast mode: if it decided to wait     *)
(* before the c command set fast_mode, a token reaches it or is about to.  *)
NoLostWakeup ==
    dpc = "wait" /\ fast => semRefresh > 0 \/ spc \in {"execute", "post"}

(* Every stop, step, reset or quit typed in CPU mode is looked at by the   *)
(* simulator, whatever it is doing, unless a later key overwrites it.      *)
(* (c is not: typed in fast mode it only switches the keyboard mode.)      *)
CommandObeyed ==
    \A k \in {"s", "b", "r", "q"} :
        kpc = "postContinue" /\ key = k
            ~> \/ spc \in {"dispatch", "fastDispatch"} /\ ch = k
               \/ key # k
               \/ exited

(* Fast mode is animated: the display reaches its fast branch.             *)
FastModeIsShown == fast ~> dpc = "fast" \/ ~fast \/ exited

(* What the user sees of it, in terms of Debugger.  A key is obeyed or     *)
(* stops the machine when the simulator copies it, and not when it         *)
(* dispatches the copy.                                                    *)
One(P) == IF P THEN 1 ELSE 0

Mode ==
    IF kpc = "switch" \/ (kpc = "postContinue" /\ key \in {"c", "ctrl-g"})
    THEN IF mode = "CPU" THEN "UART" ELSE "CPU"
    ELSE mode

Copied == spc \in {"dispatch", "fastDispatch"}

Running ==
    \/ fast /\ ~(spc = "fastDispatch" /\ ch \in {"s", "b", "r", "q"})
    \/ spc = "dispatch" /\ ch = "c"

Grants == semContinue + One(kpc = "postContinue") + One(spc = "readKey")

Doing ==
    IF spc = "execute" \/ (spc = "dispatch" /\ ch \in {"s", "c"}) THEN "instruction"
    ELSE IF spc \in {"free", "reload"} \/ (Copied /\ ch = "r") THEN "reset"
    ELSE IF Copied /\ ch = "q" THEN "quit"
    ELSE "nothing"

Promised == INSTANCE Debugger WITH
    Keys    <- Keys,
    key     <- key,
    mode    <- Mode,
    running <- Running,
    grants  <- Grants,
    doing   <- Doing,
    unseen  <- "command" \in unshown,
    ended   <- exited

(* The debugger the user is promised: a machine that is stopped does what  *)
(* the newest key says, once for a key typed in CPU mode and never by      *)
(* itself, whatever tokens a stop in fast mode leaves behind; one that     *)
(* runs is stopped by the newest key; and what that does is shown.         *)
ImplementsDebugger == Promised!Spec

(* "Wait for display thread to finish updating" (simulator.c:94): a        *)
(* command does not pull the memory away under a drawing.                  *)
ResetWaitsForDisplay == memory = "freed" => dpc # "drawing"

=============================================================================
