----------------------------- MODULE Interrupts -----------------------------
(***************************************************************************)
(* How an interrupt reaches the hart: the PLIC (src/src/plic.c), the CLINT *)
(* and its timer thread (src/src/clint.c), trigger_interrupt               *)
(* (src/src/cpu.c), which the keyboard thread calls, and handle_interrupt  *)
(* (src/src/exception.c), which the simulator thread calls after every     *)
(* instruction.  The three threads take no lock, and every |= and &= of    *)
(* mip is a load and a store.                                              *)
(*                                                                         *)
(* UART0_IRQ is the only source the program ever triggers, so the arrays   *)
(* of the PLIC shrink to its element, and of enable, priority and          *)
(* threshold only matters whether they let it through.  Registers that are *)
(* written and never read by the simulator (msip, claim_complete) are left *)
(* out, and so is the rest of the trap, which is in TrapUnit: there the    *)
(* PLIC and the timer are inputs, here they are what they are.             *)
(***************************************************************************)
EXTENDS Naturals

CONSTANTS
    MaxTime,         \* bound of the model: mtime stays there
    Alarms,          \* values the guest stores in mtimecmp
    EnableValues,    \* what mie comes to, as far as mstatus.MIE lets it through
    GuestUpdates     \* what the guest does to mip

K == "keyboard"
T == "timer"
S == "simulator"
Threads == {K, T, S}

Bits == {"MSIP", "MEIP"}            \* of mip; handle_interrupt reads no others
Sources == Bits \cup {"MTIP"}       \* of mie
Updates == [set : SUBSET Bits, clear : SUBSET Bits, then : {"handle", "execute"}]
Never == MaxTime + 1                \* 2^64 - 1

SOFTWARE == 1
TIMER    == 2
EXTERNAL == 3

ASSUME InterruptAssumption ==
    /\ MaxTime \in Nat
    /\ Alarms \subseteq 0..Never
    /\ EnableValues \subseteq SUBSET Sources
    /\ \A u \in GuestUpdates : u \in Updates /\ u.then = "handle"

VARIABLES
    place,              \* where each thread is
    copy,               \* the value of mip it has computed and not yet stored
    update,             \* what the simulator thread is doing to mip
    \* csr[CSR_MIP]
    mip,
    \* plic.c, for UART0_IRQ
    pending,
    open,               \* enabled, and priority above threshold
    \* clint.c
    mtime, mtimecmp,
    \* the hart
    ie, current_priority,
    \* history variables, read by no action
    taken,              \* the external interrupt is taken and not yet claimed
    asked,              \* a software interrupt is requested and not yet taken
    lost                \* bits of mip that are not what was last done to them

plic == <<pending, open>>
clint == <<mtime, mtimecmp>>
hart == <<ie, current_priority>>
history == <<taken, asked, lost>>
vars == <<place, copy, update, mip, plic, clint, hart, history>>

Places == {"poll", "sleep", "load", "store", "execute", "stopped", "claim", "handle",
           "resetClint", "resetPlic", "resetCpu"}

TypeOK ==
    /\ place \in [Threads -> Places]
    /\ place[K] \in {"poll", "load", "store"}
    /\ place[T] \in {"sleep", "load", "store"}
    /\ place[S] \notin {"poll", "sleep"}
    /\ copy \in [Threads -> SUBSET Bits]
    /\ update \in Updates
    /\ mip \subseteq Bits
    /\ pending \in BOOLEAN /\ open \in BOOLEAN
    /\ mtime \in 0..MaxTime /\ mtimecmp \in 0..Never
    /\ ie \in SUBSET Sources /\ current_priority \in 0..EXTERNAL
    /\ taken \in BOOLEAN /\ asked \in BOOLEAN /\ lost \subseteq Bits

NoUpdate == [set |-> {}, clear |-> {}, then |-> "execute"]

\* main: clint_init, plic_init and cpu_init before the threads exist.
Init ==
    /\ place = [t \in Threads |-> IF t = K THEN "poll" ELSE IF t = T THEN "sleep" ELSE "stopped"]
    /\ copy = [t \in Threads |-> {}]
    /\ update = NoUpdate
    /\ mip = {}
    /\ pending = FALSE /\ open = FALSE
    /\ mtime = 0 /\ mtimecmp = Never
    /\ ie = {} /\ current_priority = 0
    /\ taken = FALSE /\ asked = FALSE /\ lost = {}

Goto(t, there) == place' = [place EXCEPT ![t] = there]

-----------------------------------------------------------------------------
(* One update of mip, by any thread: a load, and a store of what is made   *)
(* of the loaded value.  What another thread stored in between is lost.    *)

Apply(u, m) == (m \ u.clear) \cup u.set

\* The timer thread sets MTIP, which nobody reads (handle_interrupt compares
\* mtime itself), and stores the other bits as it loaded them.
TellKey == [set |-> {"MEIP"}, clear |-> {}, then |-> "poll"]
TellTimer == [set |-> {}, clear |-> {}, then |-> "sleep"]

UpdateBy(t) == IF t = K THEN TellKey ELSE IF t = T THEN TellTimer ELSE update

Touched(u) == u.set \cup u.clear

Load(t) ==
    /\ place[t] = "load"
    /\ copy' = [copy EXCEPT ![t] = Apply(UpdateBy(t), mip)]
    /\ Goto(t, "store")
    /\ UNCHANGED <<update, mip, plic, clint, hart, history>>

\* lost: what the store does to bits that its owner did not mean, and a
\* dismissal of MEIP by the guest before the interrupt was taken.
Store(t) ==
    /\ place[t] = "store"
    /\ mip' = copy[t]
    /\ LET u == UpdateBy(t) IN
       lost' = (lost \ Touched(u))
               \cup {b \in Bits \ Touched(u) : (b \in copy[t]) # (b \in mip)}
               \cup {b \in u.clear : b = "MEIP" /\ u.then = "handle" /\ ~taken}
    /\ copy' = [copy EXCEPT ![t] = {}]
    /\ Goto(t, UpdateBy(t).then)
    /\ update' = (IF t = S THEN NoUpdate ELSE update)
    /\ UNCHANGED <<plic, clint, hart, taken, asked>>

-----------------------------------------------------------------------------
(* The keyboard thread.                                                    *)

\* process_uart_input has put the key into the FIFO: trigger_interrupt.
Trigger ==
    /\ place[K] = "poll"
    /\ pending' = TRUE
    /\ Goto(K, "load")
    /\ UNCHANGED <<copy, update, mip, open, clint, hart, history>>

-----------------------------------------------------------------------------
(* The timer thread.                                                       *)

Due == mtime >= mtimecmp

\* usleep, the new mtime, and the comparison.
Tick ==
    /\ place[T] = "sleep"
    /\ mtime' = (IF mtime < MaxTime THEN mtime + 1 ELSE mtime)
    /\ IF mtime' >= mtimecmp THEN Goto(T, "load") ELSE UNCHANGED place
    /\ UNCHANGED <<copy, update, mip, plic, mtimecmp, hart, history>>

-----------------------------------------------------------------------------
(* The simulator thread: one instruction of the guest, which may do        *)
(* anything its instructions allow, then handle_interrupt.                 *)

Executes == place[S] = "execute"

\* |= or &= of mip, which ends in the place u.then
BeginUpdate(u) == update' = u /\ Goto(S, "load")

Offered == pending /\ open    \* plic_check_interrupt

\* An instruction that touches nothing of this.
Other ==
    /\ Executes
    /\ Goto(S, "handle")
    /\ UNCHANGED <<copy, update, mip, plic, clint, hart, history>>

\* A load from the claim register.
Claim ==
    /\ Executes
    /\ Goto(S, IF Offered THEN "claim" ELSE "handle")
    /\ UNCHANGED <<copy, update, mip, plic, clint, hart, history>>

ClaimClears ==
    /\ place[S] = "claim"
    /\ pending' = FALSE
    /\ taken' = FALSE
    /\ Goto(S, "handle")
    /\ UNCHANGED <<copy, update, mip, open, clint, hart, asked, lost>>

\* A store to a priority, enable or threshold register.
plic_write ==
    /\ Executes
    /\ open' \in BOOLEAN
    /\ Goto(S, "handle")
    /\ UNCHANGED <<copy, update, mip, pending, clint, hart, history>>

\* mtime and mtimecmp
clint_write ==
    /\ Executes
    /\ \/ mtime' \in 0..MaxTime /\ UNCHANGED mtimecmp
       \/ mtimecmp' \in Alarms /\ UNCHANGED mtime
    /\ Goto(S, "handle")
    /\ UNCHANGED <<copy, update, mip, plic, hart, history>>

\* A store to msip, or a CSR instruction on mip.
UpdateMip(u) ==
    /\ Executes
    /\ BeginUpdate(u)
    /\ asked' = (IF "MSIP" \in u.set THEN TRUE ELSE IF "MSIP" \in u.clear THEN FALSE ELSE asked)
    /\ UNCHANGED <<copy, mip, plic, clint, hart, taken, lost>>

\* A CSR instruction on mie or mstatus.
WriteEnables ==
    /\ Executes
    /\ ie' \in EnableValues
    /\ Goto(S, "handle")
    /\ UNCHANGED <<copy, update, mip, plic, clint, current_priority, history>>

\* mret and sret
Return ==
    /\ Executes
    /\ current_priority' = 0
    /\ ie' \in EnableValues
    /\ Goto(S, "handle")
    /\ UNCHANGED <<copy, update, mip, plic, clint, history>>

-----------------------------------------------------------------------------
(* handle_interrupt: one of four outcomes, the first that applies.         *)

\* Mutant: an external interrupt waits for every handler to return.
ExternalSelectedWhenIdle == "MEIP" \in ie \cap mip /\ current_priority = 0 /\ Offered

ExternalSelected == "MEIP" \in ie \cap mip /\ current_priority < TIMER /\ Offered

\* Mutant: the timer waits for the handler of a software interrupt.
TimerSelectedWhenIdle == "MTIP" \in ie /\ Due /\ current_priority = 0

TimerSelected == "MTIP" \in ie /\ Due /\ current_priority < TIMER
SoftwareSelected == "MSIP" \in ie \cap mip /\ current_priority < SOFTWARE

\* Mutant: priorities add up.
TakeExternalAdding ==
    /\ ExternalSelected
    /\ current_priority' = current_priority + EXTERNAL
    /\ taken' = TRUE
    /\ BeginUpdate([set |-> {}, clear |-> {"MEIP"}, then |-> "execute"])
    /\ UNCHANGED <<plic, asked>>

\* The PLIC is left as it is: the comment "claim is already set, pending already
\* cleared" (exception.c:69) becomes true when the guest claims.
TakeExternal ==
    /\ ExternalSelected
    /\ current_priority' = EXTERNAL
    /\ taken' = TRUE
    /\ BeginUpdate([set |-> {}, clear |-> {"MEIP"}, then |-> "execute"])
    /\ UNCHANGED <<plic, asked>>

TakeTimer ==
    /\ ~ExternalSelected /\ TimerSelected
    /\ current_priority' = TIMER
    /\ Goto(S, "execute")
    /\ UNCHANGED <<update, plic, taken, asked>>

\* Mutant: the request is not cleared.
TakeSoftwareUncleared ==
    /\ ~ExternalSelected /\ ~TimerSelected /\ SoftwareSelected
    /\ current_priority' = SOFTWARE
    /\ asked' = FALSE
    /\ Goto(S, "execute")
    /\ UNCHANGED <<update, plic, taken>>

TakeSoftware ==
    /\ ~ExternalSelected /\ ~TimerSelected /\ SoftwareSelected
    /\ current_priority' = SOFTWARE
    /\ asked' = FALSE
    /\ BeginUpdate([set |-> {}, clear |-> {"MSIP"}, then |-> "execute"])
    /\ UNCHANGED <<plic, taken>>

\* Mutant: an external interrupt that cannot be taken is dismissed.
TakeNoneDismissing ==
    /\ ~ExternalSelected /\ ~TimerSelected /\ ~SoftwareSelected
    /\ BeginUpdate([set |-> {}, clear |-> {"MEIP"}, then |-> "execute"])
    /\ UNCHANGED <<plic, current_priority, taken, asked>>

TakeNone ==
    /\ ~ExternalSelected /\ ~TimerSelected /\ ~SoftwareSelected
    /\ Goto(S, "execute")
    /\ UNCHANGED <<update, plic, current_priority, taken, asked>>

handle_interrupt ==
    /\ place[S] = "handle"
    /\ TakeExternal \/ TakeTimer \/ TakeSoftware \/ TakeNone
    /\ UNCHANGED <<copy, mip, clint, ie, lost>>

-----------------------------------------------------------------------------
(* The loop of the simulator: it stops for the user, who steps it, starts  *)
(* it again or resets it.                                                  *)

Stop ==
    /\ Executes
    /\ Goto(S, "stopped")
    /\ UNCHANGED <<copy, update, mip, plic, clint, hart, history>>

Resume ==
    /\ place[S] = "stopped"
    /\ Goto(S, "execute")
    /\ UNCHANGED <<copy, update, mip, plic, clint, hart, history>>

\* reset_system.  clint_init clears everything and then sets mtimecmp.
ResetBegins ==
    /\ place[S] \in {"execute", "stopped"}
    /\ mtime' = 0 /\ mtimecmp' = 0
    /\ Goto(S, "resetClint")
    /\ UNCHANGED <<copy, update, mip, plic, hart, history>>

ResetClint ==
    /\ place[S] = "resetClint"
    /\ mtimecmp' = Never
    /\ mtime' = 0
    /\ Goto(S, "resetPlic")
    /\ UNCHANGED <<copy, update, mip, plic, hart, history>>

\* plic_init
ResetPlic ==
    /\ place[S] = "resetPlic"
    /\ pending' = FALSE /\ open' = FALSE
    /\ taken' = FALSE
    /\ Goto(S, "resetCpu")
    /\ UNCHANGED <<copy, update, mip, clint, hart, asked, lost>>

\* cpu_init: a key typed since plic_init stays pending and loses its MEIP.
ResetCpu ==
    /\ place[S] = "resetCpu"
    /\ mip' = {}
    /\ ie' = {} /\ current_priority' = 0
    /\ asked' = FALSE
    /\ lost' = (IF pending THEN {"MEIP"} ELSE {})
    /\ Goto(S, "stopped")
    /\ UNCHANGED <<copy, update, plic, clint, taken>>

-----------------------------------------------------------------------------

KeyboardStep == Load(K) \/ Store(K)
TimerStep == Tick \/ Load(T) \/ Store(T)

SimulatorStep ==
    \/ Load(S) \/ Store(S)
    \/ Other \/ Claim \/ ClaimClears \/ plic_write \/ clint_write
    \/ \E u \in GuestUpdates : UpdateMip(u)
    \/ WriteEnables \/ Return
    \/ handle_interrupt
    \/ Stop \/ ResetBegins \/ ResetClint \/ ResetPlic \/ ResetCpu

\* The user types, and starts the machine when it is stopped.
User == Trigger \/ Resume

Next == KeyboardStep \/ TimerStep \/ SimulatorStep \/ User

Fairness == WF_vars(KeyboardStep) /\ WF_vars(TimerStep) /\ WF_vars(SimulatorStep)

Spec == Init /\ [][Next]_vars /\ Fairness

-----------------------------------------------------------------------------
(* Properties.                                                             *)

(* A key that the PLIC holds is known to the hart: when the keyboard       *)
(* thread is done with it, MEIP is set or the interrupt is taken and the   *)
(* guest has yet to claim it.  No order of trigger, take, claim and reset  *)
(* parts the two; only a stale store to mip, a reset that cuts the trigger *)
(* in half, or the guest clearing MEIP does, and the next key mends it.    *)
PendingIsAnnounced ==
    pending /\ place[K] = "poll" /\ "MEIP" \notin lost => "MEIP" \in mip \/ taken

(* A request of a software interrupt stands until it is taken, and is      *)
(* taken once: outside of an update of the bit, MSIP is set exactly when   *)
(* a request is open, unless a stale store changed it.                     *)
SoftwareExactlyOnce ==
    /\ "MSIP" \notin lost
    /\ ~(place[S] \in {"load", "store"} /\ "MSIP" \in Touched(update))
    => ("MSIP" \in mip <=> asked)

Deliverable == Offered /\ "MEIP" \in ie /\ current_priority < TIMER

(* A key that may interrupt does so while the machine runs, unless its     *)
(* announcement is lost; a software handler does not hold it up.           *)
KeyIsDelivered ==
    pending ~> taken \/ ~Deliverable \/ "MEIP" \in lost \/ place[S] = "stopped"

RunsEnabled ==
    /\ place[S] # "stopped"
    /\ "MTIP" \in ie
    /\ current_priority < TIMER

(* An alarm in reach of the clock rings, whatever keys, software           *)
(* interrupts and updates of mip come meanwhile, unless the guest masks    *)
(* it, a timer or an external handler runs, the machine is stopped or the  *)
(* guest sets the clock for ever: the comparison is made after every       *)
(* instruction and needs no announcement in mip, which a race could lose.  *)
AlarmRings ==
    <>[][~clint_write]_vars
    => (mtimecmp <= MaxTime /\ RunsEnabled ~> ~RunsEnabled \/ mtimecmp > MaxTime)

=============================================================================
