------------------------------ MODULE TrapUnit ------------------------------
(***************************************************************************)
(* Trap entry, trap return and interrupt selection of the simulated hart:  *)
(* src/src/exception.c, the system instructions of src/src/csr.c, the      *)
(* frame of cpu_execute in src/src/cpu.c and the fetch check at the head   *)
(* of the loop of src/src/simulator.c.                                     *)
(*                                                                         *)
(* Every iteration of the loop goes through three phases:                  *)
(*                                                                         *)
(*    fetch      the check of pc and load_inst                             *)
(*    execute    the instruction and, unless it wrote pc, pc += 4; or a    *)
(*               command of the user that executes nothing                 *)
(*    interrupt  handle_interrupt, at the end of cpu_execute               *)
(*                                                                         *)
(* The program in memory is not modelled: at an address where load_inst    *)
(* reads memory any instruction may come next.  Addresses count 4-byte     *)
(* words.  mcause and scause are written by every trap and read by the     *)
(* program only, so they are left out, as are the SIE and SPIE bits, which *)
(* nothing but execute_sret touches.  Whether the PLIC has an interrupt    *)
(* to offer and whether the timer is due are inputs here; the timer bit of *)
(* mip is left out because handle_interrupt does not look at it.           *)
(***************************************************************************)
EXTENDS Integers

CONSTANTS
    LowPc,     \* 0x100, the lowest pc the loop does not fault
    BasePc,    \* MEMORY_BASE_ADDR
    EndPc,     \* MEMORY_END_ADDR
    LoadPc,    \* the load_address of the command line
    Targets,   \* addresses the program jumps to or writes into a CSR
    MppValues, \* values of MPP the program writes into mstatus
    MieValues  \* values the program writes into mie

PRV_U == 0
PRV_S == 1
PRV_M == 3
Privs == 0..3     \* priv is a uint8_t that mret fills from the 2 bits of MPP

MSI == "MSI"      \* bit 3 of mie and mip
MTI == "MTI"      \* bit 7
MEI == "MEI"      \* bit 11
Sources == {MSI, MTI, MEI}
Latched == {MSI, MEI}     \* the sources whose bit of mip is read

PRIORITY_MACHINE_SOFTWARE_INTERRUPT == 1
PRIORITY_MACHINE_TIMER_INTERRUPT    == 2
PRIORITY_MACHINE_EXTERNAL_INTERRUPT == 3

Addresses == 0..(EndPc + 1)

ASSUME AddressAssumption ==
    /\ LowPc \in Nat /\ BasePc \in Nat /\ EndPc \in Nat
    /\ LowPc <= BasePc /\ BasePc < EndPc
    /\ LoadPc \in BasePc..(EndPc - 1)
    /\ Targets \subseteq 0..EndPc

ASSUME ValueAssumption ==
    /\ MppValues \subseteq Privs
    /\ MieValues \subseteq SUBSET Sources

VARIABLES
    phase,            \* "fetch", "execute" or "interrupt"
    pc, priv, pcUpdated,
    mstatus,          \* the bits MIE and MPIE and the field MPP
    spp,              \* the SPP bit of sstatus
    mtvec, mepc, stvec, sepc,
    mie, mip,         \* sets of interrupt sources
    current_priority,
    \* History variables, read by no action
    frame,            \* what the last machine trap saved, while still in the CSRs
    entry,            \* the trap entered since the last instruction, if any
    taken             \* interrupts taken since the last return or reset

csrs == <<mstatus, spp, mtvec, mepc, stvec, sepc, mie, mip>>
vars == <<phase, pc, priv, pcUpdated, csrs, current_priority, frame, entry, taken>>

Mstatus == [MIE : BOOLEAN, MPIE : BOOLEAN, MPP : Privs]

Frames == [pc : Addresses, priv : Privs, mie : BOOLEAN]
NoFrame == [none |-> TRUE]
NoneTaken == [s \in Sources |-> 0]

TypeOK ==
    /\ phase \in {"fetch", "execute", "interrupt"}
    /\ pc \in Addresses
    /\ priv \in Privs
    /\ pcUpdated \in BOOLEAN
    /\ mstatus \in Mstatus
    /\ spp \in {PRV_U, PRV_S}
    /\ mtvec \in 0..EndPc
    /\ mepc \in Addresses
    /\ stvec \in 0..EndPc
    /\ sepc \in Addresses
    /\ mie \in SUBSET Sources
    /\ mip \in SUBSET Latched
    /\ current_priority \in 0..PRIORITY_MACHINE_EXTERNAL_INTERRUPT
    /\ frame \in Frames \cup {NoFrame}
    /\ entry \in {"none", "machine", "supervisor"}
    /\ taken \in [Sources -> Nat]

-----------------------------------------------------------------------------
(* Power-up: cpu_init over static storage, then pc = load_address.         *)

Init ==
    /\ phase = "fetch"
    /\ pc = LoadPc
    /\ priv = PRV_M
    /\ pcUpdated = FALSE
    /\ mstatus = [MIE |-> FALSE, MPIE |-> FALSE, MPP |-> PRV_U]
    /\ spp = PRV_U
    /\ mtvec = 0 /\ mepc = 0
    /\ stvec = 0 /\ sepc = 0
    /\ mie = {} /\ mip = {}
    /\ current_priority = 0
    /\ frame = NoFrame
    /\ entry = "none"
    /\ taken = NoneTaken

-----------------------------------------------------------------------------
(* raise_exception, called with cpu->pc = at.  A trap from S mode stays in *)
(* S mode and touches nothing but sepc and pc; every other trap goes to M. *)

Vector == IF priv = PRV_S THEN stvec ELSE mtvec

\* Mutant: the trap does not raise the privilege.
TrapPrivKept == priv

TrapPriv == IF priv = PRV_U THEN PRV_M ELSE priv

\* Mutant: the interrupt enable is saved, the privilege is not.
SaveMachineContextWithoutMpp(at) ==
    /\ mepc' = at
    /\ mstatus' = [mstatus EXCEPT !.MPIE = mstatus.MIE]
    /\ priv' = TrapPriv
    /\ frame' = [pc |-> at, priv |-> priv, mie |-> mstatus.MIE]
    /\ entry' = "machine"
    /\ UNCHANGED sepc

SaveMachineContext(at) ==
    /\ mepc' = at
    /\ mstatus' = [mstatus EXCEPT !.MPP = priv, !.MPIE = mstatus.MIE]
    /\ priv' = TrapPriv
    /\ frame' = [pc |-> at, priv |-> priv, mie |-> mstatus.MIE]
    /\ entry' = "machine"
    /\ UNCHANGED sepc

SaveSupervisorContext(at) ==
    /\ sepc' = at
    /\ entry' = "supervisor"
    /\ UNCHANGED <<mepc, mstatus, priv, frame>>

SaveContext(at) ==
    \/ priv = PRV_S  /\ SaveSupervisorContext(at)
    \/ priv # PRV_S /\ SaveMachineContext(at)

\* raise_exception outside the switch of cpu_execute: nothing that follows
\* looks at pc_updated before the next instruction clears it.
raise_exception(at) ==
    /\ SaveContext(at)
    /\ pc' = Vector

-----------------------------------------------------------------------------
(* The head of the loop of cpu_simulator.                                  *)

\* Mutant: the loop forgets the end of memory.
OutOfRangeBelowOnly == pc < LowPc

OutOfRange == pc < LowPc \/ pc >= EndPc

FetchOk ==
    /\ phase = "fetch"
    /\ ~OutOfRange
    /\ phase' = "execute"
    /\ UNCHANGED <<pc, priv, pcUpdated, csrs, current_priority, frame, entry, taken>>

FetchFault ==
    /\ phase = "fetch"
    /\ OutOfRange
    /\ raise_exception(pc)
    /\ phase' = "execute"
    /\ UNCHANGED <<pcUpdated, spp, mtvec, stvec, mie, mip, current_priority, taken>>

-----------------------------------------------------------------------------
(* Instructions.  Each action is one pass through cpu_execute up to, and   *)
(* without, handle_interrupt: pc_updated is cleared, the instruction runs, *)
(* and pc moves on if the instruction left pc_updated clear.               *)

\* Outside memory load_inst returns 0, which is no instruction at all.
InMemory == pc \in BasePc..(EndPc - 1)

Execute ==
    /\ phase = "execute"
    /\ phase' = "interrupt"

\* pc after "if (!cpu->pc_updated) cpu->pc += 4", the instruction having left pc at p.
Advance(p, updated) ==
    /\ pcUpdated' = updated
    /\ pc' = (IF updated THEN p ELSE p + 1)

StepOver == Advance(pc, FALSE) /\ entry' = "none"

\* Arithmetic, loads, stores to memory, fences, WFI, unknown opcodes.
Plain ==
    /\ Execute
    /\ StepOver
    /\ UNCHANGED <<priv, csrs, current_priority, frame, taken>>

\* JAL, JALR and the branches; a branch that is not taken adds 4 itself.
Jump(target) ==
    /\ Execute /\ InMemory
    /\ Advance(target, TRUE)
    /\ entry' = "none"
    /\ UNCHANGED <<priv, csrs, current_priority, frame, taken>>

\* ecall, ebreak, an illegal instruction or a store outside the address space.
Exception ==
    /\ Execute /\ InMemory
    /\ SaveContext(pc)
    /\ Advance(Vector, priv # PRV_S)
    /\ UNCHANGED <<spp, mtvec, stvec, mie, mip, current_priority, taken>>

WithSoftwareInterrupt(S, on) == IF on THEN S \cup {MSI} ELSE S \ {MSI}

\* A store to the msip register of the CLINT.
StoreMsip(on) ==
    /\ Execute /\ InMemory
    /\ StepOver
    /\ mip' = WithSoftwareInterrupt(mip, on)
    /\ UNCHANGED <<priv, mstatus, spp, mtvec, mepc, stvec, sepc, mie,
                   current_priority, frame, taken>>

\* A store with an illegal width traps and then reaches memory_write all the
\* same; the device ignores the width.
IllegalStoreMsip(on) ==
    /\ Execute /\ InMemory
    /\ SaveContext(pc)
    /\ Advance(Vector, priv # PRV_S)
    /\ mip' = WithSoftwareInterrupt(mip, on)
    /\ UNCHANGED <<spp, mtvec, stvec, mie, current_priority, taken>>

-----------------------------------------------------------------------------
(* CSR instructions.  M and S mode may write any value into any CSR.  U    *)
(* mode is left with the immediate forms, which replace the register by 5  *)
(* bits, or set or clear bits among the lowest 5: MIE is bit 3 of mstatus, *)
(* MSI is bit 3 of mie and mip, MPIE, MPP, SPP and the other sources are   *)
(* out of reach except for being zeroed.                                   *)

ImmediateWords == 8     \* the 32 bytes an immediate can address

ImmediateAddresses(old) ==
    {v \in Targets : v < ImmediateWords \/ v \div ImmediateWords = old \div ImmediateWords}

ImmediateMstatus(old) ==
    {[old EXCEPT !.MIE = b] : b \in BOOLEAN}
        \cup [MIE : BOOLEAN, MPIE : {FALSE}, MPP : {PRV_U}]

ImmediateSources(old) == {old \cup {MSI}, old \ {MSI}, {MSI}, {}}

AddressWrites(old) == IF priv = PRV_U THEN ImmediateAddresses(old) ELSE Targets
MstatusWrites      == IF priv = PRV_U THEN ImmediateMstatus(mstatus)
                                      ELSE [MIE : BOOLEAN, MPIE : BOOLEAN, MPP : MppValues]
SppWrites          == IF priv = PRV_U THEN {spp, PRV_U} ELSE {PRV_U, PRV_S}
MieWrites          == IF priv = PRV_U THEN ImmediateSources(mie) ELSE MieValues
MipWrites          == IF priv = PRV_U THEN ImmediateSources(mip) ELSE SUBSET Latched

CsrInstruction ==
    /\ Execute /\ InMemory
    /\ StepOver
    /\ UNCHANGED <<priv, current_priority, taken>>

WriteMstatus ==
    /\ CsrInstruction
    /\ mstatus' \in MstatusWrites
    /\ frame' = (IF mstatus'.MPP = mstatus.MPP /\ mstatus'.MPIE = mstatus.MPIE
                 THEN frame ELSE NoFrame)
    /\ UNCHANGED <<spp, mtvec, mepc, stvec, sepc, mie, mip>>

WriteMepc ==
    /\ CsrInstruction
    /\ mepc' \in AddressWrites(mepc)
    /\ frame' = NoFrame
    /\ UNCHANGED <<mstatus, spp, mtvec, stvec, sepc, mie, mip>>

WriteMtvec ==
    /\ CsrInstruction
    /\ mtvec' \in AddressWrites(mtvec)
    /\ UNCHANGED <<mstatus, spp, mepc, stvec, sepc, mie, mip, frame>>

WriteStvec ==
    /\ CsrInstruction
    /\ stvec' \in AddressWrites(stvec)
    /\ UNCHANGED <<mstatus, spp, mtvec, mepc, sepc, mie, mip, frame>>

WriteSepc ==
    /\ CsrInstruction
    /\ sepc' \in AddressWrites(sepc)
    /\ UNCHANGED <<mstatus, spp, mtvec, mepc, stvec, mie, mip, frame>>

WriteSstatus ==
    /\ CsrInstruction
    /\ spp' \in SppWrites
    /\ UNCHANGED <<mstatus, mtvec, mepc, stvec, sepc, mie, mip, frame>>

WriteMie ==
    /\ CsrInstruction
    /\ mie' \in MieWrites
    /\ UNCHANGED <<mstatus, spp, mtvec, mepc, stvec, sepc, mip, frame>>

WriteMip ==
    /\ CsrInstruction
    /\ mip' \in MipWrites
    /\ UNCHANGED <<mstatus, spp, mtvec, mepc, stvec, sepc, mie, frame>>

-----------------------------------------------------------------------------
(* Trap returns.  None of them checks the current privilege.               *)

ReturnTo(target, newPriv) ==
    /\ Execute /\ InMemory
    /\ Advance(target, TRUE)
    /\ priv' = newPriv
    /\ current_priority' = 0
    /\ entry' = "none"
    /\ taken' = NoneTaken

execute_mret ==
    /\ ReturnTo(mepc, mstatus.MPP)
    /\ mstatus' = [MIE |-> mstatus.MPIE, MPIE |-> TRUE, MPP |-> PRV_U]
    /\ frame' = NoFrame
    /\ UNCHANGED <<spp, mtvec, mepc, stvec, sepc, mie, mip>>

execute_sret ==
    /\ ReturnTo(sepc, spp)
    /\ spp' = PRV_U
    /\ UNCHANGED <<mstatus, mtvec, mepc, stvec, sepc, mie, mip, frame>>

\* uepc and ustatus are written by the program only.
execute_uret(target, newPriv) ==
    /\ ReturnTo(target, newPriv)
    /\ UNCHANGED <<csrs, frame>>

-----------------------------------------------------------------------------
(* handle_interrupt.  offered is the answer of plic_check_interrupt, due   *)
(* the comparison of mtime with mtimecmp.                                  *)

Enabled(source) == mstatus.MIE /\ source \in mie

\* Mutant: an external interrupt preempts whatever has a lower priority.
ExternalSelectedOverTimer(offered) ==
    /\ Enabled(MEI) /\ MEI \in mip
    /\ current_priority < PRIORITY_MACHINE_EXTERNAL_INTERRUPT
    /\ offered

ExternalSelected(offered) ==
    /\ Enabled(MEI) /\ MEI \in mip
    /\ current_priority < PRIORITY_MACHINE_TIMER_INTERRUPT
    /\ offered

TimerSelected(due) ==
    /\ Enabled(MTI) /\ due
    /\ current_priority < PRIORITY_MACHINE_TIMER_INTERRUPT

SoftwareSelected ==
    /\ Enabled(MSI) /\ MSI \in mip
    /\ current_priority < PRIORITY_MACHINE_SOFTWARE_INTERRUPT

Take(source, priority) ==
    /\ raise_exception(pc)
    /\ current_priority' = priority
    /\ mip' = mip \ {source}
    /\ taken' = [taken EXCEPT ![source] = @ + 1]
    /\ UNCHANGED <<spp, mtvec, stvec, mie>>

TakeExternal(offered) ==
    /\ ExternalSelected(offered)
    /\ Take(MEI, PRIORITY_MACHINE_EXTERNAL_INTERRUPT)

TakeTimer(offered, due) ==
    /\ ~ExternalSelected(offered)
    /\ TimerSelected(due)
    /\ Take(MTI, PRIORITY_MACHINE_TIMER_INTERRUPT)

TakeSoftware(offered, due) ==
    /\ ~ExternalSelected(offered)
    /\ ~TimerSelected(due)
    /\ SoftwareSelected
    /\ Take(MSI, PRIORITY_MACHINE_SOFTWARE_INTERRUPT)

TakeNone(offered, due) ==
    /\ ~ExternalSelected(offered)
    /\ ~TimerSelected(due)
    /\ ~SoftwareSelected
    /\ UNCHANGED <<pc, priv, csrs, current_priority, frame, entry, taken>>

handle_interrupt ==
    /\ phase = "interrupt"
    /\ phase' = "fetch"
    /\ pcUpdated' = FALSE     \* dead until cpu_execute clears it
    /\ \E offered, due \in BOOLEAN :
          \/ TakeExternal(offered)
          \/ TakeTimer(offered, due)
          \/ TakeSoftware(offered, due)
          \/ TakeNone(offered, due)

-----------------------------------------------------------------------------
(* What the other parts of the program do to the hart.                     *)

\* trigger_interrupt, called by the keyboard thread at any time.
trigger_interrupt ==
    /\ mip' = mip \cup {MEI}
    /\ UNCHANGED <<phase, pc, priv, pcUpdated, mstatus, spp, mtvec, mepc, stvec, sepc,
                   mie, current_priority, frame, entry, taken>>

\* A pass of the loop that executes nothing: a break, an unknown key, or fast
\* mode arriving at end_address.
Idle ==
    /\ phase = "execute"
    /\ phase' = "fetch"
    /\ UNCHANGED <<pc, priv, pcUpdated, csrs, current_priority, frame, entry, taken>>

\* reset_system: cpu_init and pc = load_address.  pc_updated keeps its value.
reset_system ==
    /\ phase = "execute"
    /\ phase' = "fetch"
    /\ pc' = LoadPc
    /\ priv' = PRV_M
    /\ mstatus' = [MIE |-> FALSE, MPIE |-> FALSE, MPP |-> PRV_U]
    /\ spp' = PRV_U
    /\ mtvec' = 0 /\ mepc' = 0
    /\ stvec' = 0 /\ sepc' = 0
    /\ mie' = {} /\ mip' = {}
    /\ current_priority' = 0
    /\ frame' = NoFrame
    /\ entry' = "none"
    /\ taken' = NoneTaken
    /\ UNCHANGED pcUpdated

-----------------------------------------------------------------------------

WriteCsr ==
    \/ WriteMstatus \/ WriteMepc \/ WriteMtvec
    \/ WriteStvec   \/ WriteSepc \/ WriteSstatus
    \/ WriteMie     \/ WriteMip

Instruction ==
    \/ Plain
    \/ \E t \in Targets \cup {pc + 1} : Jump(t)
    \/ Exception
    \/ \E on \in BOOLEAN : StoreMsip(on) \/ IllegalStoreMsip(on)
    \/ WriteCsr
    \/ execute_mret
    \/ execute_sret
    \/ \E t \in Targets, p \in {PRV_U, PRV_S} : execute_uret(t, p)

Next ==
    \/ FetchOk \/ FetchFault
    \/ Instruction
    \/ handle_interrupt
    \/ trigger_interrupt
    \/ Idle \/ reset_system

Spec == Init /\ [][Next]_vars

-----------------------------------------------------------------------------
(* Properties.                                                             *)

(* A machine trap is undone exactly: while nothing else has written the    *)
(* mepc, MPP and MPIE that raise_exception saved, execute_mret goes back   *)
(* to the pc, the privilege and the interrupt enable of the moment of the  *)
(* trap, whatever traps, returns, CSR writes and interrupts of S mode came *)
(* in between.                                                             *)
MretResumes ==
    [][execute_mret /\ frame # NoFrame =>
         /\ pc' = frame.pc
         /\ priv' = frame.priv
         /\ mstatus'.MIE = frame.mie]_vars

(* MIE stays set across a trap, so only current_priority keeps a handler   *)
(* from being interrupted without end.  Between two returns no source is   *)
(* taken twice, and of the external and the timer interrupt at most one:   *)
(* at most one preemption, of the software interrupt's handler.            *)
NestingBounded ==
    /\ \A s \in Sources : taken[s] <= 1
    /\ taken[MEI] + taken[MTI] <= 1

(* The first instruction after a trap taken outside S mode is the one at   *)
(* mtvec, run with a privilege above U, whichever of ecall, illegal        *)
(* instruction, fetch fault and interrupt caused the trap and however many *)
(* of them coincide.                                                       *)
MachineTrapEntersAtMtvec ==
    phase = "execute" /\ entry = "machine" => pc = mtvec /\ priv # PRV_U

(* pc_updated is documented as "whether the program counter is updated"    *)
(* (include/cpu.h:26), which is what cpu_execute takes it for: after an    *)
(* instruction that trapped it is set, and pc is the trap vector.          *)
TrapMarksPcUpdated ==
    phase = "interrupt" /\ entry # "none" => pcUpdated

=============================================================================
