--------------------------- MODULE TrapUnitProofs ---------------------------
(***************************************************************************)
(* The properties of TrapUnit, for every layout of the address space and   *)
(* every set of values the program writes.                                 *)
(***************************************************************************)
EXTENDS TrapUnit, TLAPS

(* The CSRs still hold what the last machine trap saved.                   *)
FrameKept ==
    frame # NoFrame =>
        /\ mepc = frame.pc
        /\ mstatus.MPP = frame.priv
        /\ mstatus.MPIE = frame.mie

(* current_priority is the priority of the last interrupt taken since the  *)
(* last return.                                                            *)
PriorityCounts ==
    /\ current_priority = PRIORITY_MACHINE_EXTERNAL_INTERRUPT <=> taken[MEI] = 1
    /\ current_priority = PRIORITY_MACHINE_TIMER_INTERRUPT <=> taken[MTI] = 1
    /\ current_priority = 0 => taken[MSI] = 0
    /\ NestingBounded

(* From the moment of the trap, not only when its first instruction runs.  *)
EntryAtMtvec == entry = "machine" => pc = mtvec /\ priv # PRV_U

(* No instruction runs beyond the first address past memory: the loop      *)
(* faults there, and a vector points no further.                           *)
ExecuteInRange == phase = "execute" => pc <= EndPc

IInv == TypeOK /\ FrameKept /\ PriorityCounts /\ EntryAtMtvec /\ ExecuteInRange

USE DEF PRV_U, PRV_S, PRV_M, Privs, MSI, MTI, MEI, Sources, Latched,
        PRIORITY_MACHINE_SOFTWARE_INTERRUPT, PRIORITY_MACHINE_TIMER_INTERRUPT,
        PRIORITY_MACHINE_EXTERNAL_INTERRUPT

-----------------------------------------------------------------------------
(* What a trap leaves behind, whoever raises it.                           *)

(* The registers raise_exception writes keep their types, and the machine  *)
(* context it saves is the one recorded in frame.                          *)
LEMMA SavedContext ==
    ASSUME IInv, NEW at \in Addresses, SaveContext(at)
    PROVE  /\ mepc' \in Addresses /\ sepc' \in Addresses
           /\ mstatus' \in Mstatus /\ priv' \in Privs
           /\ frame' \in Frames \cup {NoFrame}
           /\ entry' \in {"machine", "supervisor"}
           /\ FrameKept'
           /\ entry' = "machine" => Vector = mtvec /\ priv # PRV_S /\ priv' # PRV_U
<1>1. CASE priv = PRV_S /\ SaveSupervisorContext(at)
  BY <1>1 DEF IInv, TypeOK, FrameKept, SaveSupervisorContext
<1>2. CASE priv # PRV_S /\ SaveMachineContext(at)
  <2> USE <1>2 DEF IInv, TypeOK, SaveMachineContext, TrapPriv, Mstatus, Frames
  <2>1. mstatus' \in Mstatus /\ mstatus'.MPP = priv /\ mstatus'.MPIE = mstatus.MIE
    OBVIOUS
  <2>2. frame' \in Frames /\ frame'.pc = at /\ frame'.priv = priv /\ frame'.mie = mstatus.MIE
    OBVIOUS
  <2>3. mepc' \in Addresses /\ sepc' \in Addresses /\ priv' \in Privs /\ priv' # PRV_U
    OBVIOUS
  <2>4. FrameKept'
    BY <2>1, <2>2 DEF FrameKept
  <2>5. Vector = mtvec
    BY DEF Vector
  <2>6. QED
    BY <2>1, <2>2, <2>3, <2>4, <2>5
<1>3. QED
  BY <1>1, <1>2 DEF SaveContext

(* Every vector is a legal pc.                                             *)
LEMMA VectorInRange ==
    ASSUME IInv
    PROVE  Vector \in 0..EndPc
BY DEF IInv, TypeOK, Vector

(* Initially the invariant holds.                                          *)
LEMMA InitIInv == Init => IInv
<1> SUFFICES ASSUME Init PROVE IInv
  OBVIOUS
<1> USE AddressAssumption DEF Init
<1>1. TypeOK
  <2>1. mstatus \in Mstatus
    BY DEF Mstatus
  <2>2. taken \in [Sources -> Nat]
    BY DEF NoneTaken
  <2>3. pc \in Addresses /\ 0 \in 0..EndPc /\ 0 \in Addresses
    BY DEF Addresses
  <2>4. mie \in SUBSET Sources /\ mip \in SUBSET Latched
    OBVIOUS
  <2>5. priv \in Privs /\ current_priority \in 0..3
    OBVIOUS
  <2>6. pcUpdated \in BOOLEAN
    OBVIOUS
  <2>7. frame \in Frames \cup {NoFrame} /\ entry \in {"none", "machine", "supervisor"}
    OBVIOUS
  <2>8. QED
    BY <2>1, <2>2, <2>3, <2>4, <2>5, <2>6, <2>7 DEF TypeOK
<1>2. FrameKept /\ PriorityCounts /\ EntryAtMtvec /\ ExecuteInRange
  BY DEF FrameKept, PriorityCounts, EntryAtMtvec, ExecuteInRange, NestingBounded, NoneTaken
<1>3. QED
  BY <1>1, <1>2 DEF IInv

-----------------------------------------------------------------------------
(* The steps of the loop that execute nothing, and the other threads.      *)

LEMMA FetchIInv == IInv /\ (FetchOk \/ Idle \/ trigger_interrupt) => IInv'
<1> SUFFICES ASSUME IInv, FetchOk \/ Idle \/ trigger_interrupt PROVE IInv'
  OBVIOUS
<1> USE DEF FetchOk, Idle, trigger_interrupt, csrs
<1>1. TypeOK'
  BY DEF IInv, TypeOK
<1>2. FrameKept' /\ PriorityCounts' /\ EntryAtMtvec'
  BY DEF IInv, FrameKept, PriorityCounts, EntryAtMtvec, NestingBounded
<1>3. ExecuteInRange'
  BY AddressAssumption DEF IInv, TypeOK, ExecuteInRange, OutOfRange, Addresses
<1>4. QED
  BY <1>1, <1>2, <1>3 DEF IInv

LEMMA FetchFaultIInv == IInv /\ FetchFault => IInv'
<1> SUFFICES ASSUME IInv, FetchFault PROVE IInv'
  OBVIOUS
<1> USE DEF FetchFault, raise_exception
<1>1. pc \in Addresses
  BY DEF IInv, TypeOK
<1>2. pc' \in Addresses
  BY VectorInRange, AddressAssumption DEF Addresses
<1>3. TypeOK'
  BY <1>1, <1>2, SavedContext DEF IInv, TypeOK
<1>4. FrameKept'
  BY <1>1, SavedContext
<1>5. EntryAtMtvec'
  BY <1>1, SavedContext DEF EntryAtMtvec
<1>6. PriorityCounts'
  BY DEF IInv, PriorityCounts, NestingBounded
<1>7. ExecuteInRange'
  BY VectorInRange, AddressAssumption DEF ExecuteInRange
<1>8. QED
  BY <1>3, <1>4, <1>5, <1>6, <1>7 DEF IInv

-----------------------------------------------------------------------------
(* Instructions.                                                           *)

LEMMA PlainIInv ==
    ASSUME IInv, Plain \/ (\E t \in Targets \cup {pc + 1} : Jump(t))
    PROVE  IInv'
<1> USE DEF Plain, Jump, Execute, StepOver, Advance, csrs
<1>1. pc' \in Addresses
  BY AddressAssumption DEF IInv, TypeOK, ExecuteInRange, Addresses
<1>2. pcUpdated' \in BOOLEAN
  OBVIOUS
<1>3. TypeOK'
  BY <1>1, <1>2 DEF IInv, TypeOK
<1>4. FrameKept' /\ PriorityCounts' /\ EntryAtMtvec' /\ ExecuteInRange'
  BY DEF IInv, FrameKept, PriorityCounts, EntryAtMtvec, ExecuteInRange, NestingBounded
<1>5. QED
  BY <1>3, <1>4 DEF IInv

(* Exception and IllegalStoreMsip differ in mip only.                      *)
LEMMA ExceptionIInv ==
    ASSUME IInv, Exception \/ (\E on \in BOOLEAN : IllegalStoreMsip(on))
    PROVE  IInv'
<1> USE DEF Exception, IllegalStoreMsip, Execute
<1>1. pc \in Addresses
  BY DEF IInv, TypeOK
<1>2. SaveContext(pc) /\ Advance(Vector, priv # PRV_S)
  OBVIOUS
<1>3. pc' \in Addresses
  BY <1>2, VectorInRange, AddressAssumption DEF Addresses, Advance
<1>4. pcUpdated' \in BOOLEAN
  BY <1>2 DEF Advance
<1>5. mip' \in SUBSET Latched
  BY DEF IInv, TypeOK, WithSoftwareInterrupt
<1>6. TypeOK'
  BY <1>1, <1>2, <1>3, <1>4, <1>5, SavedContext DEF IInv, TypeOK
<1>7. EntryAtMtvec'
  BY <1>1, <1>2, SavedContext DEF EntryAtMtvec, Advance
<1>8. FrameKept' /\ PriorityCounts' /\ ExecuteInRange'
  BY <1>1, <1>2, SavedContext DEF IInv, PriorityCounts, NestingBounded, ExecuteInRange
<1>9. QED
  BY <1>6, <1>7, <1>8 DEF IInv

LEMMA StoreMsipIInv == ASSUME IInv, NEW on \in BOOLEAN, StoreMsip(on) PROVE IInv'
<1> USE DEF StoreMsip, Execute, StepOver, Advance
<1>1. pc' \in Addresses
  BY AddressAssumption DEF IInv, TypeOK, ExecuteInRange, Addresses
<1>2. mip' \in SUBSET Latched
  BY DEF IInv, TypeOK, WithSoftwareInterrupt
<1>3. pcUpdated' \in BOOLEAN
  OBVIOUS
<1>4. TypeOK'
  BY <1>1, <1>2, <1>3 DEF IInv, TypeOK
<1>5. FrameKept' /\ PriorityCounts' /\ EntryAtMtvec' /\ ExecuteInRange'
  BY DEF IInv, FrameKept, PriorityCounts, EntryAtMtvec, ExecuteInRange, NestingBounded
<1>6. QED
  BY <1>4, <1>5 DEF IInv

(* A CSR write changes one CSR; a write to mepc, MPP or MPIE ends frame.   *)
LEMMA WriteCsrIInv == ASSUME IInv, WriteCsr PROVE IInv'
<1> USE DEF CsrInstruction, Execute, StepOver, Advance
<1>1. CsrInstruction
  BY DEF WriteCsr, WriteMstatus, WriteMepc, WriteMtvec, WriteStvec, WriteSepc,
         WriteSstatus, WriteMie, WriteMip
<1>2. pc' \in Addresses
  BY <1>1, AddressAssumption DEF IInv, TypeOK, ExecuteInRange, Addresses
<1>3. pcUpdated' \in BOOLEAN
  BY <1>1
<1>4. PriorityCounts' /\ EntryAtMtvec' /\ ExecuteInRange'
  BY <1>1 DEF IInv, PriorityCounts, EntryAtMtvec, ExecuteInRange, NestingBounded
<1>5. \A old : AddressWrites(old) \subseteq 0..EndPc
  BY AddressAssumption DEF AddressWrites, ImmediateAddresses
<1>6. CASE WriteMstatus
  <2> USE <1>6 DEF WriteMstatus
  <2>1. MstatusWrites \subseteq Mstatus
    <3>1. \A b \in BOOLEAN : [mstatus EXCEPT !.MIE = b] \in Mstatus
      BY DEF Mstatus, IInv, TypeOK
    <3>2. [MIE : BOOLEAN, MPIE : {FALSE}, MPP : {PRV_U}] \subseteq Mstatus
      <4>1. {FALSE} \subseteq BOOLEAN /\ {PRV_U} \subseteq Privs
        OBVIOUS
      <4>2. QED
        BY <4>1, Zenon DEF Mstatus
    <3>3. [MIE : BOOLEAN, MPIE : BOOLEAN, MPP : MppValues] \subseteq Mstatus
      BY ValueAssumption DEF Mstatus
    <3>4. ImmediateMstatus(mstatus) \subseteq Mstatus
      BY <3>1, <3>2 DEF ImmediateMstatus
    <3>5. QED
      BY <3>3, <3>4 DEF MstatusWrites
  <2>2. mstatus' \in Mstatus
    BY <2>1
  <2>3. TypeOK'
    BY <1>2, <1>3, <2>2 DEF IInv, TypeOK
  <2>4. FrameKept'
    BY DEF IInv, FrameKept
  <2>5. QED
    BY <1>4, <2>3, <2>4 DEF IInv
<1>7. CASE WriteMepc \/ WriteMtvec \/ WriteStvec \/ WriteSepc
  <2> USE <1>7 DEF WriteMepc, WriteMtvec, WriteStvec, WriteSepc
  <2>1. 0..EndPc \subseteq Addresses
    BY AddressAssumption DEF Addresses
  <2>2. TypeOK'
    BY <1>2, <1>3, <1>5, <2>1 DEF IInv, TypeOK
  <2>3. FrameKept'
    BY DEF IInv, FrameKept
  <2>4. QED
    BY <1>4, <2>2, <2>3 DEF IInv
<1>8. CASE WriteSstatus \/ WriteMie \/ WriteMip
  <2> USE <1>8 DEF WriteSstatus, WriteMie, WriteMip
  <2>1. SppWrites \subseteq {PRV_U, PRV_S}
    BY DEF SppWrites, IInv, TypeOK
  <2>2. MieWrites \subseteq SUBSET Sources
    BY ValueAssumption DEF MieWrites, ImmediateSources, IInv, TypeOK
  <2>3. MipWrites \subseteq SUBSET Latched
    BY DEF MipWrites, ImmediateSources, IInv, TypeOK
  <2>4. TypeOK'
    BY <1>2, <1>3, <2>1, <2>2, <2>3 DEF IInv, TypeOK
  <2>5. FrameKept'
    BY DEF IInv, FrameKept
  <2>6. QED
    BY <1>4, <2>4, <2>5 DEF IInv
<1>9. QED
  BY <1>6, <1>7, <1>8 DEF WriteCsr

(* Every return clears the count of interrupts and current_priority alike. *)
LEMMA ReturnIInv ==
    ASSUME IInv,
           execute_mret \/ execute_sret
             \/ \E t \in Targets, p \in {PRV_U, PRV_S} : execute_uret(t, p)
    PROVE  IInv'
<1> DEFINE Back(t, p) == t \in Addresses /\ p \in Privs /\ ReturnTo(t, p)
<1>1. PICK t, p : Back(t, p)
  <2>1. CASE execute_mret
    BY <2>1 DEF execute_mret, IInv, TypeOK, Mstatus
  <2>2. CASE execute_sret
    BY <2>2 DEF execute_sret, IInv, TypeOK
  <2>3. CASE \E t \in Targets, p \in {PRV_U, PRV_S} : execute_uret(t, p)
    BY <2>3, AddressAssumption DEF execute_uret, Addresses
  <2>4. QED
    BY <2>1, <2>2, <2>3
<1> USE <1>1 DEF ReturnTo, Execute, Advance
<1>2. pc' \in Addresses /\ priv' \in Privs /\ phase' = "interrupt" /\ entry' = "none"
  OBVIOUS
<1>3. pcUpdated' \in BOOLEAN
  OBVIOUS
<1>4. taken' \in [Sources -> Nat] /\ current_priority' = 0
  BY DEF NoneTaken
<1>5. PriorityCounts' /\ EntryAtMtvec' /\ ExecuteInRange'
  BY DEF PriorityCounts, EntryAtMtvec, ExecuteInRange, NestingBounded, NoneTaken
<1>6. mstatus' \in Mstatus
  <2>1. ASSUME execute_mret PROVE mstatus' \in Mstatus
    <3>1. mstatus.MPIE \in BOOLEAN
      BY DEF IInv, TypeOK, Mstatus
    <3>2. mstatus' = [MIE |-> mstatus.MPIE, MPIE |-> TRUE, MPP |-> PRV_U]
      BY <2>1 DEF execute_mret
    <3>3. QED
      BY <3>1, <3>2 DEF Mstatus
  <2>2. ASSUME ~execute_mret PROVE mstatus' = mstatus
    BY <2>2 DEF execute_sret, execute_uret, csrs
  <2>3. QED
    BY <2>1, <2>2 DEF IInv, TypeOK
<1>7. spp' \in {PRV_U, PRV_S} /\ UNCHANGED <<mtvec, mepc, stvec, sepc, mie, mip>>
  BY DEF execute_mret, execute_sret, execute_uret, csrs, IInv, TypeOK
<1>8. frame' \in Frames \cup {NoFrame} /\ FrameKept'
  BY DEF execute_mret, execute_sret, execute_uret, csrs, IInv, TypeOK, FrameKept
<1>9. TypeOK'
  BY <1>2, <1>3, <1>4, <1>6, <1>7, <1>8 DEF IInv, TypeOK
<1>10. QED
  BY <1>5, <1>8, <1>9 DEF IInv

-----------------------------------------------------------------------------
(* Interrupts.                                                             *)

(* One more interrupt of a source, whose priority becomes the current one. *)
LEMMA TakeIInv ==
    ASSUME IInv, phase = "interrupt", phase' = "fetch", pcUpdated' \in BOOLEAN,
           NEW source \in Sources, NEW priority \in 1..3,
           Take(source, priority), PriorityCounts'
    PROVE  IInv'
<1> USE DEF Take, raise_exception
<1>1. pc \in Addresses
  BY DEF IInv, TypeOK
<1>2. pc' \in Addresses
  BY VectorInRange, AddressAssumption DEF Addresses
<1>3. mip' \in SUBSET Latched
  BY DEF IInv, TypeOK
<1>4. taken' \in [Sources -> Nat]
  BY DEF IInv, TypeOK
<1>5. TypeOK'
  BY <1>1, <1>2, <1>3, <1>4, SavedContext DEF IInv, TypeOK
<1>6. EntryAtMtvec'
  BY <1>1, SavedContext DEF EntryAtMtvec
<1>7. FrameKept' /\ ExecuteInRange'
  BY <1>1, SavedContext DEF ExecuteInRange
<1>8. QED
  BY <1>5, <1>6, <1>7 DEF IInv

LEMMA InterruptIInv == ASSUME IInv, handle_interrupt PROVE IInv'
<1>1. PICK offered \in BOOLEAN, due \in BOOLEAN :
         \/ TakeExternal(offered)
         \/ TakeTimer(offered, due)
         \/ TakeSoftware(offered, due)
         \/ TakeNone(offered, due)
  BY DEF handle_interrupt
<1>2. phase = "interrupt" /\ phase' = "fetch" /\ pcUpdated' \in BOOLEAN
  BY DEF handle_interrupt
<1>3. CASE TakeExternal(offered)
  <2>1. MEI \in Sources /\ 3 \in 1..3 /\ Take(MEI, 3) /\ current_priority < 2
    BY <1>3 DEF TakeExternal, ExternalSelected
  <2>2. PriorityCounts'
    BY <2>1 DEF Take, IInv, TypeOK, PriorityCounts, NestingBounded
  <2>3. QED
    BY <1>2, <2>1, <2>2, TakeIInv
<1>4. CASE TakeTimer(offered, due)
  <2>1. MTI \in Sources /\ 2 \in 1..3 /\ Take(MTI, 2) /\ current_priority < 2
    BY <1>4 DEF TakeTimer, TimerSelected
  <2>2. PriorityCounts'
    BY <2>1 DEF Take, IInv, TypeOK, PriorityCounts, NestingBounded
  <2>3. QED
    BY <1>2, <2>1, <2>2, TakeIInv
<1>5. CASE TakeSoftware(offered, due)
  <2>1. MSI \in Sources /\ 1 \in 1..3 /\ Take(MSI, 1) /\ current_priority < 1
    BY <1>5 DEF TakeSoftware, SoftwareSelected
  <2>2. PriorityCounts'
    BY <2>1 DEF Take, IInv, TypeOK, PriorityCounts, NestingBounded
  <2>3. QED
    BY <1>2, <2>1, <2>2, TakeIInv
<1>6. CASE TakeNone(offered, due)
  <2> USE <1>2, <1>6 DEF TakeNone, csrs
  <2>1. TypeOK'
    BY DEF IInv, TypeOK
  <2>2. FrameKept' /\ PriorityCounts' /\ EntryAtMtvec' /\ ExecuteInRange'
    BY DEF IInv, FrameKept, PriorityCounts, NestingBounded, EntryAtMtvec, ExecuteInRange
  <2>3. QED
    BY <2>1, <2>2 DEF IInv
<1>7. QED
  BY <1>1, <1>3, <1>4, <1>5, <1>6

LEMMA ResetIInv == ASSUME IInv, reset_system PROVE IInv'
<1> USE AddressAssumption DEF reset_system
<1>1. mstatus' \in Mstatus
  BY DEF Mstatus
<1>2. taken' \in [Sources -> Nat]
  BY DEF NoneTaken
<1>3. pc' \in Addresses /\ 0 \in 0..EndPc /\ 0 \in Addresses
  BY DEF Addresses
<1>4. TypeOK'
  BY <1>1, <1>2, <1>3 DEF IInv, TypeOK
<1>5. FrameKept' /\ PriorityCounts' /\ EntryAtMtvec' /\ ExecuteInRange'
  BY DEF FrameKept, PriorityCounts, EntryAtMtvec, ExecuteInRange, NestingBounded, NoneTaken
<1>6. QED
  BY <1>4, <1>5 DEF IInv

-----------------------------------------------------------------------------
(* The theorems.                                                           *)

LEMMA NextIInv == IInv /\ [Next]_vars => IInv'
<1> SUFFICES ASSUME IInv, [Next]_vars PROVE IInv'
  OBVIOUS
<1>1. CASE FetchOk \/ Idle \/ trigger_interrupt
  BY <1>1, FetchIInv
<1>2. CASE FetchFault
  BY <1>2, FetchFaultIInv
<1>3. CASE Instruction
  BY <1>3, PlainIInv, ExceptionIInv, StoreMsipIInv, WriteCsrIInv, ReturnIInv DEF Instruction
<1>4. CASE handle_interrupt
  BY <1>4, InterruptIInv
<1>5. CASE reset_system
  BY <1>5, ResetIInv
<1>6. CASE UNCHANGED vars
  BY <1>6 DEF IInv, TypeOK, FrameKept, PriorityCounts, EntryAtMtvec, ExecuteInRange,
              NestingBounded, vars, csrs
<1>7. QED
  BY <1>1, <1>2, <1>3, <1>4, <1>5, <1>6 DEF Next

LEMMA Invariance == Spec => []IInv
<1>1. Init => IInv
  BY InitIInv
<1>2. IInv /\ [Next]_vars => IInv'
  BY NextIInv
<1>3. QED
  BY <1>1, <1>2, PTL DEF Spec

(* Every register keeps its type; in particular no pc the loop holds lies  *)
(* more than one word past the end of memory, and priv stays in two bits.  *)
THEOREM TypeCorrect == Spec => []TypeOK
<1>1. IInv => TypeOK
  BY DEF IInv
<1>2. QED
  BY <1>1, Invariance, PTL

(* Interrupts nest at most twice between two returns (exception.c:63-94).  *)
THEOREM NestingIsBounded == Spec => []NestingBounded
<1>1. IInv => NestingBounded
  BY DEF IInv, PriorityCounts
<1>2. QED
  BY <1>1, Invariance, PTL

(* The handler of every machine trap starts at mtvec, above U mode.        *)
THEOREM MachineTrapEntry == Spec => []MachineTrapEntersAtMtvec
<1>1. IInv => MachineTrapEntersAtMtvec
  BY DEF IInv, EntryAtMtvec, MachineTrapEntersAtMtvec
<1>2. QED
  BY <1>1, Invariance, PTL

(* An mret whose trap frame is untouched undoes the trap (csr.c:94-117).   *)
THEOREM MretUndoesTrap == Spec => MretResumes
<1> DEFINE Resumes == /\ pc' = frame.pc
                      /\ priv' = frame.priv
                      /\ mstatus'.MIE = frame.mie
<1>1. IInv /\ [Next]_vars => [execute_mret /\ frame # NoFrame => Resumes]_vars
  <2>1. ASSUME IInv, execute_mret, frame # NoFrame PROVE Resumes
    <3>1. pc' = mepc /\ priv' = mstatus.MPP /\ mstatus'.MIE = mstatus.MPIE
      BY <2>1 DEF execute_mret, ReturnTo, Advance
    <3>2. QED
      BY <2>1, <3>1 DEF IInv, FrameKept
  <2>2. QED
    BY <2>1
<1>2. QED
  BY <1>1, Invariance, PTL DEF Spec, MretResumes

=============================================================================
