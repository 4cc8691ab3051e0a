# A verification development for RISCSimulator

RISCSimulator (`src/`) is a RISC-V RV64 machine in a terminal: a hart with M, S
and U mode, a PLIC, a CLINT with a timer, a UART, 128 MiB of memory, an
ncurses screen that shows them, and a keyboard that drives both the simulator
and the guest. It runs four threads over shared structures and takes no lock.
This directory holds TLA+ models of it, the TLC configurations that check them
and TLAPS proofs about them. Paths below are relative to the repository's `src/`
and `include/` unless they say otherwise.

## 1. Inventory

| Component | State | Operations | Talks to |
|---|---|---|---|
| startup: `main.c`, `helper.c` | command line | parse, initialise every device, load the program, create the threads | everything, once |
| trap unit: `exception.c`, `csr.c` | `pc`, `priv`, `pc_updated`, `csr[]`, `current_priority` | `raise_exception`, `handle_interrupt`, `mret`/`sret`/`uret`, CSR reads and writes | PLIC (`plic_check_interrupt`), CLINT (`mtime`), every instruction |
| instruction frame: `cpu.c`, `b_inst.c`, `j_inst.c` | `pc`, registers | `cpu_execute`, `trigger_interrupt`, `cpu_init` | trap unit, memory |
| integer instructions: `r_inst.c`, `i_inst.c`, `i_64_inst.c`, `m_extension.c` | registers | pure functions of two words | - |
| loads and stores, memory, MMIO: `l_inst.c`, `s_inst.c`, `memory.c`, `mmio.h` | `memory->data` | read, write, dispatch by address | UART, PLIC, CLINT |
| atomics: `a_extension.c` | `reserved_address` | LR, SC, AMOs | memory |
| floating point: `f_extension.c` | `fregisters` | arithmetic of the host | - |
| fence, MMU: `fence_inst.c`, `mmu.c` | - | nothing | - |
| PLIC: `plic.c` | priority, pending, enable, threshold, claim | register reads and writes, claim, complete, check | keyboard thread (pending), trap unit |
| CLINT and timer: `clint.c`, `timer.c` | msip, mtime, mtimecmp | register reads and writes, the timer thread | `mip` of the hart |
| UART: `uart.c` | THR, LSR, LCR, receive FIFO | register reads and writes, init | keyboard thread (fills the FIFO), display thread (draws THR) |
| run control: `simulator.c`, `keyboard.c` | last key, keyboard mode, `fast_mode`, two semaphores | step, run, break, reset, quit; switch the keyboard between CPU and UART mode | display, hart, UART |
| display: `display.c` | cursor of the screen window, a redraw counter | full redraw per token, partial redraw in fast mode | reads everything, writes LSR and THR |
| disassembler, log: `disassemble.c`, `mfprintf.c` | - | formatting | - |

The four threads are the keyboard thread (`keyboard_input`), the simulator
thread (`cpu_simulator`, which runs the guest), the display thread
(`update_display`) and the timer thread (`timer_loop`). They share `data->key`,
`current_mode`, `fast_mode`, the UART, the PLIC's pending bits, `mip` and the
memory. The only synchronisation is `sem_continue` (keyboard to simulator) and
`sem_refresh` (keyboard and simulator to display). The mutex calls of
`keyboard.c` are commented out.

What is hard here, and what makes each part correct:

* **Traps.** `MIE` stays set across a trap, an interrupt can follow a trap
  within one `cpu_execute`, and three bits of `mstatus`, `mepc` and
  `current_priority` are all that keeps the nested contexts apart. Correct
  means: nesting is bounded, a handler starts at its vector, a return undoes
  the trap it belongs to.
* **Run control.** Keys, tokens, modes and speed change independently of one
  another. Correct means: commands are obeyed once each, the screen is current when the machine is stopped; nobody sleeps through a
  wakeup; no thread uses what another has taken away.
* **UART.** Three threads update one status byte and two of them one counter
  with plain `|=`, `&=`, `++` and `--`. Correct means: used one operation at a
  time it is a queue and a holding register; under races at least its indices
  and its transmitter survive.
* **Interrupt controllers.** The pending bits of the PLIC and `mip` are read,
  modified and written by three threads. Correct means: what is pending in the
  PLIC is announced to the hart, a request is served once, a key or an alarm that
  may interrupt does.
* **Memory and atomics.** One reservation is shared by a program and the handlers
  that interrupt it; nothing but SC and LR changes it. Correct means: an SC that
  succeeds replaces what its own LR loaded. Sign and width travel through two
  layers of casts.
* **Arithmetic.** Widths, sign extensions, the corners of division, shifts.

`PROJECT.json` lists the hazards one by one, each at its line.

## 2. Modules

| Module | What it is |
|---|---|
| `TrapUnit` | trap entry, returns, CSR writes, interrupt selection (`exception.c`, `csr.c`, the frame of `cpu.c`, the fetch check of `simulator.c`) |
| `TrapUnitProofs` | its theorems |
| `RunControl` | keyboard, simulator and display thread as the user drives them (`keyboard.c`, `simulator.c`, `update_display`) |
| `RunControlProofs` | its theorems |
| `Uart` | the UART and its three users, one shared access per action (`uart.c`, `process_uart_input`, `display_screen`) |
| `UartProofs` | its theorems |
| `Interrupts` | PLIC, CLINT, timer thread, `trigger_interrupt` and `handle_interrupt`, one load or store of `mip` per action (`plic.c`, `clint.c`, `cpu.c`, `exception.c`) |
| `InterruptsProofs` | its theorems |
| `MemoryPath` | memory, loads, stores and atomics under interrupting handlers (`memory.c`, `l_inst.c`, `s_inst.c`, `a_extension.c`) |
| `MemoryPathProofs` | its theorems |
| `Debugger` | what the user of the simulator is promised; `RunControl` implements it |
| `SerialPort` | what the UART promises: a bounded queue one way, a holding register the other |
| `Alu` | the integer and M instructions as operators on words of a given width (`r_inst.c`, `i_inst.c`, `i_64_inst.c`, `m_extension.c`) |
| `AluProofs` | its theorems |
| `Words` | powers of two, and the number that digits make; used by `MemoryPath` and `Alu` |
| `WordsProofs` | the lemmas about them |
| `MCTrapUnit`, `MCRunControl`, `MCUart`, `MCInterrupts`, `MCMemoryPath`, `MCAlu` | values of the constants for TLC |

The modules meet at named points. `TrapUnit` treats the rest of the machine as
inputs of `handle_interrupt` (does the PLIC offer an interrupt, is the timer
due), and has the actions by which others reach the hart: `trigger_interrupt`
(keyboard thread), `StoreMsip` (CLINT), `reset_system` and `Idle` (run control).
`RunControl` knows of an instruction only that it changes the machine. `Uart`
takes the keyboard thread where `RunControl` leaves it, at the key typed in UART
mode, and the display thread at `display_screen`, which `RunControl` calls a
drawing. `Interrupts` takes the keyboard thread where `Uart` leaves it, at
`trigger_interrupt`, and is the inside of what `TrapUnit` sees as offers.
`MemoryPath` takes a trap to be what `TrapUnit` proves it is, something that
comes between two instructions and returns to the second.

### TrapUnit

One pass of the simulator's loop is three phases: `fetch` (the range check and
`load_inst`), `execute` (the instruction up to `pc += 4`) and `interrupt`
(`handle_interrupt`). `cpu->pc`, `priv`, `pc_updated`, `current_priority`,
`mtvec`, `mepc`, `stvec`, `sepc`, `mie`, `mip` are variables of their own names;
`mstatus` is the record of MIE, MPIE, MPP and `spp` the SPP bit of `sstatus`.

* The program is not modelled. At an address in memory any instruction may come;
  outside memory `load_inst` returns 0, which executes as nothing.
* Addresses count words; `Targets` are the addresses the program can name.
* What a U-mode program can write into a CSR is what the privilege check of
  `csr.c` lets through, the immediate forms; hence `AddressWrites` and the
  others depend on the privilege.
* `pc_updated` is cleared by `cpu_execute` before it is read, so its value after
  `handle_interrupt` is dead and the model clears it there.
* `mip.MTIP` is left out: `handle_interrupt` compares `mtime` with `mtimecmp`
  itself and the trap unit never reads the bit.
* `trigger_interrupt` and `handle_interrupt` update `mip` in one step here. The
  lost updates between threads are in `Interrupts`.
* `frame`, `entry` and `taken` are history: what the last machine trap saved (until
  the program overwrites it), which trap was entered since the last
  instruction, and the interrupts taken since the last return.

### RunControl and Debugger

Each thread has a place (`kpc`, `spc`, `dpc`) and each action is one access to
what they share: reading the key, posting a token, taking one, testing
`fast_mode`. `unshown` records what has changed the machine since the display last
began a full redraw: a command or the running machine (`"command"`, the keyboard
mode included), a key typed for the guest (`"key"`) or the trap of a bad `pc`
(`"fault"`). `memory` is `freed` between `memory_free` and the end of the reload.

`process_uart_input` posts its redraw (`keyboard.c:42`) before it stores the key
(`Receive`: FIFO, count, LSR, `keyboard.c:50`; nothing if the FIFO is full) and
before it triggers the interrupt (`Trigger`: the PLIC's pending bit and `mip`). The
screen shows LSR, pending and `mip`, so the display can draw in between and rest
with a screen that lacks the key. Only `"command"` is promised to be shown at rest;
`RestShowsKey` states the rest and is violated. The timer thread, which moves
`mtime` for ever and asks for no redraw, is left out: the screen shows `mtime` as it
was at the last redraw.

`Debugger` is the machine the user thinks of: the newest `key` and the `mode` it
was typed in, `running` or not, `grants` (keys typed in CPU mode that a stopped
machine still owes an answer), `doing` (the instruction or the reset it answers
with, or quitting), `unseen` (the screen is behind a command). What a machine does
is what the newest key says (`Deed`): a stopped one does it once for each grant
(`Obey`) and nothing without one, and a running one is stopped, reset or quit by it
(`Stop`). `RunControl` implements it with

* `mode` = the keyboard mode, changed already when a switching key has been read,
* `grants` = the tokens of `sem_continue`, one more while the keyboard thread is
  about to post or the simulator thread has taken one and not read the key,
* `doing` and `running` = the place of the simulator thread and its copy of the key:
  a key is obeyed when it is copied, and a key typed between copy and dispatch is
  not what the machine does,
* `unseen` = a command in `unshown`.

Two weaknesses of the code are part of the promise, because they are what it does.
A key that stops fast mode keeps its grant, as fast mode looks at the key without
taking the token; so the same key, or the next one, is obeyed once more. And
a grant is spent on the newest key even if that was typed for the guest: the display's
help line promises otherwise (section 4).

### Interrupts

The keyboard thread sets `pending` and then MEIP, the timer thread advances
`mtime` and stores `mip`, the simulator thread executes, calls
`handle_interrupt`, and updates `mip` on the guest's behalf. Every `|=` and `&=` of
`mip` is a `Load` into `copy` and a `Store` of it. UART0_IRQ is the only source the
program ever triggers, so `pending` is one bit and `open` says whether enable,
priority and threshold let it through. MTIP is left out: nobody reads it.
`taken`, `asked` and `lost` are history: the external interrupt is taken and not
claimed; a software interrupt is requested and not taken; the bits of `mip`
that a race has made differ from what was last done to them. The properties
except `lost`, so they say how much the races can do: nothing else parts
`mip` from the PLIC and from the requests, not the order of trigger, take, claim,
return and reset. They do not catch the races themselves (section 4).

`handle_interrupt` only looks at the PLIC (`plic_check_interrupt`) and leaves `pending`
as it is until the guest reads the claim register, whatever the comment at
`exception.c:69` says. The timer needs no bit
of `mip`: `AlarmRings` says that an alarm in reach of the clock rings while the
machine runs with the timer enabled and no timer or external handler in the
way, under the hypothesis that the guest stops storing into the CLINT
(`<>[][~clint_write]_vars`): a guest that sets the clock back for ever is never due.

### MemoryPath

`data` is the array of bytes and an address a number; below `Base` (bit 31 clear)
there is a device or nothing. `memory_read`, `memory_write` and `Load` have the
conversions of the source: for words `memory_read` extends no sign, whatever
`is_signed` says, because both arms of its `?:` become `uint32_t`, and LW is right by
the cast in `l_inst.c`. `Decode` and `AmoOf` tell the atomics apart by the numbers
the code compares with (funct3 2 and 3 with funct7 0 are LR and SC, and the
width is ignored).

The guest counts: it repeats LR, add, SC on the doubleword `Counter`, or uses
AMOADD, and any handler that interrupts it does the same, three deep. `stack`
holds what each activity loaded. Besides, the guest stores, reserves and
modifies any other place at any time, and the user resets. It keeps three rules,
which are the guest's and not the code's: a handler does not return between its
LR and its SC, AMOADD is not used on the counter in a handler that interrupted an
LR (like a store, it leaves the reservation alone), and other accesses do not
overlap the counter.

### Uart and SerialPort

An action of `Uart` is one load or store of a byte that another thread uses as
well; `fifo_count++` is two actions. `fifo_head` belongs to the simulator thread
and `fifo_tail` to the keyboard thread, so moving them is part of the access
next to it. `TestEmpty` allows both outcomes of `if (fifo_count == 0)` after the
decrement: the build may test the register or load the byte again. Otherwise
each thread's accesses are taken in the order of the source.

`SerialPort` is the abstract machine: `received` (a queue of at most
`FifoSize`), `transmit` (one character), `answer` and `shown` (what comes out at
either end). With `Serial = TRUE` a thread begins an operation only while the
other two are between operations, and `Uart` implements `SerialPort` under

* `received` = the `count` slots from `head` (one fewer between `Pop` and the
  store of the decremented count),
* `transmit` = THR, unless THRE is set or the display has already read it.

`Serial` is an assumption about scheduling and not about the code: the code does
nothing to bring it about, and the runs with `Serial = FALSE` show what is lost
without it.

### Alu

A register is a number below `2^XLen`, and every instruction an operator from
register values to a register value with its conversions written out:
`ToWord` is the assignment to a `uint64_t`, `Signed` and `SignedLow` the casts
to `int64_t` and `int32_t`, `Quotient` and `Remainder` the truncating `/` and `%` of
C. Signed overflow (MUL, the 32-bit forms) is undefined in C and wraps around
here, as in the build: each result is truncated before it is used. The three
encodings of a 64-bit right shift by an immediate are told apart as
`i_inst.c:54` does, by bit 9 of the immediate. The steps let a program run any
instruction on a few operands, and the properties speak of all pairs of
register values that arise. The bitwise operations, LUI and AUIPC are left out.
`TrapUnit` steps over these instructions; they touch nothing it keeps.

`Words` models no code of its own. `Pow2` and `Sum` are recursive functions: the
provers know nothing of `2^n` for a variable n, and of a recursive function all
that its equation says.

## 3. Runs

| Run | Instance | Shows |
|---|---|---|
| `trap_unit` | four words of address space, one below and one past the range, two jump targets (0, which faults, and 2), all of `mie` or none, and a program that itself writes only S into MPP (U comes from `mret`, M from the traps) | `TypeOK`; `NestingBounded`: between returns each source at most once, external and timer not both; `MachineTrapEntersAtMtvec`; `MretResumes`: `mret` undoes its trap |
| `trap_pc_updated` | the same | **violated** `TrapMarksPcUpdated`: the S-mode case of `raise_exception` forgets `pc_updated` |
| `run_control` | full redraw every second pass of fast mode, at most two unconsumed tokens when a key is typed | `TypeOK`; `RestShowsCommands`: at rest the screen shows what commands did; `NoLostWakeup`; the liveness properties `CommandObeyed`, `FastModeIsShown`; `ImplementsDebugger`: every behaviour is one of `Debugger`, its fairness included |
| `key_not_shown` | the same | **violated** `RestShowsKey`: the redraw for a key typed for the guest comes before the key |
| `reset_under_display` | the same | **violated** `ResetWaitsForDisplay`: memory is freed under a drawing |
| `uart_races` | FIFO of two, one character, any store to LSR, every interleaving | `TypeOK`, `CountWithinFifo`, `DrawnAtMostOnce`, `TransmitterRecovers` |
| `uart_serial` | FIFO of three, two characters, one operation at a time | `StatusIsTrue`, `ImplementsPort` |
| `uart_not_idle` | FIFO of two, no store to LSR, every interleaving | **violated** `NotIdleMeansDataOk`: the display draws between the store of LSR and the store of THR |
| `uart_count` | the same | **violated** `CountIsContents`: an update of `fifo_count` is lost |
| `interrupts` | `mtime` up to 1, the alarms, enables and `mip` updates of `MCInterrupts.tla`, every interleaving, resets at any time | `TypeOK`; `PendingIsAnnounced`: a key in the PLIC is in `mip` or taken; `SoftwareExactlyOnce`; and the liveness properties `KeyIsDelivered` and `AlarmRings` |
| `memory_path` | bytes of one bit, two doublewords of memory, three activities deep, counting to 2 | `TypeOK`; `NoLostCount`: the counter is the number of successful counts; `ScReplacesWhatLrRead`; `LoadsAgree`: a wide load is its bytes and its sign; `AmosAgree`: minima, maxima and bit operations fit together |
| `alu` | registers of 8 bits, 32-bit forms of 4, two registers that take every pair of values | `TypeOK`: words, and x0 is zero; `DivisionIdentity`: quotient and remainder give back the dividend in every corner; `ProductHalves`: MUL and MULH, MULHSU, MULHU make up the product; `NarrowForms`: 32-bit forms see the low half and sign-extend; `ArithmeticShift`: SRA rounds down |

Every property of a passing run has a mutant, an operator that stands beside the
definition it replaces and changes it as a plausible slip would; the property
fails under it.

### Bounds, and why they are enough

* *Address space.* What the trap unit tells apart of an address is whether it is
  in range, whether it is in memory, and whether it equals another one. Four
  words have a word of each kind and two distinct words of program. The
  theorems hold for every address space.
* *Tokens.* `MaxTokens` bounds the user and not the threads: no key is typed
  while two tokens of a kind wait. Two is enough for a token to be left over
  while another is on its way, which is what every interesting trace needs.
  The safety theorems have no such bound.
* *Full redraws.* 5000 becomes 2: what matters is that some passes of fast mode
  draw everything and some do not.
* *FIFO.* With two slots the FIFO is empty, partly full and full, and both
  indices wrap; `uart_serial` has three so that the middle is not at an end.
  All the safety properties of the UART, `ImplementsPort` among them, are proved
  for every size up to 255.
* *Widths.* The operators mention the widths only through `XLen` and `WLen`. With
  8 and 4 bits every pair of register values is reached, so the laws are checked on
  all operands, the most negative number, -1 and 0 among them; the proportion
  of the widths (one is half of the other) is that of 64 and 32. The theorems
  hold for any two widths that are powers of two, the narrow one below the wide.
* *Time.* Of `mtime` and `mtimecmp` the code asks only which is greater. With
  `MaxTime` = 1 and alarms at 1 and beyond the end, the timer is due or not,
  becomes due by itself and by a store, and stops being due; `MaxTime` holds
  `mtime` where the 64 bits never get. `EnableValues` are all or none; `GuestUpdates`
  set MSIP and clear both bits, the two directions a race can disturb.
* *Memory.* Bytes have one bit, so that the widths keep their ratios (1, 2, 4, 8
  bytes) and a doubleword takes all of its 256 values. The doubleword that is
  not the counter is addressed whole and at an odd offset inside it, in every
  width that fits. `MaxDepth` = 3 gives a handler that is interrupted itself, and
  `MaxCount` = 2 two counts one of which can overwrite the other. All five
  properties are proved for bytes of any size, every depth and every layout; the
  guest must only stop counting before the doubleword wraps around
  (`BoundAssumption`).
* *`taken`* (of `TrapUnit`) counts interrupts without a bound of its own; `NestingBounded` is
  what bounds it.

### Fairness

`RunControl` assumes weak fairness of each thread while the process runs: the
threads are POSIX threads, each blocked only in `sem_wait` (disabled without a
token) or `poll` (the user). The user is not assumed to type. `Uart` assumes
weak fairness of the display thread only. It comes back to `display_screen` every
millisecond in fast mode, and otherwise once for every token, one of which
follows each executed instruction (`Show` of `Debugger` is fair, and
`ImplementsDebugger` holds); the guest and the user may stop for ever.
`Debugger` is weakly fair in obeying, finishing, showing and, while the keyboard is in
CPU mode, stopping, which `RunControl`
delivers from the fairness of its threads. `Interrupts` assumes weak fairness of
the keyboard, timer and simulator thread; the guest may do anything, so a machine
that stops, an interrupt the guest has disabled and an announcement lost to a
race are the excuses of `KeyIsDelivered`, and those of `AlarmRings` are the same but for
the last, with stores to the CLINT for ever beside them. `TrapUnit` and `MemoryPath` have no
liveness property and no fairness: a guest may loop.

Deadlock is checked in every passing run. `RunControl` has the explicit stutter
`Ended` for the exited process, which is the only state without a successor.

## 4. Findings

1. `exception.c:20` - a synchronous trap in S mode leaves `pc_updated` clear, so
   the handler is entered at `stvec + 4` (`include/cpu.h:26`).
2. `simulator.c:58` - reset frees the memory the display is drawing, and the
   `sem_wait` said to wait for the display (`simulator.c:94`) waits for the
   keyboard.
3. `uart.c:50` - THRE is cleared before THR is stored: the display can draw
   nothing and then erase the character that arrives (`display.c:139`).
4. `keyboard.c:52`, `uart.c:62` - updates of `fifo_count` are lost
   (`include/uart.h:47`).
5. `keyboard.c:42` - a key typed for the guest asks for its redraw before it changes
   anything that the redraw should show (`keyboard.c:50`, `cpu.c:50`).

Seen while modelling, and left as they are in the models; no run is kept of them:

* `simulator.c:95` - a stopped machine takes the newest key for the command, also one
  typed in UART mode: type c and then s at once, and the s is a step and the c
  forgotten. The help line offers s in CPU mode only (`display.c:126`, `display.c:129`).
  `Obey` of `Debugger` reads the key whatever the mode.
* `clint.c:71`, `cpu.c:51`, `exception.c:72` - the updates of one bit of `mip` store
  the others as they were loaded, without a lock, and so undo what another thread
  did. `lost` records it.
* `exception.c:69` - the comment says of the taking of an external interrupt that its
  pending bit is cleared and the claim register set. The code does neither until
  the guest claims (`TakeExternal`, `Claim` of `Interrupts`).
* `i_inst.c:54` - SRAI and SRLI are told apart by `imm & 0x200`, which is clear
  in both (funct7 0x20 is bit 10 of the immediate): SRAI shifts logically, and
  the branch for it (`i_inst.c:57-59`) is dead (`ShiftRightImmediate` of `Alu`).

## 5. Proofs

All proofs are checked by TLAPS with SMT, Zenon and LS4. They use the named
assumptions on the constants and nothing else: `AddressAssumption` and
`ValueAssumption` (`TrapUnit`), `ConstantAssumption` (`RunControl`),
`UartAssumption` (`Uart`), `InterruptAssumption` (`Interrupts`),
`LayoutAssumption` and `BoundAssumption` (`MemoryPath`), `WidthAssumption` and
`OperandAssumption` (`Alu`). The passing runs evaluate all of them. Every safety
property of a passing run is the conclusion of a theorem.

* `TrapUnitProofs`: `TypeCorrect`, `NestingIsBounded`, `MachineTrapEntry`,
  `MretUndoesTrap`. The inductive invariant adds to `TypeOK`
  that the history frame agrees with `mepc`, MPP and MPIE while it stands
  (`FrameKept`), that `current_priority` dominates the interrupts counted in
  `taken` (`PriorityCounts`), that after a machine trap `pc` is `mtvec` until the
  next instruction (`EntryAtMtvec`), and that an instruction only executes in
  range (`ExecuteInRange`, which bounds `pc + 4`). `NestingBounded` alone is not
  inductive because it does not know what `current_priority` excludes.
* `RunControlProofs`: `TypeCorrect`, `CommandsAreShownAtRest`,
  `WakeupIsNotLost`. The invariant says that every change made by a command
  (and no other: see `RestShowsKey`) has a token, or a thread about to post one, or fast mode, behind it
  (`RedrawDue`), and that the place in the simulator's loop determines
  `fast_mode` (`SpeedByPlace`). `DebuggerIsImplemented` is the safety half of
  `ImplementsDebugger`: from the same invariant, every step of a thread is a step
  of `Debugger` or a stutter, one lemma per thread. It ties what the machine does
  to the newest key at the moment of copying, which is where the mapping places
  `Obey` and `Stop`.
* `InterruptsProofs`: `TypeCorrect`, `KeyIsAnnounced`, `SoftwareInterruptOnce`. The three properties are inductive together with two facts
  about the split updates: what the keyboard and the simulator thread are about
  to store (`copy`) has the bits their update sets and not those it clears
  (`CopyIsUpdated`); and the simulator thread clears MEIP on its own behalf only for
  an interrupt it has taken, and touches MSIP only as the request says
  (`UpdateIsMeant`).
  Each of the last two properties has an excuse, what a race has lost (`lost`), and
  two theorems say how far it reaches. `OnlyRacesLose`: in a behaviour where no update of
  `mip` is overtaken (`Apart`: while a thread has loaded `mip` and is about to store it,
  no other is, and the machine is not being reset), nothing but an announcement of a key is lost,
  and MSIP is set exactly while a software interrupt is asked for. `OnlyRacesLoseKeys`:
  if the guest also never clears MEIP and the machine is not reset, every key is
  announced or taken, without excuse. What carries both is that a value about to be
  stored is the update of what `mip` holds now (`StoresAreCurrent`). `Apart` and the
  absence of resets are hypotheses about the behaviour and not facts about the code,
  which has no lock.
* `MemoryPathProofs`: `TypeCorrect`, `ScIsExclusive`, `NoCountIsLost`,
  `LoadsFitTogether`, `AmosFitTogether`. The invariant is `CountInv`. Its core is
  `ReservationIsFresh`: while the reservation is on the counter, the newest
  activity between an LR and its SC loaded what the counter holds now. Whoever
  counts clears the reservation, whoever reserves something else moves it, and
  nobody else stores there. So an SC that succeeds stores the count plus one,
  which `WriteThenRead` (the bytes of a value, read again, are the value) turns
  back into the count. Neither `TypeOK` nor `NoLostCount` is inductive alone: that
  the count stays within its bound needs `Room` (whoever holds the reservation
  found room at its LR, and nobody can have used it up since), and that it is
  exact needs both. `LoadsAgree` and `AmosAgree` speak of one state and follow
  from the memory holding bytes: a sign that is extended survives to the
  register because the narrow modulus divides the wide one (`SignSurvives`), and
  the bit operations add up because their bits do (`BitwiseFits`).
* `AluProofs`: `TypeCorrect`, `DivisionIsExact`, `ProductsAreWhole`,
  `NarrowIsNarrow`, `ShiftIsArithmetic`. Once every register holds a word the laws
  are about two words and no step. `Truncation` says what the quotient and the
  remainder of C are in the integers, the corner of the most negative number by
  -1 being the one where the quotient is no word; `ProductsAreWhole` is the
  uniqueness of division by `2^XLen`; the narrow forms rest on arithmetic modulo
  `2^WLen`, which divides `2^XLen`, and on the shift amount being some of the low
  bits, which is why the widths are assumed to be powers of two.
* `WordsProofs` holds what the last two need: powers of two add their exponents
  and divide one another, remainders of sums and products, sums compared term by
  term, and the two directions of positional notation (`DigitsMakeWord`,
  `WordOfDigits`). The induction theorems of the library take a predicate as a
  parameter, which the provers cannot instantiate, so `SetInduction` is stated
  about sets instead: a set that holds 0 and the successors of its elements
  contains Nat. Every induction then defines the set of numbers the claim holds
  for. `PrimitiveRecursion` shows in the same way that the equation of `Pow2` has a
  solution, without which nothing is known of it.
* `UartProofs`: `TypeCorrect`, `CountStaysWithinFifo`, `NothingIsDrawnTwice` and,
  for `Serial = TRUE` and a guest that does not store into LSR, `StatusStaysTrue` and
  `PortIsImplemented`.
  The count's invariant speaks of the registers of both threads: the number each is about to
  store was computed from a count in range, and between a test and the load
  after it the other thread can only move the count away from the end tested for.
  The status's invariant (`StatusInv`) says in the middle of which operation LSR may
  lag behind the device, and that what a thread has loaded of LSR is still its
  value, which two threads at once would break.
  For the refinement `QueueInv` adds that `tail` is always the slot after the last
  unread one: `count` slots round the ring from `head`, one more while a key is
  being counted and one fewer while a removal is. With it every step of a thread is a step of `SerialPort` or a
  stutter, one lemma per thread: a byte enters the queue when the keyboard thread
  stores the count, leaves it at `Pop`, a character is written at the store of THR and
  drawn at `Draw`.

Only model-checked: the liveness properties (`CommandObeyed`, `FastModeIsShown`,
`TransmitterRecovers`, `KeyIsDelivered`, `AlarmRings`) and the liveness half of
`ImplementsDebugger`, because fairness is about ENABLED, which the provers do not
support.

## 6. Not modelled

Floating point (host arithmetic, no state others read), fence and MMU (no
effect), the disassembler, log and window layout (formatting), command-line
parsing, timing output, the bitwise register instructions, LUI and AUIPC. DIVUW
and REMUW are modelled as they are, zero-extending, although their comments say
sign-extended (`i_64_inst.c:108`, `i_64_inst.c:134`). The contents of CSRs nothing
in the simulator reads are left out of `TrapUnit`. The PLIC's registers for harts
other than the only one are left out: their enable registers are 0x80 apart in
`plic.h` and 16 bytes apart in `plic.c`. An access that runs past the end of
`memory->data`, or a load beyond it, is undefined in C and not modelled. The order
of plain stores within a thread is that of the source; a build that reorders
them is not modelled.

The screen's contents: a full redraw skips the stack window while `sp` and the
source window while `pc` are unchanged (`display.c:69`, `display.c:87`), so these
two can lag behind a reset or a store; `RestShowsCommands` speaks of the redraw.

The decode of the atomics is as the code has it and not as the ISA has it:
`riscv_defs.h:137` numbers them by funct5 and `a_extension.c:149` compares funct7,
so that the encoding of AMOSWAP runs AMOXOR, AMOADD.W is taken for LR and AMOADD.D
for SC, and the .W forms touch eight bytes. `riscv_defs.h:24` lists the W and D
forms; no run is made of it.

## 7. Plan

1. `pc` beside the registers in `Alu`: JAL and JALR with rd = rs1 (`j_inst.c:26`),
   branches, LUI (which extends no sign, `cpu.c:97`) and AUIPC.
2. The enable registers of the PLIC for more than one hart (`plic.c:27`).
