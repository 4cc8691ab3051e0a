----------------------------- MODULE MemoryPath -----------------------------
(***************************************************************************)
(* Memory and the instructions that reach it: src/src/memory.c, l_inst.c,  *)
(* s_inst.c and a_extension.c.  The guest is a program, with handlers that *)
(* interrupt it between any two instructions, that counts events in one    *)
(* doubleword of memory, with LR and SC or with AMOADD, and does what it   *)
(* likes with the rest.                                                    *)
(*                                                                         *)
(* Registers are left out: an instruction is given the values of rs1 plus  *)
(* the immediate and of rs2, and only what LR loaded is kept until the SC  *)
(* that goes with it.  Loads change a register and nothing else: Load is   *)
(* their result.  Devices are the subject of Uart and Interrupts.          *)
(***************************************************************************)
EXTENDS Words, Sequences

CONSTANTS
    ByteBits,     \* 8
    BYTE, HALF, WORD, DOUBLE,   \* the widths in bytes: 1, 2, 4, 8
    Base,         \* MEMORY_BASE_ADDR: bit 31 tells memory from devices
    Size,         \* MEMORY_SIZE
    LowLimit,     \* 0x100: the stores below it fault
    Counter,      \* the doubleword the guest counts in
    Addresses,    \* what the guest addresses besides
    Values,       \* what it stores there
    Encodings,    \* the <<funct3, funct7>> of its read-modify-writes
    MaxDepth,     \* bound of the model: nested handlers, the program included
    MaxCount      \* bound of the model: the guest stops counting here

ASSUME LayoutAssumption ==
    /\ ByteBits \in Nat \ {0}
    /\ DOUBLE \in Nat \ {0} /\ BYTE = 1 /\ {HALF, WORD} \subseteq 1..DOUBLE
    /\ {Base, Size, LowLimit, Counter} \subseteq Nat \ {0}
    /\ LowLimit <= Base
    /\ Base <= Counter /\ Counter + DOUBLE <= Base + Size
    /\ Addresses \subseteq Nat
    /\ Counter \notin Addresses
ASSUME BoundAssumption ==
    /\ Values \subseteq 0..(Pow2[ByteBits * DOUBLE] - 1)
    /\ Encodings \subseteq (0..7) \X (0..127)
    /\ MaxDepth \in Nat \ {0}
    /\ MaxCount \in 0..(Pow2[ByteBits * DOUBLE] - 1)

VARIABLES
    data,       \* memory->data
    reserved,   \* cpu->reserved_address
    stack,      \* the program and the handlers that interrupted it, newest last
    counted     \* history: how often the guest was told that it counted

vars == <<data, reserved, stack, counted>>

Byte == 0..(Pow2[ByteBits] - 1)
XLen == ByteBits * DOUBLE
Word == 0..(Pow2[XLen] - 1)
Activity == [at: {"outside", "loaded"}, value: Word]

TypeOK ==
    /\ data \in [0..(Size - 1) -> Byte]
    /\ reserved \in Addresses \cup {0, Counter}
    /\ stack \in Seq(Activity)
    /\ Len(stack) \in 1..MaxDepth
    /\ counted \in 0..MaxCount

-----------------------------------------------------------------------------
(* memory.c: little-endian, at any alignment.  An access that runs past    *)
(* the end of the memory is an overflow of the host's array and not        *)
(* modelled.                                                               *)

InMemory(address, size) == Base <= address /\ address + size <= Base + Size

BytesAt(d, address, size) == [i \in 0..(size - 1) |-> d[address - Base + i]]
Number(bytes, size) == Sum([i \in 0..(size - 1) |-> bytes[i] * Pow2[ByteBits * i]], size)
ByteOf(value, i) == (value \div Pow2[ByteBits * i]) % Pow2[ByteBits]

\* The signed and the unsigned value of the low bytes of x.
Unsigned(x, size) == x % Pow2[ByteBits * size]
Signed(x, size) ==
    LET low == Unsigned(x, size)
    IN  IF low < Pow2[ByteBits * size - 1] THEN low ELSE low - Pow2[ByteBits * size]

ToWord(n) == n % Pow2[XLen]

\* The ?: of an int32_t and a uint32_t is a uint32_t, so that only bytes and
\* halfwords are sign-extended here.
memory_read(d, address, size, is_signed) ==
    LET n == Number(BytesAt(d, address, size), size)
    IN  IF is_signed /\ size \in {BYTE, HALF} THEN ToWord(Signed(n, size)) ELSE n

\* A write below Base goes to a device, if there is one.
memory_write(d, address, value, size) ==
    [i \in DOMAIN d |->
        IF address <= Base + i /\ Base + i < address + size
        THEN ByteOf(value, Base + i - address)
        ELSE d[i]]

-----------------------------------------------------------------------------
(* l_inst.c: the casts of the six loads.                                   *)

Loads == {"LB", "LH", "LW", "LD", "LBU", "LHU"}

LoadSize(op) ==
    CASE op \in {"LB", "LBU"} -> BYTE
      [] op \in {"LH", "LHU"} -> HALF
      [] op = "LW" -> WORD
      [] op = "LD" -> DOUBLE

\* Mutant: the load trusts memory_read to extend the sign.
LoadUncast(op, address) ==
    memory_read(data, address, LoadSize(op), op \notin {"LBU", "LHU"})

Load(op, address) ==
    LET size == LoadSize(op)
        is_signed == op \notin {"LBU", "LHU"}
        read == memory_read(data, address, size, is_signed)
    IN  IF is_signed THEN ToWord(Signed(read, size)) ELSE Unsigned(read, size)

(* s_inst.c *)

StoreSizes == {BYTE, HALF, WORD, DOUBLE}
Illegal == 0    \* the size of a store of unknown width, which is done all the same

Faults(address) == address < LowLimit \/ address >= Base + Size

-----------------------------------------------------------------------------
(* a_extension.c: every atomic is of a doubleword, whatever its encoding.  *)

AmoOf(funct7) ==
    CASE funct7 = 0  -> "add"
      [] funct7 = 1  -> "swap"
      [] funct7 = 4  -> "xor"
      [] funct7 = 8  -> "or"
      [] funct7 = 12 -> "and"
      [] funct7 = 16 -> "min"
      [] funct7 = 20 -> "max"
      [] funct7 = 24 -> "minu"
      [] funct7 = 28 -> "maxu"
      [] OTHER -> "illegal"

Decode(funct3, funct7) ==
    CASE funct3 = 2 /\ funct7 = 0 -> "lr"
      [] funct3 = 3 /\ funct7 = 0 -> "sc"
      [] OTHER -> AmoOf(funct7)

Bit(x, i) == (x \div Pow2[i]) % 2
BitOf(op, a, b) ==
    CASE op = "and" -> a * b
      [] op = "or"  -> a + b - a * b
      [] op = "xor" -> (a + b) % 2
BitByBit(op, x, y) ==
    Sum([i \in 0..(XLen - 1) |-> BitOf(op, Bit(x, i), Bit(y, i)) * Pow2[i]], XLen)

\* Mutant: AMOMIN forgets that its operands are signed.
AmoResultUnsignedMin(op, old, src) ==
    CASE op = "add"  -> ToWord(old + src)
      [] op = "swap" -> src
      [] op \in {"and", "or", "xor"} -> BitByBit(op, old, src)
      [] op \in {"min", "minu"} -> IF src < old THEN src ELSE old
      [] op = "max"  -> IF Signed(src, DOUBLE) > Signed(old, DOUBLE) THEN src ELSE old
      [] op = "maxu" -> IF src > old THEN src ELSE old

AmoResult(op, old, src) ==
    CASE op = "add"  -> ToWord(old + src)
      [] op = "swap" -> src
      [] op \in {"and", "or", "xor"} -> BitByBit(op, old, src)
      [] op = "min"  -> IF Signed(src, DOUBLE) < Signed(old, DOUBLE) THEN src ELSE old
      [] op = "max"  -> IF Signed(src, DOUBLE) > Signed(old, DOUBLE) THEN src ELSE old
      [] op = "minu" -> IF src < old THEN src ELSE old
      [] op = "maxu" -> IF src > old THEN src ELSE old

Doubleword(d, address) == memory_read(d, address, DOUBLE, FALSE)

execute_lr(address) == reserved' = address

\* Mutant: any reservation will do.
ScSucceedsAnywhere(address) == reserved # 0

ScSucceeds(address) == reserved = address

\* Mutant: the reservation outlives the SC.
execute_scKept(address, value) ==
    /\ data' = memory_write(data, address, value, DOUBLE)
    /\ UNCHANGED reserved

\* The SC that succeeds
execute_sc(address, value) ==
    /\ data' = memory_write(data, address, value, DOUBLE)
    /\ reserved' = 0

execute_amo(op, address, src) ==
    data' = IF InMemory(address, DOUBLE)
            THEN memory_write(data, address,
                              AmoResult(op, Doubleword(data, address), src), DOUBLE)
            ELSE data

-----------------------------------------------------------------------------
(* The guest that counts.  Only the newest activity executes.              *)

Top == stack[Len(stack)]
Become(activity) == stack' = [stack EXCEPT ![Len(stack)] = activity]
Outside == [at |-> "outside", value |-> 0]

NobodyLoaded == \A i \in DOMAIN stack : stack[i].at = "outside"

Init ==
    /\ data = [i \in 0..(Size - 1) |-> 0]
    /\ reserved = 0
    /\ stack = <<Outside>>
    /\ counted = 0

\* TrapUnit says when a trap is taken; the handler saves the registers.
Interrupt ==
    /\ Len(stack) < MaxDepth
    /\ stack' = Append(stack, Outside)
    /\ UNCHANGED <<data, reserved, counted>>

\* A handler does not return between its LR and its SC.
Return ==
    /\ Len(stack) > 1
    /\ Top.at = "outside"
    /\ stack' = SubSeq(stack, 1, Len(stack) - 1)
    /\ UNCHANGED <<data, reserved, counted>>

CountLr ==
    /\ Top.at = "outside"
    /\ counted < MaxCount
    /\ execute_lr(Counter)
    /\ Become([at |-> "loaded", value |-> Doubleword(data, Counter)])
    /\ UNCHANGED <<data, counted>>

CountSc ==
    /\ Top.at = "loaded"
    /\ \/ /\ ScSucceeds(Counter)
          /\ execute_sc(Counter, Top.value + 1)
          /\ counted' = counted + 1
       \/ /\ ~ScSucceeds(Counter)
          /\ UNCHANGED <<data, reserved, counted>>
    /\ Become(Outside)

\* AMOADD, which funct3 = 2 or 3 turns into LR or SC, leaves the reservation
\* alone, as a store does: a guest that also counts with LR and SC must not use
\* it in a handler that interrupted an LR.
CountAmo ==
    /\ NobodyLoaded
    /\ counted < MaxCount
    /\ execute_amo("add", Counter, 1)
    /\ counted' = counted + 1
    /\ UNCHANGED <<reserved, stack>>

\* Anything else leaves the counter alone.
Elsewhere(address, size) ==
    /\ address < Base \/ InMemory(address, size)
    /\ address + size <= Counter \/ Counter + DOUBLE <= address

OtherLr(address) ==
    /\ Elsewhere(address, DOUBLE)
    /\ execute_lr(address)
    /\ UNCHANGED <<data, stack, counted>>

OtherSc(address, value) ==
    /\ Elsewhere(address, DOUBLE)
    /\ ScSucceeds(address)
    /\ execute_sc(address, value)
    /\ UNCHANGED <<stack, counted>>

OtherAmo(op, address, value) ==
    /\ Elsewhere(address, DOUBLE)
    /\ op \notin {"lr", "sc", "illegal"}
    /\ execute_amo(op, address, value)
    /\ UNCHANGED <<reserved, stack, counted>>

Store(address, value, size) ==
    /\ \/ Faults(address) /\ UNCHANGED data
       \/ /\ ~Faults(address) /\ Elsewhere(address, size)
          /\ data' = memory_write(data, address, value, size)
    /\ UNCHANGED <<reserved, stack, counted>>

\* cpu_init and load_file_to_memory: the reservation survives, and so may
\* whatever the program file does not fill.
Reset ==
    /\ \/ data' = [i \in 0..(Size - 1) |-> 0]
       \/ data' = memory_write(data, Counter, 0, DOUBLE)
    /\ stack' = <<Outside>>
    /\ counted' = 0
    /\ UNCHANGED reserved

Next ==
    \/ Interrupt
    \/ Return
    \/ CountLr
    \/ CountSc
    \/ CountAmo
    \/ \E a \in Addresses : OtherLr(a)
    \/ \E a \in Addresses, v \in Values : OtherSc(a, v)
    \/ \E a \in Addresses, v \in Values, code \in Encodings :
            OtherAmo(Decode(code[1], code[2]), a, v)
    \/ \E a \in Addresses, v \in Values, s \in StoreSizes \cup {Illegal} : Store(a, v, s)
    \/ Reset

Spec == Init /\ [][Next]_vars

-----------------------------------------------------------------------------
(* Properties.                                                             *)

(* No event is lost: the doubleword is the number of times the guest was   *)
(* told it had counted (SC returned 0, or AMOADD), however the handlers    *)
(* interrupt each other between an LR and its SC and whatever else they    *)
(* reserve, and after a reset that forgets everything but the reservation. *)
NoLostCount == Doubleword(data, Counter) = counted

(* An SC that succeeds replaces the very value its own LR loaded, not one  *)
(* that a handler stored in between and whose reservation it took over.    *)
ScReplacesWhatLrRead ==
    [][Top.at = "loaded" /\ counted' > counted
         => Top.value = Doubleword(data, Counter)]_vars

(* The loads agree with each other on what the memory holds, through the   *)
(* conversions of memory_read and the casts of l_inst.c: a wide load is    *)
(* the bytes it covers, and the signed ones extend its sign to a register. *)
LoadsAgree ==
    \A op \in Loads, a \in Base..(Base + Size - 1) :
        LET size == LoadSize(op)
            bytes == [i \in 0..(size - 1) |-> Load("LBU", a + i)]
        IN  InMemory(a, size) =>
                IF op \in {"LBU", "LHU"}
                THEN Load(op, a) = Number(bytes, size)
                ELSE Signed(Load(op, a), DOUBLE) = Signed(Number(bytes, size), size)

(* What the read-modify-writes leave behind fits together: a minimum and a *)
(* maximum are the two operands in order, of the signed or the unsigned    *)
(* numbers, and the bit operations add up to the sum.                      *)
AmosAgree ==
    \A a \in Addresses, src \in Values :
        LET old == Doubleword(data, a)
            r(op) == AmoResult(op, old, src)
            value(x) == Signed(x, DOUBLE)
        IN  InMemory(a, DOUBLE) =>
                /\ {r("min"), r("max")} = {old, src}
                /\ value(r("min")) <= value(r("max"))
                /\ {r("minu"), r("maxu")} = {old, src}
                /\ r("minu") <= r("maxu")
                /\ r("and") <= r("minu") /\ r("maxu") <= r("or")
                /\ r("xor") = r("or") - r("and")
                /\ r("add") = ToWord(r("or") + r("and"))

=============================================================================
