--------------------------------- MODULE Alu ---------------------------------
(***************************************************************************)
(* The integer instructions: src/src/r_inst.c, i_inst.c, i_64_inst.c and   *)
(* m_extension.c, each as an operator on register values, and the          *)
(* registers they work on.  A register is a uint64_t, here a number below  *)
(* 2^XLen; the conversions of the source between signed and unsigned,      *)
(* narrow and wide, are written out.  The operations bit by bit (and, or,  *)
(* xor) are left out: nothing depends on their arithmetic.                 *)
(*                                                                         *)
(* Overflow of signed arithmetic (int32_t in i_64_inst.c, int64_t in MUL)  *)
(* wraps around, which is what the build makes of it.                      *)
(***************************************************************************)
EXTENDS Words

CONSTANTS
    XLen,         \* 64
    WLen,         \* 32
    Regs,         \* registers in use, among them 0
    Operands,     \* the <<rd, rs1, rs2>> the program uses
    Immediates    \* the immediates it uses, sign-extended

ASSUME WidthAssumption ==
    /\ WLen \in Nat \ {0}
    /\ XLen \in Nat /\ WLen < XLen
    \* Powers of two: a shift amount is some of the low bits.
    /\ \E k \in 0..XLen : XLen = Pow2[k]
    /\ \E k \in 0..WLen : WLen = Pow2[k]
ASSUME OperandAssumption ==
    /\ 0 \in Regs
    /\ Operands \subseteq Regs \X Regs \X Regs
    /\ Immediates \subseteq Int

VARIABLE registers

\* How many values a register and its low half have, and their sign bits.
XSpan == Pow2[XLen]
XSign == Pow2[XLen - 1]
WSpan == Pow2[WLen]
WSign == Pow2[WLen - 1]

Word == 0..(XSpan - 1)

(* Registers hold words, and x0 holds zero whatever wrote to it.           *)
TypeOK ==
    /\ registers \in [Regs -> Word]
    /\ registers[0] = 0

Init == registers = [r \in Regs |-> 0]

-----------------------------------------------------------------------------
(* Conversions.                                                            *)

ToWord(n) == n % XSpan                                             \* (uint64_t)
Signed(x) == IF x < XSign THEN x ELSE x - XSpan                    \* (int64_t)
Low(x) == x % WSpan                                                \* (uint32_t)
SignedLow(x) == IF Low(x) < WSign THEN Low(x) ELSE Low(x) - WSpan  \* (int32_t)

\* (int64_t) of an int32_t, stored in a register
SignExtend(n) == ToWord(SignedLow(n))

\* imm & 0x3F and imm & 0x1F
ShiftAmount(n) == n % XLen
ShiftAmountW(n) == n % WLen

\* C division truncates, and the remainder has the sign of the dividend.
Magnitude(n) == IF n < 0 THEN -n ELSE n
Quotient(n, d) == LET q == Magnitude(n) \div Magnitude(d)
                  IN  IF (n < 0) = (d < 0) THEN q ELSE -q
Remainder(n, d) == n - d * Quotient(n, d)

MostNegative == -XSign      \* INT64_MIN
MostNegativeW == -WSign     \* INT32_MIN

-----------------------------------------------------------------------------
(* r_inst.c and i_inst.c.  y is the value of rs2 or the immediate.         *)

Add(x, y) == ToWord(x + y)

Sub(x, y) == ToWord(x - y)
Slt(x, y) == IF Signed(x) < Signed(y) THEN 1 ELSE 0
Sltu(x, y) == IF x < y THEN 1 ELSE 0
Sll(x, y) == ToWord(x * Pow2[ShiftAmount(y)])

Srl(x, y) == x \div Pow2[ShiftAmount(y)]

\* Mutant: the register form shifts as an unsigned number.
SraLogical(x, y) == ToWord(x \div Pow2[ShiftAmount(y)])

Sra(x, y) == ToWord(Signed(x) \div Pow2[ShiftAmount(y)])

\* SLTI compares with (int64_t) imm, SLTIU with (uint64_t) imm.
Slti(x, imm) == IF Signed(x) < imm THEN 1 ELSE 0
Sltiu(x, imm) == IF x < ToWord(imm) THEN 1 ELSE 0

FUNCT7_SRLI == 0
FUNCT7_SRAI == 32    \* 0x20

\* masked is imm & 0x200: bit 9 of the immediate, which is clear in SRLI and
\* SRAI alike, so that SRAI shifts zeros in and its branch is dead.  Neither
\* constant: the register keeps its value old.
ShiftRightImmediate(masked, x, shamt, old) ==
    IF masked = FUNCT7_SRLI THEN Srl(x, shamt)
    ELSE IF masked = FUNCT7_SRAI THEN Sra(x, shamt)
    ELSE old

Masked == {0, 512}

-----------------------------------------------------------------------------
(* m_extension.c                                                           *)

Mul(x, y) == ToWord(Signed(x) * Signed(y))
Mulh(x, y) == ToWord((Signed(x) * Signed(y)) \div XSpan)

\* Mutant: the second operand is taken as signed.
MulhsuSigned(x, y) == ToWord((Signed(x) * Signed(y)) \div XSpan)

Mulhsu(x, y) == ToWord((Signed(x) * y) \div XSpan)
Mulhu(x, y) == (x * y) \div XSpan

Div(x, y) ==
    IF y = 0 THEN ToWord(-1)
    ELSE IF Signed(x) = MostNegative /\ Signed(y) = -1 THEN x
    ELSE ToWord(Quotient(Signed(x), Signed(y)))

Divu(x, y) == IF y = 0 THEN ToWord(-1) ELSE x \div y

\* Mutant: division by zero leaves a remainder of zero.
RemZeroByZero(x, y) ==
    IF y = 0 THEN 0
    ELSE IF Signed(x) = MostNegative /\ Signed(y) = -1 THEN 0
    ELSE ToWord(Remainder(Signed(x), Signed(y)))

Rem(x, y) ==
    IF y = 0 THEN x
    ELSE IF Signed(x) = MostNegative /\ Signed(y) = -1 THEN 0
    ELSE ToWord(Remainder(Signed(x), Signed(y)))

Remu(x, y) == IF y = 0 THEN x ELSE x % y

-----------------------------------------------------------------------------
(* i_64_inst.c.  DIVUW and REMUW go through a uint32_t, whose conversion   *)
(* to int64_t does not extend a sign.                                      *)

Addw(x, y) == SignExtend(x + y)
Subw(x, y) == SignExtend(x - y)
Sllw(x, y) == SignExtend(x * Pow2[ShiftAmountW(y)])

\* Mutant: the upper half is shifted in.
SrlwWide(x, y) == SignExtend(x \div Pow2[ShiftAmountW(y)])

Srlw(x, y) == SignExtend(Low(x) \div Pow2[ShiftAmountW(y)])
Sraw(x, y) == SignExtend(SignedLow(x) \div Pow2[ShiftAmountW(y)])
Mulw(x, y) == SignExtend(SignedLow(x) * SignedLow(y))

Divw(x, y) ==
    IF Low(y) = 0 THEN ToWord(-1)
    ELSE IF SignedLow(x) = MostNegativeW /\ SignedLow(y) = -1 THEN SignExtend(x)
    ELSE SignExtend(Quotient(SignedLow(x), SignedLow(y)))

Divuw(x, y) == IF Low(y) = 0 THEN WSpan - 1 ELSE Low(x) \div Low(y)

Remw(x, y) ==
    IF Low(y) = 0 THEN SignExtend(x)
    ELSE IF SignedLow(x) = MostNegativeW /\ SignedLow(y) = -1 THEN 0
    ELSE SignExtend(Remainder(SignedLow(x), SignedLow(y)))

Remuw(x, y) == IF Low(y) = 0 THEN Low(x) ELSE Low(x) % Low(y)

-----------------------------------------------------------------------------
(* Execution: registers[rd] is written, then registers[0] cleared.         *)

\* Mutant: x0 can be written.
WriteAny(rd, value) == registers' = [registers EXCEPT ![rd] = value]

Write(rd, value) == registers' = [registers EXCEPT ![rd] = value, ![0] = 0]

RType(rd, x, y) ==
    \/ Write(rd, Add(x, y))  \/ Write(rd, Sub(x, y))
    \/ Write(rd, Slt(x, y))  \/ Write(rd, Sltu(x, y))
    \/ Write(rd, Sll(x, y))  \/ Write(rd, Srl(x, y))  \/ Write(rd, Sra(x, y))

MExtension(rd, x, y) ==
    \/ Write(rd, Mul(x, y))    \/ Write(rd, Mulh(x, y))
    \/ Write(rd, Mulhsu(x, y)) \/ Write(rd, Mulhu(x, y))
    \/ Write(rd, Div(x, y))    \/ Write(rd, Divu(x, y))
    \/ Write(rd, Rem(x, y))    \/ Write(rd, Remu(x, y))

RType32(rd, x, y) ==
    \/ Write(rd, Addw(x, y)) \/ Write(rd, Subw(x, y))
    \/ Write(rd, Sllw(x, y)) \/ Write(rd, Srlw(x, y))  \/ Write(rd, Sraw(x, y))
    \/ Write(rd, Mulw(x, y))
    \/ Write(rd, Divw(x, y)) \/ Write(rd, Divuw(x, y))
    \/ Write(rd, Remw(x, y)) \/ Write(rd, Remuw(x, y))

IType(rd, x, imm) ==
    \/ Write(rd, Add(x, imm))
    \/ Write(rd, Slti(x, imm)) \/ Write(rd, Sltiu(x, imm))
    \/ Write(rd, Sll(x, imm))
    \/ \E masked \in Masked : Write(rd, ShiftRightImmediate(masked, x, imm, registers[rd]))

IType32(rd, x, imm) ==
    \/ Write(rd, Addw(x, imm))
    \/ Write(rd, Sllw(x, imm)) \/ Write(rd, Srlw(x, imm)) \/ Write(rd, Sraw(x, imm))

Next ==
    \E op \in Operands :
        LET x == registers[op[2]]
            y == registers[op[3]]
        IN  \/ RType(op[1], x, y)
            \/ MExtension(op[1], x, y)
            \/ RType32(op[1], x, y)
            \/ \E imm \in Immediates : IType(op[1], x, imm) \/ IType32(op[1], x, imm)

Spec == Init /\ [][Next]_registers

-----------------------------------------------------------------------------
(* Properties: laws that tie instructions to one another and to the        *)
(* integers, for whatever two registers hold.                              *)

EveryPair(Law(_, _)) == \A r, s \in Regs : Law(registers[r], registers[s])

(* A quotient and the remainder that belongs to it give back the dividend, *)
(* in every corner (divisor 0, the overflow of the most negative number),  *)
(* signed and unsigned; the remainder is smaller than the divisor and not  *)
(* of the other sign.                                                      *)
DivisionLaw(x, y) ==
    /\ ToWord(Div(x, y) * y + Rem(x, y)) = x
    /\ ToWord(Divu(x, y) * y + Remu(x, y)) = x
    /\ y # 0 => /\ Magnitude(Signed(Rem(x, y))) < Magnitude(Signed(y))
                /\ Signed(Rem(x, y)) * Signed(x) >= 0
                /\ Remu(x, y) < y

DivisionIdentity == EveryPair(DivisionLaw)

(* MUL and each of the three high halves make up the full product of the   *)
(* operands, read as the instruction's name says.                          *)
ProductLaw(x, y) ==
    LET Full(high) == Signed(high) * XSpan + Mul(x, y)
    IN  /\ Full(Mulh(x, y)) = Signed(x) * Signed(y)
        /\ Full(Mulhsu(x, y)) = Signed(x) * y
        /\ Mulhu(x, y) * XSpan + Mul(x, y) = x * y

ProductHalves == EveryPair(ProductLaw)

(* A 32-bit instruction sees the low halves of its operands only, and      *)
(* leaves a sign-extended result, so that its results compose with the     *)
(* 64-bit instructions.  DIVUW and REMUW are not among them.               *)
Narrow(Op(_, _), x, y) ==
    /\ Op(x, y) = Op(Low(x), Low(y))
    /\ Op(x, y) = SignExtend(Op(x, y))

NarrowLaw(x, y) ==
    /\ Narrow(Addw, x, y) /\ Narrow(Subw, x, y) /\ Narrow(Mulw, x, y)
    /\ Narrow(Sllw, x, y) /\ Narrow(Srlw, x, y) /\ Narrow(Sraw, x, y)
    /\ Narrow(Divw, x, y) /\ Narrow(Remw, x, y)

NarrowForms == EveryPair(NarrowLaw)

(* The signed and the unsigned right shift agree on numbers below the sign *)
(* bit, and above it a signed shift is the complement of the shift of the  *)
(* complement: floor, not truncation.                                      *)
ShiftLaw(x, y) ==
    LET Complement(z) == XSpan - 1 - z
    IN  Sra(x, y) = (IF Signed(x) >= 0 THEN Srl(x, y)
                     ELSE Complement(Srl(Complement(x), y)))

ArithmeticShift == EveryPair(ShiftLaw)

=============================================================================
