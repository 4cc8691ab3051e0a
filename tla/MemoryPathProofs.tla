-------------------------- MODULE MemoryPathProofs --------------------------
(***************************************************************************)
(* MemoryPath, for every layout of the memory, any nesting of handlers and *)
(* any program: no counted event is lost, and the loads and the            *)
(* read-modify-writes agree with each other about what the memory holds.   *)
(***************************************************************************)
EXTENDS MemoryPath, WordsProofs

Shape ==
    /\ DOMAIN data = 0..(Size - 1)
    /\ \E S : stack \in Seq(S)
    /\ Len(stack) > 0
    /\ counted \in Nat

(* While the reservation is on the counter it belongs to the newest of the *)
(* activities between an LR and its SC, and nothing has been stored since. *)
ReservationIsFresh ==
    reserved = Counter =>
        \A i \in DOMAIN stack :
            /\ stack[i].at = "loaded"
            /\ \A j \in DOMAIN stack : j > i => stack[j].at # "loaded"
            => stack[i].value = Doubleword(data, Counter)

IInv == Shape /\ ReservationIsFresh

(* A store, or a read-modify-write, elsewhere leaves the counter alone.    *)
LEMMA CounterUntouched ==
    ASSUME DOMAIN data = 0..(Size - 1),
           NEW address \in Nat, NEW size \in Nat, NEW value,
           Elsewhere(address, size)
    PROVE  LET written == memory_write(data, address, value, size)
           IN  /\ DOMAIN written = 0..(Size - 1)
               /\ Doubleword(written, Counter) = Doubleword(data, Counter)
<1> DEFINE written == memory_write(data, address, value, size)
<1>a. /\ Base \in Nat /\ Size \in Nat /\ Counter \in Nat /\ DOUBLE \in Nat \ {0}
      /\ Base <= Counter /\ Counter + DOUBLE <= Base + Size
  BY LayoutAssumption
<1>1. DOMAIN written = 0..(Size - 1)
  BY DEF memory_write
<1>2. \A i \in 0..(DOUBLE - 1) :
        written[Counter - Base + i] = data[Counter - Base + i]
  <2> SUFFICES ASSUME NEW i \in 0..(DOUBLE - 1)
               PROVE  written[Counter - Base + i] = data[Counter - Base + i]
    OBVIOUS
  <2> DEFINE k == Counter - Base + i
  <2>1. k \in DOMAIN data
    BY <1>a
  <2>2. ~(address <= Base + k /\ Base + k < address + size)
    BY <1>a DEF Elsewhere
  <2>3. QED
    BY <2>1, <2>2 DEF memory_write
<1>3. BytesAt(written, Counter, DOUBLE) = BytesAt(data, Counter, DOUBLE)
  BY <1>2 DEF BytesAt
<1>4. QED
  BY <1>1, <1>3 DEF Doubleword, memory_read

LEMMA CounterSurvivesAmo ==
    ASSUME DOMAIN data = 0..(Size - 1),
           NEW address \in Nat, NEW op, NEW src,
           Elsewhere(address, DOUBLE), execute_amo(op, address, src)
    PROVE  /\ DOMAIN data' = 0..(Size - 1)
           /\ Doubleword(data', Counter) = Doubleword(data, Counter)
<1>1. CASE InMemory(address, DOUBLE)
  BY <1>1, CounterUntouched, LayoutAssumption DEF execute_amo
<1>2. CASE ~InMemory(address, DOUBLE)
  BY <1>2 DEF execute_amo
<1>3. QED
  BY <1>1, <1>2

(* The stack stays a sequence, whatever its elements.                      *)
LEMMA StackShape ==
    ASSUME Shape, NEW activity
    PROVE  /\ \E S : Append(stack, activity) \in Seq(S)
           /\ \E S : [stack EXCEPT ![Len(stack)] = activity] \in Seq(S)
           /\ Len(stack) > 1 => \E S : SubSeq(stack, 1, Len(stack) - 1) \in Seq(S)
<1>1. PICK S : stack \in Seq(S)
  BY DEF Shape
<1> DEFINE T == S \cup {activity}
<1>2. /\ stack \in Seq(T) /\ activity \in T
      /\ Len(stack) \in Nat /\ Len(stack) > 0 /\ DOMAIN stack = 1..Len(stack)
  <2>1. \A i \in 1..Len(stack) : stack[i] \in T
    BY <1>1
  <2>2. Len(stack) \in Nat /\ stack \in [1..Len(stack) -> T]
    BY <1>1, <2>1
  <2>3. QED
    BY <2>2 DEF Shape
<1>3. Append(stack, activity) \in Seq(T)
  BY <1>2
<1>4. [stack EXCEPT ![Len(stack)] = activity] \in Seq(T)
  BY <1>2
<1>5. Len(stack) > 1 => SubSeq(stack, 1, Len(stack) - 1) \in Seq(T)
  BY <1>2
<1>6. QED
  BY <1>3, <1>4, <1>5

LEMMA InitFresh == Init => IInv
<1> SUFFICES ASSUME Init PROVE IInv
  OBVIOUS
<1>1. stack \in Seq({Outside}) /\ Len(stack) = 1
  BY DEF Init
<1>2. Shape
  <2>1. DOMAIN data = 0..(Size - 1) /\ counted \in Nat
    BY DEF Init
  <2>2. QED
    BY <1>1, <2>1 DEF Shape
<1>3. QED
  BY <1>2, LayoutAssumption DEF Init, IInv, ReservationIsFresh

(* The steps of the guest that counts.                                     *)
LEMMA CountingKeepsFresh ==
    ASSUME IInv, Interrupt \/ Return \/ CountLr \/ CountSc \/ CountAmo
    PROVE  IInv'
<1> USE DEF IInv
<1>s. \E S : stack \in Seq(S)
  BY DEF Shape
<1>l. Len(stack) \in Nat /\ Len(stack) > 0 /\ DOMAIN stack = 1..Len(stack)
  BY <1>s DEF Shape
<1>1. CASE Interrupt
  <2>1. Shape'
    <3>1. stack' = Append(stack, Outside) /\ UNCHANGED <<data, counted>>
      BY <1>1 DEF Interrupt
    <3>2. Len(stack') > 0
      BY <1>s, <1>l, <3>1
    <3>3. \E S : stack' \in Seq(S)
      BY <3>1, StackShape
    <3>4. QED
      BY <3>1, <3>2, <3>3 DEF Shape
  <2>2. /\ DOMAIN stack' = 1..(Len(stack) + 1)
        /\ \A i \in DOMAIN stack : stack'[i] = stack[i]
        /\ stack'[Len(stack) + 1].at = "outside"
    BY <1>1, <1>s DEF Interrupt, Outside
  <2>3. ReservationIsFresh'
    BY <1>1, <1>l, <2>2 DEF Interrupt, ReservationIsFresh
  <2>4. QED
    BY <2>1, <2>3
<1>2. CASE Return
  <2>1. /\ DOMAIN stack' = 1..(Len(stack) - 1)
        /\ Len(stack') = Len(stack) - 1
        /\ \A i \in DOMAIN stack' : stack'[i] = stack[i]
    BY <1>2, <1>s DEF Return
  <2>2. Shape'
    <3>1. \E S : stack' \in Seq(S)
      BY <1>2, StackShape DEF Return
    <3>2. Len(stack') > 0 /\ UNCHANGED <<data, counted>>
      BY <1>2, <1>l, <2>1 DEF Return
    <3>3. QED
      BY <3>1, <3>2 DEF Shape
  <2>3. stack[Len(stack)].at # "loaded"
    BY <1>2 DEF Return, Top
  <2>4. ReservationIsFresh'
    BY <1>2, <1>l, <2>1, <2>3 DEF Return, ReservationIsFresh
  <2>5. QED
    BY <2>2, <2>4
<1>3. CASE CountLr
  <2>1. /\ stack' = [stack EXCEPT ![Len(stack)] =
                        [at |-> "loaded", value |-> Doubleword(data, Counter)]]
        /\ UNCHANGED <<data, counted>>
    BY <1>3 DEF CountLr, Become
  <2>2. /\ DOMAIN stack' = 1..Len(stack)
        /\ stack'[Len(stack)] = [at |-> "loaded", value |-> Doubleword(data, Counter)]
    BY <1>l, <2>1
  <2>3. Len(stack') = Len(stack)
    BY <1>s, <2>1
  <2>4. Shape'
    BY <1>l, <2>1, <2>3, StackShape DEF Shape
  <2>5. \A i \in DOMAIN stack' :
           (\A j \in DOMAIN stack' : j > i => stack'[j].at # "loaded") => i = Len(stack)
    BY <1>l, <2>2
  <2>6. ReservationIsFresh'
    BY <2>1, <2>2, <2>5 DEF ReservationIsFresh
  <2>7. QED
    BY <2>4, <2>6
<1>4. CASE CountSc
  <2>1. stack' = [stack EXCEPT ![Len(stack)] = Outside]
    BY <1>4 DEF CountSc, Become
  <2>2. Len(stack') = Len(stack)
    BY <1>s, <2>1
  <2>3. /\ counted' \in Nat
        /\ DOMAIN data' = 0..(Size - 1)
        /\ reserved' # Counter
    <3>1. CASE ScSucceeds(Counter)
      BY <1>4, <3>1, LayoutAssumption DEF CountSc, execute_sc, memory_write, Shape
    <3>2. CASE ~ScSucceeds(Counter)
      BY <1>4, <3>2 DEF CountSc, ScSucceeds, Shape
    <3>3. QED
      BY <3>1, <3>2
  <2>4. Shape'
    BY <1>l, <2>1, <2>2, <2>3, StackShape DEF Shape
  <2>5. QED
    BY <2>3, <2>4 DEF ReservationIsFresh
<1>5. CASE CountAmo
  <2>1. /\ UNCHANGED <<reserved, stack>>
        /\ counted' = counted + 1
        /\ execute_amo("add", Counter, 1)
        /\ NobodyLoaded
    BY <1>5 DEF CountAmo
  <2>2. Shape'
    BY <2>1 DEF Shape, execute_amo, memory_write
  <2>3. ReservationIsFresh'
    BY <2>1 DEF ReservationIsFresh, NobodyLoaded
  <2>4. QED
    BY <2>2, <2>3
<1>6. QED
  BY <1>1, <1>2, <1>3, <1>4, <1>5

(* Whatever else it does.                                                  *)
LEMMA OthersKeepFresh ==
    ASSUME IInv, NEW a \in Addresses, NEW v, NEW s \in StoreSizes \cup {Illegal}, NEW op,
           OtherLr(a) \/ OtherSc(a, v) \/ OtherAmo(op, a, v) \/ Store(a, v, s)
    PROVE  IInv'
<1> USE LayoutAssumption DEF IInv
<1>a. a \in Nat /\ a # Counter /\ s \in Nat /\ DOUBLE \in Nat
  BY DEF StoreSizes, Illegal
<1>1. CASE OtherLr(a)
  BY <1>1, <1>a DEF OtherLr, execute_lr, Shape, ReservationIsFresh
<1>2. CASE OtherSc(a, v)
  BY <1>2 DEF OtherSc, execute_sc, memory_write, Shape, ReservationIsFresh
<1>3. CASE OtherAmo(op, a, v)
  <2>1. /\ DOMAIN data' = 0..(Size - 1)
        /\ Doubleword(data', Counter) = Doubleword(data, Counter)
    BY <1>3, <1>a, CounterSurvivesAmo DEF OtherAmo, Shape
  <2>2. QED
    BY <1>3, <2>1 DEF OtherAmo, Shape, ReservationIsFresh
<1>4. CASE Store(a, v, s)
  <2>1. /\ DOMAIN data' = 0..(Size - 1)
        /\ Doubleword(data', Counter) = Doubleword(data, Counter)
    <3>1. CASE Elsewhere(a, s) /\ data' = memory_write(data, a, v, s)
      BY <1>a, <3>1, CounterUntouched DEF Shape
    <3>2. CASE UNCHANGED data
      BY <3>2 DEF Shape
    <3>3. QED
      BY <1>4, <3>1, <3>2 DEF Store
  <2>2. QED
    BY <1>4, <2>1 DEF Store, Shape, ReservationIsFresh
<1>5. QED
  BY <1>1, <1>2, <1>3, <1>4

LEMMA ResetKeepsFresh ==
    ASSUME IInv, Reset
    PROVE  IInv'
<1>1. stack' = <<Outside>> /\ counted' = 0
  BY DEF Reset
<1>2. stack' \in Seq({Outside}) /\ Len(stack') = 1
  BY <1>1
<1>3. Shape'
  <2>1. DOMAIN data' = 0..(Size - 1)
    BY DEF Reset, memory_write, IInv, Shape
  <2>2. counted' \in Nat /\ Len(stack') > 0
    BY <1>1, <1>2
  <2>3. QED
    BY <1>2, <2>1, <2>2, Zenon DEF Shape
<1>4. DOMAIN stack' = {1} /\ stack'[1].at = "outside"
  BY <1>1 DEF Outside
<1>5. QED
  BY <1>3, <1>4 DEF IInv, ReservationIsFresh

LEMMA StepKeepsFresh == IInv /\ [Next]_vars => IInv'
<1> SUFFICES ASSUME IInv, [Next]_vars PROVE IInv'
  OBVIOUS
<1>1. CASE UNCHANGED vars
  BY <1>1 DEF vars, IInv, Shape, ReservationIsFresh
<1>2. CASE Next
  BY <1>2, CountingKeepsFresh, OthersKeepFresh, ResetKeepsFresh, BoundAssumption DEF Next
<1>3. QED
  BY <1>1, <1>2

(* An SC that succeeds replaces the value its own LR loaded                *)
(* (a_extension.c:12-23), whatever the handlers in between reserve, store  *)
(* and count.  It is why no counted event is lost (NoLostCount).           *)
THEOREM ScIsExclusive == Spec => ScReplacesWhatLrRead
<1>1. IInv /\ [Next]_vars
        => [Top.at = "loaded" /\ counted' > counted
              => Top.value = Doubleword(data, Counter)]_vars
  <2> SUFFICES ASSUME IInv, Next, Top.at = "loaded", counted' > counted
               PROVE  Top.value = Doubleword(data, Counter)
    OBVIOUS
  <2>1. counted \in Nat /\ Len(stack) \in DOMAIN stack /\ DOMAIN stack = 1..Len(stack)
    BY DEF IInv, Shape
  <2>2. ~NobodyLoaded
    BY <2>1 DEF NobodyLoaded, Top
  <2>3. ~UNCHANGED counted /\ counted' # 0
    BY <2>1
  <2>4. CountSc
    BY <2>2, <2>3 DEF Next, Interrupt, Return, CountLr, CountAmo, OtherLr, OtherSc,
       OtherAmo, Store, Reset
  <2>5. reserved = Counter
    BY <2>3, <2>4 DEF CountSc, ScSucceeds
  <2>6. QED
    BY <2>1, <2>5 DEF IInv, ReservationIsFresh, Top
<1>2. QED
  BY <1>1, InitFresh, StepKeepsFresh, PTL DEF Spec, ScReplacesWhatLrRead

-----------------------------------------------------------------------------
(* Words in memory.                                                        *)

BytesOK == data \in [0..(Size - 1) -> Byte]

LEMMA Widths ==
    /\ ByteBits \in Nat \ {0} /\ DOUBLE \in Nat \ {0} /\ XLen \in Nat \ {0}
    /\ \A size \in Nat : ByteBits * size \in Nat /\ Pow2[ByteBits * size] \in Nat \ {0}
    /\ Pow2[ByteBits] \in Nat \ {0} /\ Pow2[XLen] \in Nat \ {0}
    /\ XLen = ByteBits * DOUBLE
<1>1. ByteBits \in Nat \ {0} /\ DOUBLE \in Nat \ {0}
  BY LayoutAssumption
<1>2. \A size \in Nat : ByteBits * size \in Nat
  BY <1>1
<1>3. XLen \in Nat \ {0} /\ XLen = ByteBits * DOUBLE
  BY <1>1 DEF XLen
<1>4. QED
  BY <1>1, <1>2, <1>3, Pow2Facts

LEMMA Layout ==
    /\ Base \in Nat /\ Size \in Nat /\ Counter \in Nat /\ DOUBLE \in Nat \ {0}
    /\ Addresses \subseteq Nat
    /\ InMemory(Counter, DOUBLE)
BY LayoutAssumption DEF InMemory

LEMMA ByteIsNatural == \A b \in Byte : b \in Nat /\ b \in Int
BY Widths DEF Byte

(* Where a byte of an access is.                                           *)
LEMMA ByteInMemory ==
    ASSUME NEW address \in Nat, NEW size \in Nat, InMemory(address, size),
           NEW i \in 0..(size - 1)
    PROVE  /\ address - Base + i \in 0..(Size - 1)
           /\ Base + (address - Base + i) = address + i
BY Layout DEF InMemory

LEMMA ByteOfIsByte ==
    ASSUME NEW v \in Int, NEW i \in Nat
    PROVE  ByteOf(v, i) \in Byte
<1> DEFINE p == Pow2[ByteBits * i]
           q == Pow2[ByteBits]
<1>1. p \in Nat \ {0} /\ q \in Nat \ {0}
  BY Widths
<1> HIDE DEF p, q
<1>2. v \div p \in Int
  BY <1>1, DivisionOf
<1>3. (v \div p) % q \in 0..(q - 1)
  BY <1>1, <1>2, DivisionOf
<1>4. QED
  BY <1>3 DEF ByteOf, Byte, p, q

(* memory_write stores bytes, wherever it does.                            *)
LEMMA WriteKeepsBytes ==
    ASSUME BytesOK, NEW address \in Nat, NEW value \in Int, NEW size \in Nat
    PROVE  memory_write(data, address, value, size) \in [0..(Size - 1) -> Byte]
<1> SUFFICES ASSUME NEW i \in 0..(Size - 1), address <= Base + i
             PROVE  ByteOf(value, Base + i - address) \in Byte
  BY DEF BytesOK, memory_write
<1>1. Base + i - address \in Nat
  BY LayoutAssumption
<1>2. QED
  BY <1>1, ByteOfIsByte

LEMMA NumberInRange ==
    ASSUME BytesOK, NEW address \in Nat, NEW size \in Nat, InMemory(address, size)
    PROVE  Number(BytesAt(data, address, size), size) \in 0..(Pow2[ByteBits * size] - 1)
<1> DEFINE bytes == BytesAt(data, address, size)
<1>1. ASSUME NEW i \in 0..(size - 1) PROVE bytes[i] \in 0..(Pow2[ByteBits] - 1)
  <2>1. bytes[i] = data[address - Base + i] /\ address - Base + i \in 0..(Size - 1)
    BY ByteInMemory DEF BytesAt
  <2>2. QED
    BY <2>1 DEF BytesOK, Byte
<1> HIDE DEF bytes
<1>2. Sum([i \in 0..(size - 1) |-> bytes[i] * Pow2[ByteBits * i]], size)
        \in 0..(Pow2[ByteBits * size] - 1)
  BY <1>1, Widths, DigitsMakeWord
<1>3. QED
  BY <1>2 DEF bytes, Number

(* The bytes of a value make up the value, as far as they go.              *)
LEMMA NumberOfBytes ==
    ASSUME NEW d, NEW address, NEW size \in Nat, NEW value \in Nat,
           \A i \in 0..(size - 1) : d[address - Base + i] = ByteOf(value, i)
    PROVE  Number(BytesAt(d, address, size), size) = value % Pow2[ByteBits * size]
<1> DEFINE f == [i \in 0..(size - 1) |-> BytesAt(d, address, size)[i] * Pow2[ByteBits * i]]
           g == [i \in 0..(size - 1) |->
                    ((value \div Pow2[ByteBits * i]) % Pow2[ByteBits]) * Pow2[ByteBits * i]]
<1>1. ASSUME NEW i \in 0..(size - 1)
      PROVE  f[i] \in Int /\ f[i] = g[i]
  <2>1. f[i] = ByteOf(value, i) * Pow2[ByteBits * i]
    BY DEF BytesAt
  <2>2. g[i] = ByteOf(value, i) * Pow2[ByteBits * i]
    BY DEF ByteOf
  <2>3. ByteOf(value, i) \in Int /\ Pow2[ByteBits * i] \in Int
    <3>1. i \in Nat
      OBVIOUS
    <3>2. ByteOf(value, i) \in Byte /\ Pow2[ByteBits * i] \in Nat
      BY <3>1, ByteOfIsByte, Widths
    <3>3. QED
      BY <3>2, ByteIsNatural
  <2>4. QED
    BY <2>1, <2>2, <2>3
<1>2. Sum(g, size) = value % Pow2[ByteBits * size]
  BY Widths, WordOfDigits
<1> HIDE DEF f, g
<1>3. Sum(f, size) = Sum(g, size)
  BY <1>1, SumOfSame
<1>4. QED
  BY <1>2, <1>3 DEF f, Number

LEMMA WriteThenRead ==
    ASSUME DOMAIN data = 0..(Size - 1), NEW value \in Nat, NEW address \in Nat,
           InMemory(address, DOUBLE)
    PROVE  Doubleword(memory_write(data, address, value, DOUBLE), address) = ToWord(value)
<1> DEFINE d == memory_write(data, address, value, DOUBLE)
<1>1. ASSUME NEW i \in 0..(DOUBLE - 1)
      PROVE  d[address - Base + i] = ByteOf(value, i)
  <2> DEFINE k == address - Base + i
  <2>1. k \in 0..(Size - 1) /\ Base + k = address + i
    BY Widths, ByteInMemory
  <2> HIDE DEF k
  <2>2. address <= Base + k /\ Base + k < address + DOUBLE /\ Base + k - address = i
    BY <2>1, Layout
  <2>3. d[k] = ByteOf(value, i)
    BY <2>1, <2>2 DEF memory_write
  <2>4. QED
    BY <2>3 DEF k
<1> HIDE DEF d
<1>2. Number(BytesAt(d, address, DOUBLE), DOUBLE) = value % Pow2[ByteBits * DOUBLE]
  BY <1>1, Widths, NumberOfBytes
<1>3. QED
  BY <1>2 DEF d, Doubleword, memory_read, ToWord, XLen

-----------------------------------------------------------------------------
(* The read-modify-writes.                                                 *)

AmoOps == {"add", "swap", "and", "or", "xor", "min", "max", "minu", "maxu"}

LEMMA DecodedOps ==
    ASSUME NEW funct3, NEW funct7
    PROVE  Decode(funct3, funct7) \in AmoOps \cup {"lr", "sc", "illegal"}
BY DEF Decode, AmoOf, AmoOps

LEMMA WordIsNatural == \A w \in Word : w \in Nat /\ w \in Int /\ w < Pow2[XLen]
BY Widths DEF Word

LEMMA ToWordIsWord ==
    ASSUME NEW n \in Int
    PROVE  ToWord(n) \in Word /\ (n \in Word => ToWord(n) = n)
BY Widths DEF Word, ToWord

LEMMA BitIsBit == ASSUME NEW x \in Nat, NEW i \in Nat PROVE Bit(x, i) \in 0..1
<1> DEFINE p == Pow2[i]
<1>1. p \in Nat \ {0}
  BY Pow2Facts
<1> HIDE DEF p
<1>2. x \div p \in Int
  BY <1>1, DivisionOf
<1>3. QED
  BY <1>2 DEF Bit, p

LEMMA BitOps ==
    ASSUME NEW a \in 0..1, NEW b \in 0..1
    PROVE  /\ \A op \in {"and", "or", "xor"} : BitOf(op, a, b) \in 0..1
           /\ BitOf("and", a, b) + BitOf("or", a, b) = a + b
           /\ BitOf("xor", a, b) + BitOf("and", a, b) = BitOf("or", a, b)
           /\ BitOf("and", a, b) <= a /\ BitOf("and", a, b) <= b
           /\ a <= BitOf("or", a, b) /\ b <= BitOf("or", a, b)
<1>1. /\ BitOf("and", a, b) = a * b
      /\ BitOf("or", a, b) = a + b - a * b
      /\ BitOf("xor", a, b) = (a + b) % 2
  BY DEF BitOf
<1>2. CASE a = 0
  <2>1. a * b = 0 /\ (a + b) % 2 = b
    BY <1>2
  <2>2. QED
    BY <1>1, <1>2, <2>1
<1>3. CASE a = 1
  <2>1. a * b = b /\ (a + b) % 2 = 1 - b
    BY <1>3
  <2>2. QED
    BY <1>1, <1>3, <2>1
<1>4. QED
  BY <1>2, <1>3

(* The terms that a bitwise operation adds up.                             *)
Terms(op, x, y) == [i \in 0..(XLen - 1) |-> BitOf(op, Bit(x, i), Bit(y, i)) * Pow2[i]]
BitTerms(x) == [i \in 0..(XLen - 1) |-> Bit(x, i) * Pow2[i]]

LEMMA TermsOf ==
    ASSUME NEW x \in Nat, NEW y \in Nat, NEW i \in 0..(XLen - 1)
    PROVE  /\ Bit(x, i) \in 0..1 /\ Bit(y, i) \in 0..1 /\ Pow2[i] \in Nat
           /\ BitTerms(x)[i] = Bit(x, i) * Pow2[i]
           /\ BitTerms(y)[i] = Bit(y, i) * Pow2[i]
           /\ \A op \in {"and", "or", "xor"} :
                 Terms(op, x, y)[i] = BitOf(op, Bit(x, i), Bit(y, i)) * Pow2[i]
<1>1. i \in Nat
  BY Widths
<1>2. QED
  BY <1>1, BitIsBit, Pow2Facts DEF BitTerms, Terms

LEMMA TermsAreNumbers ==
    ASSUME NEW x \in Nat, NEW y \in Nat, NEW i \in 0..(XLen - 1)
    PROVE  /\ BitTerms(x)[i] \in Int /\ BitTerms(y)[i] \in Int
           /\ \A op \in {"and", "or", "xor"} : Terms(op, x, y)[i] \in Int
<1> DEFINE a == Bit(x, i)
           b == Bit(y, i)
           p == Pow2[i]
<1>1. /\ a \in 0..1 /\ b \in 0..1 /\ p \in Nat
      /\ BitTerms(x)[i] = a * p /\ BitTerms(y)[i] = b * p
      /\ \A op \in {"and", "or", "xor"} : Terms(op, x, y)[i] = BitOf(op, a, b) * p
  BY TermsOf
<1> HIDE DEF a, b, p
<1>2. \A op \in {"and", "or", "xor"} : BitOf(op, a, b) \in 0..1
  BY <1>1, BitOps
<1>3. \A t \in 0..1 : t * p \in Int
  BY <1>1
<1>4. QED
  BY <1>1, <1>2, <1>3

LEMMA TermsFit ==
    ASSUME NEW x \in Nat, NEW y \in Nat, NEW i \in 0..(XLen - 1)
    PROVE  /\ Terms("and", x, y)[i] + Terms("or", x, y)[i] = BitTerms(x)[i] + BitTerms(y)[i]
           /\ Terms("or", x, y)[i] = Terms("xor", x, y)[i] + Terms("and", x, y)[i]
           /\ Terms("and", x, y)[i] <= BitTerms(x)[i]
           /\ Terms("and", x, y)[i] <= BitTerms(y)[i]
           /\ BitTerms(x)[i] <= Terms("or", x, y)[i]
           /\ BitTerms(y)[i] <= Terms("or", x, y)[i]
<1> DEFINE a == Bit(x, i)
           b == Bit(y, i)
           p == Pow2[i]
           conj == BitOf("and", a, b)
           disj == BitOf("or", a, b)
           diff == BitOf("xor", a, b)
<1>1. /\ a \in 0..1 /\ b \in 0..1 /\ p \in Nat
      /\ BitTerms(x)[i] = a * p /\ BitTerms(y)[i] = b * p
      /\ Terms("and", x, y)[i] = conj * p
      /\ Terms("or", x, y)[i] = disj * p
      /\ Terms("xor", x, y)[i] = diff * p
  BY TermsOf
<1> HIDE DEF a, b, p
<1>2. /\ conj \in 0..1 /\ disj \in 0..1 /\ diff \in 0..1
      /\ conj + disj = a + b /\ diff + conj = disj
      /\ conj <= a /\ conj <= b /\ a <= disj /\ b <= disj
  BY <1>1, BitOps
<1> HIDE DEF conj, disj, diff
<1>3. \A t \in 0..1 : t * p = IF t = 0 THEN 0 ELSE p
  BY <1>1
<1>4. QED
  BY <1>1, <1>2, <1>3

LEMMA BitsMakeWord ==
    ASSUME NEW x \in Word
    PROVE  Sum(BitTerms(x), XLen) = x
<1> DEFINE f == BitTerms(x)
           g == [i \in 0..(XLen - 1) |-> ((x \div Pow2[1 * i]) % Pow2[1]) * Pow2[1 * i]]
<1>1. x \in Nat /\ XLen \in Nat
  BY WordIsNatural, Widths
<1>2. Pow2[1] = 2
  <2>1. Pow2[0 + 1] = 2 * Pow2[0] /\ Pow2[0] = 1
    BY Pow2Facts
  <2>2. QED
    BY <2>1
<1>3. ASSUME NEW i \in 0..(XLen - 1)
      PROVE  f[i] \in Int /\ f[i] = g[i]
  <2>1. 1 * i = i
    OBVIOUS
  <2>2. f[i] = g[i]
    BY <1>2, <2>1 DEF BitTerms, Bit
  <2>3. f[i] \in Int
    BY <1>1, TermsAreNumbers
  <2>4. QED
    BY <2>2, <2>3
<1>4. Sum(g, XLen) = x % Pow2[1 * XLen]
  <2>1. 1 \in Nat \ {0}
    OBVIOUS
  <2>2. QED
    BY <1>1, <2>1, WordOfDigits
<1> HIDE DEF f, g
<1>5. Sum(f, XLen) = Sum(g, XLen)
  BY <1>1, <1>3, SumOfSame
<1>6. x % Pow2[1 * XLen] = x
  <2>1. 1 * XLen = XLen
    BY <1>1
  <2>2. x % Pow2[XLen] = x
    BY ToWordIsWord, WordIsNatural DEF ToWord
  <2>3. QED
    BY <2>1, <2>2
<1>7. QED
  BY <1>4, <1>5, <1>6 DEF f

LEMMA BitByBitIsSum ==
    ASSUME NEW op, NEW x, NEW y
    PROVE  BitByBit(op, x, y) = Sum(Terms(op, x, y), XLen)
BY DEF BitByBit, Terms

(* A bitwise operation makes a word of words.                              *)
LEMMA BitByBitIsWord ==
    ASSUME NEW x \in Word, NEW y \in Word, NEW op \in {"and", "or", "xor"}
    PROVE  BitByBit(op, x, y) \in Word
<1> DEFINE bit == [i \in 0..(XLen - 1) |-> BitOf(op, Bit(x, i), Bit(y, i))]
           f == Terms(op, x, y)
           g == [i \in 0..(XLen - 1) |-> bit[i] * Pow2[1 * i]]
<1>1. x \in Nat /\ y \in Nat /\ XLen \in Nat
  BY WordIsNatural, Widths
<1>2. Pow2[1] = 2
  <2>1. Pow2[0 + 1] = 2 * Pow2[0] /\ Pow2[0] = 1
    BY Pow2Facts
  <2>2. QED
    BY <2>1
<1>3. ASSUME NEW i \in 0..(XLen - 1)
      PROVE  bit[i] \in 0..(Pow2[1] - 1)
  <2>1. Bit(x, i) \in 0..1 /\ Bit(y, i) \in 0..1
    BY <1>1, TermsOf
  <2>2. bit[i] \in 0..1
    BY <2>1, BitOps
  <2>3. QED
    BY <1>2, <2>2
<1>4. ASSUME NEW i \in 0..(XLen - 1)
      PROVE  f[i] \in Int /\ f[i] = g[i]
  <2>1. 1 * i = i
    OBVIOUS
  <2>2. f[i] = g[i]
    BY <2>1 DEF Terms
  <2>3. f[i] \in Int
    BY <1>1, TermsAreNumbers
  <2>4. QED
    BY <2>2, <2>3
<1> HIDE DEF bit
<1>5. Sum(g, XLen) \in 0..(Pow2[1 * XLen] - 1)
  <2>1. 1 \in Nat \ {0}
    OBVIOUS
  <2>2. QED
    BY <1>1, <1>3, <2>1, DigitsMakeWord
<1> HIDE DEF f, g
<1>6. Sum(f, XLen) = Sum(g, XLen)
  BY <1>1, <1>4, SumOfSame
<1>7. 1 * XLen = XLen
  BY <1>1
<1>8. QED
  BY <1>5, <1>6, <1>7, BitByBitIsSum DEF f, Word

(* The conjunction and the disjunction add up to the sum, the exclusive    *)
(* disjunction is the difference between them, and the operands are in     *)
(* between.                                                                *)
LEMMA BitwiseFits ==
    ASSUME NEW x \in Word, NEW y \in Word
    PROVE  /\ BitByBit("and", x, y) + BitByBit("or", x, y) = x + y
           /\ BitByBit("or", x, y) = BitByBit("xor", x, y) + BitByBit("and", x, y)
           /\ BitByBit("and", x, y) <= x /\ BitByBit("and", x, y) <= y
           /\ x <= BitByBit("or", x, y) /\ y <= BitByBit("or", x, y)
<1> DEFINE n == XLen
           f == BitTerms(x)
           g == BitTerms(y)
           conj == Terms("and", x, y)
           disj == Terms("or", x, y)
           diff == Terms("xor", x, y)
           both == [i \in 0..(n - 1) |-> f[i] + g[i]]
<1>1. x \in Nat /\ y \in Nat /\ n \in Nat
  BY WordIsNatural, Widths
<1>2. \A i \in 0..(n - 1) :
         /\ f[i] \in Int /\ g[i] \in Int
         /\ conj[i] \in Int /\ disj[i] \in Int /\ diff[i] \in Int
         /\ conj[i] + disj[i] = f[i] + g[i] /\ disj[i] = diff[i] + conj[i]
         /\ conj[i] <= f[i] /\ conj[i] <= g[i] /\ f[i] <= disj[i] /\ g[i] <= disj[i]
  BY <1>1, TermsAreNumbers, TermsFit
<1>3. /\ Sum(f, n) = x /\ Sum(g, n) = y
      /\ Sum(conj, n) = BitByBit("and", x, y)
      /\ Sum(disj, n) = BitByBit("or", x, y)
      /\ Sum(diff, n) = BitByBit("xor", x, y)
  BY BitsMakeWord, BitByBitIsSum
<1>4. \A i \in 0..(n - 1) : both[i] = f[i] + g[i] /\ both[i] = conj[i] + disj[i]
  BY <1>2
<1> HIDE DEF n, f, g, conj, disj, diff, both
<1>5. Sum(both, n) = Sum(f, n) + Sum(g, n) /\ Sum(both, n) = Sum(conj, n) + Sum(disj, n)
  BY <1>1, <1>2, <1>4, SumOfSums
<1>6. Sum(disj, n) = Sum(diff, n) + Sum(conj, n)
  BY <1>1, <1>2, SumOfSums
<1>7. /\ Sum(conj, n) <= Sum(f, n) /\ Sum(conj, n) <= Sum(g, n)
      /\ Sum(f, n) <= Sum(disj, n) /\ Sum(g, n) <= Sum(disj, n)
  BY <1>1, <1>2, SumOfSmaller
<1>8. QED
  BY <1>3, <1>5, <1>6, <1>7

LEMMA DoublewordIsWord ==
    ASSUME BytesOK, NEW address \in Nat, InMemory(address, DOUBLE)
    PROVE  Doubleword(data, address) \in Word
<1>1. Number(BytesAt(data, address, DOUBLE), DOUBLE) \in 0..(Pow2[ByteBits * DOUBLE] - 1)
  BY Widths, NumberInRange
<1>2. QED
  BY <1>1 DEF Doubleword, memory_read, Word, XLen

LEMMA ValuesAreWords == \A v \in Values : v \in Word
BY BoundAssumption DEF Word, XLen

LEMMA AmoResults ==
    ASSUME NEW old, NEW src
    PROVE  /\ AmoResult("add", old, src) = ToWord(old + src)
           /\ AmoResult("swap", old, src) = src
           /\ \A op \in {"and", "or", "xor"} : AmoResult(op, old, src) = BitByBit(op, old, src)
           /\ AmoResult("min", old, src) =
                 IF Signed(src, DOUBLE) < Signed(old, DOUBLE) THEN src ELSE old
           /\ AmoResult("max", old, src) =
                 IF Signed(src, DOUBLE) > Signed(old, DOUBLE) THEN src ELSE old
           /\ AmoResult("minu", old, src) = IF src < old THEN src ELSE old
           /\ AmoResult("maxu", old, src) = IF src > old THEN src ELSE old
BY DEF AmoResult

LEMMA AmoResultIsWord ==
    ASSUME NEW old \in Word, NEW src \in Word, NEW op \in AmoOps
    PROVE  AmoResult(op, old, src) \in Word
<1>1. CASE op = "add"
  BY <1>1, AmoResults, WordIsNatural, ToWordIsWord
<1>2. CASE op \in {"and", "or", "xor"}
  BY <1>2, AmoResults, BitByBitIsWord
<1>3. CASE op \in {"swap", "min", "max", "minu", "maxu"}
  BY <1>3, AmoResults
<1>4. QED
  BY <1>1, <1>2, <1>3 DEF AmoOps

(* The signed values of words are numbers that tell them apart.            *)
LEMMA SignedTellsApart ==
    ASSUME NEW x \in Word, NEW y \in Word
    PROVE  /\ Signed(x, DOUBLE) \in Int /\ Signed(y, DOUBLE) \in Int
           /\ Signed(x, DOUBLE) = Signed(y, DOUBLE) => x = y
<1> DEFINE m == Pow2[XLen]
           h == Pow2[ByteBits * DOUBLE - 1]
<1>1. /\ m \in Nat \ {0} /\ x \in 0..(m - 1) /\ y \in 0..(m - 1)
      /\ m = Pow2[ByteBits * DOUBLE]
  BY Widths DEF Word, XLen
<1>2. \A w \in 0..(m - 1) : Signed(w, DOUBLE) = IF w < h THEN w ELSE w - m
  <2>1. \A w \in 0..(m - 1) : w % m = w
    BY <1>1
  <2>2. QED
    BY <1>1, <2>1 DEF Signed, Unsigned
<1> HIDE DEF m, h
<1>3. QED
  BY <1>1, <1>2

LEMMA OperandsInOrder ==
    ASSUME NEW old \in Word, NEW src \in Word
    PROVE  LET r(op) == AmoResult(op, old, src)
               value(x) == Signed(x, DOUBLE)
           IN  /\ {r("min"), r("max")} = {old, src}
               /\ value(r("min")) <= value(r("max"))
               /\ {r("minu"), r("maxu")} = {old, src}
               /\ r("minu") <= r("maxu")
<1>1. old \in Int /\ src \in Int
  BY WordIsNatural
<1>2. /\ Signed(src, DOUBLE) \in Int /\ Signed(old, DOUBLE) \in Int
      /\ Signed(src, DOUBLE) = Signed(old, DOUBLE) => src = old
  BY SignedTellsApart
<1>3. /\ {AmoResult("min", old, src), AmoResult("max", old, src)} = {old, src}
      /\ Signed(AmoResult("min", old, src), DOUBLE) <= Signed(AmoResult("max", old, src), DOUBLE)
  <2>1. CASE Signed(src, DOUBLE) < Signed(old, DOUBLE)
    BY <1>2, <2>1, AmoResults
  <2>2. CASE Signed(src, DOUBLE) > Signed(old, DOUBLE)
    BY <1>2, <2>2, AmoResults
  <2>3. CASE src = old
    BY <1>2, <2>3, AmoResults
  <2>4. QED
    BY <1>2, <2>1, <2>2, <2>3
<1>4. /\ {AmoResult("minu", old, src), AmoResult("maxu", old, src)} = {old, src}
      /\ AmoResult("minu", old, src) <= AmoResult("maxu", old, src)
  <2>1. CASE src < old
    BY <1>1, <2>1, AmoResults
  <2>2. CASE src > old
    BY <1>1, <2>2, AmoResults
  <2>3. CASE src = old
    BY <1>1, <2>3, AmoResults
  <2>4. QED
    BY <1>1, <2>1, <2>2, <2>3
<1>5. QED
  BY <1>3, <1>4

LEMMA BitwiseInOrder ==
    ASSUME NEW old \in Word, NEW src \in Word
    PROVE  LET r(op) == AmoResult(op, old, src)
           IN  /\ r("and") <= r("minu") /\ r("maxu") <= r("or")
               /\ r("xor") = r("or") - r("and")
               /\ r("add") = ToWord(r("or") + r("and"))
<1> DEFINE conj == BitByBit("and", old, src)
           disj == BitByBit("or", old, src)
           diff == BitByBit("xor", old, src)
<1>1. old \in Int /\ src \in Int /\ conj \in Int /\ disj \in Int /\ diff \in Int
  BY BitByBitIsWord, WordIsNatural
<1>2. /\ conj + disj = old + src /\ disj = diff + conj
      /\ conj <= old /\ conj <= src /\ old <= disj /\ src <= disj
  BY BitwiseFits
<1>3. /\ AmoResult("and", old, src) = conj /\ AmoResult("or", old, src) = disj
      /\ AmoResult("xor", old, src) = diff
      /\ AmoResult("add", old, src) = ToWord(old + src)
      /\ AmoResult("minu", old, src) \in {old, src} /\ AmoResult("maxu", old, src) \in {old, src}
  BY AmoResults
<1> HIDE DEF conj, disj, diff
<1>4. old + src = disj + conj
  BY <1>1, <1>2
<1>5. conj <= AmoResult("minu", old, src) /\ AmoResult("maxu", old, src) <= disj
  BY <1>2, <1>3
<1>6. diff = disj - conj
  BY <1>1, <1>2
<1>7. QED
  BY <1>3, <1>4, <1>5, <1>6

LEMMA AmosFit == BytesOK => AmosAgree
<1> SUFFICES ASSUME BytesOK, NEW a \in Addresses, NEW src \in Values, InMemory(a, DOUBLE),
                    NEW old, old = Doubleword(data, a)
             PROVE  LET r(op) == AmoResult(op, old, src)
                        value(x) == Signed(x, DOUBLE)
                    IN  /\ {r("min"), r("max")} = {old, src}
                        /\ value(r("min")) <= value(r("max"))
                        /\ {r("minu"), r("maxu")} = {old, src}
                        /\ r("minu") <= r("maxu")
                        /\ r("and") <= r("minu") /\ r("maxu") <= r("or")
                        /\ r("xor") = r("or") - r("and")
                        /\ r("add") = ToWord(r("or") + r("and"))
  BY DEF AmosAgree
<1>1. old \in Word /\ src \in Word
  BY Layout, DoublewordIsWord, ValuesAreWords
<1>2. QED
  BY <1>1, OperandsInOrder, BitwiseInOrder

-----------------------------------------------------------------------------
(* The loads.                                                              *)

LEMMA LoadSizes ==
    ASSUME NEW op \in Loads
    PROVE  /\ LoadSize(op) \in 1..DOUBLE
           /\ op \in {"LBU", "LHU"} => LoadSize(op) \in {BYTE, HALF}
<1>1. BYTE \in 1..DOUBLE /\ HALF \in 1..DOUBLE /\ WORD \in 1..DOUBLE /\ DOUBLE \in 1..DOUBLE
  BY LayoutAssumption
<1>2. /\ LoadSize("LB") = BYTE /\ LoadSize("LBU") = BYTE
      /\ LoadSize("LH") = HALF /\ LoadSize("LHU") = HALF
      /\ LoadSize("LW") = WORD /\ LoadSize("LD") = DOUBLE
  BY DEF LoadSize
<1>3. op \in {"LB", "LH", "LW", "LD", "LBU", "LHU"}
  BY DEF Loads
<1>4. QED
  BY <1>1, <1>2, <1>3

(* LBU is the byte.                                                        *)
LEMMA LbuIsByte ==
    ASSUME BytesOK, NEW address \in Nat, InMemory(address, 1)
    PROVE  Load("LBU", address) = data[address - Base]
<1> DEFINE b == data[address - Base]
           q == Pow2[ByteBits]
           f == [i \in 0..(1 - 1) |-> BytesAt(data, address, 1)[i] * Pow2[ByteBits * i]]
<1>1. b \in 0..(q - 1) /\ q \in Nat \ {0}
  <2>1. address - Base + 0 \in 0..(Size - 1) /\ address - Base + 0 = address - Base
    BY Layout DEF InMemory
  <2>2. data[address - Base] \in Byte
    BY <2>1 DEF BytesOK
  <2>3. QED
    BY <2>2, Widths DEF Byte
<1>2. f[0] = b
  <2>1. address - Base + 0 = address - Base /\ 0 \in 0..(1 - 1)
    BY Layout
  <2>2. BytesAt(data, address, 1)[0] = b
    BY <2>1 DEF BytesAt
  <2>3. ByteBits * 0 = 0 /\ Pow2[0] = 1
    BY Widths, Pow2Facts
  <2>4. f[0] = b * 1
    BY <2>1, <2>2, <2>3
  <2> HIDE DEF b, q
  <2>5. QED
    BY <1>1, <2>4
<1>3. Number(BytesAt(data, address, 1), 1) = b
  <2> HIDE DEF f, b, q
  <2>1. \A i \in 0..0 : f[i] \in Int
    BY <1>1, <1>2
  <2>2. Sum(f, 0 + 1) = Sum(f, 0) + f[0]
    BY <2>1, SumOfMore
  <2>3. Sum(f, 1) = b
    BY <1>1, <1>2, <2>2, SumOfNothing
  <2>4. QED
    BY <2>3 DEF f, Number
<1>4. Load("LBU", address) = b % q
  <2>1. BYTE = 1 /\ LoadSize("LBU") = 1
    BY LayoutAssumption DEF LoadSize
  <2>2. memory_read(data, address, 1, FALSE) = b
    BY <1>3 DEF memory_read
  <2>3. Load("LBU", address) = Unsigned(b, 1)
    BY <2>1, <2>2 DEF Load
  <2>4. ByteBits * 1 = ByteBits
    BY Widths
  <2>5. QED
    BY <2>3, <2>4 DEF Unsigned
<1> HIDE DEF b, q
<1>5. QED
  BY <1>1, <1>4 DEF b

LEMMA LbusAreBytes ==
    ASSUME BytesOK, NEW address \in Nat, NEW size \in Nat, InMemory(address, size)
    PROVE  [i \in 0..(size - 1) |-> Load("LBU", address + i)] = BytesAt(data, address, size)
<1>1. ASSUME NEW i \in 0..(size - 1)
      PROVE  Load("LBU", address + i) = data[address - Base + i]
  <2>1. address + i \in Nat /\ InMemory(address + i, 1) /\ (address + i) - Base = address - Base + i
    BY Layout DEF InMemory
  <2>2. QED
    BY <2>1, LbuIsByte
<1>2. QED
  BY <1>1 DEF BytesAt

(* A number of size bytes, signed, and what of it a register keeps.        *)
LEMMA SignedWidth ==
    ASSUME NEW size \in 1..DOUBLE
    PROVE  /\ ByteBits * size - 1 \in Nat
           /\ Pow2[ByteBits * size] = 2 * Pow2[ByteBits * size - 1]
           /\ Pow2[ByteBits * size - 1] \in Nat \ {0}
           /\ \E k \in Nat \ {0} : Pow2[XLen] = Pow2[ByteBits * size] * k
<1> DEFINE n == ByteBits * size - 1
<1>1. size \in Nat \ {0} /\ ByteBits * size \in Nat \ {0} /\ ByteBits * size <= XLen
  BY LayoutAssumption DEF XLen
<1>2. n \in Nat /\ ByteBits * size = n + 1 /\ XLen \in Nat
  BY <1>1, Widths
<1> HIDE DEF n
<1>3. Pow2[n + 1] = 2 * Pow2[n] /\ Pow2[n] \in Nat \ {0}
  BY <1>2, Pow2Facts
<1>4. \E k \in Nat \ {0} : Pow2[XLen] = Pow2[ByteBits * size] * k
  BY <1>1, <1>2, Pow2Divides
<1>5. QED
  BY <1>2, <1>3, <1>4 DEF n

LEMMA SignedOf ==
    ASSUME NEW size \in 1..DOUBLE, NEW x \in 0..(Pow2[ByteBits * size] - 1)
    PROVE  /\ Unsigned(x, size) = x
           /\ Signed(x, size) = IF x < Pow2[ByteBits * size - 1] THEN x
                                ELSE x - Pow2[ByteBits * size]
           /\ Signed(x, size) \in Int
<1> DEFINE p == Pow2[ByteBits * size]
<1>1. p \in Nat \ {0} /\ x \in 0..(p - 1)
  BY SignedWidth
<1>2. x % p = x
  <2> HIDE DEF p
  <2>1. QED
    BY <1>1
<1>3. QED
  BY <1>1, <1>2 DEF Signed, Unsigned

(* A register that holds the signed value still has its low bytes, and is  *)
(* that signed value.                                                      *)
LEMMA SignSurvives ==
    ASSUME NEW size \in 1..DOUBLE, NEW x \in 0..(Pow2[ByteBits * size] - 1)
    PROVE  /\ ToWord(Signed(x, size)) \in Word
           /\ Signed(ToWord(Signed(x, size)), size) = Signed(x, size)
           /\ Signed(ToWord(Signed(x, size)), DOUBLE) = Signed(x, size)
<1> DEFINE p == Pow2[ByteBits * size]
           h == Pow2[ByteBits * size - 1]
           m == Pow2[XLen]
           s == Signed(x, size)
           w == ToWord(s)
           g == Pow2[ByteBits * DOUBLE - 1]
<1>1. /\ p \in Nat \ {0} /\ h \in Nat \ {0} /\ p = 2 * h /\ x \in 0..(p - 1)
      /\ \E k \in Nat \ {0} : m = p * k
  BY SignedWidth
<1>2. m \in Nat \ {0} /\ g \in Nat \ {0} /\ m = 2 * g
  BY Widths, SignedWidth DEF XLen
<1>3. s = (IF x < h THEN x ELSE x - p) /\ s \in Int
  BY SignedOf
<1>4. w \in Word /\ w = s % m
  BY <1>3, ToWordIsWord DEF ToWord
<1>5. w % p = x % p
  <2> HIDE DEF p, h, m, s, w
  <2>1. (s % m) % p = s % p
    <3>1. \E k \in Nat : m = p * k
      BY <1>1
    <3>2. p \in Nat \ {0} /\ m \in Nat \ {0} /\ s \in Int
      BY <1>1, <1>2, <1>3
    <3>3. QED
      BY <3>1, <3>2, RemainderOfRemainder
  <2>2. \E k \in Int : s = x + p * k
    <3>1. s = x + p * 0 \/ s = x + p * (-1)
      BY <1>1, <1>3
    <3>2. QED
      BY <3>1
  <2>3. x \in Int
    BY <1>1
  <2>4. s % p = x % p
    BY <1>1, <1>3, <2>2, <2>3, SameRemainder
  <2>5. QED
    BY <1>4, <2>1, <2>4
<1>6. Signed(w, size) = s
  BY <1>5 DEF Signed, Unsigned
<1>7. m >= p
  <2> HIDE DEF p, m
  <2>1. PICK k \in Nat \ {0} : m = p * k
    BY <1>1
  <2>2. p * k >= p
    BY <1>1
  <2>3. QED
    BY <2>1, <2>2
<1>8. Signed(w, DOUBLE) = s
  <2>1. DOUBLE \in 1..DOUBLE /\ w \in 0..(Pow2[ByteBits * DOUBLE] - 1) /\ m = Pow2[ByteBits * DOUBLE]
    BY <1>4, Layout DEF Word, XLen
  <2>2. Signed(w, DOUBLE) = IF w < g THEN w ELSE w - m
    BY <2>1, SignedOf
  <2> HIDE DEF p, h, m, s, w, g
  <2>3. w = IF s >= 0 THEN s ELSE s + m
    <3>1. s < m /\ s >= 0 - m
      BY <1>1, <1>2, <1>3, <1>7
    <3>2. QED
      BY <1>2, <1>3, <1>4, <3>1
  <2>4. QED
    BY <1>1, <1>2, <1>3, <1>7, <2>2, <2>3
<1>9. QED
  BY <1>4, <1>6, <1>8

LEMMA LoadsFit == BytesOK => LoadsAgree
<1> SUFFICES ASSUME BytesOK, NEW op \in Loads, NEW a \in Base..(Base + Size - 1),
                    NEW size, size = LoadSize(op), InMemory(a, size),
                    NEW n, n = Number([i \in 0..(size - 1) |-> Load("LBU", a + i)], size)
             PROVE  IF op \in {"LBU", "LHU"} THEN Load(op, a) = n
                    ELSE Signed(Load(op, a), DOUBLE) = Signed(n, size)
  BY DEF LoadsAgree
<1>1. a \in Nat /\ size \in 1..DOUBLE /\ size \in Nat
  BY LoadSizes, Layout
<1>2. n = Number(BytesAt(data, a, size), size)
  BY <1>1, LbusAreBytes
<1>3. n \in 0..(Pow2[ByteBits * size] - 1)
  BY <1>1, <1>2, NumberInRange
<1>4. CASE op \in {"LBU", "LHU"}
  <2>1. memory_read(data, a, size, FALSE) = n
    BY <1>2 DEF memory_read
  <2>2. Load(op, a) = Unsigned(n, size)
    BY <1>4, <2>1 DEF Load
  <2>3. QED
    BY <1>1, <1>3, <1>4, <2>2, SignedOf
<1>5. CASE op \notin {"LBU", "LHU"}
  <2> DEFINE read == memory_read(data, a, size, TRUE)
  <2>1. read = n \/ read = ToWord(Signed(n, size))
    BY <1>2 DEF memory_read
  <2>2. Load(op, a) = ToWord(Signed(read, size))
    BY <1>5 DEF Load
  <2>3. Signed(read, size) = Signed(n, size)
    BY <1>1, <1>3, <2>1, SignSurvives
  <2>4. Signed(Load(op, a), DOUBLE) = Signed(n, size)
    BY <1>1, <1>3, <2>2, <2>3, SignSurvives
  <2>5. QED
    BY <1>5, <2>4
<1>6. QED
  BY <1>4, <1>5

-----------------------------------------------------------------------------
(* The count.                                                              *)

(* Whoever may still count with an SC found room when it did the LR: while *)
(* the reservation is on the counter nobody else can have used it up.      *)
Room == reserved = Counter /\ ~NobodyLoaded => counted < MaxCount

LEMMA Bounds == MaxCount \in Nat /\ MaxCount < Pow2[XLen] /\ Counter \notin Addresses /\ Counter # 0
BY LayoutAssumption, BoundAssumption, Widths

LEMMA TypesShape ==
    ASSUME TypeOK
    PROVE  /\ Shape /\ BytesOK
           /\ stack \in Seq(Activity) /\ Len(stack) \in Nat \ {0}
           /\ DOMAIN stack = 1..Len(stack) /\ Top \in Activity
<1>1. /\ stack \in Seq(Activity) /\ Len(stack) \in 1..MaxDepth /\ counted \in 0..MaxCount
      /\ data \in [0..(Size - 1) -> Byte]
  BY DEF TypeOK
<1>2. Len(stack) \in Nat \ {0} /\ DOMAIN stack = 1..Len(stack)
  BY <1>1
<1>3. Top \in Activity
  BY <1>1, <1>2 DEF Top
<1>4. DOMAIN data = 0..(Size - 1) /\ counted \in Nat
  BY <1>1
<1>5. QED
  BY <1>1, <1>2, <1>3, <1>4 DEF Shape, BytesOK

LEMMA OutsideIsActivity == Outside \in Activity
BY Widths DEF Outside, Activity, Word

LEMMA InitCounts == Init => TypeOK /\ Room
<1> SUFFICES ASSUME Init PROVE TypeOK /\ Room
  OBVIOUS
<1>1. data \in [0..(Size - 1) -> Byte]
  BY Widths DEF Init, Byte
<1>2. stack \in Seq(Activity) /\ Len(stack) = 1 /\ DOMAIN stack = {1} /\ stack[1] = Outside
  BY OutsideIsActivity DEF Init
<1>3. 1 \in 1..MaxDepth
  BY BoundAssumption
<1>4. reserved = 0 /\ counted = 0
  BY DEF Init
<1>5. TypeOK
  BY <1>1, <1>2, <1>3, <1>4, Bounds DEF TypeOK
<1>6. QED
  BY <1>4, <1>5, Bounds DEF Room

LEMMA RoomIsKept ==
    ASSUME TypeOK, Room, [Next]_vars
    PROVE  Room'
<1>l. /\ stack \in Seq(Activity) /\ Len(stack) \in Nat \ {0}
      /\ DOMAIN stack = 1..Len(stack)
  BY TypesShape
<1>1. CASE Interrupt
  <2>1. /\ DOMAIN stack' = 1..(Len(stack) + 1)
        /\ \A i \in DOMAIN stack : stack'[i] = stack[i]
        /\ stack'[Len(stack) + 1].at = "outside"
    BY <1>1, <1>l DEF Interrupt, Outside
  <2>2. NobodyLoaded => NobodyLoaded'
    BY <1>l, <2>1 DEF NobodyLoaded
  <2>3. QED
    BY <1>1, <2>2 DEF Room, Interrupt
<1>2. CASE Return
  <2>1. /\ DOMAIN stack' = 1..(Len(stack) - 1)
        /\ \A i \in DOMAIN stack' : stack'[i] = stack[i]
    BY <1>2, <1>l DEF Return
  <2>2. NobodyLoaded => NobodyLoaded'
    BY <1>l, <2>1 DEF NobodyLoaded
  <2>3. QED
    BY <1>2, <2>2 DEF Room, Return
<1>3. CASE CountLr
  BY <1>3 DEF CountLr, Room
<1>4. CASE CountSc
  BY <1>4, Bounds DEF CountSc, ScSucceeds, execute_sc, Room
<1>5. CASE CountAmo
  BY <1>5 DEF CountAmo, NobodyLoaded, Room
<1>6. ASSUME NEW a \in Addresses, OtherLr(a)
      PROVE  Room'
  BY <1>6, Bounds DEF OtherLr, execute_lr, Room
<1>7. ASSUME NEW a \in Addresses, NEW v, OtherSc(a, v)
      PROVE  Room'
  BY <1>7, Bounds DEF OtherSc, execute_sc, Room
<1>8. CASE UNCHANGED <<reserved, stack, counted>>
  BY <1>8 DEF Room, NobodyLoaded
<1>9. CASE Reset
  <2>1. stack' = <<Outside>>
    BY <1>9 DEF Reset
  <2>2. NobodyLoaded'
    BY <2>1 DEF NobodyLoaded, Outside
  <2>3. QED
    BY <2>2 DEF Room
<1>10. QED
  BY <1>1, <1>2, <1>3, <1>4, <1>5, <1>6, <1>7, <1>8, <1>9
     DEF Next, OtherAmo, Store, vars

(* What the steps do to the memory is to write bytes.                      *)
LEMMA AmoKeepsBytes ==
    ASSUME BytesOK, NEW address \in Nat, NEW op \in AmoOps, NEW src \in Word,
           execute_amo(op, address, src)
    PROVE  BytesOK'
<1>1. CASE InMemory(address, DOUBLE)
  <2>1. AmoResult(op, Doubleword(data, address), src) \in Word
    BY <1>1, DoublewordIsWord, AmoResultIsWord
  <2>2. QED
    BY <1>1, <2>1, WordIsNatural, WriteKeepsBytes, Layout DEF execute_amo, BytesOK
<1>2. CASE ~InMemory(address, DOUBLE)
  BY <1>2 DEF execute_amo, BytesOK
<1>3. QED
  BY <1>1, <1>2

LEMMA BytesAreKept ==
    ASSUME TypeOK, [Next]_vars
    PROVE  BytesOK'
<1>b. BytesOK /\ Top \in Activity
  BY TypesShape
<1>1. CASE UNCHANGED data
  BY <1>1, <1>b DEF BytesOK
<1>2. CASE CountSc
  <2>1. CASE ScSucceeds(Counter)
    <3>1. data' = memory_write(data, Counter, Top.value + 1, DOUBLE)
      BY <1>2, <2>1 DEF CountSc, execute_sc
    <3>2. Top.value + 1 \in Int
      BY <1>b, WordIsNatural DEF Activity
    <3>3. QED
      BY <1>b, <3>1, <3>2, WriteKeepsBytes, Layout DEF BytesOK
  <2>2. CASE ~ScSucceeds(Counter)
    BY <1>2, <1>b, <2>2 DEF CountSc, BytesOK
  <2>3. QED
    BY <2>1, <2>2
<1>3. CASE CountAmo
  <2>1. 1 \in Word
    <3>1. XLen \in Nat \ {0} /\ XLen < Pow2[XLen] /\ Pow2[XLen] \in Nat
      BY Widths, Pow2Exceeds
    <3>2. QED
      BY <3>1 DEF Word
  <2>2. QED
    BY <1>3, <1>b, <2>1, AmoKeepsBytes, Layout DEF CountAmo, AmoOps
<1>4. ASSUME NEW a \in Addresses, NEW v \in Values, OtherSc(a, v)
      PROVE  BytesOK'
  <2>1. a \in Nat /\ v \in Int /\ DOUBLE \in Nat
    BY Layout, ValuesAreWords, WordIsNatural
  <2>2. data' = memory_write(data, a, v, DOUBLE)
    BY <1>4 DEF OtherSc, execute_sc
  <2>3. QED
    BY <1>b, <2>1, <2>2, WriteKeepsBytes DEF BytesOK
<1>5. ASSUME NEW a \in Addresses, NEW v \in Values, NEW code, 
             OtherAmo(Decode(code[1], code[2]), a, v)
      PROVE  BytesOK'
  <2> DEFINE op == Decode(code[1], code[2])
  <2>1. op \in AmoOps
    BY <1>5, DecodedOps DEF OtherAmo
  <2> HIDE DEF op
  <2>2. a \in Nat /\ v \in Word
    BY Layout, ValuesAreWords
  <2>3. execute_amo(op, a, v)
    BY <1>5 DEF OtherAmo, op
  <2>4. QED
    BY <1>b, <2>1, <2>2, <2>3, AmoKeepsBytes
<1>6. ASSUME NEW a \in Addresses, NEW v \in Values, NEW s \in StoreSizes \cup {Illegal},
             Store(a, v, s)
      PROVE  BytesOK'
  <2>1. a \in Nat /\ v \in Int /\ s \in Nat
    BY Layout, LayoutAssumption, ValuesAreWords, WordIsNatural DEF StoreSizes, Illegal
  <2>2. data' = memory_write(data, a, v, s) \/ UNCHANGED data
    BY <1>6 DEF Store
  <2>3. CASE data' = memory_write(data, a, v, s)
    BY <1>b, <2>1, <2>3, WriteKeepsBytes DEF BytesOK
  <2>4. QED
    BY <1>1, <2>2, <2>3
<1>7. CASE Reset
  <2>1. CASE data' = [i \in 0..(Size - 1) |-> 0]
    BY <2>1, Widths DEF BytesOK, Byte
  <2>2. CASE data' = memory_write(data, Counter, 0, DOUBLE)
    <3>1. 0 \in Int /\ Counter \in Nat /\ DOUBLE \in Nat
      BY Layout
    <3>2. memory_write(data, Counter, 0, DOUBLE) \in [0..(Size - 1) -> Byte]
      BY <1>b, <3>1, WriteKeepsBytes
    <3>3. QED
      BY <2>2, <3>2 DEF BytesOK
  <2>3. QED
    BY <1>7, <2>1, <2>2 DEF Reset
<1>8. QED
  BY <1>1, <1>2, <1>3, <1>4, <1>5, <1>6, <1>7
     DEF Next, Interrupt, Return, CountLr, OtherLr, vars

LEMMA StackIsKept ==
    ASSUME TypeOK, [Next]_vars
    PROVE  stack' \in Seq(Activity) /\ Len(stack') \in 1..MaxDepth
<1>l. /\ stack \in Seq(Activity) /\ Len(stack) \in 1..MaxDepth
      /\ DOMAIN stack = 1..Len(stack) /\ Len(stack) \in Nat \ {0} /\ MaxDepth \in Nat \ {0}
  BY TypesShape, BoundAssumption DEF TypeOK
<1>b. ASSUME NEW activity \in Activity, Become(activity)
      PROVE  stack' \in Seq(Activity) /\ Len(stack') \in 1..MaxDepth
  BY <1>b, <1>l DEF Become
<1>1. CASE Interrupt
  BY <1>1, <1>l, OutsideIsActivity DEF Interrupt
<1>2. CASE Return
  BY <1>2, <1>l DEF Return
<1>3. CASE CountLr
  <2>1. [at |-> "loaded", value |-> Doubleword(data, Counter)] \in Activity
    BY TypesShape, DoublewordIsWord, Layout DEF Activity
  <2>2. QED
    BY <1>3, <1>b, <2>1 DEF CountLr
<1>4. CASE CountSc
  BY <1>4, <1>b, OutsideIsActivity DEF CountSc
<1>5. CASE UNCHANGED stack
  BY <1>5, <1>l
<1>6. CASE Reset
  <2>1. stack' = <<Outside>>
    BY <1>6 DEF Reset
  <2>2. QED
    BY <1>l, <2>1, OutsideIsActivity
<1>7. QED
  BY <1>1, <1>2, <1>3, <1>4, <1>5, <1>6
     DEF Next, CountAmo, OtherLr, OtherSc, OtherAmo, Store, vars

LEMMA TypeIsKept ==
    ASSUME TypeOK, Room, [Next]_vars
    PROVE  TypeOK'
<1>t. reserved \in Addresses \cup {0, Counter} /\ counted \in 0..MaxCount
  BY DEF TypeOK
<1>l. Len(stack) \in DOMAIN stack
  BY TypesShape
<1>1. reserved' \in Addresses \cup {0, Counter}
  BY <1>t DEF Next, Interrupt, Return, CountLr, CountSc, CountAmo, OtherLr, OtherSc, OtherAmo,
     Store, Reset, execute_lr, execute_sc, vars
<1>2. counted' \in 0..MaxCount
  <2>1. CASE CountSc
    <3>1. counted' = counted \/ (counted' = counted + 1 /\ reserved = Counter)
      BY <2>1 DEF CountSc, ScSucceeds
    <3>2. ~NobodyLoaded
      BY <1>l, <2>1 DEF CountSc, Top, NobodyLoaded
    <3>3. QED
      BY <1>t, <3>1, <3>2, Bounds DEF Room
  <2>2. CASE CountAmo
    BY <1>t, <2>2, Bounds DEF CountAmo
  <2>3. CASE UNCHANGED counted
    BY <1>t, <2>3
  <2>4. CASE Reset
    BY <2>4, Bounds DEF Reset
  <2>5. QED
    BY <2>1, <2>2, <2>3, <2>4
       DEF Next, Interrupt, Return, CountLr, OtherLr, OtherSc, OtherAmo, Store, vars
<1>3. QED
  BY <1>1, <1>2, BytesAreKept, StackIsKept DEF TypeOK, BytesOK

(* What was counted fits the counter, so that one more does not wrap.      *)
LEMMA NextCountFits ==
    ASSUME NEW n \in Nat, n < MaxCount
    PROVE  n + 1 \in Nat /\ ToWord(n + 1) = n + 1
<1>1. n + 1 \in Word
  BY Bounds, Widths DEF Word
<1>2. QED
  BY <1>1, ToWordIsWord

(* A memory that is cleared, and a counter that is.                        *)
LEMMA ZeroBytes ==
    /\ 0 \in Nat /\ ToWord(0) = 0
    /\ \A i \in Nat : ByteOf(0, i) = 0
<1>1. 0 \in Word /\ \A m \in Nat \ {0} : 0 % m = 0 /\ 0 \div m = 0
  BY Widths DEF Word
<1>2. ToWord(0) = 0
  BY <1>1, ToWordIsWord
<1>3. ASSUME NEW i \in Nat
      PROVE  ByteOf(0, i) = 0
  <2> DEFINE p == Pow2[ByteBits * i]
             q == Pow2[ByteBits]
  <2>1. p \in Nat \ {0} /\ q \in Nat \ {0}
    BY Widths
  <2> HIDE DEF p, q
  <2>2. 0 \div p = 0 /\ 0 % q = 0
    BY <1>1, <2>1
  <2>3. \A v \in Int : ByteOf(v, i) = (v \div p) % q
    BY DEF ByteOf, p, q
  <2>4. ByteOf(0, i) = (0 \div p) % q
    BY <2>3
  <2>5. QED
    BY <2>2, <2>4
<1>4. QED
  BY <1>2, <1>3

LEMMA ClearedMemory ==
    ASSUME NEW d, \A i \in 0..(Size - 1) : d[i] = 0
    PROVE  Doubleword(d, Counter) = 0
<1>1. ASSUME NEW i \in 0..(DOUBLE - 1)
      PROVE  d[Counter - Base + i] = ByteOf(0, i)
  <2>1. Counter - Base + i \in 0..(Size - 1) /\ i \in Nat
    BY Layout, ByteInMemory
  <2>2. QED
    BY <2>1, ZeroBytes
<1>2. \A v \in Nat :
         (\A i \in 0..(DOUBLE - 1) : d[Counter - Base + i] = ByteOf(v, i))
           => Number(BytesAt(d, Counter, DOUBLE), DOUBLE) = v % Pow2[ByteBits * DOUBLE]
  BY Layout, NumberOfBytes
<1>3. \A v \in Nat : ToWord(v) = v % Pow2[ByteBits * DOUBLE]
  BY DEF ToWord, XLen
<1>4. Number(BytesAt(d, Counter, DOUBLE), DOUBLE) = ToWord(0)
  <2>1. Number(BytesAt(d, Counter, DOUBLE), DOUBLE) = 0 % Pow2[ByteBits * DOUBLE]
    BY <1>1, <1>2
  <2>2. ToWord(0) = 0 % Pow2[ByteBits * DOUBLE]
    BY <1>3
  <2>3. QED
    BY <2>1, <2>2
<1>5. QED
  BY <1>4, ZeroBytes DEF Doubleword, memory_read

LEMMA InitCountsNothing == Init => NoLostCount
<1> SUFFICES ASSUME Init PROVE NoLostCount
  OBVIOUS
<1>1. /\ data = [i \in 0..(Size - 1) |-> 0] /\ counted = 0
      /\ Doubleword(data, Counter) = 0
  <2>1. data = [i \in 0..(Size - 1) |-> 0] /\ counted = 0
    BY DEF Init
  <2>2. QED
    BY <2>1, ClearedMemory
<1>2. QED
  BY <1>1 DEF NoLostCount

LEMMA CountIsKept ==
    ASSUME TypeOK, Room, ReservationIsFresh, NoLostCount, [Next]_vars
    PROVE  NoLostCount'
<1>b. /\ Shape /\ BytesOK /\ DOMAIN data = 0..(Size - 1) /\ counted \in Nat
      /\ Len(stack) \in Nat \ {0} /\ DOMAIN stack = 1..Len(stack)
  BY TypesShape DEF Shape
<1>c. Doubleword(data, Counter) = counted
  BY DEF NoLostCount
<1>1. CASE UNCHANGED <<data, counted>>
  BY <1>1, <1>c DEF NoLostCount
<1>2. CASE CountSc
  <2>1. CASE ScSucceeds(Counter)
    <3>1. /\ data' = memory_write(data, Counter, Top.value + 1, DOUBLE)
          /\ counted' = counted + 1 /\ reserved = Counter /\ Top.at = "loaded"
      BY <1>2, <2>1 DEF CountSc, execute_sc, ScSucceeds
    <3>2. Top.value = counted
      BY <1>b, <1>c, <3>1 DEF ReservationIsFresh, Top
    <3>3. counted < MaxCount
      BY <1>b, <3>1 DEF Room, NobodyLoaded, Top
    <3>4. counted + 1 \in Nat /\ ToWord(counted + 1) = counted + 1
      BY <1>b, <3>3, NextCountFits
    <3>5. Doubleword(memory_write(data, Counter, counted + 1, DOUBLE), Counter) = ToWord(counted + 1)
      BY <1>b, <3>4, WriteThenRead, Layout
    <3>6. QED
      BY <3>1, <3>2, <3>4, <3>5 DEF NoLostCount
  <2>2. CASE ~ScSucceeds(Counter)
    BY <1>1, <1>2, <2>2 DEF CountSc
  <2>3. QED
    BY <2>1, <2>2
<1>3. CASE CountAmo
  <2>1. /\ execute_amo("add", Counter, 1) /\ counted < MaxCount /\ counted' = counted + 1
    BY <1>3 DEF CountAmo
  <2>2. counted + 1 \in Nat /\ ToWord(counted + 1) = counted + 1
    BY <1>b, <2>1, NextCountFits
  <2>3. AmoResult("add", counted, 1) = counted + 1
    BY <2>2, AmoResults
  <2>4. data' = memory_write(data, Counter, counted + 1, DOUBLE)
    BY <1>c, <2>1, <2>3, Layout DEF execute_amo
  <2>5. Doubleword(memory_write(data, Counter, counted + 1, DOUBLE), Counter) = ToWord(counted + 1)
    BY <1>b, <2>2, WriteThenRead, Layout
  <2>6. QED
    BY <2>1, <2>2, <2>4, <2>5 DEF NoLostCount
<1>4. ASSUME NEW a \in Addresses, NEW v, OtherSc(a, v)
      PROVE  NoLostCount'
  <2>1. /\ Elsewhere(a, DOUBLE) /\ data' = memory_write(data, a, v, DOUBLE)
        /\ counted' = counted
    BY <1>4 DEF OtherSc, execute_sc
  <2>2. Doubleword(data', Counter) = Doubleword(data, Counter)
    BY <1>b, <2>1, CounterUntouched, Layout
  <2>3. QED
    BY <1>c, <2>1, <2>2 DEF NoLostCount
<1>5. ASSUME NEW a \in Addresses, NEW v, NEW op, OtherAmo(op, a, v)
      PROVE  NoLostCount'
  <2>1. Elsewhere(a, DOUBLE) /\ execute_amo(op, a, v) /\ counted' = counted
    BY <1>5 DEF OtherAmo
  <2>2. Doubleword(data', Counter) = Doubleword(data, Counter)
    BY <1>b, <2>1, CounterSurvivesAmo, Layout
  <2>3. QED
    BY <1>c, <2>1, <2>2 DEF NoLostCount
<1>6. ASSUME NEW a \in Addresses, NEW v, NEW s \in StoreSizes \cup {Illegal}, Store(a, v, s)
      PROVE  NoLostCount'
  <2>1. CASE UNCHANGED data
    BY <1>1, <1>6, <2>1 DEF Store
  <2>2. CASE Elsewhere(a, s) /\ data' = memory_write(data, a, v, s)
    <3>1. a \in Nat /\ s \in Nat /\ counted' = counted
      BY <1>6, LayoutAssumption DEF StoreSizes, Illegal, Store
    <3>2. Doubleword(data', Counter) = Doubleword(data, Counter)
      BY <1>b, <2>2, <3>1, CounterUntouched
    <3>3. QED
      BY <1>c, <3>1, <3>2 DEF NoLostCount
  <2>3. QED
    BY <1>6, <2>1, <2>2 DEF Store
<1>7. CASE Reset
  <2>1. Doubleword(data', Counter) = 0
    <3>1. CASE data' = [i \in 0..(Size - 1) |-> 0]
      BY <3>1, ClearedMemory
    <3>2. CASE data' = memory_write(data, Counter, 0, DOUBLE)
      <4>1. Doubleword(memory_write(data, Counter, 0, DOUBLE), Counter) = ToWord(0)
        BY <1>b, WriteThenRead, Layout
      <4>2. QED
        BY <3>2, <4>1, ZeroBytes
    <3>3. QED
      BY <1>7, <3>1, <3>2 DEF Reset
  <2>2. counted' = 0
    BY <1>7 DEF Reset
  <2>3. QED
    BY <2>1, <2>2 DEF NoLostCount
<1>8. QED
  BY <1>1, <1>2, <1>3, <1>4, <1>5, <1>6, <1>7
     DEF Next, Interrupt, Return, CountLr, OtherLr, vars

(* The reservation is fresh, there is room for whoever it belongs to, and  *)
(* the counter is what was counted: each step keeps all of it.             *)
CountInv == TypeOK /\ Room /\ ReservationIsFresh /\ NoLostCount

LEMMA CountInvHolds == Spec => []CountInv
<1>1. Init => CountInv
  BY InitCounts, InitFresh, InitCountsNothing DEF CountInv, IInv
<1>2. CountInv /\ [Next]_vars => CountInv'
  <2> SUFFICES ASSUME CountInv, [Next]_vars PROVE CountInv'
    OBVIOUS
  <2>1. TypeOK' /\ Room' /\ NoLostCount'
    BY TypeIsKept, RoomIsKept, CountIsKept DEF CountInv
  <2>2. ReservationIsFresh'
    BY StepKeepsFresh, TypesShape DEF CountInv, IInv
  <2>3. QED
    BY <2>1, <2>2 DEF CountInv
<1>3. QED
  BY <1>1, <1>2, PTL DEF Spec

(* The memory keeps bytes, the reservation is an address the guest used,   *)
(* and the guest is never told of more events than it may count: memory.c, *)
(* a_extension.c:8-23.                                                     *)
THEOREM TypeCorrect == Spec => []TypeOK
BY CountInvHolds, PTL DEF CountInv

(* The doubleword is the number of times the guest was told it had counted *)
(* (a_extension.c:8-23, 25-41), for every layout of the memory, every      *)
(* nesting of handlers and every other access: no event is lost.           *)
THEOREM NoCountIsLost == Spec => []NoLostCount
BY CountInvHolds, PTL DEF CountInv

(* The six loads agree on what the memory holds (memory.c:41-96,           *)
(* l_inst.c:25-55), whatever the widths and whatever was stored.           *)
THEOREM LoadsFitTogether == Spec => []LoadsAgree
<1>1. CountInv => LoadsAgree
  BY TypesShape, LoadsFit DEF CountInv
<1>2. QED
  BY <1>1, CountInvHolds, PTL

(* The read-modify-writes fit together (a_extension.c:25-141), whatever    *)
(* the operands: minimum and maximum are the operands in order, and the    *)
(* bit operations add up to the sum.                                       *)
THEOREM AmosFitTogether == Spec => []AmosAgree
<1>1. CountInv => AmosAgree
  BY TypesShape, AmosFit DEF CountInv
<1>2. QED
  BY <1>1, CountInvHolds, PTL

=============================================================================
