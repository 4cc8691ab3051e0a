------------------------------ MODULE AluProofs ------------------------------
(***************************************************************************)
(* The laws of the integer instructions, for registers of any width and    *)
(* any 32-bit forms of half of it or less: no bound on the operands.       *)
(***************************************************************************)
EXTENDS Alu, WordsProofs

(* Immediates and other signed numbers in the range of int64_t.            *)
Int64 == (-XSign)..(XSign - 1)
Int32 == (-WSign)..(WSign - 1)

LEMMA Spans ==
    /\ XSign \in Nat /\ XSign >= 2 /\ XSpan = 2 * XSign
    /\ WSign \in Nat /\ WSign >= 1 /\ WSpan = 2 * WSign
    /\ \E k \in Nat \ {0} : XSpan = WSpan * k
    /\ \E k \in Nat \ {0} : WSpan = WLen * k
<1> DEFINE x == XLen - 1
           w == WLen - 1
<1>1. x \in Nat /\ w \in Nat /\ x >= 1 /\ x + 1 = XLen /\ w + 1 = WLen
      /\ WLen \in Nat /\ XLen \in Nat /\ WLen <= XLen
  BY WidthAssumption
<1> HIDE DEF x, w
<1>2. Pow2[x + 1] = 2 * Pow2[x] /\ Pow2[w + 1] = 2 * Pow2[w]
      /\ Pow2[x] \in Nat /\ Pow2[w] \in Nat \ {0} /\ x < Pow2[x]
  BY <1>1, Pow2Facts, Pow2Exceeds
<1>3. \E k \in Nat \ {0} : Pow2[XLen] = Pow2[WLen] * k
  BY <1>1, Pow2Divides
<1>4. \E k \in Nat \ {0} : Pow2[WLen] = WLen * k
  <2>1. PICK l \in 0..WLen : WLen = Pow2[l]
    BY WidthAssumption
  <2>2. l \in Nat /\ l <= WLen
    BY <1>1, <2>1
  <2>3. \E k \in Nat \ {0} : Pow2[WLen] = Pow2[l] * k
    BY <1>1, <2>2, Pow2Divides
  <2>4. QED
    BY <2>1, <2>3
<1>5. XSign = Pow2[x] /\ WSign = Pow2[w]
  BY DEF XSign, WSign, x, w
<1>6. QED
  BY <1>1, <1>2, <1>3, <1>4, <1>5 DEF XSpan, WSpan

LEMMA SpansArePositive == XSpan \in Nat \ {0} /\ WSpan \in Nat \ {0}
BY Spans

-----------------------------------------------------------------------------
(* The conversions.                                                        *)

LEMMA ToWordIsWord == ASSUME NEW n \in Int PROVE ToWord(n) \in Word
BY Spans DEF ToWord, Word

LEMMA ToWordOfWord == ASSUME NEW x \in Word PROVE ToWord(x) = x /\ x \in Nat /\ x < XSpan
BY Spans DEF ToWord, Word

(* Adding the number of words changes nothing.                             *)
LEMMA ToWordWraps ==
    ASSUME NEW m \in Int, NEW n \in Int, \E k \in Int : m = n + XSpan * k
    PROVE  ToWord(m) = ToWord(n)
BY SpansArePositive, SameRemainder DEF ToWord

LEMMA LowWraps ==
    ASSUME NEW m \in Int, NEW n \in Int, \E k \in Int : m = n + WSpan * k
    PROVE  Low(m) = Low(n)
BY SpansArePositive, SameRemainder DEF Low

LEMMA SignedIsInt64 ==
    ASSUME NEW x \in Word
    PROVE  /\ Signed(x) \in Int64
           /\ ToWord(Signed(x)) = x
           /\ \E k \in {0, 1} : x = Signed(x) + XSpan * k
<1>1. x \in 0..(XSpan - 1) /\ XSpan = 2 * XSign /\ XSign \in Nat
  BY Spans DEF Word
<1>2. CASE x < XSign
  BY <1>1, <1>2, ToWordOfWord DEF Signed, Int64
<1>3. CASE x >= XSign
  <2>1. Signed(x) = x - XSpan
    BY <1>1, <1>3 DEF Signed
  <2>2. Signed(x) \in Int /\ x \in Int /\ Signed(x) = x + XSpan * (-1) /\ x = Signed(x) + XSpan * 1
    BY <1>1, <2>1
  <2>3. ToWord(Signed(x)) = ToWord(x)
    BY <2>2, ToWordWraps
  <2>4. QED
    BY <1>1, <1>3, <2>1, <2>2, <2>3, ToWordOfWord DEF Int64
<1>4. QED
  BY <1>1, <1>2, <1>3

LEMMA SignedOfToWord ==
    ASSUME NEW n \in Int64
    PROVE  Signed(ToWord(n)) = n
<1>1. n \in Int /\ XSpan = 2 * XSign /\ XSign \in Nat /\ XSign >= 2
  BY Spans DEF Int64
<1>2. CASE n >= 0
  <2>1. n \in Word
    BY <1>1, <1>2 DEF Int64, Word
  <2>2. QED
    BY <1>1, <1>2, <2>1, ToWordOfWord DEF Signed, Int64
<1>3. CASE n < 0
  <2>1. n + XSpan \in Word /\ n + XSpan >= XSign
    BY <1>1, <1>3 DEF Int64, Word
  <2> DEFINE m == n + XSpan
  <2>2. m \in Int /\ m = n + XSpan * 1
    BY <1>1
  <2> HIDE DEF m
  <2>3. ToWord(m) = ToWord(n)
    BY <1>1, <2>2, ToWordWraps
  <2>4. ToWord(n) = m /\ m >= XSign
    BY <2>1, <2>3, ToWordOfWord DEF m
  <2>5. QED
    BY <1>1, <2>2, <2>4 DEF Signed
<1>4. QED
  BY <1>1, <1>2, <1>3

LEMMA LowFacts ==
    ASSUME NEW n \in Int
    PROVE  /\ Low(n) \in 0..(WSpan - 1)
           /\ Low(Low(n)) = Low(n)
           /\ Low(ToWord(n)) = Low(n)
           /\ SignedLow(n) \in Int32
           /\ Low(SignedLow(n)) = Low(n)
<1>1. WSpan \in Nat \ {0} /\ XSpan \in Nat \ {0} /\ WSpan = 2 * WSign /\ WSign \in Nat
  BY Spans
<1>2. Low(n) \in 0..(WSpan - 1)
  BY <1>1, DivisionOf DEF Low
<1>3. Low(Low(n)) = Low(n)
  <2> DEFINE l == Low(n)
  <2>1. l \in 0..(WSpan - 1)
    BY <1>2
  <2> HIDE DEF l
  <2>2. Low(l) = l
    BY <1>1, <2>1 DEF Low
  <2>3. QED
    BY <2>2 DEF l
<1>4. Low(ToWord(n)) = Low(n)
  <2>1. \E k \in Nat : XSpan = WSpan * k
    BY Spans
  <2>2. QED
    BY <1>1, <2>1, RemainderOfRemainder DEF Low, ToWord
<1>5. SignedLow(n) \in Int32
  BY <1>1, <1>2 DEF SignedLow, Int32
<1>6. Low(SignedLow(n)) = Low(n)
  <2> DEFINE l == Low(n)
  <2>1. l \in 0..(WSpan - 1) /\ l \in Int /\ Low(l) = l
    BY <1>1, <1>2, <1>3
  <2>2. SignedLow(n) = l \/ SignedLow(n) = l - WSpan
    BY DEF SignedLow
  <2> HIDE DEF l
  <2>3. Low(l - WSpan) = Low(l)
    <3>1. l - WSpan \in Int /\ l - WSpan = l + WSpan * (-1)
      BY <1>1, <2>1
    <3>2. QED
      BY <2>1, <3>1, LowWraps
  <2>4. QED
    BY <2>1, <2>2, <2>3 DEF l
<1>7. QED
  BY <1>2, <1>3, <1>4, <1>5, <1>6

(* What depends on the low half only.                                      *)
LEMMA SignExtendOfLow ==
    ASSUME NEW m \in Int, NEW n \in Int, Low(m) = Low(n)
    PROVE  SignedLow(m) = SignedLow(n) /\ SignExtend(m) = SignExtend(n)
BY DEF SignedLow, SignExtend

LEMMA SignExtendFacts ==
    ASSUME NEW n \in Int
    PROVE  /\ SignExtend(n) \in Word
           /\ SignExtend(SignExtend(n)) = SignExtend(n)
           /\ SignedLow(Low(n)) = SignedLow(n)
<1>1. SignedLow(n) \in Int /\ Low(SignedLow(n)) = Low(n)
  BY LowFacts, Spans DEF Int32
<1>2. SignExtend(n) \in Word /\ SignExtend(n) \in Int
  BY <1>1, ToWordIsWord, Spans DEF SignExtend, Word
<1>3. Low(SignExtend(n)) = Low(n)
  BY <1>1, LowFacts DEF SignExtend
<1>4. Low(n) \in Int /\ Low(Low(n)) = Low(n)
  BY LowFacts, Spans
<1>5. QED
  BY <1>2, <1>3, <1>4, SignExtendOfLow

-----------------------------------------------------------------------------
(* C division: towards zero, and the remainder with the dividend's sign.   *)

LEMMA MagnitudeFacts ==
    ASSUME NEW n \in Int
    PROVE  Magnitude(n) \in Nat /\ (n # 0 => Magnitude(n) # 0)
BY DEF Magnitude

LEMMA Truncation ==
    ASSUME NEW n \in Int, NEW d \in Int \ {0}
    PROVE  /\ Quotient(n, d) \in Int /\ Remainder(n, d) \in Int
           /\ n = d * Quotient(n, d) + Remainder(n, d)
           /\ Magnitude(Remainder(n, d)) < Magnitude(d)
           /\ Remainder(n, d) * n >= 0
           /\ Magnitude(Remainder(n, d)) <= Magnitude(n)
<1> DEFINE a == Magnitude(n)
           b == Magnitude(d)
           q == a \div b
           r == a % b
           Q == Quotient(n, d)
           R == Remainder(n, d)
<1>1. a \in Nat /\ b \in Nat \ {0}
  BY MagnitudeFacts
<1>2. q \in Nat /\ r \in 0..(b - 1) /\ a = b * q + r
  <2> HIDE DEF a, b
  <2>1. a \div b \in Nat
    BY <1>1
  <2>2. QED
    BY <1>1, <2>1, DivisionOf
<1>3. Q = (IF (n < 0) = (d < 0) THEN q ELSE -q) /\ R = n - d * Q
  BY DEF Quotient, Remainder
<1>4. a = (IF n < 0 THEN -n ELSE n) /\ b = (IF d < 0 THEN -d ELSE d)
  BY DEF Magnitude
<1> HIDE DEF a, b, q, r, Q, R
<1>5. b * q \in Nat /\ r <= a
  BY <1>1, <1>2
<1>6. d * Q = IF n < 0 THEN -(b * q) ELSE b * q
  <2>1. CASE n < 0 /\ d < 0
    BY <1>1, <1>2, <1>3, <1>4, <2>1
  <2>2. CASE n < 0 /\ ~(d < 0)
    BY <1>1, <1>2, <1>3, <1>4, <2>2
  <2>3. CASE ~(n < 0) /\ d < 0
    BY <1>1, <1>2, <1>3, <1>4, <2>3
  <2>4. CASE ~(n < 0) /\ ~(d < 0)
    BY <1>1, <1>2, <1>3, <1>4, <2>4
  <2>5. QED
    BY <2>1, <2>2, <2>3, <2>4
<1>7. R = (IF n < 0 THEN -r ELSE r) /\ Q \in Int
  BY <1>1, <1>2, <1>3, <1>4, <1>5, <1>6
<1>8. Magnitude(R) = r /\ R \in Int
  BY <1>2, <1>7 DEF Magnitude
<1>9. R * n >= 0
  BY <1>2, <1>7
<1>10. n = d * Q + R
  BY <1>1, <1>2, <1>4, <1>6, <1>7
<1>11. Q \in Int /\ R \in Int /\ n = d * Q + R /\ Magnitude(R) < b /\ Magnitude(R) <= a
  BY <1>1, <1>2, <1>5, <1>7, <1>8, <1>10
<1>12. QED
  BY <1>9, <1>11, Zenon DEF a, b, Q, R

-----------------------------------------------------------------------------
(* Every instruction leaves a word.                                        *)

LEMMA ShiftsArePowers ==
    ASSUME NEW y \in Int
    PROVE  Pow2[ShiftAmount(y)] \in Nat \ {0} /\ Pow2[ShiftAmountW(y)] \in Nat \ {0}
<1>1. XLen \in Nat \ {0} /\ WLen \in Nat \ {0}
  BY WidthAssumption
<1>2. ShiftAmount(y) \in Nat /\ ShiftAmountW(y) \in Nat
  BY <1>1, DivisionOf DEF ShiftAmount, ShiftAmountW
<1>3. QED
  BY <1>2, Pow2Facts

(* A quotient of naturals is no larger than the dividend.                  *)
LEMMA QuotientIsSmaller ==
    ASSUME NEW n \in Nat, NEW d \in Nat \ {0}
    PROVE  n \div d \in Nat /\ n \div d <= n
<1> DEFINE q == n \div d
           r == n % d
<1>1. q \in Int /\ r \in 0..(d - 1) /\ n = d * q + r
  BY DivisionOf
<1>2. q >= 0
  OBVIOUS
<1> HIDE DEF q, r
<1>3. q <= d * q
  BY <1>1, <1>2
<1>4. q \in Nat /\ q <= n
  BY <1>1, <1>2, <1>3
<1>5. QED
  BY <1>4 DEF q

LEMMA WordFacts ==
    /\ Word \subseteq Nat /\ 0 \in Word /\ 1 \in Word
    /\ \A x \in Word, n \in Nat : n <= x => n \in Word
BY Spans DEF Word

LEMMA RTypeResults ==
    ASSUME NEW x \in Word, NEW y \in Int
    PROVE  {Add(x, y), Sub(x, y), Slt(x, y), Sltu(x, y), Sll(x, y), Srl(x, y), Sra(x, y),
            Slti(x, y), Sltiu(x, y)} \subseteq Word
<1>1. x \in Nat /\ Signed(x) \in Int
  BY WordFacts, SignedIsInt64, Spans DEF Int64
<1> DEFINE p == Pow2[ShiftAmount(y)]
<1>2. p \in Nat \ {0}
  BY ShiftsArePowers
<1>3. Add(x, y) \in Word /\ Sub(x, y) \in Word
  BY <1>1, ToWordIsWord DEF Add, Sub
<1>4. {Slt(x, y), Sltu(x, y), Slti(x, y), Sltiu(x, y)} \subseteq Word
  BY WordFacts DEF Slt, Sltu, Slti, Sltiu
<1>5. Sll(x, y) = ToWord(x * p) /\ Srl(x, y) = x \div p /\ Sra(x, y) = ToWord(Signed(x) \div p)
  BY DEF Sll, Srl, Sra
<1> HIDE DEF p
<1>6. x * p \in Int /\ Signed(x) \div p \in Int
  BY <1>1, <1>2, DivisionOf
<1>7. x \div p \in Word
  BY <1>1, <1>2, QuotientIsSmaller, WordFacts
<1>8. QED
  BY <1>3, <1>4, <1>5, <1>6, <1>7, ToWordIsWord

(* A product, divided by the number of words, fits a word again.           *)
LEMMA HighHalves ==
    ASSUME NEW x \in Word, NEW y \in Word
    PROVE  /\ Signed(x) * Signed(y) \in Int
           /\ (Signed(x) * Signed(y)) \div XSpan \in Int64
           /\ Signed(x) * y \in Int
           /\ (Signed(x) * y) \div XSpan \in Int64
           /\ x * y \in Nat
           /\ (x * y) \div XSpan \in Word
<1> DEFINE X == Signed(x)
           Y == Signed(y)
           s == XSign
           m == XSpan
<1>1. /\ s \in Nat /\ s >= 2 /\ m = 2 * s
      /\ X \in (-s)..(s - 1) /\ Y \in (-s)..(s - 1)
      /\ x \in 0..(m - 1) /\ y \in 0..(m - 1)
  BY Spans, SignedIsInt64 DEF Int64, Word
<1> HIDE DEF X, Y, s, m
\* What lies between -s * m and s * m has a quotient between -s and s - 1.
<1>2. ASSUME NEW p \in Int, (-s) * m <= p, p < s * m
      PROVE  p \div m \in (-s)..(s - 1)
  <2> DEFINE q == p \div m
             r == p % m
  <2>1. m \in Nat \ {0}
    BY <1>1
  <2>2. q \in Int /\ r \in 0..(m - 1) /\ p = m * q + r
    BY <2>1, DivisionOf
  <2> HIDE DEF q, r
  <2>3. q < s
    <3>1. SUFFICES ASSUME q >= s PROVE FALSE
      BY <1>1, <2>2
    <3>2. m * q >= m * s
      BY <1>1, <2>1, <2>2, <3>1
    <3>3. QED
      BY <1>1, <1>2, <2>2, <3>2
  <2>4. q >= -s
    <3>1. SUFFICES ASSUME q <= -s - 1 PROVE FALSE
      BY <1>1, <2>2
    <3>2. m * q <= m * (-s - 1)
      BY <1>1, <2>1, <2>2, <3>1
    <3>3. QED
      BY <1>1, <1>2, <2>2, <3>2
  <2>5. q \in (-s)..(s - 1)
    BY <1>1, <2>2, <2>3, <2>4
  <2>6. QED
    BY <2>5 DEF q
<1>3. X * Y \in Int /\ (-s) * m <= X * Y /\ X * Y < s * m
  <2>1. X * Y <= s * s /\ -(s * s) <= X * Y
    BY <1>1
  <2>2. s * m = 2 * (s * s) /\ (-s) * m = -(2 * (s * s)) /\ s * s > 0
    BY <1>1
  <2>3. QED
    BY <1>1, <2>1, <2>2
<1>4. X * y \in Int /\ (-s) * m <= X * y /\ X * y < s * m
  <2>1. X * y <= s * y /\ (-s) * y <= X * y
    BY <1>1
  <2>2. s * y < s * m /\ (-s) * m <= (-s) * y
    BY <1>1
  <2>3. QED
    BY <1>1, <2>1, <2>2
<1>5. x * y \in Nat /\ (x * y) \div m \in 0..(m - 1)
  <2> DEFINE p == x * y
             q == p \div m
             r == p % m
  <2>1. m \in Nat \ {0} /\ p \in Nat
    BY <1>1
  <2>2. x * y <= x * m /\ (x = 0 \/ x * y < x * m) /\ x * m <= m * m
    BY <1>1
  <2>3. p < m * m
    BY <1>1, <2>1, <2>2
  <2> HIDE DEF p
  <2>4. q \in Int /\ r \in 0..(m - 1) /\ p = m * q + r /\ q \in Nat
    <3>1. q \in Nat
      BY <2>1, QuotientIsSmaller
    <3>2. q \in Int /\ r \in 0..(m - 1) /\ p = m * q + r
      BY <2>1, DivisionOf
    <3>3. QED
      BY <3>1, <3>2
  <2> HIDE DEF q, r
  <2>5. q < m
    <3>1. SUFFICES ASSUME q >= m PROVE FALSE
      BY <2>1, <2>4
    <3>2. m * q >= m * m
      BY <2>1, <2>4, <3>1
    <3>3. QED
      BY <2>1, <2>3, <2>4, <3>2
  <2>6. QED
    BY <2>1, <2>4, <2>5 DEF p, q
<1>6. (X * Y) \div m \in (-s)..(s - 1) /\ (X * y) \div m \in (-s)..(s - 1)
  BY <1>2, <1>3, <1>4
<1>7. QED
  BY <1>3, <1>4, <1>5, <1>6 DEF X, Y, s, m, Int64, Word

LEMMA MExtensionResults ==
    ASSUME NEW x \in Word, NEW y \in Word
    PROVE  {Mul(x, y), Mulh(x, y), Mulhsu(x, y), Mulhu(x, y),
            Div(x, y), Divu(x, y), Rem(x, y), Remu(x, y)} \subseteq Word
<1>1. x \in Nat /\ y \in Nat /\ Signed(x) \in Int /\ Signed(y) \in Int /\ Int64 \subseteq Int
  BY WordFacts, SignedIsInt64, Spans DEF Int64
<1>2. {Mul(x, y), Mulh(x, y), Mulhsu(x, y), Mulhu(x, y)} \subseteq Word
  BY <1>1, HighHalves, ToWordIsWord DEF Mul, Mulh, Mulhsu, Mulhu
<1>3. y # 0 => Signed(y) # 0
  BY <1>1, Spans DEF Signed, Word
<1>4. y # 0 => /\ ToWord(Quotient(Signed(x), Signed(y))) \in Word
               /\ ToWord(Remainder(Signed(x), Signed(y))) \in Word
  BY <1>1, <1>3, Truncation, ToWordIsWord
<1>5. {Div(x, y), Rem(x, y)} \subseteq Word
  BY <1>4, ToWordIsWord, WordFacts DEF Div, Rem
<1>6. y # 0 => x \div y \in Word /\ x % y \in Word
  <2> SUFFICES ASSUME y # 0 PROVE x \div y \in Word /\ x % y \in Word
    OBVIOUS
  <2>1. x \div y \in Nat /\ x \div y <= x
    BY <1>1, QuotientIsSmaller
  <2>2. x % y \in Nat /\ x % y <= y
    BY <1>1, DivisionOf
  <2>3. QED
    BY <2>1, <2>2, WordFacts
<1>7. {Divu(x, y), Remu(x, y)} \subseteq Word
  BY <1>6, ToWordIsWord DEF Divu, Remu
<1>8. QED
  BY <1>2, <1>5, <1>7

LEMMA LowIsWord ==
    ASSUME NEW n \in Int
    PROVE  Low(n) \in Nat /\ Low(n) \in Word
<1>1. WSpan \in Nat \ {0} /\ XSpan \in Nat /\ WSpan <= XSpan
  BY Spans
<1>2. QED
  BY <1>1, LowFacts DEF Word

LEMMA RType32Results ==
    ASSUME NEW x \in Word, NEW y \in Int
    PROVE  {Addw(x, y), Subw(x, y), Sllw(x, y), Srlw(x, y), Sraw(x, y), Mulw(x, y),
            Divw(x, y), Divuw(x, y), Remw(x, y), Remuw(x, y)} \subseteq Word
<1>1. x \in Int /\ \A n \in Int : SignExtend(n) \in Word /\ SignedLow(n) \in Int /\ Low(n) \in Nat
  BY WordFacts, SignExtendFacts, LowFacts, LowIsWord, Spans DEF Int32
<1>2. {Addw(x, y), Subw(x, y), Mulw(x, y)} \subseteq Word
  BY <1>1 DEF Addw, Subw, Mulw
<1>3. {Sllw(x, y), Srlw(x, y), Sraw(x, y)} \subseteq Word
  <2> DEFINE p == Pow2[ShiftAmountW(y)]
  <2>1. p \in Nat \ {0}
    BY ShiftsArePowers
  <2>2. Sllw(x, y) = SignExtend(x * p) /\ Srlw(x, y) = SignExtend(Low(x) \div p)
        /\ Sraw(x, y) = SignExtend(SignedLow(x) \div p)
    BY DEF Sllw, Srlw, Sraw
  <2> HIDE DEF p
  <2>3. x * p \in Int /\ Low(x) \div p \in Int /\ SignedLow(x) \div p \in Int
    BY <1>1, <2>1, DivisionOf
  <2>4. QED
    BY <1>1, <2>2, <2>3
<1>4. Low(y) # 0 => SignedLow(y) # 0
  BY LowFacts, Spans DEF SignedLow
<1>5. {Divw(x, y), Remw(x, y)} \subseteq Word
  <2>1. Low(y) # 0 => /\ SignExtend(Quotient(SignedLow(x), SignedLow(y))) \in Word
                      /\ SignExtend(Remainder(SignedLow(x), SignedLow(y))) \in Word
    BY <1>1, <1>4, Truncation
  <2>2. ToWord(-1) \in Word
    BY ToWordIsWord
  <2>3. QED
    BY <1>1, <2>1, <2>2, WordFacts DEF Divw, Remw
<1>6. {Divuw(x, y), Remuw(x, y)} \subseteq Word
  <2>1. WSpan - 1 \in Word
    <3>1. WSpan \in Nat \ {0} /\ XSpan \in Nat /\ WSpan <= XSpan
      BY Spans
    <3>2. QED
      BY <3>1 DEF Word
  <2>2. Low(x) \in Word
    BY <1>1, LowIsWord
  <2> DEFINE a == Low(x)
             b == Low(y)
  <2>3. a \in Nat /\ b \in Nat /\ a \in Word /\ b \in Word
    BY <1>1, LowIsWord
  <2>4. Divuw(x, y) = (IF b = 0 THEN WSpan - 1 ELSE a \div b)
        /\ Remuw(x, y) = IF b = 0 THEN a ELSE a % b
    BY DEF Divuw, Remuw
  <2> HIDE DEF a, b
  <2>5. b # 0 => a \div b \in Word /\ a % b \in Word
    <3> SUFFICES ASSUME b # 0 PROVE a \div b \in Word /\ a % b \in Word
      OBVIOUS
    <3>1. a \div b \in Nat /\ a \div b <= a
      BY <2>3, QuotientIsSmaller
    <3>2. a % b \in Nat /\ a % b <= b
      BY <2>3, DivisionOf
    <3>3. QED
      BY <2>3, <3>1, <3>2, WordFacts
  <2>6. QED
    BY <2>1, <2>3, <2>4, <2>5
<1>7. QED
  BY <1>2, <1>3, <1>5, <1>6

(* Registers hold words and nothing else, and x0 holds zero, whatever      *)
(* instruction names it as its destination.                                *)
THEOREM TypeCorrect == Spec => []TypeOK
<1>1. Init => TypeOK
  BY WordFacts, OperandAssumption DEF Init, TypeOK
<1>2. TypeOK /\ [Next]_registers => TypeOK'
  <2> SUFFICES ASSUME TypeOK, Next PROVE TypeOK'
    BY DEF TypeOK
  <2>1. ASSUME NEW rd, NEW v \in Word, Write(rd, v) PROVE TypeOK'
    BY <2>1, WordFacts, OperandAssumption DEF Write, TypeOK
  <2>2. PICK op \in Operands :
          LET x == registers[op[2]]
              y == registers[op[3]]
          IN  \/ RType(op[1], x, y)
              \/ MExtension(op[1], x, y)
              \/ RType32(op[1], x, y)
              \/ \E imm \in Immediates : IType(op[1], x, imm) \/ IType32(op[1], x, imm)
    BY DEF Next
  <2> DEFINE rd == op[1]
             x == registers[op[2]]
             y == registers[op[3]]
  <2>3. rd \in Regs /\ x \in Word /\ y \in Word /\ y \in Int
    <3>1. op[1] \in Regs /\ op[2] \in Regs /\ op[3] \in Regs
      BY OperandAssumption
    <3>2. \A r \in Regs : registers[r] \in Word
      BY DEF TypeOK
    <3>3. \A w \in Word : w \in Int
      BY WordFacts
    <3>4. QED
      BY <3>1, <3>2, <3>3
  <2> HIDE DEF rd, x, y
  <2>4. CASE RType(rd, x, y)
    BY <2>1, <2>3, <2>4, RTypeResults DEF RType
  <2>5. CASE MExtension(rd, x, y)
    BY <2>1, <2>3, <2>5, MExtensionResults DEF MExtension
  <2>6. CASE RType32(rd, x, y)
    BY <2>1, <2>3, <2>6, RType32Results DEF RType32
  <2>7. ASSUME NEW imm \in Immediates, IType(rd, x, imm)
        PROVE  TypeOK'
    <3>1. imm \in Int /\ registers[rd] \in Word
      BY <2>3, OperandAssumption DEF TypeOK
    <3>2. \A masked \in Masked :
            ShiftRightImmediate(masked, x, imm, registers[rd]) \in Word
      BY <2>3, <3>1, RTypeResults DEF ShiftRightImmediate
    <3>3. QED
      BY <2>1, <2>3, <2>7, <3>1, <3>2, RTypeResults DEF IType
  <2>8. ASSUME NEW imm \in Immediates, IType32(rd, x, imm)
        PROVE  TypeOK'
    <3>1. imm \in Int
      BY OperandAssumption
    <3>2. QED
      BY <2>1, <2>3, <2>8, <3>1, RType32Results DEF IType32
  <2>9. QED
    BY <2>2, <2>4, <2>5, <2>6, <2>7, <2>8 DEF rd, x, y
<1>3. QED
  BY <1>1, <1>2, PTL DEF Spec

-----------------------------------------------------------------------------
(* Division.                                                               *)

(* Arithmetic on words is arithmetic on what they stand for.               *)
LEMMA WordProduct ==
    ASSUME NEW a \in Int, NEW b \in Int
    PROVE  ToWord(ToWord(a) * ToWord(b)) = ToWord(a * b)
BY SpansArePositive, RemainderOfProduct DEF ToWord

LEMMA WordSum ==
    ASSUME NEW a \in Int, NEW b \in Int
    PROVE  ToWord(ToWord(a) + ToWord(b)) = ToWord(a + b)
BY SpansArePositive, RemainderOfSum DEF ToWord

LEMMA WordArithmetic ==
    ASSUME NEW a \in Int, NEW b \in Int, NEW c \in Int
    PROVE  ToWord(ToWord(a) * ToWord(b) + ToWord(c)) = ToWord(a * b + c)
<1> DEFINE p == a * b
           u == ToWord(a) * ToWord(b)
           w == ToWord(c)
<1>1. p \in Int /\ u \in Int /\ w \in Int
  BY SpansArePositive DEF ToWord
<1>2. ToWord(u) = ToWord(p)
  BY WordProduct
<1>3. ToWord(w) = ToWord(c)
  BY ToWordIsWord, ToWordOfWord
<1> HIDE DEF p, u, w
<1>4. ToWord(u + w) = ToWord(ToWord(u) + ToWord(w))
  BY <1>1, WordSum
<1>5. ToWord(p + c) = ToWord(ToWord(p) + ToWord(c))
  BY <1>1, WordSum
<1>6. ToWord(u + w) = ToWord(p + c)
  BY <1>2, <1>3, <1>4, <1>5
<1>7. QED
  BY <1>6 DEF p, u, w

LEMMA SignedIsZero == ASSUME NEW y \in Word PROVE Signed(y) = 0 <=> y = 0
BY Spans DEF Signed, Word

LEMMA SignedDivision ==
    ASSUME NEW x \in Word, NEW y \in Word
    PROVE  /\ ToWord(Div(x, y) * y + Rem(x, y)) = x
           /\ y # 0 => /\ Magnitude(Signed(Rem(x, y))) < Magnitude(Signed(y))
                       /\ Signed(Rem(x, y)) * Signed(x) >= 0
<1> DEFINE X == Signed(x)
           Y == Signed(y)
<1>1. /\ X \in Int64 /\ Y \in Int64 /\ ToWord(X) = x /\ ToWord(Y) = y
      /\ X \in Int /\ Y \in Int /\ (Y = 0 <=> y = 0)
  BY SignedIsInt64, SignedIsZero, Spans DEF Int64
<1>2. CASE y = 0
  <2>1. Div(x, y) = ToWord(-1) /\ Rem(x, y) = x
    BY <1>2 DEF Div, Rem
  <2>2. ToWord(-1) * 0 + x = x
    BY SpansArePositive, WordFacts DEF ToWord
  <2>3. QED
    BY <1>2, <2>1, <2>2, ToWordOfWord
<1>3. CASE y # 0 /\ X = MostNegative /\ Y = -1
  <2>1. Div(x, y) = x /\ Rem(x, y) = 0
    BY <1>3 DEF Div, Rem
  <2> HIDE DEF X, Y
  <2>2. ToWord(x * y + 0) = x
    <3>1. ToWord(X * Y) = ToWord(ToWord(X) * ToWord(Y))
      BY <1>1, WordProduct
    <3>2. ToWord(X * Y) = ToWord(X)
      <4>1. X = -XSign /\ Y = -1 /\ XSpan = 2 * XSign /\ XSign \in Nat
        BY <1>3, Spans DEF MostNegative
      <4>2. X * Y \in Int /\ X * Y = X + XSpan * 1
        BY <1>1, <4>1
      <4>3. QED
        BY <1>1, <4>2, ToWordWraps
    <3>3. x * y + 0 = x * y
      BY WordFacts
    <3>4. QED
      BY <1>1, <3>1, <3>2, <3>3
  <2>3. Signed(0) = 0
    BY SignedIsZero, WordFacts
  <2>4. Magnitude(0) = 0 /\ Magnitude(-1) = 1
    <3>1. \A n \in Int : Magnitude(n) = IF n < 0 THEN -n ELSE n
      BY DEF Magnitude
    <3>2. QED
      BY <3>1
  <2>5. 0 * X >= 0
    BY <1>1
  <2>6. QED
    BY <1>3, <2>1, <2>2, <2>3, <2>4, <2>5 DEF X, Y
<1>4. CASE y # 0 /\ ~(X = MostNegative /\ Y = -1)
  <2> DEFINE q == Quotient(X, Y)
             r == Remainder(X, Y)
  <2>1. Div(x, y) = ToWord(q) /\ Rem(x, y) = ToWord(r)
    BY <1>4 DEF Div, Rem
  <2>2. q \in Int /\ r \in Int /\ X = Y * q + r /\ Magnitude(r) < Magnitude(Y) /\ r * X >= 0
    BY <1>1, <1>4, Truncation
  <2> HIDE DEF q, r, X, Y
  <2>3. ToWord(ToWord(q) * ToWord(Y) + ToWord(r)) = ToWord(q * Y + r)
    BY <1>1, <2>2, WordArithmetic
  <2>4. q * Y + r = X
    BY <1>1, <2>2
  <2>5. Signed(ToWord(r)) = r
    <3>1. r \in Int64
      BY <1>1, <2>2, Spans DEF Magnitude, Int64
    <3>2. QED
      BY <3>1, SignedOfToWord
  <2>6. QED
    BY <1>1, <2>1, <2>2, <2>3, <2>4, <2>5 DEF X, Y
<1>5. QED
  BY <1>2, <1>3, <1>4

LEMMA UnsignedDivision ==
    ASSUME NEW x \in Word, NEW y \in Word
    PROVE  /\ ToWord(Divu(x, y) * y + Remu(x, y)) = x
           /\ y # 0 => Remu(x, y) < y
<1>1. x \in Nat /\ y \in Nat
  BY WordFacts
<1>2. CASE y = 0
  <2>1. Divu(x, y) = ToWord(-1) /\ Remu(x, y) = x
    BY <1>2 DEF Divu, Remu
  <2>2. ToWord(-1) * 0 + x = x
    BY <1>1, SpansArePositive DEF ToWord
  <2>3. QED
    BY <1>2, <2>1, <2>2, ToWordOfWord
<1>3. CASE y # 0
  <2>1. Divu(x, y) = x \div y /\ Remu(x, y) = x % y
    BY <1>3 DEF Divu, Remu
  <2>2. (x \div y) * y + (x % y) = x /\ x % y < y
    BY <1>1, <1>3, DivisionOf
  <2>3. QED
    BY <2>1, <2>2, ToWordOfWord
<1>4. QED
  BY <1>2, <1>3

(* DIV and REM, DIVU and REMU belong together for all operands             *)
(* (m_extension.c:34-77): the quotient and the remainder give back the     *)
(* dividend, through the division by zero and the overflow of the most     *)
(* negative number, and the remainder is the smaller and of its sign.      *)
THEOREM DivisionIsExact == Spec => []DivisionIdentity
<1>1. TypeOK => DivisionIdentity
  BY SignedDivision, UnsignedDivision DEF TypeOK, DivisionIdentity, EveryPair, DivisionLaw
<1>2. QED
  BY <1>1, TypeCorrect, PTL

-----------------------------------------------------------------------------
(* Multiplication.                                                         *)

(* The two halves of a number that fits twice the width.                   *)
LEMMA HalvesMakeNumber ==
    ASSUME NEW p \in Int, p \div XSpan \in Int64
    PROVE  Signed(ToWord(p \div XSpan)) * XSpan + ToWord(p) = p
<1>1. p = XSpan * (p \div XSpan) + (p % XSpan) /\ p % XSpan \in Int
  BY SpansArePositive, DivisionOf
<1>2. Signed(ToWord(p \div XSpan)) = p \div XSpan
  BY SignedOfToWord
<1> DEFINE q == p \div XSpan
           m == XSpan
<1>3. q \in Int /\ m \in Int
  BY SpansArePositive, DivisionOf
<1> HIDE DEF q, m
<1>4. q * m = m * q
  BY <1>3
<1>5. QED
  BY <1>1, <1>2, <1>4 DEF q, m, ToWord

LEMMA Products ==
    ASSUME NEW x \in Word, NEW y \in Word
    PROVE  ProductLaw(x, y)
<1>1. /\ Signed(x) \in Int /\ Signed(y) \in Int /\ x \in Int /\ y \in Int
      /\ ToWord(Signed(x)) = x /\ ToWord(Signed(y)) = y /\ ToWord(y) = y
  BY SignedIsInt64, WordFacts, ToWordOfWord, Spans DEF Int64
<1>2. ToWord(Signed(x) * Signed(y)) = ToWord(x * y)
  <2>1. ToWord(ToWord(Signed(x)) * ToWord(Signed(y))) = ToWord(Signed(x) * Signed(y))
    BY <1>1, WordProduct
  <2>2. QED
    BY <1>1, <2>1
<1>3. ToWord(Signed(x) * y) = ToWord(x * y)
  <2>1. ToWord(ToWord(Signed(x)) * ToWord(y)) = ToWord(Signed(x) * y)
    BY <1>1, WordProduct
  <2>2. QED
    BY <1>1, <2>1
<1>4. Mul(x, y) = ToWord(x * y)
  BY <1>2 DEF Mul
<1>5. Signed(Mulh(x, y)) * XSpan + Mul(x, y) = Signed(x) * Signed(y)
  BY <1>2, <1>4, HighHalves, HalvesMakeNumber DEF Mulh
<1>6. Signed(Mulhsu(x, y)) * XSpan + Mul(x, y) = Signed(x) * y
  BY <1>3, <1>4, HighHalves, HalvesMakeNumber DEF Mulhsu
<1>7. Mulhu(x, y) * XSpan + Mul(x, y) = x * y
  <2> DEFINE p == x * y
             m == XSpan
             q == p \div m
  <2>1. p \in Int /\ m \in Nat \ {0}
    BY <1>1, SpansArePositive
  <2> HIDE DEF p, m
  <2>2. p = m * q + (p % m) /\ q \in Int /\ p % m \in Int
    BY <2>1, DivisionOf
  <2> HIDE DEF q
  <2>3. q * m + (p % m) = p
    BY <2>1, <2>2
  <2>4. Mulhu(x, y) = q /\ Mul(x, y) = p % m
    BY <1>4 DEF Mulhu, ToWord, p, m, q
  <2>5. QED
    BY <2>3, <2>4 DEF p, m
<1>8. QED
  BY <1>5, <1>6, <1>7 DEF ProductLaw

(* MUL is the low half, and MULH, MULHSU and MULHU are the high halves, of *)
(* the product of their operands read as the name says                     *)
(* (m_extension.c:5-31): with registers of any width no bit is lost.       *)
THEOREM ProductsAreWhole == Spec => []ProductHalves
<1>1. TypeOK => ProductHalves
  BY Products DEF TypeOK, ProductHalves, EveryPair
<1>2. QED
  BY <1>1, TypeCorrect, PTL

-----------------------------------------------------------------------------
(* Shifts.                                                                 *)

LEMMA Shifts ==
    ASSUME NEW x \in Word, NEW y \in Word
    PROVE  ShiftLaw(x, y)
<1> DEFINE p == Pow2[ShiftAmount(y)]
           X == Signed(x)
           c == XSpan - 1 - x
<1>1. p \in Nat \ {0} /\ x \in Nat /\ x < XSpan
  BY ShiftsArePowers, WordFacts, ToWordOfWord
<1>2. X \in Int64 /\ X \in Int /\ XSpan \in Nat /\ XSpan = 2 * XSign /\ XSign \in Nat
      /\ X = (IF x < XSign THEN x ELSE x - XSpan)
  BY SignedIsInt64, Spans DEF Int64, Signed
<1>3. Sra(x, y) = ToWord(X \div p) /\ Srl(x, y) = x \div p /\ Srl(c, y) = c \div p
  BY DEF Sra, Srl
<1>4. c \in Nat
  BY <1>1, <1>2
<1> HIDE DEF p
<1>5. CASE x < XSign
  <2>1. X = x /\ X >= 0
    BY <1>1, <1>2, <1>5
  <2>2. x \div p \in Word
    BY <1>1, QuotientIsSmaller, WordFacts
  <2>3. Sra(x, y) = Srl(x, y)
    BY <1>3, <2>1, <2>2, ToWordOfWord
  <2>4. QED
    BY <2>1, <2>3 DEF ShiftLaw
<1>6. CASE x >= XSign
  <2>1. X = x - XSpan /\ X < 0 /\ X = -c - 1 /\ c < XSpan
    BY <1>1, <1>2, <1>6
  <2> DEFINE q == c \div p
             r == c % p
  <2> HIDE DEF X, c
  <2>2. q \in Nat /\ q <= c /\ r \in 0..(p - 1) /\ c = p * q + r
    <3>1. q \in Nat /\ q <= c
      BY <1>1, <1>4, QuotientIsSmaller
    <3>2. r \in 0..(p - 1) /\ c = p * q + r
      BY <1>1, <1>4, DivisionOf
    <3>3. QED
      BY <3>1, <3>2
  <2> HIDE DEF q, r
  <2>3. X \div p = -q - 1
    <3> DEFINE l == -q - 1
               t == p - 1 - r
    <3>1. l \in Int /\ t \in 0..(p - 1) /\ X = p * l + t
      BY <1>1, <2>1, <2>2
    <3> HIDE DEF l, t
    <3>2. (p * l + t) \div p = l
      BY <1>1, <3>1, DivisionUnique
    <3>3. QED
      BY <3>1, <3>2 DEF l
  <2>4. ToWord(-q - 1) = XSpan - 1 - q
    <3> DEFINE n == -q - 1
               w == XSpan - 1 - q
    <3>1. n \in Int /\ w \in Word /\ w \in Int /\ w = n + XSpan * 1
      BY <1>2, <2>1, <2>2, <1>4 DEF Word
    <3> HIDE DEF n, w
    <3>2. ToWord(w) = ToWord(n) /\ ToWord(w) = w
      BY <3>1, ToWordWraps, ToWordOfWord
    <3>3. QED
      BY <3>2 DEF n, w
  <2>5. Sra(x, y) = XSpan - 1 - Srl(c, y)
    BY <1>3, <2>3, <2>4 DEF q
  <2>6. QED
    BY <1>2, <2>1, <2>5 DEF ShiftLaw, X, c
<1>7. QED
  BY <1>1, <1>2, <1>5, <1>6

(* SRA and SRL (r_inst.c) agree on the numbers that are not negative, and  *)
(* SRA rounds the others down.                                             *)
THEOREM ShiftIsArithmetic == Spec => []ArithmeticShift
<1>1. TypeOK => ArithmeticShift
  BY Shifts DEF TypeOK, ArithmeticShift, EveryPair
<1>2. QED
  BY <1>1, TypeCorrect, PTL

-----------------------------------------------------------------------------
(* The 32-bit forms.                                                       *)

LEMMA LowArithmetic ==
    ASSUME NEW a \in Int, NEW b \in Int
    PROVE  /\ Low(Low(a) + Low(b)) = Low(a + b)
           /\ Low(Low(a) - Low(b)) = Low(a - b)
           /\ Low(Low(a) * b) = Low(a * b)
<1> DEFINE m == WSpan
           p == a \div m
           q == b \div m
           u == Low(a)
           w == Low(b)
<1>1. m \in Nat \ {0}
  BY SpansArePositive
<1>2. p \in Int /\ u \in Int /\ a = m * p + u /\ q \in Int /\ w \in Int /\ b = m * q + w
  BY <1>1, DivisionOf DEF Low
<1>w. \A x, y \in Int : (\E k \in Int : y = x + m * k) => Low(x) = Low(y)
  BY LowWraps
<1> HIDE DEF m, p, q, u, w
<1>3. Low(u + w) = Low(a + b)
  <2>1. a + b = (u + w) + m * (p + q) /\ p + q \in Int
    BY <1>1, <1>2
  <2>2. QED
    BY <1>2, <1>w, <2>1
<1>4. Low(u - w) = Low(a - b)
  <2>1. a - b = (u - w) + m * (p - q) /\ p - q \in Int
    BY <1>1, <1>2
  <2>2. QED
    BY <1>2, <1>w, <2>1
<1>5. Low(u * b) = Low(a * b)
  <2> DEFINE x == u * b
             y == a * b
             k == p * b
  <2>1. x \in Int /\ y \in Int /\ k \in Int /\ y = x + m * k
    BY <1>1, <1>2
  <2> HIDE DEF x, y, k
  <2>2. Low(x) = Low(y)
    BY <1>w, <2>1
  <2>3. QED
    BY <2>2 DEF x, y
<1>6. QED
  BY <1>3, <1>4, <1>5 DEF u, w

LEMMA ShiftAmountOfLow ==
    ASSUME NEW y \in Int
    PROVE  ShiftAmountW(Low(y)) = ShiftAmountW(y)
<1>1. WLen \in Nat \ {0} /\ WSpan \in Nat \ {0} /\ \E k \in Nat : WSpan = WLen * k
  BY WidthAssumption, Spans
<1>2. QED
  BY <1>1, RemainderOfRemainder DEF ShiftAmountW, Low

(* An operation sees the low halves only, *)
LEMMA NarrowOperands ==
    ASSUME NEW x \in Int, NEW y \in Int
    PROVE  /\ Addw(x, y) = Addw(Low(x), Low(y))
           /\ Subw(x, y) = Subw(Low(x), Low(y))
           /\ Mulw(x, y) = Mulw(Low(x), Low(y))
           /\ Sllw(x, y) = Sllw(Low(x), Low(y))
           /\ Srlw(x, y) = Srlw(Low(x), Low(y))
           /\ Sraw(x, y) = Sraw(Low(x), Low(y))
           /\ Divw(x, y) = Divw(Low(x), Low(y))
           /\ Remw(x, y) = Remw(Low(x), Low(y))
<1> DEFINE u == Low(x)
           w == Low(y)
           p == Pow2[ShiftAmountW(y)]
<1>1. /\ u \in Int /\ w \in Int /\ Low(u) = u /\ Low(w) = w
      /\ SignedLow(u) = SignedLow(x) /\ SignedLow(w) = SignedLow(y)
      /\ SignExtend(u) = SignExtend(x)
  BY LowFacts, LowIsWord, SignExtendFacts DEF SignExtend
<1>2. p \in Int /\ Pow2[ShiftAmountW(w)] = p
  BY ShiftsArePowers, ShiftAmountOfLow
<1>3. Low(u + w) = Low(x + y) /\ Low(u - w) = Low(x - y) /\ Low(u * p) = Low(x * p)
  BY <1>2, LowArithmetic
<1> HIDE DEF u, w, p
<1>4. SignExtend(u + w) = SignExtend(x + y) /\ SignExtend(u - w) = SignExtend(x - y)
  BY <1>1, <1>3, SignExtendOfLow
<1>5. SignExtend(u * p) = SignExtend(x * p)
  <2>1. u * p \in Int /\ x * p \in Int
    BY <1>1, <1>2
  <2>2. QED
    BY <1>3, <2>1, SignExtendOfLow
<1>6. Addw(x, y) = Addw(u, w) /\ Subw(x, y) = Subw(u, w) /\ Mulw(x, y) = Mulw(u, w)
  BY <1>1, <1>4 DEF Addw, Subw, Mulw
<1>7. Sllw(x, y) = Sllw(u, w) /\ Srlw(x, y) = Srlw(u, w) /\ Sraw(x, y) = Sraw(u, w)
  <2>1. Sllw(x, y) = SignExtend(x * p) /\ Srlw(x, y) = SignExtend(u \div p)
        /\ Sraw(x, y) = SignExtend(SignedLow(x) \div p)
    BY DEF Sllw, Srlw, Sraw, p, u
  <2>2. Sllw(u, w) = SignExtend(u * p) /\ Srlw(u, w) = SignExtend(u \div p)
        /\ Sraw(u, w) = SignExtend(SignedLow(x) \div p)
    BY <1>1, <1>2 DEF Sllw, Srlw, Sraw
  <2>3. QED
    BY <1>5, <2>1, <2>2
<1>8. Divw(x, y) = Divw(u, w) /\ Remw(x, y) = Remw(u, w)
  BY <1>1 DEF Divw, Remw, w
<1>9. QED
  BY <1>6, <1>7, <1>8 DEF u, w

(* and leaves a result whose sign is extended.                             *)
LEMMA NarrowResults ==
    ASSUME NEW x \in Word, NEW y \in Int
    PROVE  \A z \in {Addw(x, y), Subw(x, y), Mulw(x, y), Sllw(x, y), Srlw(x, y), Sraw(x, y),
                    Divw(x, y), Remw(x, y)} : z = SignExtend(z)
<1>1. \A n \in Int : SignExtend(n) = SignExtend(SignExtend(n))
  BY SignExtendFacts
<1>2. x \in Int /\ SignedLow(x) \in Int /\ SignedLow(y) \in Int /\ Low(x) \in Int
  BY WordFacts, LowFacts, Spans DEF Int32
<1>3. ToWord(-1) = SignExtend(-1) /\ 0 = SignExtend(0)
  <2>1. WSpan - 1 \in Int /\ WSpan - 1 = -1 + WSpan * 1 /\ WSpan - 1 >= WSign
        /\ WSpan \in Int /\ WSign \in Nat /\ WSign > 0
    BY Spans
  <2>2. Low(WSpan - 1) = Low(-1)
    BY <2>1, LowWraps
  <2>3. Low(WSpan - 1) = WSpan - 1 /\ Low(0) = 0
    BY SpansArePositive DEF Low
  <2>4. SignedLow(-1) = -1 /\ SignedLow(0) = 0
    <3>1. \A n \in Int : SignedLow(n) = IF Low(n) < WSign THEN Low(n) ELSE Low(n) - WSpan
      BY DEF SignedLow
    <3>2. QED
      BY <2>1, <2>2, <2>3, <3>1
  <2>5. ToWord(0) = 0
    BY WordFacts, ToWordOfWord
  <2>6. QED
    BY <2>4, <2>5 DEF SignExtend
<1>4. \A z \in {Addw(x, y), Subw(x, y), Mulw(x, y)} : z = SignExtend(z)
  BY <1>1, <1>2 DEF Addw, Subw, Mulw
<1>5. \A z \in {Sllw(x, y), Srlw(x, y), Sraw(x, y)} : z = SignExtend(z)
  <2> DEFINE p == Pow2[ShiftAmountW(y)]
  <2>1. Sllw(x, y) = SignExtend(x * p) /\ Srlw(x, y) = SignExtend(Low(x) \div p)
        /\ Sraw(x, y) = SignExtend(SignedLow(x) \div p)
    BY DEF Sllw, Srlw, Sraw
  <2>2. p \in Nat \ {0}
    BY ShiftsArePowers
  <2> HIDE DEF p
  <2>3. x * p \in Int /\ Low(x) \div p \in Int /\ SignedLow(x) \div p \in Int
    BY <1>2, <2>2, DivisionOf
  <2>4. QED
    BY <1>1, <2>1, <2>3
<1>6. \A z \in {Divw(x, y), Remw(x, y)} : z = SignExtend(z)
  <2>1. Low(y) # 0 => /\ Quotient(SignedLow(x), SignedLow(y)) \in Int
                      /\ Remainder(SignedLow(x), SignedLow(y)) \in Int
    <3>1. Low(y) # 0 => SignedLow(y) # 0
      BY LowFacts, Spans DEF SignedLow
    <3>2. QED
      BY <1>2, <3>1, Truncation
  <2>2. ToWord(-1) = SignExtend(ToWord(-1))
    BY <1>1, <1>3
  <2>3. QED
    BY <1>1, <1>2, <1>3, <2>1, <2>2 DEF Divw, Remw
<1>7. QED
  BY <1>4, <1>5, <1>6

(* The 32-bit instructions (i_64_inst.c) depend on the low halves of their *)
(* operands and leave a sign-extended register, whatever the upper halves  *)
(* hold; DIVUW and REMUW are the exceptions that NarrowLaw leaves out.     *)
THEOREM NarrowIsNarrow == Spec => []NarrowForms
<1>1. TypeOK => NarrowForms
  <2> SUFFICES ASSUME TypeOK, NEW r \in Regs, NEW s \in Regs
               PROVE  NarrowLaw(registers[r], registers[s])
    BY DEF NarrowForms, EveryPair
  <2> DEFINE x == registers[r]
             y == registers[s]
  <2>1. x \in Word /\ y \in Word
    BY DEF TypeOK
  <2> HIDE DEF x, y
  <2>2. x \in Int /\ y \in Int
    BY <2>1, WordFacts
  <2>3. NarrowLaw(x, y)
    BY <2>1, <2>2, NarrowOperands, NarrowResults DEF NarrowLaw, Narrow
  <2>4. QED
    BY <2>3 DEF x, y
<1>2. QED
  BY <1>1, TypeCorrect, PTL

=============================================================================
