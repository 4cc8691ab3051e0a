----------------------------- MODULE UartProofs -----------------------------
(***************************************************************************)
(* What the races on the UART cannot break, for every size of the FIFO,    *)
(* every set of characters and both ways of scheduling; and what holds     *)
(* besides when one operation runs at a time.                              *)
(***************************************************************************)
EXTENDS Uart, Integers, Sequences, TLAPS

-----------------------------------------------------------------------------
(* fifo_count.  A thread's registers are part of the invariant: what it is *)
(* about to store was computed from a count that was in range.             *)

CountInv ==
    /\ count \in 0..FifoSize
    /\ kpc \in {"storeByte", "loadCount"} => count < FifoSize
    /\ kpc = "storeCount" => kcount \in 0..(FifoSize - 1)
    /\ gpc \in {"pop", "loadCount"} => count > 0
    /\ gpc = "storeCount" => gcount \in 1..FifoSize

LEMMA InitCountInv == Init => CountInv
BY UartAssumption DEF Init, CountInv

LEMMA IncrementInRange == ASSUME NEW n \in 0..254 PROVE Increment(n) = n + 1
BY DEF Increment

LEMMA DecrementInRange == ASSUME NEW n \in 1..255 PROVE Decrement(n) = n - 1
<1>1. n + 255 = 256 + (n - 1) /\ n - 1 \in 0..255
  OBVIOUS
<1>2. QED
  BY <1>1 DEF Decrement

LEMMA KeyboardKeepsCount == ASSUME CountInv, KeyboardStep PROVE CountInv'
<1> USE UartAssumption DEF KeyboardOnly, guestVars
<1>1. CASE \E c \in Chars : Type(c)
  BY <1>1 DEF Type, CountInv
<1>2. CASE StoreByte
  BY <1>2 DEF StoreByte, CountInv
<1>3. CASE LoadCount
  BY <1>3 DEF LoadCount, CountInv
<1>4. CASE StoreCount
  <2>1. kcount \in 0..(FifoSize - 1) /\ kcount \in 0..254
    BY <1>4 DEF StoreCount, CountInv
  <2>2. count' = kcount + 1
    BY <1>4, <2>1, IncrementInRange DEF StoreCount
  <2>3. QED
    BY <1>4, <2>1, <2>2 DEF StoreCount, CountInv
<1>5. CASE LoadLsr
  BY <1>5 DEF LoadLsr, CountInv
<1>6. CASE SetReady
  BY <1>6 DEF SetReady, CountInv
<1>7. QED
  BY <1>1, <1>2, <1>3, <1>4, <1>5, <1>6 DEF KeyboardStep

LEMMA GuestKeepsCount == ASSUME CountInv, GuestStep PROVE CountInv'
<1> USE UartAssumption DEF GuestOnly, keyboardVars, guestVars
<1>1. CASE BeginRead \/ Pop
  BY <1>1 DEF BeginRead, Pop, CountInv
<1>2. CASE GuestLoadCount
  BY <1>2 DEF GuestLoadCount, CountInv
<1>3. CASE GuestStoreCount
  <2>1. gcount \in 1..FifoSize /\ gcount \in 1..255
    BY <1>3 DEF GuestStoreCount, CountInv
  <2>2. count' = gcount - 1
    BY <1>3, <2>1, DecrementInRange DEF GuestStoreCount
  <2>3. QED
    BY <1>3, <2>1, <2>2 DEF GuestStoreCount, CountInv
<1>4. CASE TestEmpty \/ GuestLoadLsr \/ ClearReady
  BY <1>4 DEF TestEmpty, GuestLoadLsr, ClearReady, CountInv
<1>5. CASE ReadEmpty \/ ClearThre \/ StoreThr \/ ResetThr \/ ResetLsr
  BY <1>5 DEF ReadEmpty, ClearThre, StoreThr, ResetThr, ResetLsr, CountInv
<1>6. CASE \/ \E c \in Chars : BeginWrite(c)
           \/ \E flags \in LsrWrites : WriteLsr(flags)
           \/ \E latch \in BOOLEAN : WriteLcr(latch)
  BY <1>6 DEF BeginWrite, WriteLsr, WriteLcr, CountInv
<1>7. QED
  BY <1>1, <1>2, <1>3, <1>4, <1>5, <1>6 DEF GuestStep

LEMMA DisplayKeepsCount == ASSUME CountInv, DisplayStep PROVE CountInv'
BY DEF DisplayStep, CheckIdle, Draw, DisplayLoadLsr, SetThre, ClearThr, DisplayOnly,
       fifoVars, keyboardVars, guestVars, CountInv

LEMMA CountInvIsInductive == CountInv /\ [Next]_vars => CountInv'
<1>1. CountInv /\ UNCHANGED vars => CountInv'
  BY DEF vars, fifoVars, keyboardVars, guestVars, CountInv
<1>2. QED
  BY <1>1, KeyboardKeepsCount, GuestKeepsCount, DisplayKeepsCount DEF Next

(* fifo_count stays within the FIFO although the keyboard and the          *)
(* simulator thread update it without a lock: each stores a number that    *)
(* was in range when it loaded it, and the other cannot have moved the     *)
(* count past the end it tested for.                                       *)
THEOREM CountStaysWithinFifo == Spec => []CountWithinFifo
<1>1. CountInv => CountWithinFifo
  BY UartAssumption DEF CountInv, CountWithinFifo
<1>2. QED
  BY InitCountInv, CountInvIsInductive, <1>1, PTL DEF Spec

-----------------------------------------------------------------------------
(* THR.  Once the display has read a character it is between Draw and      *)
(* ClearThr, and it does not test LSR again before THR is empty.           *)

DrawnInv == seen => dpc \in {"loadLsr", "storeLsr", "clearThr"}

(* No character is drawn twice, whatever the three threads store into LSR. *)
THEOREM NothingIsDrawnTwice == Spec => []DrawnAtMostOnce
<1>1. Init => DrawnInv
  BY DEF Init, DrawnInv
<1>2. DrawnInv /\ [Next]_vars => DrawnInv'
  <2> SUFFICES ASSUME DrawnInv, [Next]_vars PROVE DrawnInv'
    OBVIOUS
  <2> USE DEF DrawnInv
  <2>1. CASE KeyboardStep
    BY <2>1 DEF KeyboardStep, Type, StoreByte, LoadCount, StoreCount, LoadLsr, SetReady,
                KeyboardOnly, displayVars
  <2>2. CASE GuestStep
    <3>1. dpc' = dpc
      BY <2>2 DEF GuestStep, ReadEmpty, BeginRead, Pop, GuestLoadCount, GuestStoreCount,
                  TestEmpty, GuestLoadLsr, ClearReady, BeginWrite, ClearThre, StoreThr,
                  WriteLsr, WriteLcr, ResetThr, ResetLsr, GuestOnly, displayVars
    <3>2. seen' => seen
      BY <2>2 DEF GuestStep, ReadEmpty, BeginRead, Pop, GuestLoadCount, GuestStoreCount,
                  TestEmpty, GuestLoadLsr, ClearReady, BeginWrite, ClearThre, StoreThr,
                  WriteLsr, WriteLcr, ResetThr, ResetLsr
    <3>3. QED
      BY <3>1, <3>2
  <2>3. CASE DisplayStep
    <3>1. CASE CheckIdle
      BY <3>1 DEF CheckIdle
    <3>2. CASE Draw \/ DisplayLoadLsr \/ SetThre
      BY <3>2 DEF Draw, DisplayLoadLsr, SetThre
    <3>3. CASE ClearThr
      BY <3>3 DEF ClearThr
    <3>4. QED
      BY <2>3, <3>1, <3>2, <3>3 DEF DisplayStep
  <2>4. CASE UNCHANGED vars
    BY <2>4 DEF vars, displayVars
  <2>5. QED
    BY <2>1, <2>2, <2>3, <2>4 DEF Next
<1>3. DrawnInv => DrawnAtMostOnce
  BY DEF DrawnInv, DrawnAtMostOnce
<1>4. QED
  BY <1>1, <1>2, <1>3, PTL DEF Spec

-----------------------------------------------------------------------------
(* Types.  Everything a thread keeps in a register came from a byte of the *)
(* device.                                                                 *)

LEMMA KeyboardKeepsType == ASSUME TypeOK, KeyboardStep PROVE TypeOK'
<1> USE UartAssumption DEF TypeOK
<1>1. KeyboardOnly
  BY DEF KeyboardStep, Type, StoreByte, LoadCount, StoreCount, LoadLsr, SetReady
<1>2. GuestTypeOK' /\ DisplayTypeOK'
  BY <1>1 DEF KeyboardOnly, guestVars, displayVars, GuestTypeOK, DisplayTypeOK
<1>3. (answer \in Bytes)' /\ (shown \in Bytes)' /\ (seen \in BOOLEAN)'
  BY <1>1 DEF KeyboardOnly
<1>4. DeviceTypeOK' /\ KeyboardTypeOK'
  <2> USE DEF DeviceTypeOK, KeyboardTypeOK, KeyboardOnly
  <2>1. CASE \E c \in Chars : Type(c)
    BY <2>1 DEF Type, Bytes
  <2>2. CASE StoreByte
    <3>1. NextSlot(tail) \in Slots
      BY DEF NextSlot, Slots
    <3>2. QED
      BY <2>2, <3>1 DEF StoreByte, Bytes
  <2>3. CASE LoadCount \/ LoadLsr
    BY <2>3 DEF LoadCount, LoadLsr
  <2>4. CASE StoreCount
    <3>1. Increment(kcount) \in Uint8
      BY DEF Increment, Uint8
    <3>2. QED
      BY <2>4, <3>1 DEF StoreCount, Uint8
  <2>5. CASE SetReady
    BY <2>5 DEF SetReady, Flags
  <2>6. QED
    BY <2>1, <2>2, <2>3, <2>4, <2>5 DEF KeyboardStep
<1>5. QED
  BY <1>2, <1>3, <1>4

LEMMA GuestKeepsType == ASSUME TypeOK, GuestStep PROVE TypeOK'
<1> USE UartAssumption DEF TypeOK
<1>1. GuestOnly
  BY DEF GuestStep, ReadEmpty, BeginRead, Pop, GuestLoadCount, GuestStoreCount, TestEmpty,
         GuestLoadLsr, ClearReady, BeginWrite, ClearThre, StoreThr, WriteLsr, WriteLcr,
         ResetThr, ResetLsr
<1>2. KeyboardTypeOK' /\ DisplayTypeOK' /\ (shown \in Bytes)'
  BY <1>1 DEF GuestOnly, keyboardVars, displayVars, KeyboardTypeOK, DisplayTypeOK
<1>3. (seen \in BOOLEAN)'
  BY DEF GuestStep, ReadEmpty, BeginRead, Pop, GuestLoadCount, GuestStoreCount, TestEmpty,
         GuestLoadLsr, ClearReady, BeginWrite, ClearThre, StoreThr, WriteLsr, WriteLcr,
         ResetThr, ResetLsr
<1>4. DeviceTypeOK' /\ GuestTypeOK' /\ (answer \in Bytes)'
  <2> USE DEF DeviceTypeOK, GuestTypeOK, GuestOnly, guestVars
  <2>1. CASE ReadEmpty \/ BeginRead
    BY <2>1 DEF ReadEmpty, BeginRead, Bytes
  <2>2. CASE Pop
    <3>1. NextSlot(head) \in Slots /\ fifo[head] \in Bytes
      BY DEF NextSlot, Slots
    <3>2. QED
      BY <2>2, <3>1 DEF Pop
  <2>3. CASE GuestStoreCount
    <3>1. Decrement(gcount) \in Uint8
      BY DEF Decrement, Uint8
    <3>2. QED
      BY <2>3, <3>1 DEF GuestStoreCount
  <2>4. CASE GuestLoadCount \/ TestEmpty \/ GuestLoadLsr
    BY <2>4 DEF GuestLoadCount, TestEmpty, GuestLoadLsr, Uint8
  <2>5. CASE ClearReady \/ ClearThre \/ StoreThr
    BY <2>5 DEF ClearReady, ClearThre, StoreThr, Bytes
  <2>6. CASE ResetThr \/ ResetLsr
    BY <2>6 DEF ResetThr, ResetLsr, Flags, Bytes
  <2>7. CASE \E c \in Chars : BeginWrite(c)
    BY <2>7 DEF BeginWrite, Bytes
  <2>8. CASE \/ \E flags \in LsrWrites : WriteLsr(flags)
             \/ \E latch \in BOOLEAN : WriteLcr(latch)
    BY <2>8 DEF WriteLsr, WriteLcr, Flags, RX_READY, THRE
  <2>9. QED
    BY <2>1, <2>2, <2>3, <2>4, <2>5, <2>6, <2>7, <2>8 DEF GuestStep
<1>5. QED
  BY <1>2, <1>3, <1>4

LEMMA DisplayKeepsType == ASSUME TypeOK, DisplayStep PROVE TypeOK'
<1> USE DEF TypeOK
<1>1. DisplayOnly
  BY DEF DisplayStep, CheckIdle, Draw, DisplayLoadLsr, SetThre, ClearThr
<1>2. KeyboardTypeOK' /\ GuestTypeOK' /\ (answer \in Bytes)'
  BY <1>1 DEF DisplayOnly, keyboardVars, guestVars, KeyboardTypeOK, GuestTypeOK
<1>3. (seen \in BOOLEAN)'
  BY DEF DisplayStep, CheckIdle, Draw, DisplayLoadLsr, SetThre, ClearThr
<1>4. DeviceTypeOK' /\ DisplayTypeOK' /\ (shown \in Bytes)'
  <2> USE DEF DeviceTypeOK, DisplayTypeOK, DisplayOnly, fifoVars
  <2>1. CASE CheckIdle \/ Draw \/ DisplayLoadLsr
    BY <2>1 DEF CheckIdle, Draw, DisplayLoadLsr
  <2>2. CASE SetThre \/ ClearThr
    BY <2>2 DEF SetThre, ClearThr, Flags, Bytes
  <2>3. QED
    BY <2>1, <2>2 DEF DisplayStep
<1>5. QED
  BY <1>2, <1>3, <1>4

LEMMA InitTypeOK == Init => TypeOK
<1> SUFFICES ASSUME Init PROVE TypeOK
  OBVIOUS
<1> USE DEF Init, Bytes, Uint8
<1>1. DeviceTypeOK
  <2>1. 0 \in Slots
    BY UartAssumption DEF Slots
  <2>2. fifo \in [Slots -> Bytes]
    OBVIOUS
  <2>3. lsr \subseteq Flags
    BY DEF Flags
  <2>4. thr \in Bytes /\ dlab \in BOOLEAN /\ head \in Slots /\ tail \in Slots
    BY <2>1
  <2>5. count \in Uint8
    OBVIOUS
  <2>6. QED
    BY <2>2, <2>3, <2>4, <2>5 DEF DeviceTypeOK
<1>2. KeyboardTypeOK /\ GuestTypeOK /\ DisplayTypeOK
  BY DEF KeyboardTypeOK, GuestTypeOK, DisplayTypeOK
<1>3. QED
  BY <1>1, <1>2 DEF TypeOK

LEMMA TypeOKIsInductive == TypeOK /\ [Next]_vars => TypeOK'
<1>1. TypeOK /\ UNCHANGED vars => TypeOK'
  <2> SUFFICES ASSUME TypeOK, UNCHANGED vars PROVE TypeOK'
    OBVIOUS
  <2> USE DEF TypeOK, vars, fifoVars, keyboardVars, guestVars, displayVars
  <2>1. DeviceTypeOK'
    BY DEF DeviceTypeOK
  <2>2. KeyboardTypeOK' /\ GuestTypeOK' /\ DisplayTypeOK'
    BY DEF KeyboardTypeOK, GuestTypeOK, DisplayTypeOK
  <2>3. QED
    BY <2>1, <2>2
<1>2. QED
  BY <1>1, KeyboardKeepsType, GuestKeepsType, DisplayKeepsType DEF Next

(* Every register of the device and of the three threads keeps its type:   *)
(* in particular head and tail stay inside the FIFO's array.               *)
THEOREM TypeCorrect == Spec => []TypeOK
BY InitTypeOK, TypeOKIsInductive, PTL DEF Spec

-----------------------------------------------------------------------------
(* LSR, when one thread uses the device at a time and the guest does not   *)
(* store into LSR.  What it says is kept through the operations, except    *)
(* where an operation has changed the device and not yet LSR, or LSR and   *)
(* not yet the device; what a thread loaded of LSR is still its value when *)
(* the thread stores it back.                                              *)

OneAtATime ==
    \/ kpc = "idle" /\ gpc = "idle"
    \/ kpc = "idle" /\ dpc = "idle"
    \/ gpc = "idle" /\ dpc = "idle"

ReadyIsTrue ==
    gpc \notin {"test", "loadLsr", "clearReady"} => (RX_READY \in lsr => count > 0)

ThreIsTrue ==
    gpc \notin {"storeThr", "resetLsr"} /\ dpc # "clearThr" => (THRE \in lsr <=> thr = NUL)

KeyboardInv ==
    /\ kpc \in {"loadLsr", "storeLsr"} => count > 0
    /\ kpc = "storeLsr" => klsr = lsr

GuestInv ==
    /\ gpc = "test" => gcount = count
    /\ gpc \in {"clearReady", "clearThre"} => glsr = lsr
    /\ gpc \in {"clearThre", "storeThr"} => gchar # NUL
    /\ gpc = "storeThr" => THRE \notin lsr
    /\ gpc = "resetLsr" => thr = NUL

DisplayInv ==
    /\ dpc = "draw" => THRE \notin lsr
    /\ dpc = "storeLsr" => dlsr = lsr
    /\ dpc = "clearThr" => THRE \in lsr

StatusInv == OneAtATime /\ ReadyIsTrue /\ ThreIsTrue /\ KeyboardInv /\ GuestInv /\ DisplayInv

LEMMA InitStatusInv == Init => StatusInv
BY DEF Init, StatusInv, OneAtATime, ReadyIsTrue, ThreIsTrue, KeyboardInv, GuestInv, DisplayInv,
       RX_READY, THRE

LEMMA KeyboardKeepsStatus ==
    ASSUME Serial, CountInv, StatusInv, KeyboardStep PROVE StatusInv'
<1> USE UartAssumption DEF StatusInv, OneAtATime, ReadyIsTrue, ThreIsTrue, KeyboardInv,
        GuestInv, DisplayInv, KeyboardOnly, guestVars, displayVars
<1>1. CASE \E c \in Chars : Type(c)
  BY <1>1 DEF Type, Turn, AtRest
<1>2. CASE StoreByte \/ LoadCount \/ LoadLsr
  BY <1>2 DEF StoreByte, LoadCount, LoadLsr
<1>3. CASE StoreCount
  <2>1. kcount \in 0..(FifoSize - 1) /\ kcount \in 0..254
    BY <1>3 DEF StoreCount, CountInv
  <2>2. count' > 0
    BY <1>3, <2>1, IncrementInRange DEF StoreCount
  <2>3. QED
    BY <1>3, <2>2 DEF StoreCount
<1>4. CASE SetReady
  BY <1>4 DEF SetReady, RX_READY, THRE
<1>5. QED
  BY <1>1, <1>2, <1>3, <1>4 DEF KeyboardStep

LEMMA GuestKeepsStatus ==
    ASSUME Serial, LsrWrites = {}, CountInv, StatusInv, GuestStep PROVE StatusInv'
<1> USE UartAssumption DEF StatusInv, OneAtATime, ReadyIsTrue, ThreIsTrue, KeyboardInv,
        GuestInv, DisplayInv, GuestOnly, keyboardVars, guestVars, displayVars
<1>1. CASE ReadEmpty \/ BeginRead
  BY <1>1 DEF ReadEmpty, BeginRead, Turn, AtRest
<1>2. CASE Pop \/ GuestLoadCount \/ GuestStoreCount
  BY <1>2 DEF Pop, GuestLoadCount, GuestStoreCount
<1>3. CASE TestEmpty
  BY <1>3 DEF TestEmpty, CountInv
<1>4. CASE GuestLoadLsr
  BY <1>4 DEF GuestLoadLsr
<1>5. CASE ClearReady \/ ClearThre \/ StoreThr
  BY <1>5 DEF ClearReady, ClearThre, StoreThr, RX_READY, THRE
<1>6. CASE \E c \in Chars : BeginWrite(c)
  BY <1>6 DEF BeginWrite, Turn, AtRest
<1>7. CASE \E latch \in BOOLEAN : WriteLcr(latch)
  BY <1>7 DEF WriteLcr
<1>8. CASE ResetThr \/ ResetLsr
  BY <1>8 DEF ResetThr, ResetLsr, Turn, AtRest, RX_READY, THRE
<1>9. QED
  BY <1>1, <1>2, <1>3, <1>4, <1>5, <1>6, <1>7, <1>8 DEF GuestStep

LEMMA DisplayKeepsStatus == ASSUME Serial, StatusInv, DisplayStep PROVE StatusInv'
<1> USE DEF StatusInv, OneAtATime, ReadyIsTrue, ThreIsTrue, KeyboardInv, GuestInv, DisplayInv,
        DisplayOnly, fifoVars, keyboardVars, guestVars
<1>1. CASE CheckIdle
  BY <1>1 DEF CheckIdle, Turn, AtRest
<1>2. CASE Draw \/ DisplayLoadLsr
  BY <1>2 DEF Draw, DisplayLoadLsr
<1>3. CASE SetThre \/ ClearThr
  BY <1>3 DEF SetThre, ClearThr, RX_READY, THRE
<1>4. QED
  BY <1>1, <1>2, <1>3 DEF DisplayStep

LEMMA StatusInvIsInductive ==
    ASSUME Serial, LsrWrites = {}
    PROVE  CountInv /\ StatusInv /\ [Next]_vars => StatusInv'
<1>1. StatusInv /\ UNCHANGED vars => StatusInv'
  BY DEF StatusInv, OneAtATime, ReadyIsTrue, ThreIsTrue, KeyboardInv, GuestInv, DisplayInv,
         vars, fifoVars, keyboardVars, guestVars, displayVars
<1>2. QED
  BY <1>1, KeyboardKeepsStatus, GuestKeepsStatus, DisplayKeepsStatus DEF Next

(* While one operation runs at a time and the guest leaves LSR alone, LSR  *)
(* tells the truth between operations, resets included, for a FIFO of any  *)
(* size: uart_read clears RX_READY with the last byte, and THRE is set     *)
(* exactly when THR is empty.                                              *)
THEOREM StatusStaysTrue == ASSUME Serial, LsrWrites = {} PROVE Spec => []StatusIsTrue
<1>1. StatusInv => StatusIsTrue
  BY DEF StatusInv, ReadyIsTrue, ThreIsTrue, StatusIsTrue, AtRest
<1>2. QED
  BY InitCountInv, CountInvIsInductive, InitStatusInv, StatusInvIsInductive, <1>1, PTL DEF Spec

-----------------------------------------------------------------------------
(* The refinement of SerialPort.                                           *)

(* Where the FIFO ends, and what is in a thread's registers about it, when *)
(* one operation runs at a time.  Between StoreByte and StoreCount the new *)
(* byte is behind the unread ones.                                         *)
Slot(k) == (head + k) % FifoSize

QueueInv ==
    /\ kpc \notin {"loadCount", "storeCount"} => tail = Slot(Unread)
    /\ kpc \in {"loadCount", "storeCount"} => tail = Slot(count + 1) /\ fifo[Slot(count)] \in Chars
    /\ kpc = "storeByte" => kkey \in Chars
    /\ kpc = "storeCount" => kcount = count
    /\ gpc = "storeCount" => gcount = count
    /\ gpc \in {"clearThre", "storeThr"} => gchar \in Chars

PortInv == TypeOK /\ CountInv /\ StatusInv /\ QueueInv

LEMMA SlotValue ==
    ASSUME head \in Slots, NEW k \in 0..FifoSize
    PROVE  /\ Slot(k) = IF head + k < FifoSize THEN head + k ELSE head + k - FifoSize
           /\ Slot(k) \in Slots
<1> USE UartAssumption DEF Slot, Slots
<1>1. CASE head + k < FifoSize
  BY <1>1
<1>2. CASE head + k >= FifoSize
  <2>1. head + k = FifoSize + (head + k - FifoSize) /\ head + k - FifoSize \in 0..(FifoSize - 1)
    BY <1>2
  <2>2. QED
    BY <1>2, <2>1
<1>3. QED
  BY <1>1, <1>2

LEMMA NextSlotValue ==
    ASSUME NEW s \in Slots
    PROVE  NextSlot(s) = IF s + 1 < FifoSize THEN s + 1 ELSE 0
BY UartAssumption DEF NextSlot, Slots

LEMMA UnreadInRange == ASSUME PortInv PROVE Unread \in 0..FifoSize
BY UartAssumption DEF PortInv, CountInv, QueueInv, Unread

(* What the abstract variables depend on.                                  *)
LEMMA ReceivedSame == ASSUME UNCHANGED <<fifo, head>>, Unread' = Unread PROVE Received' = Received
BY DEF Received

LEMMA TransmitSame ==
    ASSUME THRE \in lsr' <=> THRE \in lsr, UNCHANGED <<thr, dpc>>
    PROVE  Transmit' = Transmit
BY DEF Transmit

(* The queue is a sequence.                                                *)
LEMMA ReceivedIsSequence ==
    ASSUME PortInv
    PROVE  /\ Received \in Seq(Bytes)
           /\ Len(Received) = Unread
           /\ \A i \in 1..Unread : Received[i] = fifo[Slot(i - 1)]
<1>1. Unread \in Nat /\ Unread <= FifoSize
  BY UartAssumption, UnreadInRange
<1>2. \A i \in 1..Unread : Received[i] = fifo[Slot(i - 1)]
  <2>1. \A i \in 1..Unread : head + i - 1 = head + (i - 1)
    BY <1>1 DEF PortInv, TypeOK, DeviceTypeOK, Slots
  <2>2. QED
    BY <1>1, <2>1 DEF Received, Slot
<1>3. \A i \in 1..Unread : fifo[Slot(i - 1)] \in Bytes
  <2> SUFFICES ASSUME NEW i \in 1..Unread PROVE fifo[Slot(i - 1)] \in Bytes
    OBVIOUS
  <2>1. i - 1 \in 0..FifoSize
    BY UartAssumption, <1>1
  <2>2. Slot(i - 1) \in Slots
    BY <2>1, SlotValue DEF PortInv, TypeOK, DeviceTypeOK
  <2>3. QED
    BY <2>2 DEF PortInv, TypeOK, DeviceTypeOK
<1>4. Received \in [1..Unread -> Bytes]
  BY <1>2, <1>3 DEF Received
<1>5. QED
  BY <1>1, <1>2, <1>4

LEMMA TailAsFunction ==
    ASSUME NEW S, NEW s \in Seq(S), s # <<>>
    PROVE  Tail(s) = [i \in 1..(Len(s) - 1) |-> s[i + 1]]
<1> DEFINE t == Tail(s)
<1>1. /\ t \in Seq(S) /\ Len(t) = Len(s) - 1
      /\ \A i \in 1..(Len(s) - 1) : t[i] = s[i + 1]
  OBVIOUS
<1>2. \A u \in Seq(S) : u \in [1..Len(u) -> S]
  OBVIOUS
<1> HIDE DEF t
<1>3. t \in [1..(Len(s) - 1) -> S]
  BY <1>1, <1>2
<1>4. t = [i \in 1..(Len(s) - 1) |-> s[i + 1]]
  BY <1>1, <1>3
<1>5. QED
  BY <1>4 DEF t

(* The keyboard: a key is received at StoreCount.                          *)
LEMMA KeyboardSteps ==
    ASSUME Serial, PortInv, KeyboardStep
    PROVE  QueueInv' /\ (Port!Next \/ UNCHANGED Port!vars)
<1> USE UartAssumption
<1>t. /\ head \in Slots /\ tail \in Slots /\ fifo \in [Slots -> Bytes]
      /\ count \in 0..FifoSize /\ FifoSize \in 1..255
  BY DEF PortInv, TypeOK, DeviceTypeOK, CountInv
<1>k. UNCHANGED <<thr, head, gpc, gchar, gcount, dpc, answer, shown>>
  BY DEF KeyboardStep, Type, StoreByte, LoadCount, StoreCount, LoadLsr, SetReady,
         KeyboardOnly, guestVars, displayVars
<1>1. CASE (\E c \in Chars : Type(c)) \/ LoadCount \/ LoadLsr \/ SetReady
  <2>1. UNCHANGED <<fifo, tail, count>> /\ (THRE \in lsr' <=> THRE \in lsr)
    BY <1>1 DEF Type, LoadCount, LoadLsr, SetReady, PortInv, StatusInv, KeyboardInv,
       RX_READY, THRE
  <2>2. Received' = Received /\ Transmit' = Transmit
    BY <1>k, <2>1, ReceivedSame, TransmitSame DEF Unread
  <2>3. QueueInv'
    BY <1>1, <1>k, <2>1 DEF Type, LoadCount, LoadLsr, SetReady, PortInv, QueueInv, Slot, Unread
  <2>4. QED
    BY <1>k, <2>2, <2>3 DEF Port!vars
<1>2. CASE StoreByte
  <2>1. gpc = "idle" /\ dpc = "idle" /\ kkey \in Chars /\ count \in 0..(FifoSize - 1)
    BY <1>2, <1>t DEF StoreByte, PortInv, StatusInv, OneAtATime, QueueInv, CountInv
  <2>2. tail = Slot(count)
    BY <1>2, <2>1 DEF StoreByte, PortInv, QueueInv, Unread
  <2>3. /\ fifo' = [fifo EXCEPT ![tail] = kkey] /\ tail' = NextSlot(tail)
        /\ kpc' = "loadCount" /\ UNCHANGED <<lsr, count>>
    BY <1>2 DEF StoreByte
  <2>4. tail' = Slot(count + 1)'
    <3>1. Slot(count)' = Slot(count) /\ Slot(count + 1)' = Slot(count + 1)
      BY <1>k, <2>3 DEF Slot
    <3>2. Slot(count + 1) = IF head + (count + 1) < FifoSize THEN head + (count + 1)
                            ELSE head + (count + 1) - FifoSize
      BY <1>t, <2>1, SlotValue
    <3>3. Slot(count) = IF head + count < FifoSize THEN head + count ELSE head + count - FifoSize
      BY <1>t, <2>1, SlotValue
    <3>4. NextSlot(tail) = IF tail + 1 < FifoSize THEN tail + 1 ELSE 0
      BY <1>t, NextSlotValue
    <3>5. QED
      BY <1>t, <2>1, <2>2, <2>3, <3>1, <3>2, <3>3, <3>4 DEF Slots
  <2>5. fifo'[tail] = kkey
    BY <1>t, <2>3
  <2>6. Slot(count)' = tail
    BY <1>k, <2>2, <2>3 DEF Slot
  <2>7. QueueInv'
    BY <1>k, <2>1, <2>3, <2>4, <2>5, <2>6 DEF QueueInv
  <2>8. Received' = Received
    <3>1. Unread = count /\ Unread' = count
      BY <1>k, <2>1, <2>3 DEF Unread
    <3>2. ASSUME NEW i \in 1..count
          PROVE  fifo'[(head + i - 1) % FifoSize] = fifo[(head + i - 1) % FifoSize]
      <4>1. i - 1 \in 0..FifoSize /\ head + i - 1 = head + (i - 1)
        BY <1>t DEF Slots
      <4>2. Slot(i - 1) = IF head + (i - 1) < FifoSize THEN head + (i - 1)
                          ELSE head + (i - 1) - FifoSize
        BY <1>t, <4>1, SlotValue
      <4>3. Slot(count) = IF head + count < FifoSize THEN head + count ELSE head + count - FifoSize
        BY <1>t, <2>1, SlotValue
      <4>4. Slot(i - 1) # tail
        BY <1>t, <2>1, <2>2, <4>2, <4>3 DEF Slots
      <4>5. QED
        BY <1>t, <2>3, <4>1, <4>4 DEF Slot
    <3>3. QED
      BY <1>k, <1>t, <3>1, <3>2 DEF Received
  <2>9. Transmit' = Transmit
    BY <1>k, <2>3, TransmitSame
  <2>10. QED
    BY <1>k, <2>7, <2>8, <2>9 DEF Port!vars
<1>3. CASE StoreCount
  <2>1. /\ gpc = "idle" /\ dpc = "idle" /\ kcount = count
        /\ count \in 0..(FifoSize - 1) /\ count \in 0..254
    BY <1>3, <1>t DEF StoreCount, PortInv, StatusInv, OneAtATime, QueueInv, CountInv
  <2>2. tail = Slot(count + 1) /\ fifo[Slot(count)] \in Chars
    BY <1>3 DEF StoreCount, PortInv, QueueInv
  <2>3. /\ count' = count + 1 /\ kpc' = "loadLsr" /\ UNCHANGED <<lsr, fifo, tail>>
    BY <1>3, <2>1, IncrementInRange DEF StoreCount
  <2>4. Unread = count /\ Unread' = count + 1
    BY <1>k, <2>1, <2>3 DEF Unread
  <2>5. QueueInv'
    <3>1. tail' = Slot(Unread)'
      BY <1>k, <2>2, <2>3, <2>4 DEF Slot
    <3>2. QED
      BY <1>k, <2>1, <2>3, <3>1 DEF QueueInv
  <2> DEFINE c == fifo[Slot(count)]
  <2>6. Received' = Append(Received, c)
    <3>1. Received \in Seq(Bytes) /\ Len(Received) = count
      BY <2>4, ReceivedIsSequence
    <3>2. Received' = [i \in 1..(count + 1) |-> fifo[(head + i - 1) % FifoSize]]
      BY <1>k, <2>3, <2>4 DEF Received
    <3>3. Received = [i \in 1..count |-> fifo[(head + i - 1) % FifoSize]]
      BY <2>4 DEF Received
    <3>4. head + (count + 1) - 1 = head + count
      BY <1>t DEF Slots
    <3>5. Append(Received, c) = [i \in 1..(count + 1) |->
                                    IF i = count + 1 THEN c ELSE Received[i]]
      BY <2>1, <3>1
    <3>6. \A i \in 1..(count + 1) : (IF i = count + 1 THEN c ELSE Received[i])
                                        = fifo[(head + i - 1) % FifoSize]
      BY <2>1, <3>3, <3>4 DEF Slot
    <3>7. QED
      BY <3>2, <3>5, <3>6
  <2>7. Transmit' = Transmit
    BY <1>k, <2>3, TransmitSame
  <2>8. Len(Received) < FifoSize
    BY <1>t, <2>1, <2>4, ReceivedIsSequence
  <2>9. Port!Type(c)
    BY <1>k, <2>6, <2>7, <2>8 DEF Port!Type
  <2>10. QED
    BY <2>2, <2>5, <2>9 DEF Port!Next
<1>4. QED
  BY <1>1, <1>2, <1>3 DEF KeyboardStep

(* The guest: a byte is read at Pop, a character written at StoreThr, and  *)
(* a reset takes effect at ResetThr.                                       *)
LEMMA GuestSteps ==
    ASSUME Serial, LsrWrites = {}, PortInv, GuestStep
    PROVE  QueueInv' /\ (Port!Next \/ UNCHANGED Port!vars)
<1> USE UartAssumption
<1>t. /\ head \in Slots /\ tail \in Slots /\ fifo \in [Slots -> Bytes]
      /\ count \in 0..FifoSize /\ FifoSize \in 1..255
  BY DEF PortInv, TypeOK, DeviceTypeOK, CountInv
<1>k. UNCHANGED <<fifo, tail, kpc, kkey, kcount, dpc, shown>>
  BY DEF GuestStep, ReadEmpty, BeginRead, Pop, GuestLoadCount, GuestStoreCount, TestEmpty,
         GuestLoadLsr, ClearReady, BeginWrite, ClearThre, StoreThr, WriteLsr, WriteLcr,
         ResetThr, ResetLsr, GuestOnly, keyboardVars, displayVars
<1>i. gpc # "idle" => kpc = "idle" /\ dpc = "idle"
  BY DEF PortInv, StatusInv, OneAtATime
<1>1. CASE ReadEmpty
  <2>1. gpc = "idle" /\ kpc = "idle" /\ count = 0
    BY <1>1 DEF ReadEmpty, Turn, AtRest
  <2>2. /\ answer' = NUL /\ UNCHANGED <<lsr, thr, head, count, gpc, gchar, gcount>>
    BY <1>1 DEF ReadEmpty, guestVars
  <2>3. Unread = 0 /\ Unread' = 0
    BY <2>1, <2>2 DEF Unread
  <2>4. Received' = Received /\ Transmit' = Transmit
    BY <1>k, <2>2, <2>3, ReceivedSame, TransmitSame
  <2>5. Received = <<>>
    <3>1. Received \in Seq(Bytes) /\ Len(Received) = 0
      BY <2>3, ReceivedIsSequence
    <3>2. QED
      BY <3>1
  <2>6. QueueInv'
    BY <1>k, <2>2, <2>3 DEF PortInv, QueueInv, Slot
  <2>7. Port!ReadEmpty
    BY <1>k, <2>2, <2>4, <2>5 DEF Port!ReadEmpty
  <2>8. QED
    BY <2>6, <2>7 DEF Port!Next
<1>2. CASE Pop
  <2>1. gpc = "pop" /\ kpc = "idle" /\ dpc = "idle" /\ count \in 1..FifoSize
    BY <1>2, <1>i, <1>t DEF Pop, PortInv, CountInv
  <2>2. /\ answer' = fifo[head] /\ head' = NextSlot(head) /\ gpc' = "loadCount"
        /\ UNCHANGED <<lsr, thr, count, gchar, gcount>>
    BY <1>2 DEF Pop
  <2>3. Unread = count /\ Unread' = count - 1
    BY <2>1, <2>2 DEF Unread
  <2>4. ASSUME NEW k \in 0..(FifoSize - 1) PROVE Slot(k)' = Slot(k + 1)
    <3>1. NextSlot(head) = IF head + 1 < FifoSize THEN head + 1 ELSE 0
      BY <1>t, NextSlotValue
    <3>2. Slot(k + 1) = IF head + (k + 1) < FifoSize THEN head + (k + 1)
                        ELSE head + (k + 1) - FifoSize
      BY SlotValue, <1>t, k + 1 \in 0..FifoSize
    <3>3. CASE head + 1 < FifoSize
      <4>1. head' = head + 1 /\ head + 1 + k = head + (k + 1)
        BY <1>t, <2>2, <3>1, <3>3 DEF Slots
      <4>2. QED
        BY <4>1 DEF Slot
    <3>4. CASE head + 1 >= FifoSize
      <4>1. head' = 0 /\ Slot(k + 1) = k
        BY <1>t, <2>2, <3>1, <3>2, <3>4 DEF Slots
      <4>2. k % FifoSize = k /\ 0 + k = k
        BY <1>t
      <4>3. QED
        BY <4>1, <4>2 DEF Slot
    <3>5. QED
      BY <1>t, <3>3, <3>4 DEF Slots
  <2>5. tail' = Slot(Unread)'
    <3>1. Slot(count - 1)' = Slot(count)
      BY <1>t, <2>1, <2>2, <2>4
    <3>2. tail = Slot(count)
      BY <2>1, <2>3 DEF PortInv, QueueInv
    <3>3. QED
      BY <1>k, <2>2, <2>3, <3>1, <3>2
  <2>6. QueueInv'
    BY <1>k, <2>1, <2>2, <2>5 DEF QueueInv
  <2>7. Received # <<>> /\ answer' = Head(Received) /\ Received' = Tail(Received)
    <3>1. /\ Received \in Seq(Bytes) /\ Len(Received) = count
          /\ \A i \in 1..count : Received[i] = fifo[Slot(i - 1)]
      BY <2>3, ReceivedIsSequence
    <3>2. Slot(0) = head
      BY <1>t, SlotValue DEF Slots
    <3>3. Received # <<>> /\ Head(Received) = fifo[head]
      <4>1. 1 \in 1..count /\ 1 - 1 = 0
        BY <2>1
      <4>2. Received[1] = fifo[head]
        BY <3>1, <3>2, <4>1
      <4>3. QED
        BY <2>1, <3>1, <4>2
    <3>4. Tail(Received) = [i \in 1..(count - 1) |-> Received[i + 1]]
      BY <3>1, <3>3, TailAsFunction
    <3>5. ASSUME NEW i \in 1..(count - 1)
          PROVE  Received[i + 1] = fifo'[(head' + i - 1) % FifoSize]
      <4>1. i \in 0..(FifoSize - 1) /\ i - 1 \in 0..(FifoSize - 1) /\ i + 1 \in 1..count
            /\ (i + 1) - 1 = i /\ (i - 1) + 1 = i
        BY <1>t, <2>1
      <4>2. Received[i + 1] = fifo[Slot(i)]
        BY <3>1, <4>1
      <4>3. Slot(i - 1)' = Slot(i)
        BY <2>4, <4>1
      <4>4. head' \in Int
        BY <1>t, <2>2, NextSlotValue DEF Slots
      <4>5. Slot(i - 1)' = (head' + i - 1) % FifoSize
        <5>1. head' + (i - 1) = head' + i - 1
          BY <4>4
        <5>2. QED
          BY <5>1 DEF Slot
      <4>6. QED
        BY <1>k, <4>2, <4>3, <4>5
    <3>6. Received' = [i \in 1..(count - 1) |-> fifo'[(head' + i - 1) % FifoSize]]
      BY <2>3 DEF Received
    <3>7. QED
      BY <2>2, <3>3, <3>4, <3>5, <3>6
  <2>8. Transmit' = Transmit
    BY <1>k, <2>2, TransmitSame
  <2>9. Port!Read
    BY <1>k, <2>7, <2>8 DEF Port!Read
  <2>10. QED
    BY <2>6, <2>9 DEF Port!Next
<1>3. CASE BeginRead \/ GuestLoadCount \/ TestEmpty \/ GuestLoadLsr \/ ClearReady
  <2>1. UNCHANGED <<thr, head, count, gchar, answer>> /\ (THRE \in lsr' <=> THRE \in lsr)
    BY <1>3 DEF BeginRead, GuestLoadCount, TestEmpty, GuestLoadLsr, ClearReady, PortInv,
       StatusInv, GuestInv, RX_READY, THRE
  <2>2. Unread' = Unread
    BY <1>3, <2>1 DEF BeginRead, GuestLoadCount, TestEmpty, GuestLoadLsr, ClearReady, Unread
  <2>3. Received' = Received /\ Transmit' = Transmit
    BY <1>k, <2>1, <2>2, ReceivedSame, TransmitSame
  <2>4. QueueInv'
    <3>1. gpc' \notin {"clearThre", "storeThr"} /\ (gpc' = "storeCount" => gcount' = count)
      BY <1>3 DEF BeginRead, GuestLoadCount, TestEmpty, GuestLoadLsr, ClearReady
    <3>2. QED
      BY <1>k, <2>1, <2>2, <3>1 DEF PortInv, QueueInv, Slot
  <2>5. QED
    BY <1>k, <2>1, <2>3, <2>4 DEF Port!vars
<1>4. CASE GuestStoreCount
  <2>1. gpc = "storeCount" /\ kpc = "idle" /\ gcount = count /\ gcount \in 1..255
    BY <1>4, <1>i, <1>t DEF GuestStoreCount, PortInv, CountInv, QueueInv
  <2>2. count' = count - 1 /\ gpc' = "test" /\ UNCHANGED <<lsr, thr, head, gchar, answer>>
    BY <1>4, <2>1, DecrementInRange DEF GuestStoreCount
  <2>3. Unread' = Unread
    BY <2>1, <2>2 DEF Unread
  <2>4. Received' = Received /\ Transmit' = Transmit
    BY <1>k, <2>2, <2>3, ReceivedSame, TransmitSame
  <2>5. QueueInv'
    BY <1>k, <2>1, <2>2, <2>3 DEF PortInv, QueueInv, Slot
  <2>6. QED
    BY <1>k, <2>2, <2>4, <2>5 DEF Port!vars
<1>5. CASE (\E c \in Chars : BeginWrite(c)) \/ \E latch \in BOOLEAN : WriteLcr(latch)
  <2>1. UNCHANGED <<lsr, thr, head, count, answer>>
    BY <1>5 DEF BeginWrite, WriteLcr
  <2>2. Unread' = Unread
    BY <1>5 DEF BeginWrite, WriteLcr, guestVars, Unread
  <2>3. Received' = Received /\ Transmit' = Transmit
    BY <1>k, <2>1, <2>2, ReceivedSame, TransmitSame
  <2>4. QueueInv'
    <3>1. (gpc' = "clearThre" /\ gchar' \in Chars) \/ UNCHANGED <<gpc, gchar, gcount>>
      BY <1>5 DEF BeginWrite, WriteLcr, guestVars
    <3>2. QED
      BY <1>k, <2>1, <2>2, <3>1 DEF PortInv, QueueInv, Slot
  <2>5. QED
    BY <1>k, <2>1, <2>3, <2>4 DEF Port!vars
<1>6. CASE ClearThre \/ ResetLsr
  <2>1. UNCHANGED <<thr, head, count, gchar, gcount, answer>> /\ gpc' # "storeCount"
    BY <1>6 DEF ClearThre, ResetLsr
  <2>2. Unread' = Unread
    BY <1>6, <2>1 DEF ClearThre, ResetLsr, Unread
  <2>3. Received' = Received
    BY <1>k, <2>1, <2>2, ReceivedSame
  <2>4. Transmit' = Transmit
    BY <1>6, <1>k, <1>i DEF ClearThre, ResetLsr, PortInv, StatusInv, ThreIsTrue, GuestInv,
       Transmit
  <2>5. QueueInv'
    BY <1>6, <1>k, <2>1, <2>2 DEF ClearThre, ResetLsr, PortInv, QueueInv, Slot
  <2>6. QED
    BY <1>k, <2>1, <2>3, <2>4, <2>5 DEF Port!vars
<1>7. CASE StoreThr
  <2>1. gpc = "storeThr" /\ gchar \in Chars /\ dpc = "idle" /\ THRE \notin lsr
    BY <1>7, <1>i DEF StoreThr, PortInv, QueueInv, StatusInv, GuestInv
  <2>2. thr' = gchar /\ gpc' = "idle" /\ UNCHANGED <<lsr, head, count, gcount, answer>>
    BY <1>7 DEF StoreThr
  <2>3. Unread' = Unread
    BY <2>1, <2>2 DEF Unread
  <2>4. Received' = Received /\ Transmit' = gchar
    BY <1>k, <2>1, <2>2, <2>3, ReceivedSame DEF Transmit
  <2>5. QueueInv'
    BY <1>k, <2>2, <2>3 DEF PortInv, QueueInv, Slot
  <2>6. Port!Write(gchar)
    BY <1>k, <2>2, <2>4 DEF Port!Write
  <2>7. QED
    BY <2>1, <2>5, <2>6 DEF Port!Next
<1>8. CASE ResetThr
  <2>1. /\ gpc = "idle" /\ thr' = NUL /\ gpc' = "resetLsr"
        /\ UNCHANGED <<lsr, head, count, gchar, gcount, answer>>
    BY <1>8 DEF ResetThr
  <2>2. Unread' = Unread
    BY <2>1 DEF Unread
  <2>3. Received' = Received /\ Transmit' = NUL
    BY <1>k, <2>1, <2>2, ReceivedSame DEF Transmit
  <2>4. QueueInv'
    BY <1>k, <2>1, <2>2 DEF PortInv, QueueInv, Slot
  <2>5. Port!Reset
    BY <1>k, <2>1, <2>3 DEF Port!Reset
  <2>6. QED
    BY <2>4, <2>5 DEF Port!Next
<1>9. QED
  BY <1>1, <1>2, <1>3, <1>4, <1>5, <1>6, <1>7, <1>8 DEF GuestStep

(* The display: the character is drawn at Draw.                            *)
LEMMA DisplaySteps ==
    ASSUME Serial, PortInv, DisplayStep
    PROVE  QueueInv' /\ (Port!Next \/ UNCHANGED Port!vars)
<1>k. UNCHANGED <<fifo, head, tail, count, kpc, kkey, kcount, gpc, gchar, gcount, answer>>
  BY DEF DisplayStep, CheckIdle, Draw, DisplayLoadLsr, SetThre, ClearThr, DisplayOnly,
         fifoVars, keyboardVars, guestVars
<1>q. QueueInv' /\ Received' = Received
  <2>1. Unread' = Unread
    BY <1>k DEF Unread
  <2>2. QED
    BY <1>k, <2>1, ReceivedSame DEF PortInv, QueueInv, Slot
<1>1. CASE Draw
  <2>1. dpc = "draw" /\ THRE \notin lsr /\ gpc = "idle"
    BY <1>1 DEF Draw, PortInv, StatusInv, OneAtATime, DisplayInv
  <2>2. thr # NUL
    BY <2>1 DEF PortInv, StatusInv, ThreIsTrue
  <2>3. Transmit = thr /\ Transmit' = NUL /\ shown' = thr
    BY <1>1, <2>1 DEF Draw, Transmit
  <2>4. Port!Draw
    BY <1>k, <1>q, <2>2, <2>3 DEF Port!Draw
  <2>5. QED
    BY <1>q, <2>4 DEF Port!Next
<1>2. CASE CheckIdle \/ DisplayLoadLsr \/ SetThre \/ ClearThr
  <2>1. shown' = shown
    BY <1>2 DEF CheckIdle, DisplayLoadLsr, SetThre, ClearThr
  <2>2. Transmit' = Transmit
    BY <1>2 DEF CheckIdle, DisplayLoadLsr, SetThre, ClearThr, PortInv, StatusInv, DisplayInv,
       Transmit
  <2>3. QED
    BY <1>k, <1>q, <2>1, <2>2 DEF Port!vars
<1>3. QED
  BY <1>1, <1>2 DEF DisplayStep

LEMMA InitPort == Init => PortInv /\ Port!Init
<1> SUFFICES ASSUME Init PROVE PortInv /\ Port!Init
  OBVIOUS
<1>1. TypeOK /\ CountInv /\ StatusInv
  BY InitTypeOK, InitCountInv, InitStatusInv
<1>2. Unread = 0 /\ head = 0 /\ tail = 0 /\ kpc = "idle" /\ gpc = "idle"
  BY DEF Init, Unread
<1>3. Slot(0) = 0
  BY <1>2, UartAssumption DEF Slot
<1>4. PortInv
  BY <1>1, <1>2, <1>3 DEF PortInv, QueueInv
<1>5. Received = <<>>
  <2>1. Received \in Seq(Bytes) /\ Len(Received) = 0
    BY <1>2, <1>4, ReceivedIsSequence
  <2>2. QED
    BY <2>1
<1>6. QED
  BY <1>4, <1>5 DEF Init, Port!Init, Transmit

(* The UART, one operation at a time, is the serial port: every key typed  *)
(* is read once and in order, every character written is drawn once unless *)
(* another replaces it or a reset discards it, with a FIFO of any size and *)
(* any number of wrap-arounds.                                             *)
THEOREM PortIsImplemented == ASSUME Serial, LsrWrites = {} PROVE Spec => ImplementsPort
<1>1. PortInv /\ [Next]_vars => PortInv' /\ [Port!Next]_Port!vars
  <2> SUFFICES ASSUME PortInv, [Next]_vars PROVE PortInv' /\ [Port!Next]_Port!vars
    OBVIOUS
  <2>1. TypeOK' /\ CountInv' /\ StatusInv'
    BY TypeOKIsInductive, CountInvIsInductive, StatusInvIsInductive DEF PortInv
  <2>2. QueueInv' /\ (Port!Next \/ UNCHANGED Port!vars)
    <3>1. CASE Next
      BY <3>1, KeyboardSteps, GuestSteps, DisplaySteps DEF Next
    <3>2. CASE UNCHANGED vars
      BY <3>2 DEF vars, fifoVars, keyboardVars, guestVars, displayVars, PortInv, QueueInv,
         Slot, Unread, Received, Transmit, Port!vars
    <3>3. QED
      BY <3>1, <3>2
  <2>3. QED
    BY <2>1, <2>2 DEF PortInv
<1>2. QED
  BY InitPort, <1>1, PTL DEF Spec, ImplementsPort, Port!Spec

=============================================================================
