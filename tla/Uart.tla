-------------------------------- MODULE Uart --------------------------------
(***************************************************************************)
(* The UART (src/src/uart.c) and the three threads that use it without a   *)
(* lock: the keyboard thread fills the receive FIFO (process_uart_input),  *)
(* the simulator thread runs the guest's loads and stores and resets the   *)
(* device, the display thread takes the character to draw                  *)
(* (display_screen).  An action is one access to a byte that another       *)
(* thread also uses; the ++, --, |= and &= of the source are a load and a  *)
(* store.  Each thread's accesses happen in the order of its code.         *)
(*                                                                         *)
(* Of LSR the bits RX_READY and THRE are kept, the latter for the two bits *)
(* that are always set and cleared together; of LCR the divisor latch bit. *)
(* The other registers hold what the guest last stored there and are left  *)
(* out.                                                                    *)
(***************************************************************************)
EXTENDS Naturals

CONSTANTS
    FifoSize,    \* UART_FIFO_SIZE
    Chars,       \* characters that are typed or written: bytes other than 0
    NUL,         \* the byte 0
    LsrWrites,   \* values the guest stores into LSR
    Serial       \* TRUE: a thread begins only while the others are idle

ASSUME UartAssumption ==
    /\ FifoSize \in 1..255
    /\ NUL \notin Chars
    /\ LsrWrites \subseteq SUBSET {"RX_READY", "THRE"}
    /\ Serial \in BOOLEAN

RX_READY == "RX_READY"
THRE == "THRE"
Flags == {RX_READY, THRE}
Bytes == Chars \cup {NUL}
Slots == 0..(FifoSize - 1)

VARIABLES
    lsr, thr, dlab,
    fifo, head, tail, count,   \* fifo_count is a uint8_t
    kpc, kkey, kcount, klsr,   \* keyboard thread: place, data->key, registers
    gpc, gchar, gcount, glsr,  \* simulator thread
    dpc, dlsr,                 \* display thread
    answer,                    \* what the guest's last read of RBR returned
    shown,                     \* the character drawn last
    seen                       \* history: the display has read the present THR

fifoVars == <<fifo, head, tail, count>>
keyboardVars == <<kpc, kkey, kcount, klsr>>
guestVars == <<gpc, gchar, gcount, glsr>>
displayVars == <<dpc, dlsr>>
vars == <<lsr, thr, dlab, fifoVars, keyboardVars, guestVars, displayVars, answer, shown, seen>>

Uint8 == 0..255

DeviceTypeOK ==
    /\ lsr \subseteq Flags
    /\ thr \in Bytes
    /\ dlab \in BOOLEAN
    /\ fifo \in [Slots -> Bytes]
    /\ head \in Slots /\ tail \in Slots
    /\ count \in Uint8

KeyboardTypeOK ==
    /\ kpc \in {"idle", "storeByte", "loadCount", "storeCount", "loadLsr", "storeLsr"}
    /\ kkey \in Bytes
    /\ kcount \in Uint8
    /\ klsr \subseteq Flags

GuestTypeOK ==
    /\ gpc \in {"idle", "pop", "loadCount", "storeCount", "test", "loadLsr", "clearReady",
                "clearThre", "storeThr", "resetLsr"}
    /\ gchar \in Bytes
    /\ gcount \in Uint8
    /\ glsr \subseteq Flags

DisplayTypeOK ==
    /\ dpc \in {"idle", "draw", "loadLsr", "storeLsr", "clearThr"}
    /\ dlsr \subseteq Flags

TypeOK ==
    /\ DeviceTypeOK /\ KeyboardTypeOK /\ GuestTypeOK /\ DisplayTypeOK
    /\ answer \in Bytes
    /\ shown \in Bytes
    /\ seen \in BOOLEAN

\* uart_init over static storage
Init ==
    /\ lsr = {THRE} /\ thr = NUL /\ dlab = FALSE
    /\ fifo = [s \in Slots |-> NUL]
    /\ head = 0 /\ tail = 0 /\ count = 0
    /\ kpc = "idle" /\ kkey = NUL /\ kcount = 0 /\ klsr = {}
    /\ gpc = "idle" /\ gchar = NUL /\ gcount = 0 /\ glsr = {}
    /\ dpc = "idle" /\ dlsr = {}
    /\ answer = NUL /\ shown = NUL /\ seen = FALSE

Increment(n) == (n + 1) % 256
Decrement(n) == (n + 255) % 256

\* Mutant: the index does not wrap around.
NextSlotUnwrapped(s) == s + 1

NextSlot(s) == (s + 1) % FifoSize

AtRest == kpc = "idle" /\ gpc = "idle" /\ dpc = "idle"

Turn == Serial => AtRest

-----------------------------------------------------------------------------
(* The keyboard thread: process_uart_input, from the test of fifo_count to *)
(* the update of LSR.                                                      *)

KeyboardOnly == UNCHANGED <<thr, dlab, head, guestVars, displayVars, answer, shown, seen>>

\* Mutant: the key is stored whether or not there is room.
TypeUnchecked(c) ==
    /\ kpc = "idle" /\ Turn
    /\ kpc' = "storeByte"
    /\ kkey' = c
    /\ UNCHANGED <<lsr, fifo, tail, count, kcount, klsr>>
    /\ KeyboardOnly

\* A key that finds the FIFO full is dropped.
Type(c) ==
    /\ kpc = "idle" /\ Turn
    /\ count < FifoSize
    /\ kpc' = "storeByte"
    /\ kkey' = c
    /\ UNCHANGED <<lsr, fifo, tail, count, kcount, klsr>>
    /\ KeyboardOnly

\* Mutant: the tail is not advanced.
StoreByteInPlace ==
    /\ kpc = "storeByte"
    /\ fifo' = [fifo EXCEPT ![tail] = kkey]
    /\ kpc' = "loadCount"
    /\ kkey' = NUL
    /\ UNCHANGED <<lsr, tail, count, kcount, klsr>>
    /\ KeyboardOnly

StoreByte ==
    /\ kpc = "storeByte"
    /\ fifo' = [fifo EXCEPT ![tail] = kkey]
    /\ tail' = NextSlot(tail)
    /\ kpc' = "loadCount"
    /\ kkey' = NUL
    /\ UNCHANGED <<lsr, count, kcount, klsr>>
    /\ KeyboardOnly

LoadCount ==
    /\ kpc = "loadCount"
    /\ kcount' = count
    /\ kpc' = "storeCount"
    /\ UNCHANGED <<lsr, fifo, tail, count, kkey, klsr>>
    /\ KeyboardOnly

StoreCount ==
    /\ kpc = "storeCount"
    /\ count' = Increment(kcount)
    /\ kcount' = 0
    /\ kpc' = "loadLsr"
    /\ UNCHANGED <<lsr, fifo, tail, kkey, klsr>>
    /\ KeyboardOnly

LoadLsr ==
    /\ kpc = "loadLsr"
    /\ klsr' = lsr
    /\ kpc' = "storeLsr"
    /\ UNCHANGED <<lsr, fifo, tail, count, kkey, kcount>>
    /\ KeyboardOnly

SetReady ==
    /\ kpc = "storeLsr"
    /\ lsr' = klsr \cup {RX_READY}
    /\ klsr' = {}
    /\ kpc' = "idle"
    /\ UNCHANGED <<fifo, tail, count, kkey, kcount>>
    /\ KeyboardOnly

-----------------------------------------------------------------------------
(* The simulator thread: uart_read, uart_write and uart_init.  A load or   *)
(* store of port 0 with the divisor latch open reaches DLL and changes     *)
(* nothing kept here.                                                      *)

GuestOnly == UNCHANGED <<tail, fifo, keyboardVars, displayVars, shown>>

ReadEmpty ==
    /\ gpc = "idle" /\ Turn /\ ~dlab
    /\ count = 0
    /\ answer' = NUL
    /\ UNCHANGED <<lsr, thr, dlab, head, count, guestVars, seen>>
    /\ GuestOnly

BeginRead ==
    /\ gpc = "idle" /\ Turn /\ ~dlab
    /\ count > 0
    /\ gpc' = "pop"
    /\ UNCHANGED <<lsr, thr, dlab, head, count, gchar, gcount, glsr, answer, seen>>
    /\ GuestOnly

Pop ==
    /\ gpc = "pop"
    /\ answer' = fifo[head]
    /\ head' = NextSlot(head)
    /\ gpc' = "loadCount"
    /\ UNCHANGED <<lsr, thr, dlab, count, gchar, gcount, glsr, seen>>
    /\ GuestOnly

GuestLoadCount ==
    /\ gpc = "loadCount"
    /\ gcount' = count
    /\ gpc' = "storeCount"
    /\ UNCHANGED <<lsr, thr, dlab, head, count, gchar, glsr, answer, seen>>
    /\ GuestOnly

GuestStoreCount ==
    /\ gpc = "storeCount"
    /\ count' = Decrement(gcount)
    /\ gcount' = Decrement(gcount)
    /\ gpc' = "test"
    /\ UNCHANGED <<lsr, thr, dlab, head, gchar, glsr, answer, seen>>
    /\ GuestOnly

\* "if (fifo_count == 0)": the build may test its register or load the byte again.
TestEmpty ==
    /\ gpc = "test"
    /\ \E n \in {gcount, count} : gpc' = (IF n = 0 THEN "loadLsr" ELSE "idle")
    /\ gcount' = 0
    /\ UNCHANGED <<lsr, thr, dlab, head, count, gchar, glsr, answer, seen>>
    /\ GuestOnly

GuestLoadLsr ==
    /\ gpc = "loadLsr"
    /\ glsr' = lsr
    /\ gpc' = "clearReady"
    /\ UNCHANGED <<lsr, thr, dlab, head, count, gchar, gcount, answer, seen>>
    /\ GuestOnly

\* Mutant: the ready bit survives the last byte.
ClearReadyNot ==
    /\ gpc = "clearReady"
    /\ lsr' = glsr
    /\ glsr' = {}
    /\ gpc' = "idle"
    /\ UNCHANGED <<thr, dlab, head, count, gchar, gcount, answer, seen>>
    /\ GuestOnly

ClearReady ==
    /\ gpc = "clearReady"
    /\ lsr' = glsr \ {RX_READY}
    /\ glsr' = {}
    /\ gpc' = "idle"
    /\ UNCHANGED <<thr, dlab, head, count, gchar, gcount, answer, seen>>
    /\ GuestOnly

\* The guest does not have to look at LSR first.
BeginWrite(c) ==
    /\ gpc = "idle" /\ Turn /\ ~dlab
    /\ gchar' = c
    /\ glsr' = lsr
    /\ gpc' = "clearThre"
    /\ UNCHANGED <<lsr, thr, dlab, head, count, gcount, answer, seen>>
    /\ GuestOnly

ClearThre ==
    /\ gpc = "clearThre"
    /\ lsr' = glsr \ {THRE}
    /\ glsr' = {}
    /\ gpc' = "storeThr"
    /\ UNCHANGED <<thr, dlab, head, count, gchar, gcount, answer, seen>>
    /\ GuestOnly

StoreThr ==
    /\ gpc = "storeThr"
    /\ thr' = gchar
    /\ seen' = FALSE
    /\ gchar' = NUL
    /\ gpc' = "idle"
    /\ UNCHANGED <<lsr, dlab, head, count, gcount, glsr, answer>>
    /\ GuestOnly

\* LSR is an ordinary register to a store.
WriteLsr(flags) ==
    /\ gpc = "idle" /\ Turn
    /\ lsr' = flags
    /\ UNCHANGED <<thr, dlab, head, count, guestVars, answer, seen>>
    /\ GuestOnly

WriteLcr(latch) ==
    /\ gpc = "idle" /\ Turn
    /\ dlab' = latch
    /\ UNCHANGED <<lsr, thr, head, count, guestVars, answer, seen>>
    /\ GuestOnly

\* uart_init as part of reset_system: the FIFO is left as it is.
ResetThr ==
    /\ gpc = "idle" /\ Turn
    /\ thr' = NUL
    /\ dlab' = FALSE
    /\ seen' = FALSE
    /\ gpc' = "resetLsr"
    /\ UNCHANGED <<lsr, head, count, gchar, gcount, glsr, answer>>
    /\ GuestOnly

ResetLsr ==
    /\ gpc = "resetLsr"
    /\ lsr' = {THRE}
    /\ gpc' = "idle"
    /\ UNCHANGED <<thr, dlab, head, count, gchar, gcount, glsr, answer, seen>>
    /\ GuestOnly

-----------------------------------------------------------------------------
(* The display thread: display_screen.  It comes round again and again in  *)
(* fast mode, and once after every step otherwise.                         *)

DisplayOnly == UNCHANGED <<dlab, fifoVars, keyboardVars, guestVars, answer>>

CheckIdle ==
    /\ dpc = "idle" /\ Turn
    /\ THRE \notin lsr
    /\ dpc' = "draw"
    /\ UNCHANGED <<lsr, thr, dlsr, shown, seen>>
    /\ DisplayOnly

Draw ==
    /\ dpc = "draw"
    /\ shown' = thr
    /\ seen' = (thr # NUL)
    /\ dpc' = "loadLsr"
    /\ UNCHANGED <<lsr, thr, dlsr>>
    /\ DisplayOnly

DisplayLoadLsr ==
    /\ dpc = "loadLsr"
    /\ dlsr' = lsr
    /\ dpc' = "storeLsr"
    /\ UNCHANGED <<lsr, thr, shown, seen>>
    /\ DisplayOnly

\* Mutant: the display does not report the register empty.
SetThreNot ==
    /\ dpc = "storeLsr"
    /\ lsr' = dlsr
    /\ dlsr' = {}
    /\ dpc' = "clearThr"
    /\ UNCHANGED <<thr, shown, seen>>
    /\ DisplayOnly

SetThre ==
    /\ dpc = "storeLsr"
    /\ lsr' = dlsr \cup {THRE}
    /\ dlsr' = {}
    /\ dpc' = "clearThr"
    /\ UNCHANGED <<thr, shown, seen>>
    /\ DisplayOnly

\* Mutant: the character stays in THR.
ClearThrNot ==
    /\ dpc = "clearThr"
    /\ dpc' = "idle"
    /\ UNCHANGED <<lsr, thr, dlsr, shown, seen>>
    /\ DisplayOnly

ClearThr ==
    /\ dpc = "clearThr"
    /\ thr' = NUL
    /\ seen' = FALSE
    /\ dpc' = "idle"
    /\ UNCHANGED <<lsr, dlsr, shown>>
    /\ DisplayOnly

-----------------------------------------------------------------------------

KeyboardStep ==
    \/ \E c \in Chars : Type(c)
    \/ StoreByte \/ LoadCount \/ StoreCount \/ LoadLsr \/ SetReady

GuestStep ==
    \/ ReadEmpty
    \/ BeginRead \/ Pop \/ GuestLoadCount \/ GuestStoreCount \/ TestEmpty
    \/ GuestLoadLsr \/ ClearReady
    \/ \E c \in Chars : BeginWrite(c)
    \/ ClearThre \/ StoreThr
    \/ \E flags \in LsrWrites : WriteLsr(flags)
    \/ \E latch \in BOOLEAN : WriteLcr(latch)
    \/ ResetThr \/ ResetLsr

DisplayStep == CheckIdle \/ Draw \/ DisplayLoadLsr \/ SetThre \/ ClearThr

Next == KeyboardStep \/ GuestStep \/ DisplayStep

\* The display thread is scheduled; the user and the guest may stop.
Spec == Init /\ [][Next]_vars /\ WF_vars(DisplayStep)

-----------------------------------------------------------------------------
(* Properties.                                                             *)

(* However the two threads' updates of fifo_count collide, it never leaves *)
(* the range of the FIFO: an increment lost or a decrement lost makes it   *)
(* wrong, but a push never fills more than the last slot and a pop never   *)
(* wraps it around to 255.                                                 *)
CountWithinFifo == count <= FifoSize

(* A character the guest stored in THR is drawn at most once, even when a  *)
(* stale LSR is stored over the display's and the register looks full      *)
(* again.                                                                  *)
DrawnAtMostOnce == dpc = "draw" => ~seen

(* A guest that waits for THRE before it writes is not kept waiting for    *)
(* ever: neither races on LSR, nor resets, nor its own stores into LSR     *)
(* leave THRE clear.                                                       *)
TransmitterRecovers == THRE \notin lsr ~> THRE \in lsr

(* Between operations, LSR tells the guest the truth: RX_READY means that  *)
(* a byte can be read, and THRE that nothing waits to be drawn.  (Serial)  *)
StatusIsTrue ==
    AtRest => /\ RX_READY \in lsr => count > 0
              /\ THRE \in lsr <=> thr = NUL

(* The simple machine behind the device: a queue and a holding register.   *)
(* A read takes effect at Pop, a key at StoreCount, a drawing at Draw.     *)
Unread == IF gpc \in {"loadCount", "storeCount"} THEN count - 1 ELSE count

Received == [i \in 1..Unread |-> fifo[(head + i - 1) % FifoSize]]

Transmit == IF THRE \in lsr \/ dpc \in {"loadLsr", "storeLsr", "clearThr"} THEN NUL ELSE thr

Port == INSTANCE SerialPort WITH received <- Received, transmit <- Transmit

(* One operation at a time, the device is that machine: what is typed is   *)
(* read in order and once, what is written is drawn once, across resets    *)
(* and whatever the divisor latch hides.  (Serial)                         *)
ImplementsPort == Port!Spec

(* "if not idle, mean that data is ok" (display.c:139): when the display   *)
(* finds THRE clear, THR holds a character to draw.                        *)
NotIdleMeansDataOk == dpc = "draw" => thr # NUL

(* fifo_count is the "number of bytes in the FIFO" (uart.h:47): between    *)
(* operations it agrees with the distance from head to tail.               *)
CountIsContents == AtRest => count % FifoSize = (tail + FifoSize - head) % FifoSize

=============================================================================
