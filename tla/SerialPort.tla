----------------------------- MODULE SerialPort -----------------------------
(***************************************************************************)
(* What the UART promises the guest, the user and the screen: a bounded    *)
(* queue of typed characters in one direction, one character on its way to *)
(* the screen in the other.  Uart, run one operation at a time, implements *)
(* it.                                                                     *)
(***************************************************************************)
EXTENDS Sequences, Naturals

CONSTANTS
    FifoSize,   \* UART_FIFO_SIZE
    Chars,      \* characters that are typed or written
    NUL         \* no character: the byte 0

VARIABLES
    received,   \* typed, not yet read by the guest
    transmit,   \* written by the guest, not yet drawn
    answer,     \* what the guest's last read returned
    shown       \* the character drawn last

vars == <<received, transmit, answer, shown>>

Init ==
    /\ received = <<>>
    /\ transmit = NUL
    /\ answer = NUL
    /\ shown = NUL

\* A full queue drops what is typed.
Type(c) ==
    /\ Len(received) < FifoSize
    /\ received' = Append(received, c)
    /\ UNCHANGED <<transmit, answer, shown>>

Read ==
    /\ received # <<>>
    /\ answer' = Head(received)
    /\ received' = Tail(received)
    /\ UNCHANGED <<transmit, shown>>

ReadEmpty ==
    /\ received = <<>>
    /\ answer' = NUL
    /\ UNCHANGED <<received, transmit, shown>>

\* A second write before the first is drawn replaces it.
Write(c) ==
    /\ transmit' = c
    /\ UNCHANGED <<received, answer, shown>>

Draw ==
    /\ transmit # NUL
    /\ shown' = transmit
    /\ transmit' = NUL
    /\ UNCHANGED <<received, answer>>

\* Resetting the machine keeps what was typed.
Reset ==
    /\ transmit' = NUL
    /\ UNCHANGED <<received, answer, shown>>

Next ==
    \/ \E c \in Chars : Type(c) \/ Write(c)
    \/ Read \/ ReadEmpty
    \/ Draw
    \/ Reset

Spec == Init /\ [][Next]_vars

=============================================================================
