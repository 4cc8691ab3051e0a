-------------------------- MODULE InterruptsProofs --------------------------
(***************************************************************************)
(* The safety properties of Interrupts, for every clock, every set of      *)
(* enables and every guest.                                                *)
(***************************************************************************)
EXTENDS Interrupts, TLAPS

(* The steps that store mip or change what is said of it; no other does.   *)

MidUpdate == place[S] \in {"load", "store"}

(* What is about to be stored is what the update makes of some value.      *)
CopyIsUpdated ==
    /\ place[K] = "store" => "MEIP" \in copy[K]
    /\ place[S] = "store" => \A b \in Touched(update) :
           IF b \in update.set THEN b \in copy[S] ELSE b \notin copy[S]

(* handle_interrupt clears MEIP for an interrupt it has taken, and an      *)
(* update of MSIP says whether the request is open.                        *)
UpdateIsMeant ==
    MidUpdate =>
        /\ "MEIP" \in update.clear /\ update.then = "execute" => taken
        /\ "MSIP" \in Touched(update) => (asked <=> "MSIP" \in update.set)

IInv == TypeOK /\ CopyIsUpdated /\ UpdateIsMeant
        /\ PendingIsAnnounced /\ SoftwareExactlyOnce

-----------------------------------------------------------------------------
(* Helpers.                                                                *)

LEMMA ThreadsDiffer == K # T /\ K # S /\ T # S /\ K \in Threads /\ T \in Threads /\ S \in Threads
BY DEF K, T, S, Threads

LEMMA GotoMoves ==
    ASSUME TypeOK, NEW t \in Threads, NEW there, Goto(t, there)
    PROVE  /\ place'[t] = there
           /\ \A u \in Threads \ {t} : place'[u] = place[u]
           /\ there \in Places => place' \in [Threads -> Places]
BY DEF TypeOK, Goto

LEMMA ApplyTypes ==
    ASSUME NEW u \in Updates, NEW m \in SUBSET Bits
    PROVE  /\ Apply(u, m) \in SUBSET Bits
           /\ \A b \in Touched(u) : IF b \in u.set THEN b \in Apply(u, m) ELSE b \notin Apply(u, m)
BY DEF Updates, Apply, Touched

LEMMA GuestUpdateTypes == \A u \in GuestUpdates : u \in Updates /\ u.then = "handle"
BY InterruptAssumption

LEMMA ConstantTypes ==
    /\ MaxTime \in Nat /\ Never \in Nat /\ MaxTime < Never
    /\ Alarms \in SUBSET (0..Never)
    /\ EnableValues \in SUBSET SUBSET Sources
    /\ 0 \in 0..MaxTime /\ 0 \in 0..Never /\ Never \in 0..Never
    /\ 0 \in 0..EXTERNAL /\ SOFTWARE \in 0..EXTERNAL /\ TIMER \in 0..EXTERNAL /\ EXTERNAL \in 0..EXTERNAL
BY InterruptAssumption DEF Never, SOFTWARE, TIMER, EXTERNAL

LEMMA InitIInv == Init => IInv
<1> SUFFICES ASSUME Init PROVE IInv
  OBVIOUS
<1> USE ThreadsDiffer DEF Init
<1>1. TypeOK
  BY ConstantTypes DEF TypeOK, Places, NoUpdate, Updates, Bits, Sources
<1>2. place[S] = "stopped" /\ place[K] = "poll"
  OBVIOUS
<1>3. CopyIsUpdated /\ UpdateIsMeant
  BY <1>2 DEF CopyIsUpdated, UpdateIsMeant, MidUpdate
<1>4. PendingIsAnnounced
  BY DEF PendingIsAnnounced
<1>5. "MSIP" \notin mip /\ asked = FALSE
  OBVIOUS
<1>6. SoftwareExactlyOnce
  BY <1>5 DEF SoftwareExactlyOnce
<1>7. QED
  BY <1>1, <1>3, <1>4, <1>6 DEF IInv

-----------------------------------------------------------------------------
(* Updates of mip.                                                         *)

LEMMA LoadKeeps == ASSUME IInv, NEW t \in Threads, Load(t) PROVE IInv'
<1> USE ThreadsDiffer DEF IInv, plic, clint, hart, history
<1>1. /\ place'[t] = "store" /\ place[t] = "load"
      /\ \A u \in Threads \ {t} : place'[u] = place[u]
      /\ place' \in [Threads -> Places]
  BY GotoMoves DEF Load, Places
<1>2. copy'[t] = Apply(UpdateBy(t), mip) /\ \A u \in Threads \ {t} : copy'[u] = copy[u]
  BY DEF Load, TypeOK
<1>3. copy'[t] \in SUBSET Bits
  BY <1>2 DEF TypeOK, UpdateBy, TellKey, TellTimer, Apply, Updates, Bits
<1>4. UNCHANGED <<update, mip, pending, open, mtime, mtimecmp, ie, current_priority,
                  taken, asked, lost>>
  BY DEF Load
<1>5. TypeOK'
  BY <1>1, <1>2, <1>3, <1>4 DEF TypeOK, Load, Threads, K, T, S
<1>6. CopyIsUpdated'
  <2>1. CASE t = K
    BY <1>1, <1>2, <1>4, <2>1 DEF CopyIsUpdated, UpdateBy, TellKey, Apply
  <2>2. CASE t = T
    BY <1>1, <1>2, <1>4, <2>2 DEF CopyIsUpdated
  <2>3. CASE t = S
    <3>1. copy'[S] = Apply(update, mip)
      BY <1>2, <2>3 DEF UpdateBy
    <3>2. \A b \in Touched(update) : IF b \in update.set THEN b \in copy'[S] ELSE b \notin copy'[S]
      BY <3>1, ApplyTypes DEF TypeOK
    <3>3. QED
      BY <1>1, <1>2, <1>4, <2>3, <3>2 DEF CopyIsUpdated, Touched
  <2>4. QED
    BY <2>1, <2>2, <2>3 DEF Threads
<1>7. MidUpdate' = MidUpdate /\ (place'[K] = "poll" => place[K] = "poll")
  BY <1>1 DEF MidUpdate
<1>8. UpdateIsMeant' /\ PendingIsAnnounced'
  BY <1>4, <1>7 DEF UpdateIsMeant, PendingIsAnnounced, Touched
<1>9. SoftwareExactlyOnce'
  BY <1>4, <1>7 DEF SoftwareExactlyOnce, MidUpdate, Touched
<1>10. QED
  BY <1>5, <1>6, <1>8, <1>9

LEMMA StoreKeeps == ASSUME IInv, NEW t \in Threads, Store(t) PROVE IInv'
<1> USE ThreadsDiffer DEF IInv, plic, clint, hart
<1> DEFINE u == UpdateBy(t)
<1>1. /\ place[t] = "store" /\ mip' = copy[t]
      /\ lost' = (lost \ Touched(u))
                 \cup {b \in Bits \ Touched(u) : (b \in copy[t]) # (b \in mip)}
                 \cup {b \in u.clear : b = "MEIP" /\ u.then = "handle" /\ ~taken}
      /\ copy' = [copy EXCEPT ![t] = {}]
      /\ update' = (IF t = S THEN NoUpdate ELSE update)
      /\ UNCHANGED <<pending, open, mtime, mtimecmp, ie, current_priority, taken, asked>>
  BY DEF Store
<1>2. /\ t = K => u = TellKey
      /\ t = T => u = TellTimer
      /\ t = S => u = update /\ update \in Updates
  BY DEF UpdateBy, TypeOK
<1>3. /\ u.set \in SUBSET Bits /\ u.clear \in SUBSET Bits
      /\ u.then = IF t = K THEN "poll" ELSE IF t = T THEN "sleep" ELSE update.then
      /\ update.then \in {"handle", "execute"}
  BY <1>2 DEF TellKey, TellTimer, Updates, Bits, Threads, TypeOK
<1>4. u.then \in Places
  BY <1>3 DEF Places
<1>5. /\ place'[t] = u.then
      /\ \A v \in Threads \ {t} : place'[v] = place[v]
      /\ place' \in [Threads -> Places]
  BY <1>4, GotoMoves DEF Store
<1> HIDE DEF u
<1>6. copy' \in [Threads -> SUBSET Bits] /\ \A v \in Threads \ {t} : copy'[v] = copy[v]
  BY <1>1 DEF TypeOK
<1>7. TypeOK'
  <2>1. lost' \in SUBSET Bits /\ mip' \in SUBSET Bits
    BY <1>1, <1>3 DEF TypeOK, Bits
  <2>2. update' \in Updates
    BY <1>1 DEF TypeOK, NoUpdate, Updates, Bits
  <2>3. /\ place'[K] \in {"poll", "load", "store"}
        /\ place'[T] \in {"sleep", "load", "store"}
        /\ place'[S] \notin {"poll", "sleep"}
    BY <1>3, <1>5 DEF TypeOK, Threads
  <2>4. QED
    BY <1>1, <1>5, <1>6, <2>1, <2>2, <2>3 DEF TypeOK
<1>8. CopyIsUpdated'
  <2>1. place'[K] = "store" => "MEIP" \in copy'[K]
    BY <1>3, <1>5, <1>6 DEF CopyIsUpdated, Threads
  <2>2. CASE t = S
    BY <1>3, <1>5, <2>1, <2>2 DEF CopyIsUpdated
  <2>3. CASE t # S
    <3>1. update' = update /\ copy'[S] = copy[S] /\ place'[S] = place[S]
      BY <1>1, <1>5, <1>6, <2>3
    <3>2. QED
      BY <2>1, <3>1 DEF CopyIsUpdated, Touched
  <2>4. QED
    BY <2>2, <2>3
<1>9. UpdateIsMeant'
  <2>1. CASE t = S
    <3>1. ~MidUpdate'
      BY <1>3, <1>5, <2>1 DEF MidUpdate
    <3>2. QED
      BY <1>1, <3>1 DEF UpdateIsMeant
  <2>2. CASE t # S
    <3>1. update' = update /\ MidUpdate' = MidUpdate
      BY <1>1, <1>5, <2>2 DEF MidUpdate
    <3>2. QED
      BY <1>1, <3>1 DEF UpdateIsMeant, Touched
  <2>3. QED
    BY <2>1, <2>2
<1>10. \A b \in Bits \ Touched(u) : b \notin lost' => b \notin lost /\ (b \in mip' <=> b \in mip)
  BY <1>1
<1>11. PendingIsAnnounced'
  <2> SUFFICES ASSUME pending', place'[K] = "poll", "MEIP" \notin lost'
               PROVE  "MEIP" \in mip' \/ taken'
    BY DEF PendingIsAnnounced
  <2>1. CASE t = K
    BY <1>1, <2>1 DEF CopyIsUpdated
  <2>2. CASE t # K /\ "MEIP" \notin Touched(u)
    <3>1. place[K] = "poll" /\ "MEIP" \in Bits
      BY <1>5, <2>2 DEF Bits
    <3>2. QED
      BY <1>1, <1>10, <2>2, <3>1 DEF PendingIsAnnounced
  <2>3. CASE t = S /\ "MEIP" \in Touched(u)
    <3>1. CASE "MEIP" \in update.set
      BY <1>1, <1>2, <2>3, <3>1 DEF CopyIsUpdated
    <3>2. CASE "MEIP" \in update.clear
      BY <1>1, <1>2, <1>3, <2>3, <3>2 DEF UpdateIsMeant, MidUpdate
    <3>3. QED
      BY <1>2, <2>3, <3>1, <3>2 DEF Touched
  <2>4. t = T => "MEIP" \notin Touched(u)
    BY <1>2 DEF TellTimer, Touched
  <2>5. QED
    BY <2>1, <2>2, <2>3, <2>4 DEF Threads
<1>12. SoftwareExactlyOnce'
  <2> SUFFICES ASSUME "MSIP" \notin lost',
                      ~(place'[S] \in {"load", "store"} /\ "MSIP" \in Touched(update'))
               PROVE  "MSIP" \in mip' <=> asked'
    BY <1>7 DEF SoftwareExactlyOnce, TypeOK, Touched
  <2>1. CASE "MSIP" \notin Touched(u)
    <3>1. "MSIP" \notin lost /\ ("MSIP" \in mip' <=> "MSIP" \in mip)
      BY <1>10, <2>1 DEF Bits
    <3>2. ~(place[S] \in {"load", "store"} /\ "MSIP" \in Touched(update))
      <4>1. CASE t = S
        BY <1>2, <2>1, <4>1
      <4>2. CASE t # S
        BY <1>1, <1>5, <4>2
      <4>3. QED
        BY <4>1, <4>2
    <3>3. QED
      BY <1>1, <3>1, <3>2 DEF SoftwareExactlyOnce
  <2>2. CASE "MSIP" \in Touched(u)
    <3>1. t = S
      BY <1>2, <2>2 DEF TellKey, TellTimer, Touched, Threads
    <3>2. asked <=> "MSIP" \in update.set
      BY <1>1, <1>2, <2>2, <3>1 DEF UpdateIsMeant, MidUpdate
    <3>3. "MSIP" \in copy[S] <=> "MSIP" \in update.set
      BY <1>1, <1>2, <2>2, <3>1 DEF CopyIsUpdated
    <3>4. QED
      BY <1>1, <3>1, <3>2, <3>3
  <2>3. QED
    BY <2>1, <2>2
<1>13. QED
  BY <1>7, <1>8, <1>9, <1>11, <1>12

-----------------------------------------------------------------------------
(* The other steps store nothing in mip.                                   *)

(* A step that moves the simulator outside of its updates, or the timer,   *)
(* and touches neither mip nor what is said of it.                         *)
LEMMA QuietKeeps ==
    ASSUME IInv, NEW t \in {T, S}, NEW there \in Places, Goto(t, there), TypeOK',
           t = S => place[S] \notin {"load", "store"} /\ there \notin {"load", "store"},
           UNCHANGED <<copy, update, mip, pending, history>>
    PROVE  IInv'
<1> USE ThreadsDiffer DEF IInv, history
<1>1. place'[K] = place[K] /\ MidUpdate' = MidUpdate /\ (place'[S] = "store" => place[S] = "store")
  <2>1. CASE t = S
    BY <2>1, GotoMoves DEF MidUpdate
  <2>2. CASE t = T
    BY <2>2, GotoMoves DEF MidUpdate
  <2>3. QED
    BY <2>1, <2>2
<1>2. CopyIsUpdated'
  BY <1>1 DEF CopyIsUpdated, Touched
<1>3. UpdateIsMeant' /\ PendingIsAnnounced'
  BY <1>1 DEF UpdateIsMeant, PendingIsAnnounced, Touched
<1>4. SoftwareExactlyOnce'
  BY <1>1 DEF SoftwareExactlyOnce, MidUpdate, Touched
<1>5. QED
  BY <1>2, <1>3, <1>4

LEMMA TriggerKeeps == ASSUME IInv, Trigger PROVE IInv'
<1> USE ThreadsDiffer DEF IInv, clint, hart, history
<1>1. /\ place'[K] = "load" /\ place'[T] = place[T] /\ place'[S] = place[S]
      /\ place' \in [Threads -> Places]
  BY GotoMoves DEF Trigger, Places
<1>2. UNCHANGED <<copy, update, mip, open, mtime, mtimecmp, ie, current_priority, taken, asked, lost>>
      /\ pending' = TRUE
  BY DEF Trigger
<1>3. TypeOK'
  BY <1>1, <1>2 DEF TypeOK
<1>4. CopyIsUpdated'
  BY <1>1, <1>2 DEF CopyIsUpdated, Touched
<1>5. UpdateIsMeant' /\ PendingIsAnnounced'
  BY <1>1, <1>2 DEF UpdateIsMeant, MidUpdate, PendingIsAnnounced, Touched
<1>6. SoftwareExactlyOnce'
  BY <1>1, <1>2 DEF SoftwareExactlyOnce, Touched
<1>7. QED
  BY <1>3, <1>4, <1>5, <1>6

LEMMA TickKeeps == ASSUME IInv, Tick PROVE IInv'
<1> USE ThreadsDiffer DEF IInv, plic, hart
<1>1. mtime' \in 0..MaxTime
  BY ConstantTypes DEF Tick, TypeOK
<1>2. CASE place' = place
  <2>1. TypeOK'
    BY <1>1, <1>2 DEF Tick, TypeOK, history
  <2>2. UNCHANGED <<place, copy, update, mip, pending, taken, asked, lost>>
    BY <1>2 DEF Tick, history
  <2>3. CopyIsUpdated' /\ UpdateIsMeant' /\ PendingIsAnnounced'
    BY <2>2 DEF CopyIsUpdated, UpdateIsMeant, MidUpdate, PendingIsAnnounced, Touched
  <2>4. SoftwareExactlyOnce'
    BY <2>2 DEF SoftwareExactlyOnce, Touched
  <2>5. QED
    BY <2>1, <2>3, <2>4
<1>3. CASE Goto(T, "load")
  <2>1. TypeOK'
    BY <1>1, <1>3, GotoMoves DEF Tick, TypeOK, history, Places
  <2>2. QED
    BY <1>3, <2>1, QuietKeeps DEF Tick, Places
<1>4. QED
  BY <1>2, <1>3 DEF Tick

LEMMA SimulatorMoves ==
    ASSUME TypeOK, NEW there \in Places \ {"poll", "sleep"}, Goto(S, there)
    PROVE  /\ place' \in [Threads -> Places]
           /\ place'[S] = there /\ place'[K] = place[K] /\ place'[T] = place[T]
BY ThreadsDiffer, GotoMoves

LEMMA GuestQuietKeeps ==
    ASSUME IInv, Other \/ Claim \/ plic_write \/ clint_write \/ WriteEnables \/ Return \/ Stop \/ Resume
    PROVE  IInv'
<1> USE DEF IInv, plic, clint, hart, history
<1>1. ASSUME NEW there \in {"handle", "claim", "stopped", "execute"}, Goto(S, there),
             place[S] \in {"execute", "stopped"},
             UNCHANGED <<copy, update, mip, pending, taken, asked, lost>>,
             open' \in BOOLEAN, mtime' \in 0..MaxTime, mtimecmp' \in 0..Never,
             ie' \in SUBSET Sources, current_priority' \in 0..EXTERNAL
      PROVE  IInv'
  <2>1. there \in Places \ {"poll", "sleep"} /\ there \notin {"load", "store"}
    BY DEF Places
  <2>2. TypeOK'
    BY <1>1, <2>1, SimulatorMoves DEF TypeOK
  <2>3. QED
    BY <1>1, <2>1, <2>2, QuietKeeps
<1>2. CASE Other
  BY <1>1, <1>2 DEF Other, Executes, TypeOK
<1>3. CASE Claim
  BY <1>1, <1>3 DEF Claim, Executes, TypeOK
<1>4. CASE plic_write
  BY <1>1, <1>4 DEF plic_write, Executes, TypeOK
<1>5. CASE clint_write
  BY <1>1, <1>5, ConstantTypes DEF clint_write, Executes, TypeOK
<1>6. CASE WriteEnables
  BY <1>1, <1>6, ConstantTypes DEF WriteEnables, Executes, TypeOK
<1>7. CASE Return
  BY <1>1, <1>7, ConstantTypes DEF Return, Executes, TypeOK
<1>8. CASE Stop \/ Resume
  BY <1>1, <1>8 DEF Stop, Resume, Executes, TypeOK
<1>9. QED
  BY <1>2, <1>3, <1>4, <1>5, <1>6, <1>7, <1>8

LEMMA ClaimClearsKeeps == ASSUME IInv, ClaimClears PROVE IInv'
<1> USE DEF IInv, clint, hart
<1>1. /\ place' \in [Threads -> Places]
      /\ place'[S] = "handle" /\ place'[K] = place[K] /\ place'[T] = place[T]
  BY SimulatorMoves DEF ClaimClears, Places
<1>2. TypeOK'
  BY <1>1 DEF ClaimClears, TypeOK
<1>3. CopyIsUpdated' /\ UpdateIsMeant' /\ PendingIsAnnounced'
  BY <1>1 DEF ClaimClears, CopyIsUpdated, UpdateIsMeant, MidUpdate, PendingIsAnnounced
<1>4. SoftwareExactlyOnce'
  BY <1>1 DEF ClaimClears, SoftwareExactlyOnce
<1>5. QED
  BY <1>2, <1>3, <1>4

(* The beginnings of an update: by the guest or by handle_interrupt.       *)
LEMMA BeginUpdateKeeps ==
    ASSUME IInv, NEW u \in Updates, BeginUpdate(u), place[S] \notin {"load", "store"}, TypeOK',
           "MEIP" \in u.clear /\ u.then = "execute" => taken',
           IF "MSIP" \in Touched(u) THEN asked' <=> "MSIP" \in u.set ELSE asked' = asked,
           taken => taken',
           UNCHANGED <<copy, mip, pending, lost>>
    PROVE  IInv'
<1> USE DEF IInv
<1>1. place'[S] = "load" /\ place'[K] = place[K] /\ update' = u
  BY SimulatorMoves DEF BeginUpdate, Places
<1>2. CopyIsUpdated' /\ UpdateIsMeant'
  BY <1>1 DEF CopyIsUpdated, UpdateIsMeant, MidUpdate, Touched
<1>3. PendingIsAnnounced'
  BY <1>1 DEF PendingIsAnnounced
<1>4. SoftwareExactlyOnce'
  BY <1>1 DEF SoftwareExactlyOnce, Touched
<1>5. QED
  BY <1>2, <1>3, <1>4

LEMMA UpdateMipKeeps == ASSUME IInv, NEW u \in GuestUpdates, UpdateMip(u) PROVE IInv'
<1> USE DEF IInv, plic, clint, hart
<1>1. u \in Updates /\ u.then = "handle"
  BY GuestUpdateTypes
<1>2. /\ place' \in [Threads -> Places]
      /\ place'[S] = "load" /\ place'[K] = place[K] /\ place'[T] = place[T] /\ update' = u
  BY SimulatorMoves DEF UpdateMip, BeginUpdate, Places
<1>3. TypeOK'
  BY <1>1, <1>2 DEF UpdateMip, TypeOK
<1>4. IF "MSIP" \in Touched(u) THEN asked' <=> "MSIP" \in u.set ELSE asked' = asked
  BY DEF UpdateMip, Touched
<1>5. QED
  BY <1>1, <1>3, <1>4, BeginUpdateKeeps DEF UpdateMip, Executes

LEMMA HandleKeeps == ASSUME IInv, handle_interrupt PROVE IInv'
<1> USE DEF IInv, plic, clint, hart
<1>1. place[S] = "handle" /\ UNCHANGED <<copy, mip, mtime, mtimecmp, ie, lost>>
  BY DEF handle_interrupt
<1>2. CASE TakeExternal
  <2> DEFINE u == [set |-> {}, clear |-> {"MEIP"}, then |-> "execute"]
  <2>1. u \in Updates
    BY DEF Updates, Bits
  <2>2. /\ place' \in [Threads -> Places]
        /\ place'[S] = "load" /\ place'[K] = place[K] /\ place'[T] = place[T] /\ update' = u
    BY <1>2, SimulatorMoves DEF TakeExternal, BeginUpdate, Places
  <2>3. TypeOK'
    BY <1>1, <1>2, <2>1, <2>2, ConstantTypes DEF TakeExternal, TypeOK
  <2>4. "MSIP" \notin Touched(u)
    BY DEF Touched
  <2>5. QED
    BY <1>1, <1>2, <2>1, <2>3, <2>4, BeginUpdateKeeps DEF TakeExternal
<1>3. CASE TakeSoftware
  <2> DEFINE u == [set |-> {}, clear |-> {"MSIP"}, then |-> "execute"]
  <2>1. u \in Updates
    BY DEF Updates, Bits
  <2>2. /\ place' \in [Threads -> Places]
        /\ place'[S] = "load" /\ place'[K] = place[K] /\ place'[T] = place[T] /\ update' = u
    BY <1>3, SimulatorMoves DEF TakeSoftware, BeginUpdate, Places
  <2>3. TypeOK'
    BY <1>1, <1>3, <2>1, <2>2, ConstantTypes DEF TakeSoftware, TypeOK
  <2>4. "MSIP" \in Touched(u) /\ "MSIP" \notin u.set /\ "MEIP" \notin u.clear
    BY DEF Touched
  <2>5. asked' = FALSE
    BY <1>3 DEF TakeSoftware
  <2>6. IF "MSIP" \in Touched(u) THEN asked' <=> "MSIP" \in u.set ELSE asked' = asked
    BY <2>4, <2>5
  <2>7. QED
    BY <1>1, <1>3, <2>1, <2>3, <2>4, <2>6, BeginUpdateKeeps DEF TakeSoftware
<1>4. CASE TakeTimer \/ TakeNone
  <2>1. Goto(S, "execute") /\ UNCHANGED <<update, pending, open, taken, asked>>
    BY <1>4 DEF TakeTimer, TakeNone
  <2>2. current_priority' \in 0..EXTERNAL
    BY <1>4, ConstantTypes DEF TakeTimer, TakeNone, TypeOK
  <2>3. TypeOK'
    BY <1>1, <2>1, <2>2, SimulatorMoves DEF TypeOK, Places
  <2>4. QED
    BY <1>1, <2>1, <2>3, QuietKeeps DEF Places, history
<1>5. QED
  BY <1>2, <1>3, <1>4 DEF handle_interrupt

LEMMA ResetKeeps ==
    ASSUME IInv, ResetBegins \/ ResetClint \/ ResetPlic \/ ResetCpu
    PROVE  IInv'
<1> USE DEF IInv, plic, clint, hart
<1>1. CASE ResetBegins \/ ResetClint
  <2>1. PICK there \in {"resetClint", "resetPlic"} : Goto(S, there)
    BY <1>1 DEF ResetBegins, ResetClint
  <2>2. /\ place[S] \notin {"load", "store"}
        /\ UNCHANGED <<copy, update, mip, pending, open, ie, current_priority, taken, asked, lost>>
    BY <1>1 DEF ResetBegins, ResetClint, history
  <2>3. mtime' \in 0..MaxTime /\ mtimecmp' \in 0..Never
    BY <1>1, ConstantTypes DEF ResetBegins, ResetClint
  <2>4. TypeOK'
    BY <2>1, <2>2, <2>3, SimulatorMoves DEF TypeOK, Places
  <2>5. QED
    BY <2>1, <2>2, <2>4, QuietKeeps DEF Places, history
<1>2. CASE ResetPlic
  <2>1. /\ place' \in [Threads -> Places]
        /\ place'[S] = "resetCpu" /\ place'[K] = place[K] /\ place'[T] = place[T]
        /\ place[S] = "resetPlic"
    BY <1>2, SimulatorMoves DEF ResetPlic, Places
  <2>2. TypeOK'
    BY <1>2, <2>1 DEF ResetPlic, TypeOK
  <2>3. CopyIsUpdated' /\ UpdateIsMeant' /\ PendingIsAnnounced'
    BY <1>2, <2>1 DEF ResetPlic, CopyIsUpdated, UpdateIsMeant, MidUpdate, PendingIsAnnounced
  <2>4. SoftwareExactlyOnce'
    BY <1>2, <2>1 DEF ResetPlic, SoftwareExactlyOnce
  <2>5. QED
    BY <2>2, <2>3, <2>4
<1>3. CASE ResetCpu
  <2>1. /\ place' \in [Threads -> Places]
        /\ place'[S] = "stopped" /\ place'[K] = place[K] /\ place'[T] = place[T]
    BY <1>3, SimulatorMoves DEF ResetCpu, Places
  <2>2. /\ mip' = {} /\ asked' = FALSE /\ lost' = (IF pending THEN {"MEIP"} ELSE {})
        /\ ie' = {} /\ current_priority' = 0
        /\ UNCHANGED <<copy, update, pending, open, mtime, mtimecmp, taken>>
    BY <1>3 DEF ResetCpu
  <2>3. TypeOK'
    BY <2>1, <2>2, ConstantTypes DEF TypeOK, Bits
  <2>4. CopyIsUpdated' /\ UpdateIsMeant' /\ PendingIsAnnounced'
    BY <2>1, <2>2 DEF CopyIsUpdated, UpdateIsMeant, MidUpdate, PendingIsAnnounced
  <2>5. "MSIP" \notin mip' /\ ~asked'
    BY <2>2
  <2>6. SoftwareExactlyOnce'
    BY <2>5 DEF SoftwareExactlyOnce
  <2>7. QED
    BY <2>3, <2>4, <2>6
<1>4. QED
  BY <1>1, <1>2, <1>3

LEMMA StutterKeeps == ASSUME IInv, UNCHANGED vars PROVE IInv'
<1> USE DEF IInv, vars, plic, clint, hart, history
<1>1. TypeOK'
  BY DEF TypeOK
<1>2. CopyIsUpdated' /\ UpdateIsMeant' /\ PendingIsAnnounced'
  BY DEF CopyIsUpdated, UpdateIsMeant, MidUpdate, PendingIsAnnounced, Touched
<1>3. SoftwareExactlyOnce'
  BY DEF SoftwareExactlyOnce, Touched
<1>4. QED
  BY <1>1, <1>2, <1>3

LEMMA NextKeeps == IInv /\ [Next]_vars => IInv'
<1> SUFFICES ASSUME IInv, [Next]_vars PROVE IInv'
  OBVIOUS
<1>1. CASE KeyboardStep \/ TimerStep
  BY <1>1, LoadKeeps, StoreKeeps, TickKeeps, ThreadsDiffer DEF KeyboardStep, TimerStep
<1>2. CASE SimulatorStep
  <2>1. CASE Load(S) \/ Store(S)
    BY <2>1, LoadKeeps, StoreKeeps, ThreadsDiffer
  <2>2. CASE \E u \in GuestUpdates : UpdateMip(u)
    BY <2>2, UpdateMipKeeps
  <2>3. QED
    BY <1>2, <2>1, <2>2, GuestQuietKeeps, ClaimClearsKeeps, HandleKeeps, ResetKeeps
       DEF SimulatorStep
<1>3. CASE User
  BY <1>3, TriggerKeeps, GuestQuietKeeps DEF User
<1>4. QED
  BY <1>1, <1>2, <1>3, StutterKeeps DEF Next

LEMMA Invariant == Spec => []IInv
BY InitIInv, NextKeeps, PTL DEF Spec

-----------------------------------------------------------------------------
(* Every variable keeps its type, whatever the three threads do.           *)
THEOREM TypeCorrect == Spec => []TypeOK
<1>1. IInv => TypeOK
  BY DEF IInv
<1>2. QED
  BY Invariant, <1>1, PTL

(* A key in the PLIC is known to the hart, but for a stale store, a reset  *)
(* in the middle of a trigger, or a guest that dismisses it: no order of   *)
(* trigger_interrupt, handle_interrupt and the claim parts the two.        *)
THEOREM KeyIsAnnounced == Spec => []PendingIsAnnounced
<1>1. IInv => PendingIsAnnounced
  BY DEF IInv
<1>2. QED
  BY Invariant, <1>1, PTL

(* MSIP is set exactly while a software interrupt is asked for and not yet *)
(* taken, but for a stale store.                                           *)
THEOREM SoftwareInterruptOnce == Spec => []SoftwareExactlyOnce
<1>1. IInv => SoftwareExactlyOnce
  BY DEF IInv
<1>2. QED
  BY Invariant, <1>1, PTL

-----------------------------------------------------------------------------
(* What the races are to blame for.                                        *)

(* No update of mip is overtaken: while a thread is about to store, no     *)
(* other is, and the machine is not being reset.                           *)
Apart ==
    \A t, u \in Threads :
        t # u /\ place[t] = "store" => place[u] \notin {"store", "resetCpu"}

StoresAreCurrent ==
    \A t \in Threads : place[t] = "store" => copy[t] = Apply(UpdateBy(t), mip)

OnlyAnnouncementsAreLost == lost \subseteq {"MEIP"}

SoftwareStands ==
    ~(place[S] \in {"load", "store"} /\ "MSIP" \in Touched(update))
    => ("MSIP" \in mip <=> asked)

LEMMA UpdatesLeadElsewhere ==
    ASSUME TypeOK, NEW t \in Threads
    PROVE  UpdateBy(t).then # "store"
BY DEF TypeOK, UpdateBy, TellKey, TellTimer, Updates

(* An update that is not overtaken changes the bits it means and no other. *)
LEMMA CurrentStoreKeeps ==
    ASSUME TypeOK, Apart, StoresAreCurrent, OnlyAnnouncementsAreLost,
           NEW t \in Threads, Store(t)
    PROVE  StoresAreCurrent' /\ OnlyAnnouncementsAreLost'
<1>1. /\ place'[t] # "store" /\ place[t] = "store"
      /\ \A u \in Threads \ {t} : place'[u] = place[u]
  BY GotoMoves, UpdatesLeadElsewhere DEF Store
<1>2. \A u \in Threads : place'[u] # "store"
  BY <1>1 DEF Apart
<1>3. OnlyAnnouncementsAreLost'
  <2> DEFINE u == UpdateBy(t)
  <2>1. copy[t] = Apply(u, mip)
    BY <1>1 DEF StoresAreCurrent
  <2>2. \A b \in Bits \ Touched(u) : (b \in copy[t]) <=> (b \in mip)
    BY <2>1 DEF Apply, Touched
  <2>3. lost' = (lost \ Touched(u))
                \cup {b \in Bits \ Touched(u) : (b \in copy[t]) # (b \in mip)}
                \cup {b \in u.clear : b = "MEIP" /\ u.then = "handle" /\ ~taken}
    BY DEF Store
  <2> HIDE DEF u
  <2>4. {b \in Bits \ Touched(u) : (b \in copy[t]) # (b \in mip)} = {}
    BY <2>2
  <2>5. QED
    BY <2>3, <2>4 DEF OnlyAnnouncementsAreLost
<1>4. QED
  BY <1>2, <1>3 DEF StoresAreCurrent

(* The other steps leave the stores that are due, and their values, alone. *)
LEMMA CurrentLoadKeeps ==
    ASSUME TypeOK, StoresAreCurrent, OnlyAnnouncementsAreLost, NEW t \in Threads, Load(t)
    PROVE  StoresAreCurrent' /\ OnlyAnnouncementsAreLost'
<1>1. /\ copy'[t] = Apply(UpdateBy(t), mip)
      /\ \A u \in Threads \ {t} : copy'[u] = copy[u] /\ place'[u] = place[u]
      /\ UNCHANGED <<mip, update, lost>>
  BY GotoMoves DEF Load, TypeOK, history
<1>2. \A u \in Threads : UpdateBy(u)' = UpdateBy(u)
  BY <1>1 DEF UpdateBy, TellKey, TellTimer
<1>3. QED
  BY <1>1, <1>2 DEF StoresAreCurrent, OnlyAnnouncementsAreLost

LEMMA CurrentOtherKeeps ==
    ASSUME TypeOK, Apart, StoresAreCurrent, OnlyAnnouncementsAreLost, [Next]_vars,
           \A t \in Threads : ~Load(t) /\ ~Store(t)
    PROVE  StoresAreCurrent' /\ OnlyAnnouncementsAreLost'
<1> USE ThreadsDiffer
<1>1. UNCHANGED copy
  BY DEF Next, KeyboardStep, TimerStep, SimulatorStep, User, Trigger, Tick, Other, Claim,
     ClaimClears, plic_write, clint_write, UpdateMip, WriteEnables, Return, handle_interrupt,
     Stop, Resume, ResetBegins, ResetClint, ResetPlic, ResetCpu, vars
<1>2. CASE Trigger \/ Tick
  <2>1. UNCHANGED <<mip, update, lost>>
    BY <1>2 DEF Trigger, Tick, history
  <2>2. \A t \in Threads : place'[t] = "store" => place[t] = "store"
    BY <1>2 DEF Trigger, Tick, Goto, TypeOK
  <2>3. QED
    BY <1>1, <2>1, <2>2
       DEF StoresAreCurrent, OnlyAnnouncementsAreLost, UpdateBy, TellKey, TellTimer
<1>3. CASE SimulatorStep \/ Resume
  <2>1. /\ place[S] # "store" /\ place'[S] # "store"
        /\ \A t \in {K, T} : place'[t] = place[t]
    BY <1>3 DEF SimulatorStep, Other, Claim, ClaimClears, plic_write, clint_write, UpdateMip,
       WriteEnables, Return, handle_interrupt, TakeExternal, TakeTimer, TakeSoftware, TakeNone,
       BeginUpdate, Executes, Stop, Resume, ResetBegins, ResetClint, ResetPlic, ResetCpu, Goto,
       TypeOK
  <2>2. \A t \in {K, T} : UpdateBy(t)' = UpdateBy(t)
    BY DEF UpdateBy, TellKey, TellTimer
  <2>3. CASE ~ResetCpu
    <3>1. UNCHANGED <<mip, lost>>
      BY <1>3, <2>3 DEF SimulatorStep, Other, Claim, ClaimClears, plic_write, clint_write,
         UpdateMip, WriteEnables, Return, handle_interrupt, Stop, Resume, ResetBegins,
         ResetClint, ResetPlic, history
    <3>2. QED
      BY <1>1, <2>1, <2>2, <3>1 DEF StoresAreCurrent, OnlyAnnouncementsAreLost, Threads, K, T, S
  <2>4. CASE ResetCpu
    <3>1. \A t \in {K, T} : place[t] # "store"
      BY <2>4 DEF ResetCpu, Apart
    <3>2. StoresAreCurrent'
      BY <2>1, <3>1 DEF StoresAreCurrent, Threads, K, T, S
    <3>3. OnlyAnnouncementsAreLost'
      BY <2>4 DEF ResetCpu, OnlyAnnouncementsAreLost
    <3>4. QED
      BY <3>2, <3>3
  <2>5. QED
    BY <2>3, <2>4
<1>4. CASE UNCHANGED vars
  BY <1>4 DEF vars, history, StoresAreCurrent, OnlyAnnouncementsAreLost, UpdateBy, TellKey,
     TellTimer
<1>5. QED
  BY <1>2, <1>3, <1>4 DEF Next, KeyboardStep, TimerStep, User

LEMMA CurrentStepKeeps ==
    ASSUME TypeOK, Apart, StoresAreCurrent, OnlyAnnouncementsAreLost, [Next]_vars
    PROVE  StoresAreCurrent' /\ OnlyAnnouncementsAreLost'
<1>1. CASE \E t \in Threads : Load(t)
  BY <1>1, CurrentLoadKeeps
<1>2. CASE \E t \in Threads : Store(t)
  BY <1>2, CurrentStoreKeeps
<1>3. CASE \A t \in Threads : ~Load(t) /\ ~Store(t)
  BY <1>3, CurrentOtherKeeps
<1>4. QED
  BY <1>1, <1>2, <1>3

(* With updates that do not overlap, MSIP is set exactly while a software  *)
(* interrupt is asked for and not yet taken (clint.c:44-51,                *)
(* exception.c:43-97), without exception, and what is lost of mip is at   *)
(* most an announcement that a reset or the guest itself dismissed: the    *)
(* excuse of SoftwareExactlyOnce is the unlocked |= and &= and no more.    *)
THEOREM OnlyRacesLose == Spec /\ []Apart => [](OnlyAnnouncementsAreLost /\ SoftwareStands)
<1> DEFINE I == StoresAreCurrent /\ OnlyAnnouncementsAreLost
<1>1. Init => I
  BY DEF Init, StoresAreCurrent, OnlyAnnouncementsAreLost, Threads, K, T, S
<1>2. IInv /\ Apart /\ I /\ [Next]_vars => I'
  BY CurrentStepKeeps DEF IInv
<1>3. IInv /\ I => OnlyAnnouncementsAreLost /\ SoftwareStands
  BY DEF IInv, OnlyAnnouncementsAreLost, SoftwareStands, SoftwareExactlyOnce
<1> HIDE DEF I
<1>4. QED
  BY <1>1, <1>2, <1>3, Invariant, PTL DEF Spec

(* A guest that leaves MEIP to handle_interrupt.                           *)
GuestMeans == update.then = "handle" => "MEIP" \notin update.clear

NothingIsLost == lost = {}

LEMMA NothingIsLostKeeps ==
    ASSUME \A u \in GuestUpdates : "MEIP" \notin u.clear,
           TypeOK, Apart, StoresAreCurrent, GuestMeans, NothingIsLost,
           [Next]_vars, [~ResetCpu]_vars
    PROVE  GuestMeans' /\ NothingIsLost'
<1> USE ThreadsDiffer
<1>1. CASE \E t \in Threads : Store(t)
  <2>1. PICK t \in Threads : Store(t)
    BY <1>1
  <2> DEFINE u == UpdateBy(t)
  <2>2. u.then = "handle" => "MEIP" \notin u.clear
    BY DEF GuestMeans, UpdateBy, TellKey, TellTimer
  <2>3. copy[t] = Apply(u, mip)
    BY <2>1 DEF StoresAreCurrent, Store
  <2>4. \A b \in Bits \ Touched(u) : (b \in copy[t]) <=> (b \in mip)
    BY <2>3 DEF Apply, Touched
  <2>5. lost' = (lost \ Touched(u))
                \cup {b \in Bits \ Touched(u) : (b \in copy[t]) # (b \in mip)}
                \cup {b \in u.clear : b = "MEIP" /\ u.then = "handle" /\ ~taken}
    BY <2>1 DEF Store
  <2>6. update' = update \/ update' = NoUpdate
    BY <2>1 DEF Store
  <2> HIDE DEF u
  <2>7. {b \in Bits \ Touched(u) : (b \in copy[t]) # (b \in mip)} = {}
    BY <2>4
  <2>8. {b \in u.clear : b = "MEIP" /\ u.then = "handle" /\ ~taken} = {}
    BY <2>2
  <2>9. QED
    BY <2>5, <2>6, <2>7, <2>8 DEF NothingIsLost, GuestMeans, NoUpdate
<1>2. CASE UNCHANGED vars
  BY <1>2 DEF vars, history, NothingIsLost, GuestMeans
<1>3. CASE ~ResetCpu /\ Next /\ \A t \in Threads : ~Store(t)
  <2>1. UNCHANGED lost
    BY <1>3 DEF Next, KeyboardStep, TimerStep, SimulatorStep, User, Trigger, Tick, Load, Other,
       Claim, ClaimClears, plic_write, clint_write, UpdateMip, WriteEnables, Return,
       handle_interrupt, Stop, Resume, ResetBegins, ResetClint, ResetPlic, history
  <2>2. CASE \E u \in GuestUpdates : UpdateMip(u)
    BY <2>1, <2>2 DEF UpdateMip, BeginUpdate, GuestMeans, NothingIsLost
  <2>3. CASE handle_interrupt
    BY <2>1, <2>3 DEF handle_interrupt, TakeExternal, TakeTimer, TakeSoftware, TakeNone, BeginUpdate,
       GuestMeans, NothingIsLost
  <2>4. CASE UNCHANGED update
    BY <2>1, <2>4 DEF GuestMeans, NothingIsLost
  <2>5. GuestMeans'
    BY <1>3, <2>2, <2>3, <2>4 DEF Next, KeyboardStep, TimerStep, SimulatorStep, User, Trigger,
       Tick, Load, Other, Claim, ClaimClears, plic_write, clint_write, WriteEnables, Return,
       Stop, Resume, ResetBegins, ResetClint, ResetPlic
  <2>6. QED
    BY <2>1, <2>5 DEF NothingIsLost
<1>4. QED
  BY <1>1, <1>2, <1>3

KeyStands == pending /\ place[K] = "poll" => "MEIP" \in mip \/ taken

(* With updates that do not overlap, a guest that clears MEIP only by      *)
(* taking the interrupt and no cpu_init (cpu.c:29-44) after the start,     *)
(* every key in the PLIC is announced in mip or taken: the excuses of      *)
(* PendingIsAnnounced are these three and no more.                         *)
THEOREM OnlyRacesLoseKeys ==
    ASSUME \A u \in GuestUpdates : "MEIP" \notin u.clear
    PROVE  Spec /\ []Apart /\ [][~ResetCpu]_vars => []KeyStands
<1> DEFINE I == StoresAreCurrent /\ OnlyAnnouncementsAreLost /\ GuestMeans /\ NothingIsLost
<1>1. Init => I
  BY DEF Init, StoresAreCurrent, OnlyAnnouncementsAreLost, GuestMeans, NothingIsLost, NoUpdate,
     Threads, K, T, S
<1>2. IInv /\ Apart /\ I /\ [Next]_vars /\ [~ResetCpu]_vars => I'
  BY CurrentStepKeeps, NothingIsLostKeeps DEF IInv
<1>3. IInv /\ I => KeyStands
  BY DEF IInv, NothingIsLost, KeyStands, PendingIsAnnounced
<1> HIDE DEF I
<1>4. QED
  BY <1>1, <1>2, <1>3, Invariant, PTL DEF Spec

=============================================================================
