----------------------------- MODULE E1000Proofs -----------------------------
(***************************************************************************)
(* Theorems about the descriptor rings of the network card, for every size *)
(* of the rings and every set of frames.  The inductive invariant IInv     *)
(* says which descriptors are whose: those of the device, which hold the   *)
(* frames not yet sent or the frames not yet received, those of the driver *)
(* and the one that a call is working on.                                  *)
(***************************************************************************)
EXTENDS E1000, SequenceTheorems, TLAPS

\* i is in the part of a ring that begins at a and ends before b, and is empty
\* when they are equal.
Between(a, b, i) == IF a <= b THEN a <= i /\ i < b ELSE a <= i \/ i < b

\* From rx_tail to RDH the device has filled the buffers; it may use all the
\* others but RDT, which is the one before rx_tail.
RxInv ==
  /\ rx_tail = (RDT + 1) % RX_DESC_COUNT
  /\ pc["rx"] \in {"reading", "back"} => RDH # rx_tail
  /\ dma => RDH # RDT
  /\ \A i \in RxSlots :
       /\ filled[i] <=> Between(rx_tail, RDH, i) /\ ~(At("rx", "back") /\ i = rx_tail)
       /\ Between(rx_tail, RDH, i) => rx_bufs[i] \in Frames

\* The descriptor i belongs to the device.  TDH and TDT do not tell an empty ring
\* from a full one.
Owned(i) ==
  IF TDH + Len(queued) <= TX_DESC_COUNT
  THEN TDH <= i /\ i < TDH + Len(queued)
  ELSE TDH <= i \/ i < TDH + Len(queued) - TX_DESC_COUNT

\* Its place in the queue.
Place(i) == IF TDH <= i THEN i - TDH + 1 ELSE i - TDH + TX_DESC_COUNT + 1

Marked(t) == pc[t] \in {"tail", "tdt"}

\* Who sends has a frame.
CallInv ==
  /\ \A t \in Threads : Sending(t) => frame[t] \in Frames
  /\ pc["shell"] \notin {"recv", "reading", "back", "handle"}
  /\ pc["rx"] # "idle"

\* What one call at a time has done to the descriptor TDT so far.
SendInv ==
  \A t \in Threads :
    /\ Sending(t) => d[t] = TDT /\ \A u \in Threads : Sending(u) => u = t
    /\ Sending(t) /\ ~At(t, "spin") => Len(queued) < TX_DESC_COUNT
    /\ At(t, "copying") => slot[t] = TDT /\ tx_buf[TDT] = t
    /\ pc[t] \in {"addr", "status", "tail", "tdt"} => tx_buf[TDT] = frame[t]
    /\ pc[t] \in {"status", "tail", "tdt"} => addr[TDT] = TDT
    /\ Marked(t) => slot[t] = (TDT + 1) % TX_DESC_COUNT
    /\ At(t, "tdt") => tx_tail = slot[t]

\* The device's descriptors hold the frames queued.
QueueInv ==
  /\ Len(queued) <= TX_DESC_COUNT
  /\ TDT = (TDH + Len(queued)) % TX_DESC_COUNT
  /\ (\A t \in Threads : ~At(t, "tdt")) => tx_tail = TDT
  /\ \A i \in TxSlots :
       /\ Owned(i) => addr[i] = i /\ tx_buf[i] = queued[Place(i)]
       /\ done[i] <=> ~Owned(i) /\ ~(i = TDT /\ \E t \in Threads : Marked(t))

TxInv == raced = 0 => SendInv /\ QueueInv

IInv == TypeOK /\ RxInv /\ CallInv /\ TxInv

-----------------------------------------------------------------------------
(* Indices modulo the length of a ring.                                    *)

LEMMA ModAdd ==
  ASSUME NEW n \in Nat \ {0}, NEW a \in 0..(n - 1), NEW k \in 0..n
  PROVE  (a + k) % n = IF a + k < n THEN a + k ELSE a + k - n
OBVIOUS

LEMMA ModSub ==
  ASSUME NEW n \in Nat \ {0}, NEW a \in 0..(n - 1), NEW b \in 0..n
  PROVE  (a - b) % n = IF a >= b THEN a - b ELSE a - b + n
OBVIOUS

LEMMA ModSelf ==
  ASSUME NEW n \in Nat \ {0}, NEW k \in 0..n
  PROVE  k % n = IF k = n THEN 0 ELSE k
OBVIOUS

LEMMA NextTx ==
  ASSUME NEW i \in TxSlots
  PROVE  /\ (i + 1) % TX_DESC_COUNT \in TxSlots
         /\ (i + 1) % TX_DESC_COUNT = IF i = TX_DESC_COUNT - 1 THEN 0 ELSE i + 1
<1>1. TX_DESC_COUNT \in Nat \ {0} /\ i \in 0..(TX_DESC_COUNT - 1) /\ 1 \in 0..TX_DESC_COUNT
  BY RingAssumption DEF TxSlots
<1>2. (i + 1) % TX_DESC_COUNT = IF i + 1 < TX_DESC_COUNT THEN i + 1 ELSE i + 1 - TX_DESC_COUNT
  BY <1>1, ModAdd
<1>3. QED
  BY <1>1, <1>2 DEF TxSlots

LEMMA NextRx ==
  ASSUME NEW i \in RxSlots
  PROVE  /\ (i + 1) % RX_DESC_COUNT \in RxSlots
         /\ (i + 1) % RX_DESC_COUNT = IF i = RX_DESC_COUNT - 1 THEN 0 ELSE i + 1
<1>1. RX_DESC_COUNT \in Nat \ {0} /\ i \in 0..(RX_DESC_COUNT - 1) /\ 1 \in 0..RX_DESC_COUNT
  BY RingAssumption DEF RxSlots
<1>2. (i + 1) % RX_DESC_COUNT = IF i + 1 < RX_DESC_COUNT THEN i + 1 ELSE i + 1 - RX_DESC_COUNT
  BY <1>1, ModAdd
<1>3. QED
  BY <1>1, <1>2 DEF RxSlots

\* Where the queue ends.
LEMMA QueueEnd ==
  ASSUME TypeOK, QueueInv
  PROVE  /\ Len(queued) \in 0..TX_DESC_COUNT
         /\ TDT = IF TDH + Len(queued) < TX_DESC_COUNT THEN TDH + Len(queued)
                  ELSE TDH + Len(queued) - TX_DESC_COUNT
<1>1. Len(queued) \in 0..TX_DESC_COUNT
  BY LenProperties, RingAssumption DEF TypeOK, QueueInv
<1>2. TDT = (TDH + Len(queued)) % TX_DESC_COUNT
  BY DEF QueueInv
<1>3. TX_DESC_COUNT \in Nat \ {0} /\ TDH \in 0..(TX_DESC_COUNT - 1)
  BY RingAssumption DEF TypeOK, TxSlots
<1>4. QED
  BY <1>1, <1>2, <1>3, ModAdd

\* TDT is the device's only when the ring is full; TDH unless it is empty.
LEMMA Ends ==
  ASSUME TypeOK, QueueInv
  PROVE  /\ Owned(TDT) <=> Len(queued) = TX_DESC_COUNT
         /\ Owned(TDH) <=> Len(queued) # 0
         /\ TDH # TDT <=> Len(queued) \in 1..(TX_DESC_COUNT - 1)
BY QueueEnd, RingAssumption DEF Owned, TypeOK, TxSlots

-----------------------------------------------------------------------------
(* What a step of one side leaves of the other side's invariants.          *)

LEMMA InitInv == Init => IInv
<1> SUFFICES ASSUME Init
             PROVE  IInv
  OBVIOUS
<1>1. 0 \in TxSlots /\ 0 \in RxSlots /\ RX_DESC_COUNT - 1 \in RxSlots
  BY RingAssumption DEF TxSlots, RxSlots
<1>2. TypeOK
  <2>1. pc \in [Threads -> {"idle", "recv"}]
    BY DEF Init, Threads
  <2>2. /\ frame \in [Threads -> {NULL}]
        /\ d \in [Threads -> TxSlots] /\ slot \in [Threads -> TxSlots]
    BY <1>1 DEF Init
  <2>3. raced \in 0..MaxRaced /\ queued \in Seq(Frames)
    BY EmptySeq, RingAssumption DEF Init
  <2>4. /\ tx_buf \in [TxSlots -> {NULL}] /\ addr \in [TxSlots -> {NULL}]
        /\ rx_bufs \in [RxSlots -> {NULL}]
    BY DEF Init
  <2>5. QED
    BY <1>1, <2>1, <2>2, <2>3, <2>4 DEF Init, TypeOK
<1>3. RxInv
  <2>1. (RX_DESC_COUNT - 1 + 1) % RX_DESC_COUNT = 0
    BY <1>1, NextRx
  <2>2. QED
    BY <2>1 DEF Init, RxInv, Between, At, RxSlots
<1>4. CallInv
  BY DEF Init, CallInv, Sending, Threads
<1>5. SendInv
  BY DEF Init, SendInv, Sending, Threads, At, Marked
<1>6. QueueInv
  <2>1. Len(<<>>) = 0
    BY EmptySeq
  <2>2. QED
    BY <1>1, <2>1, RingAssumption, ModAdd DEF Init, QueueInv, Owned, At, Marked, TxSlots, Threads
<1>7. QED
  BY <1>2, <1>3, <1>4, <1>5, <1>6 DEF IInv, TxInv

\* A step of e1000_send, or of the transmitter.
LEMMA RxFrame ==
  ASSUME IInv, UNCHANGED rx,
         pc'["rx"] \in {"reading", "back"} => pc'["rx"] = pc["rx"],
         pc["rx"] = "back" => pc'["rx"] = "back"
  PROVE  RxInv'
BY DEF IInv, RxInv, rx, At

\* A step of e1000_recv, or of the receiver.
LEMMA TxFrame ==
  ASSUME IInv, UNCHANGED <<tx, locals, raced>>,
         \A t \in Threads : pc'[t] = pc[t] \/ (t = "rx" /\ ~Sending(t) /\ ~Sending(t)' /\ pc'[t] # "idle")
  PROVE  CallInv' /\ TxInv'
<1>1. \A t \in Threads : Sending(t)' <=> Sending(t)
  BY DEF Sending
<1>2. \A t \in Threads : Sending(t)' => pc'[t] = pc[t]
  OBVIOUS
<1>3. CallInv'
  BY <1>1 DEF IInv, CallInv, locals, Threads
<1>4. SendInv => SendInv'
  BY <1>1, <1>2 DEF SendInv, Sending, At, Marked, tx, locals
<1>5. \A t \in Threads : (At(t, "tdt")' <=> At(t, "tdt")) /\ (Marked(t)' <=> Marked(t))
  BY <1>1, <1>2 DEF Sending, At, Marked
<1>6. QueueInv => QueueInv'
  BY <1>5 DEF QueueInv, Owned, Place, tx
<1>7. QED
  BY <1>3, <1>4, <1>6 DEF IInv, TxInv

-----------------------------------------------------------------------------
(* e1000_recv and the receiver.                                            *)

LEMMA RecvBeginsInv ==
  ASSUME IInv, RecvBegins
  PROVE  IInv'
<1> USE DEF IInv
<1>1. TypeOK'
  BY DEF TypeOK, RecvBegins, Goto, tx, rx, locals
<1>2. RxInv'
  BY DEF RxInv, RecvBegins, At, Goto, rx, TypeOK, Between, Threads
<1>3. CallInv' /\ TxInv'
  BY TxFrame DEF RecvBegins, At, Goto, TypeOK, Sending
<1>4. QED
  BY <1>1, <1>2, <1>3

LEMMA RecvEndsInv ==
  ASSUME IInv, RecvEnds
  PROVE  IInv'
<1> USE DEF IInv
<1>1. received' \in Frames
  BY DEF RecvEnds, RxInv, Between, At, TypeOK, RxSlots
<1>2. TypeOK'
  BY <1>1 DEF TypeOK, RecvEnds, Goto, tx, locals
<1>3. RxInv'
  BY DEF RxInv, RecvEnds, At, Goto, TypeOK, Between, Threads
<1>4. CallInv' /\ TxInv'
  BY TxFrame DEF RecvEnds, At, Goto, TypeOK, Sending
<1>5. QED
  BY <1>2, <1>3, <1>4

\* The buffer goes back to the device, and the next one is the oldest.
LEMMA HandBackInv ==
  ASSUME IInv, HandBack
  PROVE  IInv'
<1> USE DEF IInv
<1>1. rx_tail' \in RxSlots
  BY NextRx DEF HandBack, TypeOK
<1>2. TypeOK'
  BY <1>1 DEF TypeOK, HandBack, Goto, tx, locals
<1>3. RxInv'
  <2>1. /\ RDT' = rx_tail /\ rx_tail' = (rx_tail + 1) % RX_DESC_COUNT
        /\ rx_tail' = IF rx_tail = RX_DESC_COUNT - 1 THEN 0 ELSE rx_tail + 1
        /\ pc["rx"] = "back" /\ pc'["rx"] = "handle"
        /\ UNCHANGED <<RDH, filled, rx_bufs, dma>>
    BY NextRx DEF HandBack, At, Goto, TypeOK, Threads
  <2>2. RDH # rx_tail
    BY <2>1 DEF RxInv
  <2>3. \A i \in RxSlots : Between(rx_tail', RDH, i) <=> Between(rx_tail, RDH, i) /\ i # rx_tail
    BY <2>1, <2>2, RingAssumption DEF Between, TypeOK, RxSlots
  <2>4. QED
    BY <2>1, <2>2, <2>3 DEF RxInv, At
<1>4. CallInv' /\ TxInv'
  BY TxFrame DEF HandBack, At, Goto, TypeOK, Sending
<1>5. QED
  BY <1>2, <1>3, <1>4

LEMMA HandledInv ==
  ASSUME IInv, Handled
  PROVE  IInv'
<1> USE DEF IInv
<1>1. TypeOK'
  BY DEF TypeOK, Handled, Goto, tx, rx, locals
<1>2. RxInv'
  BY RxFrame DEF Handled, At, Goto, TypeOK, Threads
<1>3. CallInv' /\ TxInv'
  BY TxFrame DEF Handled, At, Goto, TypeOK, Sending
<1>4. QED
  BY <1>1, <1>2, <1>3

\* The device writes into a buffer that is not filled.
LEMMA DmaBeginsInv ==
  ASSUME IInv, DmaBegins
  PROVE  IInv'
<1> USE DEF IInv
<1>1. TypeOK'
  BY DEF TypeOK, DmaBegins, tx, locals
<1>2. RxInv'
  BY DEF RxInv, DmaBegins, At, TypeOK, Between, RxSlots
<1>3. CallInv' /\ TxInv'
  BY TxFrame DEF DmaBegins
<1>4. QED
  BY <1>1, <1>2, <1>3

\* One more buffer is filled; one of them stays free.
LEMMA DmaEndsInv ==
  ASSUME IInv, NEW f \in Frames, DmaEnds(f)
  PROVE  IInv'
<1> USE DEF IInv
<1>1. RDH' \in RxSlots
  BY NextRx DEF DmaEnds, TypeOK
<1>2. TypeOK'
  BY <1>1 DEF TypeOK, DmaEnds, tx, locals
<1>3. RxInv'
  <2>1. /\ RDH' = (IF RDH = RX_DESC_COUNT - 1 THEN 0 ELSE RDH + 1) /\ RDH # RDT
        /\ rx_tail = IF RDT = RX_DESC_COUNT - 1 THEN 0 ELSE RDT + 1
        /\ filled' = [filled EXCEPT ![RDH] = TRUE] /\ rx_bufs' = [rx_bufs EXCEPT ![RDH] = f]
        /\ dma' = FALSE
        /\ UNCHANGED <<pc, rx_tail, RDT>>
    BY NextRx DEF DmaEnds, TypeOK, RxInv
  <2>2. \A i \in RxSlots : Between(rx_tail, RDH', i) <=> Between(rx_tail, RDH, i) \/ i = RDH
    BY <2>1, RingAssumption DEF Between, TypeOK, RxSlots
  <2>3. RDH' # rx_tail
    BY <2>1, RingAssumption DEF TypeOK, RxSlots
  <2>4. ~(At("rx", "back") /\ RDH = rx_tail)
    BY DEF RxInv, At
  <2>5. QED
    BY <2>1, <2>2, <2>3, <2>4 DEF RxInv, At, TypeOK
<1>4. CallInv' /\ TxInv'
  BY TxFrame DEF DmaEnds
<1>5. QED
  BY <1>2, <1>3, <1>4

-----------------------------------------------------------------------------
(* e1000_send and the transmitter.                                         *)

\* The labels of e1000_send.
LEMMA SendLabels ==
  ASSUME TypeOK, CallInv, NEW t \in Threads
  PROVE  /\ Sending(t) <=> pc[t] \in {"spin", "copying", "addr", "status", "tail", "tdt"}
         /\ At(t, Caller(t)) => ~Sending(t)
BY DEF TypeOK, CallInv, Sending, At, Caller, Threads

\* A step of the sender to another label of e1000_send, at which no other sends.
LEMMA StepInv ==
  ASSUME IInv, NEW t \in Threads, Sending(t),
         NEW l \in {"copying", "addr", "status", "tail", "tdt"}, Goto(t, l),
         UNCHANGED <<rx, TDH, TDT, queued, frame, d, raced>>,
         TypeOK',
         raced = 0 =>
           /\ Len(queued) < TX_DESC_COUNT
           /\ l = "copying" => slot'[t] = TDT /\ tx_buf'[TDT] = t
           /\ l \in {"addr", "status", "tail", "tdt"} => tx_buf'[TDT] = frame[t]
           /\ l \in {"status", "tail", "tdt"} => addr'[TDT] = TDT
           /\ l \in {"tail", "tdt"} => slot'[t] = (TDT + 1) % TX_DESC_COUNT
           /\ l = "tdt" => tx_tail' = slot'[t]
           /\ l # "tdt" => tx_tail' = TDT
           /\ \A i \in TxSlots \ {TDT} :
                tx_buf'[i] = tx_buf[i] /\ addr'[i] = addr[i] /\ done'[i] = done[i]
           /\ done'[TDT] <=> l \notin {"tail", "tdt"}
  PROVE  IInv'
<1> USE DEF IInv
<1>1. /\ pc' = [pc EXCEPT ![t] = l] /\ pc'[t] = l
      /\ \A u \in Threads \ {t} : pc'[u] = pc[u]
      /\ \A u \in Threads : Sending(u)' <=> Sending(u)
  BY DEF Goto, TypeOK, Sending
<1>2. RxInv'
  BY <1>1, RxFrame DEF Sending, Threads
<1>3. CallInv'
  BY <1>1 DEF CallInv, Threads, Sending
<1>4. ASSUME raced' = 0
      PROVE  SendInv' /\ QueueInv'
  <2>1. raced = 0 /\ SendInv /\ QueueInv /\ TDT \in TxSlots
    BY <1>4 DEF TxInv, TypeOK
  <2>2. Len(queued) < TX_DESC_COUNT
    BY <2>1 DEF SendInv
  <2>3. \A u \in Threads : Sending(u) => u = t
    BY <2>1 DEF SendInv
  <2>4. \A u \in Threads \ {t} : pc'[u] \notin {"spin", "copying", "addr", "status", "tail", "tdt"}
    BY <1>1, <2>3 DEF Sending
  <2>5. SendInv'
    BY <1>1, <2>1, <2>2, <2>3, <2>4 DEF SendInv, At, Marked
  <2>6. ~Owned(TDT)
    BY <2>1, <2>2, Ends
  <2>7. \A i \in TxSlots : (Owned(i)' <=> Owned(i)) /\ Place(i)' = Place(i)
    BY DEF Owned, Place
  <2>8. (\E u \in Threads : Marked(u)') <=> l \in {"tail", "tdt"}
    BY <1>1, <2>4 DEF Marked
  <2>9. ~\E u \in Threads : Marked(u) /\ u # t
    BY <1>1, <2>4 DEF Marked
  <2>10. QueueInv'
    <3>1. (\A u \in Threads : ~At(u, "tdt")') => l # "tdt"
      BY <1>1 DEF At
    <3>2. ASSUME NEW i \in TxSlots, i # TDT
          PROVE  /\ Owned(i) => addr'[i] = i /\ tx_buf'[i] = queued[Place(i)]
                 /\ done'[i] <=> ~Owned(i)
      BY <2>1, <3>2 DEF QueueInv
    <3>3. QED
      BY <2>1, <2>6, <2>7, <2>8, <3>1, <3>2 DEF QueueInv
  <2>11. QED
    BY <2>5, <2>10
<1>5. QED
  BY <1>2, <1>3, <1>4 DEF TxInv

\* Two calls at once are a race; otherwise the ring is as the last call left it.
LEMMA BeginInv ==
  ASSUME IInv, NEW t \in Threads, NEW f \in Frames, Begin(t, f)
  PROVE  IInv'
<1> USE DEF IInv
<1>1. /\ pc' = [pc EXCEPT ![t] = "spin"] /\ At(t, Caller(t)) /\ ~Sending(t)
      /\ frame' = [frame EXCEPT ![t] = f] /\ d' = [d EXCEPT ![t] = tx_tail]
      /\ UNCHANGED <<tx, rx, slot>>
  BY SendLabels DEF Begin, Goto
<1>2. raced' \in 0..MaxRaced
  BY RingAssumption DEF Begin, TypeOK
<1>3. TypeOK'
  BY <1>1, <1>2 DEF TypeOK, tx, rx
<1>4. RxInv'
  BY <1>1, RxFrame DEF TypeOK, Threads, At, Caller
<1>5. CallInv'
  BY <1>1 DEF CallInv, Threads, Sending, TypeOK
<1>6. ASSUME raced' = 0
      PROVE  SendInv' /\ QueueInv'
  <2>1. raced = 0 /\ \A u \in Threads : ~Sending(u)
    BY <1>1, <1>6 DEF Begin, TypeOK
  <2>2. SendInv /\ QueueInv
    BY <2>1 DEF TxInv
  <2>3. \A u \in Threads : ~Marked(u) /\ ~At(u, "tdt")
    BY <2>1 DEF Marked, At, Sending
  <2>4. tx_tail = TDT
    BY <2>2, <2>3 DEF QueueInv
  <2>5. \A u \in Threads \ {t} : pc'[u] = pc[u] /\ ~Sending(u)'
    BY <1>1, <2>1 DEF TypeOK, Sending
  <2>6. pc'[t] = "spin" /\ d'[t] = TDT
    BY <1>1, <2>4 DEF TypeOK
  <2>7. SendInv'
    BY <1>1, <2>5, <2>6 DEF SendInv, Sending, At, Marked, tx
  <2>8. QueueInv'
    <3>1. \A u \in Threads : ~Marked(u)' /\ ~At(u, "tdt")'
      BY <2>3, <2>5, <2>6 DEF Marked, At
    <3>2. QED
      BY <1>1, <2>2, <2>3, <2>4, <3>1 DEF QueueInv, Owned, Place, tx
  <2>9. QED
    BY <2>7, <2>8
<1>7. QED
  BY <1>3, <1>4, <1>5, <1>6 DEF TxInv

\* The call ends without a frame queued.
LEMMA GiveUpInv ==
  ASSUME IInv, NEW t \in Threads, GiveUp(t)
  PROVE  IInv'
<1> USE DEF IInv
<1>1. /\ pc[t] = "spin" /\ pc' = [pc EXCEPT ![t] = Caller(t)]
      /\ frame' = [frame EXCEPT ![t] = NULL]
      /\ d' = [d EXCEPT ![t] = 0] /\ slot' = [slot EXCEPT ![t] = 0]
      /\ UNCHANGED <<tx, rx, raced>>
  BY DEF GiveUp, Return, At, Goto
<1>2. 0 \in TxSlots
  BY RingAssumption DEF TxSlots
<1>3. TypeOK'
  BY <1>1, <1>2 DEF TypeOK, tx, rx, Caller
<1>4. RxInv'
  BY <1>1, RxFrame DEF TypeOK, Threads, Caller
<1>5. CallInv'
  BY <1>1 DEF CallInv, Threads, Sending, TypeOK, Caller
<1>6. pc'[t] \in {"handle", "idle"} /\ \A u \in Threads \ {t} : pc'[u] = pc[u]
  BY <1>1 DEF TypeOK, Caller
<1>7. SendInv => SendInv'
  BY <1>1, <1>6 DEF SendInv, Sending, At, Marked, tx, TypeOK
<1>8. QueueInv => QueueInv'
  <2>1. \A u \in Threads : (At(u, "tdt")' <=> At(u, "tdt")) /\ (Marked(u)' <=> Marked(u))
    BY <1>1, <1>6 DEF At, Marked
  <2>2. QED
    BY <1>1, <2>1 DEF QueueInv, Owned, Place, tx
<1>9. QED
  BY <1>1, <1>3, <1>4, <1>5, <1>7, <1>8 DEF TxInv

\* A descriptor that is done is not the device's, so the ring is not full.
LEMMA CopyBeginsInv ==
  ASSUME IInv, NEW t \in Threads, CopyBegins(t)
  PROVE  IInv'
<1> USE DEF IInv
<1>1. /\ pc[t] = "spin" /\ done[d[t]] /\ Goto(t, "copying") /\ Sending(t)
      /\ slot' = [slot EXCEPT ![t] = tx_tail] /\ tx_buf' = [tx_buf EXCEPT ![tx_tail] = t]
      /\ UNCHANGED <<tx_tail, TDH, TDT, done, addr, queued, rx, frame, d, raced>>
  BY DEF CopyBegins, At, Sending
<1>2. TypeOK'
  BY <1>1 DEF TypeOK, rx, Goto
<1>3. ASSUME raced = 0
      PROVE  /\ tx_tail = TDT /\ d[t] = TDT /\ done[TDT]
             /\ Len(queued) < TX_DESC_COUNT
  <2>1. SendInv /\ QueueInv /\ TDT \in TxSlots
    BY <1>3 DEF TxInv, TypeOK
  <2>2. d[t] = TDT /\ \A u \in Threads : ~At(u, "tdt")
    BY <1>1, <2>1 DEF SendInv, Sending, At
  <2>3. ~Owned(TDT) /\ tx_tail = TDT
    BY <1>1, <2>1, <2>2 DEF QueueInv
  <2>4. Len(queued) < TX_DESC_COUNT
    BY <2>1, <2>3, Ends, QueueEnd, RingAssumption
  <2>5. QED
    BY <1>1, <2>2, <2>3, <2>4
<1>4. QED
  BY <1>1, <1>2, <1>3, StepInv DEF TypeOK

LEMMA CopyEndsInv ==
  ASSUME IInv, NEW t \in Threads, CopyEnds(t)
  PROVE  IInv'
<1> USE DEF IInv
<1>1. /\ pc[t] = "copying" /\ Goto(t, "addr") /\ Sending(t)
      /\ tx_buf' = [tx_buf EXCEPT ![slot[t]] = IF @ = t THEN frame[t] ELSE Torn]
      /\ UNCHANGED <<tx_tail, TDH, TDT, done, addr, queued, rx, locals, raced>>
  BY DEF CopyEnds, At, Sending
<1>2. TypeOK'
  BY <1>1 DEF TypeOK, rx, locals, Goto
<1>3. ASSUME raced = 0
      PROVE  /\ tx_tail = TDT /\ slot[t] = TDT /\ tx_buf[TDT] = t /\ done[TDT]
             /\ Len(queued) < TX_DESC_COUNT
  <2>1. SendInv /\ QueueInv /\ TDT \in TxSlots
    BY <1>3 DEF TxInv, TypeOK
  <2>2. /\ slot[t] = TDT /\ tx_buf[TDT] = t /\ Len(queued) < TX_DESC_COUNT
        /\ \A u \in Threads : ~At(u, "tdt") /\ ~Marked(u)
    BY <1>1, <2>1 DEF SendInv, Sending, At, Marked
  <2>3. ~Owned(TDT)
    BY <2>1, <2>2, Ends
  <2>4. QED
    BY <2>1, <2>2, <2>3 DEF QueueInv
<1>4. QED
  BY <1>1, <1>2, <1>3, StepInv DEF TypeOK, locals

LEMMA SetAddrInv ==
  ASSUME IInv, NEW t \in Threads, SetAddr(t)
  PROVE  IInv'
<1> USE DEF IInv
<1>1. /\ pc[t] = "addr" /\ Goto(t, "status") /\ Sending(t)
      /\ addr' = [addr EXCEPT ![d[t]] = tx_tail]
      /\ UNCHANGED <<tx_tail, TDH, TDT, done, tx_buf, queued, rx, locals, raced>>
  BY DEF SetAddr, At, Sending
<1>2. TypeOK'
  BY <1>1 DEF TypeOK, rx, locals, Goto
<1>3. ASSUME raced = 0
      PROVE  /\ tx_tail = TDT /\ d[t] = TDT /\ tx_buf[TDT] = frame[t] /\ done[TDT]
             /\ Len(queued) < TX_DESC_COUNT
  <2>1. SendInv /\ QueueInv /\ TDT \in TxSlots
    BY <1>3 DEF TxInv, TypeOK
  <2>2. /\ d[t] = TDT /\ tx_buf[TDT] = frame[t] /\ Len(queued) < TX_DESC_COUNT
        /\ \A u \in Threads : ~At(u, "tdt") /\ ~Marked(u)
    BY <1>1, <2>1 DEF SendInv, Sending, At, Marked
  <2>3. ~Owned(TDT)
    BY <2>1, <2>2, Ends
  <2>4. QED
    BY <2>1, <2>2, <2>3 DEF QueueInv
<1>4. QED
  BY <1>1, <1>2, <1>3, StepInv DEF TypeOK, locals

LEMMA SetStatusInv ==
  ASSUME IInv, NEW t \in Threads, SetStatus(t)
  PROVE  IInv'
<1> USE DEF IInv
<1>1. /\ pc[t] = "status" /\ Goto(t, "tail") /\ Sending(t)
      /\ done' = [done EXCEPT ![d[t]] = FALSE]
      /\ slot' = [slot EXCEPT ![t] = (tx_tail + 1) % TX_DESC_COUNT]
      /\ UNCHANGED <<tx_tail, TDH, TDT, addr, tx_buf, queued, rx, frame, d, raced>>
  BY DEF SetStatus, At, Sending
<1>2. TypeOK'
  <2>1. (tx_tail + 1) % TX_DESC_COUNT \in TxSlots
    BY NextTx DEF TypeOK
  <2>2. QED
    BY <1>1, <2>1 DEF TypeOK, rx, Goto
<1>3. ASSUME raced = 0
      PROVE  /\ tx_tail = TDT /\ d[t] = TDT /\ tx_buf[TDT] = frame[t] /\ addr[TDT] = TDT
             /\ Len(queued) < TX_DESC_COUNT
  <2>1. SendInv /\ QueueInv /\ TDT \in TxSlots
    BY <1>3 DEF TxInv, TypeOK
  <2>2. /\ d[t] = TDT /\ tx_buf[TDT] = frame[t] /\ addr[TDT] = TDT
        /\ Len(queued) < TX_DESC_COUNT /\ \A u \in Threads : ~At(u, "tdt")
    BY <1>1, <2>1 DEF SendInv, Sending, At
  <2>3. QED
    BY <2>1, <2>2 DEF QueueInv
<1>4. QED
  BY <1>1, <1>2, <1>3, StepInv DEF TypeOK

LEMMA SetTailInv ==
  ASSUME IInv, NEW t \in Threads, SetTail(t)
  PROVE  IInv'
<1> USE DEF IInv
<1>1. /\ pc[t] = "tail" /\ Goto(t, "tdt") /\ Sending(t) /\ tx_tail' = slot[t]
      /\ UNCHANGED <<TDH, TDT, done, addr, tx_buf, queued, rx, locals, raced>>
  BY DEF SetTail, At, Sending
<1>2. TypeOK'
  BY <1>1 DEF TypeOK, rx, locals, Goto
<1>3. ASSUME raced = 0
      PROVE  /\ tx_buf[TDT] = frame[t] /\ addr[TDT] = TDT /\ ~done[TDT]
             /\ slot[t] = (TDT + 1) % TX_DESC_COUNT
             /\ Len(queued) < TX_DESC_COUNT
  <2>1. SendInv /\ QueueInv /\ TDT \in TxSlots
    BY <1>3 DEF TxInv, TypeOK
  <2>2. /\ tx_buf[TDT] = frame[t] /\ addr[TDT] = TDT /\ Marked(t)
        /\ Len(queued) < TX_DESC_COUNT
    BY <1>1, <2>1 DEF SendInv, Sending, At, Marked
  <2>3. QED
    BY <2>1, <2>2 DEF QueueInv, SendInv
<1>4. QED
  BY <1>1, <1>2, <1>3, StepInv DEF locals

\* The frame is the device's: it is the last of the queue, which was not full.
LEMMA WriteTDTInv ==
  ASSUME IInv, NEW t \in Threads, WriteTDT(t)
  PROVE  IInv'
<1> USE DEF IInv
<1>1. /\ pc[t] = "tdt" /\ Sending(t) /\ pc' = [pc EXCEPT ![t] = Caller(t)]
      /\ frame' = [frame EXCEPT ![t] = NULL]
      /\ d' = [d EXCEPT ![t] = 0] /\ slot' = [slot EXCEPT ![t] = 0]
      /\ TDT' = slot[t] /\ queued' = (IF raced > 0 THEN <<>> ELSE Append(queued, frame[t]))
      /\ UNCHANGED <<tx_tail, TDH, done, addr, tx_buf, rx, raced>>
  BY DEF WriteTDT, Return, At, Goto, Sending
<1>2. frame[t] \in Frames
  BY <1>1 DEF CallInv
<1>3. TypeOK'
  <2>1. queued' \in Seq(Frames)
    BY <1>1, <1>2, EmptySeq, AppendProperties DEF TypeOK
  <2>2. 0 \in TxSlots
    BY RingAssumption DEF TxSlots
  <2>3. QED
    BY <1>1, <2>1, <2>2 DEF TypeOK, rx, Caller
<1>4. RxInv'
  BY <1>1, RxFrame DEF TypeOK, Threads, Caller
<1>5. CallInv'
  BY <1>1 DEF CallInv, Threads, Sending, TypeOK, Caller
<1>6. ASSUME raced' = 0
      PROVE  SendInv' /\ QueueInv'
  <2>1. raced = 0 /\ SendInv /\ QueueInv
    BY <1>1, <1>6 DEF TxInv
  <2> DEFINE n == Len(queued)
  <2>2. n \in 0..(TX_DESC_COUNT - 1)
    BY <1>1, <2>1, QueueEnd, RingAssumption DEF SendInv, At
  <2>3. /\ queued' = Append(queued, frame[t]) /\ Len(queued') = n + 1
        /\ \A i \in 1..n : queued'[i] = queued[i]
        /\ queued'[n + 1] = frame[t]
    BY <1>1, <1>2, <2>1, AppendProperties DEF TypeOK
  <2> HIDE DEF n
  <2>4. \A u \in Threads : ~Sending(u)' /\ ~At(u, "tdt")' /\ ~Marked(u)'
    BY <1>1, <2>1 DEF SendInv, TypeOK, Sending, Marked, At, Caller
  <2>5. SendInv'
    BY <2>4 DEF SendInv, Sending, At, Marked
  <2>6. TDT' = (TDT + 1) % TX_DESC_COUNT /\ tx_tail = TDT'
    BY <1>1, <2>1 DEF SendInv, At, Marked
  <2>7. /\ TDT' = (IF TDT = TX_DESC_COUNT - 1 THEN 0 ELSE TDT + 1)
        /\ TDT = IF TDH + n < TX_DESC_COUNT THEN TDH + n ELSE TDH + n - TX_DESC_COUNT
    BY <2>1, <2>6, NextTx, QueueEnd DEF TypeOK, n
  <2>8. TX_DESC_COUNT \in Nat /\ TDH \in 0..(TX_DESC_COUNT - 1) /\ TDH' = TDH
    BY <1>1, RingAssumption DEF TypeOK, TxSlots
  <2>9. TDT' = (TDH' + Len(queued')) % TX_DESC_COUNT
    <3>1. /\ TX_DESC_COUNT \in Nat \ {0} /\ TDH \in 0..(TX_DESC_COUNT - 1)
          /\ n + 1 \in 0..TX_DESC_COUNT
      BY <2>2, RingAssumption DEF TypeOK, TxSlots
    <3>2. (TDH + (n + 1)) % TX_DESC_COUNT
            = IF TDH + (n + 1) < TX_DESC_COUNT THEN TDH + (n + 1)
              ELSE TDH + (n + 1) - TX_DESC_COUNT
      BY <3>1, ModAdd
    <3>3. QED
      BY <2>2, <2>3, <2>7, <2>8, <3>2
  <2>10. \A i \in TxSlots : Owned(i)' <=> Owned(i) \/ i = TDT
    <3>1. SUFFICES ASSUME NEW i \in 0..(TX_DESC_COUNT - 1)
                   PROVE  Owned(i)' <=> Owned(i) \/ i = TDT
      BY DEF TxSlots
    <3>2. Owned(i) <=> IF TDH + n <= TX_DESC_COUNT THEN TDH <= i /\ i < TDH + n
                       ELSE TDH <= i \/ i < TDH + n - TX_DESC_COUNT
      BY DEF Owned, n
    <3>3. Owned(i)' <=> IF TDH + (n + 1) <= TX_DESC_COUNT THEN TDH <= i /\ i < TDH + (n + 1)
                        ELSE TDH <= i \/ i < TDH + (n + 1) - TX_DESC_COUNT
      BY <2>3, <2>8 DEF Owned
    <3>4. QED
      BY <2>2, <2>7, <2>8, <3>2, <3>3
  <2>11. ASSUME NEW i \in TxSlots, Owned(i)'
         PROVE  addr'[i] = i /\ tx_buf'[i] = queued'[Place(i)']
    <3>1. CASE i = TDT
      <4>1. Place(i)' = n + 1
        BY <1>1, <2>2, <2>7, <3>1, RingAssumption DEF Place, TypeOK, TxSlots
      <4>2. addr[i] = i /\ tx_buf[i] = frame[t]
        BY <1>1, <2>1, <3>1 DEF SendInv
      <4>3. QED
        BY <1>1, <2>3, <4>1, <4>2
    <3>2. CASE i # TDT
      <4>1. Owned(i) /\ Place(i)' = Place(i)
        BY <1>1, <2>10, <2>11, <3>2 DEF Place
      <4>2. Place(i) \in 1..n
        BY <2>2, <4>1, RingAssumption DEF Owned, Place, TypeOK, TxSlots, n
      <4>3. addr[i] = i /\ tx_buf[i] = queued[Place(i)]
        BY <2>1, <4>1 DEF QueueInv
      <4>4. QED
        BY <1>1, <2>3, <4>1, <4>2, <4>3
    <3>3. QED
      BY <3>1, <3>2
  <2>12. \A i \in TxSlots : done'[i] <=> ~Owned(i)'
    BY <1>1, <2>1, <2>10 DEF QueueInv, Marked
  <2>13. QueueInv'
    <3>1. Len(queued') <= TX_DESC_COUNT
      BY <2>2, <2>3, RingAssumption
    <3>2. tx_tail' = TDT'
      BY <1>1, <2>6
    <3>3. QED
      BY <2>4, <2>9, <2>11, <2>12, <3>1, <3>2 DEF QueueInv
  <2>14. QED
    BY <2>5, <2>13
<1>7. QED
  BY <1>3, <1>4, <1>5, <1>6 DEF TxInv

\* The device has sent the first frame of the queue: its descriptor is done.
LEMMA TransmitInv ==
  ASSUME IInv, Transmit
  PROVE  IInv'
<1> USE DEF IInv
<1>1. /\ TDH # TDT /\ done' = [done EXCEPT ![TDH] = TRUE]
      /\ TDH' = (TDH + 1) % TX_DESC_COUNT
      /\ TDH' = (IF TDH = TX_DESC_COUNT - 1 THEN 0 ELSE TDH + 1) /\ TDH' \in TxSlots
      /\ queued' = (IF queued = <<>> THEN <<>> ELSE Tail(queued))
      /\ UNCHANGED <<tx_tail, TDT, addr, tx_buf, rx, pc, locals, raced>>
  BY NextTx DEF Transmit, TypeOK
<1>2. TypeOK'
  <2>1. queued' \in Seq(Frames)
    BY <1>1, EmptySeq, HeadTailProperties DEF TypeOK
  <2>2. QED
    BY <1>1, <2>1 DEF TypeOK, rx, locals
<1>3. RxInv'
  BY <1>1, RxFrame
<1>4. CallInv'
  BY <1>1 DEF CallInv, Sending, locals
<1>5. ASSUME raced' = 0
      PROVE  SendInv' /\ QueueInv'
  <2>1. SendInv /\ QueueInv
    BY <1>1, <1>5 DEF TxInv
  <2> DEFINE n == Len(queued)
  <2>2. n \in 1..(TX_DESC_COUNT - 1) /\ ~Owned(TDT)
    BY <1>1, <2>1, Ends DEF TypeOK
  <2>3. queued # <<>>
    BY <2>2, EmptySeq
  <2>4. /\ queued' = Tail(queued) /\ Len(queued') = n - 1
        /\ \A i \in 1..(n - 1) : queued'[i] = queued[i + 1]
    BY <1>1, <2>3, HeadTailProperties DEF TypeOK
  <2> HIDE DEF n
  <2>5. TDT = IF TDH + n < TX_DESC_COUNT THEN TDH + n ELSE TDH + n - TX_DESC_COUNT
    BY <2>1, QueueEnd DEF n
  <2>6. /\ TX_DESC_COUNT \in Nat /\ TDH \in 0..(TX_DESC_COUNT - 1)
         /\ TDH' = IF TDH = TX_DESC_COUNT - 1 THEN 0 ELSE TDH + 1
    BY <1>1, RingAssumption DEF TypeOK, TxSlots
  <2>7. Len(queued') = n - 1
    BY <2>4
  <2>8. SendInv'
    <3>1. Len(queued') < TX_DESC_COUNT
      BY <2>2, <2>4, RingAssumption
    <3>2. QED
      BY <1>1, <2>1, <3>1 DEF SendInv, Sending, At, Marked, locals
  <2>9. TDT' = (TDH' + Len(queued')) % TX_DESC_COUNT
    <3>1. /\ TX_DESC_COUNT \in Nat \ {0} /\ TDH' \in 0..(TX_DESC_COUNT - 1)
          /\ n - 1 \in 0..TX_DESC_COUNT
      BY <1>1, <2>2, RingAssumption DEF TxSlots
    <3>2. (TDH' + (n - 1)) % TX_DESC_COUNT
            = IF TDH' + (n - 1) < TX_DESC_COUNT THEN TDH' + (n - 1)
              ELSE TDH' + (n - 1) - TX_DESC_COUNT
      BY <3>1, ModAdd
    <3>3. QED
      <4>1. TDT = IF TDH' + (n - 1) < TX_DESC_COUNT THEN TDH' + (n - 1)
                  ELSE TDH' + (n - 1) - TX_DESC_COUNT
        BY <2>2, <2>5, <2>6
      <4>2. QED
        BY <1>1, <2>7, <3>2, <4>1
  <2>10. \A i \in TxSlots : Owned(i)' <=> Owned(i) /\ i # TDH
    BY <2>2, <2>6, <2>7 DEF Owned, TxSlots, n
  <2>11. ASSUME NEW i \in TxSlots, Owned(i)'
        PROVE  addr'[i] = i /\ tx_buf'[i] = queued'[Place(i)']
    <3>1. Owned(i) /\ i # TDH
      BY <2>10, <2>11
    <3>2. Place(i)' = Place(i) - 1 /\ Place(i) \in 2..n
      BY <2>2, <2>6, <3>1 DEF Owned, Place, TxSlots, n
    <3>3. addr[i] = i /\ tx_buf[i] = queued[Place(i)]
      BY <2>1, <3>1 DEF QueueInv
    <3>4. queued'[Place(i) - 1] = queued[Place(i)]
      BY <2>2, <2>4, <3>2
    <3>5. QED
      BY <1>1, <3>2, <3>3, <3>4
  <2>12. Owned(TDH)
    BY <2>1, <2>2, Ends DEF n
  <2>13. ASSUME NEW i \in TxSlots
         PROVE  done'[i] <=> ~Owned(i)' /\ ~(i = TDT /\ \E t \in Threads : Marked(t))
    BY <1>1, <2>1, <2>2, <2>10, <2>12 DEF QueueInv, TypeOK
  <2>14. QueueInv'
    <3>1. Len(queued') <= TX_DESC_COUNT
      BY <2>2, <2>4, RingAssumption
    <3>2. \A t \in Threads : (Marked(t)' <=> Marked(t)) /\ (At(t, "tdt")' <=> At(t, "tdt"))
      BY <1>1 DEF Marked, At
    <3>3. QED
      BY <1>1, <2>1, <2>9, <2>11, <2>13, <3>1, <3>2 DEF QueueInv
  <2>15. QED
    BY <2>8, <2>14
<1>6. QED
  BY <1>2, <1>3, <1>4, <1>5 DEF TxInv

LEMMA StutterInv ==
  ASSUME IInv, UNCHANGED vars
  PROVE  IInv'
<1>1. TypeOK' /\ RxInv'
  BY DEF vars, tx, rx, locals, IInv, TypeOK, RxInv, At
<1>2. CallInv' /\ TxInv'
  BY TxFrame DEF vars
<1>3. QED
  BY <1>1, <1>2 DEF IInv

LEMMA NextInv == IInv /\ [Next]_vars => IInv'
<1>1. ASSUME IInv, NEW t \in Threads, SendStep(t)
      PROVE  IInv'
  BY <1>1, GiveUpInv, CopyBeginsInv, CopyEndsInv, SetAddrInv, SetStatusInv, SetTailInv,
     WriteTDTInv DEF SendStep
<1>2. ASSUME IInv, RecvStep
      PROVE  IInv'
  BY <1>2, RecvBeginsInv, RecvEndsInv, HandBackInv DEF RecvStep
<1>3. QED
  BY <1>1, <1>2, BeginInv, HandledInv, TransmitInv, DmaBeginsInv, DmaEndsInv, StutterInv
  DEF Next

\* The invariant holds in every state.
THEOREM Invariance == Spec => []IInv
BY InitInv, NextInv, PTL DEF Spec

-----------------------------------------------------------------------------
(* What the invariant says of the properties.                              *)

\* The oldest frame that waits is in the buffer First, the k-th in Slot(k).
First == IF At("rx", "back") THEN (rx_tail + 1) % RX_DESC_COUNT ELSE rx_tail

Backlog == IF First <= RDH THEN RDH - First ELSE RDH - First + RX_DESC_COUNT

Slot(k) == IF First + k - 1 < RX_DESC_COUNT THEN First + k - 1
           ELSE First + k - 1 - RX_DESC_COUNT

WaitingIs ==
  /\ First \in RxSlots /\ Backlog \in 0..(RX_DESC_COUNT - 1)
  /\ \A k \in 1..Backlog : Slot(k) \in RxSlots /\ Between(rx_tail, RDH, Slot(k))
  /\ Waiting = [k \in 1..Backlog |-> rx_bufs[Slot(k)]]
  /\ Waiting \in Seq(Frames) /\ Len(Waiting) = Backlog

\* The part of the ring that waits, of any length.
LEMMA WaitingShape == TypeOK /\ RxInv => WaitingIs
<1> SUFFICES ASSUME TypeOK, RxInv
             PROVE  WaitingIs
  OBVIOUS
<1>1. rx_tail \in 0..(RX_DESC_COUNT - 1) /\ RDH \in 0..(RX_DESC_COUNT - 1)
      /\ RX_DESC_COUNT \in Nat /\ RX_DESC_COUNT > 1
  BY RingAssumption DEF TypeOK, RxSlots
<1>2. First = IF At("rx", "back")
              THEN (IF rx_tail = RX_DESC_COUNT - 1 THEN 0 ELSE rx_tail + 1) ELSE rx_tail
  BY NextRx DEF First, TypeOK
<1>3. First \in 0..(RX_DESC_COUNT - 1) /\ Backlog \in 0..(RX_DESC_COUNT - 1)
  BY <1>1, <1>2 DEF Backlog
<1>4. At("rx", "back") => RDH # rx_tail
  BY DEF RxInv, At
<1>5. \A k \in 1..Backlog : Slot(k) \in 0..(RX_DESC_COUNT - 1) /\ Between(rx_tail, RDH, Slot(k))
  BY <1>1, <1>2, <1>3, <1>4 DEF Backlog, Slot, Between
<1> DEFINE first == IF At("rx", "back") THEN rx_tail + 1 ELSE rx_tail
<1>6. first \in 0..RX_DESC_COUNT
  BY <1>1
<1>7. (RDH - first) % RX_DESC_COUNT = Backlog
  <2>1. (RDH - first) % RX_DESC_COUNT
          = IF RDH >= first THEN RDH - first ELSE RDH - first + RX_DESC_COUNT
    BY <1>1, <1>6, ModSub
  <2>2. QED
    BY <1>1, <1>2, <1>4, <2>1 DEF Backlog
<1>8. ASSUME NEW k \in 1..Backlog
      PROVE  (first + k - 1) % RX_DESC_COUNT = Slot(k)
  <2>1. k \in 1..(RX_DESC_COUNT - 1)
    BY <1>1, <1>3
  <2>2. CASE first = RX_DESC_COUNT
    <3>1. First = 0 /\ first + k - 1 = RX_DESC_COUNT + (k - 1)
      BY <1>1, <1>2, <2>1, <2>2
    <3>2. (RX_DESC_COUNT + (k - 1)) % RX_DESC_COUNT = k - 1
      BY <1>1, <2>1
    <3>3. QED
      BY <1>1, <2>1, <3>1, <3>2 DEF Slot
  <2>3. CASE first # RX_DESC_COUNT
    <3>1. first \in 0..(RX_DESC_COUNT - 1) /\ k - 1 \in 0..RX_DESC_COUNT
          /\ RX_DESC_COUNT \in Nat \ {0}
      BY <1>1, <1>6, <2>1, <2>3
    <3>2. (first + (k - 1)) % RX_DESC_COUNT
            = IF first + (k - 1) < RX_DESC_COUNT THEN first + (k - 1)
              ELSE first + (k - 1) - RX_DESC_COUNT
      BY <3>1, ModAdd
    <3>3. first = First /\ first + k - 1 = first + (k - 1)
      BY <1>1, <1>2, <2>1, <2>3
    <3>4. QED
      BY <3>1, <3>2, <3>3 DEF Slot
  <2>4. QED
    BY <2>2, <2>3
<1>9. Waiting = [k \in 1..Backlog |-> rx_bufs[Slot(k)]]
  BY <1>7, <1>8 DEF Waiting
<1>10. \A k \in 1..Backlog : rx_bufs[Slot(k)] \in Frames
  BY <1>5 DEF RxInv, RxSlots
<1>11. Waiting \in Seq(Frames) /\ Len(Waiting) = Backlog
  <2>1. Backlog \in Nat
    BY <1>1, <1>3
  <2>2. QED
    BY <1>9, <1>10, <2>1, IsASeq, LenProperties
<1>12. QED
  BY <1>3, <1>5, <1>9, <1>11 DEF RxSlots, WaitingIs

\* The driver's index, the registers and the DD bits agree which receive buffer is
\* whose: e1000_recv finds a frame if one waits, and one is lost only for want of a
\* buffer.
THEOREM ReceiveRing == Spec => []Inv
<1>1. IInv => Inv
  <2> SUFFICES ASSUME IInv
               PROVE  Inv
    OBVIOUS
  <2>1. TypeOK /\ RxInv
    BY DEF IInv
  <2>2. NoneOverlooked
    <3>1. ASSUME At("rx", "recv")
          PROVE  filled[rx_tail] <=> Waiting # <<>>
      <4>1. ~At("rx", "back") /\ First = rx_tail
        BY <3>1 DEF At, First
      <4>2. filled[rx_tail] <=> Between(rx_tail, RDH, rx_tail)
        BY <2>1, <4>1 DEF RxInv, TypeOK
      <4>3. Between(rx_tail, RDH, rx_tail) <=> Backlog # 0
        BY <2>1, <4>1, RingAssumption DEF TypeOK, RxSlots, Between, Backlog
      <4>4. Waiting # <<>> <=> Backlog # 0
        BY <2>1, WaitingShape, EmptySeq DEF WaitingIs
      <4>5. QED
        BY <4>2, <4>3, <4>4
    <3>2. QED
      BY <3>1 DEF NoneOverlooked
  <2>3. LostOnlyWhenFull
    <3>1. ASSUME RDH = RDT
          PROVE  (RDH - rx_tail) % RX_DESC_COUNT = RX_DESC_COUNT - 1
      <4>1. /\ RX_DESC_COUNT \in Nat \ {0} /\ RDH \in 0..(RX_DESC_COUNT - 1)
            /\ rx_tail \in 0..RX_DESC_COUNT
        BY <2>1, RingAssumption DEF TypeOK, RxSlots
      <4>2. (RDH - rx_tail) % RX_DESC_COUNT
              = IF RDH >= rx_tail THEN RDH - rx_tail ELSE RDH - rx_tail + RX_DESC_COUNT
        BY <4>1, ModSub
      <4>3. rx_tail = IF RDT = RX_DESC_COUNT - 1 THEN 0 ELSE RDT + 1
        BY <2>1, NextRx DEF RxInv, TypeOK
      <4>4. QED
        BY <3>1, <4>1, <4>2, <4>3
    <3>2. QED
      BY <3>1 DEF LostOnlyWhenFull
  <2>4. QED
    BY <2>1, <2>2, <2>3 DEF Inv
<1>2. QED
  BY <1>1, Invariance, PTL

\* e1000_send and the device agree what is to be sent: the descriptors from TDH hold
\* the frames queued, whole and in order, as long as no two calls overlap.
THEOREM SentExactly == Spec => []TxExact
<1>1. IInv => TxExact
  <2> SUFFICES ASSUME IInv, raced = 0
               PROVE  /\ (TDT - TDH) % TX_DESC_COUNT = Len(queued) % TX_DESC_COUNT
                      /\ \A k \in 1..Len(queued) :
                           tx_buf[addr[(TDH + k - 1) % TX_DESC_COUNT]] = queued[k]
    BY DEF TxExact
  <2>1. TypeOK /\ QueueInv
    BY DEF IInv, TxInv
  <2> DEFINE n == Len(queued)
  <2>2. /\ n \in 0..TX_DESC_COUNT
        /\ TDT = IF TDH + n < TX_DESC_COUNT THEN TDH + n ELSE TDH + n - TX_DESC_COUNT
    BY <2>1, QueueEnd
  <2> HIDE DEF n
  <2>3. /\ TX_DESC_COUNT \in Nat \ {0} /\ TDH \in 0..(TX_DESC_COUNT - 1)
        /\ TDT \in 0..(TX_DESC_COUNT - 1) /\ TDH \in 0..TX_DESC_COUNT
    BY <2>1, RingAssumption DEF TypeOK, TxSlots
  <2>4. (TDT - TDH) % TX_DESC_COUNT = n % TX_DESC_COUNT
    <3>1. (TDT - TDH) % TX_DESC_COUNT
            = IF TDT >= TDH THEN TDT - TDH ELSE TDT - TDH + TX_DESC_COUNT
      BY <2>3, ModSub
    <3>2. n % TX_DESC_COUNT = IF n = TX_DESC_COUNT THEN 0 ELSE n
      BY <2>2, <2>3, ModSelf
    <3>3. QED
      BY <2>2, <2>3, <3>1, <3>2
  <2>5. ASSUME NEW k \in 1..n
        PROVE  tx_buf[addr[(TDH + k - 1) % TX_DESC_COUNT]] = queued[k]
    <3> DEFINE i == IF TDH + (k - 1) < TX_DESC_COUNT THEN TDH + (k - 1)
                    ELSE TDH + (k - 1) - TX_DESC_COUNT
    <3>1. k - 1 \in 0..TX_DESC_COUNT /\ TDH + k - 1 = TDH + (k - 1)
      BY <2>2, <2>3
    <3>2. (TDH + k - 1) % TX_DESC_COUNT = i
      BY <2>3, <3>1, ModAdd
    <3>3. i \in TxSlots /\ Owned(i) /\ Place(i) = k
      BY <2>2, <2>3 DEF Owned, Place, TxSlots, n
    <3>4. addr[i] = i /\ tx_buf[i] = queued[k]
      BY <2>1, <3>3 DEF QueueInv
    <3>5. QED
      BY <3>2, <3>4
  <2>6. QED
    BY <2>4, <2>5 DEF n
<1>2. QED
  BY <1>1, Invariance, PTL

\* The wait for a free descriptor (e1000.c:233) is in vain only when every
\* descriptor holds a frame that is not sent.
THEOREM RefusedWhenFull == Spec => RefusedOnlyWhenFull
<1>1. ASSUME IInv, NEW t \in Threads, GiveUp(t), raced = 0
      PROVE  Len(queued) = TX_DESC_COUNT
  <2>1. TypeOK /\ SendInv /\ QueueInv /\ TDT \in TxSlots
    BY <1>1 DEF IInv, TxInv, TypeOK
  <2>2. pc[t] = "spin" /\ ~done[d[t]] /\ Sending(t)
    BY <1>1 DEF GiveUp, At, Sending
  <2>3. d[t] = TDT /\ \A u \in Threads : Sending(u) => u = t
    BY <2>1, <2>2 DEF SendInv
  <2>4. \A u \in Threads : ~Marked(u)
    BY <2>2, <2>3 DEF Marked, Sending
  <2>5. Owned(TDT)
    BY <2>1, <2>2, <2>3, <2>4 DEF QueueInv
  <2>6. QED
    BY <2>1, <2>5, Ends
<1>2. IInv /\ [Next]_vars
        => [(\E t \in Threads : GiveUp(t)) /\ raced = 0 => Len(queued) = TX_DESC_COUNT]_vars
  BY <1>1
<1>3. QED
  BY <1>2, Invariance, PTL DEF Spec, RefusedOnlyWhenFull

-----------------------------------------------------------------------------
(* The receive ring implements the queue.                                  *)

\* What does not touch the ring leaves what waits.
LEMMA SameRing ==
  ASSUME UNCHANGED <<rx_tail, RDH, rx_bufs, received>>, At("rx", "back")' <=> At("rx", "back")
  PROVE  UNCHANGED Promise!vars
<1>1. Waiting' = Waiting
  BY DEF Waiting
<1>2. QED
  BY <1>1 DEF Promise!vars

LEMMA InitPromise == Init => Promise!Init
<1> SUFFICES ASSUME Init
             PROVE  Promise!Init
  OBVIOUS
<1>1. WaitingIs
  BY InitInv, WaitingShape DEF IInv
<1>2. Backlog = 0
  BY RingAssumption DEF Init, Backlog, First, At
<1>3. Waiting = <<>>
  BY <1>1, <1>2, EmptySeq DEF WaitingIs
<1>4. QED
  BY <1>3 DEF Promise!Init, Init

\* The frame that e1000_recv copies is the oldest.
LEMMA RecvEndsGets ==
  ASSUME IInv, RecvEnds, WaitingIs, WaitingIs'
  PROVE  Promise!Get
<1>1. /\ pc["rx"] = "reading" /\ received' = rx_bufs[rx_tail]
      /\ ~At("rx", "back") /\ At("rx", "back")' /\ UNCHANGED <<rx_tail, RDH, rx_bufs>>
  BY DEF RecvEnds, At, Goto, IInv, TypeOK, Threads
<1>2. RX_DESC_COUNT \in Nat /\ RX_DESC_COUNT > 1
      /\ rx_tail \in 0..(RX_DESC_COUNT - 1) /\ RDH \in 0..(RX_DESC_COUNT - 1)
  BY RingAssumption DEF IInv, TypeOK, RxSlots
<1>3. RDH # rx_tail
  BY <1>1 DEF IInv, RxInv
<1>4. First = rx_tail /\ First' = IF rx_tail = RX_DESC_COUNT - 1 THEN 0 ELSE rx_tail + 1
  BY <1>1, NextRx DEF First, IInv, TypeOK
<1>5. Backlog \in 1..(RX_DESC_COUNT - 1) /\ Backlog' = Backlog - 1
  BY <1>1, <1>2, <1>3, <1>4 DEF Backlog
<1>6. Slot(1) = rx_tail
  BY <1>2, <1>4 DEF Slot
<1>7. ASSUME NEW k \in 1..(Backlog - 1)
      PROVE  Slot(k)' = Slot(k + 1)
  BY <1>2, <1>4, <1>5 DEF Slot
<1>8. /\ Waiting \in Seq(Frames) /\ Len(Waiting) = Backlog
      /\ \A k \in 1..Backlog : Waiting[k] = rx_bufs[Slot(k)]
      /\ Waiting' \in Seq(Frames) /\ Len(Waiting') = Backlog - 1
      /\ \A k \in 1..(Backlog - 1) : Waiting'[k] = rx_bufs[Slot(k)']
  BY <1>1, <1>5 DEF WaitingIs
<1>9. Waiting # <<>>
  BY <1>5, <1>8, EmptySeq
<1>10. Head(Waiting) = rx_bufs[rx_tail]
  BY <1>5, <1>6, <1>8, <1>9
<1>11. Waiting' = Tail(Waiting)
  <2>1. /\ Tail(Waiting) \in Seq(Frames) /\ Len(Tail(Waiting)) = Backlog - 1
        /\ \A k \in 1..(Backlog - 1) : Tail(Waiting)[k] = Waiting[k + 1]
    BY <1>8, <1>9, HeadTailProperties
  <2>2. ASSUME NEW k \in 1..(Backlog - 1)
        PROVE  Waiting'[k] = Tail(Waiting)[k]
    <3>1. k + 1 \in 1..Backlog
      BY <1>5
    <3>2. Waiting'[k] = rx_bufs[Slot(k)']
      BY <1>8
    <3>3. Waiting[k + 1] = rx_bufs[Slot(k + 1)]
      BY <1>8, <3>1
    <3>4. QED
      BY <1>7, <2>1, <3>2, <3>3
  <2>3. QED
    BY <1>8, <2>1, <2>2, SeqEqual
<1>12. QED
  BY <1>1, <1>9, <1>10, <1>11 DEF Promise!Get

\* The index advances over the frame that was returned.
LEMMA HandBackKeeps ==
  ASSUME IInv, HandBack, WaitingIs, WaitingIs'
  PROVE  UNCHANGED Promise!vars
<1>1. /\ rx_tail' = (rx_tail + 1) % RX_DESC_COUNT /\ At("rx", "back") /\ ~At("rx", "back")'
      /\ UNCHANGED <<RDH, rx_bufs, received>>
  BY DEF HandBack, At, Goto, IInv, TypeOK, Threads
<1>2. First' = First
  BY <1>1 DEF First
<1>3. Backlog' = Backlog /\ \A k \in 1..Backlog : Slot(k)' = Slot(k)
  BY <1>1, <1>2 DEF Backlog, Slot
<1>4. Waiting' = Waiting
  BY <1>1, <1>3 DEF WaitingIs
<1>5. QED
  BY <1>1, <1>4 DEF Promise!vars

\* The device does not write into a buffer that holds a frame.
LEMMA DmaBeginsKeeps ==
  ASSUME IInv, DmaBegins, WaitingIs, WaitingIs'
  PROVE  UNCHANGED Promise!vars
<1>1. /\ rx_bufs' = [rx_bufs EXCEPT ![RDH] = Torn] /\ UNCHANGED <<pc, rx_tail, RDH, received>>
  BY DEF DmaBegins
<1>2. First' = First /\ Backlog' = Backlog /\ \A k \in 1..Backlog : Slot(k)' = Slot(k)
  BY <1>1 DEF First, Backlog, Slot, At
<1>3. ~Between(rx_tail, RDH, RDH)
  BY DEF Between, IInv, TypeOK, RxSlots
<1>4. \A k \in 1..Backlog : Slot(k) # RDH
  BY <1>3 DEF WaitingIs
<1>5. \A k \in 1..Backlog : rx_bufs'[Slot(k)] = rx_bufs[Slot(k)]
  BY <1>1, <1>4 DEF WaitingIs, IInv, TypeOK
<1>6. Waiting' = Waiting
  BY <1>2, <1>5 DEF WaitingIs
<1>7. QED
  BY <1>1, <1>6 DEF Promise!vars

\* A frame that found a buffer waits behind the others.
LEMMA DmaEndsPuts ==
  ASSUME IInv, NEW f \in Frames, DmaEnds(f), WaitingIs, WaitingIs'
  PROVE  Promise!Put
<1>1. /\ RDH' = (IF RDH = RX_DESC_COUNT - 1 THEN 0 ELSE RDH + 1) /\ RDH # RDT
      /\ rx_tail = IF RDT = RX_DESC_COUNT - 1 THEN 0 ELSE RDT + 1
      /\ rx_bufs' = [rx_bufs EXCEPT ![RDH] = f]
      /\ UNCHANGED <<pc, rx_tail, RDT, received>>
  BY NextRx DEF DmaEnds, IInv, TypeOK, RxInv
<1>2. /\ RX_DESC_COUNT \in Nat /\ RX_DESC_COUNT > 1 /\ rx_tail \in 0..(RX_DESC_COUNT - 1)
      /\ RDH \in 0..(RX_DESC_COUNT - 1) /\ RDT \in 0..(RX_DESC_COUNT - 1)
  BY RingAssumption DEF IInv, TypeOK, RxSlots
<1>3. First' = First /\ First \in 0..(RX_DESC_COUNT - 1)
      /\ First = IF At("rx", "back")
                 THEN (IF rx_tail = RX_DESC_COUNT - 1 THEN 0 ELSE rx_tail + 1) ELSE rx_tail
  BY <1>1, NextRx DEF First, At, WaitingIs, RxSlots, IInv, TypeOK
<1>4. RDH' # First
  <2>1. At("rx", "back") => RDH # rx_tail
    BY DEF IInv, RxInv, At
  <2>2. RDH' # rx_tail
    BY <1>1, <1>2
  <2>3. QED
    BY <1>1, <1>2, <1>3, <2>1, <2>2
<1>5. Backlog' = Backlog + 1 /\ Backlog \in 0..(RX_DESC_COUNT - 1)
  BY <1>1, <1>2, <1>3, <1>4 DEF Backlog
<1>6. \A k \in 1..Backlog' : Slot(k)' = Slot(k)
  BY <1>3 DEF Slot
<1>7. ~Between(rx_tail, RDH, RDH)
  BY <1>2 DEF Between
<1>8. \A k \in 1..Backlog : rx_bufs'[Slot(k)] = rx_bufs[Slot(k)]
  BY <1>1, <1>7 DEF WaitingIs, IInv, TypeOK
<1>9. /\ Waiting \in Seq(Frames) /\ Len(Waiting) = Backlog
      /\ Waiting' \in Seq(Frames) /\ Len(Waiting') = Backlog + 1 /\ Backlog + 1 < RX_DESC_COUNT
  BY <1>2, <1>5 DEF WaitingIs
<1>10. \A k \in 1..Backlog : Waiting'[k] = Waiting[k]
  BY <1>5, <1>6, <1>8 DEF WaitingIs
<1>11. SubSeq(Waiting', 1, Len(Waiting)) = Waiting
  <2>1. \A k \in 1..Backlog : Waiting'[k] \in Frames
    BY <1>5, <1>9, ElementOfSeq
  <2>2. /\ SubSeq(Waiting', 1, Backlog) \in Seq(Frames)
        /\ Len(SubSeq(Waiting', 1, Backlog)) = Backlog
        /\ \A k \in 1..Backlog : SubSeq(Waiting', 1, Backlog)[k] = Waiting'[k]
    BY <1>5, <2>1, SubSeqProperties
  <2>3. QED
    BY <1>9, <1>10, <2>2, SeqEqual
<1>12. QED
  BY <1>1, <1>2, <1>5, <1>9, <1>11 DEF Promise!Put

LEMMA NextPromise ==
  ASSUME IInv, WaitingIs, WaitingIs', [Next]_vars
  PROVE  [Promise!Next]_(Promise!vars)
<1>1. ASSUME NEW t \in Threads, SendStep(t) \/ \E f \in Frames : Begin(t, f)
      PROVE  UNCHANGED Promise!vars
  <2>1. UNCHANGED rx /\ pc[t] # "back"
    BY <1>1 DEF SendStep, GiveUp, CopyBegins, CopyEnds, SetAddr, SetStatus, SetTail, WriteTDT,
                Begin, At, Caller
  <2>2. \E l \in {"spin", "copying", "addr", "status", "tail", "tdt", Caller(t)} : Goto(t, l)
    BY <1>1 DEF SendStep, GiveUp, CopyBegins, CopyEnds, SetAddr, SetStatus, SetTail, WriteTDT,
                Return, Begin
  <2>3. pc'[t] # "back" /\ \A u \in Threads \ {t} : pc'[u] = pc[u]
    BY <2>2 DEF Goto, Caller, IInv, TypeOK
  <2>4. At("rx", "back")' <=> At("rx", "back")
    BY <2>1, <2>3 DEF At, Threads
  <2>5. QED
    BY <2>1, <2>4, SameRing DEF rx
<1>2. ASSUME RecvBegins \/ Handled \/ Transmit \/ UNCHANGED vars
      PROVE  UNCHANGED Promise!vars
  <2>1. UNCHANGED rx /\ (At("rx", "back")' <=> At("rx", "back"))
    BY <1>2 DEF RecvBegins, Handled, Transmit, vars, At, Goto, IInv, TypeOK, Threads
  <2>2. QED
    BY <2>1, SameRing DEF rx
<1>3. CASE RecvEnds
  BY <1>3, RecvEndsGets DEF Promise!Next
<1>4. CASE HandBack
  BY <1>4, HandBackKeeps
<1>5. CASE DmaBegins
  BY <1>5, DmaBeginsKeeps
<1>6. CASE \E f \in Frames : DmaEnds(f)
  BY <1>6, DmaEndsPuts DEF Promise!Next
<1>7. QED
  BY <1>1, <1>2, <1>3, <1>4, <1>5, <1>6 DEF Next, RecvStep

\* Every frame for which the device found a descriptor is returned by e1000_recv
\* once, whole and in order: the receive ring is a queue.
THEOREM RingIsQueue == Spec => Implements
<1>1. IInv => WaitingIs
  BY WaitingShape DEF IInv
<1>2. IInv /\ WaitingIs /\ WaitingIs' /\ [Next]_vars => [Promise!Next]_(Promise!vars)
  BY NextPromise
<1>3. Spec => Promise!Init /\ [][Promise!Next]_(Promise!vars)
  BY <1>1, <1>2, InitPromise, Invariance, PTL DEF Spec
<1>4. QED
  BY <1>3 DEF Implements, Promise!Spec
=============================================================================
