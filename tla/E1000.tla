------------------------------- MODULE E1000 -------------------------------
(***************************************************************************)
(* The descriptor rings the e1000 driver shares with the device.  Both the *)
(* shell and net-rx send, without a lock; net-rx alone receives.  The      *)
(* device works on the rings at any time.  e1000_init is over, and no      *)
(* frame is too long for a buffer.                                         *)
(***************************************************************************)
EXTENDS Integers, Sequences

CONSTANTS TX_DESC_COUNT,
          RX_DESC_COUNT,
          Frames,          \* what the frames hold
          MaxRaced,        \* bound: the calls that are followed once two overlapped
          NULL

ASSUME RingAssumption == /\ TX_DESC_COUNT \in Nat \ {0}
                         /\ RX_DESC_COUNT \in Nat \ {0, 1}
                         /\ NULL \notin Frames
                         /\ MaxRaced \in Nat

Threads == {"shell", "rx"}
TxSlots == 0..(TX_DESC_COUNT - 1)
RxSlots == 0..(RX_DESC_COUNT - 1)

VARIABLES
  tx_tail, TDH, TDT,    \* the driver's index and the registers
  done, addr,           \* tx_ring: the DD bit and the slot addr points to
  tx_buf,               \* the slots; or the thread that is copying
  rx_tail, RDH, RDT,
  filled,               \* the DD bits of rx_ring
  rx_bufs,
  dma,                  \* the device is writing into a receive buffer
  pc,                   \* where the threads are
  frame,                \* what they are sending
  d, slot,              \* the descriptor and slot they use for it
  received,             \* what e1000_recv returned last
  queued,               \* history: the frames given to the device
  raced                 \* history: the calls since two threads were in e1000_send

tx == <<tx_tail, TDH, TDT, done, addr, tx_buf, queued>>
rx == <<rx_tail, RDH, RDT, filled, rx_bufs, dma, received>>
locals == <<frame, d, slot>>

vars == <<tx, rx, pc, locals, raced>>

Torn == "torn"

\* Mutant: the descriptors are not marked done.
Init_Busy ==
  /\ tx_tail = 0 /\ TDH = 0 /\ TDT = 0
  /\ done = [i \in TxSlots |-> FALSE]
  /\ addr = [i \in TxSlots |-> NULL]
  /\ tx_buf = [i \in TxSlots |-> NULL]
  /\ rx_tail = 0 /\ RDH = 0 /\ RDT = RX_DESC_COUNT - 1
  /\ filled = [i \in RxSlots |-> FALSE]
  /\ rx_bufs = [i \in RxSlots |-> NULL]
  /\ dma = FALSE
  /\ pc = [shell |-> "idle", rx |-> "recv"]
  /\ frame = [t \in Threads |-> NULL]
  /\ d = [t \in Threads |-> 0] /\ slot = [t \in Threads |-> 0]
  /\ received = NULL /\ queued = <<>> /\ raced = 0

Init ==
  /\ tx_tail = 0 /\ TDH = 0 /\ TDT = 0
  /\ done = [i \in TxSlots |-> TRUE]
  /\ addr = [i \in TxSlots |-> NULL]
  /\ tx_buf = [i \in TxSlots |-> NULL]
  /\ rx_tail = 0 /\ RDH = 0 /\ RDT = RX_DESC_COUNT - 1
  /\ filled = [i \in RxSlots |-> FALSE]
  /\ rx_bufs = [i \in RxSlots |-> NULL]
  /\ dma = FALSE
  /\ pc = [shell |-> "idle", rx |-> "recv"]
  /\ frame = [t \in Threads |-> NULL]
  /\ d = [t \in Threads |-> 0] /\ slot = [t \in Threads |-> 0]
  /\ received = NULL /\ queued = <<>> /\ raced = 0

At(t, label) == pc[t] = label
Goto(t, label) == pc' = [pc EXCEPT ![t] = label]

\* Where a thread is that may call e1000_send.
Caller(t) == IF t = "rx" THEN "handle" ELSE "idle"

Sending(t) == pc[t] \notin {"idle", "recv", "reading", "back", "handle"}

Return(t) ==
  /\ Goto(t, Caller(t))
  /\ frame' = [frame EXCEPT ![t] = NULL]
  /\ d' = [d EXCEPT ![t] = 0]
  /\ slot' = [slot EXCEPT ![t] = 0]

-----------------------------------------------------------------------------
(* e1000_send.  Each read of tx_tail is the code's own.                    *)

Begin(t, f) ==
  /\ At(t, Caller(t))
  /\ frame' = [frame EXCEPT ![t] = f]
  /\ d' = [d EXCEPT ![t] = tx_tail]
  /\ raced < MaxRaced
  /\ raced' = IF raced > 0 \/ \E u \in Threads \ {t} : Sending(u) THEN raced + 1 ELSE 0
  /\ Goto(t, "spin")
  /\ UNCHANGED <<tx, rx, slot>>

\* Mutant: the descriptor is not looked at.
CopyBegins_Anyway(t) ==
  /\ At(t, "spin")
  /\ slot' = [slot EXCEPT ![t] = tx_tail]
  /\ tx_buf' = [tx_buf EXCEPT ![tx_tail] = t]
  /\ Goto(t, "copying")
  /\ UNCHANGED <<tx_tail, TDH, TDT, done, addr, queued, rx, frame, d, raced>>

\* The descriptor is free; the copy into the slot begins.
CopyBegins(t) ==
  /\ At(t, "spin")
  /\ done[d[t]]
  /\ slot' = [slot EXCEPT ![t] = tx_tail]
  /\ tx_buf' = [tx_buf EXCEPT ![tx_tail] = t]
  /\ Goto(t, "copying")
  /\ UNCHANGED <<tx_tail, TDH, TDT, done, addr, queued, rx, frame, d, raced>>

GiveUp(t) ==
  /\ At(t, "spin")
  /\ ~done[d[t]]
  /\ Return(t)
  /\ UNCHANGED <<tx, rx, raced>>

\* Two copies into one slot leave a mixture.
CopyEnds(t) ==
  /\ At(t, "copying")
  /\ tx_buf' = [tx_buf EXCEPT ![slot[t]] = IF @ = t THEN frame[t] ELSE Torn]
  /\ Goto(t, "addr")
  /\ UNCHANGED <<tx_tail, TDH, TDT, done, addr, queued, rx, locals, raced>>

\* addr, length and cmd
SetAddr(t) ==
  /\ At(t, "addr")
  /\ addr' = [addr EXCEPT ![d[t]] = tx_tail]
  /\ Goto(t, "status")
  /\ UNCHANGED <<tx_tail, TDH, TDT, done, tx_buf, queued, rx, locals, raced>>

\* ... and tx_tail + 1 is computed.
SetStatus(t) ==
  /\ At(t, "status")
  /\ done' = [done EXCEPT ![d[t]] = FALSE]
  /\ slot' = [slot EXCEPT ![t] = (tx_tail + 1) % TX_DESC_COUNT]
  /\ Goto(t, "tail")
  /\ UNCHANGED <<tx_tail, TDH, TDT, addr, tx_buf, queued, rx, frame, d, raced>>

SetTail(t) ==
  /\ At(t, "tail")
  /\ tx_tail' = slot[t]
  /\ Goto(t, "tdt")
  /\ UNCHANGED <<TDH, TDT, done, addr, tx_buf, queued, rx, locals, raced>>

WriteTDT(t) ==
  /\ At(t, "tdt")
  /\ TDT' = slot[t]
  /\ queued' = IF raced > 0 THEN <<>> ELSE Append(queued, frame[t])
  /\ Return(t)
  /\ UNCHANGED <<tx_tail, TDH, done, addr, tx_buf, rx, raced>>

-----------------------------------------------------------------------------
(* net-rx: e1000_recv.  It handles what it got, which may make it send.    *)

RecvBegins ==
  /\ At("rx", "recv")
  /\ filled[rx_tail]
  /\ Goto("rx", "reading")
  /\ UNCHANGED <<tx, rx, locals, raced>>

RecvEnds ==
  /\ At("rx", "reading")
  /\ received' = rx_bufs[rx_tail]
  /\ filled' = [filled EXCEPT ![rx_tail] = FALSE]
  /\ Goto("rx", "back")
  /\ UNCHANGED <<tx, rx_tail, RDH, RDT, rx_bufs, dma, locals, raced>>

\* Mutant: the index is advanced first.
HandBack_Next ==
  /\ At("rx", "back")
  /\ RDT' = (rx_tail + 1) % RX_DESC_COUNT
  /\ rx_tail' = (rx_tail + 1) % RX_DESC_COUNT
  /\ Goto("rx", "handle")
  /\ UNCHANGED <<tx, RDH, filled, rx_bufs, dma, received, locals, raced>>

\* Mutant: it is handed back one call later.
HandBack_Late ==
  /\ At("rx", "back")
  /\ RDT' = (rx_tail - 1) % RX_DESC_COUNT
  /\ rx_tail' = (rx_tail + 1) % RX_DESC_COUNT
  /\ Goto("rx", "handle")
  /\ UNCHANGED <<tx, RDH, filled, rx_bufs, dma, received, locals, raced>>

\* "hand the descriptor back"
HandBack ==
  /\ At("rx", "back")
  /\ RDT' = rx_tail
  /\ rx_tail' = (rx_tail + 1) % RX_DESC_COUNT
  /\ Goto("rx", "handle")
  /\ UNCHANGED <<tx, RDH, filled, rx_bufs, dma, received, locals, raced>>

Handled ==
  /\ At("rx", "handle")
  /\ Goto("rx", "recv")
  /\ UNCHANGED <<tx, rx, locals, raced>>

-----------------------------------------------------------------------------
(* The device.                                                             *)

Transmit ==
  /\ TDH # TDT
  /\ done' = [done EXCEPT ![TDH] = TRUE]
  /\ TDH' = (TDH + 1) % TX_DESC_COUNT
  /\ queued' = IF queued = <<>> THEN <<>> ELSE Tail(queued)
  /\ UNCHANGED <<tx_tail, TDT, addr, tx_buf, rx, pc, locals, raced>>

\* A frame arrives; without a descriptor, it is lost.
DmaBegins ==
  /\ RDH # RDT
  /\ ~dma
  /\ dma' = TRUE
  /\ rx_bufs' = [rx_bufs EXCEPT ![RDH] = Torn]
  /\ UNCHANGED <<tx, rx_tail, RDH, RDT, filled, received, pc, locals, raced>>

DmaEnds(f) ==
  /\ dma
  /\ dma' = FALSE
  /\ rx_bufs' = [rx_bufs EXCEPT ![RDH] = f]
  /\ filled' = [filled EXCEPT ![RDH] = TRUE]
  /\ RDH' = (RDH + 1) % RX_DESC_COUNT
  /\ UNCHANGED <<tx, rx_tail, RDT, received, pc, locals, raced>>

-----------------------------------------------------------------------------
SendStep(t) ==
  \/ GiveUp(t)
  \/ CopyBegins(t)
  \/ CopyEnds(t)
  \/ SetAddr(t)
  \/ SetStatus(t)
  \/ SetTail(t)
  \/ WriteTDT(t)

RecvStep ==
  \/ RecvBegins
  \/ RecvEnds
  \/ HandBack

Next ==
  \/ \E t \in Threads :
       \/ \E f \in Frames : Begin(t, f)
       \/ SendStep(t)
  \/ RecvStep
  \/ Handled
  \/ Transmit
  \/ DmaBegins
  \/ \E f \in Frames : DmaEnds(f)

Spec == Init /\ [][Next]_vars
-----------------------------------------------------------------------------
(* Properties.                                                             *)

\* The type of every variable.
TypeOK ==
  /\ tx_tail \in TxSlots /\ TDH \in TxSlots /\ TDT \in TxSlots
  /\ done \in [TxSlots -> BOOLEAN]
  /\ addr \in [TxSlots -> TxSlots \cup {NULL}]
  /\ tx_buf \in [TxSlots -> Frames \cup Threads \cup {Torn, NULL}]
  /\ rx_tail \in RxSlots /\ RDH \in RxSlots /\ RDT \in RxSlots
  /\ filled \in [RxSlots -> BOOLEAN]
  /\ rx_bufs \in [RxSlots -> Frames \cup {Torn, NULL}]
  /\ dma \in BOOLEAN /\ raced \in 0..MaxRaced
  /\ pc \in [Threads -> {"idle", "spin", "copying", "addr", "status", "tail",
                         "tdt", "recv", "reading", "back", "handle"}]
  /\ frame \in [Threads -> Frames \cup {NULL}]
  /\ d \in [Threads -> TxSlots] /\ slot \in [Threads -> TxSlots]
  /\ received \in Frames \cup {NULL}
  /\ queued \in Seq(Frames)

\* What the device will send are the frames e1000_send was given, each once, whole
\* and in order, unless two threads were in e1000_send at once.
TxExact ==
  raced = 0 =>
    /\ (TDT - TDH) % TX_DESC_COUNT = Len(queued) % TX_DESC_COUNT
    /\ \A k \in 1..Len(queued) :
         tx_buf[addr[(TDH + k - 1) % TX_DESC_COUNT]] = queued[k]

\* "wait for the descriptor to be free" (e1000.c:233) is in vain only when as many
\* frames are queued as there are descriptors: TDT is TDH again, so the device sees
\* an empty ring, and none will ever be free.
RefusedOnlyWhenFull ==
  [][(\E t \in Threads : GiveUp(t)) /\ raced = 0 => Len(queued) = TX_DESC_COUNT]_vars

\* The frames e1000_recv has not returned, oldest first.
Waiting ==
  LET first == IF At("rx", "back") THEN rx_tail + 1 ELSE rx_tail
      n == (RDH - first) % RX_DESC_COUNT
  IN  [k \in 1..n |-> rx_bufs[(first + k - 1) % RX_DESC_COUNT]]

\* No frame is overlooked: when net-rx asks, it finds one if there is one.
NoneOverlooked == At("rx", "recv") => (filled[rx_tail] <=> Waiting # <<>>)

\* A frame is lost only when all descriptors but one hold frames that net-rx has not
\* handed back.
LostOnlyWhenFull ==
  RDH = RDT => (RDH - rx_tail) % RX_DESC_COUNT = RX_DESC_COUNT - 1

\* The variables have their types, and the driver, the registers and the DD bits
\* agree which receive buffer is whose.
Inv == TypeOK /\ NoneOverlooked /\ LostOnlyWhenFull

Promise == INSTANCE EventQueue WITH
             Capacity <- RX_DESC_COUNT - 1,
             NoEvent <- NULL,
             pending <- Waiting,
             got <- received,
             doomed <- 0

\* The receive ring is a FIFO queue: every frame that found a descriptor is
\* returned once, whole and in order.
Implements == Promise!Spec
=============================================================================
