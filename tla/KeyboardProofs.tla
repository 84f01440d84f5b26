---------------------------- MODULE KeyboardProofs ----------------------------
(***************************************************************************)
(* Theorems about the keyboard driver, for every keyboard and every size   *)
(* of the ring.  The inductive invariant IInv has two parts that do not    *)
(* meet: WireInv, the bytes of a key press that are still to come and what *)
(* the flags say until they have; and QueueInv, which entries of the ring  *)
(* the thread and the interrupt handler may touch.                         *)
(***************************************************************************)
EXTENDS Keyboard, SequenceTheorems, FiniteSetTheorems, TLAPS

Types ==
  /\ down \subseteq Keys /\ wire \in Seq(Bytes)
  /\ seen_release \in BOOLEAN /\ seen_extended \in BOOLEAN
  /\ shift_down \in BOOLEAN /\ ctrl_down \in BOOLEAN /\ alt_down \in BOOLEAN
  /\ caps_on \in BOOLEAN
  /\ event_queue \in [Indices -> Events \cup {None}]
  /\ eq_read \in Indices /\ eq_write \in Indices
  /\ pc \in {"idle", "copied", "flush"}
  /\ pc = "idle" => reg = None
  /\ polled \in Events \cup {None}

\* What Held says when the keys held down are those in keys.
HeldIn(keys, flag, modifier) ==
  /\ flag => keys \cap modifier # {}
  /\ Cardinality(modifier) = 1 => (flag <=> keys \cap modifier # {})

Flags(keys) ==
  /\ HeldIn(keys, shift_down, Shifts)
  /\ HeldIn(keys, ctrl_down, Ctrls)
  /\ HeldIn(keys, alt_down, Alts)

\* What is left of the bytes of a press of k, and of its release.
Making(k) ==
  /\ ~seen_release
  /\ \/ wire = <<Code(k)>> /\ (seen_extended <=> k \in Extended)
     \/ wire = <<"SC_EXTENDED", Code(k)>> /\ ~seen_extended /\ k \in Extended

Breaking(k) ==
  \/ wire = <<Code(k)>> /\ seen_release /\ (seen_extended <=> k \in Extended)
  \/ wire = <<"SC_RELEASE", Code(k)>> /\ ~seen_release /\ (seen_extended <=> k \in Extended)
  \/ /\ wire = <<"SC_EXTENDED", "SC_RELEASE", Code(k)>>
     /\ ~seen_release /\ ~seen_extended /\ k \in Extended

\* Until its last byte is handled, the flags are those of before the press or the
\* release; a press may be the repeat of a key that is held.
WireInv ==
  \/ wire = <<>> /\ ~seen_release /\ ~seen_extended /\ Flags(down)
  \/ \E k \in Keys :
       \/ k \in down /\ Making(k) /\ (Flags(down) \/ Flags(down \ {k}))
       \/ k \notin down /\ Breaking(k) /\ Flags(down \cup {k})

\* i is in the part of the ring that begins at a and ends before b.
Between(a, b, i) == IF a <= b THEN a <= i /\ i < b ELSE a <= i \/ i < b

\* The entries from eq_read to eq_write hold events; the one that is being copied
\* does not change, and the place a flush goes to stays among them.
QueueInv ==
  /\ \A i \in Indices : Between(eq_read, eq_write, i) => event_queue[i] \in Events
  /\ pc = "copied" => eq_read # eq_write /\ reg = event_queue[eq_read]
  /\ pc = "flush" => reg \in Indices /\ (reg = eq_write \/ Between(eq_read, eq_write, reg))

IInv == Types /\ WireInv /\ QueueInv

-----------------------------------------------------------------------------
(* Indices modulo the length of the ring.                                  *)

LEMMA ModAdd ==
  ASSUME NEW n \in Nat \ {0}, NEW a \in 0..(n - 1), NEW k \in 0..n
  PROVE  (a + k) % n = IF a + k < n THEN a + k ELSE a + k - n
OBVIOUS

LEMMA ModDistance ==
  ASSUME NEW n \in Nat \ {0}, NEW a \in 0..(n - 1), NEW b \in 0..(n - 1)
  PROVE  (b + n - a) % n = IF a <= b THEN b - a ELSE b - a + n
OBVIOUS

LEMMA NextIndex ==
  ASSUME NEW i \in Indices
  PROVE  After(i) \in Indices /\ After(i) = IF i = EVENT_QUEUE_SIZE - 1 THEN 0 ELSE i + 1
<1>1. /\ EVENT_QUEUE_SIZE \in Nat \ {0} /\ i \in 0..(EVENT_QUEUE_SIZE - 1)
      /\ 1 \in 0..EVENT_QUEUE_SIZE
  BY KeyboardAssumption DEF Indices
<1>2. (i + 1) % EVENT_QUEUE_SIZE = IF i + 1 < EVENT_QUEUE_SIZE THEN i + 1
                                   ELSE i + 1 - EVENT_QUEUE_SIZE
  BY <1>1, ModAdd
<1>3. QED
  BY <1>1, <1>2 DEF Indices, After

LEMMA DistanceIs ==
  ASSUME NEW i \in Indices, NEW j \in Indices
  PROVE  Distance(i, j) = IF i <= j THEN j - i ELSE j - i + EVENT_QUEUE_SIZE
<1>1. /\ EVENT_QUEUE_SIZE \in Nat \ {0} /\ i \in 0..(EVENT_QUEUE_SIZE - 1)
      /\ j \in 0..(EVENT_QUEUE_SIZE - 1)
  BY KeyboardAssumption DEF Indices
<1>2. QED
  BY <1>1, ModDistance DEF Distance

-----------------------------------------------------------------------------
(* The events that wait.                                                   *)

Backlog == IF eq_read <= eq_write THEN eq_write - eq_read
           ELSE eq_write - eq_read + EVENT_QUEUE_SIZE

Entry(k) == IF eq_read + k - 1 < EVENT_QUEUE_SIZE THEN eq_read + k - 1
            ELSE eq_read + k - 1 - EVENT_QUEUE_SIZE

PendingIs ==
  /\ Backlog \in 0..(EVENT_QUEUE_SIZE - 1) /\ Backlog = Distance(eq_read, eq_write)
  /\ \A k \in 1..Backlog : Entry(k) \in Indices /\ Between(eq_read, eq_write, Entry(k))
  /\ Pending = [k \in 1..Backlog |-> event_queue[Entry(k)]]
  /\ Pending \in Seq(Events) /\ Len(Pending) = Backlog

LEMMA PendingShape == IInv => PendingIs
<1> SUFFICES ASSUME IInv
             PROVE  PendingIs
  OBVIOUS
<1>1. eq_read \in Indices /\ eq_write \in Indices
  BY DEF IInv, Types
<1>2. /\ eq_read \in 0..(EVENT_QUEUE_SIZE - 1) /\ eq_write \in 0..(EVENT_QUEUE_SIZE - 1)
      /\ EVENT_QUEUE_SIZE \in Nat /\ EVENT_QUEUE_SIZE > 0
  BY <1>1, KeyboardAssumption DEF Indices
<1>3. Backlog = Distance(eq_read, eq_write)
  BY <1>1, DistanceIs DEF Backlog
<1>4. Backlog \in 0..(EVENT_QUEUE_SIZE - 1)
  BY <1>2 DEF Backlog
<1>5. \A k \in 1..Backlog : /\ Entry(k) \in 0..(EVENT_QUEUE_SIZE - 1)
                            /\ Between(eq_read, eq_write, Entry(k))
  BY <1>2 DEF Backlog, Entry, Between
<1>6. ASSUME NEW k \in 1..Backlog
      PROVE  (eq_read + k - 1) % EVENT_QUEUE_SIZE = Entry(k)
  <2>1. /\ EVENT_QUEUE_SIZE \in Nat \ {0} /\ k - 1 \in 0..EVENT_QUEUE_SIZE
        /\ eq_read + k - 1 = eq_read + (k - 1)
    BY <1>2, <1>4
  <2>2. (eq_read + (k - 1)) % EVENT_QUEUE_SIZE
          = IF eq_read + (k - 1) < EVENT_QUEUE_SIZE THEN eq_read + (k - 1)
            ELSE eq_read + (k - 1) - EVENT_QUEUE_SIZE
    BY <1>2, <2>1, ModAdd
  <2>3. QED
    BY <2>1, <2>2 DEF Entry
<1>7. Pending = [k \in 1..Backlog |-> event_queue[Entry(k)]]
  BY <1>3, <1>6 DEF Pending
<1>8. \A k \in 1..Backlog : event_queue[Entry(k)] \in Events
  BY <1>5 DEF IInv, QueueInv, Indices
<1>9. Pending \in Seq(Events) /\ Len(Pending) = Backlog
  <2>1. Backlog \in Nat
    BY <1>2, <1>4
  <2>2. QED
    BY <1>7, <1>8, <2>1, IsASeq, LenProperties
<1>10. QED
  BY <1>3, <1>4, <1>5, <1>7, <1>9 DEF Indices, PendingIs

-----------------------------------------------------------------------------
(* The bytes of a key.                                                     *)

\* The codes of different kinds of keys differ, and none is a prefix.
LEMMA Codes ==
  ASSUME NEW k \in Keys
  PROVE  /\ Code(k) = IF k \in Ctrls THEN "SC_LCTRL"
                      ELSE IF k \in Alts THEN "SC_LALT"
                      ELSE IF k \in Arrows \cup Pads THEN "SC_ARROW" ELSE k
         /\ Code(k) \notin Prefixes /\ Code(k) \in Bytes
         /\ Code(k) \in Shifts <=> k \in Shifts
         /\ Code(k) = "SC_LCTRL" <=> k \in Ctrls
         /\ Code(k) = "SC_LALT" <=> k \in Alts
         /\ Code(k) = CapsLock <=> k = CapsLock
         /\ Code(k) \in Chars <=> k \in Chars
         /\ k \in Extended => k \in Arrows \cup Ctrls \cup Alts
<1>1. Code(k) = IF k \in Ctrls THEN "SC_LCTRL"
                ELSE IF k \in Alts THEN "SC_LALT"
                ELSE IF k \in Arrows \cup Pads THEN "SC_ARROW" ELSE k
  BY CodeAssumption DEF Code
<1>2. k \notin {"SC_EXTENDED", "SC_RELEASE", "SC_LCTRL", "SC_LALT", "SC_ARROW"}
  BY CodeAssumption
<1>3. /\ "SC_LCTRL" \notin Keys /\ "SC_LALT" \notin Keys /\ "SC_ARROW" \notin Keys
      /\ "SC_EXTENDED" \notin Keys /\ "SC_RELEASE" \notin Keys
  BY CodeAssumption
<1>4. Code(k) \in Bytes
  BY DEF Bytes
<1>5. Code(k) \notin Prefixes
  BY <1>1, <1>2 DEF Prefixes
<1>6. CapsLock \in Keys /\ Shifts \subseteq Keys /\ Chars \subseteq Keys
  BY DEF Keys
<1>7. QED
  BY <1>1, <1>2, <1>3, <1>4, <1>5, <1>6, CodeAssumption, KeyboardAssumption

LEMMA Unfold ==
  ASSUME NEW a \in Bytes, NEW b \in Bytes, NEW c \in Bytes
  PROVE  /\ <<a>> # <<>> /\ Head(<<a>>) = a /\ Tail(<<a>>) = <<>> /\ <<a>> \in Seq(Bytes)
         /\ <<a, b>> # <<>> /\ Head(<<a, b>>) = a /\ Tail(<<a, b>>) = <<b>>
         /\ <<a, b>> \in Seq(Bytes)
         /\ <<a, b, c>> # <<>> /\ Head(<<a, b, c>>) = a /\ Tail(<<a, b, c>>) = <<b, c>>
         /\ <<a, b, c>> \in Seq(Bytes)
OBVIOUS

LEMMA Join ==
  ASSUME NEW a \in Bytes, NEW b \in Bytes, NEW c \in Bytes
  PROVE  <<a>> \o <<b>> = <<a, b>> /\ <<a>> \o <<b, c>> = <<a, b, c>>
<1>1. /\ <<a>> \in Seq(Bytes) /\ Len(<<a>>) = 1 /\ <<a>>[1] = a
      /\ <<b>> \in Seq(Bytes) /\ Len(<<b>>) = 1 /\ <<b>>[1] = b
      /\ <<a, b>> \in Seq(Bytes) /\ Len(<<a, b>>) = 2 /\ <<a, b>>[1] = a /\ <<a, b>>[2] = b
      /\ <<b, c>> \in Seq(Bytes) /\ Len(<<b, c>>) = 2 /\ <<b, c>>[1] = b /\ <<b, c>>[2] = c
      /\ <<a, b, c>> \in Seq(Bytes) /\ Len(<<a, b, c>>) = 3
      /\ <<a, b, c>>[1] = a /\ <<a, b, c>>[2] = b /\ <<a, b, c>>[3] = c
  OBVIOUS
<1>2. <<a>> \o <<b>> = <<a, b>>
  <2>1. /\ <<a>> \o <<b>> \in Seq(Bytes) /\ Len(<<a>> \o <<b>>) = 2
        /\ \A i \in 1..2 : (<<a>> \o <<b>>)[i] = <<a, b>>[i]
    BY <1>1, ConcatProperties
  <2>2. QED
    BY <1>1, <2>1, SeqEqual
<1>3. <<a>> \o <<b, c>> = <<a, b, c>>
  <2>1. /\ <<a>> \o <<b, c>> \in Seq(Bytes) /\ Len(<<a>> \o <<b, c>>) = 3
        /\ \A i \in 1..3 : (<<a>> \o <<b, c>>)[i] = <<a, b, c>>[i]
    BY <1>1, ConcatProperties
  <2>2. QED
    BY <1>1, <2>1, SeqEqual
<1>4. QED
  BY <1>2, <1>3

LEMMA Sequences ==
  ASSUME NEW k \in Keys
  PROVE  /\ Make(k) = IF k \in Extended THEN <<"SC_EXTENDED", Code(k)>> ELSE <<Code(k)>>
         /\ Break(k) = IF k \in Extended THEN <<"SC_EXTENDED", "SC_RELEASE", Code(k)>>
                       ELSE <<"SC_RELEASE", Code(k)>>
<1>1. "SC_EXTENDED" \in Bytes /\ "SC_RELEASE" \in Bytes /\ Code(k) \in Bytes
  BY Codes DEF Bytes, Prefixes
<1> DEFINE c == Code(k)
<1>2. /\ <<"SC_EXTENDED">> \o <<c>> = <<"SC_EXTENDED", c>>
      /\ <<"SC_EXTENDED">> \o <<"SC_RELEASE", c>> = <<"SC_EXTENDED", "SC_RELEASE", c>>
  BY <1>1, Join
<1>3. <<>> \o <<c>> = <<c>> /\ <<>> \o <<"SC_RELEASE", c>> = <<"SC_RELEASE", c>>
  <2>1. <<c>> \in Seq(Bytes) /\ <<"SC_RELEASE", c>> \in Seq(Bytes)
    BY <1>1
  <2>2. QED
    BY <2>1, ConcatEmptySeq
<1>4. Make(k) = IF k \in Extended THEN <<"SC_EXTENDED", c>> ELSE <<c>>
  BY <1>2, <1>3 DEF Make
<1>5. Break(k) = IF k \in Extended THEN <<"SC_EXTENDED", "SC_RELEASE", c>>
                 ELSE <<"SC_RELEASE", c>>
  BY <1>2, <1>3 DEF Break
<1>6. QED
  BY <1>4, <1>5

-----------------------------------------------------------------------------
(* The keyboard and the user.                                              *)

LEMMA InitInv == Init => IInv
<1> SUFFICES ASSUME Init
             PROVE  IInv
  OBVIOUS
<1>1. 0 \in Indices
  BY KeyboardAssumption DEF Indices
<1>2. Types
  <2>1. wire \in Seq(Bytes)
    BY EmptySeq DEF Init
  <2>2. QED
    BY <1>1, <2>1 DEF Init, Types
<1>3. WireInv
  BY FS_Singleton, CodeAssumption, FS_Subset DEF Init, WireInv, Flags, HeldIn, Keys
<1>4. QueueInv
  BY DEF Init, QueueInv, Between, Indices
<1>5. QED
  BY <1>2, <1>3, <1>4 DEF IInv

\* The keyboard's steps leave the ring alone.
LEMMA QueueFrame ==
  ASSUME QueueInv, UNCHANGED <<queue, thread>>
  PROVE  QueueInv'
BY DEF QueueInv, queue, thread

LEMMA PressInv ==
  ASSUME IInv, NEW k \in Keys, Press(k)
  PROVE  IInv'
<1> USE DEF IInv
<1>1. /\ wire = <<>> /\ wire' = Make(k) /\ down' = down \cup {k}
      /\ UNCHANGED <<decoder, queue, thread>>
  BY DEF Press, Send
<1>2. "SC_EXTENDED" \in Bytes /\ Code(k) \in Bytes
  BY Codes DEF Bytes, Prefixes
<1>3. ~seen_release /\ ~seen_extended /\ Flags(down)
  <2>1. \A j \in Keys : ~Making(j) /\ ~Breaking(j)
    BY <1>1 DEF Making, Breaking
  <2>2. QED
    BY <2>1 DEF WireInv
<1>4. wire' \in Seq(Bytes)
  <2>1. \A a, b, c \in Bytes : {<<a>>, <<a, b>>, <<a, b, c>>} \subseteq Seq(Bytes)
    BY Unfold
  <2>2. QED
    BY <1>1, <1>2, <2>1, Sequences
<1>5. Types'
  BY <1>1, <1>4 DEF Types, decoder, queue, thread
<1>6. WireInv'
  <2>1. Making(k)'
    BY <1>1, <1>3, Sequences DEF Making, decoder
  <2>2. down' = down \/ down' \ {k} = down
    BY <1>1
  <2>3. Flags(down)' \/ Flags(down \ {k})'
    BY <1>1, <1>3, <2>2 DEF Flags, HeldIn, decoder
  <2>4. k \in down'
    BY <1>1
  <2>5. QED
    BY <2>1, <2>3, <2>4 DEF WireInv
<1>7. QueueInv'
  BY <1>1, QueueFrame
<1>8. QED
  BY <1>5, <1>6, <1>7

LEMMA LetGoInv ==
  ASSUME IInv, NEW k \in Keys, LetGo(k)
  PROVE  IInv'
<1> USE DEF IInv
<1>1. /\ wire = <<>> /\ wire' = Break(k) /\ k \in down /\ down' = down \ {k}
      /\ UNCHANGED <<decoder, queue, thread>>
  BY DEF LetGo, Send
<1>2. "SC_EXTENDED" \in Bytes /\ "SC_RELEASE" \in Bytes /\ Code(k) \in Bytes
  BY Codes DEF Bytes, Prefixes
<1>3. ~seen_release /\ ~seen_extended /\ Flags(down)
  <2>1. \A j \in Keys : ~Making(j) /\ ~Breaking(j)
    BY <1>1 DEF Making, Breaking
  <2>2. QED
    BY <2>1 DEF WireInv
<1>4. wire' \in Seq(Bytes)
  <2>1. \A a, b, c \in Bytes : {<<a>>, <<a, b>>, <<a, b, c>>} \subseteq Seq(Bytes)
    BY Unfold
  <2>2. QED
    BY <1>1, <1>2, <2>1, Sequences
<1>5. Types'
  BY <1>1, <1>4 DEF Types, decoder, queue, thread
<1>6. WireInv'
  <2>1. Breaking(k)'
    BY <1>1, <1>3, Sequences DEF Breaking, decoder
  <2>2. down' \cup {k} = down
    BY <1>1
  <2>3. Flags(down \cup {k})'
    BY <1>1, <1>3, <2>2 DEF Flags, HeldIn, decoder
  <2>4. k \notin down'
    BY <1>1
  <2>5. QED
    BY <2>1, <2>3, <2>4 DEF WireInv
<1>7. QueueInv'
  BY <1>1, QueueFrame
<1>8. QED
  BY <1>5, <1>6, <1>7

-----------------------------------------------------------------------------
(* The interrupt handler.                                                  *)

\* A byte is a prefix or the code of a key.
LEMMA PrefixOnly ==
  ASSUME NEW sc \in Prefixes
  PROVE  ~Key(sc)
<1>1. sc \notin Keys /\ sc # "SC_LCTRL" /\ sc # "SC_LALT"
  BY CodeAssumption DEF Prefixes
<1>2. QED
  BY <1>1 DEF Key, Modifier, Modifiers, Caps, Character, Keys

\* What the last byte does to the flags: only a key of a modifier changes its flag.
LEMMA KeyEffect ==
  ASSUME Types, NEW k \in Keys, Key(Code(k)), seen_extended => k \in Extended
  PROVE  /\ shift_down' = IF k \in Shifts THEN ~seen_release ELSE shift_down
         /\ ctrl_down' = IF k \in Ctrls THEN ~seen_release ELSE ctrl_down
         /\ alt_down' = IF k \in Alts THEN ~seen_release ELSE alt_down
         /\ ~seen_release' /\ ~seen_extended' /\ caps_on' \in BOOLEAN
<1>1. seen_extended => k \notin Shifts /\ k # CapsLock
  BY Codes, CodeAssumption
<1>2. Code(k) \in Modifiers <=> k \in Shifts \cup Ctrls \cup Alts
  BY <1>1, Codes DEF Modifiers
<1>3. ~seen_release' /\ ~seen_extended'
  BY DEF Key
<1>4. CASE Modifier(Code(k))
  BY <1>3, <1>4, Codes DEF Modifier, Types
<1>5. CASE Caps(Code(k))
  <2>1. k = CapsLock
    BY <1>5, Codes DEF Caps
  <2>2. k \notin Shifts \cup Ctrls \cup Alts
    BY <2>1, CodeAssumption
  <2>3. QED
    BY <1>3, <1>5, <2>2 DEF Caps, Types
<1>6. CASE Character(Code(k))
  BY <1>2, <1>3, <1>6 DEF Character, Types
<1>7. QED
  BY <1>4, <1>5, <1>6 DEF Key

\* What a byte does to the ring.
LEMMA InterruptQueue ==
  ASSUME Types, Interrupt
  PROVE  UNCHANGED queue \/ \E ev \in Events : PushEvent(ev)
<1> DEFINE sc == Head(wire)
<1>1. ASSUME Character(sc), Decoded(sc)
      PROVE  \E ev \in Events : PushEvent(ev)
  <2>1. sc \in Chars \cup {"SC_ARROW"}
    BY <1>1 DEF Decoded
  <2>2. (sc \in Chars /\ shift_down # caps_on) \in BOOLEAN
    OBVIOUS
  <2>3. Event(sc, sc \in Chars /\ shift_down # caps_on) \in Events
    BY <2>1, <2>2 DEF Event, Events, Types
  <2>4. QED
    BY <1>1, <2>3 DEF Character
<1>2. QED
  BY <1>1 DEF Interrupt, Prefix, Key, Modifier, Caps, Character

LEMMA PushInv ==
  ASSUME Types, QueueInv, UNCHANGED thread, NEW ev \in Events, PushEvent(ev)
  PROVE  /\ QueueInv' /\ event_queue' \in [Indices -> Events \cup {None}]
         /\ eq_read' \in Indices /\ eq_write' \in Indices
<1>1. CASE After(eq_write) = eq_read
  BY <1>1 DEF PushEvent, QueueInv, Types, thread
<1>2. CASE After(eq_write) # eq_read
  <2>1. /\ event_queue' = [event_queue EXCEPT ![eq_write] = ev]
        /\ eq_write' = (IF eq_write = EVENT_QUEUE_SIZE - 1 THEN 0 ELSE eq_write + 1)
        /\ eq_write' \in Indices /\ eq_write' # eq_read
        /\ UNCHANGED <<eq_read, pc, reg>>
    BY <1>2, NextIndex DEF PushEvent, Types, thread
  <2>2. /\ EVENT_QUEUE_SIZE \in Nat /\ eq_read \in 0..(EVENT_QUEUE_SIZE - 1)
        /\ eq_write \in 0..(EVENT_QUEUE_SIZE - 1)
    BY KeyboardAssumption DEF Types, Indices
  <2>3. \A i \in 0..(EVENT_QUEUE_SIZE - 1) :
          Between(eq_read, eq_write', i) <=> Between(eq_read, eq_write, i) \/ i = eq_write
    BY <2>1, <2>2 DEF Between
  <2>4. ~Between(eq_read, eq_write, eq_write)
    BY <2>2 DEF Between
  <2>5. \A i \in Indices : Between(eq_read', eq_write', i) => event_queue'[i] \in Events
    BY <2>1, <2>3, <2>4 DEF QueueInv, Types, Indices
  <2>6. pc' = "copied" => eq_read' # eq_write' /\ reg' = event_queue'[eq_read']
    BY <2>1 DEF QueueInv, Types
  <2>7. pc' = "flush" => reg' \in Indices /\ Between(eq_read', eq_write', reg')
    BY <2>1, <2>3 DEF QueueInv, Indices
  <2>8. QED
    BY <2>1, <2>5, <2>6, <2>7 DEF QueueInv, Types
<1>3. QED
  BY <1>1, <1>2

\* One key changes only its own modifier's flag, to what the key's state is.
LEMMA FlagStep ==
  ASSUME NEW S \in SUBSET Keys, NEW old, NEW new, NEW k \in Keys,
         NEW flag \in BOOLEAN, NEW after,
         HeldIn(old, flag, S),
         old \ {k} = new \ {k},
         after = IF k \in S THEN k \in new ELSE flag
  PROVE  HeldIn(new, after, S)
<1>1. CASE k \notin S
  <2>1. old \cap S = new \cap S
    BY <1>1
  <2>2. QED
    BY <1>1, <2>1 DEF HeldIn
<1>2. CASE k \in S
  <2>1. after => new \cap S # {}
    BY <1>2
  <2>2. ASSUME Cardinality(S) = 1
        PROVE  S = {k}
    BY <1>2, <2>2, FS_Singleton, FS_Subset, CodeAssumption
  <2>3. QED
    BY <1>2, <2>1, <2>2 DEF HeldIn
<1>3. QED
  BY <1>1, <1>2

\* The last byte of a press or a release brings the flags up to date.
LEMMA LastByte ==
  ASSUME IInv, Interrupt, NEW k \in Keys, wire = <<Code(k)>>,
         NEW old \in {down, down \ {k}, down \cup {k}}, Flags(old),
         seen_release <=> k \notin down, seen_extended => k \in Extended
  PROVE  WireInv' /\ caps_on' \in BOOLEAN /\ wire' = <<>>
<1> USE DEF IInv
<1>1. Head(wire) = Code(k) /\ wire' = <<>> /\ UNCHANGED down
  BY Codes, Unfold DEF Interrupt
<1>2. Key(Code(k))
  BY <1>1, Codes DEF Interrupt, Prefix
<1>3. /\ shift_down' = IF k \in Shifts THEN k \in down ELSE shift_down
      /\ ctrl_down' = IF k \in Ctrls THEN k \in down ELSE ctrl_down
      /\ alt_down' = IF k \in Alts THEN k \in down ELSE alt_down
      /\ ~seen_release' /\ ~seen_extended' /\ caps_on' \in BOOLEAN
  BY <1>2, KeyEffect
<1>4. old \ {k} = down \ {k}
  OBVIOUS
<1>5. HeldIn(down, shift_down', Shifts)
  <2>1. shift_down \in BOOLEAN /\ Shifts \in SUBSET Keys
    BY DEF Types, Keys
  <2>2. HeldIn(old, shift_down, Shifts)
    BY DEF Flags
  <2>3. QED
    BY <1>3, <1>4, <2>1, <2>2, FlagStep
<1>6. HeldIn(down, ctrl_down', Ctrls)
  <2>1. ctrl_down \in BOOLEAN /\ Ctrls \in SUBSET Keys
    BY DEF Types, Keys
  <2>2. HeldIn(old, ctrl_down, Ctrls)
    BY DEF Flags
  <2>3. QED
    BY <1>3, <1>4, <2>1, <2>2, FlagStep
<1>7. HeldIn(down, alt_down', Alts)
  <2>1. alt_down \in BOOLEAN /\ Alts \in SUBSET Keys
    BY DEF Types, Keys
  <2>2. HeldIn(old, alt_down, Alts)
    BY DEF Flags
  <2>3. QED
    BY <1>3, <1>4, <2>1, <2>2, FlagStep
<1>8. Flags(down)'
  BY <1>1, <1>5, <1>6, <1>7 DEF Flags, HeldIn
<1>9. QED
  BY <1>1, <1>3, <1>8 DEF WireInv

LEMMA FlagTypes ==
  ASSUME Types, NEW sc, Prefix(sc) \/ Key(sc)
  PROVE  /\ seen_release' \in BOOLEAN /\ seen_extended' \in BOOLEAN
         /\ shift_down' \in BOOLEAN /\ ctrl_down' \in BOOLEAN /\ alt_down' \in BOOLEAN
         /\ caps_on' \in BOOLEAN
<1>1. CASE Prefix(sc)
  BY <1>1 DEF Prefix, Types
<1>2. CASE Key(sc)
  <2>1. seen_release' \in BOOLEAN /\ seen_extended' \in BOOLEAN
    BY <1>2 DEF Key
  <2>2. (~seen_release) \in BOOLEAN /\ (~caps_on) \in BOOLEAN
    OBVIOUS
  <2>3. CASE Modifier(sc)
    BY <2>1, <2>2, <2>3 DEF Modifier, Types
  <2>4. CASE Caps(sc)
    BY <2>1, <2>2, <2>4 DEF Caps, Types
  <2>5. CASE Character(sc)
    BY <2>1, <2>5 DEF Character, Types
  <2>6. QED
    BY <1>2, <2>3, <2>4, <2>5 DEF Key
<1>3. QED
  BY <1>1, <1>2

\* The handler takes one byte of the sequence.
LEMMA InterruptWire ==
  ASSUME IInv, Interrupt
  PROVE  WireInv'
<1> USE DEF IInv
<1>1. PICK k \in Keys :
        \/ k \in down /\ Making(k) /\ (Flags(down) \/ Flags(down \ {k}))
        \/ k \notin down /\ Breaking(k) /\ Flags(down \cup {k})
  BY DEF WireInv, Interrupt
<1> DEFINE sc == Head(wire)
<1>2. /\ wire' = Tail(wire) /\ UNCHANGED down /\ (Prefix(sc) \/ Key(sc))
      /\ "SC_EXTENDED" \in Bytes /\ "SC_RELEASE" \in Bytes /\ Code(k) \in Bytes
  BY Codes DEF Interrupt, Bytes, Prefixes
<1>3. ASSUME sc \in Prefixes
      PROVE  /\ seen_extended' <=> seen_extended \/ sc = "SC_EXTENDED"
             /\ seen_release' <=> seen_release \/ sc = "SC_RELEASE"
             /\ \A keys : Flags(keys)' <=> Flags(keys)
  <2>1. Prefix(sc)
    BY <1>2, <1>3, PrefixOnly
  <2>2. QED
    BY <2>1 DEF Prefix, Flags, HeldIn
<1>4. CASE wire = <<Code(k)>>
  <2>1. /\ seen_release <=> k \notin down
        /\ seen_extended => k \in Extended
    BY <1>1, <1>4 DEF Making, Breaking
  <2>2. \E old \in {down, down \ {k}, down \cup {k}} : Flags(old)
    BY <1>1
  <2>3. QED
    BY <1>4, <2>1, <2>2, LastByte
<1>5. CASE /\ wire = <<"SC_EXTENDED", Code(k)>> /\ ~seen_extended /\ ~seen_release
           /\ k \in down /\ k \in Extended
  <2>1. sc = "SC_EXTENDED" /\ wire' = <<Code(k)>>
    BY <1>2, <1>5, Unfold
  <2>2. Making(k)'
    BY <1>3, <1>5, <2>1 DEF Making, Prefixes
  <2>3. Flags(down) \/ Flags(down \ {k})
    BY <1>1, <1>5
  <2>4. (Flags(down) \/ Flags(down \ {k}))'
    BY <1>2, <1>3, <2>1, <2>3 DEF Prefixes, Flags, HeldIn
  <2>5. QED
    BY <1>2, <1>5, <2>2, <2>4 DEF WireInv
<1>6. CASE k \notin down /\ Breaking(k) /\ wire # <<Code(k)>>
  <2>1. Flags(down \cup {k})
    BY <1>1, <1>6
  <2>2. CASE /\ wire = <<"SC_RELEASE", Code(k)>> /\ ~seen_release
             /\ (seen_extended <=> k \in Extended)
    <3>1. sc = "SC_RELEASE" /\ wire' = <<Code(k)>>
      BY <1>2, <2>2, Unfold
    <3>2. Breaking(k)'
      BY <1>3, <2>2, <3>1 DEF Breaking, Prefixes
    <3>3. Flags(down \cup {k})'
      BY <1>2, <1>3, <2>1, <3>1 DEF Prefixes, Flags, HeldIn
    <3>4. QED
      BY <1>2, <1>6, <3>2, <3>3 DEF WireInv
  <2>3. CASE /\ wire = <<"SC_EXTENDED", "SC_RELEASE", Code(k)>>
             /\ ~seen_release /\ ~seen_extended /\ k \in Extended
    <3>1. sc = "SC_EXTENDED" /\ wire' = <<"SC_RELEASE", Code(k)>>
      BY <1>2, <2>3, Unfold
    <3>2. Breaking(k)'
      BY <1>3, <2>3, <3>1 DEF Breaking, Prefixes
    <3>3. Flags(down \cup {k})'
      BY <1>2, <1>3, <2>1, <3>1 DEF Prefixes, Flags, HeldIn
    <3>4. QED
      BY <1>2, <1>6, <3>2, <3>3 DEF WireInv
  <2>4. QED
    BY <1>6, <2>2, <2>3 DEF Breaking
<1>7. QED
  BY <1>1, <1>4, <1>5, <1>6 DEF Making

LEMMA InterruptInv ==
  ASSUME IInv, Interrupt
  PROVE  IInv'
<1> USE DEF IInv
<1>1. WireInv'
  BY InterruptWire
<1>2. /\ wire # <<>> /\ wire' = Tail(wire) /\ UNCHANGED <<down, thread>>
      /\ Prefix(Head(wire)) \/ Key(Head(wire))
  BY DEF Interrupt
<1>3. wire' \in Seq(Bytes)
  BY <1>2, HeadTailProperties DEF Types
<1>4. /\ QueueInv' /\ event_queue' \in [Indices -> Events \cup {None}]
      /\ eq_read' \in Indices /\ eq_write' \in Indices
  <2>1. CASE UNCHANGED queue
    BY <1>2, <2>1, QueueFrame DEF Types, queue
  <2>2. QED
    BY <1>2, <2>1, InterruptQueue, PushInv
<1>5. Types'
  BY <1>2, <1>3, <1>4, FlagTypes DEF Types, thread
<1>6. QED
  BY <1>1, <1>4, <1>5

-----------------------------------------------------------------------------
(* The thread.                                                             *)

\* The thread's steps leave the bytes and the flags alone.
LEMMA WireFrame ==
  ASSUME WireInv, UNCHANGED <<keyboard, decoder>>
  PROVE  WireInv'
<1>1. \A k \in Keys : (Making(k)' <=> Making(k)) /\ (Breaking(k)' <=> Breaking(k))
  BY DEF Making, Breaking, keyboard, decoder
<1>2. QED
  BY <1>1 DEF WireInv, Flags, HeldIn, keyboard, decoder

\* The oldest event is at eq_read.
LEMMA PollCopyInv ==
  ASSUME IInv, PollCopy
  PROVE  IInv'
<1> USE DEF IInv
<1>1. Types'
  BY DEF PollCopy, Types, keyboard, decoder, queue
<1>2. WireInv'
  BY WireFrame DEF PollCopy
<1>3. QueueInv'
  BY DEF PollCopy, QueueInv, queue, Types
<1>4. QED
  BY <1>1, <1>2, <1>3

LEMMA PollAdvanceInv ==
  ASSUME IInv, PollAdvance
  PROVE  IInv'
<1> USE DEF IInv
<1>1. /\ eq_read' = (IF eq_read = EVENT_QUEUE_SIZE - 1 THEN 0 ELSE eq_read + 1)
      /\ eq_read' \in Indices /\ eq_read # eq_write /\ polled' = reg
      /\ reg = event_queue[eq_read] /\ pc' = "idle" /\ reg' = None
      /\ UNCHANGED <<keyboard, decoder, event_queue, eq_write>>
  BY NextIndex DEF PollAdvance, Types, QueueInv
<1>2. /\ EVENT_QUEUE_SIZE \in Nat /\ eq_read \in 0..(EVENT_QUEUE_SIZE - 1)
      /\ eq_write \in 0..(EVENT_QUEUE_SIZE - 1)
  BY KeyboardAssumption DEF Types, Indices
<1>3. Types'
  BY <1>1 DEF Types, keyboard, decoder
<1>4. \A i \in 0..(EVENT_QUEUE_SIZE - 1) :
        Between(eq_read', eq_write, i) => Between(eq_read, eq_write, i)
  BY <1>1, <1>2 DEF Between
<1>5. QueueInv'
  BY <1>1, <1>4 DEF QueueInv, Indices
<1>6. QED
  BY <1>1, <1>3, <1>5, WireFrame

LEMMA FlushLoadInv ==
  ASSUME IInv, FlushLoad
  PROVE  IInv'
<1> USE DEF IInv
<1>1. Types'
  BY DEF FlushLoad, Types, keyboard, decoder, queue
<1>2. WireInv'
  BY WireFrame DEF FlushLoad
<1>3. QueueInv'
  BY DEF FlushLoad, QueueInv, queue, Types
<1>4. QED
  BY <1>1, <1>2, <1>3

\* What waits after a flush waited before it.
LEMMA FlushStoreInv ==
  ASSUME IInv, FlushStore
  PROVE  IInv'
<1> USE DEF IInv
<1>1. /\ eq_read' = reg /\ reg \in Indices /\ pc' = "idle" /\ reg' = None
      /\ reg = eq_write \/ Between(eq_read, eq_write, reg)
      /\ UNCHANGED <<keyboard, decoder, event_queue, eq_write, polled>>
  BY DEF FlushStore, Types, QueueInv
<1>2. /\ EVENT_QUEUE_SIZE \in Nat /\ eq_read \in 0..(EVENT_QUEUE_SIZE - 1)
      /\ eq_write \in 0..(EVENT_QUEUE_SIZE - 1) /\ eq_read' \in 0..(EVENT_QUEUE_SIZE - 1)
  BY <1>1, KeyboardAssumption DEF Types, Indices
<1>3. Types'
  BY <1>1 DEF Types, keyboard, decoder
<1>4. \A i \in 0..(EVENT_QUEUE_SIZE - 1) :
        Between(eq_read', eq_write, i) => Between(eq_read, eq_write, i)
  BY <1>1, <1>2 DEF Between
<1>5. QueueInv'
  BY <1>1, <1>4 DEF QueueInv, Indices
<1>6. QED
  BY <1>1, <1>3, <1>5, WireFrame

LEMMA NextInv == IInv /\ [Next]_vars => IInv'
<1>1. ASSUME IInv, UNCHANGED vars
      PROVE  IInv'
  BY <1>1, WireFrame, QueueFrame DEF IInv, Types, vars, keyboard, decoder, queue, thread
<1>2. QED
  BY <1>1, PressInv, LetGoInv, InterruptInv, PollCopyInv, PollAdvanceInv, FlushLoadInv,
     FlushStoreInv DEF Next

\* The invariant holds in every state.
THEOREM Invariance == Spec => []IInv
BY InitInv, NextInv, PTL DEF Spec

\* The modifiers the shell sees are the keys held down, and what is between eq_read
\* and eq_write are events.
THEOREM NoStuckModifier == Spec => []Inv
<1>1. IInv => Inv
  <2> SUFFICES ASSUME IInv
               PROVE  Inv
    OBVIOUS
  <2>1. TypeOK
    <3>1. \A i \in DOMAIN Pending : Pending[i] # None
      BY PendingShape, EventAssumption, ElementOfSeq, LenProperties DEF PendingIs
    <3>2. reg = None \/ reg \in (IF pc = "flush" THEN Indices ELSE Events)
      <4>1. Between(eq_read, eq_write, eq_read) <=> eq_read # eq_write
        BY KeyboardAssumption DEF IInv, Types, Between, Indices
      <4>2. QED
        BY <4>1 DEF IInv, Types, QueueInv
    <3>3. \A i \in Indices : event_queue[i] = None \/ event_queue[i] \in Events
      BY DEF IInv, Types
    <3>4. QED
      BY <3>1, <3>2, <3>3 DEF IInv, Types, TypeOK
  <2>2. ModifiersHeld
    BY DEF IInv, WireInv, Making, Breaking, ModifiersHeld, Flags, HeldIn, Held
  <2>3. QED
    BY <2>1, <2>2 DEF Inv
<1>2. QED
  BY <1>1, Invariance, PTL

\* push_event (keyboard.c) drops the event of a key only when the ring is full.
THEOREM DroppedWhenFull == Spec => DropOnlyWhenFull
<1>1. ASSUME IInv, Interrupt, Decoded(Head(wire)), eq_write' = eq_write
      PROVE  Len(Pending) = EVENT_QUEUE_SIZE - 1
  <2> DEFINE sc == Head(wire)
  <2>1. sc \in Chars \cup {"SC_ARROW"} /\ (sc \in Chars \/ seen_extended)
    BY <1>1 DEF Decoded
  <2>2. /\ Chars \cap (Prefixes \cup Shifts \cup {"SC_LCTRL", "SC_LALT", CapsLock}) = {}
        /\ "SC_ARROW" \notin Prefixes \cup Shifts \cup {"SC_LCTRL", "SC_LALT"}
    BY CodeAssumption DEF Keys, Prefixes
  <2>3. ~Prefix(sc) /\ ~Modifier(sc) /\ ~Caps(sc)
    BY <2>1, <2>2 DEF Prefix, Modifier, Modifiers, Caps
  <2>4. Character(sc)
    BY <1>1, <2>3 DEF Interrupt, Key
  <2>5. \E ev : PushEvent(ev)
    BY <1>1, <2>4 DEF Character
  <2>6. /\ EVENT_QUEUE_SIZE \in Nat \ {0} /\ eq_read \in 0..(EVENT_QUEUE_SIZE - 1)
        /\ eq_write \in 0..(EVENT_QUEUE_SIZE - 1)
        /\ After(eq_write) = IF eq_write = EVENT_QUEUE_SIZE - 1 THEN 0 ELSE eq_write + 1
    BY <1>1, NextIndex, KeyboardAssumption DEF IInv, Types, Indices
  <2>7. After(eq_write) = eq_read
    BY <1>1, <2>5, <2>6 DEF PushEvent
  <2>8. Backlog = EVENT_QUEUE_SIZE - 1
    BY <2>6, <2>7 DEF Backlog
  <2>9. QED
    BY <1>1, <2>8, PendingShape DEF PendingIs
<1>2. IInv /\ [Next]_vars
        => [Interrupt /\ Decoded(Head(wire)) /\ eq_write' = eq_write
              => Len(Pending) = EVENT_QUEUE_SIZE - 1]_vars
  BY <1>1
<1>3. QED
  BY <1>2, Invariance, PTL DEF Spec, DropOnlyWhenFull

-----------------------------------------------------------------------------
(* The ring implements the queue.                                          *)

LEMMA InitPromise == Init => Promise!Init
<1> SUFFICES ASSUME Init
             PROVE  Promise!Init
  OBVIOUS
<1>1. PendingIs
  BY InitInv, PendingShape
<1>2. Backlog = 0
  BY DEF Init, Backlog
<1>3. Pending = <<>>
  BY <1>1, <1>2, EmptySeq DEF PendingIs
<1>4. QED
  BY <1>3 DEF Promise!Init, Init

\* What leaves the ring and the thread alone.
LEMMA SameQueue ==
  ASSUME UNCHANGED <<queue, thread>>
  PROVE  UNCHANGED Promise!vars
<1>1. Pending' = Pending
  BY DEF Pending, Distance, queue
<1>2. (IF pc = "flush" THEN Distance(eq_read, reg) ELSE 0)'
        = IF pc = "flush" THEN Distance(eq_read, reg) ELSE 0
  BY DEF Distance, queue, thread
<1>3. polled' = polled
  BY DEF thread
<1>4. QED
  BY <1>1, <1>2, <1>3 DEF Promise!vars

\* An event that is not dropped waits behind the others.
LEMMA PushPuts ==
  ASSUME IInv, NEW ev \in Events, PushEvent(ev), UNCHANGED thread,
         PendingIs, PendingIs', After(eq_write) # eq_read
  PROVE  Promise!Put
<1>1. /\ event_queue' = [event_queue EXCEPT ![eq_write] = ev]
      /\ eq_write' = (IF eq_write = EVENT_QUEUE_SIZE - 1 THEN 0 ELSE eq_write + 1)
      /\ eq_write' # eq_read /\ UNCHANGED <<eq_read, pc, reg, polled>>
  BY NextIndex DEF PushEvent, IInv, Types, thread
<1>2. /\ EVENT_QUEUE_SIZE \in Nat /\ eq_read \in 0..(EVENT_QUEUE_SIZE - 1)
      /\ eq_write \in 0..(EVENT_QUEUE_SIZE - 1)
  BY KeyboardAssumption DEF IInv, Types, Indices
<1>3. Backlog' = Backlog + 1 /\ Backlog \in 0..(EVENT_QUEUE_SIZE - 1)
  BY <1>1, <1>2 DEF Backlog
<1>4. \A k \in 1..Backlog' : Entry(k)' = Entry(k)
  BY <1>1 DEF Entry
<1>5. ~Between(eq_read, eq_write, eq_write)
  BY <1>2 DEF Between
<1>6. \A k \in 1..Backlog : event_queue'[Entry(k)] = event_queue[Entry(k)]
  BY <1>1, <1>5 DEF PendingIs, IInv, Types
<1>7. /\ Pending \in Seq(Events) /\ Len(Pending) = Backlog
      /\ Pending' \in Seq(Events) /\ Len(Pending') = Backlog + 1
      /\ Backlog + 1 < EVENT_QUEUE_SIZE
  BY <1>2, <1>3 DEF PendingIs
<1>8. \A k \in 1..Backlog : Pending'[k] = Pending[k]
  BY <1>3, <1>4, <1>6 DEF PendingIs
<1>9. SubSeq(Pending', 1, Len(Pending)) = Pending
  <2>1. \A k \in 1..Backlog : Pending'[k] \in Events
    BY <1>3, <1>7, ElementOfSeq
  <2>2. /\ SubSeq(Pending', 1, Backlog) \in Seq(Events)
        /\ Len(SubSeq(Pending', 1, Backlog)) = Backlog
        /\ \A k \in 1..Backlog : SubSeq(Pending', 1, Backlog)[k] = Pending'[k]
    BY <1>3, <2>1, SubSeqProperties
  <2>3. QED
    BY <1>7, <1>8, <2>2, SeqEqual
<1>10. (IF pc = "flush" THEN Distance(eq_read, reg) ELSE 0)'
         = IF pc = "flush" THEN Distance(eq_read, reg) ELSE 0
  BY <1>1 DEF Distance
<1>11. Len(Pending) < EVENT_QUEUE_SIZE - 1 /\ Len(Pending') = Len(Pending) + 1
  BY <1>2, <1>3, <1>7
<1>12. QED
  BY <1>1, <1>9, <1>10, <1>11 DEF Promise!Put

\* The event that was copied is the oldest, and what follows it still waits.
LEMMA PollAdvanceGets ==
  ASSUME IInv, PollAdvance, PendingIs, PendingIs'
  PROVE  Promise!Get
<1>1. /\ eq_read' = (IF eq_read = EVENT_QUEUE_SIZE - 1 THEN 0 ELSE eq_read + 1)
      /\ eq_read # eq_write /\ polled' = event_queue[eq_read]
      /\ pc = "copied" /\ pc' = "idle" /\ UNCHANGED <<event_queue, eq_write>>
  BY NextIndex DEF PollAdvance, IInv, Types, QueueInv
<1>2. /\ EVENT_QUEUE_SIZE \in Nat /\ eq_read \in 0..(EVENT_QUEUE_SIZE - 1)
      /\ eq_write \in 0..(EVENT_QUEUE_SIZE - 1)
  BY KeyboardAssumption DEF IInv, Types, Indices
<1>3. Backlog \in 1..(EVENT_QUEUE_SIZE - 1) /\ Backlog' = Backlog - 1
  BY <1>1, <1>2 DEF Backlog
<1>4. Entry(1) = eq_read
  BY <1>2 DEF Entry
<1>5. ASSUME NEW k \in 1..(Backlog - 1)
      PROVE  Entry(k)' = Entry(k + 1)
  BY <1>1, <1>2, <1>3 DEF Entry
<1>6. /\ Pending \in Seq(Events) /\ Len(Pending) = Backlog
      /\ \A k \in 1..Backlog : Pending[k] = event_queue[Entry(k)]
      /\ Pending' \in Seq(Events) /\ Len(Pending') = Backlog - 1
      /\ \A k \in 1..(Backlog - 1) : Pending'[k] = event_queue[Entry(k)']
  BY <1>1, <1>3 DEF PendingIs
<1>7. Pending # <<>>
  BY <1>3, <1>6, EmptySeq
<1>8. Head(Pending) = event_queue[eq_read]
  BY <1>3, <1>4, <1>6, <1>7
<1>9. Pending' = Tail(Pending)
  <2>1. /\ Tail(Pending) \in Seq(Events) /\ Len(Tail(Pending)) = Backlog - 1
        /\ \A k \in 1..(Backlog - 1) : Tail(Pending)[k] = Pending[k + 1]
    BY <1>6, <1>7, HeadTailProperties
  <2>2. \A k \in 1..(Backlog - 1) : Pending'[k] = Tail(Pending)[k]
    BY <1>3, <1>5, <1>6, <2>1
  <2>3. QED
    BY <1>6, <2>1, <2>2, SeqEqual
<1>10. QED
  BY <1>1, <1>7, <1>8, <1>9 DEF Promise!Get

\* A flush dooms what waits when it loads eq_write.
LEMMA FlushLoadBegins ==
  ASSUME IInv, FlushLoad, PendingIs
  PROVE  Promise!FlushBegin
<1>1. /\ reg' = eq_write /\ pc' = "flush" /\ polled' = None /\ UNCHANGED queue
  BY DEF FlushLoad
<1>2. Pending' = Pending
  BY <1>1 DEF Pending, Distance, queue
<1>3. (IF pc = "flush" THEN Distance(eq_read, reg) ELSE 0)' = Len(Pending)
  BY <1>1 DEF Distance, queue, PendingIs
<1>4. QED
  BY <1>1, <1>2, <1>3 DEF Promise!FlushBegin

\* It removes that much, and what came later still waits.
LEMMA FlushStoreEnds ==
  ASSUME IInv, FlushStore, PendingIs, PendingIs'
  PROVE  Promise!FlushEnd
<1> DEFINE n == Distance(eq_read, reg)
<1>1. /\ pc = "flush" /\ pc' = "idle" /\ eq_read' = reg /\ reg \in Indices
      /\ reg = eq_write \/ Between(eq_read, eq_write, reg)
      /\ UNCHANGED <<event_queue, eq_write, polled>>
  BY DEF FlushStore, IInv, QueueInv
<1>2. /\ EVENT_QUEUE_SIZE \in Nat /\ eq_read \in 0..(EVENT_QUEUE_SIZE - 1)
      /\ eq_write \in 0..(EVENT_QUEUE_SIZE - 1) /\ reg \in 0..(EVENT_QUEUE_SIZE - 1)
  BY <1>1, KeyboardAssumption DEF IInv, Types, Indices
<1>3. n = IF eq_read <= reg THEN reg - eq_read ELSE reg - eq_read + EVENT_QUEUE_SIZE
  BY <1>1, DistanceIs DEF IInv, Types
<1> HIDE DEF n
<1>4. /\ Backlog \in 0..(EVENT_QUEUE_SIZE - 1) /\ n \in 0..Backlog /\ Backlog' = Backlog - n
  BY <1>1, <1>2, <1>3 DEF Backlog, Between
<1>5. \A k \in 1..(Backlog - n) : Entry(k)' = Entry(n + k)
  BY <1>1, <1>2, <1>3, <1>4 DEF Entry
<1>6. /\ Pending \in Seq(Events) /\ Len(Pending) = Backlog
      /\ \A k \in 1..Backlog : Pending[k] = event_queue[Entry(k)]
      /\ Pending' \in Seq(Events) /\ Len(Pending') = Backlog - n
      /\ \A k \in 1..(Backlog - n) : Pending'[k] = event_queue[Entry(k)']
  BY <1>1, <1>4 DEF PendingIs
<1>7. Pending' = SubSeq(Pending, n + 1, Backlog)
  <2> DEFINE rest == SubSeq(Pending, n + 1, Backlog)
  <2>1. n + 1 \in Int /\ Backlog \in Int /\ \A k \in (n + 1)..Backlog : Pending[k] \in Events
    BY <1>4, <1>6, ElementOfSeq
  <2>2. /\ rest \in Seq(Events)
        /\ Len(rest) = IF n + 1 <= Backlog THEN Backlog - (n + 1) + 1 ELSE 0
        /\ \A k \in 1..(Backlog - (n + 1) + 1) : rest[k] = Pending[n + 1 + k - 1]
    BY <2>1, SubSeqProperties
  <2> HIDE DEF rest
  <2>3. Len(rest) = Backlog - n
    BY <1>4, <2>2
  <2>4. ASSUME NEW k \in 1..(Backlog - n)
        PROVE  rest[k] = Pending[n + k] /\ n + k \in 1..Backlog
    <3>1. /\ k \in 1..(Backlog - (n + 1) + 1) /\ n + 1 + k - 1 = n + k
          /\ n + k \in 1..Backlog
      BY <1>4
    <3>2. QED
      BY <2>2, <3>1
  <2>5. ASSUME NEW k \in 1..(Backlog - n)
        PROVE  Pending'[k] = rest[k]
    <3>1. Pending'[k] = event_queue[Entry(n + k)]
      BY <1>5, <1>6
    <3>2. rest[k] = Pending[n + k] /\ n + k \in 1..Backlog
      BY <2>4
    <3>3. QED
      BY <1>6, <3>1, <3>2
  <2>6. Pending' = rest
    BY <1>6, <2>2, <2>3, <2>5, SeqEqual
  <2>7. QED
    BY <2>6 DEF rest
<1>8. Pending' = SubSeq(Pending, Distance(eq_read, reg) + 1, Len(Pending))
  BY <1>6, <1>7 DEF n
<1>9. QED
  BY <1>1, <1>8 DEF Promise!FlushEnd

LEMMA NextPromise ==
  ASSUME IInv, PendingIs, PendingIs', [Next]_vars
  PROVE  [Promise!Next]_(Promise!vars)
<1>1. ASSUME (\E k \in Keys : Press(k) \/ LetGo(k)) \/ UNCHANGED vars
      PROVE  UNCHANGED Promise!vars
  BY <1>1, SameQueue DEF Press, LetGo, Send, vars
<1>2. CASE Interrupt
  <2>1. Types /\ UNCHANGED thread
    BY <1>2 DEF IInv, Interrupt
  <2>2. CASE UNCHANGED queue
    BY <2>1, <2>2, SameQueue
  <2>3. ASSUME NEW ev \in Events, PushEvent(ev)
        PROVE  UNCHANGED queue \/ Promise!Put
    BY <2>1, <2>3, PushPuts DEF PushEvent, queue
  <2>4. QED
    BY <1>2, <2>1, <2>2, <2>3, InterruptQueue DEF Promise!Next
<1>3. CASE PollCopy
  <2>1. Pending' = Pending
    BY <1>3 DEF PollCopy, Pending, Distance, queue
  <2>2. Promise!Use
    BY <1>3, <2>1 DEF Promise!Use, PollCopy
  <2>3. QED
    BY <2>2 DEF Promise!Next
<1>4. CASE PollAdvance
  BY <1>4, PollAdvanceGets DEF Promise!Next
<1>5. CASE FlushLoad
  BY <1>5, FlushLoadBegins DEF Promise!Next
<1>6. CASE FlushStore
  BY <1>6, FlushStoreEnds DEF Promise!Next
<1>7. QED
  BY <1>1, <1>2, <1>3, <1>4, <1>5, <1>6 DEF Next

\* The events come out of the ring in the order of the keys, once each, though the
\* handler interrupts the thread between any two of its accesses; a flush removes
\* what waited when it began.
THEOREM RingIsQueue == Spec => Implements
<1>1. IInv /\ PendingIs /\ PendingIs' /\ [Next]_vars => [Promise!Next]_(Promise!vars)
  BY NextPromise
<1>2. Spec => Promise!Init /\ [][Promise!Next]_(Promise!vars)
  BY <1>1, PendingShape, InitPromise, Invariance, PTL DEF Spec
<1>3. QED
  BY <1>2 DEF Implements, Promise!Spec
=============================================================================
