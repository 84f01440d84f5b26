------------------------------ MODULE Keyboard ------------------------------
(***************************************************************************)
(* The keyboard driver (keyboard.c): the interrupt handler decodes the     *)
(* bytes of scancode set 2, one per interrupt, and pushes key events into  *)
(* a ring that the shell thread polls.  The handler runs with interrupts   *)
(* off, so it is one step; the thread can be interrupted between any two   *)
(* of its accesses to the ring.                                            *)
(*                                                                         *)
(* The keyboard itself is outside the code: it sends the codes of the keys *)
(* the user presses, holds (typematic repeat) and releases, and its own    *)
(* buffer does not overflow.                                               *)
(***************************************************************************)
EXTENDS Naturals, Sequences, FiniteSets

CONSTANTS Shifts, Ctrls, Alts,   \* the keys of each modifier
          CapsLock,
          Chars,                 \* keys with a letter, which has two cases
          Arrows,                \* keys with a code in extended_keycode
          Pads,                  \* keypad keys: an arrow's code without E0
          Extended,              \* the keys whose codes start with E0
          EVENT_QUEUE_SIZE,
          None

Keys == Shifts \cup Ctrls \cup Alts \cup {CapsLock} \cup Chars \cup Arrows \cup Pads

ASSUME KeyboardAssumption ==
  /\ EVENT_QUEUE_SIZE \in Nat \ {0}
  /\ Arrows \subseteq Extended
  /\ Extended \subseteq Arrows \cup Ctrls \cup Alts

\* Every key is of one kind, and the bytes of different kinds differ (keyboard.c:17).
ASSUME CodeAssumption ==
  /\ IsFiniteSet(Keys)
  /\ Keys \cap {"SC_EXTENDED", "SC_RELEASE", "SC_LCTRL", "SC_LALT", "SC_ARROW"} = {}
  /\ Shifts \cap (Ctrls \cup Alts \cup Chars \cup Arrows \cup Pads) = {}
  /\ Ctrls \cap (Alts \cup Chars \cup Arrows \cup Pads) = {}
  /\ Alts \cap (Chars \cup Arrows \cup Pads) = {}
  /\ Chars \cap (Arrows \cup Pads) = {}
  /\ CapsLock \notin Shifts \cup Ctrls \cup Alts \cup Chars \cup Arrows \cup Pads

VARIABLES
  down,         \* the keys that are held down
  wire,         \* the bytes on their way to port 0x60
  seen_release, seen_extended,
  shift_down, ctrl_down, alt_down, caps_on,
  event_queue, eq_read, eq_write,
  pc,           \* where the thread is: in kbd_poll_event or in kbd_flush
  reg,          \* the value it has loaded: an event, or eq_write
  polled        \* history: the last event kbd_poll_event returned

keyboard == <<down, wire>>
decoder == <<seen_release, seen_extended, shift_down, ctrl_down, alt_down, caps_on>>
queue == <<event_queue, eq_read, eq_write>>
thread == <<pc, reg, polled>>
vars == <<keyboard, decoder, queue, thread>>

Indices == 0..(EVENT_QUEUE_SIZE - 1)
After(i) == (i + 1) % EVENT_QUEUE_SIZE

Init ==
  /\ down = {} /\ wire = <<>>
  /\ seen_release = FALSE /\ seen_extended = FALSE
  /\ shift_down = FALSE /\ ctrl_down = FALSE /\ alt_down = FALSE /\ caps_on = FALSE
  /\ event_queue = [i \in Indices |-> None]
  /\ eq_read = 0 /\ eq_write = 0
  /\ pc = "idle" /\ reg = None /\ polled = None

-----------------------------------------------------------------------------
(* The keyboard and the user.                                              *)

\* The byte of a key: left and right Ctrl share one, and so do Alt, and the
\* arrows and the keypad; E0 tells them apart.
Code(k) == CASE k \in Ctrls -> "SC_LCTRL"
             [] k \in Alts -> "SC_LALT"
             [] k \in Arrows \cup Pads -> "SC_ARROW"
             [] OTHER -> k

Make(k) == (IF k \in Extended THEN <<"SC_EXTENDED">> ELSE <<>>) \o <<Code(k)>>
Break(k) == (IF k \in Extended THEN <<"SC_EXTENDED">> ELSE <<>>)
              \o <<"SC_RELEASE", Code(k)>>

Send(bytes) ==
  /\ wire = <<>>
  /\ wire' = bytes
  /\ UNCHANGED <<decoder, queue, thread>>

\* A key is pressed, or repeats while it is held.
Press(k) == Send(Make(k)) /\ down' = down \cup {k}

LetGo(k) == k \in down /\ Send(Break(k)) /\ down' = down \ {k}

-----------------------------------------------------------------------------
(* keyboard_handler                                                        *)

Event(code, upper) ==
  [code |-> code, upper |-> upper, ctrl |-> ctrl_down, alt |-> alt_down]

\* Mutant: the queue is full one event early.
PushEvent_Early(ev) ==
  /\ IF After(After(eq_write)) = eq_read
     THEN UNCHANGED <<event_queue, eq_write>>
     ELSE /\ event_queue' = [event_queue EXCEPT ![eq_write] = ev]
          /\ eq_write' = After(eq_write)
  /\ UNCHANGED eq_read

\* push_event drops the event when the queue is full.
PushEvent(ev) ==
  /\ IF After(eq_write) = eq_read
     THEN UNCHANGED <<event_queue, eq_write>>
     ELSE /\ event_queue' = [event_queue EXCEPT ![eq_write] = ev]
          /\ eq_write' = After(eq_write)
  /\ UNCHANGED eq_read

Prefixes == {"SC_EXTENDED", "SC_RELEASE"}

Prefix(sc) ==
  /\ sc \in Prefixes
  /\ seen_extended' = (seen_extended \/ sc = "SC_EXTENDED")
  /\ seen_release' = (seen_release \/ sc = "SC_RELEASE")
  /\ UNCHANGED <<shift_down, ctrl_down, alt_down, caps_on, queue>>

\* E0 12, the fake shift of some keys, is not a shift.
Modifiers == (IF seen_extended THEN {} ELSE Shifts) \cup {"SC_LCTRL", "SC_LALT"}

Modifier(sc) ==
  /\ sc \in Modifiers
  /\ shift_down' = IF sc \in Shifts THEN ~seen_release ELSE shift_down
  /\ ctrl_down' = IF sc = "SC_LCTRL" THEN ~seen_release ELSE ctrl_down
  /\ alt_down' = IF sc = "SC_LALT" THEN ~seen_release ELSE alt_down
  /\ UNCHANGED <<caps_on, queue>>

Caps(sc) ==
  /\ sc = CapsLock /\ ~seen_extended
  /\ caps_on' = IF seen_release THEN caps_on ELSE ~caps_on
  /\ UNCHANGED <<shift_down, ctrl_down, alt_down, queue>>

\* The keys that make an event; a released key and a keypad key make none.
Decoded(sc) ==
  ~seen_release /\ IF seen_extended THEN sc = "SC_ARROW" ELSE sc \in Chars

Character(sc) ==
  /\ sc \notin Prefixes \cup Modifiers
  /\ sc = CapsLock => seen_extended
  /\ IF Decoded(sc)
     THEN PushEvent(Event(sc, sc \in Chars /\ shift_down # caps_on))
     ELSE UNCHANGED queue
  /\ UNCHANGED <<shift_down, ctrl_down, alt_down, caps_on>>

\* Mutant: the prefix flags are cleared only by keys that make events.
Key_StaleFlags(sc) ==
  /\ Modifier(sc) \/ Caps(sc) \/ Character(sc)
  /\ seen_extended' = FALSE
  /\ seen_release' = IF Decoded(sc) THEN FALSE ELSE seen_release

\* Any other byte ends a sequence: both flags are cleared before it is handled.
Key(sc) ==
  /\ Modifier(sc) \/ Caps(sc) \/ Character(sc)
  /\ seen_extended' = FALSE
  /\ seen_release' = FALSE

Interrupt ==
  /\ wire # <<>>
  /\ wire' = Tail(wire)
  /\ Prefix(Head(wire)) \/ Key(Head(wire))
  /\ UNCHANGED <<down, thread>>

-----------------------------------------------------------------------------
(* The thread: kbd_poll_event (and kbd_wait_event, which repeats it), and  *)
(* kbd_flush.                                                              *)

\* The queue is not empty: the event is copied, then eq_read advances.
PollCopy ==
  /\ pc = "idle"
  /\ eq_read # eq_write
  /\ reg' = event_queue[eq_read]
  /\ pc' = "copied"
  /\ polled' = None
  /\ UNCHANGED <<keyboard, decoder, queue>>

PollAdvance ==
  /\ pc = "copied"
  /\ eq_read' = After(eq_read)
  /\ polled' = reg
  /\ reg' = None
  /\ pc' = "idle"
  /\ UNCHANGED <<keyboard, decoder, event_queue, eq_write>>

FlushLoad ==
  /\ pc = "idle"
  /\ reg' = eq_write
  /\ pc' = "flush"
  /\ polled' = None
  /\ UNCHANGED <<keyboard, decoder, queue>>

\* Mutant: eq_write is read again.
FlushStore_Twice ==
  /\ pc = "flush"
  /\ eq_read' = eq_write
  /\ reg' = None
  /\ pc' = "idle"
  /\ UNCHANGED <<keyboard, decoder, event_queue, eq_write, polled>>

FlushStore ==
  /\ pc = "flush"
  /\ eq_read' = reg
  /\ reg' = None
  /\ pc' = "idle"
  /\ UNCHANGED <<keyboard, decoder, event_queue, eq_write, polled>>

-----------------------------------------------------------------------------
Next ==
  \/ \E k \in Keys : Press(k)
  \/ \E k \in Keys : LetGo(k)
  \/ Interrupt
  \/ PollCopy
  \/ PollAdvance
  \/ FlushLoad
  \/ FlushStore

Spec == Init /\ [][Next]_vars

-----------------------------------------------------------------------------
(* Properties.                                                             *)

Events == [code : Chars \cup {"SC_ARROW"}, upper : BOOLEAN, ctrl : BOOLEAN,
           alt : BOOLEAN]

ASSUME EventAssumption == None \notin Events

Bytes == Prefixes \cup {Code(k) : k \in Keys}

Distance(i, j) == (j + EVENT_QUEUE_SIZE - i) % EVENT_QUEUE_SIZE
Pending == [i \in 1..Distance(eq_read, eq_write) |->
              event_queue[(eq_read + i - 1) % EVENT_QUEUE_SIZE]]

\* The type of every variable; what is between eq_read and eq_write are events.
TypeOK ==
  /\ down \subseteq Keys
  /\ wire \in Seq(Bytes)
  /\ {seen_release, seen_extended, shift_down, ctrl_down, alt_down, caps_on}
       \subseteq BOOLEAN
  /\ \A i \in Indices : event_queue[i] = None \/ event_queue[i] \in Events
  /\ eq_read \in Indices /\ eq_write \in Indices
  /\ \A i \in DOMAIN Pending : Pending[i] # None
  /\ pc \in {"idle", "copied", "flush"}
  /\ reg = None \/ reg \in (IF pc = "flush" THEN Indices ELSE Events)
  /\ polled = None \/ polled \in Events

Held(flag, modifier) ==
  /\ flag => down \cap modifier # {}
  /\ Cardinality(modifier) = 1 => (flag <=> down \cap modifier # {})

\* When every byte has been delivered no modifier is stuck: one that is on has a
\* key held down, and the flag of a modifier with one key says exactly that,
\* however presses, repeats and releases of other keys were mixed in.
ModifiersHeld ==
  wire = <<>> => /\ ~seen_release /\ ~seen_extended
                 /\ Held(shift_down, Shifts)
                 /\ Held(ctrl_down, Ctrls)
                 /\ Held(alt_down, Alts)

\* The variables have their types, and no modifier is stuck.
Inv == TypeOK /\ ModifiersHeld

\* A key press is lost only when EVENT_QUEUE_SIZE - 1 events are waiting.
DropOnlyWhenFull ==
  [][Interrupt /\ Decoded(Head(wire)) /\ eq_write' = eq_write
       => Len(Pending) = EVENT_QUEUE_SIZE - 1]_vars

Promise == INSTANCE EventQueue WITH
             Capacity <- EVENT_QUEUE_SIZE - 1,
             NoEvent <- None,
             pending <- Pending,
             got <- polled,
             doomed <- IF pc = "flush" THEN Distance(eq_read, reg) ELSE 0

\* The ring with its two indices, each written by one side, implements the
\* queue: nothing is reordered, repeated, or overwritten while it is copied.
Implements == Promise!Spec
=============================================================================
