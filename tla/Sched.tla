------------------------------- MODULE Sched -------------------------------
(***************************************************************************)
(* The preemptive round-robin scheduler of kernel threads (sched.c) with   *)
(* the two interrupts that enter it: the timer and the yield vector 0x30   *)
(* (isr.c).  There is one CPU.  A thread is interrupted wherever the       *)
(* interrupt flag is set, so every interruptible point of the scheduler's  *)
(* API is a separate action; with the flag clear nothing interleaves.      *)
(*                                                                         *)
(* Time is relative: left[t] is wake_tick - timer_ticks and used is        *)
(* timer_ticks - slice_start, both cut off where they stop mattering.      *)
(***************************************************************************)
EXTENDS Integers, FiniteSets

CONSTANTS Daemons,   \* threads whose function never returns (net-rx, shell)
          Workers,   \* thread structs whose function returns (llm-bot), reusable
          Shell,     \* the daemon that main.c creates last, before sched_start
          Idle,      \* the boot context, adopted by sched_start
          NULL,
          Quantum,   \* QUANTUM_TICKS
          MaxSleep   \* bound on the argument of thread_sleep_ms

ASSUME ThreadsAssumption == /\ Shell \in Daemons
                            /\ Daemons \cap Workers = {}
                            /\ Idle \notin Daemons \cup Workers
                            /\ NULL \notin Daemons \cup Workers \cup {Idle}

ASSUME TimeAssumption == /\ Quantum \in Nat \ {0}
                         /\ MaxSleep \in Nat \ {0}

Clients == Daemons \cup Workers
Threads == Clients \cup {Idle}

VARIABLES
  state,    \* Thread.state, or FREE when the struct is not allocated
  next,     \* Thread.next
  left,     \* Thread.wake_tick - timer_ticks
  ring,     \* an arbitrary node of the ring: the first one inserted
  current,  \* the thread on the CPU
  active,   \* sched_start has run
  used,     \* timer_ticks - slice_start, at most Quantum
  pc,       \* where the thread is in the scheduler's API
  new,      \* the struct thread_create is building for the thread
  arg,      \* the argument of the thread_sleep_ms call in progress
  iflag,    \* RFLAGS.IF
  isr,      \* the part of sched_preempt being executed
  walk,     \* the pointer p of reap_zombies
  owed,     \* history: ticks the thread still has to sleep
  passed    \* history: dispatches of others since the thread became ready

vars == <<state, next, left, ring, current, active, used, pc, new, arg,
          iflag, isr, walk, owed, passed>>

States == {"FREE", "READY", "RUNNING", "SLEEPING", "ZOMBIE"}
Labels == {"run", "create", "link", "sleep_state", "sleep_tick", "sleep_int",
           "exit_state", "exit_int", "dead"}
Phases == {"none", "wake", "reap", "pick"}

Runnable(t) == state[t] \in {"READY", "RUNNING"}

\* The structs a walk from t meets when it goes on past those in Skip only.
Reach(t, Skip) ==
  {u \in Threads :
     \A S \in SUBSET Threads :
       (t \in S /\ \A v \in S \cap Skip : next[v] \in S) => u \in S}

\* The structs thread_create has allocated and not linked in yet.
Pending == {new[c] : c \in {u \in Threads : pc[u] \in {"create", "link"}}}

Linked == {t \in Threads : state[t] # "FREE"} \ Pending

Floor(n, low) == IF n < low THEN low ELSE n
Ceil(n, high) == IF n > high THEN high ELSE n

-----------------------------------------------------------------------------
(* Boot: main.c creates the daemons, then sched_start adopts the boot      *)
(* context.  Ticks arrive, but sched_tick returns while active is false.   *)

Init ==
  /\ state = [t \in Threads |-> "FREE"]
  /\ next = [t \in Threads |-> NULL]
  /\ left = [t \in Threads |-> 0]
  /\ ring = NULL
  /\ current = NULL
  /\ active = FALSE
  /\ used = 0
  /\ pc = [t \in Threads |-> "run"]
  /\ new = [t \in Threads |-> NULL]
  /\ arg = [t \in Threads |-> 0]
  /\ iflag = TRUE
  /\ isr = "none"
  /\ walk = NULL
  /\ owed = [t \in Threads |-> 0]
  /\ passed = [t \in Threads |-> {}]

\* ring_insert without interference.
Insert(t) ==
  IF ring = NULL
  THEN ring' = t /\ next' = [next EXCEPT ![t] = t]
  ELSE ring' = ring /\ next' = [next EXCEPT ![t] = next[ring], ![ring] = t]

BootCreate(t) ==
  /\ ~active
  /\ state[t] = "FREE"
  /\ state[Shell] = "FREE"
  /\ state' = [state EXCEPT ![t] = "READY"]
  /\ Insert(t)
  /\ UNCHANGED <<left, current, active, used, pc, new, arg, iflag, isr, walk,
                 owed, passed>>

SchedStart ==
  /\ ~active
  /\ state[Shell] # "FREE"
  /\ state' = [state EXCEPT ![Idle] = "RUNNING"]
  /\ Insert(Idle)
  /\ current' = Idle
  /\ used' = 0
  /\ active' = TRUE
  /\ UNCHANGED <<left, pc, new, arg, iflag, isr, walk, owed, passed>>

-----------------------------------------------------------------------------
(* The thread on the CPU.                                                  *)

Exec(c, label) ==
  /\ active
  /\ isr = "none"
  /\ c = current
  /\ pc[c] = label

Goto(c, label) == pc' = [pc EXCEPT ![c] = label]

\* int 0x30: the gate clears IF and enters sched_preempt.
SoftInt == isr' = "wake" /\ iflag' = FALSE

Yield(c) ==
  /\ Exec(c, "run")
  /\ c # Idle
  /\ SoftInt
  /\ UNCHANGED <<state, next, left, ring, current, active, used, pc, new, arg,
                 walk, owed, passed>>

\* thread_create: both mallocs succeed (when one fails nothing changes).
CreateAlloc(c, t) ==
  /\ Exec(c, "run")
  /\ c \in Daemons
  /\ state[t] = "FREE"
  /\ state' = [state EXCEPT ![t] = "READY"]
  /\ left' = [left EXCEPT ![t] = 0]
  /\ pc' = [pc EXCEPT ![c] = "create", ![t] = "run"]
  /\ new' = [new EXCEPT ![c] = t]
  /\ UNCHANGED <<next, ring, current, active, used, arg, iflag, isr, walk,
                 owed, passed>>

\* Mutant: ring_insert without irq_save.
InsertNode_Unlocked(c) ==
  /\ Exec(c, "create")
  /\ next' = [next EXCEPT ![new[c]] = next[ring]]
  /\ Goto(c, "link")
  /\ UNCHANGED <<state, left, ring, current, active, used, new, arg, iflag, isr,
                 walk, owed, passed>>

\* ring_insert: irq_save and the store to the new node.
InsertNode(c) ==
  /\ Exec(c, "create")
  /\ iflag' = FALSE
  /\ next' = [next EXCEPT ![new[c]] = next[ring]]
  /\ Goto(c, "link")
  /\ UNCHANGED <<state, left, ring, current, active, used, new, arg, isr, walk,
                 owed, passed>>

\* ring_insert: the store that links the node in, and irq_restore.
InsertLink(c) ==
  /\ Exec(c, "link")
  /\ iflag' = TRUE
  /\ next' = [next EXCEPT ![ring] = new[c]]
  /\ new' = [new EXCEPT ![c] = NULL]
  /\ Goto(c, "run")
  /\ UNCHANGED <<state, left, ring, current, active, used, arg, isr, walk,
                 owed, passed>>

\* Mutant: thread_sleep_ms without irq_save.
SleepCall_Unlocked(c, ms) ==
  /\ Exec(c, "run")
  /\ c # Idle
  /\ arg' = [arg EXCEPT ![c] = ms]
  /\ owed' = [owed EXCEPT ![c] = ms]
  /\ Goto(c, "sleep_state")
  /\ UNCHANGED <<state, next, left, ring, current, active, used, new, iflag, isr,
                 walk, passed>>

SleepCall(c, ms) ==
  /\ Exec(c, "run")
  /\ c # Idle
  /\ iflag' = FALSE
  /\ arg' = [arg EXCEPT ![c] = ms]
  /\ owed' = [owed EXCEPT ![c] = ms]
  /\ Goto(c, "sleep_state")
  /\ UNCHANGED <<state, next, left, ring, current, active, used, new, isr,
                 walk, passed>>

SleepState(c) ==
  /\ Exec(c, "sleep_state")
  /\ state' = [state EXCEPT ![c] = "SLEEPING"]
  /\ Goto(c, "sleep_tick")
  /\ UNCHANGED <<next, left, ring, current, active, used, new, arg, iflag, isr,
                 walk, owed, passed>>

SleepTick(c) ==
  /\ Exec(c, "sleep_tick")
  /\ left' = [left EXCEPT ![c] = arg[c]]
  /\ arg' = [arg EXCEPT ![c] = 0]
  /\ Goto(c, "sleep_int")
  /\ UNCHANGED <<state, next, ring, current, active, used, new, iflag, isr,
                 walk, owed, passed>>

\* sti; int 0x30: sti takes effect after the int, so no tick comes between.
SleepInt(c) ==
  /\ Exec(c, "sleep_int")
  /\ SoftInt
  /\ Goto(c, "run")
  /\ UNCHANGED <<state, next, left, ring, current, active, used, new, arg,
                 walk, owed, passed>>

\* The worker's function returns: trampoline calls thread_exit.
ExitCall(c) ==
  /\ Exec(c, "run")
  /\ c \in Workers
  /\ iflag' = FALSE
  /\ Goto(c, "exit_state")
  /\ UNCHANGED <<state, next, left, ring, current, active, used, new, arg, isr,
                 walk, owed, passed>>

ExitState(c) ==
  /\ Exec(c, "exit_state")
  /\ state' = [state EXCEPT ![c] = "ZOMBIE"]
  /\ Goto(c, "exit_int")
  /\ UNCHANGED <<next, left, ring, current, active, used, new, arg, iflag, isr,
                 walk, owed, passed>>

ExitInt(c) ==
  /\ Exec(c, "exit_int")
  /\ SoftInt
  /\ Goto(c, "dead")
  /\ UNCHANGED <<state, next, left, ring, current, active, used, new, arg,
                 walk, owed, passed>>

-----------------------------------------------------------------------------
(* The interrupt handlers.                                                 *)

\* Mutant: the slice lasts one tick too long.
QuantumLeft_Longer == used < Quantum /\ state[current] = "RUNNING"

\* sched_tick: the quantum has not expired and current is running.
QuantumLeft == used + 1 < Quantum /\ state[current] = "RUNNING"

\* isr_timer_handler: count the tick, then sched_tick reschedules only when
\* the quantum has expired or current is not running.
Tick ==
  /\ active
  /\ isr = "none"
  /\ iflag
  /\ left' = [t \in Threads |-> IF state[t] = "SLEEPING"
                                THEN Floor(left[t] - 1, -Quantum) ELSE left[t]]
  /\ owed' = [t \in Threads |-> Floor(owed[t] - 1, 0)]
  /\ used' = Ceil(used + 1, Quantum)
  /\ IF QuantumLeft
     THEN UNCHANGED <<isr, iflag>>
     ELSE SoftInt
  /\ UNCHANGED <<state, next, ring, current, active, pc, new, arg, walk,
                 passed>>

Due(t) == state[t] = "SLEEPING" /\ left[t] <= 0

\* sched_preempt: the wake loop, all the way round the ring from current.
Wake ==
  /\ isr = "wake"
  /\ LET due == {t \in Reach(current, Threads) : Due(t)}
     IN /\ state' = [t \in Threads |-> IF t \in due THEN "READY" ELSE state[t]]
        /\ left' = [t \in Threads |-> IF t \in due THEN 0 ELSE left[t]]
  /\ walk' = ring
  /\ isr' = "reap"
  /\ UNCHANGED <<next, ring, current, active, used, pc, new, arg, iflag, owed,
                 passed>>

\* Mutants: a thread may be freed under the CPU; a dying thread does not reap
\* others; the walk starts behind the node after ring.
Reapable_Current(n) == state[n] = "ZOMBIE" /\ n # ring
Reapable_NotDying(n) ==
  state[n] = "ZOMBIE" /\ n # current /\ n # ring /\ state[current] # "ZOMBIE"
Reapable(n) == state[n] = "ZOMBIE" /\ n # current /\ n # ring

\* One iteration of reap_zombies, whose loop ends when p is back at ring.
Reap ==
  /\ isr = "reap"
  /\ LET n == next[walk] IN
       IF Reapable(n)
       THEN /\ next' = [next EXCEPT ![walk] = next[n], ![n] = NULL]
            /\ state' = [state EXCEPT ![n] = "FREE"]
            /\ passed' = [t \in Threads |-> passed[t] \ {n}]
            /\ walk' = walk
       ELSE /\ walk' = n
            /\ UNCHANGED <<next, state, passed>>
  /\ isr' = IF walk' = ring THEN "pick" ELSE "reap"
  /\ UNCHANGED <<left, ring, current, active, used, pc, new, arg, iflag, owed>>

\* Mutant: the search starts at ring instead of after current.
FirstAfter_Ring(Wanted) == Reach(ring, Threads \ Wanted) \cap Wanted

\* The first runnable thread after current that is not idle, else the first.
FirstAfter(Wanted) ==
  Reach(next[current], Threads \ Wanted) \cap Wanted

Choices ==
  LET busy == {t \in Clients : Runnable(t)}
      any  == {t \in Threads : Runnable(t)}
  IN IF FirstAfter(busy) # {} THEN FirstAfter(busy) ELSE FirstAfter(any)

Switch(t) ==
  /\ isr = "pick"
  /\ t \in Choices
  /\ t # current
  /\ state' = [state EXCEPT
                 ![current] = IF @ = "RUNNING" THEN "READY" ELSE @,
                 ![t] = "RUNNING"]
  /\ current' = t
  /\ used' = 0
  /\ isr' = "none"
  /\ iflag' = TRUE
  /\ passed' = [u \in Threads |->
                  IF u \in Linked \ {t, current, Idle} /\ state[u] = "READY"
                  THEN passed[u] \cup {t} ELSE {}]
  /\ UNCHANGED <<next, left, ring, active, pc, new, arg, walk, owed>>

\* Nobody else to run: return to the interrupted thread.
Stay ==
  /\ isr = "pick"
  /\ Choices \subseteq {current}
  /\ isr' = "none"
  /\ iflag' = TRUE
  /\ UNCHANGED <<state, next, left, ring, current, active, used, pc, new, arg,
                 walk, owed, passed>>

-----------------------------------------------------------------------------
Critical(c) ==
  \/ InsertLink(c)
  \/ SleepState(c)
  \/ SleepTick(c)
  \/ SleepInt(c)
  \/ ExitState(c)
  \/ ExitInt(c)

Isr ==
  \/ Wake
  \/ Reap
  \/ \E t \in Threads : Switch(t)
  \/ Stay

ThreadStep(c) ==
  \/ Yield(c)
  \/ \E t \in Workers : CreateAlloc(c, t)
  \/ InsertNode(c)
  \/ \E ms \in 1..MaxSleep : SleepCall(c, ms)
  \/ ExitCall(c)
  \/ Critical(c)

Next ==
  \/ \E t \in Daemons : BootCreate(t)
  \/ SchedStart
  \/ \E c \in Threads : ThreadStep(c)
  \/ Tick
  \/ Isr

Spec == Init /\ [][Next]_vars

\* The CPU executes a section with interrupts off to its end, and the PIC
\* holds a tick until the interrupt flag is set again.
Fairness ==
  /\ WF_vars(Isr)
  /\ WF_vars(\E c \in Threads : Critical(c))
  /\ SF_vars(Tick)
  /\ WF_vars(BootCreate(Shell))
  /\ WF_vars(SchedStart)

LiveSpec == Spec /\ Fairness
-----------------------------------------------------------------------------
(* Properties.                                                             *)

\* The type of every variable; in particular a thread in the scheduler keeps
\* wake_tick at most MaxSleep ahead and at most Quantum behind timer_ticks.
TypeOK ==
  /\ state \in [Threads -> States]
  /\ next \in [Threads -> Threads \cup {NULL}]
  /\ left \in [Threads -> (-Quantum)..MaxSleep]
  /\ ring \in Threads \cup {NULL}
  /\ current \in Threads \cup {NULL}
  /\ active \in BOOLEAN
  /\ used \in 0..Quantum
  /\ pc \in [Threads -> Labels]
  /\ new \in [Threads -> Workers \cup {NULL}]
  /\ arg \in [Threads -> 0..MaxSleep]
  /\ iflag \in BOOLEAN
  /\ isr \in Phases
  /\ walk \in Threads \cup {NULL}
  /\ owed \in [Threads -> 0..MaxSleep]
  /\ passed \in [Threads -> SUBSET Threads]

\* The ring that ring_insert, reap_zombies and the loops of sched_preempt
\* share holds the linked threads and nothing else: no walk meets a freed
\* struct, no created thread is lost, and the CPU's own struct and stack, and
\* the pointer of the reaper, are among them.
RingIntegrity ==
  active => /\ Reach(ring, Threads) = Linked
            /\ current \in Linked
            /\ isr = "reap" => walk \in Linked

\* Whoever executes thread code is the current thread and is RUNNING, or has
\* announced that it is about to sleep or exit; nobody else is RUNNING.  This
\* is why "Shouldn't happen" holds in sched_preempt (sched.c:239).
OneRunning ==
  active =>
    /\ \A t \in Threads : state[t] = "RUNNING" => t = current
    /\ isr = "none" =>
         state[current] = CASE pc[current] \in {"sleep_tick", "sleep_int"} -> "SLEEPING"
                            [] pc[current] = "exit_int" -> "ZOMBIE"
                            [] OTHER -> "RUNNING"

\* The variables have their types, the ring holds the linked threads, and one
\* thread runs.
Inv == TypeOK /\ RingIntegrity /\ OneRunning

\* thread_sleep_ms(ms) never returns before ms ticks have been counted, even
\* though wake_tick still holds the time of an earlier sleep until it is set.
NoEarlyReturn ==
  active /\ isr = "none" /\ pc[current] = "run" => owed[current] = 0

\* A sleeper is ready less than Quantum - 1 ticks after its time has come, though
\* only sched_preempt, and not every tick, looks at wake_tick.
PromptWake ==
  \A t \in Threads :
    state[t] = "SLEEPING" /\ pc[t] # "sleep_tick" /\ isr = "none"
      => left[t] > 1 - Quantum

\* A sleep is as long as it should be: never shorter, and little longer.
SleepTimes == NoEarlyReturn /\ PromptWake

\* Exits do not pile up: outside the handlers at most one thread is waiting to
\* be reaped, although reap_zombies skips the thread it runs on and ends its
\* walk early when it removes the node after ring.
OneZombie ==
  isr = "none" /\ ~(active /\ pc[current] = "exit_int") =>
    Cardinality({t \in Threads : state[t] = "ZOMBIE"}) <= 1

\* Round robin: while a thread is ready no other one is dispatched twice,
\* whatever is created (in front of it, after ring), exits, sleeps or yields.
RoundRobin ==
  [][\A t \in Clients \cap Linked :
       state[t] = "READY" /\ state'[t] = "READY" /\ current' # current
         => current' \notin passed[t]]_vars

\* A thread that has called thread_exit never gets the CPU back, and its struct
\* and stack are freed only when the CPU runs on another.
ExitIsFinal ==
  [][\A t \in Threads :
       state[t] = "ZOMBIE" => /\ state'[t] \in {"ZOMBIE", "FREE"}
                              /\ state'[t] = "FREE" => current' # t
                              /\ current' = t => current = t]_vars

\* A ready thread gets the CPU: no yield, sleep or exit of others starves it.
ReadyRuns ==
  \A t \in Clients : (state[t] = "READY" /\ t \in Linked) ~> (current = t)
=============================================================================
