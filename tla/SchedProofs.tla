---------------------------- MODULE SchedProofs ----------------------------
(***************************************************************************)
(* The inductive invariant of the scheduler and the proofs of its safety   *)
(* properties for every number of threads, quantum and sleep length.       *)
(***************************************************************************)
EXTENDS Sched, FiniteSetTheorems, TLAPS

LEMMA Constants ==
  /\ Daemons \subseteq Threads /\ Workers \subseteq Threads
  /\ Clients \subseteq Threads /\ Clients = Daemons \cup Workers
  /\ Idle \in Threads \ Clients
  /\ Shell \in Daemons
  /\ Daemons \cap Workers = {}
  /\ NULL \notin Threads
  /\ \A t \in Threads : t = Idle \/ t \in Daemons \/ t \in Workers
BY ThreadsAssumption DEF Threads, Clients

Closed(S) == \A t \in S : next[t] \in S

(* The ring is one cycle through the linked threads: next is closed and    *)
(* injective on them and no proper part of them is closed.                 *)
RingShape ==
  /\ ring = NULL => Linked = {}
  /\ ring # NULL => ring \in Linked \cap Daemons
  /\ Closed(Linked)
  /\ \A t, u \in Linked : next[t] = next[u] => t = u
  /\ \A S \in SUBSET Linked : S # {} /\ Closed(S) => S = Linked

(* thread_create's unfinished structs are distinct READY workers that no   *)
(* one else knows; after its first store ring_insert's node is up to date. *)
Building(c) == pc[c] \in {"create", "link"}

CreateInv ==
  /\ \A c \in Threads : IF Building(c)
                        THEN /\ c \in Daemons
                             /\ new[c] \in Workers
                             /\ state[new[c]] = "READY"
                             /\ pc[new[c]] = "run"
                        ELSE new[c] = NULL
  /\ \A c, d \in Threads : Building(c) /\ Building(d) /\ new[c] = new[d] => c = d
  /\ \A c \in Threads : pc[c] = "link" => next[new[c]] = next[ring]

BootInv ==
  ~active => /\ current = NULL
             /\ isr = "none" /\ iflag
             /\ \A t \in Threads : pc[t] = "run" /\ state[t] \in {"FREE", "READY"}
             /\ \A t \in Threads \ Daemons : state[t] = "FREE"

CpuInv ==
  active =>
    /\ ring # NULL
    /\ {current, Idle} \subseteq Linked
    /\ Runnable(Idle)
    /\ pc[Idle] = "run"
    /\ isr = "reap" => walk \in Linked
    /\ isr # "none" => ~iflag /\ pc[current] \in {"run", "create", "dead"}
    /\ isr = "none" => /\ iflag <=> pc[current] \in {"run", "create"}
                       /\ pc[current] # "dead"
    /\ state[current] # "READY"

ThreadInv ==
  \A t \in Threads :
    /\ state[t] = "RUNNING" => active /\ t = current
    /\ t # current => pc[t] \in {"run", "create", "dead"}
    /\ pc[t] \in {"sleep_tick", "sleep_int"} => state[t] = "SLEEPING"
    /\ pc[t] = "exit_int" => state[t] = "ZOMBIE"
    /\ pc[t] = "dead" => state[t] \in {"ZOMBIE", "FREE"}
    /\ state[t] = "ZOMBIE" => t \in Workers /\ pc[t] \in {"exit_int", "dead"}
    /\ state[t] = "SLEEPING" => /\ t # Idle
                                /\ pc[t] \in {"sleep_tick", "sleep_int", "run"}
                                /\ t = current /\ isr = "none" => pc[t] # "run"
    /\ pc[t] \in {"create", "link"} => state[t] # "FREE"
    /\ pc[t] \in {"exit_state"} => t \in Workers
    /\ pc[t] \in {"exit_state", "sleep_state"} => state[t] = "RUNNING"

(* The call in progress holds the time asked for; the sleeping threads are *)
(* owed no more than wake_tick says; sched_preempt has looked at wake_tick *)
(* no longer than used ticks ago.                                          *)
TimeInv ==
  \A t \in Threads :
    /\ pc[t] \in {"sleep_state", "sleep_tick"} => arg[t] >= 1 /\ owed[t] <= arg[t]
    /\ state[t] = "SLEEPING" /\ pc[t] # "sleep_tick" => owed[t] <= Floor(left[t], 0)
    /\ state[t] # "SLEEPING" /\ pc[t] # "sleep_state" => owed[t] = 0
    /\ state[t] = "SLEEPING" /\ pc[t] # "sleep_tick" => left[t] >= 1 - used
    /\ state[t] = "SLEEPING" /\ pc[t] # "sleep_tick" =>
         (isr \in {"reap", "pick"} \/ (isr = "none" /\ used = Quantum) => left[t] >= 1)
    /\ t = current /\ state[t] = "SLEEPING" /\ pc[t] # "sleep_tick" => left[t] >= 1
    /\ state[t] # "SLEEPING" \/ pc[t] = "sleep_tick" => left[t] = 0

IInv == /\ TypeOK
        /\ RingShape
        /\ CreateInv
        /\ BootInv
        /\ CpuInv
        /\ ThreadInv
        /\ TimeInv

-----------------------------------------------------------------------------
(* Walks of the ring.                                                      *)

\* A walk meets its first node, and the successor of every node it skips.
LEMMA ReachSelf ==
  ASSUME NEW t \in Threads, NEW Skip \in SUBSET Threads
  PROVE  t \in Reach(t, Skip)
BY DEF Reach

LEMMA ReachStep ==
  ASSUME NEW t \in Threads, NEW Skip \in SUBSET Threads,
         NEW u \in Reach(t, Skip), u \in Skip, next[u] \in Threads
  PROVE  next[u] \in Reach(t, Skip)
BY DEF Reach

\* A walk that starts in a closed set stays in it.
LEMMA ReachWithin ==
  ASSUME NEW L \in SUBSET Threads, Closed(L), NEW t \in L,
         NEW Skip \in SUBSET Threads
  PROVE  Reach(t, Skip) \subseteq L
BY DEF Reach, Closed

\* On a well-formed ring the full walk from any node is the whole ring.
LEMMA ReachRing ==
  ASSUME RingShape, NEW t \in Linked
  PROVE  Reach(t, Threads) = Linked
<1>1. Linked \in SUBSET Threads /\ Closed(Linked)
  BY DEF RingShape, Linked
<1>2. Reach(t, Threads) \subseteq Linked
  BY <1>1, ReachWithin
<1>3. t \in Reach(t, Threads)
  BY <1>1, ReachSelf
<1>4. Closed(Reach(t, Threads))
  <2>1. SUFFICES ASSUME NEW u \in Reach(t, Threads)
                 PROVE  next[u] \in Reach(t, Threads)
    BY DEF Closed
  <2>2. u \in Threads /\ next[u] \in Threads
    BY <1>1, <1>2 DEF Closed
  <2>3. QED
    BY <1>1, <2>2, ReachStep
<1>5. QED
  BY <1>2, <1>3, <1>4 DEF RingShape

\* Some thread other than those in Skip is on the ring: a walk finds one.
LEMMA WalkFinds ==
  ASSUME RingShape, NEW t \in Linked, NEW Wanted \in SUBSET Threads,
         NEW w \in Linked \cap Wanted
  PROVE  Reach(t, Threads \ Wanted) \cap Wanted # {}
<1>1. SUFFICES ASSUME Reach(t, Threads \ Wanted) \cap Wanted = {}
               PROVE  FALSE
  OBVIOUS
<1> DEFINE R == Reach(t, Threads \ Wanted)
<1>2. Linked \in SUBSET Threads /\ Closed(Linked) /\ t \in Threads
  BY DEF RingShape, Linked
<1>3. R \subseteq Linked
  BY <1>2, ReachWithin
<1>4. t \in R
  BY <1>2, ReachSelf
<1>5. Closed(R)
  <2>1. SUFFICES ASSUME NEW u \in R
                 PROVE  next[u] \in R
    BY DEF Closed
  <2>2. u \in Threads \ Wanted /\ next[u] \in Threads
    BY <1>1, <1>2, <1>3 DEF Closed
  <2>3. QED
    BY <1>2, <2>2, ReachStep
<1>6. R = Linked
  BY <1>3, <1>4, <1>5 DEF RingShape
<1>7. QED
  BY <1>1, <1>6

\* What FirstAfter returns is on the ring and wanted.
LEMMA FirstOnRing ==
  ASSUME RingShape, NEW c \in Linked, c = current,
         NEW Wanted \in SUBSET Threads
  PROVE  FirstAfter(Wanted) \subseteq Linked \cap Wanted
<1>1. Linked \in SUBSET Threads /\ Closed(Linked) /\ next[current] \in Linked
  BY DEF RingShape, Linked, Closed
<1>2. QED
  BY <1>1, ReachWithin DEF FirstAfter

-----------------------------------------------------------------------------
(* The invariant holds initially and every action preserves it.            *)

\* A step that leaves the pointers and the set of linked threads alone.
LEMMA RingKept ==
  ASSUME RingShape, Linked' = Linked, UNCHANGED <<next, ring>>
  PROVE  RingShape'
BY DEF RingShape, Closed

\* ring_insert puts n right after ring.
LEMMA RingInserted ==
  ASSUME RingShape, NEW n \in Threads \ Linked, ring # NULL, ring' = ring,
         next'[n] = next[ring], next'[ring] = n,
         \A t \in Linked \ {ring} : next'[t] = next[t],
         Linked' = Linked \cup {n}
  PROVE  RingShape'
<1>1. ring \in Linked /\ next[ring] \in Linked /\ ring # n
  BY DEF RingShape, Closed
<1>2. next'[n] = next[ring] /\ next'[ring] = n
  OBVIOUS
<1>3. \A t \in Linked \ {ring} : next'[t] = next[t]
  OBVIOUS
<1>4. \A S \in SUBSET Linked' : S # {} /\ Closed(S)' => S = Linked'
  <2>1. SUFFICES ASSUME NEW S \in SUBSET Linked', S # {}, Closed(S)'
                 PROVE  S = Linked'
    OBVIOUS
  <2>2. \A t \in S : next'[t] \in S
    BY <2>1 DEF Closed
  <2> DEFINE T == S \ {n}
  <2>3. T \in SUBSET Linked /\ T # {}
    BY <1>1, <1>2, <2>1, <2>2
  <2>4. Closed(T)
    <3>1. SUFFICES ASSUME NEW t \in T
                   PROVE  next[t] \in T
      BY DEF Closed
    <3>2. next[t] \in Linked
      BY <2>3 DEF RingShape, Closed
    <3>3. CASE t = ring
      BY <1>2, <2>2, <3>1, <3>2, <3>3
    <3>4. CASE t # ring
      BY <1>3, <2>2, <2>3, <3>1, <3>2, <3>4
    <3>5. QED
      BY <3>3, <3>4
  <2>5. T = Linked
    BY <2>3, <2>4 DEF RingShape
  <2>6. n \in S
    BY <1>1, <1>2, <2>2, <2>5
  <2>7. QED
    BY <2>5, <2>6
<1>5. \A t \in Linked : next[t] \in Linked
  BY DEF RingShape, Closed
<1>6. Closed(Linked)'
  <2>1. SUFFICES ASSUME NEW t \in Linked'
                 PROVE  next'[t] \in Linked'
    BY DEF Closed
  <2>2. QED
    BY <1>1, <1>2, <1>3, <1>5, <2>1
<1>7. \A t, u \in Linked' : next'[t] = next'[u] => t = u
  <2>1. SUFFICES ASSUME NEW t \in Linked', NEW u \in Linked', next'[t] = next'[u]
                 PROVE  t = u
    OBVIOUS
  <2>2. \A v \in Linked : next[v] # n
    BY <1>5
  <2>3. \A v, w \in Linked : next[v] = next[w] => v = w
    BY DEF RingShape
  <2>4. QED
    BY <1>1, <1>2, <1>3, <2>1, <2>2, <2>3
<1>8. QED
  BY <1>1, <1>4, <1>6, <1>7 DEF RingShape

\* reap_zombies unlinks n, the successor of w.
LEMMA RingRemoved ==
  ASSUME RingShape, NEW w \in Linked, NEW n \in Linked, n = next[w],
         n # ring, ring # NULL, ring' = ring,
         w # n => next'[w] = next[n],
         \A t \in Linked \ {w, n} : next'[t] = next[t],
         Linked' = Linked \ {n}
  PROVE  RingShape' /\ w # n
<1>1. ring \in Linked /\ next[n] \in Linked
  BY DEF RingShape, Closed
<1>2. w # n
  <2>1. SUFFICES ASSUME w = n PROVE FALSE
    OBVIOUS
  <2>2. {n} \in SUBSET Linked /\ {n} # {} /\ Closed({n})
    BY <2>1 DEF Closed
  <2>3. {n} = Linked
    BY <2>2 DEF RingShape
  <2>4. QED
    BY <1>1, <2>3
<1>3. next[n] # n
  BY <1>2 DEF RingShape
<1>4. next'[w] = next[n]
  BY <1>2
<1>5. \A t \in Linked \ {w, n} : next'[t] = next[t]
  OBVIOUS
<1>6. \A t \in Linked \ {w} : next[t] # n
  BY DEF RingShape
<1>7. \A S \in SUBSET Linked' : S # {} /\ Closed(S)' => S = Linked'
  <2>1. SUFFICES ASSUME NEW S \in SUBSET Linked', S # {}, Closed(S)'
                 PROVE  S = Linked'
    OBVIOUS
  <2>2. \A t \in S : next'[t] \in S
    BY <2>1 DEF Closed
  <2>3. CASE w \in S
    <3> DEFINE T == S \cup {n}
    <3>1. next[n] \in S
      BY <1>4, <2>2, <2>3
    <3>2. \A t \in S \ {w} : next[t] \in S
      BY <1>5, <2>1, <2>2
    <3>3. T \in SUBSET Linked /\ T # {} /\ Closed(T)
      BY <2>1, <3>1, <3>2 DEF Closed
    <3>4. T = Linked
      BY <3>3 DEF RingShape
    <3>5. QED
      BY <2>1, <3>4
  <2>4. CASE w \notin S
    <3>1. S \in SUBSET Linked /\ Closed(S)
      BY <1>5, <2>1, <2>2, <2>4 DEF Closed
    <3>2. S = Linked
      BY <2>1, <3>1 DEF RingShape
    <3>3. QED
      BY <2>4, <3>2
  <2>5. QED
    BY <2>3, <2>4
<1>8. \A t \in Linked : next[t] \in Linked
  BY DEF RingShape, Closed
<1>9. Closed(Linked)'
  <2>1. SUFFICES ASSUME NEW t \in Linked'
                 PROVE  next'[t] \in Linked'
    BY DEF Closed
  <2>2. QED
    BY <1>1, <1>3, <1>4, <1>5, <1>6, <1>8, <2>1
<1>10. \A t, u \in Linked' : next'[t] = next'[u] => t = u
  <2>1. SUFFICES ASSUME NEW t \in Linked', NEW u \in Linked', next'[t] = next'[u]
                 PROVE  t = u
    OBVIOUS
  <2>2. \A v, x \in Linked : next[v] = next[x] => v = x
    BY DEF RingShape
  <2>3. QED
    BY <1>4, <1>5, <2>1, <2>2
<1>11. QED
  BY <1>1, <1>2, <1>7, <1>9, <1>10 DEF RingShape

\* The thread that executes is linked, so it is allocated and not under
\* construction, and it is RUNNING unless it has announced its blocking.
LEMMA Executing ==
  ASSUME IInv, NEW c \in Threads, active, isr = "none", c = current
  PROVE  /\ state[c] # "FREE"
         /\ \A d \in Threads : Building(d) => new[d] # c
         /\ pc[c] \notin {"sleep_tick", "sleep_int", "exit_int"} => state[c] = "RUNNING"
<1>1. c \in Linked
  BY DEF IInv, CpuInv
<1>2. state[c] # "FREE" /\ c \notin Pending
  BY <1>1 DEF Linked
<1>3. state[c] # "READY"
  BY DEF IInv, CpuInv
<1>4. QED
  BY <1>2, <1>3 DEF Pending, Building, IInv, ThreadInv, CpuInv, TypeOK, States

LEMMA InitInv == Init => IInv
<1> SUFFICES ASSUME Init PROVE IInv
  OBVIOUS
<1> USE Constants, TimeAssumption DEF Init
<1>1. Linked = {}
  BY DEF Linked
<1>2. TypeOK
  <2>1. 0 \in (-Quantum)..MaxSleep /\ 0 \in 0..Quantum /\ 0 \in 0..MaxSleep
    OBVIOUS
  <2>2. passed \in [Threads -> SUBSET Threads]
    OBVIOUS
  <2>3. QED
    BY <2>1, <2>2 DEF TypeOK, States, Labels, Phases
<1>3. RingShape
  BY <1>1 DEF RingShape, Closed
<1>4. CreateInv /\ BootInv /\ CpuInv
  BY DEF CreateInv, Building, BootInv, CpuInv
<1>5. ThreadInv /\ TimeInv
  BY DEF ThreadInv, TimeInv, Floor
<1>6. QED
  BY <1>2, <1>3, <1>4, <1>5 DEF IInv

LEMMA YieldInv ==
  ASSUME IInv, NEW c \in Threads, Yield(c)
  PROVE  IInv'
<1> USE Constants, TimeAssumption DEF Yield, Exec, SoftInt, IInv
<1>1. TypeOK'
  BY DEF TypeOK, Phases
<1>2. RingShape'
  BY RingKept DEF Linked, Pending
<1>3. CreateInv' /\ BootInv' /\ CpuInv'
  BY DEF CreateInv, Building, BootInv, CpuInv, Linked, Pending, Runnable
<1>4. ThreadInv'
  BY DEF ThreadInv
<1>5. TimeInv'
  BY DEF TimeInv
<1>6. QED
  BY <1>1, <1>2, <1>3, <1>4, <1>5
\* The actions of thread_sleep_ms and thread_exit leave the ring alone.
LEMMA SleepCallInv ==
  ASSUME IInv, NEW c \in Threads, NEW ms \in 1..MaxSleep,
         SleepCall(c, ms)
  PROVE  IInv'
<1> USE Constants, TimeAssumption DEF SleepCall, Exec, Goto, IInv
<1>0. /\ state[c] # "FREE"
      /\ \A d \in Threads : Building(d) => new[d] # c
      /\ pc[c] \notin {"sleep_tick", "sleep_int", "exit_int"} => state[c] = "RUNNING"
  BY Executing
<1>1. TypeOK'
  <2>1. ms \in 0..MaxSleep
    OBVIOUS
  <2>2. QED
    BY <2>1 DEF TypeOK, Phases, Labels, States
<1>2. Linked' = Linked
  BY <1>0 DEF Linked, Pending, TypeOK
<1>3. RingShape'
  BY <1>2, RingKept
<1>4. CreateInv' /\ BootInv'
  BY <1>0 DEF CreateInv, Building, BootInv, ThreadInv, TypeOK
<1>5. CpuInv'
  BY <1>2 DEF CpuInv, Runnable, ThreadInv, TypeOK
<1>6. ThreadInv'
  BY <1>0 DEF ThreadInv, CpuInv, TypeOK
<1>7. TimeInv'
  BY <1>0 DEF TimeInv, ThreadInv, TypeOK, Floor
<1>8. QED
  BY <1>1, <1>3, <1>4, <1>5, <1>6, <1>7

LEMMA SleepStateInv ==
  ASSUME IInv, NEW c \in Threads, SleepState(c)
  PROVE  IInv'
<1> USE Constants, TimeAssumption DEF SleepState, Exec, Goto, IInv
<1>0. /\ state[c] # "FREE"
      /\ \A d \in Threads : Building(d) => new[d] # c
      /\ pc[c] \notin {"sleep_tick", "sleep_int", "exit_int"} => state[c] = "RUNNING"
  BY Executing
<1>1. TypeOK'
  BY DEF TypeOK, Phases, Labels, States
<1>2. Linked' = Linked
  BY <1>0 DEF Linked, Pending, TypeOK
<1>3. RingShape'
  BY <1>2, RingKept
<1>4. CreateInv' /\ BootInv'
  BY <1>0 DEF CreateInv, Building, BootInv, ThreadInv, TypeOK
<1>5. CpuInv'
  BY <1>2 DEF CpuInv, Runnable, ThreadInv, TypeOK
<1>6. ThreadInv'
  BY <1>0 DEF ThreadInv, CpuInv, TypeOK
<1>7. TimeInv'
  BY <1>0 DEF TimeInv, ThreadInv, TypeOK, Floor
<1>8. QED
  BY <1>1, <1>3, <1>4, <1>5, <1>6, <1>7

LEMMA SleepTickInv ==
  ASSUME IInv, NEW c \in Threads, SleepTick(c)
  PROVE  IInv'
<1> USE Constants, TimeAssumption DEF SleepTick, Exec, Goto, IInv
<1>0. /\ state[c] # "FREE"
      /\ \A d \in Threads : Building(d) => new[d] # c
      /\ pc[c] \notin {"sleep_tick", "sleep_int", "exit_int"} => state[c] = "RUNNING"
  BY Executing
<1>1. TypeOK'
  BY DEF TypeOK, Phases, Labels, States
<1>2. Linked' = Linked
  BY <1>0 DEF Linked, Pending, TypeOK
<1>3. RingShape'
  BY <1>2, RingKept
<1>4. CreateInv' /\ BootInv'
  BY <1>0 DEF CreateInv, Building, BootInv, ThreadInv, TypeOK
<1>5. CpuInv'
  BY <1>2 DEF CpuInv, Runnable, ThreadInv, TypeOK
<1>6. ThreadInv'
  BY <1>0 DEF ThreadInv, CpuInv, TypeOK
<1>7. TimeInv'
  BY <1>0 DEF TimeInv, ThreadInv, TypeOK, Floor
<1>8. QED
  BY <1>1, <1>3, <1>4, <1>5, <1>6, <1>7

LEMMA ExitCallInv ==
  ASSUME IInv, NEW c \in Threads, ExitCall(c)
  PROVE  IInv'
<1> USE Constants, TimeAssumption DEF ExitCall, Exec, Goto, IInv
<1>0. /\ state[c] # "FREE"
      /\ \A d \in Threads : Building(d) => new[d] # c
      /\ pc[c] \notin {"sleep_tick", "sleep_int", "exit_int"} => state[c] = "RUNNING"
  BY Executing
<1>1. TypeOK'
  BY DEF TypeOK, Phases, Labels, States
<1>2. Linked' = Linked
  BY <1>0 DEF Linked, Pending, TypeOK
<1>3. RingShape'
  BY <1>2, RingKept
<1>4. CreateInv' /\ BootInv'
  BY <1>0 DEF CreateInv, Building, BootInv, ThreadInv, TypeOK
<1>5. CpuInv'
  BY <1>2 DEF CpuInv, Runnable, ThreadInv, TypeOK
<1>6. ThreadInv'
  BY <1>0 DEF ThreadInv, CpuInv, TypeOK
<1>7. TimeInv'
  BY <1>0 DEF TimeInv, ThreadInv, TypeOK, Floor
<1>8. QED
  BY <1>1, <1>3, <1>4, <1>5, <1>6, <1>7

LEMMA ExitStateInv ==
  ASSUME IInv, NEW c \in Threads, ExitState(c)
  PROVE  IInv'
<1> USE Constants, TimeAssumption DEF ExitState, Exec, Goto, IInv
<1>0. /\ state[c] # "FREE"
      /\ \A d \in Threads : Building(d) => new[d] # c
      /\ pc[c] \notin {"sleep_tick", "sleep_int", "exit_int"} => state[c] = "RUNNING"
  BY Executing
<1>1. TypeOK'
  BY DEF TypeOK, Phases, Labels, States
<1>2. Linked' = Linked
  BY <1>0 DEF Linked, Pending, TypeOK
<1>3. RingShape'
  BY <1>2, RingKept
<1>4. CreateInv' /\ BootInv'
  BY <1>0 DEF CreateInv, Building, BootInv, ThreadInv, TypeOK
<1>5. CpuInv'
  BY <1>2 DEF CpuInv, Runnable, ThreadInv, TypeOK
<1>6. ThreadInv'
  BY <1>0 DEF ThreadInv, CpuInv, TypeOK
<1>7. TimeInv'
  BY <1>0 DEF TimeInv, ThreadInv, TypeOK, Floor
<1>8. QED
  BY <1>1, <1>3, <1>4, <1>5, <1>6, <1>7

LEMMA SleepIntInv ==
  ASSUME IInv, NEW c \in Threads, SleepInt(c)
  PROVE  IInv'
<1> USE Constants, TimeAssumption DEF SleepInt, Exec, Goto, SoftInt, IInv
<1>0. /\ state[c] # "FREE"
      /\ \A d \in Threads : Building(d) => new[d] # c
      /\ pc[c] \notin {"sleep_tick", "sleep_int", "exit_int"} => state[c] = "RUNNING"
  BY Executing
<1>1. TypeOK'
  BY DEF TypeOK, Phases, Labels, States
<1>2. Linked' = Linked
  BY <1>0 DEF Linked, Pending, TypeOK
<1>3. RingShape'
  BY <1>2, RingKept
<1>4. CreateInv' /\ BootInv'
  BY <1>0 DEF CreateInv, Building, BootInv, ThreadInv, TypeOK
<1>5. CpuInv'
  BY <1>2 DEF CpuInv, Runnable, ThreadInv, TypeOK
<1>6. ThreadInv'
  BY <1>0 DEF ThreadInv, CpuInv, TypeOK
<1>7. TimeInv'
  BY <1>0 DEF TimeInv, ThreadInv, TypeOK, Floor
<1>8. QED
  BY <1>1, <1>3, <1>4, <1>5, <1>6, <1>7

LEMMA ExitIntInv ==
  ASSUME IInv, NEW c \in Threads, ExitInt(c)
  PROVE  IInv'
<1> USE Constants, TimeAssumption DEF ExitInt, Exec, Goto, SoftInt, IInv
<1>0. /\ state[c] # "FREE"
      /\ \A d \in Threads : Building(d) => new[d] # c
      /\ pc[c] \notin {"sleep_tick", "sleep_int", "exit_int"} => state[c] = "RUNNING"
  BY Executing
<1>1. TypeOK'
  BY DEF TypeOK, Phases, Labels, States
<1>2. Linked' = Linked
  BY <1>0 DEF Linked, Pending, TypeOK
<1>3. RingShape'
  BY <1>2, RingKept
<1>4. CreateInv' /\ BootInv'
  BY <1>0 DEF CreateInv, Building, BootInv, ThreadInv, TypeOK
<1>5. CpuInv'
  BY <1>2 DEF CpuInv, Runnable, ThreadInv, TypeOK
<1>6. ThreadInv'
  BY <1>0 DEF ThreadInv, CpuInv, TypeOK
<1>7. TimeInv'
  BY <1>0 DEF TimeInv, ThreadInv, TypeOK, Floor
<1>8. QED
  BY <1>1, <1>3, <1>4, <1>5, <1>6, <1>7

-----------------------------------------------------------------------------
(* Creation.                                                               *)

LEMMA BootCreateInv ==
  ASSUME IInv, NEW t \in Daemons, BootCreate(t)
  PROVE  IInv'
<1> USE Constants, TimeAssumption DEF BootCreate, Insert, IInv
<1>0. Pending = {} /\ Pending' = {}
  BY DEF Pending, BootInv
<1>1. TypeOK'
  <2>1. ring # NULL => next[ring] \in Threads
    BY DEF RingShape, Closed, Linked
  <2>2. QED
    BY <2>1 DEF TypeOK, States
<1>2. Linked' = Linked \cup {t} /\ t \in Threads \ Linked
  BY <1>0 DEF Linked, TypeOK
<1>3. RingShape'
  <2>1. CASE ring # NULL
    <3>1. /\ next'[t] = next[ring] /\ next'[ring] = t
          /\ \A u \in Linked \ {ring} : next'[u] = next[u]
      BY <1>2, <2>1 DEF TypeOK, RingShape, Linked
    <3>2. QED
      BY <1>2, <2>1, <3>1, RingInserted
  <2>2. CASE ring = NULL
    <3>1. Linked' = {t} /\ ring' = t /\ next'[t] = t
      BY <1>2, <2>2 DEF RingShape, TypeOK
    <3>2. QED
      BY <3>1 DEF RingShape, Closed
  <2>3. QED
    BY <2>1, <2>2
<1>4. CreateInv' /\ BootInv' /\ CpuInv'
  BY DEF CreateInv, Building, BootInv, CpuInv, TypeOK
<1>5. ThreadInv'
  BY DEF ThreadInv, BootInv, TypeOK
<1>6. TimeInv'
  BY DEF TimeInv, BootInv, TypeOK, Floor
<1>7. QED
  BY <1>1, <1>3, <1>4, <1>5, <1>6

LEMMA SchedStartInv ==
  ASSUME IInv, SchedStart
  PROVE  IInv'
<1> USE Constants, TimeAssumption DEF SchedStart, Insert, IInv
<1>0. /\ Pending = {} /\ Pending' = {}
      /\ ring # NULL
      /\ state[Idle] = "FREE"
  BY DEF Pending, BootInv, Linked, RingShape
<1>1. TypeOK'
  <2>1. next[ring] \in Threads
    BY <1>0 DEF RingShape, Closed, Linked
  <2>2. QED
    BY <1>0, <2>1 DEF TypeOK, States
<1>2. Linked' = Linked \cup {Idle} /\ Idle \in Threads \ Linked
  BY <1>0 DEF Linked, TypeOK
<1>3. RingShape'
  <2>1. /\ next'[Idle] = next[ring] /\ next'[ring] = Idle
        /\ \A u \in Linked \ {ring} : next'[u] = next[u]
    BY <1>0, <1>2 DEF TypeOK, RingShape, Linked
  <2>2. QED
    BY <1>0, <1>2, <2>1, RingInserted
<1>4. CreateInv' /\ BootInv'
  BY <1>0 DEF CreateInv, Building, BootInv, TypeOK
<1>5. CpuInv'
  <2>1. pc[Idle] = "run" /\ iflag /\ state'[Idle] = "RUNNING"
    BY DEF BootInv, TypeOK
  <2>2. QED
    BY <1>0, <1>2, <2>1 DEF CpuInv, BootInv, Runnable
<1>6. ThreadInv'
  BY <1>0 DEF ThreadInv, BootInv, TypeOK
<1>7. TimeInv'
  BY <1>0 DEF TimeInv, BootInv, TypeOK, Floor
<1>8. QED
  BY <1>1, <1>3, <1>4, <1>5, <1>6, <1>7

LEMMA CreateAllocInv ==
  ASSUME IInv, NEW c \in Threads, NEW t \in Workers, CreateAlloc(c, t)
  PROVE  IInv'
<1> USE Constants, TimeAssumption DEF CreateAlloc, Exec, IInv
<1>0. /\ state[c] = "RUNNING" /\ c # t
      /\ \A d \in Threads : Building(d) => new[d] # c /\ new[d] # t
      /\ ~Building(c) /\ ~Building(t) /\ new[t] = NULL
  BY Executing DEF CreateInv, Building, ThreadInv
<1>1. TypeOK'
  <2>1. 0 \in (-Quantum)..MaxSleep
    OBVIOUS
  <2>2. QED
    BY <2>1 DEF TypeOK, States, Labels
<1>2. Pending' = Pending \cup {t} /\ t \notin Pending
  BY <1>0 DEF Pending, Building, TypeOK
<1>3. Linked' = Linked
  BY <1>0, <1>2 DEF Linked, TypeOK
<1>4. RingShape'
  BY <1>3, RingKept
<1>5. CreateInv' /\ BootInv'
  BY <1>0 DEF CreateInv, Building, BootInv, TypeOK
<1>6. CpuInv'
  BY <1>0, <1>3 DEF CpuInv, Runnable, TypeOK
<1>7. ThreadInv'
  BY <1>0 DEF ThreadInv, TypeOK
<1>8. TimeInv'
  BY <1>0 DEF TimeInv, ThreadInv, TypeOK, Floor
<1>9. QED
  BY <1>1, <1>4, <1>5, <1>6, <1>7, <1>8

LEMMA InsertNodeInv ==
  ASSUME IInv, NEW c \in Threads, InsertNode(c)
  PROVE  IInv'
<1> USE Constants, TimeAssumption DEF InsertNode, Exec, Goto, IInv
<1>0. /\ state[c] = "RUNNING" /\ Building(c)
      /\ new[c] \in Workers /\ new[c] \notin Linked
      /\ \A d \in Threads : Building(d) => new[d] # c
      /\ ring \in Linked /\ next[ring] \in Linked
  BY Executing DEF CreateInv, Building, Linked, Pending, RingShape, Closed, CpuInv
<1>1. TypeOK'
  BY <1>0 DEF TypeOK, Labels, Linked
<1>2. Linked' = Linked
  BY <1>0 DEF Linked, Pending, Building, TypeOK
<1>3. \A t \in Linked : next'[t] = next[t]
  BY <1>0 DEF TypeOK, Linked
<1>4. RingShape'
  BY <1>2, <1>3 DEF RingShape, Closed
<1>5. CreateInv' /\ BootInv'
  <2>1. next'[new[c]] = next'[ring]
    BY <1>0, <1>3 DEF TypeOK
  <2>2. \A d \in Threads : pc[d] # "link"
    BY DEF ThreadInv
  <2>3. QED
    BY <1>0, <2>1, <2>2 DEF CreateInv, Building, BootInv, TypeOK
<1>6. CpuInv'
  BY <1>0, <1>2 DEF CpuInv, Runnable, TypeOK
<1>7. ThreadInv'
  BY <1>0 DEF ThreadInv, TypeOK
<1>8. TimeInv'
  BY <1>0 DEF TimeInv, ThreadInv, TypeOK, Floor
<1>9. QED
  BY <1>1, <1>4, <1>5, <1>6, <1>7, <1>8

LEMMA InsertLinkInv ==
  ASSUME IInv, NEW c \in Threads, InsertLink(c)
  PROVE  IInv'
<1> USE Constants, TimeAssumption DEF InsertLink, Exec, Goto, IInv
<1>0. /\ state[c] = "RUNNING" /\ Building(c)
      /\ new[c] \in Workers /\ new[c] \in Threads \ Linked
      /\ \A d \in Threads : Building(d) => new[d] # c /\ (new[d] = new[c] => d = c)
      /\ ring \in Linked /\ next[new[c]] = next[ring] /\ ring # NULL
      /\ state[new[c]] = "READY" /\ pc[new[c]] = "run"
  BY Executing DEF CreateInv, Building, Linked, Pending, RingShape, CpuInv
<1>1. TypeOK'
  BY <1>0 DEF TypeOK, Labels
<1>2. Pending' = Pending \ {new[c]} /\ new[c] \in Pending
  BY <1>0 DEF Pending, Building, TypeOK
<1>3. Linked' = Linked \cup {new[c]}
  BY <1>0, <1>2 DEF Linked
<1>4. RingShape'
  <2>1. /\ next'[new[c]] = next[ring] /\ next'[ring] = new[c]
        /\ \A u \in Linked \ {ring} : next'[u] = next[u]
    BY <1>0 DEF TypeOK, Linked
  <2>2. QED
    BY <1>0, <1>3, <2>1, RingInserted
<1>5. CreateInv' /\ BootInv'
  <2>1. \A d \in Threads \ {c} : pc[d] # "link"
    BY DEF ThreadInv
  <2>2. QED
    BY <1>0, <2>1 DEF CreateInv, Building, BootInv, TypeOK
<1>6. CpuInv'
  BY <1>0, <1>3 DEF CpuInv, Runnable, TypeOK
<1>7. ThreadInv'
  BY <1>0 DEF ThreadInv, TypeOK
<1>8. TimeInv'
  BY <1>0 DEF TimeInv, ThreadInv, TypeOK, Floor
<1>9. QED
  BY <1>1, <1>4, <1>5, <1>6, <1>7, <1>8

-----------------------------------------------------------------------------
(* The interrupt handlers.                                                 *)

LEMMA TickInv ==
  ASSUME IInv, Tick
  PROVE  IInv'
<1> USE Constants, TimeAssumption DEF Tick, QuantumLeft, SoftInt, IInv
<1>0. /\ current \in Threads /\ pc[current] \in {"run", "create"}
      /\ iflag' \in BOOLEAN /\ isr' \in {"none", "wake"}
      /\ isr' = "none" <=> iflag'
      /\ isr' = "none" => used + 1 < Quantum
      /\ used' = Ceil(used + 1, Quantum)
  BY DEF CpuInv, Linked
<1>1. TypeOK'
  <2>1. left' \in [Threads -> (-Quantum)..MaxSleep]
    <3>1. \A t \in Threads : left[t] \in (-Quantum)..MaxSleep
      BY DEF TypeOK
    <3>2. QED
      BY <3>1 DEF Floor
  <2>2. owed' \in [Threads -> 0..MaxSleep]
    <3>1. \A t \in Threads : owed[t] \in 0..MaxSleep
      BY DEF TypeOK
    <3>2. QED
      BY <3>1 DEF Floor
  <2>3. used' \in 0..Quantum
    BY <1>0 DEF TypeOK, Ceil
  <2>4. QED
    BY <1>0, <2>1, <2>2, <2>3 DEF TypeOK, Phases
<1>2. Linked' = Linked
  BY DEF Linked, Pending
<1>3. RingShape'
  BY <1>2, RingKept
<1>4. CreateInv' /\ BootInv' /\ CpuInv'
  BY <1>0, <1>2 DEF CreateInv, Building, BootInv, CpuInv, Runnable, TypeOK
<1>5. ThreadInv'
  BY <1>0 DEF ThreadInv
<1>6. TimeInv'
  <2>1. SUFFICES ASSUME NEW t \in Threads
                 PROVE  TimeInv!(t)'
    BY DEF TimeInv
  <2>2. /\ left[t] \in (-Quantum)..MaxSleep /\ used \in 0..Quantum
        /\ owed[t] \in 0..MaxSleep /\ arg[t] \in 0..MaxSleep
    BY DEF TypeOK
  <2>3. QED
    BY <1>0, <2>2 DEF TimeInv, ThreadInv, Floor, Ceil
<1>7. QED
  BY <1>1, <1>3, <1>4, <1>5, <1>6

LEMMA WakeInv ==
  ASSUME IInv, Wake
  PROVE  IInv'
<1> USE Constants, TimeAssumption DEF Wake, Due, IInv
<1> DEFINE due == {t \in Threads : state[t] = "SLEEPING" /\ left[t] <= 0}
<1>0. active /\ ring \in Linked /\ ring # NULL /\ current \in Linked
  BY DEF BootInv, CpuInv, RingShape
<1>1. /\ state' = [t \in Threads |-> IF t \in due THEN "READY" ELSE state[t]]
      /\ left' = [t \in Threads |-> IF t \in due THEN 0 ELSE left[t]]
  <2>1. Reach(current, Threads) = Linked
    BY <1>0, ReachRing
  <2>2. \A t \in Threads : state[t] = "SLEEPING" => t \in Linked
    BY DEF Linked, Pending, CreateInv, Building
  <2>3. {t \in Reach(current, Threads) : state[t] = "SLEEPING" /\ left[t] <= 0} = due
    BY <2>1, <2>2 DEF Linked
  <2>4. QED
    BY <2>3
<1> HIDE DEF due
<1>2. \A t \in due : t \in Threads /\ state[t] = "SLEEPING" /\ left[t] <= 0 /\ t # current /\ pc[t] = "run"
  <2>1. SUFFICES ASSUME NEW t \in due
                 PROVE  t \in Threads /\ state[t] = "SLEEPING" /\ left[t] <= 0 /\ t # current /\ pc[t] = "run"
    OBVIOUS
  <2>2. t \in Threads /\ state[t] = "SLEEPING" /\ left[t] <= 0 /\ left[t] \in (-Quantum)..MaxSleep
    BY DEF due, TypeOK
  <2>3. pc[t] \in {"run", "create", "dead"}
    BY <1>0, <2>2 DEF ThreadInv, CpuInv
  <2>4. pc[t] = "run"
    BY <2>2, <2>3 DEF ThreadInv
  <2>5. t # current
    BY <2>2, <2>4 DEF TimeInv
  <2>6. QED
    BY <2>2, <2>4, <2>5
<1>3. TypeOK'
  <2>1. 0 \in (-Quantum)..MaxSleep
    OBVIOUS
  <2>2. QED
    BY <1>0, <1>1, <2>1 DEF TypeOK, Phases, States
<1>4. Linked' = Linked
  BY <1>1, <1>2 DEF Linked, Pending, TypeOK
<1>5. RingShape'
  BY <1>4, RingKept
<1>6. CreateInv' /\ BootInv'
  BY <1>0, <1>1, <1>2 DEF CreateInv, Building, BootInv
<1>7. CpuInv'
  BY <1>0, <1>1, <1>2, <1>4 DEF CpuInv, Runnable, ThreadInv, Linked
<1>8. ThreadInv'
  BY <1>1, <1>2 DEF ThreadInv
<1>9. TimeInv'
  <2>1. SUFFICES ASSUME NEW t \in Threads
                 PROVE  TimeInv!(t)'
    BY DEF TimeInv
  <2>2. /\ left[t] \in (-Quantum)..MaxSleep /\ owed[t] \in 0..MaxSleep
        /\ used \in 0..Quantum
    BY DEF TypeOK
  <2>3. QED
    BY <1>1, <1>2, <2>2 DEF due, TimeInv, ThreadInv, Floor
<1>10. QED
  BY <1>3, <1>5, <1>6, <1>7, <1>8, <1>9

LEMMA ReapInv ==
  ASSUME IInv, Reap
  PROVE  IInv'
<1> USE Constants, TimeAssumption DEF Reap, IInv
<1> DEFINE n == next[walk]
<1>0. /\ active /\ ring # NULL /\ walk \in Linked /\ n \in Linked
      /\ next[n] \in Linked /\ current \in Linked /\ Linked \subseteq Threads
  BY DEF BootInv, CpuInv, RingShape, Closed, Linked
<1> HIDE DEF n
<1>1. CASE Reapable(n)
  <2>0. /\ next' = [next EXCEPT ![walk] = next[n], ![n] = NULL]
        /\ state' = [state EXCEPT ![n] = "FREE"]
        /\ passed' = [t \in Threads |-> passed[t] \ {n}]
        /\ walk' = walk
        /\ isr' \in {"reap", "pick"}
    BY <1>1 DEF n
  <2>a. /\ n \in Workers /\ n # current /\ n # ring /\ state[n] = "ZOMBIE"
        /\ \A c \in Threads : Building(c) => new[c] # n
    BY <1>0, <1>1 DEF Reapable, ThreadInv, CreateInv
  <2>1. TypeOK'
    BY <1>0, <2>0, <2>a DEF TypeOK, States, Phases
  <2>2. Linked' = Linked \ {n}
    BY <2>0, <2>a DEF Linked, Pending, Building, TypeOK
  <2>3. RingShape' /\ walk # n
    <3>1. /\ walk # n => next'[walk] = next[n]
          /\ \A t \in Linked \ {walk, n} : next'[t] = next[t]
      BY <1>0, <2>0, <2>a DEF TypeOK
    <3>2. n = next[walk]
      BY DEF n
    <3>3. QED
      BY <1>0, <2>0, <2>a, <2>2, <3>1, <3>2, RingRemoved
  <2>4. CreateInv' /\ BootInv'
    <3>1. \A c \in Threads : pc[c] # "link"
      BY <1>0 DEF ThreadInv, CpuInv, Linked
    <3>2. QED
      BY <1>0, <2>0, <2>a, <3>1 DEF CreateInv, Building, BootInv, TypeOK
  <2>5. CpuInv'
    BY <1>0, <2>0, <2>a, <2>2, <2>3 DEF CpuInv, Runnable, TypeOK
  <2>6. ThreadInv'
    BY <1>0, <2>0, <2>a DEF ThreadInv, TypeOK, Building
  <2>7. TimeInv'
    BY <1>0, <2>0, <2>a DEF TimeInv, ThreadInv, TypeOK, Floor
  <2>8. QED
    BY <2>1, <2>3, <2>4, <2>5, <2>6, <2>7
<1>2. CASE ~Reapable(n)
  <2>0. /\ UNCHANGED <<next, state, passed>>
        /\ walk' = n
        /\ isr' \in {"reap", "pick"}
    BY <1>2 DEF n
  <2>1. TypeOK'
    BY <1>0, <2>0 DEF TypeOK, Phases
  <2>2. Linked' = Linked
    BY <2>0 DEF Linked, Pending
  <2>3. RingShape'
    BY <2>0, <2>2, RingKept
  <2>4. CreateInv' /\ BootInv' /\ CpuInv'
    BY <1>0, <2>0, <2>2 DEF CreateInv, Building, BootInv, CpuInv, Runnable
  <2>5. ThreadInv' /\ TimeInv'
    BY <1>0, <2>0 DEF ThreadInv, TimeInv
  <2>6. QED
    BY <2>1, <2>3, <2>4, <2>5
<1>3. QED
  BY <1>1, <1>2

\* Whatever sched_preempt chooses is on the ring and runnable, and because
\* Idle is both, it always chooses something.
LEMMA ChoicesOnRing ==
  ASSUME IInv, active
  PROVE  /\ Choices \subseteq {t \in Linked : Runnable(t)}
         /\ Choices # {}
<1> USE Constants DEF IInv
<1> DEFINE busy == {t \in Clients : Runnable(t)}
           any  == {t \in Threads : Runnable(t)}
<1>1. current \in Linked /\ RingShape /\ next[current] \in Linked
  BY DEF CpuInv, RingShape, Closed
<1>2. busy \in SUBSET Threads /\ any \in SUBSET Threads
  OBVIOUS
<1>3. /\ FirstAfter(busy) \subseteq Linked \cap busy
      /\ FirstAfter(any) \subseteq Linked \cap any
  BY <1>1, <1>2, FirstOnRing
<1>4. FirstAfter(any) # {}
  <2>1. Idle \in Linked \cap any
    BY DEF CpuInv
  <2>2. QED
    BY <1>1, <1>2, <2>1, WalkFinds DEF FirstAfter
<1>5. QED
  BY <1>3, <1>4 DEF Choices

LEMMA SwitchInv ==
  ASSUME IInv, NEW t \in Threads, Switch(t)
  PROVE  IInv'
<1> USE Constants, TimeAssumption DEF Switch, IInv
<1>0. /\ active /\ current \in Linked /\ current \in Threads /\ ring # NULL
      /\ t \in Linked /\ state[t] = "READY" /\ t # current
      /\ pc[current] \in {"run", "create", "dead"}
      /\ state[current] # "FREE" /\ Idle \in Linked
      /\ \A c \in Threads : Building(c) => new[c] # t /\ new[c] # current
  <2>1. active
    BY DEF BootInv
  <2>2. t \in Linked /\ Runnable(t) /\ t # current
    BY <2>1, ChoicesOnRing
  <2>3. current \in Linked /\ ring # NULL /\ pc[current] \in {"run", "create", "dead"} /\ Idle \in Linked
    BY <2>1 DEF CpuInv
  <2>4. QED
    BY <2>1, <2>2, <2>3 DEF Runnable, ThreadInv, Linked, Pending, Building
<1>1. pc[t] \in {"run", "create"}
  BY <1>0 DEF ThreadInv
<1>2. /\ state' \in [Threads -> States]
      /\ state'[t] = "RUNNING"
      /\ state'[current] = IF state[current] = "RUNNING" THEN "READY" ELSE state[current]
      /\ \A u \in Threads \ {t, current} : state'[u] = state[u]
  BY <1>0 DEF TypeOK, States
<1>3. TypeOK'
  <2>1. 0 \in 0..Quantum
    OBVIOUS
  <2>2. passed' \in [Threads -> SUBSET Threads]
    BY DEF TypeOK
  <2>3. QED
    BY <1>2, <2>1, <2>2 DEF TypeOK, Phases
<1>4. Linked' = Linked
  BY <1>0, <1>2 DEF Linked, Pending
<1>5. RingShape'
  BY <1>4, RingKept
<1>6. CreateInv' /\ BootInv'
  BY <1>0, <1>2 DEF CreateInv, Building, BootInv
<1>7. CpuInv'
  <2>1. Runnable(Idle)'
    BY <1>0, <1>2 DEF CpuInv, Runnable
  <2>2. QED
    BY <1>0, <1>1, <1>2, <1>4, <2>1 DEF CpuInv
<1>8. ThreadInv'
  <2>1. SUFFICES ASSUME NEW u \in Threads
                 PROVE  ThreadInv!(u)'
    BY DEF ThreadInv
  <2>2. CASE u = t
    BY <1>0, <1>1, <1>2, <2>2 DEF ThreadInv
  <2>3. CASE u = current
    BY <1>0, <1>2, <2>3 DEF ThreadInv
  <2>4. CASE u \notin {t, current}
    BY <1>0, <1>2, <2>4 DEF ThreadInv
  <2>5. QED
    BY <2>2, <2>3, <2>4
<1>9. TimeInv'
  <2>1. SUFFICES ASSUME NEW u \in Threads
                 PROVE  TimeInv!(u)'
    BY DEF TimeInv
  <2>2. /\ left[u] \in (-Quantum)..MaxSleep /\ owed[u] \in 0..MaxSleep
        /\ used' = 0 /\ isr' = "none" /\ isr = "pick"
    BY DEF TypeOK
  <2>3. state'[u] = "SLEEPING" <=> state[u] = "SLEEPING"
    BY <1>0, <1>2
  <2>4. u # current => pc[u] \notin {"sleep_state", "sleep_tick"}
    BY DEF ThreadInv
  <2>5. QED
    BY <1>0, <1>1, <2>2, <2>3, <2>4 DEF TimeInv, Floor
<1>10. QED
  BY <1>3, <1>5, <1>6, <1>7, <1>8, <1>9

LEMMA StayInv ==
  ASSUME IInv, Stay
  PROVE  IInv'
<1> USE Constants, TimeAssumption DEF Stay, IInv
<1>0. active /\ current \in Linked /\ current \in Threads
  BY DEF BootInv, CpuInv, Linked
<1>1. state[current] = "RUNNING"
  BY <1>0, ChoicesOnRing DEF Runnable, CpuInv
<1>2. pc[current] \in {"run", "create"}
  BY <1>0, <1>1 DEF CpuInv, ThreadInv
<1>3. TypeOK'
  BY DEF TypeOK, Phases
<1>4. Linked' = Linked
  BY DEF Linked, Pending
<1>5. RingShape'
  BY <1>4, RingKept
<1>6. CreateInv' /\ BootInv' /\ CpuInv'
  BY <1>0, <1>2, <1>4 DEF CreateInv, Building, BootInv, CpuInv, Runnable
<1>7. ThreadInv'
  BY <1>1 DEF ThreadInv
<1>8. TimeInv'
  BY DEF TimeInv
<1>9. QED
  BY <1>3, <1>5, <1>6, <1>7, <1>8

LEMMA StutterInv ==
  ASSUME IInv, UNCHANGED vars
  PROVE  IInv'
<1> USE DEF vars, IInv
<1>1. TypeOK' /\ ThreadInv' /\ TimeInv'
  BY DEF TypeOK, ThreadInv, TimeInv
<1>2. Linked' = Linked
  BY DEF Linked, Pending
<1>3. RingShape'
  BY <1>2, RingKept
<1>4. CreateInv' /\ BootInv' /\ CpuInv'
  BY <1>2 DEF CreateInv, Building, BootInv, CpuInv, Runnable
<1>5. QED
  BY <1>1, <1>3, <1>4

LEMMA NextInv == IInv /\ [Next]_vars => IInv'
<1> SUFFICES ASSUME IInv, [Next]_vars
             PROVE  IInv'
  OBVIOUS
<1>1. ASSUME NEW t \in Daemons, BootCreate(t)
      PROVE  IInv'
  BY <1>1, BootCreateInv
<1>2. CASE SchedStart
  BY <1>2, SchedStartInv
<1>3. ASSUME NEW c \in Threads, ThreadStep(c)
      PROVE  IInv'
  <2>1. CASE Yield(c)
    BY <2>1, YieldInv
  <2>2. ASSUME NEW t \in Workers, CreateAlloc(c, t)
        PROVE  IInv'
    BY <2>2, CreateAllocInv
  <2>3. CASE InsertNode(c)
    BY <2>3, InsertNodeInv
  <2>4. ASSUME NEW ms \in 1..MaxSleep, SleepCall(c, ms)
        PROVE  IInv'
    BY <2>4, SleepCallInv
  <2>5. CASE ExitCall(c)
    BY <2>5, ExitCallInv
  <2>6. CASE Critical(c)
    BY <2>6, InsertLinkInv, SleepStateInv, SleepTickInv, SleepIntInv,
       ExitStateInv, ExitIntInv DEF Critical
  <2>7. QED
    BY <1>3, <2>1, <2>2, <2>3, <2>4, <2>5, <2>6 DEF ThreadStep
<1>4. CASE Tick
  BY <1>4, TickInv
<1>5. CASE Isr
  BY <1>5, WakeInv, ReapInv, SwitchInv, StayInv DEF Isr
<1>6. CASE UNCHANGED vars
  BY <1>6, StutterInv
<1>7. QED
  BY <1>1, <1>2, <1>3, <1>4, <1>5, <1>6 DEF Next

\* The invariant the safety theorems rest on.
THEOREM Invariance == Spec => []IInv
<1>1. QED
  BY InitInv, NextInv, PTL DEF Spec

-----------------------------------------------------------------------------
(* The theorems.                                                           *)

\* Every variable of the scheduler keeps its type (the structs and pointers
\* of sched.c:28-44).
THEOREM TypeCorrect == Spec => []TypeOK
<1>1. IInv => TypeOK
  BY DEF IInv
<1>2. QED
  BY <1>1, Invariance, PTL

\* ring_insert and reap_zombies keep the ring one cycle of live threads with
\* the CPU's thread on it, for any number of threads created and reaped.
THEOREM RingIsSound == Spec => []RingIntegrity
<1>1. IInv => RingIntegrity
  <2>1. SUFFICES ASSUME IInv, active
                 PROVE  /\ Reach(ring, Threads) = Linked
                        /\ current \in Linked
                        /\ isr = "reap" => walk \in Linked
    BY DEF RingIntegrity
  <2>2. ring \in Linked /\ RingShape
    BY <2>1 DEF IInv, CpuInv, RingShape
  <2>3. QED
    BY <2>1, <2>2, ReachRing DEF IInv, CpuInv
<1>2. QED
  BY <1>1, Invariance, PTL

\* The thread on the CPU is the only one RUNNING: sched_preempt never returns
\* to a thread that sleeps or has exited (the remark at sched.c:239-240).
THEOREM OneThreadRuns == Spec => []OneRunning
<1>1. IInv => OneRunning
  <2>1. SUFFICES ASSUME IInv, active
                 PROVE  /\ \A t \in Threads : state[t] = "RUNNING" => t = current
                        /\ isr = "none" =>
                             state[current] = CASE pc[current] \in {"sleep_tick", "sleep_int"} -> "SLEEPING"
                                                [] pc[current] = "exit_int" -> "ZOMBIE"
                                                [] OTHER -> "RUNNING"
    BY DEF OneRunning
  <2>2. \A t \in Threads : state[t] = "RUNNING" => t = current
    BY <2>1 DEF IInv, ThreadInv
  <2>3. ASSUME isr = "none"
        PROVE  state[current] = CASE pc[current] \in {"sleep_tick", "sleep_int"} -> "SLEEPING"
                                  [] pc[current] = "exit_int" -> "ZOMBIE"
                                  [] OTHER -> "RUNNING"
    <3>1. current \in Threads
      BY <2>1 DEF IInv, CpuInv, Linked
    <3>2. pc[current] \notin {"sleep_tick", "sleep_int", "exit_int"} => state[current] = "RUNNING"
      BY <2>1, <2>3, <3>1, Executing
    <3>3. /\ pc[current] \in {"sleep_tick", "sleep_int"} => state[current] = "SLEEPING"
          /\ pc[current] = "exit_int" => state[current] = "ZOMBIE"
      BY <2>1, <3>1 DEF IInv, ThreadInv
    <3>4. QED
      BY <3>2, <3>3
  <2>4. QED
    BY <2>2, <2>3
<1>2. QED
  BY <1>1, Invariance, PTL

\* Types, the ring and the one running thread: the invariant that TLC checks.
THEOREM SchedInvariant == Spec => []Inv
  BY TypeCorrect, RingIsSound, OneThreadRuns, PTL DEF Inv

\* thread_sleep_ms never returns early, for every sleep length.
THEOREM SleepsLongEnough == Spec => []NoEarlyReturn
<1>1. IInv => NoEarlyReturn
  <2>1. SUFFICES ASSUME IInv, active, isr = "none", pc[current] = "run"
                 PROVE  owed[current] = 0
    BY DEF NoEarlyReturn
  <2>2. current \in Threads
    BY <2>1 DEF IInv, CpuInv, Linked
  <2>3. QED
    BY <2>1, <2>2, Executing DEF IInv, TimeInv
<1>2. QED
  BY <1>1, Invariance, PTL

\* A sleeper is woken less than a quantum late, for every quantum.
THEOREM SleepsNotTooLong == Spec => []PromptWake
<1>1. IInv => PromptWake
  <2>1. SUFFICES ASSUME IInv, NEW t \in Threads, state[t] = "SLEEPING",
                        pc[t] # "sleep_tick", isr = "none"
                 PROVE  left[t] > 1 - Quantum
    BY DEF PromptWake
  <2>2. left[t] \in (-Quantum)..MaxSleep /\ used \in 0..Quantum
    BY <2>1 DEF IInv, TypeOK
  <2>3. QED
    BY <2>1, <2>2, TimeAssumption DEF IInv, TimeInv
<1>2. QED
  BY <1>1, Invariance, PTL

\* Both bounds of thread_sleep_ms, as TLC checks them.
THEOREM SleepsRight == Spec => []SleepTimes
  BY SleepsLongEnough, SleepsNotTooLong, PTL DEF SleepTimes

\* A thread that has called thread_exit never runs again, and is not freed
\* while the CPU is on its stack.
THEOREM ExitsAreFinal == Spec => ExitIsFinal
<1> DEFINE Final == \A t \in Threads :
                      state[t] = "ZOMBIE" => /\ state'[t] \in {"ZOMBIE", "FREE"}
                                             /\ state'[t] = "FREE" => current' # t
                                             /\ current' = t => current = t
<1>1. IInv /\ [Next]_vars => [Final]_vars
  <2> SUFFICES ASSUME IInv, Next, NEW t \in Threads, state[t] = "ZOMBIE"
               PROVE  /\ state'[t] \in {"ZOMBIE", "FREE"}
                      /\ state'[t] = "FREE" => current' # t
                      /\ current' = t => current = t
    OBVIOUS
  <2>0. /\ active /\ t \notin Daemons /\ t # Idle /\ t \in Workers
        /\ pc[t] \in {"exit_int", "dead"} /\ state \in [Threads -> States]
    BY Constants DEF IInv, BootInv, ThreadInv, TypeOK
  <2>1. ASSUME NEW u \in Daemons, BootCreate(u)
        PROVE  FALSE
    BY <2>0, <2>1 DEF BootCreate
  <2>2. CASE SchedStart
    BY <2>0, <2>2 DEF SchedStart
  <2>3. ASSUME NEW c \in Threads, ThreadStep(c)
        PROVE  state'[t] = "ZOMBIE" /\ current' = current
    BY <2>0, <2>3 DEF ThreadStep, Yield, CreateAlloc, InsertNode, SleepCall, ExitCall,
         Critical, InsertLink, SleepState, SleepTick, SleepInt, ExitState, ExitInt, Exec
  <2>4. CASE Tick
    BY <2>0, <2>4 DEF Tick
  <2>5. CASE Wake
    <3>1. state'[t] = "ZOMBIE" /\ current' = current
      BY <2>0, <2>5 DEF Wake, Due
    <3>2. QED
      BY <3>1
  <2>6. CASE Reap
    <3>1. CASE state' = state /\ current' = current
      BY <2>0, <3>1
    <3>2. CASE Reapable(next[walk]) /\ state' = [state EXCEPT ![next[walk]] = "FREE"] /\ current' = current
      BY <2>0, <3>2 DEF Reapable
    <3>3. QED
      BY <2>6, <3>1, <3>2 DEF Reap
  <2>7. ASSUME NEW u \in Threads, Switch(u)
        PROVE  state'[t] = "ZOMBIE" /\ current' # t
    <3>1. state[u] \in {"READY", "RUNNING"}
      BY <2>0, <2>7, ChoicesOnRing DEF Switch, Runnable
    <3>2. QED
      BY <2>0, <2>7, <3>1 DEF Switch
  <2>8. CASE Stay
    BY <2>0, <2>8 DEF Stay
  <2>9. QED
    BY <2>0, <2>1, <2>2, <2>3, <2>4, <2>5, <2>6, <2>7, <2>8 DEF Next, Isr
<1>2. QED
  BY <1>1, Invariance, PTL DEF Spec, ExitIsFinal

-----------------------------------------------------------------------------
(* Zombies: at most one besides the thread on the CPU, and the walk of     *)
(* reap_zombies has it still ahead, or has removed it when the walk ends.  *)

Zombies == {t \in Threads : state[t] = "ZOMBIE"}

ZombieInv ==
  /\ \A t, u \in Zombies \ {current} : t = u
  /\ isr = "reap" => Zombies \ {current} \subseteq Reach(next[walk], Threads \ {ring})
  /\ isr = "pick" => Zombies \subseteq {current}

\* A zombie is on the ring, and ring is never one: it points to a daemon.
LEMMA ZombiesLinked ==
  ASSUME IInv
  PROVE  Zombies \subseteq Linked \ {ring}
<1> SUFFICES ASSUME NEW z \in Threads, state[z] = "ZOMBIE"
             PROVE  z \in Linked \ {ring}
  BY DEF Zombies
<1>1. z \in Workers /\ z \in Linked
  BY DEF IInv, ThreadInv, CreateInv, Linked, Pending, Building
<1>2. ring # z
  BY <1>1, Constants DEF IInv, RingShape
<1>3. QED
  BY <1>1, <1>2

\* The walk that starts behind ring and ends at ring meets the whole ring.
LEMMA ReapWalk ==
  ASSUME RingShape, ring # NULL
  PROVE  Linked \subseteq Reach(next[ring], Threads \ {ring})
<1> DEFINE R == Reach(next[ring], Threads \ {ring})
<1>1. /\ Linked \in SUBSET Threads /\ Closed(Linked)
      /\ ring \in Linked /\ next[ring] \in Linked
  BY DEF RingShape, Linked, Closed
<1>2. R \subseteq Linked /\ next[ring] \in R
  BY <1>1, ReachWithin, ReachSelf
<1>3. Closed(R)
  <2>1. SUFFICES ASSUME NEW u \in R
                 PROVE  next[u] \in R
    BY DEF Closed
  <2>2. next[u] \in Threads
    BY <1>1, <1>2 DEF Closed
  <2>3. CASE u = ring
    BY <1>2, <2>3
  <2>4. CASE u # ring
    BY <1>1, <1>2, <2>2, <2>4, ReachStep
  <2>5. QED
    BY <2>3, <2>4
<1>4. R = Linked
  BY <1>2, <1>3 DEF RingShape
<1>5. QED
  BY <1>4

\* Going on past the first node, a walk leaves at most that node behind.
LEMMA ReachAfter ==
  ASSUME NEW t \in Threads, NEW Skip \in SUBSET Threads, next[t] \in Threads,
         NEW z \in Reach(t, Skip), z # t
  PROVE  z \in Reach(next[t], Skip)
<1>1. SUFFICES ASSUME NEW S \in SUBSET Threads, next[t] \in S,
                      \A v \in S \cap Skip : next[v] \in S
               PROVE  z \in S
  BY DEF Reach
<1>2. S \cup {t} \in SUBSET Threads /\ t \in S \cup {t}
  OBVIOUS
<1>3. \A v \in (S \cup {t}) \cap Skip : next[v] \in S \cup {t}
  BY <1>1
<1>4. z \in S \cup {t}
  BY <1>2, <1>3 DEF Reach
<1>5. QED
  BY <1>4

\* A walk that may not go on past its first node meets that node only.
LEMMA ReachStops ==
  ASSUME NEW t \in Threads, NEW Skip \in SUBSET Threads, t \notin Skip
  PROVE  Reach(t, Skip) \subseteq {t}
<1>1. \A v \in {t} \cap Skip : next[v] \in {t}
  OBVIOUS
<1>2. QED
  BY <1>1 DEF Reach

LEMMA ZombieInit == Init => ZombieInv
  BY DEF Init, ZombieInv, Zombies

\* One iteration of reap_zombies frees the other zombie or leaves it ahead.
LEMMA ZombieReap ==
  ASSUME IInv, IInv', ZombieInv, Reap
  PROVE  ZombieInv'
<1> DEFINE n == next[walk]
<1>1. /\ active /\ ring # NULL /\ walk \in Linked /\ n \in Linked /\ next[n] \in Linked
      /\ Linked \in SUBSET Threads /\ current' = current /\ ring' = ring
      /\ state \in [Threads -> States] /\ ring \in Linked
  <2>1. active
    BY DEF IInv, BootInv, Reap
  <2>2. QED
    BY <2>1 DEF IInv, CpuInv, RingShape, Closed, Reap, Linked, TypeOK
<1>2. CASE Reapable(n)
  <2>1. state' = [state EXCEPT ![n] = "FREE"]
    BY <1>2 DEF Reap
  <2>2. n \in Zombies \ {current}
    BY <1>1, <1>2 DEF Reapable, Zombies
  <2>3. Zombies' \subseteq Zombies \ {n}
    BY <1>1, <2>1 DEF Zombies
  <2>4. Zombies' \ {current'} = {}
    BY <1>1, <2>2, <2>3 DEF ZombieInv
  <2>5. QED
    BY <2>4 DEF ZombieInv
<1>3. CASE ~Reapable(n)
  <2>1. /\ walk' = n /\ next' = next /\ state' = state
        /\ isr' = IF n = ring THEN "pick" ELSE "reap"
    BY <1>3 DEF Reap
  <2>2. Zombies' = Zombies
    BY <2>1 DEF Zombies
  <2>3. Zombies \ {current} \subseteq Reach(n, Threads \ {ring})
    BY DEF ZombieInv, Reap
  <2>4. n \notin Zombies \ {current}
    BY <1>1, <1>3, ZombiesLinked DEF Reapable, Zombies
  <2>5. CASE n = ring
    <3>1. Zombies \ {current} = {}
      BY <1>1, <2>3, <2>4, <2>5, ReachStops
    <3>2. isr' = "pick"
      BY <2>1, <2>5
    <3>3. QED
      BY <1>1, <2>2, <3>1, <3>2 DEF ZombieInv
  <2>6. CASE n # ring
    <3>1. Zombies \ {current} \subseteq Reach(next[n], Threads \ {ring})
      BY <1>1, <2>3, <2>4, ReachAfter
    <3>2. Reach(next[walk], Threads \ {ring})' = Reach(next[n], Threads \ {ring})
      BY <1>1, <2>1 DEF Reach
    <3>3. isr' = "reap"
      BY <2>1, <2>6
    <3>4. QED
      BY <1>1, <2>2, <3>1, <3>2, <3>3 DEF ZombieInv
  <2>7. QED
    BY <2>5, <2>6
<1>4. QED
  BY <1>2, <1>3

LEMMA ZombieNext ==
  ASSUME IInv, IInv', ZombieInv, [Next]_vars
  PROVE  ZombieInv'
<1>0. state \in [Threads -> States] /\ (~active => Zombies = {})
  BY DEF IInv, TypeOK, BootInv, Zombies
<1>1. CASE UNCHANGED vars
  BY <1>1 DEF vars, ZombieInv, Zombies, Reach
<1>2. ASSUME NEW t \in Daemons, BootCreate(t)
      PROVE  ZombieInv'
  <2>1. Zombies' = {}
    BY <1>0, <1>2 DEF BootCreate, Zombies
  <2>2. QED
    BY <2>1 DEF ZombieInv
<1>3. CASE SchedStart
  <2>1. Zombies' = {}
    BY <1>0, <1>3 DEF SchedStart, Zombies
  <2>2. QED
    BY <2>1 DEF ZombieInv
<1>4. ASSUME NEW c \in Threads, ThreadStep(c)
      PROVE  ZombieInv'
  <2>1. current' = current /\ isr' \in {"none", "wake"}
    BY <1>4 DEF ThreadStep, Yield, CreateAlloc, InsertNode, SleepCall, ExitCall, Critical,
         InsertLink, SleepState, SleepTick, SleepInt, ExitState, ExitInt, Exec, SoftInt
  <2>2. Zombies' \subseteq Zombies \cup {current}
    BY <1>0, <1>4 DEF ThreadStep, Yield, CreateAlloc, InsertNode, SleepCall, ExitCall, Critical,
         InsertLink, SleepState, SleepTick, SleepInt, ExitState, ExitInt, Exec, Zombies
  <2>3. QED
    BY <2>1, <2>2 DEF ZombieInv
<1>5. CASE Tick
  <2>1. Zombies' = Zombies /\ current' = current /\ isr' \in {"none", "wake"}
    BY <1>5 DEF Tick, SoftInt, Zombies
  <2>2. QED
    BY <2>1 DEF ZombieInv
<1>6. CASE Wake
  <2>1. /\ Zombies' = Zombies /\ current' = current /\ next' = next /\ ring' = ring
        /\ walk' = ring /\ isr' = "reap"
    BY <1>0, <1>6 DEF Wake, Due, Zombies
  <2>2. active
    BY <1>6 DEF IInv, BootInv, Wake
  <2>3. Zombies \subseteq Reach(next[ring], Threads \ {ring})
    BY <2>2, ZombiesLinked, ReapWalk DEF IInv, CpuInv
  <2>4. Reach(next[walk], Threads \ {ring})' = Reach(next[ring], Threads \ {ring})
    BY <2>1 DEF Reach
  <2>5. QED
    BY <2>1, <2>3, <2>4 DEF ZombieInv
<1>7. CASE Reap
  BY <1>7, ZombieReap
<1>8. ASSUME NEW t \in Threads, Switch(t)
      PROVE  ZombieInv'
  <2>1. active
    BY <1>8 DEF IInv, BootInv, Switch
  <2>2. state'[t] = "RUNNING" /\ Zombies' \subseteq Zombies
    BY <1>0, <1>8 DEF Switch, Zombies
  <2>3. Zombies \subseteq {current} /\ isr' = "none"
    BY <1>8 DEF ZombieInv, Switch
  <2>4. QED
    BY <2>2, <2>3 DEF ZombieInv
<1>9. CASE Stay
  <2>1. Zombies' = Zombies /\ current' = current /\ isr' = "none"
    BY <1>9 DEF Stay, Zombies
  <2>2. QED
    BY <2>1 DEF ZombieInv
<1>10. QED
  BY <1>1, <1>2, <1>3, <1>4, <1>5, <1>6, <1>7, <1>8, <1>9 DEF Next, Isr

\* Exits do not pile up, for any number of threads: reap_zombies skips the
\* thread it runs on and ends early when it frees the node after ring, but
\* never leaves more than one zombie to the next run.
THEOREM ExitsAreReaped == Spec => []OneZombie
<1>1. IInv /\ ZombieInv => OneZombie
  <2>1. SUFFICES ASSUME IInv, ZombieInv, isr = "none",
                        ~(active /\ pc[current] = "exit_int")
                 PROVE  Cardinality(Zombies) <= 1
    BY DEF OneZombie, Zombies
  <2>2. current \notin Zombies
    <3>1. CASE active
      BY <2>1, <3>1 DEF IInv, CpuInv, ThreadInv, Zombies
    <3>2. CASE ~active
      BY <2>1, <3>2 DEF IInv, BootInv, Zombies
    <3>3. QED
      BY <3>1, <3>2
  <2>3. \A t, u \in Zombies : t = u
    BY <2>1, <2>2 DEF ZombieInv
  <2>4. Zombies = {} \/ \E t : Zombies = {t}
    BY <2>3
  <2>5. Cardinality(Zombies) \in {0, 1}
    BY <2>4, FS_EmptySet, FS_Singleton
  <2>6. QED
    BY <2>5
<1>2. Init => IInv /\ ZombieInv
  BY InitInv, ZombieInit
<1>3. IInv /\ ZombieInv /\ [Next]_vars => (IInv /\ ZombieInv)'
  BY NextInv, ZombieNext
<1>4. QED
  BY <1>1, <1>2, <1>3, PTL DEF Spec

-----------------------------------------------------------------------------
(* Round robin: the threads dispatched since t became ready lie on the arc *)
(* of the ring from t to current; the next one lies on the other arc.      *)

Arc(t) == Reach(next[t], Threads \ {current})

OrderInv ==
  \A t \in Threads : passed[t] # {} =>
    /\ active
    /\ t \in Linked \ {Idle}
    /\ state[t] = "READY"
    /\ passed[t] \subseteq Arc(t)

\* What a walk meets lies in every set that it cannot leave.
LEMMA ReachIn ==
  ASSUME NEW t \in Threads, NEW Skip \in SUBSET Threads, NEW S \in SUBSET Threads,
         t \in S, \A v \in S \cap Skip : next[v] \in S
  PROVE  Reach(t, Skip) \subseteq S
BY DEF Reach

\* The arc from behind t to c and the arc from behind c to t do not overlap.
LEMMA ArcsDisjoint ==
  ASSUME RingShape, NEW t \in Linked, NEW c \in Linked, t # c
  PROVE  Reach(next[t], Threads \ {c}) \cap Reach(next[c], Threads \ {t}) = {}
<1> DEFINE A == Reach(next[t], Threads \ {c})
           B == Reach(next[c], Threads \ {t})
           C == {next[c]} \cup {next[v] : v \in B \ {t}}
<1>1. /\ Linked \in SUBSET Threads
      /\ \A v \in Linked : next[v] \in Linked
      /\ \A u, v \in Linked : next[u] = next[v] => u = v
  BY DEF RingShape, Closed, Linked
<1>2. A \subseteq Linked /\ B \subseteq Linked
  BY <1>1, ReachWithin DEF Closed
<1>3. C \in SUBSET Threads
  <2>1. next[c] \in Threads /\ \A v \in B : next[v] \in Threads
    BY <1>1, <1>2
  <2>2. QED
    BY <2>1
<1>4. next[c] \in B
  BY <1>1, ReachSelf
<1>5. C \subseteq B
  <2>1. SUFFICES ASSUME NEW v \in B \ {t}
                 PROVE  next[v] \in B
    BY <1>4
  <2>2. QED
    BY <1>1, <1>2, <2>1, ReachStep
<1>6. B \subseteq C
  <2>1. \A v \in C \cap (Threads \ {t}) : next[v] \in C
    BY <1>5
  <2>2. next[c] \in C /\ next[c] \in Threads
    BY <1>1
  <2> HIDE DEF C
  <2>3. QED
    BY <1>3, <2>1, <2>2, ReachIn
<1>7. A \subseteq Linked \ B
  <2>1. next[t] \notin B
    <3>1. SUFFICES ASSUME next[t] \in C PROVE FALSE
      BY <1>6
    <3>2. QED
      BY <1>1, <1>2, <3>1
  <2>2. ASSUME NEW v \in Linked \ B, v # c, next[v] \in C
        PROVE  FALSE
    BY <1>1, <1>2, <2>2
  <2>3. \A v \in (Linked \ B) \cap (Threads \ {c}) : next[v] \in Linked \ B
    BY <1>1, <1>6, <2>2
  <2>4. /\ next[t] \in Threads /\ Threads \ {c} \in SUBSET Threads
        /\ Linked \ B \in SUBSET Threads /\ next[t] \in Linked \ B
    BY <1>1, <2>1
  <2> HIDE DEF B, C
  <2>5. QED
    BY <2>3, <2>4, ReachIn
<1>8. QED
  BY <1>7

\* When what is on the arc from t to c does not hold d, the arc from t to d
\* holds all of it, and d.
LEMMA ArcGrows ==
  ASSUME RingShape, NEW t \in Linked, NEW c \in Linked, NEW d \in Linked,
         d \notin Reach(next[t], Threads \ {c})
  PROVE  Reach(next[t], Threads \ {c}) \cup {d} \subseteq Reach(next[t], Threads \ {d})
<1> DEFINE A == Reach(next[t], Threads \ {c})
           D == Reach(next[t], Threads \ {d})
<1>1. /\ Linked \in SUBSET Threads /\ Closed(Linked)
      /\ \A v \in Linked : next[v] \in Linked
  BY DEF RingShape, Closed, Linked
<1>2. D \subseteq Linked /\ next[t] \in D
  BY <1>1, ReachWithin, ReachSelf
<1>3. \A v \in D \ {d} : next[v] \in D
  BY <1>1, <1>2, ReachStep
<1>4. d \in D
  <2>1. SUFFICES ASSUME d \notin D PROVE FALSE
    OBVIOUS
  <2>2. Closed(D) /\ D # {}
    BY <1>2, <1>3, <2>1 DEF Closed
  <2>3. D = Linked
    BY <1>2, <2>2 DEF RingShape
  <2>4. QED
    BY <2>1, <2>3
<1>5. A \subseteq Linked /\ next[t] \in A
  BY <1>1, ReachWithin, ReachSelf
<1>6. \A v \in A \ {c} : next[v] \in A
  BY <1>1, <1>5, ReachStep
<1> HIDE DEF D
<1>7. A \subseteq A \cap D
  <2>1. \A v \in (A \cap D) \cap (Threads \ {c}) : next[v] \in A \cap D
    BY <1>3, <1>6
  <2>2. next[t] \in A \cap D /\ next[t] \in Threads /\ A \cap D \in SUBSET Threads
    BY <1>1, <1>2, <1>5
  <2> DEFINE E == A \cap D
  <2>3. /\ E \in SUBSET Threads /\ next[t] \in E /\ next[t] \in Threads
        /\ \A v \in E \cap (Threads \ {c}) : next[v] \in E
    BY <2>1, <2>2
  <2> HIDE DEF E
  <2>4. Reach(next[t], Threads \ {c}) \subseteq E
    BY <2>3, ReachIn
  <2>5. QED
    BY <2>4 DEF E
<1>8. QED
  BY <1>4, <1>7 DEF D

\* The thread that is dispatched lies on the arc from current to any ready
\* client, because no ready client comes before it.
LEMMA DispatchOnArc ==
  ASSUME IInv, active, NEW t \in Linked \cap Clients, state[t] = "READY",
         NEW d \in Choices
  PROVE  /\ d \in Reach(next[current], Threads \ {t})
         /\ d \in Linked /\ current \in Linked /\ t # current
<1> DEFINE busy == {u \in Clients : Runnable(u)}
<1>1. RingShape /\ current \in Linked /\ next[current] \in Linked /\ Linked \in SUBSET Threads
  BY DEF IInv, CpuInv, RingShape, Closed, Linked
<1>2. t \in busy /\ busy \in SUBSET Threads
  BY Constants DEF Runnable
<1>3. FirstAfter(busy) # {}
  BY <1>1, <1>2, WalkFinds DEF FirstAfter
<1>4. d \in FirstAfter(busy)
  BY <1>3 DEF Choices
<1>5. d \in Reach(next[current], Threads \ busy)
  BY <1>4 DEF FirstAfter
<1>6. d \in Reach(next[current], Threads \ {t})
  BY <1>2, <1>5 DEF Reach
<1>7. d \in Linked
  BY <1>1, <1>2, <1>4, FirstOnRing
<1>8. QED
  BY <1>1, <1>6, <1>7 DEF IInv, CpuInv

\* It has not been dispatched since t became ready.
LEMMA DispatchIsNew ==
  ASSUME IInv, OrderInv, active, NEW t \in Linked \cap Clients, state[t] = "READY",
         NEW d \in Choices
  PROVE  d \notin Arc(t) /\ d \notin passed[t]
<1>1. /\ d \in Reach(next[current], Threads \ {t})
      /\ current \in Linked /\ t # current
  BY DispatchOnArc
<1>2. d \notin Arc(t)
  BY <1>1, ArcsDisjoint DEF Arc, IInv
<1>3. QED
  BY <1>2, Constants DEF OrderInv, Linked

LEMMA ArcIn ==
  ASSUME NEW t \in Threads, next[t] \in Threads, NEW S \in SUBSET Threads,
         next[t] \in S, \A v \in S \ {current} : next[v] \in S
  PROVE  Arc(t) \subseteq S
BY DEF Arc, Reach

\* A store to a struct that is not linked yet leaves the arcs as they are.
LEMMA ArcKept ==
  ASSUME RingShape, NEW t \in Linked, current' = current,
         \A v \in Linked : next'[v] = next[v]
  PROVE  Arc(t) \subseteq Arc(t)'
<1>1. Linked \in SUBSET Threads /\ \A v \in Linked : next[v] \in Linked
  BY DEF RingShape, Closed, Linked
<1>2. SUFFICES ASSUME NEW S \in SUBSET Threads, next'[t] \in S,
                      \A v \in S \cap (Threads \ {current}) : next'[v] \in S
               PROVE  Arc(t) \subseteq S
  BY <1>1 DEF Arc, Reach
<1>3. \A v \in (S \cap Linked) \ {current} : next[v] \in S \cap Linked
  BY <1>1, <1>2
<1>4. next[t] \in S \cap Linked
  BY <1>1, <1>2
<1>5. /\ t \in Threads /\ next[t] \in Threads
      /\ S \cap Linked \in SUBSET Threads
  BY <1>1
<1>6. Arc(t) \subseteq S \cap Linked
  BY <1>3, <1>4, <1>5, ArcIn
<1>7. QED
  BY <1>6

\* Linking n in behind ring puts it on an arc or not, and moves nothing else.
LEMMA ArcInsert ==
  ASSUME RingShape, NEW t \in Linked, NEW n \in Threads \ Linked, ring \in Linked,
         current \in Linked, current' = current,
         next'[n] = next[ring], next'[ring] = n,
         \A v \in Linked \ {ring} : next'[v] = next[v]
  PROVE  Arc(t) \subseteq Arc(t)'
<1>1. Linked \in SUBSET Threads /\ \A v \in Linked : next[v] \in Linked
  BY DEF RingShape, Closed, Linked
<1>2. SUFFICES ASSUME NEW S \in SUBSET Threads, next'[t] \in S,
                      \A v \in S \cap (Threads \ {current}) : next'[v] \in S
               PROVE  Arc(t) \subseteq S
  BY <1>1 DEF Arc, Reach
<1>3. n \in S => next[ring] \in S
  BY <1>2
<1>4. \A v \in (S \cap Linked) \ {current} : next[v] \in S \cap Linked
  BY <1>1, <1>2, <1>3
<1>5. next[t] \in S \cap Linked
  BY <1>1, <1>2, <1>3
<1>6. /\ t \in Threads /\ next[t] \in Threads
      /\ S \cap Linked \in SUBSET Threads
  BY <1>1
<1>7. Arc(t) \subseteq S \cap Linked
  BY <1>4, <1>5, <1>6, ArcIn
<1>8. QED
  BY <1>7

\* Unlinking n takes it off the arcs, and nothing else.
LEMMA ArcRemove ==
  ASSUME RingShape, NEW w \in Linked, NEW n \in Linked, n = next[w], w # n,
         NEW t \in Linked, t # n, n # current, current' = current,
         next'[w] = next[n], \A v \in Linked \ {w, n} : next'[v] = next[v]
  PROVE  Arc(t) \ {n} \subseteq Arc(t)'
<1>1. /\ Linked \in SUBSET Threads /\ \A v \in Linked : next[v] \in Linked
      /\ \A u, v \in Linked : next[u] = next[v] => u = v
  BY DEF RingShape, Closed, Linked
<1>2. SUFFICES ASSUME NEW S \in SUBSET Threads, next'[t] \in S,
                      \A v \in S \cap (Threads \ {current}) : next'[v] \in S
               PROVE  Arc(t) \subseteq S \cup {n}
  BY <1>1 DEF Arc, Reach
<1> DEFINE T == S \cap Linked
<1>a. /\ t \in Threads /\ next[t] \in Threads
      /\ T \cup {n} \in SUBSET Threads /\ T \ {n} \in SUBSET Threads
  BY <1>1
<1>3. \A v \in T \ {current, w, n} : next[v] \in T
  BY <1>1, <1>2
<1>4. \A v \in Linked \ {w} : next[v] # n
  BY <1>1
<1>5. CASE t = w \/ w \in S \ {current}
  <2>1. next[n] \in T
    BY <1>1, <1>2, <1>5
  <2>2. \A v \in (T \cup {n}) \ {current} : next[v] \in T \cup {n}
    BY <1>3, <2>1
  <2>3. next[t] \in T \cup {n}
    BY <1>1, <1>2
  <2>4. Arc(t) \subseteq T \cup {n}
    <3> DEFINE U == T \cup {n}
    <3>1. U \in SUBSET Threads /\ next[t] \in U /\ \A v \in U \ {current} : next[v] \in U
      BY <1>a, <2>2, <2>3
    <3> HIDE DEF U
    <3>2. Arc(t) \subseteq U
      BY <1>a, <3>1, ArcIn
    <3>3. QED
      BY <3>2 DEF U
  <2>5. QED
    BY <2>4
<1>6. CASE ~(t = w \/ w \in S \ {current})
  <2>1. \A v \in (T \ {n}) \ {current} : next[v] \in T \ {n}
    BY <1>3, <1>4, <1>6
  <2>2. next[t] \in T \ {n}
    BY <1>1, <1>2, <1>4, <1>6
  <2>3. Arc(t) \subseteq T \ {n}
    BY <1>a, <2>1, <2>2, ArcIn
  <2>4. QED
    BY <2>3
<1>7. QED
  BY <1>5, <1>6

\* The steps that leave arcs and statuses of ready threads alone.
LEMMA OrderKept ==
  ASSUME IInv, OrderInv, active' = active, current' = current,
         \A v \in Linked : next'[v] = next[v],
         \A t \in Linked : state[t] = "READY" => state'[t] = "READY" /\ t \in Linked',
         \A t \in Threads : passed'[t] \subseteq passed[t]
  PROVE  OrderInv'
<1> SUFFICES ASSUME NEW t \in Threads, passed'[t] # {}
             PROVE  /\ active'
                    /\ t \in Linked' \ {Idle}
                    /\ state'[t] = "READY"
                    /\ passed'[t] \subseteq Arc(t)'
  BY DEF OrderInv
<1>1. passed[t] # {} /\ passed'[t] \subseteq passed[t]
  OBVIOUS
<1>2. active /\ t \in Linked \ {Idle} /\ state[t] = "READY" /\ passed[t] \subseteq Arc(t)
  BY <1>1 DEF OrderInv
<1>3. Arc(t) \subseteq Arc(t)'
  BY <1>2, ArcKept DEF IInv
<1>4. QED
  BY <1>1, <1>2, <1>3

LEMMA OrderInsertLink ==
  ASSUME IInv, OrderInv, NEW c \in Threads, InsertLink(c)
  PROVE  OrderInv'
<1> SUFFICES ASSUME NEW t \in Threads, passed'[t] # {}
             PROVE  /\ active'
                    /\ t \in Linked' \ {Idle}
                    /\ state'[t] = "READY"
                    /\ passed'[t] \subseteq Arc(t)'
  BY DEF OrderInv
<1>1. active /\ c = current /\ pc[c] = "link" /\ Building(c)
  BY DEF InsertLink, Exec, Building
<1>2. active /\ t \in Linked \ {Idle} /\ state[t] = "READY" /\ passed[t] \subseteq Arc(t)
  BY DEF OrderInv, InsertLink
<1>3. /\ new[c] \in Threads \ Linked /\ next[new[c]] = next[ring]
      /\ ring \in Linked /\ current \in Linked
  BY <1>1, Constants DEF IInv, CreateInv, CpuInv, RingShape, Linked, Pending, Building
<1>4. /\ next'[new[c]] = next[ring] /\ next'[ring] = new[c]
      /\ \A v \in Linked \ {ring} : next'[v] = next[v]
  BY <1>3 DEF InsertLink, IInv, TypeOK, Linked
<1>5. Arc(t) \subseteq Arc(t)'
  BY <1>2, <1>3, <1>4, ArcInsert DEF IInv, InsertLink
<1>6. Linked \subseteq Linked'
  BY DEF InsertLink, Goto, Linked, Pending, IInv, TypeOK
<1>7. QED
  BY <1>2, <1>5, <1>6 DEF InsertLink

LEMMA OrderReap ==
  ASSUME IInv, OrderInv, Reap
  PROVE  OrderInv'
<1> DEFINE n == next[walk]
<1>1. CASE Reapable(n)
  <2> SUFFICES ASSUME NEW t \in Threads, passed'[t] # {}
               PROVE  /\ active'
                      /\ t \in Linked' \ {Idle}
                      /\ state'[t] = "READY"
                      /\ passed'[t] \subseteq Arc(t)'
    BY DEF OrderInv
  <2>0. /\ next' = [next EXCEPT ![walk] = next[n], ![n] = NULL]
        /\ state' = [state EXCEPT ![n] = "FREE"]
        /\ passed' = [u \in Threads |-> passed[u] \ {n}]
        /\ UNCHANGED <<active, current, pc, new>>
    BY <1>1 DEF Reap
  <2>1. /\ active /\ ring # NULL /\ walk \in Linked /\ n \in Linked
        /\ next[n] \in Linked /\ ring \in Linked /\ Linked \subseteq Threads
    BY DEF IInv, BootInv, CpuInv, RingShape, Closed, Linked, Reap
  <2>2. n # current /\ n # ring /\ state[n] = "ZOMBIE"
    BY <1>1 DEF Reapable
  <2>3. walk # n
    <3>1. SUFFICES ASSUME walk = n PROVE FALSE
      OBVIOUS
    <3>2. Closed({n}) /\ {n} \in SUBSET Linked
      BY <2>1, <3>1 DEF Closed
    <3>3. {n} = Linked
      BY <3>2 DEF IInv, RingShape
    <3>4. QED
      BY <2>1, <2>2, <3>3
  <2>4. /\ passed'[t] = passed[t] \ {n}
        /\ t \in Linked \ {Idle} /\ state[t] = "READY" /\ passed[t] \subseteq Arc(t)
    BY <2>0 DEF OrderInv
  <2>5. t # n
    BY <2>2, <2>4
  <2>6. next'[walk] = next[n] /\ \A v \in Linked \ {walk, n} : next'[v] = next[v]
    BY <2>0, <2>1, <2>3 DEF IInv, TypeOK
  <2>7. Arc(t) \ {n} \subseteq Arc(t)'
    <3> HIDE DEF n
    <3>1. n = next[walk]
      BY DEF n
    <3>2. QED
      BY <2>0, <2>1, <2>2, <2>3, <2>4, <2>5, <2>6, <3>1, ArcRemove DEF IInv
  <2>8. t \in Linked' /\ state'[t] = "READY"
    BY <2>0, <2>4, <2>5 DEF Linked, Pending, IInv, TypeOK
  <2>9. QED
    BY <2>0, <2>1, <2>4, <2>7, <2>8
<1>2. CASE ~Reapable(n)
  <2>1. UNCHANGED <<next, state, passed, active, current, pc, new>>
    BY <1>2 DEF Reap
  <2>2. Linked' = Linked
    BY <2>1 DEF Linked, Pending
  <2>3. QED
    BY <2>1, <2>2, OrderKept
<1>3. QED
  BY <1>1, <1>2

LEMMA OrderSwitch ==
  ASSUME IInv, OrderInv, NEW d \in Threads, Switch(d)
  PROVE  OrderInv'
<1> SUFFICES ASSUME NEW t \in Threads, passed'[t] # {}
             PROVE  /\ active'
                    /\ t \in Linked' \ {Idle}
                    /\ state'[t] = "READY"
                    /\ passed'[t] \subseteq Arc(t)'
  BY DEF OrderInv
<1>1. active /\ d \in Choices /\ active' = active /\ current' = d
  BY DEF IInv, BootInv, Switch
<1>2. /\ t \in Linked \ {d, current, Idle} /\ state[t] = "READY"
      /\ passed'[t] = passed[t] \cup {d}
  BY DEF Switch
<1>3. state'[t] = "READY" /\ t \in Linked'
  <2>1. state'[t] = "READY"
    BY <1>2 DEF Switch, IInv, TypeOK
  <2>2. Pending' = Pending
    BY DEF Switch, Pending
  <2>3. QED
    BY <1>2, <2>1, <2>2 DEF Linked
<1>4. t \in Linked \cap Clients
  BY <1>2 DEF Threads, Linked
<1>5. d \in Linked /\ current \in Linked /\ d \notin Arc(t)
  BY <1>1, <1>2, <1>4, DispatchOnArc, DispatchIsNew
<1>6. passed[t] \subseteq Arc(t)
  BY DEF OrderInv
<1>7. Arc(t) \cup {d} \subseteq Reach(next[t], Threads \ {d})
  BY <1>4, <1>5, ArcGrows DEF Arc, IInv
<1>8. Arc(t)' = Reach(next[t], Threads \ {d})
  BY <1>1 DEF Arc, Reach, Switch
<1>9. QED
  BY <1>1, <1>2, <1>3, <1>6, <1>7, <1>8

LEMMA OrderNext ==
  ASSUME IInv, IInv', OrderInv, [Next]_vars
  PROVE  OrderInv'
<1>0. state \in [Threads -> States] /\ (~active => \A t \in Threads : passed[t] = {})
  BY DEF IInv, TypeOK, OrderInv
<1>1. CASE UNCHANGED vars
  <2>1. Linked' = Linked /\ UNCHANGED <<state, next, active, current, passed>>
    BY <1>1 DEF vars, Linked, Pending
  <2>2. QED
    BY <2>1, OrderKept
<1>2. ASSUME NEW t \in Daemons, BootCreate(t)
      PROVE  OrderInv'
  BY <1>0, <1>2 DEF BootCreate, OrderInv
<1>3. CASE SchedStart
  BY <1>0, <1>3 DEF SchedStart, OrderInv
<1>4. ASSUME NEW c \in Threads, ThreadStep(c)
      PROVE  OrderInv'
  <2>1. CASE InsertLink(c)
    BY <2>1, OrderInsertLink
  <2>2. CASE ~InsertLink(c)
    <3>1. UNCHANGED <<active, current, passed>> /\ active /\ c = current
      BY <1>4, <2>2 DEF ThreadStep, Yield, CreateAlloc, InsertNode, SleepCall, ExitCall,
           Critical, SleepState, SleepTick, SleepInt, ExitState, ExitInt, Exec
    <3>2. \A v \in Linked : next'[v] = next[v]
      <4>1. CASE InsertNode(c)
        <5>1. new[c] \in Threads \ Linked
          BY <4>1, Constants DEF InsertNode, Exec, IInv, CreateInv, Building, Linked, Pending
        <5>2. QED
          BY <4>1, <5>1 DEF InsertNode, IInv, TypeOK
      <4>2. CASE ~InsertNode(c)
        BY <1>4, <2>2, <4>2 DEF ThreadStep, Yield, CreateAlloc, SleepCall, ExitCall,
           Critical, SleepState, SleepTick, SleepInt, ExitState, ExitInt
      <4>3. QED
        BY <4>1, <4>2
    <3>3. \A t \in Threads : state[t] = "READY" => state'[t] = "READY"
      <4>1. state[c] # "READY"
        BY <3>1 DEF IInv, CpuInv
      <4>2. QED
        BY <1>0, <1>4, <2>2, <4>1 DEF ThreadStep, Yield, CreateAlloc, InsertNode, SleepCall,
           ExitCall, Critical, SleepState, SleepTick, SleepInt, ExitState, ExitInt, Exec
    <3>4. Linked \subseteq Linked'
      <4>1. CASE \E w \in Workers : CreateAlloc(c, w)
        <5>1. PICK w \in Workers : CreateAlloc(c, w)
          BY <4>1
        <5>2. w \notin Linked /\ w # c
          BY <3>1, <5>1 DEF CreateAlloc, Linked, IInv, CpuInv
        <5>3. Pending' \subseteq Pending \cup {w}
          BY <5>1, <5>2 DEF CreateAlloc, Pending, IInv, TypeOK
        <5>4. QED
          BY <1>0, <5>1, <5>2, <5>3, Constants DEF CreateAlloc, Linked
      <4>2. CASE ~\E w \in Workers : CreateAlloc(c, w)
        <5>1. c \notin Pending /\ c \in Linked
          BY <3>1 DEF IInv, CpuInv, Linked
        <5>2. Pending' \subseteq Pending
          BY <1>4, <2>2, <4>2 DEF ThreadStep, Yield, InsertNode, SleepCall, ExitCall,
             Critical, SleepState, SleepTick, SleepInt, ExitState, ExitInt, Exec, Goto,
             Pending, IInv, TypeOK
        <5>3. \A t \in Threads : state[t] # "FREE" => state'[t] # "FREE"
          BY <1>0, <1>4, <2>2, <4>2 DEF ThreadStep, Yield, InsertNode, SleepCall, ExitCall,
             Critical, SleepState, SleepTick, SleepInt, ExitState, ExitInt
        <5>4. QED
          BY <5>2, <5>3 DEF Linked
      <4>3. QED
        BY <4>1, <4>2
    <3>5. Linked \subseteq Threads
      BY DEF Linked
    <3>6. QED
      BY <3>1, <3>2, <3>3, <3>4, <3>5, OrderKept
  <2>3. QED
    BY <2>1, <2>2
<1>5. CASE Tick
  <2>1. Linked' = Linked /\ UNCHANGED <<state, next, active, current, passed>>
    BY <1>5 DEF Tick, Linked, Pending
  <2>2. QED
    BY <2>1, OrderKept
<1>6. CASE Wake
  <2>1. UNCHANGED <<next, active, current, passed, pc, new>>
    BY <1>6 DEF Wake
  <2>2. \A t \in Threads : /\ state[t] = "READY" => state'[t] = "READY"
                           /\ state[t] = "FREE" <=> state'[t] = "FREE"
    BY <1>6 DEF Wake, Due
  <2>3. Linked' = Linked /\ Linked \subseteq Threads
    BY <2>1, <2>2 DEF Linked, Pending
  <2>4. QED
    BY <2>1, <2>2, <2>3, OrderKept
<1>7. CASE Reap
  BY <1>7, OrderReap
<1>8. ASSUME NEW t \in Threads, Switch(t)
      PROVE  OrderInv'
  BY <1>8, OrderSwitch
<1>9. CASE Stay
  <2>1. Linked' = Linked /\ UNCHANGED <<state, next, active, current, passed>>
    BY <1>9 DEF Stay, Linked, Pending
  <2>2. QED
    BY <2>1, OrderKept
<1>10. QED
  BY <1>1, <1>2, <1>3, <1>4, <1>5, <1>6, <1>7, <1>8, <1>9 DEF Next, Isr

\* sched_preempt is round robin for any number of threads: while a client is
\* ready no other thread is dispatched twice, whatever is created behind ring,
\* exits, sleeps, wakes or yields in the meantime.
THEOREM DispatchIsFair == Spec => RoundRobin
<1> DEFINE Fair == \A t \in Clients \cap Linked :
                     state[t] = "READY" /\ state'[t] = "READY" /\ current' # current
                       => current' \notin passed[t]
<1>1. Init => OrderInv
  BY DEF Init, OrderInv
<1>2. IInv /\ OrderInv /\ [Next]_vars => (IInv /\ OrderInv)'
  BY NextInv, OrderNext
<1>3. IInv /\ OrderInv /\ [Next]_vars => [Fair]_vars
  <2> SUFFICES ASSUME IInv, OrderInv, Next, NEW t \in Clients \cap Linked,
                      state[t] = "READY", state'[t] = "READY", current' # current
               PROVE  current' \notin passed[t]
    OBVIOUS
  <2>1. CASE ~active
    BY <2>1, Constants DEF OrderInv
  <2>2. CASE active
    <3>1. PICK d \in Threads : Switch(d)
      BY <2>2 DEF Next, BootCreate, SchedStart, ThreadStep, Yield, CreateAlloc, InsertNode,
         SleepCall, ExitCall, Critical, InsertLink, SleepState, SleepTick, SleepInt,
         ExitState, ExitInt, Tick, Isr, Wake, Reap, Stay
    <3>2. current' = d /\ d \in Choices
      BY <3>1 DEF Switch
    <3>3. QED
      BY <2>2, <3>2, DispatchIsNew
  <2>3. QED
    BY <2>1, <2>2
<1>4. QED
  BY <1>1, <1>2, <1>3, InitInv, PTL DEF Spec, RoundRobin
=============================================================================
