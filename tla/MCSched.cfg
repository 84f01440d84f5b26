CONSTANTS
  Daemons = {shell, net}
  Workers = {w1, w2}
  Shell = shell
  Idle = idle
  NULL = NULL
  Quantum = 3
  MaxSleep = 2
SPECIFICATION LiveSpec
INVARIANTS Inv SleepTimes OneZombie
PROPERTIES ExitIsFinal RoundRobin ReadyRuns
