------------------------------- MODULE Snake --------------------------------
(***************************************************************************)
(* The snake game (snake.c): the body and its growth, the apple and the    *)
(* turns.  Coordinates and the index of the loop that moves the body are   *)
(* uint8_t; the memory of the body survives the game.                      *)
(***************************************************************************)
EXTENDS Integers, Sequences, SequencesExt

CONSTANTS max_x, max_y,   \* the size of the grid
          BYTE,           \* 256
          Start,          \* where the snake starts
          CAPACITY,       \* the segments there is room for at first (100)
          MaxSnake        \* bound: games are followed up to this size

ASSUME SnakeAssumption ==
  /\ {CAPACITY, MaxSnake, BYTE} \subseteq Nat \ {0}
  /\ max_x \in 1 .. BYTE - 1 /\ max_y \in 1 .. BYTE - 1
  /\ Start \in (0 .. max_x - 1) \X (0 .. max_y - 1)

VARIABLES
  snake,            \* the segments, head first: snake_size of them
  snake_capacity,   \* 0: snake is NULL
  direction, apple,
  tail,             \* tail_x and tail_y, while they are still to be read
  just_ate, kill_sig

game == <<snake, snake_capacity, direction, apple, tail, just_ate, kill_sig>>

Grid == (0 .. max_x - 1) \X (0 .. max_y - 1)
Keys == {"a", "d", "w", "s", "none"}

\* No game: what the last one left is not looked at again, but for the memory.
NoGame ==
  /\ snake = <<>> /\ direction = "DOWN" /\ apple = Start /\ tail = Start
  /\ just_ate = FALSE /\ kill_sig = FALSE

\* The random apple may be under the snake.
snake_reset ==
  /\ snake' = <<Start>>
  /\ direction' = "DOWN"
  /\ just_ate' = FALSE
  /\ kill_sig' = FALSE
  /\ apple' \in Grid
  /\ tail' = Start

\* malloc, the first time.
SnakeBegins ==
  /\ snake_capacity' = IF snake_capacity = 0 THEN CAPACITY ELSE snake_capacity
  /\ snake_reset

SnakeFails == snake_capacity = 0

SnakeEnds ==
  /\ kill_sig
  /\ snake' = <<>> /\ direction' = "DOWN" /\ apple' = Start /\ tail' = Start
  /\ just_ate' = FALSE /\ kill_sig' = FALSE
  /\ UNCHANGED snake_capacity

\* The body after a meal, given the capacity realloc leaves.
Grown(capacity) ==
  IF just_ate /\ Len(snake) < capacity THEN Append(snake, tail) ELSE snake

\* Mutant: the last segment stays.
Shifted_Short(body) ==
  [i \in DOMAIN body |-> IF i > 1 /\ i < Len(body) THEN body[i - 1] ELSE body[i]]

\* The loop starts at the size less one, modulo 256: what is behind stays.
Shifted(body) ==
  LET idx == (Len(body) - 1) % BYTE
  IN  [i \in DOMAIN body |-> IF i > 1 /\ i <= idx + 1 THEN body[i - 1] ELSE body[i]]

Turned(key) ==
  CASE key = "a" /\ direction # "RIGHT" -> "LEFT"
    [] key = "d" /\ direction # "LEFT" -> "RIGHT"
    [] key = "w" /\ direction # "DOWN" -> "UP"
    [] key = "s" /\ direction # "UP" -> "DOWN"
    [] OTHER -> direction

Wrapped(x, max, backward) ==
  IF x % BYTE < max THEN x % BYTE ELSE IF backward THEN max - 1 ELSE 0

Moved(head, dir) ==
  << Wrapped(head[1] + (CASE dir = "LEFT" -> -1 [] dir = "RIGHT" -> 1 [] OTHER -> 0),
             max_x, dir = "LEFT"),
     Wrapped(head[2] + (CASE dir = "UP" -> -1 [] dir = "DOWN" -> 1 [] OTHER -> 0),
             max_y, dir = "UP") >>

\* Every 110 ticks.  The keyboard may have a key, or ESC, which is looked at when
\* the body has moved and the head has not.
snake_update(key) ==
  /\ snake # <<>> /\ ~kill_sig
  /\ Len(snake) < MaxSnake
  /\ \E capacity \in IF just_ate /\ Len(snake) >= snake_capacity
                     THEN {snake_capacity, 2 * snake_capacity}  \* realloc may fail
                     ELSE {snake_capacity} :
     \E body \in {Shifted(Grown(capacity))} :
     \E head \in {Moved(body[1], Turned(key))} :
       /\ snake_capacity' = capacity
       /\ \/ /\ key = "esc"
             /\ kill_sig' = TRUE /\ just_ate' = FALSE /\ snake' = body
             /\ tail' = Start
             /\ UNCHANGED <<direction, apple>>
          \/ /\ key # "esc"
             /\ head \in Range(Tail(body))
             /\ snake_reset
          \/ /\ key # "esc"
             /\ head \notin Range(Tail(body))
             /\ snake' = <<head>> \o Tail(body)
             /\ direction' = Turned(key)
             /\ just_ate' = (head = apple)
             /\ IF head = apple
                THEN apple' \in Grid /\ tail' = Last(snake)
                ELSE tail' = Start /\ UNCHANGED apple
             /\ UNCHANGED kill_sig

-----------------------------------------------------------------------------
Near(a, b, max) == (a - b) % max \in {1 % max, (max - 1) % max}

\* Two segments that follow each other are side by side, over the edges too.
Adjacent(p, q) ==
  \/ p[1] = q[1] /\ Near(p[2], q[2], max_y)
  \/ p[2] = q[2] /\ Near(p[1], q[1], max_x)

\* A snake of up to 256 segments is in one piece and nowhere crosses itself,
\* whatever it eats, however its memory grows and wherever it turns, and stays on
\* the grid.  A longer one is not: most of its segments do not move any more.
SnakeWhole ==
  /\ Len(snake) <= snake_capacity
  /\ \A i \in DOMAIN snake : snake[i] \in Grid
  /\ Len(snake) <= BYTE /\ ~kill_sig =>
       /\ IsInjective(snake)
       /\ \A i \in 1 .. Len(snake) - 1 : Adjacent(snake[i], snake[i + 1])
=============================================================================
