--------------------------- MODULE MachineProofs ----------------------------
(***************************************************************************)
(* Theorems about the kernel as one user sees it.  Snake: for every grid,  *)
(* width of an index, capacity and apple.  Memory: for every memory map,   *)
(* window and tree of boot page tables, and every number of pages asked    *)
(* for.  Console: for every screen, prompt, history and length of a line,  *)
(* and whatever the commands print.                                        *)
(***************************************************************************)
EXTENDS Machine, SequenceTheorems, FiniteSetTheorems, WellFoundedInduction, TLAPS

-----------------------------------------------------------------------------
(* The snake.                                                              *)

SnakeInv ==
  /\ snake \in Seq(Grid) /\ snake_capacity \in Nat
  /\ tail \in Grid /\ just_ate \in BOOLEAN
  /\ direction \in {"LEFT", "RIGHT", "UP", "DOWN"}
  /\ SnakeWhole

LEMMA ByteOf ==
  ASSUME NEW b \in Nat \ {0}, NEW x \in -1 .. b - 1
  PROVE  x % b = IF x = -1 THEN b - 1 ELSE x
OBVIOUS

\* A coordinate that leaves the grid comes back on the other side, next to where it was.
Ahead(x, max) == IF x + 1 < max THEN x + 1 ELSE 0
Back(x, max) == IF x > 0 THEN x - 1 ELSE max - 1

LEMMA AheadIsNear ==
  ASSUME NEW max \in Nat \ {0}, NEW x \in 0 .. max - 1
  PROVE  Ahead(x, max) \in 0 .. max - 1 /\ Near(Ahead(x, max), x, max)
<1>1. CASE x + 1 < max
  BY <1>1 DEF Ahead, Near
<1>2. CASE x + 1 = max
  <2>1. Ahead(x, max) = 0
    BY <1>2 DEF Ahead
  <2>2. (0 - x) % max = 1 % max
    <3>1. CASE max = 1
      BY <3>1, <1>2
    <3>2. CASE max > 1
      <4>1. (1 - max) % max = 1 /\ 1 % max = 1
        BY <3>2
      <4>2. 0 - x = 1 - max
        BY <1>2
      <4>3. QED
        BY <4>1, <4>2
    <3>3. QED
      BY <3>1, <3>2
  <2>3. QED
    BY <2>1, <2>2 DEF Near
<1>3. QED
  BY <1>1, <1>2

LEMMA BackIsNear ==
  ASSUME NEW max \in Nat \ {0}, NEW x \in 0 .. max - 1
  PROVE  Back(x, max) \in 0 .. max - 1 /\ Near(Back(x, max), x, max)
<1>1. CASE x > 0
  <2>1. Back(x, max) = x - 1
    BY <1>1 DEF Back
  <2>2. x - 1 - x = -1
    OBVIOUS
  <2>3. (-1) % max = max - 1 /\ (max - 1) % max = max - 1
    BY ByteOf
  <2>4. QED
    BY <1>1, <2>1, <2>2, <2>3 DEF Near
<1>2. CASE x = 0
  <2>1. Back(x, max) = max - 1
    BY <1>2 DEF Back
  <2>2. max - 1 - x = max - 1
    BY <1>2
  <2>3. QED
    BY <2>1, <2>2 DEF Near
<1>3. QED
  BY <1>1, <1>2

LEMMA MovedTo ==
  ASSUME NEW p \in Grid, NEW dir \in {"LEFT", "RIGHT", "UP", "DOWN"}
  PROVE  Moved(p, dir) = CASE dir = "LEFT" -> <<Back(p[1], max_x), p[2]>>
                           [] dir = "RIGHT" -> <<Ahead(p[1], max_x), p[2]>>
                           [] dir = "UP" -> <<p[1], Back(p[2], max_y)>>
                           [] OTHER -> <<p[1], Ahead(p[2], max_y)>>
<1>1. BYTE \in Nat \ {0} /\ max_x \in 1 .. BYTE - 1 /\ max_y \in 1 .. BYTE - 1
  BY SnakeAssumption
<1>2. p[1] \in 0 .. max_x - 1 /\ p[2] \in 0 .. max_y - 1
  BY DEF Grid
<1>3. \A x \in -1 .. BYTE - 1 : x % BYTE = IF x = -1 THEN BYTE - 1 ELSE x
  BY <1>1, ByteOf
<1>4. CASE dir = "LEFT"
  <2>1. (p[1] + -1) % BYTE = IF p[1] = 0 THEN BYTE - 1 ELSE p[1] - 1
    BY <1>1, <1>2, <1>3
  <2>2. (p[2] + 0) % BYTE = p[2]
    BY <1>1, <1>2, <1>3
  <2>3. QED
    BY <1>1, <1>2, <1>4, <2>1, <2>2 DEF Moved, Wrapped, Back
<1>5. CASE dir = "RIGHT"
  <2>1. (p[1] + 1) % BYTE = p[1] + 1
    BY <1>1, <1>2, <1>3
  <2>2. (p[2] + 0) % BYTE = p[2]
    BY <1>1, <1>2, <1>3
  <2>3. QED
    BY <1>1, <1>2, <1>5, <2>1, <2>2 DEF Moved, Wrapped, Ahead
<1>6. CASE dir = "UP"
  <2>1. (p[2] + -1) % BYTE = IF p[2] = 0 THEN BYTE - 1 ELSE p[2] - 1
    BY <1>1, <1>2, <1>3
  <2>2. (p[1] + 0) % BYTE = p[1]
    BY <1>1, <1>2, <1>3
  <2>3. QED
    BY <1>1, <1>2, <1>6, <2>1, <2>2 DEF Moved, Wrapped, Back
<1>7. CASE dir = "DOWN"
  <2>1. (p[2] + 1) % BYTE = p[2] + 1
    BY <1>1, <1>2, <1>3
  <2>2. (p[1] + 0) % BYTE = p[1]
    BY <1>1, <1>2, <1>3
  <2>3. QED
    BY <1>1, <1>2, <1>7, <2>1, <2>2 DEF Moved, Wrapped, Ahead
<1>8. QED
  BY <1>4, <1>5, <1>6, <1>7

LEMMA MovedIsAdjacent ==
  ASSUME NEW p \in Grid, NEW dir \in {"LEFT", "RIGHT", "UP", "DOWN"}
  PROVE  Moved(p, dir) \in Grid /\ Adjacent(Moved(p, dir), p)
<1>1. max_x \in Nat \ {0} /\ max_y \in Nat \ {0}
  BY SnakeAssumption
<1>2. p[1] \in 0 .. max_x - 1 /\ p[2] \in 0 .. max_y - 1 /\ p = <<p[1], p[2]>>
  BY DEF Grid
<1>3. /\ Ahead(p[1], max_x) \in 0 .. max_x - 1 /\ Near(Ahead(p[1], max_x), p[1], max_x)
      /\ Back(p[1], max_x) \in 0 .. max_x - 1 /\ Near(Back(p[1], max_x), p[1], max_x)
      /\ Ahead(p[2], max_y) \in 0 .. max_y - 1 /\ Near(Ahead(p[2], max_y), p[2], max_y)
      /\ Back(p[2], max_y) \in 0 .. max_y - 1 /\ Near(Back(p[2], max_y), p[2], max_y)
  BY <1>1, <1>2, AheadIsNear, BackIsNear
<1>4. QED
  BY <1>2, <1>3, MovedTo DEF Grid, Adjacent

\* After the body has moved and before the head has: a snake of up to BYTE segments
\* follows its head, and a new segment is where the last one was.
LEMMA BodyFollows ==
  ASSUME SnakeInv, snake # <<>>,
         NEW capacity \in {snake_capacity, 2 * snake_capacity},
         NEW body, body = Shifted(Grown(capacity))
  PROVE  /\ body \in Seq(Grid) /\ body # <<>>
         /\ Len(body) \in Len(snake) .. Len(snake) + 1
         /\ Len(body) <= capacity
         /\ body[1] = snake[1]
         /\ Len(body) <= BYTE => \A i \in 2 .. Len(body) : body[i] = snake[i - 1]
<1> DEFINE long == Grown(capacity)
           m == Len(long)
           idx == (m - 1) % BYTE
<1>1. /\ snake \in Seq(Grid) /\ tail \in Grid /\ snake_capacity \in Nat
      /\ Len(snake) \in Nat \ {0} /\ Len(snake) <= snake_capacity /\ BYTE \in Nat \ {0}
      /\ capacity \in Nat /\ snake_capacity <= capacity
  BY SnakeAssumption, EmptySeq DEF SnakeInv, SnakeWhole
<1>2. /\ long \in Seq(Grid) /\ m \in {Len(snake), Len(snake) + 1} /\ m <= capacity
      /\ \A i \in 1 .. Len(snake) : long[i] = snake[i]
  <2>1. CASE just_ate /\ Len(snake) < capacity
    <3>1. long = Append(snake, tail)
      BY <2>1 DEF Grown
    <3>2. QED
      BY <3>1, <2>1, <1>1, AppendProperties
  <2>2. CASE ~(just_ate /\ Len(snake) < capacity)
    <3>1. long = snake
      BY <2>2 DEF Grown
    <3>2. QED
      BY <3>1, <1>1
  <2>3. QED
    BY <2>1, <2>2
<1>3. m \in Nat \ {0} /\ m >= Len(snake) /\ DOMAIN long = 1 .. m
  BY <1>1, <1>2
<1>4. body = [i \in 1 .. m |-> IF i > 1 /\ i <= idx + 1 THEN long[i - 1] ELSE long[i]]
  BY <1>3 DEF Shifted
<1> HIDE DEF long
<1>5. idx \in Nat
  BY <1>1, <1>3
<1>6. \A i \in 1 .. m : body[i] \in Grid
  <2>1. SUFFICES ASSUME NEW i \in 1 .. m
                 PROVE  body[i] \in Grid
    OBVIOUS
  <2>2. long[i] \in Grid
    BY <1>2, <1>3, ElementOfSeq
  <2>3. i > 1 => long[i - 1] \in Grid
    <3>1. i > 1 => i - 1 \in 1 .. m
      BY <1>3
    <3>2. QED
      BY <3>1, <1>2, ElementOfSeq
  <2>4. body[i] = IF i > 1 /\ i <= idx + 1 THEN long[i - 1] ELSE long[i]
    BY <1>4
  <2>5. QED
    BY <2>2, <2>3, <2>4
<1>7. body \in Seq(Grid) /\ Len(body) = m
  <2>1. body \in [1 .. m -> Grid]
    BY <1>4, <1>6
  <2>2. QED
    BY <2>1, <1>3, SeqDef
<1>8. body[1] = snake[1]
  <2>1. 1 \in 1 .. m /\ 1 \in 1 .. Len(snake)
    BY <1>1, <1>3
  <2>2. body[1] = long[1]
    BY <2>1, <1>4
  <2>3. QED
    BY <2>1, <2>2, <1>2
<1>9. ASSUME m <= BYTE, NEW i \in 2 .. m
      PROVE  body[i] = snake[i - 1]
  <2>1. idx = m - 1
    <3>1. m - 1 \in -1 .. BYTE - 1 /\ m - 1 # -1
      BY <1>9, <1>1, <1>3
    <3>2. QED
      BY <3>1, <1>1, ByteOf
  <2>2. body[i] = long[i - 1]
    BY <2>1, <1>3, <1>4
  <2>3. i - 1 \in 1 .. Len(snake)
    BY <1>1, <1>2
  <2>4. QED
    BY <2>2, <2>3, <1>2
<1>10. body # <<>>
  BY <1>7, <1>3
<1>11. QED
  BY <1>1, <1>2, <1>7, <1>8, <1>9, <1>10

LEMMA ResetInv ==
  ASSUME snake_reset, snake_capacity' \in Nat, 1 <= snake_capacity'
  PROVE  SnakeInv'
<1>1. /\ snake' = <<Start>> /\ direction' = "DOWN" /\ just_ate' = FALSE /\ tail' = Start
  BY DEF snake_reset
<1>2. Start \in Grid
  BY SnakeAssumption DEF Grid
<1>3. snake' \in Seq(Grid) /\ Len(snake') = 1 /\ snake'[1] = Start
  BY <1>1, <1>2
<1>4. SnakeWhole'
  <2>1. IsInjective(snake')
    BY <1>3 DEF IsInjective
  <2>2. QED
    BY <1>2, <1>3, <2>1 DEF SnakeWhole
<1>5. QED
  BY <1>1, <1>2, <1>3, <1>4 DEF SnakeInv

LEMMA NoSnakeInv ==
  ASSUME snake = <<>>, snake_capacity \in Nat, tail = Start, just_ate = FALSE,
         direction = "DOWN"
  PROVE  SnakeInv
<1>1. Start \in Grid
  BY SnakeAssumption DEF Grid
<1>2. snake \in Seq(Grid) /\ Len(snake) = 0
  OBVIOUS
<1>3. SnakeWhole
  BY <1>2 DEF SnakeWhole, IsInjective
<1>4. QED
  BY <1>1, <1>2, <1>3 DEF SnakeInv

LEMMA UpdateInv ==
  ASSUME SnakeInv, NEW key \in Keys \cup {"esc"}, snake_update(key)
  PROVE  SnakeInv'
<1>1. snake # <<>> /\ ~kill_sig
  BY DEF snake_update
<1>2. PICK capacity \in {snake_capacity, 2 * snake_capacity} :
        LET body == Shifted(Grown(capacity))
            head == Moved(body[1], Turned(key))
        IN  /\ snake_capacity' = capacity
            /\ \/ /\ kill_sig' = TRUE /\ just_ate' = FALSE /\ snake' = body
                  /\ tail' = Start
                  /\ UNCHANGED direction
               \/ snake_reset
               \/ /\ head \notin Range(Tail(body))
                  /\ snake' = <<head>> \o Tail(body)
                  /\ direction' = Turned(key)
                  /\ just_ate' = (head = apple)
                  /\ tail' \in {Start, Last(snake)}
                  /\ UNCHANGED kill_sig
  BY DEF snake_update
<1> DEFINE body == Shifted(Grown(capacity))
           head == Moved(body[1], Turned(key))
<1>3. /\ body \in Seq(Grid) /\ body # <<>>
      /\ Len(body) \in Len(snake) .. Len(snake) + 1
      /\ Len(body) <= capacity
      /\ body[1] = snake[1]
      /\ Len(body) <= BYTE => \A i \in 2 .. Len(body) : body[i] = snake[i - 1]
  BY <1>1, BodyFollows
<1>4. /\ snake_capacity' = capacity
      /\ \/ /\ kill_sig' = TRUE /\ just_ate' = FALSE /\ snake' = body
            /\ tail' = Start
            /\ UNCHANGED direction
         \/ snake_reset
         \/ /\ head \notin Range(Tail(body))
            /\ snake' = <<head>> \o Tail(body)
            /\ direction' = Turned(key)
            /\ just_ate' = (head = apple)
            /\ tail' \in {Start, Last(snake)}
            /\ UNCHANGED kill_sig
  BY <1>2
<1> HIDE DEF body
<1>5. /\ snake \in Seq(Grid) /\ Len(snake) \in Nat \ {0} /\ BYTE \in Nat
      /\ snake_capacity \in Nat /\ capacity \in Nat /\ tail \in Grid /\ Start \in Grid
      /\ direction \in {"LEFT", "RIGHT", "UP", "DOWN"}
  BY <1>1, SnakeAssumption, EmptySeq DEF SnakeInv, Grid
<1>6. Len(body) \in Nat \ {0}
  BY <1>3, <1>5
<1>7. CASE kill_sig' = TRUE /\ just_ate' = FALSE /\ snake' = body /\ tail' = Start
           /\ UNCHANGED direction
  <2>1. \A i \in DOMAIN snake' : snake'[i] \in Grid
    BY <1>3, <1>7, ElementOfSeq
  <2>2. SnakeWhole'
    BY <1>3, <1>4, <1>7, <2>1 DEF SnakeWhole
  <2>3. QED
    BY <1>3, <1>4, <1>5, <1>7, <2>2 DEF SnakeInv
<1>8. CASE snake_reset
  BY <1>3, <1>4, <1>5, <1>6, <1>8, ResetInv
<1>9. CASE /\ head \notin Range(Tail(body))
           /\ snake' = <<head>> \o Tail(body)
           /\ direction' = Turned(key)
           /\ just_ate' = (head = apple)
           /\ tail' \in {Start, Last(snake)}
           /\ UNCHANGED kill_sig
  <2>1. Turned(key) \in {"LEFT", "RIGHT", "UP", "DOWN"}
    BY <1>5 DEF Turned, Keys
  <2>2. body[1] \in Grid
    BY <1>3, <1>6, ElementOfSeq
  <2>3. head \in Grid /\ Adjacent(head, body[1])
    BY <2>1, <2>2, MovedIsAdjacent
  <2> HIDE DEF head
  <2>4. /\ Tail(body) \in Seq(Grid) /\ Len(Tail(body)) = Len(body) - 1
        /\ \A i \in 1 .. Len(body) - 1 : Tail(body)[i] = body[i + 1]
    BY <1>3, HeadTailProperties
  <2>5. /\ snake' \in Seq(Grid) /\ Len(snake') = Len(body)
        /\ snake'[1] = head
        /\ \A i \in 2 .. Len(body) : snake'[i] = body[i]
    <3>1. <<head>> \in Seq(Grid) /\ Len(<<head>>) = 1
      BY <2>3
    <3>2. snake' \in Seq(Grid) /\ Len(snake') = Len(body)
      BY <3>1, <2>4, <1>6, <1>9, ConcatProperties
    <3>3. snake'[1] = head
      BY <3>1, <2>4, <1>6, <1>9
    <3>4. ASSUME NEW i \in 2 .. Len(body)
          PROVE  snake'[i] = body[i]
      <4>1. i - 1 \in 1 .. Len(body) - 1
        BY <1>6
      <4>2. snake'[i] = Tail(body)[i - 1]
        BY <3>1, <2>4, <4>1, <1>6, <1>9
      <4>3. Tail(body)[i - 1] = body[i - 1 + 1]
        BY <2>4, <4>1
      <4>4. i - 1 + 1 = i
        BY <1>6
      <4>5. QED
        BY <4>2, <4>3, <4>4
    <3>5. QED
      BY <3>2, <3>3, <3>4
  <2>6. \A i \in DOMAIN snake' : snake'[i] \in Grid
    BY <2>5, ElementOfSeq
  <2>7. tail' \in Grid
    <3>1. Last(snake) \in Grid
      BY <1>5, ElementOfSeq DEF Last
    <3>2. QED
      BY <3>1, <1>5, <1>9
  <2>8. ASSUME Len(snake') <= BYTE, ~kill_sig'
        PROVE  /\ IsInjective(snake')
               /\ \A i \in 1 .. Len(snake') - 1 : Adjacent(snake'[i], snake'[i + 1])
    <3>1. /\ IsInjective(snake)
          /\ \A i \in 1 .. Len(snake) - 1 : Adjacent(snake[i], snake[i + 1])
      BY <2>8, <1>1, <1>3, <1>5, <2>5 DEF SnakeInv, SnakeWhole
    <3>2. \A i \in 2 .. Len(body) : snake'[i] = snake[i - 1] /\ i - 1 \in 1 .. Len(snake)
      BY <2>5, <2>8, <1>3, <1>5
    <3>3. ASSUME NEW i \in 2 .. Len(body)
          PROVE  snake'[i] # head
      <4>1. i - 1 \in DOMAIN Tail(body) /\ Tail(body)[i - 1] = body[i]
        BY <2>4, <1>6
      <4>2. QED
        BY <4>1, <2>5, <1>9 DEF Range
    <3>4. IsInjective(snake')
      <4>1. SUFFICES ASSUME NEW i \in 1 .. Len(body), NEW j \in 1 .. Len(body),
                            snake'[i] = snake'[j]
                     PROVE  i = j
        BY <2>5 DEF IsInjective
      <4>2. CASE i = 1 \/ j = 1
        BY <4>1, <4>2, <2>5, <3>3
      <4>3. CASE i # 1 /\ j # 1
        <5>1. i \in 2 .. Len(body) /\ j \in 2 .. Len(body)
          BY <4>3
        <5>2. snake[i - 1] = snake[j - 1] /\ i - 1 \in DOMAIN snake /\ j - 1 \in DOMAIN snake
          BY <4>1, <5>1, <3>2, <1>5
        <5>3. i - 1 = j - 1
          BY <5>2, <3>1 DEF IsInjective
        <5>4. QED
          BY <5>3
      <4>4. QED
        BY <4>2, <4>3
    <3>5. ASSUME NEW i \in 1 .. Len(snake') - 1
          PROVE  Adjacent(snake'[i], snake'[i + 1])
      <4>1. i + 1 \in 2 .. Len(body)
        BY <2>5, <1>6
      <4>2. snake'[i + 1] = snake[i] /\ i \in 1 .. Len(snake)
        BY <4>1, <3>2
      <4>3. CASE i = 1
        BY <4>2, <4>3, <2>3, <2>5, <1>3
      <4>4. CASE i # 1
        <5>1. i \in 2 .. Len(body) /\ i - 1 \in 1 .. Len(snake) - 1
          BY <4>1, <4>2, <4>4, <1>5
        <5>2. snake'[i] = snake[i - 1]
          BY <5>1, <3>2
        <5>3. Adjacent(snake[i - 1], snake[i - 1 + 1])
          BY <5>1, <3>1
        <5>4. i - 1 + 1 = i
          BY <5>1
        <5>5. QED
          BY <4>2, <5>2, <5>3, <5>4
      <4>5. QED
        BY <4>3, <4>4
    <3>6. QED
      BY <3>4, <3>5
  <2>9. SnakeWhole'
    BY <1>3, <1>4, <2>5, <2>6, <2>8 DEF SnakeWhole
  <2>10. QED
    BY <1>4, <1>5, <1>9, <2>1, <2>5, <2>7, <2>9 DEF SnakeInv
<1>10. QED
  BY <1>4, <1>7, <1>8, <1>9

LEMMA NextSnakeInv == SnakeInv /\ [Next]_vars => SnakeInv'
<1> SUFFICES ASSUME SnakeInv, [Next]_vars
             PROVE  SnakeInv'
  OBVIOUS
<1>1. CASE UNCHANGED game
  BY <1>1 DEF game, SnakeInv, SnakeWhole
<1>2. CASE cmd_snake
  <2>1. CASE SnakeBegins
    <3>1. snake_capacity' \in Nat /\ 1 <= snake_capacity'
      BY <2>1, SnakeAssumption DEF SnakeBegins, SnakeInv
    <3>2. QED
      BY <2>1, <3>1, ResetInv DEF SnakeBegins
  <2>2. QED
    BY <1>1, <1>2, <2>1 DEF cmd_snake
<1>3. CASE Play
  BY <1>3, UpdateInv DEF Play
<1>4. CASE Leave_snake
  <2>1. CASE SnakeEnds
    <3>1. /\ snake' = <<>> /\ snake_capacity' \in Nat /\ tail' = Start
          /\ just_ate' = FALSE /\ direction' = "DOWN"
      BY <2>1 DEF SnakeEnds, SnakeInv
    <3>2. Start \in Grid
      BY SnakeAssumption DEF Grid
    <3>3. snake' \in Seq(Grid) /\ Len(snake') = 0
      BY <3>1
    <3>4. SnakeWhole'
      BY <3>1, <3>3 DEF SnakeWhole, IsInjective
    <3>5. QED
      BY <3>1, <3>2, <3>3, <3>4 DEF SnakeInv
  <2>2. QED
    BY <1>1, <1>4, <2>1 DEF Leave_snake
<1>5. CASE Boot \/ Start_shell \/ Key \/ cmd_llm \/ Encode \/ Generate \/ Leave_llm
  BY <1>1, <1>5 DEF Boot, Start_shell, Key, cmd_llm, Encode, Generate, Leave_llm, Idle
<1>6. CASE UNCHANGED vars
  BY <1>1, <1>6 DEF vars
<1>7. QED
  BY <1>2, <1>3, <1>4, <1>5, <1>6 DEF Next

\* SnakeWhole: the loop over the body, the meals, the reallocation that may fail and
\* the uint8_t coordinates of snake_update keep a snake of up to BYTE segments in one
\* piece, on any grid.
THEOREM SnakeIsWhole == Spec => []SnakeWhole
<1>1. Init => SnakeInv
  <2>1. SUFFICES ASSUME Init
                 PROVE  SnakeInv
    OBVIOUS
  <2>2. /\ snake = <<>> /\ snake_capacity = 0 /\ tail = Start /\ just_ate = FALSE
        /\ direction = "DOWN"
    BY <2>1 DEF Init, NoGame
  <2>3. QED
    BY <2>2, NoSnakeInv
<1>2. SnakeInv /\ [Next]_vars => SnakeInv'
  BY NextSnakeInv
<1>3. SnakeInv => SnakeWhole
  BY DEF SnakeInv
<1>4. QED
  BY <1>1, <1>2, <1>3, PTL DEF Spec

-----------------------------------------------------------------------------
(* Least and greatest numbers.                                             *)

\* The intervals from 0 to the members are ordered by inclusion, which is well-founded
\* on finite sets.
LEMMA LeastNumber ==
  ASSUME NEW S \in SUBSET Nat, S # {}
  PROVE  \E s \in S : \A r \in S : s <= r
<1> DEFINE T == {0 .. s : s \in S}
<1>1. T \subseteq FiniteSubsetsOf(Nat) /\ T # {}
  <2>1. ASSUME NEW s \in S
        PROVE  0 .. s \in SUBSET Nat /\ IsFiniteSet(0 .. s)
    BY FS_Interval
  <2>2. QED
    BY <2>1 DEF FiniteSubsetsOf
<1> HIDE DEF T
<1>2. PICK t \in T : \A u \in T : <<u, t>> \notin StrictSubsetOrdering(Nat)
  BY <1>1, WFMin, FS_StrictSubsetOrderingWellFounded
<1>3. PICK s \in S : t = 0 .. s
  BY DEF T
<1>4. ASSUME NEW r \in S, r < s
      PROVE  FALSE
  <2>1. 0 .. r \in T /\ 0 .. r \in SUBSET Nat /\ 0 .. s \in SUBSET Nat
    BY DEF T
  <2>2. s \in 0 .. s /\ s \notin 0 .. r
    BY <1>4
  <2>3. 0 .. r \subseteq 0 .. s /\ 0 .. r # 0 .. s
    BY <1>4, <2>2
  <2>4. <<0 .. r, t>> \in StrictSubsetOrdering(Nat)
    BY <1>3, <2>1, <2>3 DEF StrictSubsetOrdering
  <2>5. QED
    BY <1>2, <2>1, <2>4
<1>5. QED
  BY <1>4

LEMMA MinIsMember ==
  ASSUME NEW S \in SUBSET Nat, S # {}
  PROVE  Min(S) \in S /\ \A r \in S : Min(S) <= r
BY LeastNumber DEF Min

LEMMA MaxIsMember ==
  ASSUME NEW S \in SUBSET Nat, S # {}, NEW top \in Nat, \A s \in S : s <= top
  PROVE  Max(S) \in S /\ \A s \in S : s <= Max(S)
<1> DEFINE T == {top - s : s \in S}
<1>1. T \in SUBSET Nat /\ T # {}
  <2>1. ASSUME NEW s \in S
        PROVE  top - s \in Nat
    <3>1. s \in Nat /\ s <= top
      OBVIOUS
    <3>2. QED
      BY <3>1
  <2>2. QED
    BY <2>1
<1>2. PICK t \in T : \A r \in T : t <= r
  BY <1>1, LeastNumber
<1>3. PICK s \in S : t = top - s
  OBVIOUS
<1>4. \A r \in S : s >= r
  <2>1. SUFFICES ASSUME NEW r \in S
                 PROVE  s >= r
    OBVIOUS
  <2>2. top - s <= top - r
    BY <1>2, <1>3
  <2>3. QED
    BY <2>2
<1>5. QED
  BY <1>4 DEF Max

\* The values of a sequence of numbers have a bound: a shortest beginning without one
\* would have one without its last.
LEMMA SeqHasBound ==
  ASSUME NEW len \in Nat, NEW f \in [1 .. len -> Nat]
  PROVE  \E top \in Nat : \A i \in 1 .. len : f[i] <= top
<1> DEFINE Bad == {k \in 0 .. len : ~\E top \in Nat : \A i \in 1 .. k : f[i] <= top}
<1>1. SUFFICES ASSUME Bad # {}
               PROVE  FALSE
  <2>1. len \in 0 .. len
    OBVIOUS
  <2>2. QED
    BY <1>1, <2>1
<1>2. Bad \in SUBSET Nat
  OBVIOUS
<1>3. PICK k \in Bad : \A r \in Bad : k <= r
  BY <1>1, <1>2, LeastNumber
<1>4. k \in 0 .. len /\ k # 0
  <2>1. k \in 0 .. len
    OBVIOUS
  <2>2. k # 0
    <3>1. SUFFICES ASSUME k = 0 PROVE FALSE
      OBVIOUS
    <3>2. \A i \in 1 .. k : f[i] <= 0
      BY <3>1
    <3>3. QED
      BY <3>2
  <2>3. QED
    BY <2>1, <2>2
<1>5. k - 1 \in 0 .. len /\ k - 1 \notin Bad
  <2>1. k - 1 \in 0 .. len /\ ~(k <= k - 1)
    BY <1>4
  <2>2. QED
    BY <1>3, <2>1
<1>6. PICK top \in Nat : \A i \in 1 .. k - 1 : f[i] <= top
  BY <1>5
<1>7. k \in 1 .. len /\ f[k] \in Nat
  BY <1>4
<1> DEFINE higher == IF f[k] > top THEN f[k] ELSE top
<1>8. higher \in Nat /\ \A i \in 1 .. k : f[i] <= higher
  <2>1. higher \in Nat /\ top <= higher /\ f[k] <= higher
    BY <1>7
  <2>2. ASSUME NEW i \in 1 .. k
        PROVE  f[i] <= higher
    <3>1. f[i] \in Nat
      BY <1>4
    <3>2. CASE i = k
      BY <3>2, <2>1
    <3>3. CASE i # k
      <4>1. i \in 1 .. k - 1
        BY <3>3, <1>4
      <4>2. f[i] <= top
        BY <4>1, <1>6
      <4>3. QED
        BY <4>2, <3>1, <2>1
    <3>4. QED
      BY <3>2, <3>3
  <2>3. QED
    BY <2>1, <2>2
<1>9. QED
  BY <1>8

-----------------------------------------------------------------------------
(* The memory.                                                             *)

\* A page that nobody will be given as a new page table.
Spoken(t) == t \notin Usable \/ (step \notin {"pmm", "heap"} /\ t \in bitmap)

IsTable(t) ==
  \/ t \in {machine.pml4} \cup {m.to : m \in Mapped}
  \/ \E i \in 2 .. Len(handed) : handed[i] = [start |-> t, count |-> 1]

Path(i) == machine.window[i].path

\* The tables f lead down the first k indices to page i of the window.
Way(place, f, i, k) ==
  /\ f[0] = machine.pml4
  /\ \A h \in 0 .. k : f[h] \in DOMAIN place /\ place[f[h]] = SubSeq(Path(i), 1, h)
  /\ \A h \in 1 .. k : /\ <<f[h - 1], Path(i)[h]>> \in DOMAIN entries
                       /\ entries[<<f[h - 1], Path(i)[h]>>].to = f[h]

\* Page i of the window is mapped.
Reached(place, i) ==
  \E f \in [0 .. 3 -> DOMAIN place] :
    /\ Way(place, f, i, 3)
    /\ <<f[3], Path(i)[4]>> \in DOMAIN entries
    /\ entries[<<f[3], Path(i)[4]>>] = [to |-> machine.window[i].to, huge |-> FALSE]

\* The pages of the window that vmm_map_page is through with.
Dealt == IF step \in {"rings", "done"} THEN DOMAIN machine.window
         ELSE IF walk = NULL THEN {} ELSE 1 .. walk.page - 1

\* place knows where each table is.
Placed(place) ==
  /\ machine.pml4 \in DOMAIN place /\ place[machine.pml4] = <<>>
  /\ \A t \in DOMAIN place : Spoken(t) /\ IsTable(t) /\ place[t] \in Places(machine)
  /\ \A e \in DOMAIN entries :
       e[1] \in DOMAIN place /\ Append(place[e[1]], e[2]) \in Places(machine) =>
         /\ entries[e].to \in DOMAIN place
         /\ place[entries[e].to] = Append(place[e[1]], e[2])
  /\ walk # NULL =>
       \E f \in [0 .. walk.level - 1 -> DOMAIN place] :
         Way(place, f, walk.page, walk.level - 1) /\ f[walk.level - 1] = walk.table
  /\ RanOut \/ \A i \in Dealt : Reached(place, i)

Marked == ((0 .. highest_page - 1) \ Usable) \cup BitmapPages \cup {0} \subseteq bitmap

HandedTruth ==
  \A i \in DOMAIN handed :
    LET p == Pages(handed[i])
    IN  handed[i].start # NULL =>
          /\ p \subseteq (Usable \ {0}) \cap bitmap
          /\ p \cap BitmapPages = {}
          /\ \A j \in 1 .. i - 1 : handed[j].start = NULL \/ p \cap Pages(handed[j]) = {}

StepInv ==
  /\ step \in {"pmm", "heap", "map", "rings", "done"}
  /\ step = "pmm" => handed = <<>>
  /\ step = "heap" => handed = <<>> /\ (bitmap = NULL \/ Marked)
  /\ step \in {"map", "rings", "done"} => handed # <<>> /\ Marked
  /\ step \in {"pmm", "heap", "map"} => ring = 0
  /\ step = "rings" => ring \in 0 .. Len(Requests) - 1
  /\ walk # NULL =>
       /\ step = "map"
       /\ walk = [table |-> walk.table, level |-> walk.level, page |-> walk.page]
       /\ walk.level \in 1 .. 4 /\ walk.page \in 1 .. Len(machine.window)

EntriesInv ==
  \A e \in DOMAIN entries :
    Spoken(e[1]) /\ (e \in DOMAIN machine.entries \/ IsTable(e[1]))

MemInv ==
  /\ machine \in Machines
  /\ handed \in Seq([start : Nat \cup {NULL}, count : Nat])
  /\ StepInv
  /\ HandedTruth
  /\ EntriesInv
  /\ \E place : Placed(place)

-----------------------------------------------------------------------------
(* What the machine has.                                                   *)

LEMMA MapFacts ==
  ASSUME machine \in Machines
  PROVE  /\ machine.map \in Seq([start : Nat, count : Nat, usable : BOOLEAN, counted : BOOLEAN])
         /\ \E i \in DOMAIN machine.map : machine.map[i].counted
BY MachinesAssumption

LEMMA WindowFacts ==
  ASSUME machine \in Machines
  PROVE  /\ machine.window \in Seq([path : Seq(Nat), to : Nat])
         /\ \A i \in DOMAIN machine.window :
              /\ Path(i) \in Seq(Nat) /\ Len(Path(i)) = 4
              /\ \A l \in 1 .. 4 : Path(i)[l] \in Nat
         /\ \A i, j \in DOMAIN machine.window : Path(i) = Path(j) => i = j
<1>1. machine.window \in Seq([path : Seq(Nat), to : Nat])
  BY MachinesAssumption
<1>2. \A i \in DOMAIN machine.window : Path(i) \in Seq(Nat)
  <2>1. SUFFICES ASSUME NEW i \in DOMAIN machine.window
                 PROVE  Path(i) \in Seq(Nat)
    OBVIOUS
  <2>2. machine.window[i] \in [path : Seq(Nat), to : Nat]
    <3>1. i \in 1 .. Len(machine.window)
      BY <1>1
    <3>2. QED
      BY <3>1, <1>1, ElementOfSeq
  <2>3. QED
    BY <2>2 DEF Path
<1>3. /\ \A i \in DOMAIN machine.window : Len(Path(i)) = 4
      /\ \A i, j \in DOMAIN machine.window : Path(i) = Path(j) => i = j
  BY MachinesAssumption DEF Path
<1>4. ASSUME NEW i \in DOMAIN machine.window, NEW l \in 1 .. 4
      PROVE  Path(i)[l] \in Nat
  <2>1. Path(i) \in Seq(Nat) /\ l \in 1 .. Len(Path(i))
    BY <1>2, <1>3
  <2>2. QED
    BY <2>1, ElementOfSeq
<1>5. QED
  BY <1>1, <1>2, <1>3, <1>4

LEMMA HighestPage ==
  ASSUME machine \in Machines
  PROVE  highest_page \in Nat
<1> DEFINE map == machine.map
           S == {s \in Range(map) : s.counted}
           Tops == {r.start + r.count : r \in S}
           f == [i \in 1 .. Len(map) |-> map[i].start + map[i].count]
<1>1. /\ map \in Seq([start : Nat, count : Nat, usable : BOOLEAN, counted : BOOLEAN])
      /\ \E i \in DOMAIN map : map[i].counted
  BY MapFacts
<1>2. DOMAIN map = 1 .. Len(map) /\ Len(map) \in Nat
  BY <1>1
<1>3. \A i \in 1 .. Len(map) : map[i].start \in Nat /\ map[i].count \in Nat
  <2>1. SUFFICES ASSUME NEW i \in 1 .. Len(map)
                 PROVE  map[i].start \in Nat /\ map[i].count \in Nat
    OBVIOUS
  <2>2. map[i] \in [start : Nat, count : Nat, usable : BOOLEAN, counted : BOOLEAN]
    BY <1>1, ElementOfSeq
  <2>3. QED
    BY <2>2
<1> HIDE DEF map
<1>4. f \in [1 .. Len(map) -> Nat]
  BY <1>3
<1>5. PICK top \in Nat : \A i \in 1 .. Len(map) : f[i] <= top
  BY <1>2, <1>4, SeqHasBound
<1>6. \A r \in S : \E i \in 1 .. Len(map) : r = map[i]
  BY <1>2 DEF Range
<1>7. ASSUME NEW x \in Tops
      PROVE  x \in Nat /\ x <= top
  <2>1. PICK r \in S : x = r.start + r.count
    OBVIOUS
  <2>2. PICK i \in 1 .. Len(map) : r = map[i]
    BY <1>6
  <2>3. x = f[i]
    BY <2>1, <2>2
  <2>4. QED
    BY <2>3, <1>4, <1>5
<1>8. Tops # {}
  <2>1. PICK i \in DOMAIN map : map[i].counted
    BY <1>1
  <2>2. map[i] \in S
    BY <2>1 DEF Range
  <2>3. QED
    BY <2>2
<1>9. Tops \in SUBSET Nat /\ \A x \in Tops : x <= top
  BY <1>7
<1> HIDE DEF Tops
<1>10. Max(Tops) \in Tops
  BY <1>8, <1>9, MaxIsMember
<1>11. highest_page = Max(Tops)
  BY DEF highest_page, Tops, map
<1>12. QED
  BY <1>9, <1>10, <1>11

LEMMA SameMachine ==
  ASSUME machine' = machine
  PROVE  /\ highest_page' = highest_page /\ Usable' = Usable /\ BitmapPages' = BitmapPages
         /\ Places(machine)' = Places(machine) /\ Mapped' = Mapped
         /\ \A i : Path(i)' = Path(i)
BY DEF highest_page, Usable, BitmapPages, bitmap_phys, bitmap_size, Places, Mapped, Path

\* The first fit is pages in usable memory that nobody has.
LEMMA AllocatedIsFree ==
  ASSUME machine \in Machines, Marked, NEW count \in Nat,
         pmm_alloc_pages(count) # NULL,
         NEW p \in pmm_alloc_pages(count) .. pmm_alloc_pages(count) + count - 1
  PROVE  p \in Usable \ {0} /\ p \notin BitmapPages /\ p \notin bitmap
<1>1. highest_page \in Nat
  BY HighestPage
<1>2. Runs(count) \in SUBSET Nat /\ Runs(count) # {} /\ pmm_alloc_pages(count) = Min(Runs(count))
  BY <1>1 DEF pmm_alloc_pages, Runs
<1>3. pmm_alloc_pages(count) \in Runs(count)
  BY <1>2, MinIsMember
<1> DEFINE s == pmm_alloc_pages(count)
<1>4. s \in 1 .. highest_page - count /\ (s .. s + count - 1) \cap bitmap = {}
  BY <1>3 DEF Runs
<1> HIDE DEF s
<1>5. p \in s .. s + count - 1
  BY DEF s
<1>6. p \in 0 .. highest_page - 1 /\ p # 0 /\ p \notin bitmap
  BY <1>1, <1>4, <1>5
<1>7. QED
  BY <1>6 DEF Marked

LEMMA AllocatedIsNat ==
  ASSUME machine \in Machines, NEW count \in Nat, pmm_alloc_pages(count) # NULL
  PROVE  pmm_alloc_pages(count) \in Nat /\ count \in Nat \ {0}
<1>1. highest_page \in Nat
  BY HighestPage
<1>2. Runs(count) \in SUBSET Nat /\ Runs(count) # {} /\ pmm_alloc_pages(count) = Min(Runs(count))
      /\ count # 0
  BY <1>1 DEF pmm_alloc_pages, Runs
<1>3. QED
  BY <1>2, MinIsMember

\* What every allocation does, whether it fails or not.
LEMMA TakeKeeps ==
  ASSUME machine \in Machines, machine' = machine, Marked, HandedTruth,
         handed \in Seq([start : Nat \cup {NULL}, count : Nat]),
         NEW count \in Nat, Take(pmm_alloc_pages(count), count)
  PROVE  /\ handed' \in Seq([start : Nat \cup {NULL}, count : Nat])
         /\ Len(handed') = Len(handed) + 1
         /\ \A i \in 1 .. Len(handed) : handed'[i] = handed[i]
         /\ LET start1 == pmm_alloc_pages(count)
            IN  IF start1 = NULL
                THEN RanOut' /\ bitmap' = bitmap
                ELSE /\ handed'[Len(handed) + 1] = [start |-> start1, count |-> count]
                     /\ start1 \in Usable /\ start1 \notin bitmap /\ start1 \in bitmap'
         /\ RanOut => RanOut'
         /\ bitmap \subseteq bitmap'
         /\ HandedTruth' /\ Marked'
<1> DEFINE from == pmm_alloc_pages(count)
           last == [start |-> from, count |-> IF from = NULL THEN 0 ELSE count]
<1>1. /\ bitmap' = IF from = NULL THEN bitmap ELSE bitmap \cup (from .. from + count - 1)
      /\ handed' = Append(handed, last)
  BY DEF Take
<1>2. from # NULL => from \in Nat /\ count \in Nat \ {0}
  BY AllocatedIsNat
<1>3. from # NULL => \A p \in from .. from + count - 1 :
                       p \in Usable \ {0} /\ p \notin BitmapPages /\ p \notin bitmap
  BY AllocatedIsFree
<1> HIDE DEF from
<1>4. last \in [start : Nat \cup {NULL}, count : Nat]
  BY <1>2
<1> HIDE DEF last
<1>5. /\ handed' \in Seq([start : Nat \cup {NULL}, count : Nat])
      /\ Len(handed') = Len(handed) + 1
      /\ \A i \in 1 .. Len(handed) : handed'[i] = handed[i]
      /\ handed'[Len(handed) + 1] = last
  BY <1>1, <1>4, AppendProperties
<1>6. Len(handed) \in Nat /\ DOMAIN handed = 1 .. Len(handed)
      /\ DOMAIN handed' = 1 .. Len(handed) + 1
  BY <1>5
<1>7. bitmap \subseteq bitmap'
  BY <1>1
<1>8. IF from = NULL THEN RanOut' /\ bitmap' = bitmap
      ELSE /\ last = [start |-> from, count |-> count]
           /\ from \in Usable /\ from \notin bitmap /\ from \in bitmap'
  <2>1. CASE from = NULL
    BY <2>1, <1>1, <1>5, <1>6 DEF last, RanOut
  <2>2. CASE from # NULL
    <3>1. from \in from .. from + count - 1
      BY <2>2, <1>2
    <3>2. QED
      BY <2>2, <3>1, <1>1, <1>3 DEF last
  <2>3. QED
    BY <2>1, <2>2
<1>9. RanOut => RanOut'
  <2>1. SUFFICES ASSUME NEW i \in DOMAIN handed, handed[i].start = NULL
                 PROVE  RanOut'
    BY DEF RanOut
  <2>2. i \in DOMAIN handed' /\ handed'[i].start = NULL
    BY <2>1, <1>5, <1>6
  <2>3. QED
    BY <2>2 DEF RanOut
<1>10. Usable' = Usable /\ BitmapPages' = BitmapPages /\ highest_page' = highest_page
  BY SameMachine
<1>11. Marked'
  BY <1>7, <1>10 DEF Marked
<1>12. HandedTruth'
  <2>1. SUFFICES ASSUME NEW i \in DOMAIN handed', handed'[i].start # NULL
                 PROVE  /\ Pages(handed'[i]) \subseteq (Usable \ {0}) \cap bitmap'
                        /\ Pages(handed'[i]) \cap BitmapPages = {}
                        /\ \A j \in 1 .. i - 1 : \/ handed'[j].start = NULL
                                                \/ Pages(handed'[i]) \cap Pages(handed'[j]) = {}
    BY <1>10 DEF HandedTruth
  <2>2. CASE i \in 1 .. Len(handed)
    <3>1. handed'[i] = handed[i] /\ i \in DOMAIN handed
      BY <2>2, <1>5, <1>6
    <3>2. \A j \in 1 .. i - 1 : handed'[j] = handed[j]
      BY <2>2, <1>5, <1>6
    <3>3. /\ Pages(handed[i]) \subseteq (Usable \ {0}) \cap bitmap
          /\ Pages(handed[i]) \cap BitmapPages = {}
          /\ \A j \in 1 .. i - 1 : handed[j].start = NULL \/ Pages(handed[i]) \cap Pages(handed[j]) = {}
      BY <3>1, <2>1 DEF HandedTruth
    <3>4. QED
      BY <3>1, <3>2, <3>3, <1>7
  <2>3. CASE i = Len(handed) + 1
    <3>1. handed'[i] = last /\ from # NULL
      BY <2>1, <2>3, <1>5 DEF last
    <3>2. Pages(handed'[i]) = from .. from + count - 1
      BY <3>1 DEF last, Pages
    <3>3. /\ Pages(handed'[i]) \subseteq (Usable \ {0}) \cap bitmap'
          /\ Pages(handed'[i]) \cap BitmapPages = {}
          /\ Pages(handed'[i]) \cap bitmap = {}
      BY <3>1, <3>2, <1>1, <1>3
    <3>4. ASSUME NEW j \in 1 .. i - 1, handed'[j].start # NULL
          PROVE  Pages(handed'[i]) \cap Pages(handed'[j]) = {}
      <4>1. j \in DOMAIN handed /\ handed'[j] = handed[j]
        BY <2>3, <1>5, <1>6
      <4>2. Pages(handed[j]) \subseteq bitmap
        BY <3>4, <4>1 DEF HandedTruth
      <4>3. QED
        BY <4>1, <4>2, <3>3
    <3>5. QED
      BY <3>3, <3>4
  <2>4. QED
    BY <2>2, <2>3, <1>6
<1>13. QED
  BY <1>5, <1>7, <1>8, <1>9, <1>11, <1>12 DEF from

-----------------------------------------------------------------------------
(* Places.                                                                 *)

LEMMA PrefixFacts ==
  ASSUME machine \in Machines, NEW i \in DOMAIN machine.window
  PROVE  /\ SubSeq(Path(i), 1, 0) = <<>>
         /\ \A h \in 0 .. 3 : /\ SubSeq(Path(i), 1, h) \in Places(machine)
                              /\ Append(SubSeq(Path(i), 1, h), Path(i)[h + 1]) = SubSeq(Path(i), 1, h + 1)
         /\ SubSeq(Path(i), 1, 4) = Path(i)
         /\ Path(i) \notin Places(machine)
         /\ \A h \in 0 .. 4 : Len(SubSeq(Path(i), 1, h)) = h
<1>1. Path(i) \in Seq(Nat) /\ Len(Path(i)) = 4 /\ \A l \in 1 .. 4 : Path(i)[l] \in Nat
  BY WindowFacts
<1>2. \A h \in 0 .. 4 : /\ SubSeq(Path(i), 1, h) \in Seq(Nat)
                        /\ Len(SubSeq(Path(i), 1, h)) = h
                        /\ \A j \in 1 .. h : SubSeq(Path(i), 1, h)[j] = Path(i)[j]
  <2>1. SUFFICES ASSUME NEW h \in 0 .. 4
                 PROVE  /\ SubSeq(Path(i), 1, h) \in Seq(Nat)
                        /\ Len(SubSeq(Path(i), 1, h)) = h
                        /\ \A j \in 1 .. h : SubSeq(Path(i), 1, h)[j] = Path(i)[j]
    OBVIOUS
  <2>2. \A j \in 1 .. h : Path(i)[j] \in Nat
    BY <1>1
  <2>3. QED
    BY <2>2, SubSeqProperties
<1>3. SubSeq(Path(i), 1, 0) = <<>>
  BY SubSeqEmpty
<1>4. ASSUME NEW h \in 0 .. 3
      PROVE  /\ SubSeq(Path(i), 1, h) \in Places(machine)
             /\ Append(SubSeq(Path(i), 1, h), Path(i)[h + 1]) = SubSeq(Path(i), 1, h + 1)
  <2>1. SubSeq(Path(i), 1, h) \in Places(machine)
    <3>1. CASE h = 0
      BY <3>1, <1>3 DEF Places
    <3>2. CASE h \in 1 .. 3
      BY <3>2 DEF Places, Path
    <3>3. QED
      BY <3>1, <3>2
  <2>2. Path(i)[h + 1] \in Nat
    BY <1>1
  <2> DEFINE s == Append(SubSeq(Path(i), 1, h), Path(i)[h + 1])
             t == SubSeq(Path(i), 1, h + 1)
  <2>3. /\ s \in Seq(Nat) /\ Len(s) = h + 1
        /\ \A j \in 1 .. h : s[j] = SubSeq(Path(i), 1, h)[j]
        /\ s[h + 1] = Path(i)[h + 1]
    BY <1>2, <2>2, AppendProperties
  <2>4. t \in Seq(Nat) /\ Len(t) = h + 1 /\ \A j \in 1 .. h + 1 : t[j] = Path(i)[j]
    <3>1. h + 1 \in 0 .. 4
      OBVIOUS
    <3>2. QED
      BY <3>1, <1>2
  <2>5. \A j \in 1 .. h : SubSeq(Path(i), 1, h)[j] = Path(i)[j]
    BY <1>2
  <2> HIDE DEF s, t
  <2>6. \A j \in 1 .. Len(s) : s[j] = t[j]
    BY <2>3, <2>4, <2>5
  <2>7. s = t
    BY <2>3, <2>4, <2>6, SeqEqual
  <2>8. QED
    BY <2>1, <2>7 DEF s, t
<1>5. SubSeq(Path(i), 1, 4) = Path(i)
  BY <1>1, SubSeqFull
<1>6. Path(i) \notin Places(machine)
  <2>1. SUFFICES ASSUME Path(i) \in Places(machine)
                 PROVE  FALSE
    OBVIOUS
  <2>2. CASE Path(i) = <<>>
    BY <2>2, <1>1
  <2>3. ASSUME NEW j \in DOMAIN machine.window, NEW k \in 1 .. 3,
               Path(i) = SubSeq(Path(j), 1, k)
        PROVE  FALSE
    <3>1. Path(j) \in Seq(Nat) /\ Len(Path(j)) = 4 /\ \A l \in 1 .. 4 : Path(j)[l] \in Nat
      BY WindowFacts
    <3>2. \A l \in 1 .. k : Path(j)[l] \in Nat
      BY <3>1
    <3>3. Len(SubSeq(Path(j), 1, k)) = k
      BY <3>2, SubSeqProperties
    <3>4. QED
      BY <2>3, <3>3, <1>1
  <2>4. QED
    BY <2>1, <2>2, <2>3 DEF Places, Path
<1>7. QED
  BY <1>2, <1>3, <1>4, <1>5, <1>6

\* Two pages of the window part at the last index, if not before.
LEMMA PagesPart ==
  ASSUME machine \in Machines, NEW i \in DOMAIN machine.window, NEW j \in DOMAIN machine.window,
         SubSeq(Path(i), 1, 3) = SubSeq(Path(j), 1, 3), Path(i)[4] = Path(j)[4]
  PROVE  i = j
<1>1. 3 \in 0 .. 3 /\ 3 + 1 = 4
  OBVIOUS
<1>2. \A x \in DOMAIN machine.window :
        Append(SubSeq(Path(x), 1, 3), Path(x)[3 + 1]) = SubSeq(Path(x), 1, 3 + 1)
  BY <1>1, PrefixFacts
<1>3. \A x \in DOMAIN machine.window : Append(SubSeq(Path(x), 1, 3), Path(x)[4]) = Path(x)
  BY <1>1, <1>2, PrefixFacts
<1>4. Path(i) = Path(j)
  BY <1>3
<1>5. QED
  BY <1>4, WindowFacts

-----------------------------------------------------------------------------
(* The steps of _start.                                                    *)

LEMMA MemInitInv ==
  ASSUME MemoryInit
  PROVE  MemInv
<1>1. /\ machine \in Machines /\ handed = <<>> /\ step = "pmm" /\ walk = NULL /\ ring = 0
      /\ entries = machine.entries
  BY DEF MemoryInit
<1>2. StepInv
  BY <1>1 DEF StepInv
<1>3. handed \in Seq([start : Nat \cup {NULL}, count : Nat]) /\ DOMAIN handed = {}
  BY <1>1
<1>4. HandedTruth
  BY <1>3 DEF HandedTruth
<1> DEFINE Reported(t) == \E i \in DOMAIN machine.map :
                            machine.map[i].usable /\ t \in Pages(machine.map[i])
<1>5. PICK T \in SUBSET ({machine.pml4} \cup {x.to : x \in Range(machine.entries)}) :
        /\ machine.pml4 \in T
        /\ \A t \in T \cup {e[1] : e \in DOMAIN machine.entries} : ~Reported(t)
        /\ \E place \in [T -> Places(machine)] :
             /\ place[machine.pml4] = <<>>
             /\ \A e \in DOMAIN machine.entries :
                  e[1] \in T /\ Append(place[e[1]], e[2]) \in Places(machine) =>
                    /\ machine.entries[e].to \in T
                    /\ place[machine.entries[e].to] = Append(place[e[1]], e[2])
  BY <1>1, MachinesAssumption
<1>6. PICK place \in [T -> Places(machine)] :
        /\ place[machine.pml4] = <<>>
        /\ \A e \in DOMAIN machine.entries :
             e[1] \in T /\ Append(place[e[1]], e[2]) \in Places(machine) =>
               /\ machine.entries[e].to \in T
               /\ place[machine.entries[e].to] = Append(place[e[1]], e[2])
  BY <1>5
<1>7. \A t \in T \cup {e[1] : e \in DOMAIN machine.entries} : t \notin Usable
  <2>1. SUFFICES ASSUME NEW t, t \in Usable
                 PROVE  Reported(t)
    BY <1>5
  <2>2. PICK s \in Range(machine.map) : s.usable /\ t \in Pages(s)
    BY <2>1 DEF Usable
  <2>3. QED
    BY <2>2 DEF Range
<1>8. EntriesInv
  BY <1>1, <1>7 DEF EntriesInv, Spoken
<1>9. Placed(place)
  <2>1. \A t \in DOMAIN place : Spoken(t) /\ IsTable(t) /\ place[t] \in Places(machine)
    BY <1>5, <1>6, <1>7 DEF Spoken, IsTable, Mapped
  <2>2. Dealt = {}
    BY <1>1 DEF Dealt
  <2>3. QED
    BY <1>1, <1>5, <1>6, <2>1, <2>2 DEF Placed
<1>10. QED
  BY <1>1, <1>2, <1>3, <1>4, <1>8, <1>9 DEF MemInv

\* What a page table is stays one, and who is spoken for stays so.
LEMMA TablesStay ==
  ASSUME machine' = machine, handed \in Seq([start : Nat \cup {NULL}, count : Nat]),
         \/ handed' = handed
         \/ /\ handed' \in Seq([start : Nat \cup {NULL}, count : Nat])
            /\ Len(handed') = Len(handed) + 1
            /\ \A i \in 1 .. Len(handed) : handed'[i] = handed[i],
         \/ step \in {"pmm", "heap"}
         \/ step' \notin {"pmm", "heap"} /\ bitmap \subseteq bitmap'
  PROVE  \A t : (IsTable(t) => IsTable(t)') /\ (Spoken(t) => Spoken(t)')
<1>1. Mapped' = Mapped /\ Usable' = Usable
  BY SameMachine
<1>2. ASSUME NEW t, IsTable(t)
      PROVE  IsTable(t)'
  <2>1. CASE t \in {machine.pml4} \cup {m.to : m \in Mapped}
    BY <2>1, <1>1 DEF IsTable
  <2>2. ASSUME NEW i \in 2 .. Len(handed), handed[i] = [start |-> t, count |-> 1]
        PROVE  IsTable(t)'
    <3>1. Len(handed) \in Nat
      OBVIOUS
    <3>2. i \in 2 .. Len(handed') /\ handed'[i] = handed[i]
      BY <3>1
    <3>3. QED
      BY <2>2, <3>2 DEF IsTable
  <2>3. QED
    BY <1>2, <2>1, <2>2 DEF IsTable
<1>3. ASSUME NEW t, Spoken(t)
      PROVE  Spoken(t)'
  BY <1>1, <1>3 DEF Spoken
<1>4. QED
  BY <1>2, <1>3

\* A step that writes no entry leaves the places.
LEMMA PlacesStay ==
  ASSUME MemInv, NEW place, Placed(place),
         machine' = machine, entries' = entries,
         RanOut' \/ (Dealt' \subseteq Dealt /\ ~RanOut),
         walk' # NULL =>
           \E f \in [0 .. walk'.level - 1 -> DOMAIN place] :
             Way(place, f, walk'.page, walk'.level - 1) /\ f[walk'.level - 1] = walk'.table,
         \A t : (IsTable(t) => IsTable(t)') /\ (Spoken(t) => Spoken(t)')
  PROVE  EntriesInv' /\ Placed(place)'
<1>1. EntriesInv'
  BY DEF MemInv, EntriesInv
<1>2. \A i : Path(i)' = Path(i)
  BY SameMachine
<1>3. \A f, i, k : Way(place, f, i, k)' = Way(place, f, i, k)
  BY <1>2 DEF Way
<1>4. Places(machine)' = Places(machine)
  BY SameMachine
<1>5. \A i : Reached(place, i)' = Reached(place, i)
  BY <1>2, <1>3 DEF Reached
<1>6. /\ machine.pml4 \in DOMAIN place /\ place[machine.pml4] = <<>>
      /\ \A t \in DOMAIN place : Spoken(t)' /\ IsTable(t)' /\ place[t] \in Places(machine)
  BY DEF Placed
<1>7. \A e \in DOMAIN entries :
        e[1] \in DOMAIN place /\ Append(place[e[1]], e[2]) \in Places(machine) =>
          /\ entries[e].to \in DOMAIN place
          /\ place[entries[e].to] = Append(place[e[1]], e[2])
  BY DEF Placed
<1>8. (walk # NULL =>
         \E f \in [0 .. walk.level - 1 -> DOMAIN place] :
           Way(place, f, walk.page, walk.level - 1) /\ f[walk.level - 1] = walk.table)'
  BY <1>2 DEF Way
<1>9. RanOut' \/ \A i \in Dealt' : Reached(place, i)'
  BY <1>5 DEF Placed
<1>10. QED
  BY <1>1, <1>4, <1>6, <1>7, <1>8, <1>9 DEF Placed

\* The other steps of the walk stay as well.
LEMMA WalkStays ==
  ASSUME MemInv, machine' = machine, entries' = entries, Dealt' \subseteq Dealt,
         walk' = walk, RanOut => RanOut',
         \A t : (IsTable(t) => IsTable(t)') /\ (Spoken(t) => Spoken(t)')
  PROVE  EntriesInv' /\ \E place : Placed(place)'
<1>1. PICK place : Placed(place)
  BY DEF MemInv
<1>2. walk' # NULL =>
        \E f \in [0 .. walk'.level - 1 -> DOMAIN place] :
          Way(place, f, walk'.page, walk'.level - 1) /\ f[walk'.level - 1] = walk'.table
  BY <1>1 DEF Placed
<1>3. EntriesInv' /\ Placed(place)'
  BY <1>1, <1>2, PlacesStay
<1>4. QED
  BY <1>3

LEMMA PmmInitInv ==
  ASSUME MemInv, pmm_init
  PROVE  MemInv'
<1>1. /\ step = "pmm" /\ step' = "heap" /\ machine' = machine /\ handed' = handed
      /\ entries' = entries /\ walk' = walk /\ ring' = ring
      /\ bitmap' = IF bitmap_phys = NULL THEN NULL
                   ELSE ((0 .. highest_page - 1) \ Usable) \cup BitmapPages \cup {0}
  BY DEF pmm_init
<1>2. /\ highest_page' = highest_page /\ Usable' = Usable /\ BitmapPages' = BitmapPages
  BY <1>1, SameMachine
<1>3. handed = <<>> /\ walk = NULL /\ ring = 0
  BY <1>1 DEF MemInv, StepInv
<1>4. StepInv'
  <2>1. bitmap' = NULL \/ Marked'
    BY <1>1, <1>2 DEF Marked
  <2>2. QED
    BY <1>1, <1>3, <2>1 DEF StepInv
<1>5. HandedTruth'
  <2>1. DOMAIN handed' = {}
    BY <1>1, <1>3
  <2>2. QED
    BY <2>1 DEF HandedTruth
<1>6. \A t : (IsTable(t) => IsTable(t)') /\ (Spoken(t) => Spoken(t)')
  BY <1>1, TablesStay DEF MemInv
<1>7. Dealt' \subseteq Dealt /\ (RanOut => RanOut')
  BY <1>1, <1>3 DEF Dealt, RanOut
<1>8. EntriesInv' /\ \E place : Placed(place)'
  BY <1>1, <1>6, <1>7, WalkStays
<1>9. QED
  BY <1>1, <1>4, <1>5, <1>8 DEF MemInv

LEMMA HeapInitInv ==
  ASSUME MemInv, heap_init
  PROVE  MemInv'
<1> DEFINE got == {w \in Wants : pmm_alloc_pages(w) # NULL}
           want == IF got = {} THEN 0 ELSE Max(got)
<1>1. /\ step = "heap" /\ step' = "map" /\ machine' = machine /\ bitmap # NULL
      /\ entries' = entries /\ walk' = walk /\ ring' = ring
      /\ Take(pmm_alloc_pages(want), want)
  BY DEF heap_init
<1>2. want \in Nat
  <2>1. CASE got = {}
    BY <2>1
  <2>2. CASE got # {}
    <3>1. got \in SUBSET Nat /\ HEAP_MAX \in Nat /\ \A w \in got : w <= HEAP_MAX
      BY MemoryAssumption DEF Wants
    <3>2. Max(got) \in got
      BY <2>2, <3>1, MaxIsMember
    <3>3. QED
      BY <2>2, <3>1, <3>2
  <2>3. QED
    BY <2>1, <2>2
<1> HIDE DEF want
<1>3. handed = <<>> /\ walk = NULL /\ ring = 0 /\ Marked
  BY <1>1 DEF MemInv, StepInv
<1>4. /\ handed' \in Seq([start : Nat \cup {NULL}, count : Nat])
      /\ Len(handed') = Len(handed) + 1
      /\ \A i \in 1 .. Len(handed) : handed'[i] = handed[i]
      /\ RanOut => RanOut'
      /\ bitmap \subseteq bitmap'
      /\ HandedTruth' /\ Marked'
  BY <1>1, <1>2, <1>3, TakeKeeps DEF MemInv
<1>5. StepInv'
  <2>1. handed' # <<>>
    <3>1. Len(handed') = 0 + 1
      BY <1>3, <1>4
    <3>2. QED
      BY <3>1
  <2>2. QED
    BY <1>1, <1>3, <1>4, <2>1 DEF StepInv
<1>6. \A t : (IsTable(t) => IsTable(t)') /\ (Spoken(t) => Spoken(t)')
  BY <1>1, <1>4, TablesStay DEF MemInv
<1>7. Dealt' \subseteq Dealt
  BY <1>1, <1>3 DEF Dealt
<1>8. EntriesInv' /\ \E place : Placed(place)'
  BY <1>1, <1>4, <1>6, <1>7, WalkStays
<1>9. QED
  BY <1>1, <1>4, <1>5, <1>8 DEF MemInv

LEMMA RequestFacts ==
  /\ Len(Requests) \in Nat \ {0}
  /\ \A i \in 1 .. Len(Requests) : Requests[i] \in Nat
<1>1. RX_DESC_COUNT \in Nat /\ TX_DESC_COUNT \in Nat
  BY MemoryAssumption
<1> DEFINE ones == [i \in 1 .. RX_DESC_COUNT + 2 |-> 1]
           last == <<TX_DESC_COUNT \div 2>>
<1>2. ones \in Seq(Nat) /\ Len(ones) = RX_DESC_COUNT + 2
  <2>1. ones \in [1 .. RX_DESC_COUNT + 2 -> Nat] /\ RX_DESC_COUNT + 2 \in Nat
    BY <1>1
  <2>2. QED
    BY <2>1, SeqDef
<1>3. last \in Seq(Nat) /\ Len(last) = 1
  BY <1>1
<1>4. Requests = ones \o last
  BY DEF Requests
<1> HIDE DEF ones, last
<1>5. Requests \in Seq(Nat) /\ Len(Requests) = Len(ones) + Len(last)
  BY <1>2, <1>3, <1>4, ConcatProperties
<1>6. Len(Requests) \in Nat \ {0}
  BY <1>1, <1>2, <1>3, <1>5
<1>7. QED
  BY <1>5, <1>6, ElementOfSeq

LEMMA RingsInv ==
  ASSUME MemInv, e1000_init
  PROVE  MemInv'
<1>1. /\ step = "rings" /\ machine' = machine /\ entries' = entries /\ walk' = walk
      /\ ring' = ring + 1
      /\ Take(pmm_alloc_pages(Requests[ring']), Requests[ring'])
      /\ step' = IF ring' = Len(Requests) THEN "done" ELSE step
  BY DEF e1000_init
<1>2. walk = NULL /\ ring \in 0 .. Len(Requests) - 1 /\ Marked /\ handed # <<>>
  BY <1>1 DEF MemInv, StepInv
<1>3. Requests[ring'] \in Nat
  BY <1>1, <1>2, RequestFacts
<1>4. /\ handed' \in Seq([start : Nat \cup {NULL}, count : Nat])
      /\ Len(handed') = Len(handed) + 1
      /\ \A i \in 1 .. Len(handed) : handed'[i] = handed[i]
      /\ RanOut => RanOut'
      /\ bitmap \subseteq bitmap'
      /\ HandedTruth' /\ Marked'
  BY <1>1, <1>2, <1>3, TakeKeeps DEF MemInv
<1>5. StepInv'
  <2>1. handed' # <<>>
    <3>1. Len(handed) \in Nat
      BY DEF MemInv
    <3>2. QED
      BY <3>1, <1>4
  <2>2. ring' # Len(Requests) => ring' \in 0 .. Len(Requests) - 1
    BY <1>1, <1>2, RequestFacts
  <2>3. Requests' = Requests
    BY DEF Requests
  <2>4. QED
    BY <1>1, <1>2, <1>4, <2>1, <2>2, <2>3 DEF StepInv
<1>6. \A t : (IsTable(t) => IsTable(t)') /\ (Spoken(t) => Spoken(t)')
  BY <1>1, <1>4, TablesStay DEF MemInv
<1>7. Dealt' \subseteq Dealt
  BY <1>1, <1>2 DEF Dealt
<1>8. EntriesInv' /\ \E place : Placed(place)'
  BY <1>1, <1>4, <1>6, <1>7, WalkStays
<1>9. QED
  BY <1>1, <1>4, <1>5, <1>8 DEF MemInv

LEMMA WalkFacts ==
  ASSUME MemInv, walk # NULL
  PROVE  /\ machine \in Machines /\ step = "map" /\ Marked /\ handed # <<>> /\ ring = 0
         /\ walk = [table |-> walk.table, level |-> walk.level, page |-> walk.page]
         /\ walk.level \in 1 .. 4
         /\ DOMAIN machine.window = 1 .. Len(machine.window) /\ Len(machine.window) \in Nat
         /\ walk.page \in DOMAIN machine.window
         /\ Dealt = 1 .. walk.page - 1
         /\ Slot_of_walk = <<walk.table, Path(walk.page)[walk.level]>>
         /\ Slot_of_walk[1] = walk.table /\ Slot_of_walk[2] = Path(walk.page)[walk.level]
<1>1. machine.window \in Seq([path : Seq(Nat), to : Nat])
  BY WindowFacts DEF MemInv
<1>2. DOMAIN machine.window = 1 .. Len(machine.window) /\ Len(machine.window) \in Nat
  BY <1>1
<1>3. QED
  BY <1>2 DEF MemInv, StepInv, Dealt, Slot_of_walk, Path

\* The walk to a page begins at the root.
LEMMA WalkBegins ==
  ASSUME machine \in Machines, NEW place, Placed(place), NEW i \in DOMAIN machine.window
  PROVE  \E f \in [0 .. 0 -> DOMAIN place] : Way(place, f, i, 0) /\ f[0] = machine.pml4
<1> DEFINE f == [h \in 0 .. 0 |-> machine.pml4]
<1>1. machine.pml4 \in DOMAIN place /\ place[machine.pml4] = <<>>
  BY DEF Placed
<1>2. f \in [0 .. 0 -> DOMAIN place] /\ f[0] = machine.pml4 /\ \A h \in 0 .. 0 : h = 0
  BY <1>1
<1>3. SubSeq(Path(i), 1, 0) = <<>>
  BY PrefixFacts
<1> HIDE DEF f
<1>4. Way(place, f, i, 0)
  <2>1. ASSUME NEW h \in 0 .. 0
        PROVE  f[h] \in DOMAIN place /\ place[f[h]] = SubSeq(Path(i), 1, h)
    BY <1>1, <1>2, <1>3
  <2>2. 1 .. 0 = {}
    OBVIOUS
  <2>3. QED
    BY <1>2, <2>1, <2>2 DEF Way
<1>5. QED
  BY <1>2, <1>4

\* On to the next page of the window, or to the rings.
LEMMA NextPage ==
  ASSUME MemInv, walk # NULL, machine' = machine, ring' = ring, Next_page,
         handed' # <<>>, Marked'
  PROVE  /\ StepInv'
         /\ Dealt' \subseteq Dealt \cup {walk.page}
         /\ walk' # NULL => /\ walk'.level = 1 /\ walk'.table = machine.pml4
                            /\ walk'.page \in DOMAIN machine.window
<1>1. /\ machine \in Machines /\ step = "map" /\ ring = 0
      /\ DOMAIN machine.window = 1 .. Len(machine.window) /\ Len(machine.window) \in Nat
      /\ walk.page \in DOMAIN machine.window
      /\ Dealt = 1 .. walk.page - 1
  BY WalkFacts
<1>2. Requests' = Requests /\ Len(Requests) \in Nat \ {0}
  BY RequestFacts DEF Requests
<1>3. CASE walk.page < Len(machine.window)
  <2>1. /\ walk' = [table |-> machine.pml4, level |-> 1, page |-> walk.page + 1]
        /\ step' = step
    BY <1>3 DEF Next_page, Start_walk
  <2>2. /\ walk'.level = 1 /\ walk'.table = machine.pml4 /\ walk'.page = walk.page + 1
        /\ walk' = [table |-> walk'.table, level |-> walk'.level, page |-> walk'.page]
    BY <2>1
  <2>3. walk'.page \in 1 .. Len(machine.window) /\ 1 \in 1 .. 4
    BY <1>1, <1>3, <2>2
  <2>4. StepInv'
    BY <1>1, <2>1, <2>2, <2>3 DEF StepInv
  <2>5. Dealt' \subseteq Dealt \cup {walk.page}
    BY <1>1, <2>1, <2>2 DEF Dealt
  <2>6. QED
    BY <1>1, <2>2, <2>3, <2>4, <2>5
<1>4. CASE ~(walk.page < Len(machine.window))
  <2>1. walk' = NULL /\ step' = "rings"
    BY <1>4 DEF Next_page
  <2>2. StepInv'
    BY <1>1, <1>2, <2>1 DEF StepInv
  <2>3. Dealt' \subseteq Dealt \cup {walk.page}
    BY <1>1, <1>4, <2>1 DEF Dealt
  <2>4. QED
    BY <2>1, <2>2, <2>3
<1>5. QED
  BY <1>3, <1>4

LEMMA PciFindInv ==
  ASSUME MemInv, pci_find
  PROVE  MemInv'
<1>1. /\ step = "map" /\ walk = NULL /\ machine' = machine /\ bitmap' = bitmap
      /\ handed' = handed /\ entries' = entries /\ ring' = ring
      /\ IF machine.window = <<>> THEN step' = "done" /\ walk' = walk
         ELSE walk' = Start_walk /\ step' = step
  BY DEF pci_find
<1>2. machine \in Machines /\ Marked /\ handed # <<>> /\ ring = 0
  BY <1>1 DEF MemInv, StepInv
<1>3. /\ highest_page' = highest_page /\ Usable' = Usable /\ BitmapPages' = BitmapPages
  BY <1>1, SameMachine
<1>4. Marked' /\ HandedTruth'
  BY <1>1, <1>2, <1>3 DEF Marked, HandedTruth, MemInv
<1>5. \A t : (IsTable(t) => IsTable(t)') /\ (Spoken(t) => Spoken(t)')
  BY <1>1, TablesStay DEF MemInv
<1>6. RanOut' = RanOut
  BY <1>1 DEF RanOut
<1>7. machine.window \in Seq([path : Seq(Nat), to : Nat])
  BY <1>2, WindowFacts
<1>8. CASE machine.window = <<>>
  <2>1. step' = "done" /\ walk' = walk
    BY <1>1, <1>8
  <2>2. StepInv'
    BY <1>1, <1>2, <1>4, <2>1 DEF StepInv
  <2>3. Dealt' \subseteq Dealt
    <3>1. DOMAIN machine.window = {}
      BY <1>7, <1>8
    <3>2. QED
      BY <1>1, <2>1, <3>1 DEF Dealt
  <2>4. EntriesInv' /\ \E place : Placed(place)'
    BY <1>1, <1>5, <1>6, <2>1, <2>3, WalkStays
  <2>5. QED
    BY <1>1, <1>4, <2>2, <2>4 DEF MemInv
<1>9. CASE machine.window # <<>>
  <2>1. step' = step /\ walk' = [table |-> machine.pml4, level |-> 1, page |-> 1]
    BY <1>1, <1>9 DEF Start_walk
  <2>2. /\ walk'.level = 1 /\ walk'.table = machine.pml4 /\ walk'.page = 1
        /\ walk' = [table |-> walk'.table, level |-> walk'.level, page |-> walk'.page]
    BY <2>1
  <2>3. 1 \in DOMAIN machine.window /\ 1 \in 1 .. Len(machine.window) /\ 1 \in 1 .. 4
    BY <1>7, <1>9
  <2>4. StepInv'
    BY <1>1, <1>2, <1>4, <2>1, <2>2, <2>3 DEF StepInv
  <2>5. Dealt' \subseteq Dealt
    BY <1>1, <2>1, <2>2 DEF Dealt
  <2>6. PICK place : Placed(place)
    BY DEF MemInv
  <2>7. \E f \in [0 .. walk'.level - 1 -> DOMAIN place] :
          Way(place, f, walk'.page, walk'.level - 1) /\ f[walk'.level - 1] = walk'.table
    <3>1. walk'.level - 1 = 0
      BY <2>2
    <3>2. \E f \in [0 .. 0 -> DOMAIN place] : Way(place, f, 1, 0) /\ f[0] = machine.pml4
      BY <1>2, <2>3, <2>6, WalkBegins
    <3>3. QED
      BY <2>2, <3>1, <3>2
  <2>8. RanOut' \/ (Dealt' \subseteq Dealt /\ ~RanOut)
    BY <1>6, <2>5
  <2>9. EntriesInv' /\ Placed(place)'
    BY <1>1, <1>5, <2>6, <2>7, <2>8, PlacesStay
  <2>10. QED
    BY <1>1, <1>4, <2>4, <2>9 DEF MemInv
<1>10. QED
  BY <1>8, <1>9

\* Where the walk is, as far as the places tell.
LEMMA SlotPlace ==
  ASSUME MemInv, walk # NULL, NEW place, Placed(place)
  PROVE  /\ walk.table \in DOMAIN place
         /\ place[walk.table] = SubSeq(Path(walk.page), 1, walk.level - 1)
         /\ Append(place[walk.table], Path(walk.page)[walk.level])
              = SubSeq(Path(walk.page), 1, walk.level)
         /\ walk.level < 4 => SubSeq(Path(walk.page), 1, walk.level) \in Places(machine)
<1> DEFINE i == walk.page
           k == walk.level
<1>1. machine \in Machines /\ k \in 1 .. 4 /\ i \in DOMAIN machine.window
  BY WalkFacts
<1>2. PICK f \in [0 .. k - 1 -> DOMAIN place] : Way(place, f, i, k - 1) /\ f[k - 1] = walk.table
  BY DEF Placed
<1> HIDE DEF k
<1>3. k - 1 \in 0 .. k - 1 /\ k - 1 \in 0 .. 3 /\ k - 1 + 1 = k
  BY <1>1
<1>4. walk.table \in DOMAIN place /\ place[walk.table] = SubSeq(Path(i), 1, k - 1)
  BY <1>2, <1>3 DEF Way
<1>5. Append(SubSeq(Path(i), 1, k - 1), Path(i)[k - 1 + 1]) = SubSeq(Path(i), 1, k - 1 + 1)
  BY <1>1, <1>3, PrefixFacts
<1>6. k < 4 => SubSeq(Path(i), 1, k) \in Places(machine)
  <2>1. k < 4 => k \in 0 .. 3
    BY <1>1
  <2>2. QED
    BY <2>1, <1>1, PrefixFacts
<1>7. QED
  BY <1>3, <1>4, <1>5, <1>6 DEF k

LEMMA FollowInv ==
  ASSUME MemInv, get_next_level, Slot_of_walk \in DOMAIN entries
  PROVE  MemInv'
<1> DEFINE i == walk.page
           k == walk.level
           to == entries[Slot_of_walk].to
<1>1. /\ walk # NULL /\ k < 4 /\ machine' = machine /\ ring' = ring
      /\ walk' = [walk EXCEPT !.table = to, !.level = @ + 1]
      /\ bitmap' = bitmap /\ handed' = handed /\ entries' = entries /\ step' = step
  BY DEF get_next_level
<1>2. /\ machine \in Machines /\ step = "map" /\ Marked /\ handed # <<>> /\ ring = 0
      /\ walk = [table |-> walk.table, level |-> k, page |-> i]
      /\ k \in 1 .. 4
      /\ i \in DOMAIN machine.window /\ i \in 1 .. Len(machine.window)
      /\ Dealt = 1 .. i - 1
      /\ Slot_of_walk = <<walk.table, Path(i)[k]>>
      /\ Slot_of_walk[1] = walk.table /\ Slot_of_walk[2] = Path(i)[k]
  BY <1>1, WalkFacts
<1>3. walk' = [table |-> to, level |-> k + 1, page |-> i]
  BY <1>1, <1>2
<1>4. /\ walk'.level = k + 1 /\ walk'.table = to /\ walk'.page = i
      /\ walk' = [table |-> walk'.table, level |-> walk'.level, page |-> walk'.page]
  BY <1>3
<1>5. /\ highest_page' = highest_page /\ Usable' = Usable /\ BitmapPages' = BitmapPages
  BY <1>1, SameMachine
<1>6. Marked' /\ HandedTruth'
  BY <1>1, <1>2, <1>5 DEF Marked, HandedTruth, MemInv
<1>7. \A t : (IsTable(t) => IsTable(t)') /\ (Spoken(t) => Spoken(t)')
  BY <1>1, TablesStay DEF MemInv
<1>8. k + 1 \in 1 .. 4
  BY <1>1, <1>2
<1>9. StepInv'
  BY <1>1, <1>2, <1>4, <1>6, <1>8 DEF StepInv
<1>10. PICK place : Placed(place)
  BY DEF MemInv
<1>11. PICK f \in [0 .. k - 1 -> DOMAIN place] : Way(place, f, i, k - 1) /\ f[k - 1] = walk.table
  BY <1>1, <1>10 DEF Placed
<1>12. to \in DOMAIN place /\ place[to] = SubSeq(Path(i), 1, k)
  <2>1. /\ walk.table \in DOMAIN place
        /\ Append(place[walk.table], Path(i)[k]) = SubSeq(Path(i), 1, k)
        /\ SubSeq(Path(i), 1, k) \in Places(machine)
    BY <1>1, <1>10, SlotPlace
  <2>2. QED
    BY <2>1, <1>2, <1>10 DEF Placed
<1> DEFINE g == [h \in 0 .. k |-> IF h = k THEN to ELSE f[h]]
<1>13. /\ \A h \in 0 .. k : h # k => h \in 0 .. k - 1 /\ g[h] = f[h]
       /\ g[k] = to /\ g[k - 1] = walk.table /\ k \in 0 .. k /\ g[0] = f[0] /\ 0 \in 0 .. k - 1
  BY <1>2, <1>11
<1>14. g \in [0 .. k -> DOMAIN place]
  BY <1>11, <1>12, <1>13
<1> HIDE DEF g
<1>15. Way(place, g, i, k)
  <2>1. g[0] = machine.pml4
    BY <1>11, <1>13 DEF Way
  <2>2. \A h \in 0 .. k : g[h] \in DOMAIN place /\ place[g[h]] = SubSeq(Path(i), 1, h)
    BY <1>11, <1>12, <1>13 DEF Way
  <2>3. ASSUME NEW h \in 1 .. k
        PROVE  /\ <<g[h - 1], Path(i)[h]>> \in DOMAIN entries
               /\ entries[<<g[h - 1], Path(i)[h]>>].to = g[h]
    <3>1. CASE h = k
      BY <3>1, <1>2, <1>13
    <3>2. CASE h # k
      <4>1. h \in 1 .. k - 1 /\ h \in 0 .. k /\ h - 1 \in 0 .. k /\ h - 1 # k
        BY <3>2, <1>2
      <4>2. g[h] = f[h] /\ g[h - 1] = f[h - 1]
        BY <3>2, <4>1, <1>13
      <4>3. QED
        BY <4>1, <4>2, <1>11 DEF Way
    <3>3. QED
      BY <3>1, <3>2
  <2>4. QED
    BY <2>1, <2>2, <2>3 DEF Way
<1>16. \E x \in [0 .. walk'.level - 1 -> DOMAIN place] :
         Way(place, x, walk'.page, walk'.level - 1) /\ x[walk'.level - 1] = walk'.table
  <2>1. walk'.level - 1 = k
    BY <1>2, <1>4
  <2>2. QED
    BY <2>1, <1>4, <1>13, <1>14, <1>15
<1>17. RanOut' \/ (Dealt' \subseteq Dealt /\ ~RanOut)
  BY <1>1, <1>2, <1>4 DEF RanOut, Dealt
<1>18. EntriesInv' /\ Placed(place)'
  BY <1>1, <1>7, <1>10, <1>16, <1>17, PlacesStay
<1>19. QED
  BY <1>1, <1>6, <1>9, <1>18 DEF MemInv

\* No page for a table.
LEMMA NoPageInv ==
  ASSUME MemInv, get_next_level, Slot_of_walk \notin DOMAIN entries, pmm_alloc_pages(1) = NULL
  PROVE  MemInv'
<1>1. /\ walk # NULL /\ machine' = machine /\ ring' = ring /\ entries' = entries
      /\ Take(pmm_alloc_pages(1), 1) /\ Next_page
  BY DEF get_next_level
<1>2. machine \in Machines /\ step = "map" /\ Marked /\ handed # <<>>
  BY <1>1, WalkFacts
<1>3. /\ handed' \in Seq([start : Nat \cup {NULL}, count : Nat])
      /\ Len(handed') = Len(handed) + 1
      /\ \A i \in 1 .. Len(handed) : handed'[i] = handed[i]
      /\ RanOut' /\ bitmap' = bitmap
      /\ HandedTruth' /\ Marked'
  BY <1>1, <1>2, TakeKeeps DEF MemInv
<1>4. handed' # <<>>
  <2>1. Len(handed) \in Nat
    BY DEF MemInv
  <2>2. QED
    BY <2>1, <1>3
<1>5. /\ StepInv'
      /\ walk' # NULL => /\ walk'.level = 1 /\ walk'.table = machine.pml4
                         /\ walk'.page \in DOMAIN machine.window
  BY <1>1, <1>3, <1>4, NextPage
<1>6. step' \notin {"pmm", "heap"}
  BY <1>1, <1>2 DEF Next_page
<1>7. \A t : (IsTable(t) => IsTable(t)') /\ (Spoken(t) => Spoken(t)')
  BY <1>1, <1>3, <1>6, TablesStay DEF MemInv
<1>8. PICK place : Placed(place)
  BY DEF MemInv
<1>9. walk' # NULL =>
        \E f \in [0 .. walk'.level - 1 -> DOMAIN place] :
          Way(place, f, walk'.page, walk'.level - 1) /\ f[walk'.level - 1] = walk'.table
  <2>1. SUFFICES ASSUME walk' # NULL
                 PROVE  \E f \in [0 .. walk'.level - 1 -> DOMAIN place] :
                          Way(place, f, walk'.page, walk'.level - 1) /\ f[walk'.level - 1] = walk'.table
    OBVIOUS
  <2>2. walk'.level - 1 = 0
    BY <1>5, <2>1
  <2>3. \E f \in [0 .. 0 -> DOMAIN place] : Way(place, f, walk'.page, 0) /\ f[0] = machine.pml4
    BY <1>2, <1>5, <1>8, <2>1, WalkBegins
  <2>4. QED
    BY <1>5, <2>1, <2>2, <2>3
<1>10. EntriesInv' /\ Placed(place)'
  BY <1>1, <1>3, <1>7, <1>8, <1>9, PlacesStay
<1>11. QED
  BY <1>1, <1>3, <1>5, <1>10 DEF MemInv

\* An entry that is new, or that maps a page, leaves the ways to the tables.
LEMMA WayStays ==
  ASSUME machine \in Machines, machine' = machine,
         NEW place, NEW place1, DOMAIN place \subseteq DOMAIN place1,
         \A u \in DOMAIN place : place1[u] = place[u],
         NEW s, s \notin DOMAIN entries \/ Len(place[s[1]]) = 3,
         \A e \in DOMAIN entries : e # s => e \in DOMAIN entries' /\ entries'[e] = entries[e],
         NEW i \in DOMAIN machine.window, NEW k \in 0 .. 3, NEW f, Way(place, f, i, k)
  PROVE  Way(place1, f, i, k)'
<1>1. Path(i)' = Path(i)
  BY SameMachine
<1>2. /\ f[0] = machine.pml4
      /\ \A h \in 0 .. k : f[h] \in DOMAIN place /\ place[f[h]] = SubSeq(Path(i), 1, h)
      /\ \A h \in 1 .. k : /\ <<f[h - 1], Path(i)[h]>> \in DOMAIN entries
                           /\ entries[<<f[h - 1], Path(i)[h]>>].to = f[h]
  BY DEF Way
<1>3. \A h \in 0 .. k : f[h] \in DOMAIN place1 /\ place1[f[h]] = SubSeq(Path(i), 1, h)
  BY <1>2
<1>4. ASSUME NEW h \in 1 .. k
      PROVE  /\ <<f[h - 1], Path(i)[h]>> \in DOMAIN entries'
             /\ entries'[<<f[h - 1], Path(i)[h]>>].to = f[h]
  <2> DEFINE e == <<f[h - 1], Path(i)[h]>>
  <2>1. e \in DOMAIN entries /\ entries[e].to = f[h] /\ e[1] = f[h - 1]
    BY <1>2
  <2>2. h - 1 \in 0 .. k /\ h - 1 \in 0 .. 4 /\ h - 1 # 3
    OBVIOUS
  <2>3. place[e[1]] = SubSeq(Path(i), 1, h - 1)
    BY <1>2, <2>1, <2>2
  <2>4. Len(place[e[1]]) = h - 1
    BY <2>2, <2>3, PrefixFacts
  <2> HIDE DEF e
  <2>5. e # s
    BY <2>1, <2>2, <2>4
  <2>6. QED
    BY <2>1, <2>5 DEF e
<1>5. QED
  BY <1>1, <1>2, <1>3, <1>4 DEF Way

LEMMA ReachedStays ==
  ASSUME machine \in Machines, machine' = machine,
         NEW place, NEW place1, DOMAIN place \subseteq DOMAIN place1,
         \A u \in DOMAIN place : place1[u] = place[u],
         NEW s, s \notin DOMAIN entries \/ Len(place[s[1]]) = 3,
         \A e \in DOMAIN entries : e # s => e \in DOMAIN entries' /\ entries'[e] = entries[e],
         NEW i \in DOMAIN machine.window, Reached(place, i),
         \/ s \notin DOMAIN entries
         \/ place[s[1]] # SubSeq(Path(i), 1, 3)
         \/ s[2] # Path(i)[4]
  PROVE  Reached(place1, i)'
<1>1. Path(i)' = Path(i)
  BY SameMachine
<1>2. PICK f \in [0 .. 3 -> DOMAIN place] :
        /\ Way(place, f, i, 3)
        /\ <<f[3], Path(i)[4]>> \in DOMAIN entries
        /\ entries[<<f[3], Path(i)[4]>>] = [to |-> machine.window[i].to, huge |-> FALSE]
  BY DEF Reached
<1> DEFINE e == <<f[3], Path(i)[4]>>
<1>3. 3 \in 0 .. 3
  OBVIOUS
<1>4. place[f[3]] = SubSeq(Path(i), 1, 3) /\ e[1] = f[3] /\ e[2] = Path(i)[4]
  BY <1>2, <1>3 DEF Way
<1>5. Way(place1, f, i, 3)'
  BY <1>2, <1>3, WayStays
<1>6. e \in DOMAIN entries /\ entries[e] = [to |-> machine.window[i].to, huge |-> FALSE]
  BY <1>2
<1> HIDE DEF e
<1>7. e # s
  BY <1>4, <1>6
<1>8. e \in DOMAIN entries' /\ entries'[e] = [to |-> machine.window[i].to, huge |-> FALSE]
  BY <1>6, <1>7
<1>9. f \in [0 .. 3 -> DOMAIN place1]
  BY <1>2
<1>10. QED
  BY <1>1, <1>5, <1>8, <1>9 DEF Reached, e

\* A page for a table: it gets the place where its entry is.
LEMMA NewTableInv ==
  ASSUME MemInv, get_next_level, Slot_of_walk \notin DOMAIN entries, pmm_alloc_pages(1) # NULL
  PROVE  MemInv'
<1>1. PICK i, k, t, s : /\ i = walk.page /\ k = walk.level
                        /\ t = pmm_alloc_pages(1) /\ s = Slot_of_walk
  OBVIOUS
<1>2. /\ walk # NULL /\ k < 4 /\ machine' = machine /\ ring' = ring /\ step' = step
      /\ walk' = [walk EXCEPT !.table = t, !.level = @ + 1]
      /\ Take(t, 1)
      /\ entries' = [e \in DOMAIN entries \cup {s} |->
                       IF e = s THEN [to |-> t, huge |-> FALSE] ELSE entries[e]]
  BY <1>1 DEF get_next_level
<1>3. /\ machine \in Machines /\ step = "map" /\ Marked /\ handed # <<>> /\ ring = 0
      /\ walk = [table |-> walk.table, level |-> k, page |-> i]
      /\ k \in 1 .. 4
      /\ i \in DOMAIN machine.window /\ i \in 1 .. Len(machine.window)
      /\ Dealt = 1 .. i - 1 /\ Dealt \subseteq DOMAIN machine.window
      /\ s = <<walk.table, Path(i)[k]>> /\ s[1] = walk.table /\ s[2] = Path(i)[k]
  BY <1>1, <1>2, WalkFacts
<1>4. /\ walk'.level = k + 1 /\ walk'.table = t /\ walk'.page = i
      /\ walk' = [table |-> walk'.table, level |-> walk'.level, page |-> walk'.page]
  <2>1. walk' = [table |-> t, level |-> k + 1, page |-> i]
    BY <1>1, <1>2, <1>3
  <2>2. QED
    BY <2>1
<1>5. /\ handed' \in Seq([start : Nat \cup {NULL}, count : Nat])
      /\ Len(handed') = Len(handed) + 1
      /\ \A x \in 1 .. Len(handed) : handed'[x] = handed[x]
      /\ handed'[Len(handed) + 1] = [start |-> t, count |-> 1]
      /\ t \in Usable /\ t \notin bitmap /\ t \in bitmap'
      /\ RanOut => RanOut'
      /\ bitmap \subseteq bitmap'
      /\ HandedTruth' /\ Marked'
  BY <1>1, <1>2, <1>3, TakeKeeps DEF MemInv
<1>6. handed' # <<>> /\ Len(handed) \in Nat \ {0} /\ Len(handed') = Len(handed) + 1
  <2>1. Len(handed) \in Nat /\ Len(handed) # 0
    BY <1>3, EmptySeq DEF MemInv
  <2>2. QED
    BY <2>1, <1>5
<1>7. \A u : (IsTable(u) => IsTable(u)') /\ (Spoken(u) => Spoken(u)')
  BY <1>2, <1>3, <1>5, TablesStay DEF MemInv
<1>8. ~Spoken(t) /\ Spoken(t)'
  BY <1>2, <1>3, <1>5 DEF Spoken
<1>9. IsTable(t)'
  <2>1. Len(handed) + 1 \in 2 .. Len(handed')
    BY <1>6
  <2>2. QED
    BY <2>1, <1>5 DEF IsTable
<1>10. k + 1 \in 1 .. 4 /\ k \in 0 .. 3
  BY <1>2, <1>3
<1>11. StepInv'
  BY <1>2, <1>3, <1>4, <1>5, <1>6, <1>10 DEF StepInv
<1>12. PICK place : Placed(place)
  BY DEF MemInv
<1>13. /\ machine.pml4 \in DOMAIN place /\ place[machine.pml4] = <<>>
       /\ \A u \in DOMAIN place : Spoken(u) /\ IsTable(u) /\ place[u] \in Places(machine)
       /\ \A e \in DOMAIN entries :
            e[1] \in DOMAIN place /\ Append(place[e[1]], e[2]) \in Places(machine) =>
              /\ entries[e].to \in DOMAIN place
              /\ place[entries[e].to] = Append(place[e[1]], e[2])
       /\ RanOut \/ \A x \in Dealt : Reached(place, x)
  BY <1>12 DEF Placed
<1>14. /\ walk.table \in DOMAIN place
       /\ Append(place[walk.table], Path(i)[k]) = SubSeq(Path(i), 1, k)
       /\ SubSeq(Path(i), 1, k) \in Places(machine)
  BY <1>1, <1>2, <1>12, SlotPlace
<1>15. t \notin DOMAIN place /\ \A e \in DOMAIN entries : e[1] # t
  BY <1>8, <1>13 DEF MemInv, EntriesInv
<1>16. EntriesInv'
  <2>1. SUFFICES ASSUME NEW e \in DOMAIN entries'
                 PROVE  Spoken(e[1])' /\ (e \in DOMAIN machine.entries \/ IsTable(e[1])')
    BY <1>2 DEF EntriesInv
  <2>2. CASE e = s
    BY <2>2, <1>3, <1>7, <1>13, <1>14
  <2>3. CASE e \in DOMAIN entries
    BY <2>3, <1>7 DEF MemInv, EntriesInv
  <2>4. QED
    BY <2>2, <2>3, <1>2
<1>17. PICK place1 : place1 = [u \in DOMAIN place \cup {t} |-> IF u = t THEN SubSeq(Path(i), 1, k) ELSE place[u]]
  OBVIOUS
<1>18. /\ DOMAIN place1 = DOMAIN place \cup {t}
       /\ place1[t] = SubSeq(Path(i), 1, k)
       /\ \A u \in DOMAIN place : place1[u] = place[u]
  BY <1>15, <1>17
<1>19. /\ \A e \in DOMAIN entries : e # s => e \in DOMAIN entries' /\ entries'[e] = entries[e]
       /\ s \in DOMAIN entries' /\ entries'[s] = [to |-> t, huge |-> FALSE]
       /\ s \notin DOMAIN entries
       /\ \A e \in DOMAIN entries' : e = s \/ e \in DOMAIN entries
  BY <1>1, <1>2
<1>20. PICK f \in [0 .. k - 1 -> DOMAIN place] : Way(place, f, i, k - 1) /\ f[k - 1] = walk.table
  BY <1>1, <1>2, <1>12 DEF Placed
<1>21. PICK g : g = [h \in 0 .. k |-> IF h = k THEN t ELSE f[h]]
  OBVIOUS
<1>22. /\ \A h \in 0 .. k : h # k => h \in 0 .. k - 1 /\ g[h] = f[h]
       /\ g[k] = t /\ g[k - 1] = walk.table /\ k \in 0 .. k /\ g[0] = f[0] /\ 0 \in 0 .. k - 1
  BY <1>3, <1>20, <1>21
<1>23. g \in [0 .. k -> DOMAIN place1]
  BY <1>18, <1>20, <1>22, <1>21
<1>24. Path(i)' = Path(i) /\ Places(machine)' = Places(machine)
  BY <1>2, SameMachine
<1>25. Way(place1, g, i, k)'
  <2>1. Way(place1, f, i, k - 1)'
    <3>1. k - 1 \in 0 .. 3
      BY <1>3
    <3>2. QED
      BY <3>1, <1>2, <1>3, <1>18, <1>19, <1>20, WayStays
  <2>2. /\ f[0] = machine.pml4
        /\ \A h \in 0 .. k - 1 : f[h] \in DOMAIN place1 /\ place1[f[h]] = SubSeq(Path(i), 1, h)
        /\ \A h \in 1 .. k - 1 : /\ <<f[h - 1], Path(i)[h]>> \in DOMAIN entries'
                                 /\ entries'[<<f[h - 1], Path(i)[h]>>].to = f[h]
    BY <2>1, <1>2, <1>24 DEF Way
  <2>3. g[0] = machine.pml4
    BY <2>2, <1>22
  <2>4. \A h \in 0 .. k : g[h] \in DOMAIN place1 /\ place1[g[h]] = SubSeq(Path(i), 1, h)
    BY <2>2, <1>18, <1>22
  <2>5. ASSUME NEW h \in 1 .. k
        PROVE  /\ <<g[h - 1], Path(i)[h]>> \in DOMAIN entries'
               /\ entries'[<<g[h - 1], Path(i)[h]>>].to = g[h]
    <3>1. CASE h = k
      BY <3>1, <1>3, <1>19, <1>22
    <3>2. CASE h # k
      <4>1. h \in 1 .. k - 1 /\ h \in 0 .. k /\ h - 1 \in 0 .. k /\ h - 1 # k
        BY <3>2, <1>3
      <4>2. g[h] = f[h] /\ g[h - 1] = f[h - 1]
        BY <3>2, <4>1, <1>22
      <4>3. QED
        BY <4>1, <4>2, <2>2
    <3>3. QED
      BY <3>1, <3>2
  <2>6. QED
    BY <1>2, <1>24, <2>3, <2>4, <2>5 DEF Way
<1>26. \A u \in DOMAIN place1 : Spoken(u)' /\ IsTable(u)' /\ place1[u] \in Places(machine)
  BY <1>7, <1>8, <1>9, <1>13, <1>14, <1>18
<1>27. ASSUME NEW e \in DOMAIN entries', e[1] \in DOMAIN place1,
              Append(place1[e[1]], e[2]) \in Places(machine)
       PROVE  /\ entries'[e].to \in DOMAIN place1
              /\ place1[entries'[e].to] = Append(place1[e[1]], e[2])
  <2>1. CASE e = s
    BY <2>1, <1>3, <1>14, <1>18, <1>19
  <2>2. CASE e # s
    <3>1. e \in DOMAIN entries /\ entries'[e] = entries[e] /\ e[1] \in DOMAIN place
      BY <2>2, <1>15, <1>18, <1>19, <1>27
    <3>2. place1[e[1]] = place[e[1]]
      BY <3>1, <1>18
    <3>3. QED
      BY <3>1, <3>2, <1>13, <1>18, <1>27
  <2>3. QED
    BY <2>1, <2>2
<1>28. Dealt' \subseteq Dealt
  BY <1>2, <1>3, <1>4 DEF Dealt
<1>29. RanOut' \/ \A x \in Dealt' : Reached(place1, x)'
  <2>1. SUFFICES ASSUME ~RanOut, NEW x \in Dealt
                 PROVE  Reached(place1, x)'
    BY <1>5, <1>28
  <2>2. x \in DOMAIN machine.window /\ Reached(place, x)
    BY <2>1, <1>3, <1>13
  <2>3. QED
    BY <2>2, <1>2, <1>3, <1>18, <1>19, ReachedStays
<1>30. (walk # NULL =>
         \E x \in [0 .. walk.level - 1 -> DOMAIN place1] :
           Way(place1, x, walk.page, walk.level - 1) /\ x[walk.level - 1] = walk.table)'
  <2>1. walk'.level - 1 = k
    BY <1>3, <1>4
  <2>2. (Way(place1, g, walk.page, walk.level - 1))'
    BY <2>1, <1>4, <1>25 DEF Way
  <2>3. QED
    BY <2>1, <2>2, <1>4, <1>22, <1>23
<1>31. Placed(place1)'
  <2>1. machine.pml4 \in DOMAIN place1 /\ place1[machine.pml4] = <<>>
    BY <1>13, <1>18
  <2>2. QED
    BY <2>1, <1>2, <1>24, <1>26, <1>27, <1>29, <1>30 DEF Placed
<1>32. QED
  BY <1>2, <1>3, <1>5, <1>11, <1>16, <1>31 DEF MemInv

\* The page itself: its entry is behind the tables, so that no way changes.
LEMMA MapPageInv ==
  ASSUME MemInv, vmm_map_page
  PROVE  MemInv'
<1>1. PICK i, s : i = walk.page /\ s = Slot_of_walk
  OBVIOUS
<1>2. /\ walk # NULL /\ walk.level = 4 /\ Next_page
      /\ machine' = machine /\ bitmap' = bitmap /\ handed' = handed /\ ring' = ring
      /\ entries' = [e \in DOMAIN entries \cup {s} |->
                       IF e = s THEN [to |-> machine.window[i].to, huge |-> FALSE]
                       ELSE entries[e]]
  BY <1>1 DEF vmm_map_page
<1>3. /\ machine \in Machines /\ step = "map" /\ Marked /\ handed # <<>>
      /\ i \in DOMAIN machine.window
      /\ Dealt = 1 .. i - 1 /\ Dealt \subseteq DOMAIN machine.window
      /\ s = <<walk.table, Path(i)[4]>> /\ s[1] = walk.table /\ s[2] = Path(i)[4]
  BY <1>1, <1>2, WalkFacts
<1>4. Marked' /\ HandedTruth'
  <2>1. /\ highest_page' = highest_page /\ Usable' = Usable /\ BitmapPages' = BitmapPages
    BY <1>2, SameMachine
  <2>2. QED
    BY <1>2, <1>3, <2>1 DEF Marked, HandedTruth, MemInv
<1>5. /\ StepInv'
      /\ Dealt' \subseteq Dealt \cup {i}
      /\ walk' # NULL => /\ walk'.level = 1 /\ walk'.table = machine.pml4
                         /\ walk'.page \in DOMAIN machine.window
  BY <1>1, <1>2, <1>3, <1>4, NextPage
<1>6. step' \notin {"pmm", "heap"}
  BY <1>2, <1>3 DEF Next_page
<1>7. \A t : (IsTable(t) => IsTable(t)') /\ (Spoken(t) => Spoken(t)')
  BY <1>2, <1>6, TablesStay DEF MemInv
<1>8. PICK place : Placed(place)
  BY DEF MemInv
<1>9. /\ machine.pml4 \in DOMAIN place /\ place[machine.pml4] = <<>>
      /\ \A u \in DOMAIN place : Spoken(u) /\ IsTable(u) /\ place[u] \in Places(machine)
      /\ \A e \in DOMAIN entries :
           e[1] \in DOMAIN place /\ Append(place[e[1]], e[2]) \in Places(machine) =>
             /\ entries[e].to \in DOMAIN place
             /\ place[entries[e].to] = Append(place[e[1]], e[2])
      /\ RanOut \/ \A x \in Dealt : Reached(place, x)
  BY <1>8 DEF Placed
<1>10. /\ walk.table \in DOMAIN place /\ place[walk.table] = SubSeq(Path(i), 1, 3)
       /\ Append(place[walk.table], Path(i)[4]) \notin Places(machine)
  <2>1. /\ walk.table \in DOMAIN place /\ place[walk.table] = SubSeq(Path(i), 1, 4 - 1)
        /\ Append(place[walk.table], Path(i)[4]) = SubSeq(Path(i), 1, 4)
    BY <1>1, <1>2, <1>8, SlotPlace
  <2>2. SubSeq(Path(i), 1, 4) = Path(i) /\ Path(i) \notin Places(machine) /\ 4 - 1 = 3
    BY <1>3, PrefixFacts
  <2>3. QED
    BY <2>1, <2>2
<1>11. Len(place[s[1]]) = 3
  <2>1. 3 \in 0 .. 4
    OBVIOUS
  <2>2. QED
    BY <2>1, <1>3, <1>10, PrefixFacts
<1>12. /\ \A e \in DOMAIN entries : e # s => e \in DOMAIN entries' /\ entries'[e] = entries[e]
       /\ s \in DOMAIN entries'
       /\ entries'[s] = [to |-> machine.window[i].to, huge |-> FALSE]
       /\ \A e \in DOMAIN entries' : e = s \/ e \in DOMAIN entries
  BY <1>2
<1>13. EntriesInv'
  <2>1. SUFFICES ASSUME NEW e \in DOMAIN entries'
                 PROVE  Spoken(e[1])' /\ (e \in DOMAIN machine.entries \/ IsTable(e[1])')
    BY <1>2 DEF EntriesInv
  <2>2. CASE e = s
    BY <2>2, <1>3, <1>7, <1>9, <1>10
  <2>3. CASE e \in DOMAIN entries
    BY <2>3, <1>7 DEF MemInv, EntriesInv
  <2>4. QED
    BY <2>2, <2>3, <1>12
<1>14. ASSUME NEW e \in DOMAIN entries', e[1] \in DOMAIN place,
              Append(place[e[1]], e[2]) \in Places(machine)
       PROVE  /\ entries'[e].to \in DOMAIN place
              /\ place[entries'[e].to] = Append(place[e[1]], e[2])
  <2>1. CASE e = s
    BY <2>1, <1>3, <1>10, <1>14
  <2>2. CASE e # s
    BY <2>2, <1>9, <1>12, <1>14
  <2>3. QED
    BY <2>1, <2>2
<1>15. Path(i)' = Path(i) /\ Places(machine)' = Places(machine)
  BY <1>2, SameMachine
<1>16. Reached(place, i)'
  <2>1. PICK f \in [0 .. 3 -> DOMAIN place] : Way(place, f, i, 3) /\ f[3] = walk.table
    <3>1. \E f \in [0 .. walk.level - 1 -> DOMAIN place] :
            Way(place, f, walk.page, walk.level - 1) /\ f[walk.level - 1] = walk.table
      BY <1>2, <1>8 DEF Placed
    <3>2. walk.level - 1 = 3 /\ walk.page = i
      BY <1>1, <1>2
    <3>3. \E f \in [0 .. 3 -> DOMAIN place] : Way(place, f, i, 3) /\ f[3] = walk.table
      BY <3>1, <3>2
    <3>4. QED
      BY <3>3
  <2>2. Way(place, f, i, 3)'
    <3>1. 3 \in 0 .. 3 /\ i \in DOMAIN machine.window /\ Way(place, f, i, 3)
          /\ machine \in Machines /\ machine' = machine
      BY <2>1, <1>2, <1>3
    <3>2. \A e \in DOMAIN entries : e # s => e \in DOMAIN entries' /\ entries'[e] = entries[e]
      BY <1>12
    <3>3. QED
      BY <3>1, <3>2, <1>11, WayStays
  <2>3. s = <<f[3], Path(i)[4]>>
    BY <2>1, <1>3
  <2>4. QED
    BY <2>1, <2>2, <2>3, <1>2, <1>12, <1>15 DEF Reached
<1>17. RanOut' \/ \A x \in Dealt' : Reached(place, x)'
  <2>1. SUFFICES ASSUME ~RanOut, NEW x \in Dealt, x # i
                 PROVE  Reached(place, x)'
    BY <1>2, <1>5, <1>16 DEF RanOut
  <2>2. x \in DOMAIN machine.window /\ Reached(place, x)
    BY <2>1, <1>3, <1>9
  <2>3. place[s[1]] # SubSeq(Path(x), 1, 3) \/ s[2] # Path(x)[4]
    BY <2>1, <2>2, <1>3, <1>10, PagesPart
  <2>4. \A e \in DOMAIN entries : e # s => e \in DOMAIN entries' /\ entries'[e] = entries[e]
    BY <1>12
  <2>5. machine \in Machines /\ machine' = machine
    BY <1>2, <1>3
  <2>6. QED
    BY <2>2, <2>3, <2>4, <2>5, <1>11, ReachedStays
<1>18. (walk # NULL =>
          \E f \in [0 .. walk.level - 1 -> DOMAIN place] :
            Way(place, f, walk.page, walk.level - 1) /\ f[walk.level - 1] = walk.table)'
  <2>1. SUFFICES ASSUME walk' # NULL
                 PROVE  (\E f \in [0 .. walk.level - 1 -> DOMAIN place] :
                           Way(place, f, walk.page, walk.level - 1) /\ f[walk.level - 1] = walk.table)'
    OBVIOUS
  <2>2. PICK j : j = walk'.page
    OBVIOUS
  <2>3. j \in DOMAIN machine.window /\ walk'.level - 1 = 0
    BY <1>5, <2>1, <2>2
  <2>4. PICK f \in [0 .. 0 -> DOMAIN place] : Way(place, f, j, 0) /\ f[0] = machine.pml4
    BY <1>3, <1>8, <2>3, WalkBegins
  <2>5. Way(place, f, j, 0)'
    <3>1. 0 \in 0 .. 3
      OBVIOUS
    <3>2. QED
      BY <3>1, <2>3, <2>4, <1>2, <1>3, <1>11, <1>12, WayStays
  <2>6. (Way(place, f, walk.page, walk.level - 1))'
    BY <2>2, <2>3, <2>5 DEF Way
  <2>7. QED
    BY <1>5, <2>1, <2>3, <2>4, <2>6
<1>19. Placed(place)'
  BY <1>2, <1>7, <1>9, <1>14, <1>15, <1>17, <1>18 DEF Placed
<1>20. QED
  BY <1>2, <1>3, <1>4, <1>5, <1>13, <1>19 DEF MemInv

LEMMA MemNextInv == MemInv /\ [Next]_vars => MemInv'
<1> SUFFICES ASSUME MemInv, [Next]_vars
             PROVE  MemInv'
  OBVIOUS
<1>1. CASE UNCHANGED memory
  <2>1. /\ machine' = machine /\ bitmap' = bitmap /\ handed' = handed /\ step' = step
        /\ entries' = entries /\ walk' = walk /\ ring' = ring
    BY <1>1, Zenon DEF memory
  <2>2. /\ highest_page' = highest_page /\ Usable' = Usable /\ BitmapPages' = BitmapPages
    BY <2>1, SameMachine
  <2>3. StepInv' /\ HandedTruth'
    BY <2>1, <2>2 DEF MemInv, StepInv, HandedTruth, Marked, Requests
  <2>4. \A t : (IsTable(t) => IsTable(t)') /\ (Spoken(t) => Spoken(t)')
    BY <2>1, TablesStay DEF MemInv
  <2>5. Dealt' \subseteq Dealt /\ (RanOut => RanOut')
    BY <2>1 DEF Dealt, RanOut
  <2>6. EntriesInv' /\ \E place : Placed(place)'
    BY <2>1, <2>4, <2>5, WalkStays
  <2>7. QED
    BY <2>1, <2>3, <2>6 DEF MemInv
<1>2. CASE Boot
  <2>1. CASE get_next_level
    BY <2>1, FollowInv, NoPageInv, NewTableInv
  <2>2. QED
    BY <1>2, <2>1, PmmInitInv, HeapInitInv, PciFindInv, MapPageInv, RingsInv
    DEF Boot, MemoryStep
<1>3. CASE Start_shell \/ Key \/ cmd_snake \/ Play \/ Leave_snake \/ cmd_llm \/ Encode \/ Generate
           \/ Leave_llm
  BY <1>1, <1>3 DEF Start_shell, Key, cmd_snake, Play, Leave_snake, cmd_llm, Encode, Generate,
                    Leave_llm
<1>4. CASE UNCHANGED vars
  BY <1>1, <1>4 DEF vars
<1>5. QED
  BY <1>2, <1>3, <1>4 DEF Next

\* The processor follows the tables that the walk has set up, but for a huge page.
LEMMA ReachedIsMapped ==
  ASSUME machine \in Machines, NEW i \in DOMAIN machine.window, NEW place, Reached(place, i)
  PROVE  Translate(Path(i)).huge \/ Translate(Path(i)).to = machine.window[i].to
<1> DEFINE root0 == [to |-> machine.pml4, huge |-> FALSE]
           On(x, l) == IF x.huge THEN x
                       ELSE IF <<x.to, Path(i)[l]>> \in DOMAIN entries
                            THEN entries[<<x.to, Path(i)[l]>>]
                       ELSE [to |-> NULL, huge |-> FALSE]
           x1 == On(root0, 1)
           x2 == On(x1, 2)
           x3 == On(x2, 3)
           x4 == On(x3, 4)
           g == [l \in 0 .. 4 |-> CASE l = 0 -> root0 [] l = 1 -> x1 [] l = 2 -> x2
                                     [] l = 3 -> x3 [] OTHER -> x4]
           Through(h) == h = [l \in 0 .. 4 |-> IF l = 0 THEN root0 ELSE On(h[l - 1], l)]
<1>1. ASSUME NEW h, Through(h)
      PROVE  h[4] = x4
  <2>1. \A l \in 0 .. 4 : h[l] = IF l = 0 THEN root0 ELSE On(h[l - 1], l)
    BY <1>1, Zenon
  <2> HIDE DEF root0, On
  <2>2. h[0] = root0
    BY <2>1
  <2>3. h[1] = On(h[0], 1)
    BY <2>1
  <2>4. h[2] = On(h[1], 2)
    BY <2>1
  <2>5. h[3] = On(h[2], 3)
    BY <2>1
  <2>6. h[4] = On(h[3], 4)
    BY <2>1
  <2>7. QED
    BY <2>2, <2>3, <2>4, <2>5, <2>6
<1>2. Through(g)
  <2> HIDE DEF root0, On
  <2>1. /\ g[0] = root0 /\ g[1] = x1 /\ g[2] = x2 /\ g[3] = x3 /\ g[4] = x4
    OBVIOUS
  <2>2. g = [l \in 0 .. 4 |-> g[l]]
    OBVIOUS
  <2>3. ASSUME NEW l \in 0 .. 4
        PROVE  g[l] = IF l = 0 THEN root0 ELSE On(g[l - 1], l)
    <3>1. l \in {0, 1, 2, 3, 4}
      OBVIOUS
    <3> HIDE DEF g
    <3>2. QED
      BY <2>1, <3>1
  <2>4. QED
    BY <2>2, <2>3
<1>3. Translate(Path(i)) = x4
  <2>1. Translate(Path(i)) = (CHOOSE h : Through(h))[4]
    BY DEF Translate
  <2>2. PICK c : c = (CHOOSE h : Through(h))
    OBVIOUS
  <2> HIDE DEF Through, g, x4
  <2>3. Through(c)
    BY <1>2, <2>2
  <2>4. c[4] = x4
    BY <1>1, <2>3
  <2>5. QED
    BY <2>1, <2>2, <2>4
<1>4. PICK f \in [0 .. 3 -> DOMAIN place] :
        /\ Way(place, f, i, 3)
        /\ <<f[3], Path(i)[4]>> \in DOMAIN entries
        /\ entries[<<f[3], Path(i)[4]>>] = [to |-> machine.window[i].to, huge |-> FALSE]
  BY DEF Reached
<1>5. /\ f[0] = machine.pml4
      /\ <<f[0], Path(i)[1]>> \in DOMAIN entries /\ entries[<<f[0], Path(i)[1]>>].to = f[1]
      /\ <<f[1], Path(i)[2]>> \in DOMAIN entries /\ entries[<<f[1], Path(i)[2]>>].to = f[2]
      /\ <<f[2], Path(i)[3]>> \in DOMAIN entries /\ entries[<<f[2], Path(i)[3]>>].to = f[3]
  <2>1. /\ f[0] = machine.pml4
        /\ \A h \in 1 .. 3 : /\ <<f[h - 1], Path(i)[h]>> \in DOMAIN entries
                             /\ entries[<<f[h - 1], Path(i)[h]>>].to = f[h]
    BY <1>4 DEF Way
  <2>2. 1 - 1 = 0 /\ 2 - 1 = 1 /\ 3 - 1 = 2 /\ {1, 2, 3} \subseteq 1 .. 3
    OBVIOUS
  <2>3. QED
    BY <2>1, <2>2
<1>6. x1.to = f[1]
  BY <1>5
<1> HIDE DEF x1
<1>7. x1.huge \/ x2.to = f[2]
  BY <1>5, <1>6
<1>8. x1.huge => x2.huge
  OBVIOUS
<1> HIDE DEF x2
<1>9. x2.huge \/ x3.to = f[3]
  BY <1>5, <1>7, <1>8
<1>10. x2.huge => x3.huge
  OBVIOUS
<1> HIDE DEF x3
<1>11. x3.huge \/ x4.to = machine.window[i].to
  BY <1>4, <1>9, <1>10
<1>12. x3.huge => x4.huge
  OBVIOUS
<1>13. QED
  BY <1>3, <1>11, <1>12

\* BootTruth: what pmm_alloc_pages hands out to the heap, the page tables and the rings
\* never overlaps, vmm_map_page's entries go into tables only, and the window ends up
\* mapped - on every machine whose boot loader keeps to MachinesAssumption, so that
\* what e1000_init writes to page 0 when it has no page for a ring harms nobody.
THEOREM MemoryIsShared == Spec => []BootTruth
<1>1. Init => MemInv
  BY MemInitInv DEF Init
<1>2. MemInv /\ [Next]_vars => MemInv'
  BY MemNextInv
<1>3. MemInv => BootTruth
  <2> SUFFICES ASSUME MemInv
               PROVE  MemoryTruth
    BY DEF BootTruth
  <2>1. HandedTruth
    BY DEF MemInv
  <2>2. ASSUME NEW e \in DOMAIN entries \ DOMAIN machine.entries
        PROVE  \/ e[1] \in {machine.pml4} \cup {m.to : m \in Mapped}
               \/ \E i \in 2 .. Len(handed) : handed[i] = [start |-> e[1], count |-> 1]
    BY DEF MemInv, EntriesInv, IsTable
  <2>3. ASSUME step \in {"rings", "done"}, NEW i \in DOMAIN machine.window
        PROVE  \/ Translate(machine.window[i].path).huge
               \/ Translate(machine.window[i].path).to = machine.window[i].to
               \/ RanOut
    <3>1. PICK place : Placed(place)
      BY DEF MemInv
    <3>2. RanOut \/ Reached(place, i)
      BY <2>3, <3>1 DEF Placed, Dealt
    <3>3. QED
      BY <3>2, ReachedIsMapped DEF MemInv, Path
  <2>4. QED
    BY <2>1, <2>2, <2>3 DEF MemoryTruth, HandedTruth
<1>4. QED
  BY <1>1, <1>2, <1>3, PTL DEF Spec

-----------------------------------------------------------------------------
(* Folds from the left.                                                    *)

LEMMA AllNumbers ==
  ASSUME NEW T, 0 \in T, \A k \in Nat : k \in T => k + 1 \in T
  PROVE  Nat \subseteq T
<1>1. SUFFICES ASSUME Nat \ T # {}
               PROVE  FALSE
  OBVIOUS
<1>2. PICK k \in Nat \ T : \A r \in Nat \ T : k <= r
  BY <1>1, LeastNumber
<1>3. k \in Nat /\ k # 0
  BY <1>2
<1>4. k - 1 \in Nat /\ ~(k <= k - 1) /\ k - 1 + 1 = k
  BY <1>3
<1>5. k - 1 \in T
  BY <1>2, <1>4
<1>6. QED
  BY <1>2, <1>4, <1>5

\* What the recursive definition of a fold says of the set s of indices.
Folds(h, base, On, seq, S) ==
  \A s \in SUBSET S :
    h[s] = IF s = {} THEN base ELSE On[<<h[s \ {Max(s)}], seq[Max(s)]>>]

HasFold(T, base, On, seq, k) ==
  \E h \in [SUBSET (1 .. k) -> T] : Folds(h, base, On, seq, 1 .. k)

\* A least end without a solution would have one from the index before.
LEMMA FoldsExist ==
  ASSUME NEW T, NEW C, NEW base \in T, NEW On \in [T \X C -> T],
         NEW len \in Nat, NEW seq \in [1 .. len -> C]
  PROVE  \E h \in [SUBSET (1 .. len) -> T] : Folds(h, base, On, seq, 1 .. len)
<1> DEFINE Ks == {k \in Nat : k > len \/ HasFold(T, base, On, seq, k)}
<1>1. 0 \in Ks
  <2> DEFINE h == [s \in SUBSET (1 .. 0) |-> base]
  <2>1. h \in [SUBSET (1 .. 0) -> T] /\ 1 .. 0 = {}
    OBVIOUS
  <2>2. \A s \in SUBSET (1 .. 0) : s = {} /\ h[s] = base
    BY <2>1
  <2>3. Folds(h, base, On, seq, 1 .. 0)
    BY <2>2 DEF Folds
  <2>4. HasFold(T, base, On, seq, 0)
    BY <2>1, <2>3 DEF HasFold
  <2>5. QED
    BY <2>4
<1>2. ASSUME NEW k \in Nat, k \in Ks
      PROVE  k + 1 \in Ks
  <2>1. CASE k + 1 > len
    BY <2>1
  <2>2. CASE k + 1 <= len
    <3>1. HasFold(T, base, On, seq, k)
      BY <1>2, <2>2
    <3>2. PICK h \in [SUBSET (1 .. k) -> T] : Folds(h, base, On, seq, 1 .. k)
      BY <3>1 DEF HasFold
    <3> DEFINE x == k + 1
               Next_h(s) == IF x \in s THEN On[<<h[s \ {x}], seq[x]>>] ELSE h[s]
               g == [s \in SUBSET (1 .. x) |-> Next_h(s)]
    <3>3. x \in 1 .. len /\ seq[x] \in C /\ 1 .. k \subseteq 1 .. x
      BY <2>2
    <3>4. \A s \in SUBSET (1 .. x) : s \ {x} \in SUBSET (1 .. k) /\ (x \notin s => s \in SUBSET (1 .. k))
      OBVIOUS
    <3>5. \A s \in SUBSET (1 .. x) : Next_h(s) \in T
      BY <3>3, <3>4
    <3>6. g \in [SUBSET (1 .. x) -> T]
      BY <3>5
    <3>7. ASSUME NEW s \in SUBSET (1 .. x), s # {}
          PROVE  g[s] = On[<<g[s \ {Max(s)}], seq[Max(s)]>>]
      <4>1. s \in SUBSET Nat /\ x \in Nat /\ \A i \in s : i <= x
        OBVIOUS
      <4>2. Max(s) \in s /\ \A i \in s : i <= Max(s)
        BY <4>1, <3>7, MaxIsMember
      <4>3. CASE x \in s
        <5>1. Max(s) = x
          <6>1. Max(s) \in Nat /\ Max(s) <= x /\ x <= Max(s)
            BY <4>1, <4>2, <4>3
          <6>2. QED
            BY <6>1
        <5>2. s \ {x} \in SUBSET (1 .. x) /\ x \notin s \ {x}
          OBVIOUS
        <5>3. g[s \ {x}] = h[s \ {x}]
          BY <5>2
        <5>4. g[s] = On[<<h[s \ {x}], seq[x]>>]
          BY <4>3
        <5>5. QED
          BY <5>1, <5>3, <5>4
      <4>4. CASE x \notin s
        <5>1. s \in SUBSET (1 .. k) /\ s \ {Max(s)} \in SUBSET (1 .. x) /\ x \notin s \ {Max(s)}
          BY <3>4, <4>4
        <5>2. g[s] = h[s] /\ g[s \ {Max(s)}] = h[s \ {Max(s)}]
          BY <4>4, <5>1
        <5>3. h[s] = On[<<h[s \ {Max(s)}], seq[Max(s)]>>]
          BY <3>2, <3>7, <5>1 DEF Folds
        <5>4. QED
          BY <5>2, <5>3
      <4>5. QED
        BY <4>3, <4>4
    <3>8. g[{}] = base
      <4>1. {} \in SUBSET (1 .. k) /\ {} \in SUBSET (1 .. x)
        OBVIOUS
      <4>2. h[{}] = base
        BY <3>2, <4>1 DEF Folds
      <4>3. QED
        BY <4>1, <4>2
    <3> HIDE DEF g
    <3>9. Folds(g, base, On, seq, 1 .. x)
      BY <3>7, <3>8 DEF Folds
    <3>10. HasFold(T, base, On, seq, x)
      BY <3>6, <3>9 DEF HasFold
    <3>11. QED
      BY <3>10
  <2>3. QED
    BY <2>1, <2>2
<1> HIDE DEF Ks
<1>3. len \in Ks
  BY <1>1, <1>2, AllNumbers
<1>4. HasFold(T, base, On, seq, len)
  BY <1>3 DEF Ks
<1>5. QED
  BY <1>4 DEF HasFold

\* The initial segments of the indices.
LEMMA Segments ==
  ASSUME NEW k \in Nat \ {0}
  PROVE  1 .. k # {} /\ Max(1 .. k) = k /\ (1 .. k) \ {k} = 1 .. k - 1
<1>1. 1 .. k \in SUBSET Nat /\ k \in 1 .. k /\ \A i \in 1 .. k : i <= k
  OBVIOUS
<1>2. Max(1 .. k) \in 1 .. k /\ \A i \in 1 .. k : i <= Max(1 .. k)
  BY <1>1, MaxIsMember
<1>3. QED
  BY <1>1, <1>2

-----------------------------------------------------------------------------
(* Printing.                                                               *)

Chars == STRING \cup {"\n", "^", "C", BS}    \* literals, whose type the provers do not see

Term == [row : 0 .. rows - 1, col : 0 .. cols - 1, cells : [0 .. cols - 1 -> Chars],
         marks : SUBSET (Int \X Int), visible : BOOLEAN, drawn : BOOLEAN, wrapped : BOOLEAN]

Terminals ==
  {t \in Term :
     /\ t.drawn => t.visible
     /\ t.marks = IF t.drawn THEN {Here(t)} ELSE {}}

\* The row of the cursor has str in it, and the cursor behind that.
RowShows(t, str) ==
  /\ t.col = Len(str)
  /\ \A c \in 0 .. cols - 1 : t.cells[c] = IF c < Len(str) THEN str[c + 1] ELSE Blank

Shown(t, str) == ~t.wrapped => RowShows(t, str)

Fresh(t) == RowShows(t, <<>>)

LEMMA Sizes == rows \in Nat \ {0} /\ cols \in Nat \ {0}
BY ConsoleAssumption

\* Characters that term_print_char puts in the cell of the cursor.
Cell == Chars \ {"\n", "\r", "\t", BS}

LEMMA BlankChar == Blank \in Chars /\ Blank \in Cell /\ Typed \subseteq Cell
BY ConsoleAssumption DEF Printed, Chars, Cell

LEMMA ErasedTerm ==
  ASSUME NEW t \in Terminals
  PROVE  /\ Erased(t) = [t EXCEPT !.marks = {}, !.drawn = FALSE]
         /\ Erased(t) \in Terminals
<1>1. Erased(t) = [t EXCEPT !.marks = {}, !.drawn = FALSE]
  <2>1. CASE t.drawn
    BY <2>1 DEF Erased, draw_cursor, Terminals, Term, Here
  <2>2. CASE ~t.drawn
    BY <2>2 DEF Erased, Terminals, Term
  <2>3. QED
    BY <2>1, <2>2
<1>2. QED
  BY <1>1 DEF Terminals, Term

LEMMA DrawnTerm ==
  ASSUME NEW t \in Terminals, t.marks = {}, ~t.drawn
  PROVE  /\ draw_cursor(t, TRUE) =
               IF t.visible THEN [t EXCEPT !.marks = {Here(t)}, !.drawn = TRUE] ELSE t
         /\ draw_cursor(t, TRUE) \in Terminals
         /\ draw_cursor(t, TRUE).drawn = t.visible
<1>1. t.marks \cup {Here(t)} = {Here(t)} /\ t \in Term
  BY DEF Terminals
<1>2. draw_cursor(t, TRUE) = IF t.visible THEN [t EXCEPT !.marks = {Here(t)}, !.drawn = TRUE] ELSE t
  BY <1>1 DEF draw_cursor, Term
<1>3. {Here(t)} \in SUBSET (Int \X Int)
  BY <1>1, Sizes DEF Term, Here
<1>4. CASE t.visible
  <2> DEFINE u == [t EXCEPT !.marks = {Here(t)}, !.drawn = TRUE]
  <2>1. u \in Term
    BY <1>1, <1>3 DEF Term
  <2>2. u.marks = {Here(t)} /\ u.drawn /\ u.visible = t.visible /\ u.row = t.row /\ u.col = t.col
    BY <1>1 DEF Term
  <2>3. Here(u) = Here(t)
    BY <2>2 DEF Here
  <2> HIDE DEF u
  <2>4. u \in Terminals
    BY <1>4, <2>1, <2>2, <2>3 DEF Terminals
  <2>5. QED
    BY <1>2, <1>4, <2>2, <2>4 DEF u
<1>5. CASE ~t.visible
  BY <1>1, <1>2, <1>5 DEF Term
<1>6. QED
  BY <1>4, <1>5

\* newline, on a screen without a mark.
LEMMA NewlineTerm ==
  ASSUME NEW t \in Terminals, t.marks = {}, ~t.drawn
  PROVE  /\ newline(t) \in Terminals /\ newline(t).marks = {} /\ ~newline(t).drawn
         /\ newline(t).visible = t.visible /\ newline(t).wrapped = t.wrapped
         /\ Fresh(newline(t))
<1> DEFINE blank == [c \in 0 .. cols - 1 |-> Blank]
<1>1. t \in Term /\ DOMAIN t.cells = 0 .. cols - 1
  BY DEF Terminals, Term
<1>2. {<<m[1] - 1, m[2]>> : m \in {x \in t.marks : x[1] > 0}} = {}
  OBVIOUS
<1>3. blank \in [0 .. cols - 1 -> Chars] /\ 0 \in 0 .. cols - 1
  <2>1. 0 \in 0 .. cols - 1
    BY Sizes
  <2>2. blank \in [0 .. cols - 1 -> Chars]
    BY BlankChar
  <2>3. QED
    BY <2>1, <2>2
<1>4. \A c \in 0 .. cols - 1 : blank[c] = Blank
  OBVIOUS
<1> HIDE DEF blank
<1>5. \/ newline(t) = [t EXCEPT !.col = 0, !.cells = blank, !.row = t.row + 1] /\ t.row + 1 < rows
      \/ newline(t) = [t EXCEPT !.col = 0, !.cells = blank, !.marks = {}]
  BY <1>1, <1>2 DEF newline, Term, blank
<1>6. \E r \in 0 .. rows - 1 :
        newline(t) = [t EXCEPT !.col = 0, !.cells = blank, !.row = r, !.marks = {}]
  <2>1. t.row \in 0 .. rows - 1 /\ (t.row + 1 < rows => t.row + 1 \in 0 .. rows - 1)
    BY <1>1, Sizes DEF Term
  <2>2. ASSUME newline(t) = [t EXCEPT !.col = 0, !.cells = blank, !.row = t.row + 1], t.row + 1 < rows
        PROVE  newline(t) = [t EXCEPT !.col = 0, !.cells = blank, !.row = t.row + 1, !.marks = {}]
    BY <1>1, <2>2 DEF Term
  <2>3. ASSUME newline(t) = [t EXCEPT !.col = 0, !.cells = blank, !.marks = {}]
        PROVE  newline(t) = [t EXCEPT !.col = 0, !.cells = blank, !.row = t.row, !.marks = {}]
    BY <1>1, <2>3 DEF Term
  <2>4. QED
    BY <1>5, <2>1, <2>2, <2>3
<1>7. PICK r \in 0 .. rows - 1 : newline(t) = [t EXCEPT !.col = 0, !.cells = blank, !.row = r, !.marks = {}]
  BY <1>6
<1>8. /\ newline(t).col = 0 /\ newline(t).cells = blank /\ newline(t).marks = {}
      /\ newline(t).drawn = t.drawn /\ newline(t).visible = t.visible
      /\ newline(t).wrapped = t.wrapped
  BY <1>1, <1>7 DEF Term
<1>9. newline(t) \in Term
  BY <1>1, <1>3, <1>7 DEF Term
<1>10. newline(t) \in Terminals
  BY <1>8, <1>9 DEF Terminals
<1>11. Fresh(newline(t))
  <2>1. \A c \in 0 .. cols - 1 : ~(c < 0)
    OBVIOUS
  <2>2. Len(<<>>) = 0
    OBVIOUS
  <2>3. QED
    BY <1>4, <1>8, <2>1, <2>2 DEF Fresh, RowShows
<1>12. QED
  BY <1>8, <1>10, <1>11

\* A character that is shown: put_char and the step behind it.
LEMMA PutTerm ==
  ASSUME NEW t \in Terminals, t.marks = {}, ~t.drawn, NEW c \in Cell
  PROVE  /\ Stepped(t, c) \in Terminals /\ Stepped(t, c).marks = {} /\ ~Stepped(t, c).drawn
         /\ Stepped(t, c).visible = t.visible
         /\ \A str \in Seq(Chars) :
              Shown(t, str) => Shown(Stepped(t, c), Append(str, c))
<1> DEFINE u == [t EXCEPT !.cells[t.col] = c, !.marks = {}, !.col = t.col + 1]
           v == [u EXCEPT !.wrapped = TRUE, !.col = 0]
<1>1. t \in Term /\ c \in Chars /\ t.col \in 0 .. cols - 1 /\ c \notin {"\n", "\r", "\t", BS}
  BY DEF Terminals, Term, Cell
<1>2. Stepped(t, c) = IF t.col + 1 >= cols THEN newline([u EXCEPT !.wrapped = TRUE]) ELSE u
  <2>1. t.marks \ {Here(t)} = {}
    OBVIOUS
  <2>2. [put_char(t, c) EXCEPT !.col = @ + 1] = u
    BY <1>1, <2>1 DEF put_char, Term
  <2>3. u.col = t.col + 1
    BY <1>1 DEF Term
  <2> HIDE DEF u
  <2>4. QED
    BY <1>1, <2>2, <2>3 DEF Stepped
<1>3. /\ u.marks = {} /\ u.drawn = t.drawn /\ u.visible = t.visible /\ u.wrapped = t.wrapped
      /\ u.col = t.col + 1 /\ u.row = t.row /\ u.cells = [t.cells EXCEPT ![t.col] = c]
  BY <1>1 DEF Term
<1>4. ASSUME t.col + 1 >= cols
      PROVE  /\ Stepped(t, c) \in Terminals /\ Stepped(t, c).marks = {} /\ ~Stepped(t, c).drawn
             /\ Stepped(t, c).visible = t.visible /\ Stepped(t, c).wrapped
  <2> DEFINE w == [u EXCEPT !.wrapped = TRUE]
  <2>1. [t.cells EXCEPT ![t.col] = c] \in [0 .. cols - 1 -> Chars]
    BY <1>1 DEF Term
  <2>2. v \in Term
    <3>1. 0 \in 0 .. cols - 1
      BY Sizes
    <3>2. \A cells \in [0 .. cols - 1 -> Chars] :
            [[t EXCEPT !.cells = cells, !.marks = {}, !.col = t.col + 1] EXCEPT !.wrapped = TRUE, !.col = 0] \in Term
      BY <1>1, <3>1 DEF Term
    <3>3. u = [t EXCEPT !.cells = [t.cells EXCEPT ![t.col] = c], !.marks = {}, !.col = t.col + 1]
      BY <1>1 DEF Term
    <3>4. QED
      BY <2>1, <3>2, <3>3
  <2>3. /\ v.marks = {} /\ v.drawn = t.drawn /\ v.wrapped /\ v.visible = t.visible
        /\ v.row = w.row /\ v.cells = w.cells /\ w.marks = {} /\ w.visible = t.visible
    BY <1>1 DEF Term
  <2>4. newline(w) = newline(v)
    <3> DEFINE blank == [x \in DOMAIN w.cells |-> Blank]
    <3>1. PICK next : next = [w EXCEPT !.col = 0, !.cells = blank]
      OBVIOUS
    <3>2. next = [v EXCEPT !.col = 0, !.cells = blank]
      <4> HIDE DEF blank
      <4>1. QED
        BY <1>1, <3>1 DEF Term
    <3> HIDE DEF w, v
    <3>3. QED
      BY <2>3, <3>1, <3>2 DEF newline
  <2>5. Stepped(t, c) = newline(v)
    BY <1>2, <1>4, <2>4
  <2> HIDE DEF v
  <2>6. v \in Terminals
    BY <2>2, <2>3 DEF Terminals
  <2>7. QED
    BY <2>3, <2>5, <2>6, NewlineTerm
<1>5. ASSUME t.col + 1 < cols
      PROVE  u \in Terminals /\ Stepped(t, c) = u
  <2>1. [t.cells EXCEPT ![t.col] = c] \in [0 .. cols - 1 -> Chars] /\ t.col + 1 \in 0 .. cols - 1
    BY <1>1, <1>5, Sizes DEF Term
  <2>2. u \in Term
    BY <1>1, <2>1 DEF Term
  <2>3. Stepped(t, c) = u
    BY <1>1, <1>2, <1>5, Sizes
  <2>4. QED
    BY <1>3, <2>2, <2>3 DEF Terminals
<1> HIDE DEF u, v
<1>6. ASSUME t.col + 1 < cols, NEW str \in Seq(Chars), RowShows(t, str)
      PROVE  RowShows(u, Append(str, c))
  <2>1. PICK len \in Nat : len = Len(str)
    OBVIOUS
  <2>2. /\ Len(Append(str, c)) = len + 1 /\ Append(str, c)[len + 1] = c
        /\ \A i \in 1 .. len : Append(str, c)[i] = str[i]
    BY <1>1, <2>1
  <2>3. t.col = len /\ len + 1 < cols
    BY <1>6, <2>1 DEF RowShows
  <2>4. ASSUME NEW i \in 0 .. cols - 1
        PROVE  u.cells[i] = IF i < len + 1 THEN Append(str, c)[i + 1] ELSE Blank
    <3>1. CASE i = len
      <4>1. t.cells \in [0 .. cols - 1 -> Chars]
        BY <1>1 DEF Term
      <4>2. u.cells[i] = c
        BY <1>3, <2>3, <3>1, <4>1
      <4>3. i < len + 1 /\ Append(str, c)[i + 1] = c
        BY <2>2, <3>1
      <4>4. QED
        BY <4>2, <4>3
    <3>2. CASE i # len
      <4>1. u.cells[i] = t.cells[i]
        BY <1>1, <1>3, <2>3, <3>2 DEF Term
      <4>2. t.cells[i] = IF i < len THEN str[i + 1] ELSE Blank
        BY <1>6, <2>1 DEF RowShows
      <4>3. i < len => i + 1 \in 1 .. len
        OBVIOUS
      <4>4. i < len + 1 <=> i < len
        BY <3>2
      <4>5. QED
        BY <2>2, <4>1, <4>2, <4>3, <4>4
    <3>3. QED
      BY <3>1, <3>2
  <2>5. QED
    BY <1>3, <2>2, <2>3, <2>4 DEF RowShows
<1>7. t.col + 1 >= cols \/ t.col + 1 < cols
  BY <1>1, Sizes
<1>8. ASSUME NEW str \in Seq(Chars), Shown(t, str)
      PROVE  Shown(Stepped(t, c), Append(str, c))
  <2>1. CASE t.col + 1 >= cols
    BY <1>4, <2>1 DEF Shown
  <2>2. CASE t.col + 1 < cols
    BY <1>3, <1>5, <1>6, <1>8, <2>2 DEF Shown
  <2>3. QED
    BY <1>7, <2>1, <2>2
<1>9. QED
  BY <1>3, <1>4, <1>5, <1>7, <1>8

\* A \b: the cell before the cursor is blank.
LEMMA BackTerm ==
  ASSUME NEW t \in Terminals, t.marks = {}, ~t.drawn
  PROVE  /\ Stepped(t, BS) \in Terminals /\ Stepped(t, BS).marks = {} /\ ~Stepped(t, BS).drawn
         /\ Stepped(t, BS).visible = t.visible
         /\ \A str \in Seq(Chars) \ {<<>>} :
              Shown(t, str) => Shown(Stepped(t, BS), SubSeq(str, 1, Len(str) - 1))
<1> DEFINE u == [t EXCEPT !.cells[t.col - 1] = Blank, !.marks = {}, !.col = t.col - 1]
<1>1. t \in Term /\ t.col \in 0 .. cols - 1
  BY DEF Terminals, Term
<1>2. BS \notin {"\n", "\r"}
  BY DEF BS
<1>3. Stepped(t, BS) = IF t.col > 0 THEN put_char([t EXCEPT !.col = @ - 1], Blank) ELSE t
  BY <1>2 DEF Stepped
<1>4. ASSUME t.col > 0
      PROVE  /\ Stepped(t, BS) = u /\ u \in Terminals
             /\ u.marks = {} /\ u.drawn = t.drawn /\ u.visible = t.visible /\ u.wrapped = t.wrapped
             /\ u.col = t.col - 1 /\ u.cells = [t.cells EXCEPT ![t.col - 1] = Blank]
  <2>1. t.col - 1 \in 0 .. cols - 1
    BY <1>1, <1>4, Sizes
  <2>2. [t.cells EXCEPT ![t.col - 1] = Blank] \in [0 .. cols - 1 -> Chars]
    BY <1>1, <2>1, BlankChar DEF Term
  <2>3. u \in Term
    BY <1>1, <2>1, <2>2 DEF Term
  <2>4. put_char([t EXCEPT !.col = @ - 1], Blank) = u
    BY <1>1 DEF put_char, Term
  <2>5. /\ u.marks = {} /\ u.drawn = t.drawn /\ u.visible = t.visible /\ u.wrapped = t.wrapped
        /\ u.col = t.col - 1 /\ u.cells = [t.cells EXCEPT ![t.col - 1] = Blank]
    BY <1>1 DEF Term
  <2> HIDE DEF u
  <2>6. u \in Terminals
    BY <2>3, <2>5 DEF Terminals
  <2>7. QED
    BY <1>3, <1>4, <2>4, <2>5, <2>6
<1> HIDE DEF u
<1>5. ASSUME NEW str \in Seq(Chars) \ {<<>>}, RowShows(t, str)
      PROVE  t.col > 0 /\ RowShows(u, SubSeq(str, 1, Len(str) - 1))
  <2>1. PICK len \in Nat \ {0} : len = Len(str)
    OBVIOUS
  <2>2. t.col = len /\ t.col > 0
    BY <1>5, <2>1 DEF RowShows
  <2>3. /\ Len(SubSeq(str, 1, len - 1)) = len - 1
        /\ \A i \in 1 .. len - 1 : SubSeq(str, 1, len - 1)[i] = str[i]
    BY <2>1
  <2>4. ASSUME NEW i \in 0 .. cols - 1
        PROVE  u.cells[i] = IF i < len - 1 THEN SubSeq(str, 1, len - 1)[i + 1] ELSE Blank
    <3>1. u.cells = [t.cells EXCEPT ![len - 1] = Blank]
      BY <1>4, <2>2
    <3>2. CASE i = len - 1
      <4>1. t.cells \in [0 .. cols - 1 -> Chars]
        BY <1>1 DEF Term
      <4>2. u.cells[i] = Blank
        BY <3>1, <3>2, <4>1
      <4>3. ~(i < len - 1)
        BY <3>2
      <4>4. QED
        BY <4>2, <4>3
    <3>3. CASE i # len - 1
      <4>1. u.cells[i] = t.cells[i]
        BY <1>1, <3>1, <3>3 DEF Term
      <4>2. t.cells[i] = IF i < len THEN str[i + 1] ELSE Blank
        BY <1>5, <2>1 DEF RowShows
      <4>3. i < len - 1 => i + 1 \in 1 .. len - 1
        OBVIOUS
      <4>4. i < len <=> i < len - 1
        BY <3>3
      <4>5. QED
        BY <2>3, <4>1, <4>2, <4>3, <4>4
    <3>4. QED
      BY <3>2, <3>3
  <2>5. QED
    BY <1>4, <2>1, <2>2, <2>3, <2>4 DEF RowShows
<1>6. ASSUME NEW str \in Seq(Chars) \ {<<>>}, Shown(t, str)
      PROVE  Shown(Stepped(t, BS), SubSeq(str, 1, Len(str) - 1))
  <2>1. CASE t.col > 0
    BY <1>4, <1>5, <1>6, <2>1 DEF Shown
  <2>2. CASE ~(t.col > 0)
    <3>1. t.wrapped
      BY <1>5, <1>6, <2>2 DEF Shown
    <3>2. QED
      BY <1>3, <2>2, <3>1 DEF Shown
  <2>3. QED
    BY <2>1, <2>2
<1>7. QED
  BY <1>3, <1>4, <1>6

\* A \r: the cursor goes back to the margin.
LEMMA ReturnTerm ==
  ASSUME NEW t \in Terminals, t.marks = {}, ~t.drawn
  PROVE  /\ Stepped(t, "\r") \in Terminals /\ Stepped(t, "\r").marks = {}
         /\ ~Stepped(t, "\r").drawn /\ Stepped(t, "\r").visible = t.visible
<1> DEFINE u == [t EXCEPT !.col = 0]
<1>1. Stepped(t, "\r") = u
  BY DEF Stepped, BS
<1>2. t \in Term /\ 0 \in 0 .. cols - 1
  BY Sizes DEF Terminals
<1>3. u \in Term
  BY <1>2 DEF Term
<1>4. u.marks = {} /\ u.drawn = t.drawn /\ u.visible = t.visible
  BY <1>2 DEF Term
<1> HIDE DEF u
<1>5. u \in Terminals
  BY <1>3, <1>4 DEF Terminals
<1>6. QED
  BY <1>1, <1>4, <1>5

\* What the drawing of the cursor around a step leaves of it.
LEMMA PlainTerm ==
  ASSUME NEW t \in Terminals, NEW c
  PROVE  /\ Erased(t) \in Terminals /\ Erased(t).marks = {} /\ ~Erased(t).drawn
         /\ Erased(t).visible = t.visible
         /\ \A str : Shown(t, str) => Shown(Erased(t), str)
         /\ /\ Stepped(Erased(t), c) \in Terminals /\ Stepped(Erased(t), c).marks = {}
            /\ ~Stepped(Erased(t), c).drawn /\ Stepped(Erased(t), c).visible = t.visible
            => /\ Plain(t, c) \in Terminals
               /\ Plain(t, c).visible = t.visible /\ Plain(t, c).drawn = t.visible
               /\ \A str : RowShows(Stepped(Erased(t), c), str) => RowShows(Plain(t, c), str)
               /\ \A str : Shown(Stepped(Erased(t), c), str) => Shown(Plain(t, c), str)
<1>1. t \in Term /\ Erased(t) = [t EXCEPT !.marks = {}, !.drawn = FALSE] /\ Erased(t) \in Terminals
  BY ErasedTerm DEF Terminals
<1>2. PICK e : e = Erased(t)
  OBVIOUS
<1>3. /\ e.marks = {} /\ ~e.drawn /\ e.visible = t.visible
      /\ e.col = t.col /\ e.cells = t.cells /\ e.wrapped = t.wrapped
  BY <1>1, <1>2 DEF Term
<1>4. \A str : Shown(t, str) => Shown(e, str)
  BY <1>3 DEF Shown, RowShows
<1>5. PICK u : u = Stepped(e, c)
  OBVIOUS
<1>6. ASSUME u \in Terminals, u.marks = {}, ~u.drawn, u.visible = t.visible
      PROVE  /\ Plain(t, c) \in Terminals
             /\ Plain(t, c).visible = t.visible /\ Plain(t, c).drawn = t.visible
             /\ \A str : RowShows(u, str) => RowShows(Plain(t, c), str)
             /\ \A str : Shown(u, str) => Shown(Plain(t, c), str)
  <2>1. PICK v : v = draw_cursor(u, TRUE)
    OBVIOUS
  <2>2. Plain(t, c) = v
    BY <1>2, <1>5, <2>1 DEF Plain
  <2>3. /\ v = IF u.visible THEN [u EXCEPT !.marks = {Here(u)}, !.drawn = TRUE] ELSE u
        /\ v \in Terminals /\ v.drawn = t.visible
    BY <1>6, <2>1, DrawnTerm
  <2>4. u \in Term
    BY <1>6 DEF Terminals
  <2>5. v.visible = u.visible /\ v.col = u.col /\ v.cells = u.cells /\ v.wrapped = u.wrapped
    BY <2>3, <2>4 DEF Term
  <2>6. QED
    BY <1>6, <2>2, <2>3, <2>5 DEF Shown, RowShows
<1>7. QED
  BY <1>1, <1>2, <1>3, <1>4, <1>5, <1>6

LEMMA PlainCell ==
  ASSUME NEW t \in Terminals, NEW c \in Cell
  PROVE  /\ Plain(t, c) \in Terminals
         /\ Plain(t, c).visible = t.visible /\ Plain(t, c).drawn = t.visible
         /\ \A str \in Seq(Chars) : Shown(t, str) => Shown(Plain(t, c), Append(str, c))
BY PlainTerm, PutTerm

LEMMA PlainBack ==
  ASSUME NEW t \in Terminals
  PROVE  /\ Plain(t, BS) \in Terminals
         /\ Plain(t, BS).visible = t.visible /\ Plain(t, BS).drawn = t.visible
         /\ \A str \in Seq(Chars) \ {<<>>} :
              Shown(t, str) => Shown(Plain(t, BS), SubSeq(str, 1, Len(str) - 1))
BY PlainTerm, BackTerm

LEMMA PlainReturn ==
  ASSUME NEW t \in Terminals
  PROVE  /\ Plain(t, "\r") \in Terminals
         /\ Plain(t, "\r").visible = t.visible /\ Plain(t, "\r").drawn = t.visible
BY PlainTerm, ReturnTerm

LEMMA PlainNewline ==
  ASSUME NEW t \in Terminals
  PROVE  /\ Plain(t, "\n") \in Terminals
         /\ Plain(t, "\n").visible = t.visible /\ Plain(t, "\n").drawn = t.visible
         /\ Fresh(Plain(t, "\n"))
<1>1. Stepped(Erased(t), "\n") = newline(Erased(t))
  BY DEF Stepped, BS
<1>2. QED
  BY <1>1, PlainTerm, NewlineTerm DEF Fresh

-----------------------------------------------------------------------------
(* Texts, character by character.                                          *)

LEMMA Beginning ==
  ASSUME NEW b \in Seq(Chars), NEW k \in 0 .. Len(b)
  PROVE  SubSeq(b, 1, k) \in Seq(Chars) /\ Len(SubSeq(b, 1, k)) = k
<1>1. k \in Int /\ 1 \in Int /\ \A i \in 1 .. k : b[i] \in Chars
  OBVIOUS
<1>2. SubSeq(b, 1, k) \in Seq(Chars) /\ Len(SubSeq(b, 1, k)) = IF 1 <= k THEN k - 1 + 1 ELSE 0
  BY <1>1, SubSeqProperties
<1>3. QED
  BY <1>1, <1>2

LEMMA BeginningGrows ==
  ASSUME NEW b \in Seq(Chars), NEW k \in 1 .. Len(b)
  PROVE  Append(SubSeq(b, 1, k - 1), b[k]) = SubSeq(b, 1, k)
<1>1. 1 \in 1 .. Len(b) /\ b[k] \in Chars /\ SubSeq(b, 1, k - 1) \in Seq(Chars)
  <2>1. k - 1 \in 0 .. Len(b)
    OBVIOUS
  <2>2. QED
    BY <2>1, Beginning
<1>2. SubSeq(b, 1, k) = SubSeq(b, 1, k - 1) \o <<b[k]>>
  BY <1>1, SubSeqRecursiveSecond
<1>3. QED
  BY <1>1, <1>2, AppendIsConcat

LEMMA AppendConcat ==
  ASSUME NEW a \in Seq(Chars), NEW b \in Seq(Chars), NEW c \in Chars
  PROVE  Append(a \o b, c) = a \o Append(b, c)
<1>1. a \o b \in Seq(Chars) /\ <<c>> \in Seq(Chars)
  BY ConcatProperties
<1>2. Append(a \o b, c) = (a \o b) \o <<c>> /\ Append(b, c) = b \o <<c>>
  BY <1>1, AppendIsConcat
<1>3. (a \o b) \o <<c>> = a \o (b \o <<c>>)
  BY <1>1, ConcatAssociative
<1>4. QED
  BY <1>2, <1>3

\* The last character of the second text is the last of both.
LEMMA FrontConcat ==
  ASSUME NEW a \in Seq(Chars), NEW b \in Seq(Chars) \ {<<>>}
  PROVE  SubSeq(a \o b, 1, Len(a \o b) - 1) = a \o SubSeq(b, 1, Len(b) - 1)
<1>1. PICK size \in Nat \ {0} : size = Len(b)
  OBVIOUS
<1> DEFINE f == SubSeq(b, 1, size - 1)
           last == b[size]
<1> HIDE DEF f, last
<1>2. f \in Seq(Chars) /\ last \in Chars
  <2>1. size - 1 \in 0 .. Len(b) /\ size \in 1 .. Len(b)
    BY <1>1
  <2>2. QED
    BY <2>1, Beginning DEF f, last
<1>3. b = Append(f, last)
  <2>1. size \in 1 .. Len(b)
    BY <1>1
  <2>2. Append(f, last) = SubSeq(b, 1, size)
    BY <2>1, BeginningGrows DEF f, last
  <2>3. QED
    BY <1>1, <2>2, SubSeqFull
<1>4. PICK x \in Seq(Chars) : x = a \o f
  BY <1>2, ConcatProperties
<1>5. a \o b = Append(x, last)
  BY <1>2, <1>3, <1>4, AppendConcat
<1>6. Len(Append(x, last)) - 1 = Len(x) /\ SubSeq(Append(x, last), 1, Len(x)) = x
  BY <1>2
<1>7. QED
  BY <1>1, <1>4, <1>5, <1>6 DEF f

Plains(t, str) == FoldLeft(Plain, t, str)

\* The screens on the way.
PlainSteps(f, t, str, len) ==
  /\ f[0] = t /\ \A i \in 1 .. len : f[i] = Plain(f[i - 1], str[i])
  /\ Plains(t, str) = f[len]

Steps(f, t, str, len) ==
  /\ f[0] = t /\ \A i \in 1 .. len : f[i] = term_print_char(f[i - 1], str[i])
  /\ term_print(t, str) = f[len]

\* The recursive definition of the fold over Plain.
LEMMA PlainsDef ==
  ASSUME NEW base, NEW seq
  PROVE  Plains(base, seq) =
           (CHOOSE it : it = [s \in SUBSET DOMAIN seq |-> IF s = {} THEN base
              ELSE Plain(it[s \ {Max(s)}], seq[Max(s)])])[DOMAIN seq]
BY DEF Plains, FoldLeft, MapThenFoldSet

LEMMA PlainsAre ==
  ASSUME NEW T, NEW C, NEW base \in T, \A u \in T, c \in C : Plain(u, c) \in T,
         NEW len \in Nat, NEW seq \in [1 .. len -> C]
  PROVE  \E f : PlainSteps(f, base, seq, len)
<1> DEFINE On == [p \in T \X C |-> Plain(p[1], p[2])]
           It(h) == [s \in SUBSET (1 .. len) |-> IF s = {} THEN base
                       ELSE Plain(h[s \ {Max(s)}], seq[Max(s)])]
<1>1. On \in [T \X C -> T] /\ \A u \in T, c \in C : On[<<u, c>>] = Plain(u, c)
  OBVIOUS
<1> HIDE DEF On
<1>2. PICK h \in [SUBSET (1 .. len) -> T] : Folds(h, base, On, seq, 1 .. len)
  BY <1>1, FoldsExist
<1>3. h = It(h)
  <2>1. ASSUME NEW s \in SUBSET (1 .. len)
        PROVE  h[s] = IF s = {} THEN base ELSE Plain(h[s \ {Max(s)}], seq[Max(s)])
    <3>1. h[s] = IF s = {} THEN base ELSE On[<<h[s \ {Max(s)}], seq[Max(s)]>>]
      BY <1>2 DEF Folds
    <3>2. ASSUME s # {}
          PROVE  h[s \ {Max(s)}] \in T /\ seq[Max(s)] \in C
      <4>1. s \in SUBSET Nat /\ \A i \in s : i <= len
        OBVIOUS
      <4>2. PICK m : m = Max(s)
        OBVIOUS
      <4>3. m \in s
        BY <3>2, <4>1, <4>2, MaxIsMember
      <4>4. s \ {m} \in SUBSET (1 .. len) /\ m \in 1 .. len
        BY <4>3
      <4>5. QED
        BY <4>2, <4>4
    <3>3. QED
      BY <1>1, <3>1, <3>2
  <2>2. QED
    BY <2>1
<1>4. PICK it : it = (CHOOSE g : g = It(g))
  OBVIOUS
<1>5. it = It(it)
  BY <1>3, <1>4
<1>6. DOMAIN seq = 1 .. len
  OBVIOUS
<1>7. Plains(base, seq) = it[1 .. len]
  BY <1>4, <1>6, PlainsDef
<1> DEFINE f == [k \in 0 .. len |-> it[1 .. k]]
<1>8. \A s \in SUBSET (1 .. len) :
        it[s] = IF s = {} THEN base ELSE Plain(it[s \ {Max(s)}], seq[Max(s)])
  BY <1>5, Zenon
<1> HIDE DEF It
<1>9. f[0] = base
  <2>1. 0 \in 0 .. len /\ 1 .. 0 = {} /\ {} \in SUBSET (1 .. len)
    OBVIOUS
  <2>2. QED
    BY <1>8, <2>1
<1>10. ASSUME NEW i \in 1 .. len
       PROVE  f[i] = Plain(f[i - 1], seq[i])
  <2>1. /\ 1 .. i # {} /\ Max(1 .. i) = i /\ (1 .. i) \ {i} = 1 .. i - 1
        /\ 1 .. i \in SUBSET (1 .. len)
    BY Segments
  <2>2. it[1 .. i] = Plain(it[1 .. i - 1], seq[i])
    BY <1>8, <2>1
  <2>3. i \in 0 .. len /\ i - 1 \in 0 .. len
    OBVIOUS
  <2>4. QED
    BY <2>2, <2>3
<1>11. len \in 0 .. len
  OBVIOUS
<1>12. f[len] = it[1 .. len]
  BY <1>11
<1> HIDE DEF f
<1>13. QED
  BY <1>7, <1>9, <1>10, <1>12 DEF PlainSteps

\* The recursive definition of the fold over term_print_char.
LEMMA PrintsDef ==
  ASSUME NEW base, NEW seq
  PROVE  term_print(base, seq) =
           (CHOOSE it : it = [s \in SUBSET DOMAIN seq |-> IF s = {} THEN base
              ELSE term_print_char(it[s \ {Max(s)}], seq[Max(s)])])[DOMAIN seq]
BY DEF term_print, FoldLeft, MapThenFoldSet

LEMMA PrintsAre ==
  ASSUME NEW T, NEW C, NEW base \in T, \A u \in T, c \in C : term_print_char(u, c) \in T,
         NEW len \in Nat, NEW seq \in [1 .. len -> C]
  PROVE  \E f : Steps(f, base, seq, len)
<1> DEFINE On == [p \in T \X C |-> term_print_char(p[1], p[2])]
           It(h) == [s \in SUBSET (1 .. len) |-> IF s = {} THEN base
                       ELSE term_print_char(h[s \ {Max(s)}], seq[Max(s)])]
<1>1. On \in [T \X C -> T] /\ \A u \in T, c \in C : On[<<u, c>>] = term_print_char(u, c)
  OBVIOUS
<1> HIDE DEF On
<1>2. PICK h \in [SUBSET (1 .. len) -> T] : Folds(h, base, On, seq, 1 .. len)
  BY <1>1, FoldsExist
<1>3. h = It(h)
  <2>1. ASSUME NEW s \in SUBSET (1 .. len)
        PROVE  h[s] = IF s = {} THEN base ELSE term_print_char(h[s \ {Max(s)}], seq[Max(s)])
    <3>1. h[s] = IF s = {} THEN base ELSE On[<<h[s \ {Max(s)}], seq[Max(s)]>>]
      BY <1>2 DEF Folds
    <3>2. ASSUME s # {}
          PROVE  h[s \ {Max(s)}] \in T /\ seq[Max(s)] \in C
      <4>1. s \in SUBSET Nat /\ \A i \in s : i <= len
        OBVIOUS
      <4>2. PICK m : m = Max(s)
        OBVIOUS
      <4>3. m \in s
        BY <3>2, <4>1, <4>2, MaxIsMember
      <4>4. s \ {m} \in SUBSET (1 .. len) /\ m \in 1 .. len
        BY <4>3
      <4>5. QED
        BY <4>2, <4>4
    <3>3. QED
      BY <1>1, <3>1, <3>2
  <2>2. QED
    BY <2>1
<1>4. PICK it : it = (CHOOSE g : g = It(g))
  OBVIOUS
<1>5. it = It(it)
  BY <1>3, <1>4
<1>6. DOMAIN seq = 1 .. len
  OBVIOUS
<1>7. term_print(base, seq) = it[1 .. len]
  BY <1>4, <1>6, PrintsDef
<1> DEFINE f == [k \in 0 .. len |-> it[1 .. k]]
<1>8. \A s \in SUBSET (1 .. len) :
        it[s] = IF s = {} THEN base ELSE term_print_char(it[s \ {Max(s)}], seq[Max(s)])
  BY <1>5, Zenon
<1> HIDE DEF It
<1>9. f[0] = base
  <2>1. 0 \in 0 .. len /\ 1 .. 0 = {} /\ {} \in SUBSET (1 .. len)
    OBVIOUS
  <2>2. QED
    BY <1>8, <2>1
<1>10. ASSUME NEW i \in 1 .. len
       PROVE  f[i] = term_print_char(f[i - 1], seq[i])
  <2>1. /\ 1 .. i # {} /\ Max(1 .. i) = i /\ (1 .. i) \ {i} = 1 .. i - 1
        /\ 1 .. i \in SUBSET (1 .. len)
    BY Segments
  <2>2. it[1 .. i] = term_print_char(it[1 .. i - 1], seq[i])
    BY <1>8, <2>1
  <2>3. i \in 0 .. len /\ i - 1 \in 0 .. len
    OBVIOUS
  <2>4. QED
    BY <2>2, <2>3
<1>11. len \in 0 .. len
  OBVIOUS
<1>12. f[len] = it[1 .. len]
  BY <1>11
<1> HIDE DEF f
<1>13. QED
  BY <1>7, <1>9, <1>10, <1>12 DEF Steps

\* A tab is made of blanks, of one at least.
LEMMA TabTerm ==
  ASSUME NEW t \in Terminals
  PROVE  /\ term_print_char(t, "\t") \in Terminals
         /\ term_print_char(t, "\t").visible = t.visible
         /\ term_print_char(t, "\t").drawn = t.visible
<1>1. PICK e \in Terminals : e = Erased(t) /\ e.visible = t.visible
  BY PlainTerm
<1>2. PICK len \in Nat \ {0} : Blanks(t) = [i \in 1 .. len |-> Blank]
  <2>1. t.col \in 0 .. cols - 1
    BY DEF Terminals, Term
  <2>2. PICK stop \in Nat : stop = 4 - (t.col % 4) /\ stop > 0
    BY <2>1, Sizes
  <2>3. cols - t.col \in Nat \ {0}
    BY <2>1, Sizes
  <2>4. Blanks(t) = [i \in 1 .. (IF cols - t.col < stop THEN cols - t.col ELSE stop) |-> Blank]
    BY <2>2 DEF Blanks
  <2>5. QED
    BY <2>2, <2>3, <2>4
<1> DEFINE seq == [i \in 1 .. len |-> Blank]
           T == {u \in Terminals : u.visible = t.visible}
           Good(u) == u \in T /\ u.drawn = t.visible
<1>3. ASSUME NEW u \in T, NEW c \in {Blank}
      PROVE  Good(Plain(u, c))
  BY PlainCell, BlankChar
<1>4. e \in T /\ seq \in [1 .. len -> {Blank}] /\ len \in Nat /\ Blanks(t) = seq
      /\ \A i \in 1 .. len : seq[i] = Blank
  BY <1>1, <1>2
<1> HIDE DEF T, seq
<1>5. PICK f : PlainSteps(f, e, seq, len)
  BY <1>3, <1>4, PlainsAre
<1> DEFINE Ks == {k \in Nat : k > len \/ (f[k] \in T /\ (k > 0 => Good(f[k])))}
<1>6. 0 \in Ks
  BY <1>4, <1>5 DEF PlainSteps
<1>7. ASSUME NEW k \in Nat, k \in Ks
      PROVE  k + 1 \in Ks
  <2>1. CASE k + 1 > len
    BY <2>1
  <2>2. CASE k + 1 <= len
    <3>1. f[k] \in T /\ k + 1 \in 1 .. len /\ k + 1 - 1 = k
      BY <1>7, <2>2
    <3>2. f[k + 1] = Plain(f[k], Blank)
      BY <1>4, <1>5, <3>1 DEF PlainSteps
    <3>3. Good(f[k + 1])
      BY <1>3, <3>1, <3>2
    <3>4. QED
      BY <3>3
  <2>3. QED
    BY <2>1, <2>2
<1>8. len \in Ks
  <2> HIDE DEF Ks
  <2>1. QED
    BY <1>6, <1>7, AllNumbers
<1>9. Good(f[len])
  BY <1>8
<1>10. term_print_char(t, "\t") = f[len]
  BY <1>1, <1>4, <1>5 DEF term_print_char, Plains, PlainSteps
<1>11. QED
  BY <1>9, <1>10 DEF T

LEMMA CharTerm ==
  ASSUME NEW t \in Terminals, NEW c \in Chars
  PROVE  /\ term_print_char(t, c) \in Terminals
         /\ term_print_char(t, c).visible = t.visible
         /\ term_print_char(t, c).drawn = t.visible
<1>1. c # "\t" => term_print_char(t, c) = Plain(t, c)
  BY DEF term_print_char
<1>2. CASE c \in Cell
  BY <1>1, <1>2, PlainCell DEF Cell
<1>3. CASE c = "\n"
  <2>1. "\n" # "\t"
    OBVIOUS
  <2>2. QED
    BY <1>1, <1>3, <2>1, PlainNewline
<1>4. CASE c = "\r"
  <2>1. "\r" # "\t"
    OBVIOUS
  <2>2. QED
    BY <1>1, <1>4, <2>1, PlainReturn
<1>5. CASE c = BS
  <2>1. BS # "\t"
    BY DEF BS
  <2>2. QED
    BY <1>1, <1>5, <2>1, PlainBack
<1>6. CASE c = "\t"
  BY <1>6, TabTerm
<1>7. QED
  BY <1>2, <1>3, <1>4, <1>5, <1>6 DEF Cell

LEMMA CharCell ==
  ASSUME NEW t \in Terminals, NEW c \in Cell, NEW str \in Seq(Chars), Shown(t, str)
  PROVE  Shown(term_print_char(t, c), Append(str, c))
<1>1. c # "\t"
  BY DEF Cell
<1>2. term_print_char(t, c) = Plain(t, c)
  BY <1>1 DEF term_print_char
<1>3. QED
  BY <1>2, PlainCell

LEMMA CharBack ==
  ASSUME NEW t \in Terminals, NEW str \in Seq(Chars) \ {<<>>}, Shown(t, str)
  PROVE  Shown(term_print_char(t, BS), SubSeq(str, 1, Len(str) - 1))
<1>1. BS # "\t"
  BY DEF BS
<1>2. term_print_char(t, BS) = Plain(t, BS)
  BY <1>1 DEF term_print_char
<1>3. QED
  BY <1>2, PlainBack

LEMMA CharNewline ==
  ASSUME NEW t \in Terminals
  PROVE  Fresh(term_print_char(t, "\n"))
<1>1. "\n" # "\t"
  OBVIOUS
<1>2. term_print_char(t, "\n") = Plain(t, "\n")
  BY <1>1 DEF term_print_char
<1>3. QED
  BY <1>2, PlainNewline

\* All screens on the way are screens, with the same visibility.
LEMMA TextSteps ==
  ASSUME NEW t \in Terminals, NEW str \in Seq(Chars)
  PROVE  \E f : /\ Steps(f, t, str, Len(str))
               /\ \A k \in 0 .. Len(str) : f[k] \in Terminals /\ f[k].visible = t.visible
<1> DEFINE T == {u \in Terminals : u.visible = t.visible}
<1>1. PICK len \in Nat : len = Len(str) /\ str \in [1 .. len -> Chars]
  OBVIOUS
<1>2. \A u \in T, c \in Chars : term_print_char(u, c) \in T
  BY CharTerm
<1>3. t \in T
  OBVIOUS
<1> HIDE DEF T
<1>4. PICK f : Steps(f, t, str, len)
  BY <1>1, <1>2, <1>3, PrintsAre
<1> DEFINE Ks == {k \in Nat : k > len \/ f[k] \in T}
<1>5. 0 \in Ks
  BY <1>3, <1>4 DEF Steps
<1>6. ASSUME NEW k \in Nat, k \in Ks
      PROVE  k + 1 \in Ks
  <2>1. CASE k + 1 > len
    BY <2>1
  <2>2. CASE k + 1 <= len
    <3>1. f[k] \in T /\ k + 1 \in 1 .. len /\ k + 1 - 1 = k
      BY <1>6, <2>2
    <3>2. f[k + 1] = term_print_char(f[k], str[k + 1]) /\ str[k + 1] \in Chars
      BY <1>1, <1>4, <3>1 DEF Steps
    <3>3. QED
      BY <1>2, <3>1, <3>2
  <2>3. QED
    BY <2>1, <2>2
<1> HIDE DEF Ks
<1>7. Nat \subseteq Ks
  BY <1>5, <1>6, AllNumbers
<1>8. ASSUME NEW k \in 0 .. len
      PROVE  f[k] \in Terminals /\ f[k].visible = t.visible
  <2>1. k \in Ks /\ ~(k > len)
    BY <1>7
  <2>2. f[k] \in T
    BY <2>1 DEF Ks
  <2>3. QED
    BY <2>2 DEF T
<1>9. QED
  BY <1>1, <1>4, <1>8

\* What is printed last decides where the cursor is.
LEMMA TextTerm ==
  ASSUME NEW t \in Terminals, NEW str \in Seq(Chars)
  PROVE  /\ term_print(t, str) \in Terminals /\ term_print(t, str).visible = t.visible
         /\ str = <<>> => term_print(t, str) = t
         /\ str # <<>> => term_print(t, str).drawn = t.visible
         /\ str # <<>> /\ Last(str) = "\n" => Fresh(term_print(t, str))
<1>1. PICK len \in Nat : len = Len(str) /\ str \in [1 .. len -> Chars]
  OBVIOUS
<1>2. PICK f : /\ Steps(f, t, str, len)
               /\ \A k \in 0 .. len : f[k] \in Terminals /\ f[k].visible = t.visible
  BY <1>1, TextSteps
<1>3. term_print(t, str) = f[len] /\ f[0] = t /\ len \in 0 .. len
  BY <1>2 DEF Steps
<1>4. ASSUME str # <<>>
      PROVE  term_print(t, str).drawn = t.visible /\ (Last(str) = "\n" => Fresh(term_print(t, str)))
  <2>1. len \in 1 .. len /\ len - 1 \in 0 .. len /\ str[len] \in Chars
    BY <1>1, <1>4
  <2>2. f[len] = term_print_char(f[len - 1], str[len])
    BY <1>2, <2>1 DEF Steps
  <2>3. f[len - 1] \in Terminals /\ f[len - 1].visible = t.visible
    BY <1>2, <2>1
  <2>4. Last(str) = str[len]
    BY <1>1 DEF Last
  <2>5. term_print_char(f[len - 1], str[len]).drawn = t.visible
    BY <2>1, <2>3, CharTerm
  <2>6. str[len] = "\n" => Fresh(term_print_char(f[len - 1], str[len]))
    BY <2>3, CharNewline
  <2>7. QED
    BY <1>3, <2>2, <2>4, <2>5, <2>6
<1>5. str = <<>> => len = 0
  BY <1>1
<1>6. QED
  BY <1>2, <1>3, <1>4, <1>5

\* There is one way through a text.
LEMMA TextIs ==
  ASSUME NEW t \in Terminals, NEW str \in Seq(Chars), NEW f, NEW len \in Nat, len = Len(str),
         f[0] = t, \A i \in 1 .. len : f[i] = term_print_char(f[i - 1], str[i])
  PROVE  term_print(t, str) = f[len]
<1>1. PICK g : Steps(g, t, str, len)
  BY TextSteps
<1> DEFINE Ks == {k \in Nat : k > len \/ g[k] = f[k]}
<1>2. 0 \in Ks
  BY <1>1 DEF Steps
<1>3. ASSUME NEW k \in Nat, k \in Ks
      PROVE  k + 1 \in Ks
  <2>1. CASE k + 1 > len
    BY <2>1
  <2>2. CASE k + 1 <= len
    <3>1. g[k] = f[k] /\ k + 1 \in 1 .. len /\ k + 1 - 1 = k
      BY <1>3, <2>2
    <3>2. g[k + 1] = term_print_char(g[k], str[k + 1]) /\ f[k + 1] = term_print_char(f[k], str[k + 1])
      BY <1>1, <3>1 DEF Steps
    <3>3. QED
      BY <3>1, <3>2
  <2>3. QED
    BY <2>1, <2>2
<1> HIDE DEF Ks
<1>4. len \in Ks
  BY <1>2, <1>3, AllNumbers
<1>5. g[len] = f[len]
  BY <1>4 DEF Ks
<1>6. QED
  BY <1>1, <1>5 DEF Steps

LEMMA TextConcat ==
  ASSUME NEW t \in Terminals, NEW a \in Seq(Chars), NEW b \in Seq(Chars)
  PROVE  term_print(t, a \o b) = term_print(term_print(t, a), b)
<1>1. PICK la \in Nat, lb \in Nat : la = Len(a) /\ lb = Len(b)
  OBVIOUS
<1> DEFINE c == a \o b
<1>2. /\ c \in Seq(Chars) /\ Len(c) = la + lb
      /\ \A i \in 1 .. la : c[i] = a[i]
      /\ \A i \in 1 .. lb : c[la + i] = b[i]
  <2>1. c \in Seq(Chars) /\ Len(c) = la + lb
    BY <1>1
  <2>2. \A i \in 1 .. la + lb : c[i] = IF i <= la THEN a[i] ELSE b[i - la]
    BY <1>1
  <2>3. ASSUME NEW i \in 1 .. lb
        PROVE  c[la + i] = b[i]
    <3>1. PICK j \in 1 .. la + lb : j = la + i
      OBVIOUS
    <3>2. ~(j <= la) /\ j - la = i
      BY <3>1
    <3>3. c[j] = b[i]
      BY <2>2, <3>2
    <3>4. QED
      BY <3>1, <3>3
  <2>4. QED
    BY <2>1, <2>2, <2>3
<1> HIDE DEF c
<1>3. PICK f : Steps(f, t, c, la + lb) /\ \A k \in 0 .. la + lb : f[k] \in Terminals
  <2>1. \E f : Steps(f, t, c, Len(c)) /\ \A k \in 0 .. Len(c) : f[k] \in Terminals
    BY <1>2, TextSteps
  <2>2. QED
    BY <1>2, <2>1
<1>4. term_print(t, a) = f[la]
  <2>1. f[0] = t /\ \A i \in 1 .. la : f[i] = term_print_char(f[i - 1], a[i])
    <3>1. \A i \in 1 .. la : i \in 1 .. la + lb
      OBVIOUS
    <3>2. QED
      BY <1>2, <1>3, <3>1 DEF Steps
  <2>2. QED
    BY <1>1, <2>1, TextIs
<1> DEFINE g == [k \in 0 .. lb |-> f[la + k]]
<1>5. g[0] = f[la] /\ g[lb] = f[la + lb] /\ f[la] \in Terminals
  <2>1. 0 \in 0 .. lb /\ lb \in 0 .. lb /\ la + 0 = la /\ la \in 0 .. la + lb
    OBVIOUS
  <2>2. QED
    BY <1>3, <2>1
<1>6. ASSUME NEW i \in 1 .. lb
      PROVE  g[i] = term_print_char(g[i - 1], b[i])
  <2>1. /\ i \in 0 .. lb /\ i - 1 \in 0 .. lb /\ la + i \in 1 .. la + lb
        /\ la + i - 1 = la + (i - 1)
    OBVIOUS
  <2>2. g[i] = f[la + i] /\ g[i - 1] = f[la + i - 1]
    BY <2>1
  <2>3. f[la + i] = term_print_char(f[la + i - 1], c[la + i]) /\ c[la + i] = b[i]
    <3>1. \A k \in 1 .. la + lb : f[k] = term_print_char(f[k - 1], c[k])
      BY <1>3 DEF Steps
    <3>2. QED
      BY <1>2, <2>1, <3>1
  <2>4. QED
    BY <2>1, <2>2, <2>3
<1> HIDE DEF g
<1>7. term_print(f[la], b) = g[lb]
  BY <1>1, <1>5, <1>6, TextIs
<1>8. term_print(t, c) = f[la + lb]
  BY <1>3 DEF Steps
<1>9. QED
  BY <1>4, <1>5, <1>7, <1>8 DEF c

\* What is printed is shown behind what is shown already.
LEMMA TextShown ==
  ASSUME NEW t \in Terminals, NEW s \in Seq(Chars), Shown(t, s), NEW str \in Seq(Cell)
  PROVE  Shown(term_print(t, str), s \o str)
<1>1. str \in Seq(Chars) /\ \A i \in 1 .. Len(str) : str[i] \in Cell
  BY DEF Cell
<1>2. PICK len \in Nat : len = Len(str)
  OBVIOUS
<1>3. PICK f : Steps(f, t, str, len) /\ \A k \in 0 .. len : f[k] \in Terminals
  BY <1>1, <1>2, TextSteps
<1> DEFINE Upto(k) == s \o SubSeq(str, 1, k)
           Ks == {k \in Nat : k > len \/ Shown(f[k], Upto(k))}
<1>4. 0 \in Ks
  <2>1. Upto(0) = s
    BY <1>1
  <2>2. QED
    BY <1>3, <2>1 DEF Steps
<1>5. ASSUME NEW k \in Nat, k \in Ks
      PROVE  k + 1 \in Ks
  <2>1. CASE k + 1 > len
    BY <2>1
  <2>2. CASE k + 1 <= len
    <3>1. Shown(f[k], Upto(k)) /\ k + 1 \in 1 .. len /\ k + 1 - 1 = k /\ k \in 0 .. len
      BY <1>5, <2>2
    <3>2. f[k + 1] = term_print_char(f[k], str[k + 1])
      BY <1>3, <3>1 DEF Steps
    <3>3. Upto(k) \in Seq(Chars) /\ str[k + 1] \in Cell /\ str[k + 1] \in Chars
      BY <1>1, <1>2, <3>1 DEF Cell
    <3>4. Append(Upto(k), str[k + 1]) = Upto(k + 1)
      <4>1. PICK b \in Seq(Chars) : b = SubSeq(str, 1, k)
        BY <1>1, <1>2, <3>1, Beginning
      <4>2. Append(b, str[k + 1]) = SubSeq(str, 1, k + 1)
        BY <1>1, <1>2, <3>1, <4>1, BeginningGrows
      <4>3. Append(s \o b, str[k + 1]) = s \o Append(b, str[k + 1])
        BY <1>1, <3>3, AppendConcat
      <4>4. QED
        BY <4>1, <4>2, <4>3
    <3> HIDE DEF Upto
    <3>5. Shown(f[k + 1], Upto(k + 1))
      BY <1>3, <3>1, <3>2, <3>3, <3>4, CharCell
    <3>6. QED
      BY <3>5
  <2>3. QED
    BY <2>1, <2>2
<1> HIDE DEF Ks
<1>6. len \in Ks
  BY <1>4, <1>5, AllNumbers
<1>7. Shown(f[len], Upto(len))
  <2> HIDE DEF Upto
  <2>1. QED
    BY <1>6 DEF Ks
<1>8. Upto(len) = s \o str
  BY <1>1, <1>2
<1>9. QED
  BY <1>3, <1>7, <1>8 DEF Steps

\* \b goes back to where a part of the line was printed.
LEMMA BacksShown ==
  ASSUME NEW t \in Terminals, NEW s \in Seq(Chars), Shown(t, s), NEW many \in 0 .. Len(s)
  PROVE  Shown(term_print(t, Times(BS, many)), SubSeq(s, 1, Len(s) - many))
<1> DEFINE str == Times(BS, many)
<1>1. str \in Seq(Chars) /\ many = Len(str) /\ \A i \in 1 .. many : str[i] = BS
  <2>1. BS \in Chars
    BY DEF Chars
  <2>2. many \in Nat /\ str = [i \in 1 .. many |-> BS]
    BY DEF Times
  <2> HIDE DEF str
  <2>3. QED
    BY <2>1, <2>2
<1> HIDE DEF str
<1>2. PICK size \in Nat : size = Len(s) /\ many \in Nat /\ many <= size
  OBVIOUS
<1>3. PICK f : Steps(f, t, str, many) /\ \A k \in 0 .. many : f[k] \in Terminals
  BY <1>1, TextSteps
<1> DEFINE Rest(k) == SubSeq(s, 1, size - k)
           Ks == {k \in Nat : k > many \/ Shown(f[k], Rest(k))}
<1>4. 0 \in Ks
  <2>1. Rest(0) = s
    BY <1>2
  <2>2. QED
    BY <1>3, <2>1 DEF Steps
<1>5. ASSUME NEW k \in Nat, k \in Ks
      PROVE  k + 1 \in Ks
  <2>1. CASE k + 1 > many
    BY <2>1, <1>2
  <2>2. CASE k + 1 <= many
    <3>1. Shown(f[k], Rest(k)) /\ k + 1 \in 1 .. many /\ k + 1 - 1 = k /\ k \in 0 .. many
      BY <1>2, <1>5, <2>2
    <3>2. f[k + 1] = term_print_char(f[k], BS)
      BY <1>1, <1>3, <3>1 DEF Steps
    <3>3. Rest(k) \in Seq(Chars) \ {<<>>} /\ Len(Rest(k)) = size - k
      <4>1. size - k \in Nat \ {0} /\ size - k <= Len(s)
        BY <1>2, <3>1
      <4>2. Rest(k) \in Seq(Chars) /\ Len(Rest(k)) = size - k
        BY <4>1
      <4>3. QED
        BY <4>1, <4>2
    <3>4. SubSeq(Rest(k), 1, size - k - 1) = Rest(k + 1)
      BY <1>2, <3>1
    <3> HIDE DEF Rest
    <3>5. Shown(f[k + 1], Rest(k + 1))
      BY <1>3, <3>1, <3>2, <3>3, <3>4, CharBack
    <3>6. QED
      BY <3>5
  <2>3. QED
    BY <1>2, <2>1, <2>2
<1> HIDE DEF Ks
<1>6. many \in Ks
  BY <1>2, <1>4, <1>5, AllNumbers
<1>7. Shown(f[many], Rest(many))
  <2> HIDE DEF Rest
  <2>1. QED
    BY <1>6 DEF Ks
<1>8. QED
  BY <1>2, <1>3, <1>7 DEF Steps, str

-----------------------------------------------------------------------------
(* The line editor.                                                        *)

\* A screen on which the cursor is drawn, unless it is hidden.
Settled(t) == t \in Terminals /\ t.drawn = t.visible

LEMMA PromptText == PROMPT \in Seq(Cell) \ {<<>>} /\ Cell \subseteq Chars
<1>1. Printed \subseteq Cell /\ Cell \subseteq Chars
  BY DEF Printed, Cell, Chars
<1>2. PROMPT \in Seq(Printed) \ {<<>>}
  BY ConsoleAssumption
<1>3. QED
  BY <1>1, <1>2

LEMMA Joined ==
  ASSUME NEW a \in Seq(Chars), NEW b \in Seq(Chars)
  PROVE  /\ a \o b \in Seq(Chars) /\ Len(a \o b) = Len(a) + Len(b)
         /\ SubSeq(a \o b, 1, Len(a)) = a
<1>1. PICK s \in Seq(Chars) : s = a \o b
  BY ConcatProperties
<1> DEFINE size == Len(a)
<1>2. Len(s) = size + Len(b) /\ \A i \in 1 .. size : s[i] = a[i]
  BY <1>1, ConcatProperties
<1>3. SubSeq(s, 1, size) = a
  BY <1>1, <1>2
<1>4. QED
  BY <1>1, <1>2, <1>3

LEMMA CompleteTerm ==
  ASSUME NEW t \in Terminals, NEW out, Complete(out)
  PROVE  /\ term_print(t, out) \in Terminals /\ term_print(t, out).visible = t.visible
         /\ Fresh(t) \/ out # <<>> => Fresh(term_print(t, out))
<1>1. out \in Seq(STRING) /\ STRING \subseteq Chars
  BY DEF Complete, Chars
<1>2. out \in Seq(Chars)
  <2>1. PICK len \in Nat : len = Len(out) /\ out \in [1 .. len -> STRING]
    BY <1>1
  <2>2. \A i \in 1 .. len : out[i] \in Chars
    BY <1>1, <2>1
  <2>3. out \in [1 .. len -> Chars]
    BY <2>1, <2>2
  <2>4. QED
    BY <2>3
<1>3. QED
  BY <1>2, TextTerm DEF Complete

LEMMA PromptShown ==
  ASSUME NEW t \in Terminals, Fresh(t)
  PROVE  Settled(prompt(t)) /\ prompt(t).visible = t.visible /\ Shown(prompt(t), PROMPT \o <<>>)
<1>1. PICK u : u = [t EXCEPT !.wrapped = FALSE]
  OBVIOUS
<1>2. t \in Term
  BY DEF Terminals
<1>3. /\ u \in Term /\ u.row = t.row /\ u.col = t.col /\ u.cells = t.cells /\ u.marks = t.marks
      /\ u.drawn = t.drawn /\ u.visible = t.visible
  BY <1>1, <1>2 DEF Term
<1>4. u \in Terminals
  BY <1>3 DEF Terminals, Here
<1>5. Shown(u, <<>>)
  BY <1>3 DEF Shown, Fresh, RowShows
<1>6. prompt(t) = term_print(u, PROMPT)
  BY <1>1 DEF prompt
<1>7. <<>> \in Seq(Chars) /\ PROMPT \in Seq(Chars) /\ PROMPT \in Seq(Cell) /\ PROMPT # <<>>
  BY PromptText
<1>8. <<>> \o PROMPT = PROMPT \o <<>>
  BY <1>7
<1>9. Shown(prompt(t), PROMPT \o <<>>)
  BY <1>4, <1>5, <1>6, <1>7, <1>8, TextShown
<1>10. QED
  BY <1>3, <1>4, <1>6, <1>7, <1>9, TextTerm DEF Settled

LEMMA ClearedTerm ==
  ASSUME NEW visible \in BOOLEAN
  PROVE  /\ Cleared(visible, FALSE) \in Terminals /\ Fresh(Cleared(visible, FALSE))
         /\ Cleared(visible, FALSE).visible = visible
<1> DEFINE cells == [c \in 0 .. cols - 1 |-> Blank]
<1>1. 0 \in 0 .. rows - 1 /\ 0 \in 0 .. cols - 1
  BY Sizes
<1>2. cells \in [0 .. cols - 1 -> Chars] /\ \A c \in 0 .. cols - 1 : cells[c] = Blank
  BY BlankChar
<1>3. PICK t : t = Cleared(visible, FALSE)
  OBVIOUS
<1>4. /\ t = [row |-> 0, col |-> 0, cells |-> cells, marks |-> {},
              visible |-> visible, drawn |-> FALSE, wrapped |-> FALSE]
  BY <1>3 DEF Cleared
<1> HIDE DEF cells
<1>5. t \in Term
  BY <1>1, <1>2, <1>4 DEF Term
<1>6. t \in Terminals
  BY <1>4, <1>5 DEF Terminals
<1>7. t.col = 0 /\ t.cells = cells /\ t.visible = visible
  BY <1>4
<1>8. Fresh(t)
  <2>1. Len(<<>>) = 0 /\ \A c \in 0 .. cols - 1 : ~(c < 0)
    OBVIOUS
  <2>2. QED
    BY <1>2, <1>7, <2>1 DEF Fresh, RowShows
<1>9. QED
  BY <1>3, <1>6, <1>7, <1>8

\* The old line is gone and the new one is there.
LEMMA RedrawShown ==
  ASSUME NEW t, Settled(t), NEW old \in Seq(Typed), NEW new \in Seq(Typed),
         Shown(t, PROMPT \o old)
  PROVE  /\ Settled(redraw_line(t, new, Len(old)))
         /\ redraw_line(t, new, Len(old)).visible = t.visible
         /\ Shown(redraw_line(t, new, Len(old)), PROMPT \o new)
<1>1. PICK before \in Nat, after \in Nat, p \in Nat :
        before = Len(old) /\ after = Len(new) /\ p = Len(PROMPT)
  BY PromptText
<1>2. PICK extra \in Nat :
        extra = (IF before > after THEN before - after ELSE 0)
  <2>1. CASE before > after
    <3>1. before - after \in Nat
      BY <2>1
    <3>2. QED
      BY <2>1, <3>1
  <2>2. CASE ~(before > after)
    BY <2>2
  <2>3. QED
    BY <2>1, <2>2
<1> DEFINE back == Times(BS, before)
           over == Times(Blank, extra)
           again == Times(BS, extra)
<1>3. /\ PROMPT \in Seq(Chars) /\ new \in Seq(Chars) /\ new \in Seq(Cell) /\ old \in Seq(Chars)
      /\ over \in Seq(Cell) /\ over \in Seq(Chars) /\ Len(over) = extra
      /\ back \in Seq(Chars) /\ again \in Seq(Chars)
  <2>1. BS \in Chars /\ Blank \in Cell /\ Typed \subseteq Cell /\ Cell \subseteq Chars
    BY BlankChar, PromptText DEF Chars
  <2>2. /\ [i \in 1 .. extra |-> Blank] \in Seq(Cell) /\ Len([i \in 1 .. extra |-> Blank]) = extra
        /\ [i \in 1 .. extra |-> Blank] \in Seq(Chars)
    BY <2>1
  <2>3. [i \in 1 .. before |-> BS] \in Seq(Chars) /\ [i \in 1 .. extra |-> BS] \in Seq(Chars)
    BY <2>1
  <2>4. PROMPT \in Seq(Chars) /\ new \in Seq(Chars) /\ new \in Seq(Cell) /\ old \in Seq(Chars)
    BY <2>1, PromptText
  <2>5. QED
    BY <2>2, <2>3, <2>4 DEF Times
<1>4. redraw_line(t, new, Len(old)) = term_print(t, ((back \o new) \o over) \o again)
  BY <1>1, <1>2 DEF redraw_line
<1> HIDE DEF back, over, again
<1>5. t \in Terminals
  BY DEF Settled
<1>6. PICK t1, t2, t3, t4 :
        /\ t1 = term_print(t, back) /\ t2 = term_print(t1, new)
        /\ t3 = term_print(t2, over) /\ t4 = term_print(t3, again)
  OBVIOUS
<1>7. t1 \in Terminals
  BY <1>3, <1>5, <1>6, TextTerm
<1>8. t2 \in Terminals
  BY <1>3, <1>6, <1>7, TextTerm
<1>9. t3 \in Terminals
  BY <1>3, <1>6, <1>8, TextTerm
<1>10. redraw_line(t, new, Len(old)) = t4
  <2>1. term_print(t, back \o new) = t2
    BY <1>3, <1>5, <1>6, TextConcat
  <2>2. PICK ab \in Seq(Chars) : ab = back \o new
    BY <1>3, Joined
  <2>3. PICK abc \in Seq(Chars) : abc = ab \o over
    BY <1>3, Joined
  <2>4. term_print(t, abc) = term_print(term_print(t, ab), over)
    BY <1>3, <1>5, <2>3, TextConcat
  <2>5. term_print(t, abc \o again) = term_print(term_print(t, abc), again)
    BY <1>3, <1>5, TextConcat
  <2>6. QED
    BY <1>4, <1>6, <2>1, <2>2, <2>3, <2>4, <2>5
<1>11. Shown(t1, PROMPT)
  <2>1. PROMPT \o old \in Seq(Chars) /\ Len(PROMPT \o old) = p + before
    BY <1>1, <1>3, Joined
  <2>2. before \in 0 .. Len(PROMPT \o old) /\ Len(PROMPT \o old) - before = p
    BY <1>1, <2>1
  <2>3. SubSeq(PROMPT \o old, 1, p) = PROMPT
    BY <1>1, <1>3, Joined
  <2>4. Shown(term_print(t, Times(BS, before)), SubSeq(PROMPT \o old, 1, p))
    BY <1>5, <2>1, <2>2, BacksShown
  <2>5. QED
    BY <1>6, <2>3, <2>4 DEF back
<1>12. Shown(t2, PROMPT \o new)
  BY <1>3, <1>6, <1>7, <1>11, TextShown
<1>13. Shown(t3, (PROMPT \o new) \o over)
  <2>1. PROMPT \o new \in Seq(Chars)
    BY <1>3
  <2>2. QED
    BY <1>3, <1>6, <1>8, <1>12, <2>1, TextShown
<1>14. Shown(t4, PROMPT \o new)
  <2> DEFINE s == PROMPT \o new
  <2>1. s \in Seq(Chars) /\ Len(s) = p + after
    BY <1>1, <1>3
  <2> HIDE DEF s
  <2>2. s \o over \in Seq(Chars) /\ Len(s \o over) = p + after + extra
    <3>1. s \o over \in Seq(Chars) /\ Len(s \o over) = Len(s) + Len(over)
      BY <1>3, <2>1, Joined
    <3>2. QED
      BY <1>3, <2>1, <3>1
  <2>3. extra \in 0 .. Len(s \o over) /\ Len(s \o over) - extra = Len(s)
    BY <2>1, <2>2
  <2>4. SubSeq(s \o over, 1, Len(s)) = s
    BY <1>3, <2>1, Joined
  <2>5. Shown(t3, s \o over)
    BY <1>13 DEF s
  <2>6. Shown(term_print(t3, Times(BS, extra)), SubSeq(s \o over, 1, Len(s)))
    BY <1>9, <2>2, <2>3, <2>5, BacksShown
  <2>7. QED
    BY <1>6, <2>4, <2>6 DEF again, s
<1>15. Settled(t4) /\ t4.visible = t.visible
  <2>1. ((back \o new) \o over) \o again \in Seq(Chars)
    BY <1>3
  <2>2. QED
    BY <1>4, <1>5, <1>10, <2>1, TextTerm DEF Settled
<1>16. QED
  BY <1>10, <1>14, <1>15

\* The lines remembered: each fits, and none is like the one before.
Remembers(lines) ==
  /\ lines \in Seq(Seq(Typed)) /\ Len(lines) <= HISTORY_MAX
  /\ \A i \in 1 .. Len(lines) : Len(lines[i]) \in 1 .. LINE_MAX - 1
  /\ \A i \in 1 .. Len(lines) - 1 : lines[i] # lines[i + 1]

\* The console between two keys, and at the prompt: the screen shows the line.
ConsoleInv ==
  /\ Settled(term)
  /\ buf \in Seq(Typed) /\ Len(buf) <= LINE_MAX - 1
  /\ Remembers(history)
  /\ hist_pos \in -1 .. Len(history) - 1

AtPrompt == term.visible /\ Shown(term, PROMPT \o buf)

\* Before the shell starts the screen shows the line, too.
ScreenInv ==
  /\ ConsoleInv
  /\ program \in {"boot", "prompt"} => AtPrompt
  /\ program # "snake" => snake = <<>> /\ term.visible
  /\ program # "llm" => phase = "none" /\ drawn = Nothing

LEMMA Limits == LINE_MAX \in Nat \ {0} /\ HISTORY_MAX \in Nat \ {0}
BY ConsoleAssumption

\* A line begins on a screen whose cursor is on an empty row.
LEMMA AnewInv ==
  ASSUME NEW t \in Terminals, t.visible, Fresh(t), Anew(t), Remembers(history')
  PROVE  ConsoleInv' /\ AtPrompt'
<1>1. buf' = <<>> /\ hist_pos' = -1 /\ term' = prompt(t)
  BY DEF Anew
<1>2. Settled(prompt(t)) /\ prompt(t).visible /\ Shown(prompt(t), PROMPT \o <<>>)
  BY PromptShown
<1>3. <<>> \in Seq(Typed) /\ Len(<<>>) <= LINE_MAX - 1
  BY Limits
<1>4. -1 \in -1 .. Len(history') - 1
  BY DEF Remembers
<1>5. QED
  BY <1>1, <1>2, <1>3, <1>4 DEF ConsoleInv, AtPrompt, Remembers

LEMMA RecallInv ==
  ASSUME ConsoleInv, AtPrompt, NEW pos \in -1 .. Len(history) - 1, Recall(pos)
  PROVE  ConsoleInv' /\ AtPrompt'
<1>1. PICK line : line = IF pos < 0 THEN <<>> ELSE history[Len(history) - pos]
  OBVIOUS
<1>2. /\ history # <<>> /\ hist_pos' = pos /\ buf' = line /\ history' = history
      /\ term' = redraw_line(term, line, Len(buf))
  BY <1>1 DEF Recall
<1>3. PICK len \in Nat : len = Len(history)
  BY DEF ConsoleInv, Remembers
<1>4. line \in Seq(Typed) /\ Len(line) <= LINE_MAX - 1
  <2>1. CASE pos < 0
    BY <1>1, <2>1, Limits
  <2>2. CASE ~(pos < 0)
    <3>1. len - pos \in 1 .. len
      BY <1>3, <2>2
    <3>2. line = history[len - pos]
      BY <1>1, <1>3, <2>2
    <3>3. history[len - pos] \in Seq(Typed)
      BY <1>3, <3>1 DEF ConsoleInv, Remembers
    <3>4. Len(history[len - pos]) \in 1 .. LINE_MAX - 1
      BY <1>3, <3>1 DEF ConsoleInv, Remembers
    <3>5. QED
      BY <3>2, <3>3, <3>4, Limits
  <2>3. QED
    BY <2>1, <2>2
<1>5. Settled(term') /\ term'.visible /\ Shown(term', PROMPT \o line)
  BY <1>2, <1>4, RedrawShown DEF ConsoleInv, AtPrompt
<1>6. QED
  BY <1>2, <1>4, <1>5 DEF ConsoleInv, AtPrompt, Remembers

LEMMA ArrowsInv ==
  ASSUME ConsoleInv, AtPrompt, Up \/ Down
  PROVE  ConsoleInv' /\ AtPrompt'
<1>1. PICK len \in Nat : len = Len(history) /\ hist_pos \in -1 .. len - 1
  BY DEF ConsoleInv, Remembers
<1>2. CASE Up
  <2>1. PICK pos : pos = IF hist_pos + 1 < Len(history) THEN hist_pos + 1 ELSE hist_pos
    OBVIOUS
  <2>2. pos \in -1 .. len - 1
    BY <1>1, <2>1
  <2>3. Recall(pos)
    BY <1>2, <2>1 DEF Up
  <2>4. QED
    BY <1>1, <2>2, <2>3, RecallInv
<1>3. CASE Down
  <2>1. PICK pos : pos = IF hist_pos >= 0 THEN hist_pos - 1 ELSE hist_pos
    OBVIOUS
  <2>2. pos \in -1 .. len - 1
    BY <1>1, <2>1
  <2>3. Recall(pos)
    BY <1>3, <2>1 DEF Down
  <2>4. QED
    BY <1>1, <2>2, <2>3, RecallInv
<1>4. QED
  BY <1>2, <1>3

LEMMA CtrlLInv ==
  ASSUME ConsoleInv, AtPrompt, CtrlL
  PROVE  ConsoleInv' /\ AtPrompt'
<1>1. PICK t : t = prompt(Cleared(TRUE, FALSE))
  OBVIOUS
<1>2. term_clear(term) = Cleared(TRUE, FALSE)
  <2>1. term.visible = TRUE
    BY DEF ConsoleInv, AtPrompt, Settled, Terminals, Term
  <2>2. QED
    BY <2>1 DEF term_clear
<1>3. term' = term_print(t, buf) /\ buf' = buf /\ hist_pos' = hist_pos /\ history' = history
  BY <1>1, <1>2 DEF CtrlL
<1>4. t \in Terminals /\ t.drawn = t.visible /\ t.visible /\ Shown(t, PROMPT \o <<>>)
  BY <1>1, ClearedTerm, PromptShown DEF Settled
<1>5. buf \in Seq(Cell) /\ buf \in Seq(Chars)
  BY BlankChar, PromptText DEF ConsoleInv
<1>6. PROMPT \o <<>> = PROMPT /\ PROMPT \in Seq(Chars)
  BY PromptText
<1>7. Shown(term', PROMPT \o buf)
  BY <1>3, <1>4, <1>5, <1>6, TextShown
<1>8. Settled(term') /\ term'.visible
  BY <1>3, <1>4, <1>5, TextTerm DEF Settled
<1>9. QED
  BY <1>3, <1>7, <1>8 DEF ConsoleInv, AtPrompt, Remembers

LEMMA CtrlCInv ==
  ASSUME ConsoleInv, AtPrompt, CtrlC
  PROVE  ConsoleInv' /\ AtPrompt'
<1>1. PICK out : out = <<"^", "C", "\n">>
  OBVIOUS
<1>2. out \in Seq(Chars) /\ out # <<>> /\ Last(out) = "\n"
  BY <1>1 DEF Chars, Last
<1>3. PICK t : t = term_print(term, out)
  OBVIOUS
<1>4. t \in Terminals /\ t.visible /\ Fresh(t)
  BY <1>2, <1>3, TextTerm DEF ConsoleInv, AtPrompt, Settled
<1>5. Anew(t) /\ history' = history
  BY <1>1, <1>3 DEF CtrlC
<1>6. Remembers(history')
  BY <1>5 DEF ConsoleInv
<1>7. QED
  BY <1>4, <1>5, <1>6, AnewInv

LEMMA BackspaceInv ==
  ASSUME ConsoleInv, AtPrompt, Backspace
  PROVE  ConsoleInv' /\ AtPrompt'
<1>1. /\ buf # <<>> /\ buf' = Front(buf) /\ hist_pos' = hist_pos /\ history' = history
      /\ term' = term_print_char(term, BS)
  BY DEF Backspace
<1>2. PICK len \in Nat \ {0}, p \in Nat : len = Len(buf) /\ p = Len(PROMPT)
  BY <1>1, PromptText DEF ConsoleInv
<1>3. buf' = SubSeq(buf, 1, len - 1) /\ buf' \in Seq(Typed) /\ Len(buf') = len - 1
  BY <1>1, <1>2 DEF ConsoleInv, Front
<1>4. PROMPT \in Seq(Chars) /\ buf \in Seq(Chars)
  BY BlankChar, PromptText DEF ConsoleInv
<1>5. /\ PROMPT \o buf \in Seq(Chars) \ {<<>>}
      /\ SubSeq(PROMPT \o buf, 1, Len(PROMPT \o buf) - 1) = PROMPT \o buf'
  <2>1. PROMPT \o buf \in Seq(Chars) /\ Len(PROMPT \o buf) = Len(PROMPT) + Len(buf)
    BY <1>4, Joined
  <2>2. PROMPT \o buf # <<>>
    BY <1>2, <2>1
  <2>3. SubSeq(PROMPT \o buf, 1, Len(PROMPT \o buf) - 1) = PROMPT \o buf'
    BY <1>1, <1>2, <1>3, <1>4, FrontConcat
  <2>4. QED
    BY <2>1, <2>2, <2>3
<1>6. Shown(term', PROMPT \o buf')
  BY <1>1, <1>5, CharBack DEF AtPrompt, ConsoleInv, Settled
<1>7. Settled(term') /\ term'.visible
  <2>1. BS \in Chars
    BY DEF Chars
  <2>2. QED
    BY <1>1, <2>1, CharTerm DEF AtPrompt, ConsoleInv, Settled
<1>8. Len(buf') <= LINE_MAX - 1
  BY <1>2, <1>3, Limits DEF ConsoleInv
<1>9. QED
  BY <1>1, <1>3, <1>6, <1>7, <1>8 DEF ConsoleInv, AtPrompt, Remembers

LEMMA InsertInv ==
  ASSUME ConsoleInv, AtPrompt, NEW c \in Typed, Insert(c)
  PROVE  ConsoleInv' /\ AtPrompt'
<1>1. /\ Len(buf) < LINE_MAX - 1 /\ buf' = Append(buf, c) /\ hist_pos' = hist_pos
      /\ history' = history /\ term' = term_print_char(term, c)
  BY DEF Insert
<1>2. c \in Cell /\ c \in Chars
  BY BlankChar, PromptText
<1>3. buf' \in Seq(Typed) /\ Len(buf') <= LINE_MAX - 1
  BY <1>1, Limits DEF ConsoleInv
<1>4. PROMPT \in Seq(Chars) /\ buf \in Seq(Chars)
  BY BlankChar, PromptText DEF ConsoleInv
<1>5. PROMPT \o buf \in Seq(Chars) /\ Append(PROMPT \o buf, c) = PROMPT \o buf'
  BY <1>1, <1>2, <1>4, Joined, AppendConcat
<1>6. Shown(term', PROMPT \o buf')
  BY <1>1, <1>2, <1>5, CharCell DEF AtPrompt, ConsoleInv, Settled
<1>7. Settled(term') /\ term'.visible
  BY <1>1, <1>2, CharTerm DEF AtPrompt, ConsoleInv, Settled
<1>8. QED
  BY <1>1, <1>3, <1>6, <1>7 DEF ConsoleInv, AtPrompt, Remembers

\* A full history loses its oldest line.
LEMMA RememberedLines ==
  ASSUME Remembers(history), NEW line \in Seq(Typed), line # <<>>, Len(line) <= LINE_MAX - 1
  PROVE  Remembers(Remembered(line)) /\ Len(Remembered(line)) >= Len(history)
<1>1. PICK len \in Nat : len = Len(history) /\ history \in Seq(Seq(Typed)) /\ len <= HISTORY_MAX
  BY DEF Remembers
<1>2. CASE history # <<>> /\ Last(history) = line
  BY <1>1, <1>2 DEF Remembered
<1>3. CASE ~(history # <<>> /\ Last(history) = line)
  <2>1. PICK old : old = IF Len(history) = HISTORY_MAX THEN Tail(history) ELSE history
    OBVIOUS
  <2>2. Remembered(line) = Append(old, line)
    BY <1>3, <2>1 DEF Remembered
  <2>3. PICK off \in {0, 1}, keep \in Nat :
          /\ old \in Seq(Seq(Typed)) /\ keep = Len(old) /\ keep + off = len
          /\ \A i \in 1 .. keep : old[i] = history[i + off]
          /\ keep + 1 <= HISTORY_MAX /\ keep + 1 >= len
    <3>1. CASE len = HISTORY_MAX
      <4>1. len # 0 /\ history # <<>>
        BY <1>1, <3>1, Limits
      <4>2. old = Tail(history)
        BY <1>1, <2>1, <3>1
      <4>3. /\ old \in Seq(Seq(Typed)) /\ Len(old) = len - 1
            /\ \A i \in 1 .. len - 1 : old[i] = history[i + 1]
        BY <1>1, <4>1, <4>2
      <4>4. len - 1 \in Nat
        BY <4>1
      <4>5. QED
        BY <1>1, <4>3, <4>4
    <3>2. CASE len # HISTORY_MAX
      <4>1. old = history
        BY <1>1, <2>1, <3>2
      <4>2. len + 1 <= HISTORY_MAX
        BY <1>1, <3>2, Limits
      <4>3. QED
        BY <1>1, <4>1, <4>2
    <3>3. QED
      BY <3>1, <3>2
  <2>4. PICK new : new = Append(old, line)
    OBVIOUS
  <2>5. /\ new \in Seq(Seq(Typed)) /\ Len(new) = keep + 1 /\ new[keep + 1] = line
        /\ \A i \in 1 .. keep : new[i] = history[i + off]
    BY <2>3, <2>4
  <2>6. ASSUME NEW i \in 1 .. keep + 1
        PROVE  Len(new[i]) \in 1 .. LINE_MAX - 1
    <3>1. CASE i = keep + 1
      <4>1. Len(line) \in 1 .. LINE_MAX - 1
        BY Limits
      <4>2. QED
        BY <2>5, <3>1, <4>1
    <3>2. CASE i # keep + 1
      <4>1. i \in 1 .. keep /\ i + off \in 1 .. len
        BY <2>3, <3>2
      <4>2. new[i] = history[i + off]
        BY <2>5, <4>1
      <4>3. QED
        BY <1>1, <4>1, <4>2 DEF Remembers
    <3>3. QED
      BY <3>1, <3>2
  <2>7. ASSUME NEW i \in 1 .. keep
        PROVE  new[i] # new[i + 1]
    <3>1. CASE i = keep
      <4>1. i + off = len /\ len # 0
        BY <2>3, <3>1
      <4>2. history # <<>> /\ Last(history) = history[len]
        BY <1>1, <4>1 DEF Last
      <4>3. new[i] = history[len] /\ new[i + 1] = line
        BY <2>5, <3>1, <4>1
      <4>4. QED
        BY <1>3, <4>2, <4>3
    <3>2. CASE i # keep
      <4>1. i + 1 \in 1 .. keep /\ i + off \in 1 .. len - 1
        BY <2>3, <3>2
      <4>2. history[i + off] # history[i + off + 1]
        BY <1>1, <4>1 DEF Remembers
      <4>3. new[i] = history[i + off] /\ new[i + 1] = history[i + 1 + off]
        BY <2>5, <4>1
      <4>4. i + 1 + off = i + off + 1
        BY <2>3
      <4>5. QED
        BY <4>2, <4>3, <4>4
    <3>3. QED
      BY <3>1, <3>2
  <2>8. keep + 1 <= HISTORY_MAX /\ keep + 1 >= len /\ keep + 1 - 1 = keep
    BY <2>3
  <2>9. Remembers(new)
    BY <2>5, <2>6, <2>7, <2>8 DEF Remembers
  <2>10. QED
    BY <1>1, <2>2, <2>4, <2>5, <2>8, <2>9
<1>4. QED
  BY <1>2, <1>3

LEMMA EnterInv ==
  ASSUME ConsoleInv, NEW word, Enter(word)
  PROVE  Remembers(history') /\ hist_pos \in -1 .. Len(history') - 1
<1>1. history' = IF buf = <<>> THEN history ELSE Remembered(buf)
  BY DEF Enter
<1>2. CASE buf = <<>>
  BY <1>1, <1>2 DEF ConsoleInv
<1>3. CASE buf # <<>>
  <2>1. history' = Remembered(buf)
    BY <1>1, <1>3
  <2>2. Remembers(history') /\ Len(history') >= Len(history)
    BY <1>3, <2>1, RememberedLines DEF ConsoleInv
  <2>3. PICK len \in Nat, next \in Nat : len = Len(history) /\ next = Len(history')
    BY <2>2 DEF ConsoleInv, Remembers
  <2>4. hist_pos \in -1 .. len - 1 /\ next >= len
    BY <2>2, <2>3 DEF ConsoleInv
  <2>5. hist_pos \in -1 .. next - 1
    BY <2>4
  <2>6. QED
    BY <2>2, <2>3, <2>5
<1>4. QED
  BY <1>2, <1>3

LEMMA PrintInv ==
  ASSUME ConsoleInv, AtPrompt, Print_output
  PROVE  ConsoleInv' /\ AtPrompt'
<1>1. PICK out : out = Output(Word(buf))
  OBVIOUS
<1>2. Complete(out)
  <2>1. Complete(<<>>)
    BY DEF Complete
  <2>2. QED
    BY <1>1, <2>1, ConsoleAssumption DEF Output
<1>3. PICK t : t = term_print_char(term, "\n")
  OBVIOUS
<1>4. t \in Terminals /\ t.visible /\ Fresh(t)
  <2>1. "\n" \in Chars
    BY DEF Chars
  <2>2. QED
    BY <1>3, <2>1, CharTerm, CharNewline DEF ConsoleInv, AtPrompt, Settled
<1>5. PICK u : u = term_print(t, out)
  OBVIOUS
<1>6. u \in Terminals /\ u.visible /\ Fresh(u)
  BY <1>2, <1>4, <1>5, CompleteTerm
<1>7. Anew(u)
  BY <1>1, <1>3, <1>5 DEF Print_output
<1>8. Remembers(history')
  BY EnterInv DEF Print_output
<1>9. QED
  BY <1>6, <1>7, <1>8, AnewInv

\* The cursor of a hidden terminal is not drawn.
LEMMA VisibleTerm ==
  ASSUME NEW t, Settled(t), NEW visible \in BOOLEAN
  PROVE  /\ Settled(term_set_cursor_visible(t, visible))
         /\ term_set_cursor_visible(t, visible).visible = visible
<1>1. t \in Terminals /\ t \in Term
  BY DEF Settled, Terminals
<1>2. CASE ~visible
  <2>1. PICK e : e = Erased(t)
    OBVIOUS
  <2>2. e \in Terminals /\ e \in Term /\ e.marks = {} /\ ~e.drawn
    BY <1>1, <2>1, PlainTerm DEF Terminals
  <2>3. PICK u : u = [e EXCEPT !.visible = visible]
    OBVIOUS
  <2>4. u \in Term /\ u.marks = {} /\ u.drawn = e.drawn /\ u.visible = visible
    BY <2>2, <2>3 DEF Term
  <2>5. u \in Terminals
    BY <2>2, <2>4 DEF Terminals
  <2>6. term_set_cursor_visible(t, visible) = u
    BY <1>2, <2>1, <2>3 DEF term_set_cursor_visible
  <2>7. u.drawn \in BOOLEAN
    BY <2>4 DEF Term
  <2>8. QED
    BY <1>2, <2>2, <2>4, <2>5, <2>6, <2>7 DEF Settled
<1>3. CASE visible
  <2>1. PICK u : u = [t EXCEPT !.visible = visible]
    OBVIOUS
  <2>2. /\ u \in Term /\ u.marks = t.marks /\ u.drawn = t.drawn /\ u.visible = visible
        /\ u.row = t.row /\ u.col = t.col
    BY <1>1, <2>1 DEF Term
  <2>3. PICK v : v = draw_cursor(u, TRUE)
    OBVIOUS
  <2>4. v = [u EXCEPT !.marks = {Here(u)}, !.drawn = TRUE]
    <3>1. u.marks \cup {Here(u)} = {Here(u)}
      BY <1>1, <2>2 DEF Terminals, Here
    <3>2. v = [u EXCEPT !.marks = u.marks \cup {Here(u)}, !.drawn = TRUE]
      BY <1>3, <2>2, <2>3 DEF draw_cursor, Term
    <3>3. QED
      BY <3>1, <3>2
  <2>5. {Here(u)} \in SUBSET (Int \X Int)
    BY <2>2, Sizes DEF Term, Here
  <2>6. /\ v \in Term /\ v.marks = {Here(u)} /\ v.drawn = TRUE /\ v.visible = visible
        /\ v.row = u.row /\ v.col = u.col
    BY <2>2, <2>4, <2>5 DEF Term
  <2>7. Here(v) = Here(u)
    BY <2>6 DEF Here
  <2>8. v \in Terminals
    BY <1>3, <2>6, <2>7 DEF Terminals
  <2>9. term_set_cursor_visible(t, visible) = v
    BY <1>3, <2>1, <2>3 DEF term_set_cursor_visible
  <2>10. QED
    BY <1>3, <2>6, <2>8, <2>9 DEF Settled
<1>4. QED
  BY <1>2, <1>3

LEMMA BeginInv ==
  ASSUME ConsoleInv, term.visible, NEW word, NEW hides \in BOOLEAN, Begin(word, hides)
  PROVE  ConsoleInv' /\ term'.visible = ~hides
<1>1. PICK t : t = term_print_char(term, "\n")
  OBVIOUS
<1>2. Settled(t) /\ t.visible
  <2>1. "\n" \in Chars
    BY DEF Chars
  <2>2. QED
    BY <1>1, <2>1, CharTerm DEF ConsoleInv, Settled
<1>3. /\ term' = (IF hides THEN term_set_cursor_visible(t, FALSE) ELSE t)
      /\ buf' = buf /\ hist_pos' = hist_pos
  BY <1>1 DEF Begin
<1>4. Settled(term') /\ term'.visible = ~hides
  <2>1. CASE hides
    BY <1>2, <1>3, <2>1, VisibleTerm
  <2>2. CASE ~hides
    <3>1. t.visible \in BOOLEAN
      BY <1>2 DEF Settled, Terminals, Term
    <3>2. QED
      BY <1>2, <1>3, <2>2, <3>1
  <2>3. QED
    BY <2>1, <2>2
<1>5. Remembers(history') /\ hist_pos \in -1 .. Len(history') - 1
  BY EnterInv DEF Begin
<1>6. QED
  BY <1>3, <1>4, <1>5 DEF ConsoleInv

LEMMA EndGameInv ==
  ASSUME ConsoleInv, End_game
  PROVE  ConsoleInv' /\ AtPrompt'
<1>1. PICK t : t = term_clear(term_set_cursor_visible(term, TRUE))
  OBVIOUS
<1>2. t = Cleared(TRUE, FALSE)
  <2>1. term_set_cursor_visible(term, TRUE).visible = TRUE
    BY VisibleTerm DEF ConsoleInv
  <2>2. QED
    BY <1>1, <2>1 DEF term_clear
<1>3. Anew(t) /\ history' = history
  BY <1>1 DEF End_game
<1>4. t \in Terminals /\ t.visible /\ Fresh(t)
  BY <1>2, ClearedTerm
<1>5. QED
  BY <1>3, <1>4, AnewInv DEF ConsoleInv

LEMMA EndInv ==
  ASSUME ConsoleInv, term.visible, End(Story)
  PROVE  ConsoleInv' /\ AtPrompt'
<1>1. PICK t : t = term_print(term, Story)
  OBVIOUS
<1>2. t \in Terminals /\ t.visible /\ Fresh(t)
  BY <1>1, StoryAssumption, CompleteTerm DEF ConsoleInv, Settled
<1>3. Anew(t) /\ history' = history
  BY <1>1 DEF End
<1>4. QED
  BY <1>2, <1>3, AnewInv DEF ConsoleInv

LEMMA ScreenInit == Init => ScreenInv
<1> SUFFICES ASSUME Init
             PROVE  ScreenInv
  OBVIOUS
<1>1. /\ term = prompt(Cleared(TRUE, FALSE)) /\ buf = <<>> /\ hist_pos = -1 /\ history = <<>>
  BY DEF Init, ConsoleInit
<1>2. Settled(term) /\ term.visible /\ Shown(term, PROMPT \o <<>>)
  BY <1>1, ClearedTerm, PromptShown
<1>3. <<>> \in Seq(Typed) /\ Len(<<>>) <= LINE_MAX - 1
  BY Limits
<1>4. Remembers(<<>>) /\ -1 \in -1 .. Len(<<>>) - 1
  <2>1. <<>> \in Seq(Seq(Typed)) /\ Len(<<>>) = 0 /\ 1 .. 0 = {} /\ 1 .. 0 - 1 = {}
    OBVIOUS
  <2>2. QED
    BY <2>1, Limits DEF Remembers
<1>5. ConsoleInv /\ AtPrompt
  BY <1>1, <1>2, <1>3, <1>4 DEF ConsoleInv, AtPrompt
<1>6. snake = <<>> /\ phase = "none" /\ drawn = Nothing
  BY DEF Init, NoGame, NoText
<1>7. QED
  BY <1>5, <1>6 DEF ScreenInv, AtPrompt

LEMMA ScreenNext == ScreenInv /\ [Next]_vars => ScreenInv'
<1> SUFFICES ASSUME ScreenInv, [Next]_vars
             PROVE  ScreenInv'
  OBVIOUS
<1> USE DEF ScreenInv
<1>1. CASE Boot
  BY <1>1 DEF Boot, Idle, console, game, tokenizer, ConsoleInv, AtPrompt, Settled, Remembers
<1>2. CASE Start_shell
  BY <1>2 DEF Start_shell, Idle, console, game, tokenizer, ConsoleInv, AtPrompt, Settled, Remembers
<1>3. CASE Key
  <2>1. program = "prompt" /\ program' = "prompt" /\ snake' = snake /\ phase' = phase /\ drawn' = drawn
    BY <1>3 DEF Key, Idle, game, tokenizer
  <2>2. ConsoleInv /\ AtPrompt
    BY <2>1
  <2>3. ConsoleInv' /\ AtPrompt'
    <3>1. \/ Up \/ Down \/ CtrlL \/ CtrlC \/ Backspace
          \/ \E c \in Typed : Insert(c)
          \/ Print_output
      BY <1>3 DEF Key
    <3>2. QED
      BY <2>2, <3>1, ArrowsInv, CtrlLInv, CtrlCInv, BackspaceInv, InsertInv, PrintInv
  <2>4. QED
    BY <2>1, <2>3 DEF AtPrompt
<1>4. CASE cmd_snake
  <2>1. program = "prompt" /\ program' = "snake" /\ phase' = phase /\ drawn' = drawn
    BY <1>4 DEF cmd_snake, tokenizer
  <2>2. ConsoleInv'
    BY <1>4, <2>1, BeginInv DEF cmd_snake
  <2>3. QED
    BY <2>1, <2>2
<1>5. CASE Play
  BY <1>5 DEF Play, console, tokenizer, ConsoleInv, AtPrompt, Settled, Remembers
<1>6. CASE Leave_snake
  <2>1. program = "snake" /\ program' = "prompt" /\ snake' = <<>> /\ phase' = phase /\ drawn' = drawn
    BY <1>6 DEF Leave_snake, SnakeEnds, game, tokenizer
  <2>2. ConsoleInv' /\ AtPrompt'
    BY <1>6, EndGameInv DEF Leave_snake
  <2>3. QED
    BY <2>1, <2>2 DEF AtPrompt
<1>7. CASE cmd_llm
  <2>1. program = "prompt" /\ program' = "llm" /\ snake' = snake
    BY <1>7 DEF cmd_llm, Idle, game
  <2>2. ConsoleInv' /\ term'.visible
    BY <1>7, <2>1, BeginInv DEF cmd_llm
  <2>3. QED
    BY <2>1, <2>2
<1>8. CASE Encode
  BY <1>8 DEF Encode, console, game, ConsoleInv, AtPrompt, Settled, Remembers
<1>9. CASE Generate
  BY <1>9 DEF Generate, console, game, ConsoleInv, AtPrompt, Settled, Remembers
<1>10. CASE Leave_llm
  <2>1. /\ program = "llm" /\ program' = "prompt" /\ phase = "none" /\ phase' = phase
        /\ snake' = snake /\ drawn' = Nothing
    BY <1>10 DEF Leave_llm, game, tokenizer
  <2>2. ConsoleInv' /\ AtPrompt'
    BY <1>10, <2>1, EndInv DEF Leave_llm
  <2>3. QED
    BY <2>1, <2>2 DEF AtPrompt
<1>11. CASE UNCHANGED vars
  BY <1>11 DEF vars, console, game, tokenizer, ConsoleInv, AtPrompt, Settled, Remembers
<1>12. QED
  BY <1>1, <1>2, <1>3, <1>4, <1>5, <1>6, <1>7, <1>8, <1>9, <1>10, <1>11 DEF Next

\* Inv: the line editor keeps its bounds, its history and its cursor; at the prompt the
\* screen shows the line; and a program that ends leaves nothing behind - for every size
\* of the screen, prompt, history and line, and whatever the commands print.
THEOREM ScreenIsTrue == Spec => []Inv
<1>1. Init => ScreenInv
  BY ScreenInit
<1>2. ScreenInv /\ [Next]_vars => ScreenInv'
  BY ScreenNext
<1>3. ScreenInv => Inv
  <2> SUFFICES ASSUME ScreenInv
               PROVE  Inv
    OBVIOUS
  <2>1. term \in Term /\ term \in Terminals /\ term.drawn = term.visible
    BY DEF ScreenInv, ConsoleInv, Settled, Terminals
  <2>2. /\ term.row \in 0 .. rows - 1 /\ term.col \in 0 .. cols - 1
        /\ term.marks = IF term.visible THEN {Here(term)} ELSE {}
        /\ DOMAIN term.cells = 0 .. cols - 1
    BY <2>1 DEF Term, Terminals
  <2>3. DOMAIN history = 1 .. Len(history)
    BY DEF ScreenInv, ConsoleInv, Remembers
  <2>4. ConsoleOK
    BY <2>2, <2>3 DEF ScreenInv, ConsoleInv, Remembers, ConsoleOK
  <2>5. ASSUME program = "prompt"
        PROVE  ShowsLine
    BY <2>2, <2>5 DEF ScreenInv, AtPrompt, Shown, RowShows, ShowsLine
  <2>6. QED
    BY <2>4, <2>5 DEF ScreenInv, Inv
<1>4. QED
  BY <1>1, <1>2, <1>3, PTL DEF Spec
=============================================================================
