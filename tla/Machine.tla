------------------------------ MODULE Machine -------------------------------
(***************************************************************************)
(* The kernel from power on, as one user sees it: _start shares out the    *)
(* memory, then the shell's thread edits lines and runs what they name -   *)
(* the game of snake or a story model - one at a time.                     *)
(***************************************************************************)
EXTENDS Memory, Console, Snake, Tokens, Sampler

CONSTANTS SnakeWord, LlmWord,   \* the commands' names
          Story                 \* what llm prints: a story, or why there is none

\* The last thing that cmd_llm prints is "\n".
ASSUME StoryAssumption == Complete(Story) /\ Story # <<>>

VARIABLE program    \* "boot", "prompt", "snake" or "llm"

vars == <<memory, console, game, tokenizer, drawn, program>>

Idle == UNCHANGED <<game, tokenizer, drawn>>

Init ==
  /\ MemoryInit /\ ConsoleInit
  /\ NoGame /\ snake_capacity = 0
  /\ NoText /\ drawn = Nothing
  /\ program = "boot"

Boot ==
  /\ program = "boot"
  /\ MemoryStep
  /\ UNCHANGED <<console, program>> /\ Idle

\* thread_create can make the shell if there is a heap.
Start_shell ==
  /\ program = "boot" /\ step = "done"
  /\ handed[1].start # NULL
  /\ program' = "prompt"
  /\ UNCHANGED <<memory, console>> /\ Idle

Key ==
  /\ program = "prompt"
  /\ \/ Up \/ Down \/ CtrlL \/ CtrlC \/ Backspace
     \/ \E c \in Typed : Insert(c)
     \/ Word(buf) \notin {SnakeWord, LlmWord} /\ Print_output
  /\ UNCHANGED <<memory, program>> /\ Idle

cmd_snake ==
  /\ program = "prompt"
  /\ Begin(SnakeWord, TRUE)
  /\ program' = "snake"
  /\ \/ SnakeBegins
     \/ SnakeFails /\ UNCHANGED game
  /\ UNCHANGED <<memory, tokenizer, drawn>>

Play ==
  /\ program = "snake"
  /\ \E key \in Keys \cup {"esc"} : snake_update(key)
  /\ UNCHANGED <<memory, console, program, tokenizer, drawn>>

\* The game is over, or there was no memory for it.
Leave_snake ==
  /\ program = "snake"
  /\ SnakeEnds \/ (snake = <<>> /\ UNCHANGED game)
  /\ End_game
  /\ program' = "prompt"
  /\ UNCHANGED <<memory, tokenizer, drawn>>

cmd_llm ==
  /\ program = "prompt"
  /\ Begin(LlmWord, FALSE)
  /\ program' = "llm"
  /\ UNCHANGED memory /\ Idle

\* The model is loaded and the prompt encoded; what load_model and the busy flag
\* do besides is in module Llm.
Encode ==
  /\ program = "llm" /\ drawn = Nothing
  /\ TokenizerStep
  /\ UNCHANGED <<memory, console, program, game, drawn>>

\* One token of the story; the prompt's tokens have been dealt with.
Generate ==
  /\ program = "llm" /\ drawn = Nothing
  /\ EncodeEnds
  /\ Sample
  /\ UNCHANGED <<memory, console, program, game>>

\* The story has ended, or there was none: no prompt, no model, no memory, or
\* somebody else is generating.
Leave_llm ==
  /\ program = "llm" /\ phase = "none"
  /\ drawn' = Nothing
  /\ End(Story)
  /\ program' = "prompt"
  /\ UNCHANGED <<memory, game, tokenizer>>

Next ==
  \/ Boot
  \/ Start_shell
  \/ Key
  \/ cmd_snake
  \/ Play
  \/ Leave_snake
  \/ cmd_llm
  \/ Encode
  \/ Generate
  \/ Leave_llm

Spec == Init /\ [][Next]_vars

-----------------------------------------------------------------------------
\* While memory is shared out it is shared out truly; later it does not change.
BootTruth == program = "boot" => MemoryTruth

\* The line editor keeps its bounds, its cursor and its history; at the prompt
\* the screen shows what will be entered; and a program that ends leaves nothing
\* behind that the next one could meet, but for the snake's memory.
Inv ==
  /\ ConsoleOK
  /\ program = "prompt" => ShowsLine
  /\ program # "snake" => snake = <<>> /\ term.visible
  /\ program # "llm" => phase = "none" /\ drawn = Nothing
=============================================================================
