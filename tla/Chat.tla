-------------------------------- MODULE Chat --------------------------------
(***************************************************************************)
(* ChocoCord (chat.c): the chat loop on the shell thread, and the llm-bot  *)
(* thread that writes a reply into a message of the channel while the loop *)
(* reads keys and redraws.  They share the job, the messages and the flags *)
(* bot_running, typing and dirty, without a lock: each access is a step.   *)
(* llm_generate is modelled by what it calls back and returns (llm.c).     *)
(***************************************************************************)
EXTENDS Naturals, FiniteSets

CONSTANTS NUM_CHANNELS,
          InputMax,        \* INPUT_MAX - 1, in characters
          TextMax,         \* the pieces that fit in MSG_TEXT_MAX
          MaxPieces,       \* the pieces one generation emits at most
          Workers          \* thread structs for llm-bot

ASSUME ChatAssumption == /\ NUM_CHANNELS \in Nat \ {0}
                         /\ InputMax \in Nat \ {0}
                         /\ TextMax \in Nat \ {0}
                         /\ MaxPieces \in Nat

Channels == 0..(NUM_CHANNELS - 1)

VARIABLES
  ui,           \* where chat_run is
  running,      \* the loop condition of chat_run
  current,      \* current_chan
  input_len,
  redraw,       \* need_input_redraw
  typing,       \* Channel.typing
  dirty,        \* Channel.dirty
  bot_running,
  job,          \* job; job.msg is the message the next two variables describe
  text,         \* the pieces in job.msg->text (a note of the worker is one piece)
  newer,        \* messages pushed to job after job.msg, cut off at NewerMax
  bot,          \* where each llm-bot thread is
  chan,         \* bot_worker's ch
  left,         \* the pieces the model will still produce
  fresh,        \* history: the chat area shows the messages of current
  shown         \* history: the typing indicator on the screen

uiVars == <<ui, running, current, input_len, redraw>>
chanVars == <<typing, dirty>>
jobVars == <<job, text, newer>>
botVars == <<bot, chan, left>>
screen == <<fresh, shown>>
vars == <<uiVars, chanVars, bot_running, jobVars, botVars, screen>>

NewerMax == 2

Init ==
  /\ ui = "closed" /\ running = FALSE /\ current = 0 /\ input_len = 0 /\ redraw = FALSE
  /\ typing = [c \in Channels |-> FALSE]
  /\ dirty = [c \in Channels |-> FALSE]
  /\ bot_running = FALSE
  /\ job = 0 /\ text = 0 /\ newer = 0
  /\ bot = [w \in Workers |-> "none"]
  /\ chan = [w \in Workers |-> 0]
  /\ left = [w \in Workers |-> 0]
  /\ fresh = FALSE /\ shown = FALSE

-----------------------------------------------------------------------------
(* The chat loop.                                                          *)

DrawChat == fresh' = TRUE
DrawInput == shown' = typing[current]

\* chat_run up to its loop.  (The first call also pushes a greeting.)
Open ==
  /\ ui = "closed"
  /\ ui' = "keys"
  /\ running' = TRUE
  /\ input_len' = 0
  /\ DrawChat
  /\ DrawInput
  /\ redraw' = FALSE
  /\ UNCHANGED <<current, chanVars, bot_running, jobVars, botVars>>

Escape ==
  /\ ui = "keys"
  /\ running' = FALSE
  /\ ui' = "check"
  /\ UNCHANGED <<current, input_len, redraw, chanVars, bot_running, jobVars,
                 botVars, screen>>

Tab ==
  /\ ui = "keys"
  /\ current' = (current + 1) % NUM_CHANNELS
  /\ DrawChat
  /\ shown' = typing[current']
  /\ UNCHANGED <<ui, running, input_len, redraw, chanVars, bot_running, jobVars,
                 botVars>>

TypeKey ==
  /\ ui = "keys"
  /\ input_len < InputMax
  /\ input_len' = input_len + 1
  /\ redraw' = TRUE
  /\ UNCHANGED <<ui, running, current, chanVars, bot_running, jobVars, botVars,
                 screen>>

Backspace ==
  /\ ui = "keys"
  /\ input_len > 0
  /\ input_len' = input_len - 1
  /\ redraw' = TRUE
  /\ UNCHANGED <<ui, running, current, chanVars, bot_running, jobVars, botVars,
                 screen>>

\* Enter, when send_message has nothing to do.
EnterIgnored ==
  /\ ui = "keys"
  /\ input_len = 0 \/ typing[current]
  /\ DrawChat
  /\ redraw' = TRUE
  /\ UNCHANGED <<ui, running, current, input_len, chanVars, bot_running, jobVars,
                 botVars, shown>>

\* Mutant: send_message does not look at typing.
EnterSends_Typing ==
  /\ ui = "keys"
  /\ input_len # 0
  /\ newer' = IF current = job THEN NewerMax ELSE newer
  /\ fresh' = FALSE
  /\ ui' = "send"
  /\ UNCHANGED <<running, current, input_len, redraw, chanVars, bot_running, job,
                 text, botVars, shown>>

\* Enter: the user's message and an empty one for the bot are pushed.
EnterSends ==
  /\ ui = "keys"
  /\ input_len # 0 /\ ~typing[current]
  /\ newer' = IF current = job THEN NewerMax ELSE newer
  /\ fresh' = FALSE
  /\ ui' = "send"
  /\ UNCHANGED <<running, current, input_len, redraw, chanVars, bot_running, job,
                 text, botVars, shown>>

\* "One bot at a time": the message says so, and the job is left alone.
SendBusy ==
  /\ ui = "send"
  /\ bot_running
  /\ dirty' = [dirty EXCEPT ![current] = TRUE]
  /\ input_len' = 0
  /\ DrawChat
  /\ redraw' = TRUE
  /\ ui' = "keys"
  /\ UNCHANGED <<running, current, typing, bot_running, jobVars, botVars, shown>>

\* Mutant: the job is filled in without looking at bot_running.
SendJob_Unguarded ==
  /\ ui = "send"
  /\ bot_running' = TRUE
  /\ job' = current
  /\ text' = 0
  /\ newer' = 0
  /\ typing' = [typing EXCEPT ![current] = TRUE]
  /\ dirty' = [dirty EXCEPT ![current] = TRUE]
  /\ input_len' = 0
  /\ ui' = "create"
  /\ UNCHANGED <<running, current, redraw, botVars, screen>>

SendJob ==
  /\ ui = "send"
  /\ ~bot_running
  /\ bot_running' = TRUE
  /\ job' = current
  /\ text' = 0
  /\ newer' = 0
  /\ typing' = [typing EXCEPT ![current] = TRUE]
  /\ dirty' = [dirty EXCEPT ![current] = TRUE]
  /\ input_len' = 0
  /\ ui' = "create"
  /\ UNCHANGED <<running, current, redraw, botVars, screen>>

CreateDone ==
  /\ ui = "create"
  /\ ui' = "keys"
  /\ DrawChat
  /\ redraw' = TRUE
  /\ UNCHANGED <<running, current, input_len, chanVars, bot_running, jobVars, shown>>

CreateBot(w) ==
  /\ CreateDone
  /\ bot[w] = "none"
  /\ bot' = [bot EXCEPT ![w] = "start"]
  /\ UNCHANGED <<chan, left>>

\* thread_create returns NULL, which send_message does not look at.
CreateFails ==
  /\ CreateDone
  /\ UNCHANGED botVars

NoMoreKeys ==
  /\ ui = "keys"
  /\ ui' = "check"
  /\ UNCHANGED <<running, current, input_len, redraw, chanVars, bot_running,
                 jobVars, botVars, screen>>

Check ==
  /\ ui = "check"
  /\ ui' = IF dirty[current] THEN "clear" ELSE "input"
  /\ UNCHANGED <<running, current, input_len, redraw, chanVars, bot_running,
                 jobVars, botVars, screen>>

Clear ==
  /\ ui = "clear"
  /\ dirty' = [dirty EXCEPT ![current] = FALSE]
  /\ ui' = "draw"
  /\ UNCHANGED <<running, current, input_len, redraw, typing, bot_running, jobVars,
                 botVars, screen>>

Draw ==
  /\ ui = "draw"
  /\ DrawChat
  /\ redraw' = TRUE
  /\ ui' = "input"
  /\ UNCHANGED <<running, current, input_len, chanVars, bot_running, jobVars,
                 botVars, shown>>

\* Mutant: dirty is cleared at the end of the iteration.
Input_ClearsDirty ==
  /\ ui = "input"
  /\ IF redraw THEN DrawInput ELSE UNCHANGED shown
  /\ redraw' = FALSE
  /\ dirty' = [dirty EXCEPT ![current] = FALSE]
  /\ ui' = "sleep"
  /\ UNCHANGED <<running, current, input_len, typing, bot_running, jobVars, botVars,
                 fresh>>

Input ==
  /\ ui = "input"
  /\ IF redraw THEN DrawInput ELSE UNCHANGED shown
  /\ redraw' = FALSE
  /\ ui' = "sleep"
  /\ UNCHANGED <<running, current, input_len, chanVars, bot_running, jobVars,
                 botVars, fresh>>

\* thread_sleep_ms(16), and the loop condition.
Sleep ==
  /\ ui = "sleep"
  /\ ui' = IF running THEN "keys" ELSE "closed"
  /\ UNCHANGED <<running, current, input_len, redraw, chanVars, bot_running,
                 jobVars, botVars, screen>>

-----------------------------------------------------------------------------
(* The llm-bot thread.                                                     *)

At(w, label) == bot[w] = label
Goto(w, label) == bot' = [bot EXCEPT ![w] = label]

\* A store to the text of the job's message.
Write(n) ==
  /\ text' = n
  /\ fresh' = (fresh /\ current # job)

Start(w) ==
  /\ At(w, "start")
  /\ chan' = [chan EXCEPT ![w] = job]
  /\ left' = [left EXCEPT ![w] = MaxPieces]
  /\ Goto(w, "generate")
  /\ UNCHANGED <<uiVars, chanVars, bot_running, jobVars, screen>>

\* bot_emit appends a piece that fits, then sets dirty.
Emit(w) ==
  /\ At(w, "generate")
  /\ left[w] > 0
  /\ left' = [left EXCEPT ![w] = @ - 1]
  /\ IF text < TextMax
     THEN /\ Write(text + 1)
          /\ Goto(w, "emitted")
     ELSE UNCHANGED <<text, fresh, bot>>
  /\ UNCHANGED <<uiVars, chanVars, bot_running, job, newer, chan, shown>>

EmitDirty(w) ==
  /\ At(w, "emitted")
  /\ dirty' = [dirty EXCEPT ![job] = TRUE]
  /\ Goto(w, "generate")
  /\ UNCHANGED <<uiVars, typing, bot_running, jobVars, chan, left, screen>>

\* llm_generate returns a count, after any number of pieces.
GenerateEnds(w) ==
  /\ At(w, "generate")
  /\ Goto(w, "generated")
  /\ UNCHANGED <<uiVars, chanVars, bot_running, jobVars, chan, left, screen>>

\* llm_generate returns an error, before any piece.
GenerateFails(w) ==
  /\ At(w, "generate")
  /\ left[w] = MaxPieces
  /\ Write(1)
  /\ Goto(w, "generated")
  /\ UNCHANGED <<uiVars, chanVars, bot_running, job, newer, chan, left, shown>>

\* An empty reply is replaced, and nobody is typing any more.
Silent(w) ==
  /\ At(w, "generated")
  /\ IF text = 0 THEN Write(1) ELSE UNCHANGED <<text, fresh>>
  /\ Goto(w, "silent")
  /\ UNCHANGED <<uiVars, chanVars, bot_running, job, newer, chan, left, shown>>

\* Mutant: typing is cleared in the channel on the screen, not in the bot's.
StopTyping_Current(w) ==
  /\ At(w, "silent")
  /\ typing' = [typing EXCEPT ![current] = FALSE]
  /\ Goto(w, "typed")
  /\ UNCHANGED <<uiVars, dirty, bot_running, jobVars, chan, left, screen>>

StopTyping(w) ==
  /\ At(w, "silent")
  /\ typing' = [typing EXCEPT ![chan[w]] = FALSE]
  /\ Goto(w, "typed")
  /\ UNCHANGED <<uiVars, dirty, bot_running, jobVars, chan, left, screen>>

LastDirty(w) ==
  /\ At(w, "typed")
  /\ dirty' = [dirty EXCEPT ![chan[w]] = TRUE]
  /\ Goto(w, "release")
  /\ UNCHANGED <<uiVars, typing, bot_running, jobVars, chan, left, screen>>

\* Mutant: the worker ends without giving the job back.
Release_Forgotten(w) ==
  /\ At(w, "release")
  /\ Goto(w, "none")
  /\ UNCHANGED <<uiVars, chanVars, bot_running, jobVars, chan, left, screen>>

\* The last statement of bot_worker; the thread touches nothing afterwards.
Release(w) ==
  /\ At(w, "release")
  /\ bot_running' = FALSE
  /\ Goto(w, "none")
  /\ UNCHANGED <<uiVars, chanVars, jobVars, chan, left, screen>>

-----------------------------------------------------------------------------
Key == Escape \/ Tab \/ TypeKey \/ Backspace \/ EnterIgnored \/ EnterSends

Loop ==
  \/ SendBusy
  \/ SendJob
  \/ \E w \in Workers : CreateBot(w)
  \/ CreateFails
  \/ NoMoreKeys
  \/ Check
  \/ Clear
  \/ Draw
  \/ Input
  \/ Sleep

BotStep(w) ==
  \/ Start(w)
  \/ Emit(w)
  \/ EmitDirty(w)
  \/ GenerateEnds(w)
  \/ GenerateFails(w)
  \/ Silent(w)
  \/ StopTyping(w)
  \/ LastDirty(w)
  \/ Release(w)

Next ==
  \/ Open
  \/ Key
  \/ Loop
  \/ \E w \in Workers : BotStep(w)

Spec == Init /\ [][Next]_vars

\* The scheduler gives every ready thread the CPU, a generation is bounded by
\* max_tokens, and the user types more slowly than the loop drains the keys.
Fairness ==
  /\ WF_vars(Loop)
  /\ \A w \in Workers : WF_vars(BotStep(w))

LiveSpec == Spec /\ Fairness
-----------------------------------------------------------------------------
(* Properties.                                                             *)

\* The type of every variable.
TypeOK ==
  /\ ui \in {"closed", "keys", "send", "create", "check", "clear", "draw", "input",
             "sleep"}
  /\ running \in BOOLEAN /\ redraw \in BOOLEAN /\ bot_running \in BOOLEAN
  /\ current \in Channels
  /\ input_len \in 0..InputMax
  /\ typing \in [Channels -> BOOLEAN] /\ dirty \in [Channels -> BOOLEAN]
  /\ job \in Channels
  /\ text \in 0..TextMax
  /\ newer \in 0..NewerMax
  /\ bot \in [Workers -> {"none", "start", "generate", "emitted", "generated",
                          "silent", "typed", "release"}]
  /\ chan \in [Workers -> Channels]
  /\ left \in [Workers -> 0..MaxPieces]
  /\ fresh \in BOOLEAN /\ shown \in BOOLEAN

Alive == {w \in Workers : bot[w] # "none"}

\* "One bot at a time: `job` is shared with the worker thread" (chat.c:445): at
\* most one worker exists, and bot_running keeps send_message away from its job.
OneBot ==
  /\ Cardinality(Alive) <= 1
  /\ Alive # {} \/ ui = "create" => bot_running

\* A typing indicator is on only in the channel of the job, and only as long as
\* that job keeps the bot busy: none is left behind in another channel.
TypingIsTheJobs ==
  \A c \in Channels : typing[c] => job = c /\ bot_running

\* The variables have their types, there is one bot at a time, and nobody else is
\* shown to be typing.
Inv == TypeOK /\ OneBot /\ TypingIsTheJobs

\* While it is written, the bot's message is the last one of its channel, so its
\* slot in the ring of messages is not used for another; it does not stay blank.
OwnMessage ==
  \A w \in Workers :
    /\ bot[w] \in {"start", "generate", "emitted", "generated"} =>
         newer = 0 /\ typing[job]
    /\ bot[w] \in {"typed", "release"} => text # 0

\* No update is lost: when the loop goes to sleep and the channel is not dirty,
\* the screen shows its messages and its typing indicator, except for a change
\* whose author is about to set dirty.
NoLostUpdate ==
  ui = "sleep" /\ running /\ ~dirty[current] =>
    \/ fresh /\ shown = typing[current]
    \/ \E w \in Workers :
         /\ bot[w] \in {"emitted", "generated", "silent", "typed"}
         /\ job = current

\* A bot at work makes room for the next one: a later message is answered.
BotComesBack == Alive # {} ~> ~bot_running
=============================================================================
