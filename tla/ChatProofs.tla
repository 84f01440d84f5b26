----------------------------- MODULE ChatProofs -----------------------------
(***************************************************************************)
(* Theorems about ChocoCord, for every number of channels and of worker    *)
(* threads, and every length of an input, a message and a generation.  The *)
(* inductive invariant IInv says whose the job is at every step of either  *)
(* thread, and at every point of the loop why the screen may be behind.    *)
(* Behind them, with LlmIInv, the theorems about the model that it and the *)
(* shell call, for all callers, models and numbers of slots.               *)
(***************************************************************************)
EXTENDS Chat, Llm, FiniteSetTheorems, TLAPS

Writing == {"start", "generate", "emitted", "generated"}
Ending == {"typed", "release"}

\* bot_running keeps everyone from the job until the only worker is gone.
BotInv ==
  /\ \A v, w \in Alive : v = w
  /\ Alive # {} \/ ui = "create" => bot_running
  /\ ui = "create" => Alive = {} /\ newer = 0 /\ typing[job]

\* What a worker has done to the job so far.
WorkInv ==
  \A w \in Workers :
    /\ bot[w] \in Writing => newer = 0
    /\ bot[w] \in Writing \cup {"silent"} => typing[job]
    /\ bot[w] \notin {"none", "start"} => chan[w] = job
    /\ bot[w] \in Ending => ~typing[job]
    /\ bot[w] \in Ending \cup {"silent"} => text # 0

\* Someone has changed, or is to change, the channel on the screen, and will set
\* dirty.
Pending ==
  \/ dirty[current]
  \/ \E w \in Workers :
       bot[w] \in {"emitted", "generated", "silent", "typed"} /\ job = current

\* The messages on the screen are old only where the loop is about to draw them.
FreshInv == ui \notin {"closed", "send", "create", "draw"} => fresh \/ Pending

\* So is the typing indicator, which is drawn when need_input_redraw is set.
ShownInv ==
  /\ ui \notin {"closed", "draw"} => redraw \/ shown = typing[current] \/ Pending
  /\ ui = "sleep" => ~redraw

IInv == /\ TypeOK
        /\ BotInv
        /\ TypingIsTheJobs
        /\ WorkInv
        /\ FreshInv
        /\ ShownInv

-----------------------------------------------------------------------------
\* The channel after current.
LEMMA NextChannel ==
  ASSUME NEW c \in Channels
  PROVE  (c + 1) % NUM_CHANNELS \in Channels
BY ChatAssumption DEF Channels

LEMMA InitInv == Init => IInv
<1> SUFFICES ASSUME Init
             PROVE  IInv
  OBVIOUS
<1>1. TypeOK
  <2>1. 0 \in Channels /\ 0 \in 0..InputMax /\ 0 \in 0..TextMax /\ 0 \in 0..MaxPieces
    BY ChatAssumption DEF Channels
  <2>2. /\ chan \in [Workers -> Channels] /\ left \in [Workers -> 0..MaxPieces]
        /\ newer \in 0..NewerMax
    BY <2>1 DEF Init, NewerMax
  <2>3. QED
    BY <2>1, <2>2 DEF Init, TypeOK
<1>2. BotInv /\ TypingIsTheJobs /\ WorkInv /\ FreshInv /\ ShownInv
  BY DEF Init, BotInv, TypingIsTheJobs, WorkInv, FreshInv, ShownInv, Alive, Writing, Ending
<1>3. QED
  BY <1>1, <1>2 DEF IInv

-----------------------------------------------------------------------------
(* The chat loop.                                                          *)

\* A step of the loop that leaves the job and the worker alone.
LEMMA AloneInv ==
  ASSUME IInv, UNCHANGED <<typing, bot_running, jobVars, botVars>>,
         ui # "create", ui' # "create",
         TypeOK', FreshInv', ShownInv'
  PROVE  IInv'
BY DEF IInv, BotInv, TypingIsTheJobs, WorkInv, Alive, jobVars, botVars

\* Open, Tab, and the keys that change the input line.
LEMMA KeyInv ==
  ASSUME IInv, Open \/ Escape \/ Tab \/ TypeKey \/ Backspace \/ EnterIgnored
  PROVE  IInv'
<1> USE DEF IInv
<1>1. UNCHANGED <<typing, bot_running, jobVars, botVars>> /\ dirty' = dirty
  BY DEF Open, Escape, Tab, TypeKey, Backspace, EnterIgnored, chanVars
<1>2. ui # "create" /\ ui' \in {"keys", "check"}
  BY DEF Open, Escape, Tab, TypeKey, Backspace, EnterIgnored
<1>3. TypeOK'
  <2>1. current' \in Channels
    BY NextChannel DEF TypeOK, Open, Escape, Tab, TypeKey, Backspace, EnterIgnored
  <2>2. input_len' \in 0..InputMax
    BY ChatAssumption DEF TypeOK, Open, Escape, Tab, TypeKey, Backspace, EnterIgnored
  <2>3. fresh' \in BOOLEAN /\ shown' \in BOOLEAN /\ running' \in BOOLEAN /\ redraw' \in BOOLEAN
    BY <2>1 DEF TypeOK, Open, Escape, Tab, TypeKey, Backspace, EnterIgnored, DrawChat, DrawInput,
                screen
  <2>4. QED
    BY <1>1, <1>2, <2>1, <2>2, <2>3 DEF TypeOK, jobVars, botVars
<1>4. FreshInv' /\ ShownInv'
  BY <1>1
  DEF FreshInv, ShownInv, Pending, Open, Escape, Tab, TypeKey, Backspace, EnterIgnored,
      DrawChat, DrawInput, screen, jobVars, botVars
<1>5. QED
  BY <1>1, <1>2, <1>3, <1>4, AloneInv

\* The rest of the loop, up to the sleep.
LEMMA DrawInv ==
  ASSUME IInv, SendBusy \/ NoMoreKeys \/ Check \/ Clear \/ Draw \/ Input \/ Sleep
  PROVE  IInv'
<1> USE DEF IInv
<1>1. UNCHANGED <<typing, bot_running, jobVars, botVars, current>>
  BY DEF SendBusy, NoMoreKeys, Check, Clear, Draw, Input, Sleep, chanVars
<1>2. ui # "create" /\ ui' # "create"
  BY DEF SendBusy, NoMoreKeys, Check, Clear, Draw, Input, Sleep
<1>3. TypeOK'
  <2>1. /\ ui' \in {"closed", "keys", "check", "clear", "draw", "input", "sleep"}
        /\ running' \in BOOLEAN /\ redraw' \in BOOLEAN
    BY DEF TypeOK, SendBusy, NoMoreKeys, Check, Clear, Draw, Input, Sleep
  <2>2. fresh' \in BOOLEAN /\ shown' \in BOOLEAN /\ dirty' \in [Channels -> BOOLEAN]
    BY DEF TypeOK, SendBusy, NoMoreKeys, Check, Clear, Draw, Input, Sleep, DrawChat, DrawInput,
           screen, chanVars
  <2>3. input_len' \in {0, input_len} /\ 0 \in 0..InputMax
    BY ChatAssumption DEF SendBusy, NoMoreKeys, Check, Clear, Draw, Input, Sleep
  <2>4. QED
    BY <1>1, <2>1, <2>2, <2>3 DEF TypeOK, jobVars, botVars
<1>4. FreshInv' /\ ShownInv'
  BY <1>1
  DEF FreshInv, ShownInv, Pending, SendBusy, NoMoreKeys, Check, Clear, Draw, Input, Sleep,
      DrawChat, DrawInput, screen, chanVars, jobVars, botVars
<1>5. QED
  BY <1>1, <1>2, <1>3, <1>4, AloneInv

\* A message is pushed behind the bot's only after the bot has stopped typing.
LEMMA EnterSendsInv ==
  ASSUME IInv, EnterSends
  PROVE  IInv'
<1> USE DEF IInv
<1>1. /\ ui = "keys" /\ ui' = "send" /\ fresh' = FALSE /\ ~typing[current]
      /\ UNCHANGED <<running, current, input_len, redraw, chanVars, bot_running, job, text,
                     botVars, shown>>
      /\ newer' = IF current = job THEN NewerMax ELSE newer
  BY DEF EnterSends
<1>2. TypeOK'
  <2>1. newer' \in 0..NewerMax
    BY <1>1 DEF TypeOK, NewerMax
  <2>2. QED
    BY <1>1, <2>1 DEF TypeOK, chanVars, botVars
<1>3. BotInv' /\ TypingIsTheJobs' /\ WorkInv'
  BY <1>1 DEF BotInv, TypingIsTheJobs, WorkInv, Alive, chanVars, botVars
<1>4. FreshInv' /\ ShownInv'
  BY <1>1 DEF FreshInv, ShownInv, Pending, chanVars, botVars
<1>5. QED
  BY <1>2, <1>3, <1>4

\* The job is filled in when no worker is left.
LEMMA SendJobInv ==
  ASSUME IInv, SendJob
  PROVE  IInv'
<1> USE DEF IInv
<1>1. /\ ui' = "create" /\ ~bot_running /\ bot_running' = TRUE
      /\ job' = current /\ text' = 0 /\ newer' = 0 /\ input_len' = 0
      /\ typing' = [typing EXCEPT ![current] = TRUE]
      /\ dirty' = [dirty EXCEPT ![current] = TRUE]
      /\ UNCHANGED <<running, current, redraw, botVars, screen>>
  BY DEF SendJob
<1>2. Alive = {}
  BY <1>1 DEF BotInv
<1>3. TypeOK'
  BY <1>1, ChatAssumption DEF TypeOK, botVars, screen, NewerMax
<1>4. BotInv' /\ TypingIsTheJobs' /\ WorkInv'
  BY <1>1, <1>2 DEF BotInv, TypingIsTheJobs, WorkInv, Alive, botVars, TypeOK, Writing, Ending
<1>5. FreshInv' /\ ShownInv'
  BY <1>1 DEF FreshInv, ShownInv, Pending, TypeOK
<1>6. QED
  BY <1>3, <1>4, <1>5

\* thread_create, which may return NULL: then bot_running stays set.
LEMMA CreateInv ==
  ASSUME IInv, CreateFails \/ \E w \in Workers : CreateBot(w)
  PROVE  IInv'
<1> USE DEF IInv
<1>1. /\ ui = "create" /\ ui' = "keys" /\ fresh' = TRUE /\ redraw' = TRUE
      /\ UNCHANGED <<running, current, input_len, chanVars, bot_running, jobVars, shown>>
  BY DEF CreateFails, CreateBot, CreateDone, DrawChat
<1>2. CASE CreateFails
  <2>1. UNCHANGED botVars
    BY <1>2 DEF CreateFails
  <2>2. QED
    BY <1>1, <2>1
    DEF TypeOK, BotInv, TypingIsTheJobs, WorkInv, FreshInv, ShownInv, Alive, chanVars, jobVars,
        botVars
<1>3. ASSUME NEW w \in Workers, CreateBot(w)
      PROVE  IInv'
  <2>1. bot' = [bot EXCEPT ![w] = "start"] /\ UNCHANGED <<chan, left>>
    BY <1>3 DEF CreateBot
  <2>2. Alive' = {w} /\ \A v \in Workers \ {w} : bot'[v] = "none"
    BY <1>1, <2>1 DEF BotInv, Alive, TypeOK
  <2>3. TypeOK'
    BY <1>1, <2>1 DEF TypeOK, chanVars, jobVars
  <2>4. BotInv' /\ TypingIsTheJobs'
    BY <1>1, <2>2 DEF BotInv, TypingIsTheJobs, chanVars, jobVars
  <2>5. WorkInv'
    BY <1>1, <2>1, <2>2 DEF BotInv, WorkInv, TypeOK, chanVars, jobVars, Writing, Ending
  <2>6. FreshInv' /\ ShownInv'
    BY <1>1 DEF FreshInv, ShownInv
  <2>7. QED
    BY <2>3, <2>4, <2>5, <2>6
<1>4. QED
  BY <1>2, <1>3

-----------------------------------------------------------------------------
(* The llm-bot thread.                                                     *)

\* A step of the only worker, which moves from one label to the next.
LEMMA WorkerTypes ==
  ASSUME IInv, NEW w \in Workers, bot[w] # "none"
  PROVE  /\ w \in Alive /\ bot_running /\ ui # "create"
         /\ \A v \in Workers \ {w} : bot[v] = "none"
         /\ chan[w] \in Channels /\ left[w] \in 0..MaxPieces
BY DEF IInv, BotInv, TypeOK, Alive

LEMMA MoveInv ==
  ASSUME IInv, NEW w \in Workers, bot[w] # "none",
         UNCHANGED <<uiVars, bot_running, job, newer>>,
         \E l : l # "none" /\ bot' = [bot EXCEPT ![w] = l],
         TypeOK', TypingIsTheJobs', FreshInv', ShownInv',
         /\ bot'[w] \in Writing => newer = 0
         /\ bot'[w] \in Writing \cup {"silent"} => typing'[job]
         /\ bot'[w] \notin {"none", "start"} => chan'[w] = job
         /\ bot'[w] \in Ending => ~typing'[job]
         /\ bot'[w] \in Ending \cup {"silent"} => text' # 0
  PROVE  IInv'
<1> USE DEF IInv
<1>1. Alive' = Alive
  BY DEF Alive, TypeOK
<1>2. BotInv'
  BY <1>1, WorkerTypes DEF BotInv, uiVars
<1>3. WorkInv'
  <2>1. \A v \in Workers \ {w} : bot'[v] = "none"
    BY WorkerTypes DEF TypeOK
  <2>2. QED
    BY <2>1 DEF WorkInv, Writing, Ending
<1>4. QED
  BY <1>2, <1>3

\* The worker copies job.channel, which nobody changes while it exists.
LEMMA StartInv ==
  ASSUME IInv, NEW w \in Workers, Start(w)
  PROVE  IInv'
<1> USE DEF IInv
<1>1. /\ bot[w] = "start" /\ bot' = [bot EXCEPT ![w] = "generate"]
      /\ chan' = [chan EXCEPT ![w] = job] /\ left' = [left EXCEPT ![w] = MaxPieces]
      /\ UNCHANGED <<uiVars, chanVars, bot_running, jobVars, screen>>
  BY DEF Start, At, Goto
<1>2. TypeOK'
  BY <1>1, ChatAssumption DEF TypeOK, uiVars, chanVars, jobVars, screen
<1>3. TypingIsTheJobs' /\ FreshInv' /\ ShownInv'
  BY <1>1
  DEF TypingIsTheJobs, FreshInv, ShownInv, Pending, uiVars, chanVars, jobVars, screen, TypeOK
<1>4. newer = 0 /\ typing[job] /\ bot'[w] = "generate" /\ chan'[w] = job
  BY <1>1 DEF WorkInv, TypeOK, Writing
<1>5. QED
  BY <1>1, <1>2, <1>3, <1>4, MoveInv DEF Writing, Ending, chanVars, jobVars

\* A piece is appended; from then on the worker owes a dirty.
LEMMA EmitInv ==
  ASSUME IInv, NEW w \in Workers, Emit(w)
  PROVE  IInv'
<1> USE DEF IInv
<1>1. /\ bot[w] = "generate" /\ left[w] > 0 /\ left' = [left EXCEPT ![w] = @ - 1]
      /\ UNCHANGED <<uiVars, chanVars, bot_running, job, newer, chan, shown>>
  BY DEF Emit, At
<1>2. left'[w] \in 0..MaxPieces
  BY <1>1, WorkerTypes, ChatAssumption DEF TypeOK
<1>3. newer = 0 /\ typing[job] /\ chan[w] = job
  BY <1>1 DEF WorkInv, Writing
<1>4. CASE text < TextMax
  <2>1. /\ text' = text + 1 /\ fresh' = (fresh /\ current # job)
        /\ bot' = [bot EXCEPT ![w] = "emitted"]
    BY <1>4 DEF Emit, Write, Goto
  <2>2. text' \in 0..TextMax
    BY <1>4, <2>1, ChatAssumption DEF TypeOK
  <2>3. TypeOK'
    BY <1>1, <1>2, <2>1, <2>2 DEF TypeOK, uiVars, chanVars
  <2>4. TypingIsTheJobs'
    BY <1>1 DEF TypingIsTheJobs, chanVars
  <2>5. FreshInv' /\ ShownInv'
    BY <1>1, <2>1 DEF FreshInv, ShownInv, Pending, uiVars, chanVars, TypeOK
  <2>6. bot'[w] = "emitted"
    BY <2>1 DEF TypeOK
  <2>7. QED
    BY <1>1, <1>3, <2>1, <2>3, <2>4, <2>5, <2>6, MoveInv DEF Writing, Ending, chanVars
<1>5. CASE ~(text < TextMax)
  <2>1. UNCHANGED <<text, fresh, bot>>
    BY <1>5 DEF Emit
  <2>2. TypeOK'
    BY <1>1, <1>2, <2>1 DEF TypeOK, uiVars, chanVars
  <2>3. QED
    BY <1>1, <2>1, <2>2
    DEF BotInv, TypingIsTheJobs, WorkInv, FreshInv, ShownInv, Pending, Alive, uiVars, chanVars
<1>6. QED
  BY <1>4, <1>5

LEMMA EmitDirtyInv ==
  ASSUME IInv, NEW w \in Workers, EmitDirty(w)
  PROVE  IInv'
<1> USE DEF IInv
<1>1. /\ bot[w] = "emitted" /\ bot' = [bot EXCEPT ![w] = "generate"]
      /\ dirty' = [dirty EXCEPT ![job] = TRUE]
      /\ UNCHANGED <<uiVars, typing, bot_running, jobVars, chan, left, screen>>
  BY DEF EmitDirty, At, Goto
<1>2. TypeOK'
  BY <1>1 DEF TypeOK, uiVars, jobVars, screen
<1>3. TypingIsTheJobs'
  BY <1>1 DEF TypingIsTheJobs, jobVars
<1>4. FreshInv' /\ ShownInv'
  <2>1. Pending => Pending'
    BY <1>1 DEF Pending, uiVars, jobVars, TypeOK
  <2>2. QED
    BY <1>1, <2>1 DEF FreshInv, ShownInv, uiVars, screen
<1>5. newer = 0 /\ typing[job] /\ bot'[w] = "generate" /\ chan[w] = job
  BY <1>1 DEF WorkInv, TypeOK, Writing
<1>6. QED
  BY <1>1, <1>2, <1>3, <1>4, <1>5, MoveInv DEF Writing, Ending, jobVars

\* GenerateEnds and GenerateFails.
LEMMA GeneratedInv ==
  ASSUME IInv, NEW w \in Workers, GenerateEnds(w) \/ GenerateFails(w)
  PROVE  IInv'
<1> USE DEF IInv
<1>1. /\ bot[w] = "generate" /\ bot' = [bot EXCEPT ![w] = "generated"]
      /\ UNCHANGED <<uiVars, chanVars, bot_running, job, newer, chan, left, shown>>
      /\ text' \in {text, 1} /\ (fresh' = fresh \/ fresh' = (fresh /\ current # job))
  BY DEF GenerateEnds, GenerateFails, Write, At, Goto, jobVars, screen
<1>2. text' \in 0..TextMax
  BY <1>1, ChatAssumption DEF TypeOK
<1>3. TypeOK'
  BY <1>1, <1>2 DEF TypeOK, uiVars, chanVars
<1>4. TypingIsTheJobs'
  BY <1>1 DEF TypingIsTheJobs, chanVars
<1>5. FreshInv' /\ ShownInv'
  BY <1>1 DEF FreshInv, ShownInv, Pending, uiVars, chanVars, TypeOK
<1>6. newer = 0 /\ typing[job] /\ bot'[w] = "generated" /\ chan[w] = job
  BY <1>1 DEF WorkInv, TypeOK, Writing
<1>7. QED
  BY <1>1, <1>3, <1>4, <1>5, <1>6, MoveInv DEF Writing, Ending, chanVars

\* After it the reply is not blank.
LEMMA SilentInv ==
  ASSUME IInv, NEW w \in Workers, Silent(w)
  PROVE  IInv'
<1> USE DEF IInv
<1>1. /\ bot[w] = "generated" /\ bot' = [bot EXCEPT ![w] = "silent"]
      /\ UNCHANGED <<uiVars, chanVars, bot_running, job, newer, chan, left, shown>>
      /\ text' = (IF text = 0 THEN 1 ELSE text)
      /\ (fresh' = fresh \/ fresh' = (fresh /\ current # job))
  BY DEF Silent, Write, At, Goto
<1>2. text' \in 0..TextMax /\ text' # 0
  BY <1>1, ChatAssumption DEF TypeOK
<1>3. TypeOK'
  BY <1>1, <1>2 DEF TypeOK, uiVars, chanVars
<1>4. TypingIsTheJobs'
  BY <1>1 DEF TypingIsTheJobs, chanVars
<1>5. FreshInv' /\ ShownInv'
  BY <1>1 DEF FreshInv, ShownInv, Pending, uiVars, chanVars, TypeOK
<1>6. typing[job] /\ bot'[w] = "silent" /\ chan[w] = job
  BY <1>1 DEF WorkInv, TypeOK, Writing
<1>7. QED
  BY <1>1, <1>2, <1>3, <1>4, <1>5, <1>6, MoveInv DEF Writing, Ending, chanVars

\* The indicator goes off in the channel of the job: nobody types any more.
LEMMA StopTypingInv ==
  ASSUME IInv, NEW w \in Workers, StopTyping(w)
  PROVE  IInv'
<1> USE DEF IInv
<1>1. /\ bot[w] = "silent" /\ bot' = [bot EXCEPT ![w] = "typed"]
      /\ typing' = [typing EXCEPT ![chan[w]] = FALSE]
      /\ UNCHANGED <<uiVars, dirty, bot_running, jobVars, chan, left, screen>>
  BY DEF StopTyping, At, Goto
<1>2. chan[w] = job /\ text # 0
  BY <1>1 DEF WorkInv
<1>3. TypeOK'
  BY <1>1 DEF TypeOK, uiVars, jobVars, screen
<1>4. TypingIsTheJobs' /\ ~typing'[job]
  BY <1>1, <1>2 DEF TypingIsTheJobs, jobVars, TypeOK
<1>5. FreshInv' /\ ShownInv'
  BY <1>1, <1>2 DEF FreshInv, ShownInv, Pending, uiVars, jobVars, screen, TypeOK
<1>6. bot'[w] = "typed"
  BY <1>1 DEF TypeOK
<1>7. QED
  BY <1>1, <1>2, <1>3, <1>4, <1>5, <1>6, MoveInv DEF Writing, Ending, jobVars

LEMMA LastDirtyInv ==
  ASSUME IInv, NEW w \in Workers, LastDirty(w)
  PROVE  IInv'
<1> USE DEF IInv
<1>1. /\ bot[w] = "typed" /\ bot' = [bot EXCEPT ![w] = "release"]
      /\ dirty' = [dirty EXCEPT ![chan[w]] = TRUE]
      /\ UNCHANGED <<uiVars, typing, bot_running, jobVars, chan, left, screen>>
  BY DEF LastDirty, At, Goto
<1>2. chan[w] = job /\ text # 0 /\ ~typing[job]
  BY <1>1 DEF WorkInv, Ending
<1>3. TypeOK'
  BY <1>1 DEF TypeOK, uiVars, jobVars, screen
<1>4. TypingIsTheJobs'
  BY <1>1 DEF TypingIsTheJobs, jobVars
<1>5. FreshInv' /\ ShownInv'
  <2>1. Pending => Pending'
    BY <1>1, <1>2 DEF Pending, uiVars, jobVars, TypeOK
  <2>2. QED
    BY <1>1, <2>1 DEF FreshInv, ShownInv, uiVars, screen
<1>6. bot'[w] = "release"
  BY <1>1 DEF TypeOK
<1>7. QED
  BY <1>1, <1>2, <1>3, <1>4, <1>5, <1>6, MoveInv DEF Writing, Ending, jobVars

\* The last statement of bot_worker gives the job back.
LEMMA ReleaseInv ==
  ASSUME IInv, NEW w \in Workers, Release(w)
  PROVE  IInv'
<1> USE DEF IInv
<1>1. /\ bot[w] = "release" /\ bot' = [bot EXCEPT ![w] = "none"] /\ bot_running' = FALSE
      /\ UNCHANGED <<uiVars, chanVars, jobVars, chan, left, screen>>
  BY DEF Release, At, Goto
<1>2. ~typing[job] /\ ui # "create"
  BY <1>1, WorkerTypes DEF WorkInv, Ending
<1>3. \A v \in Workers : bot'[v] = "none"
  BY <1>1, WorkerTypes DEF TypeOK
<1>4. TypeOK'
  BY <1>1 DEF TypeOK, uiVars, chanVars, jobVars, screen
<1>5. BotInv' /\ WorkInv'
  BY <1>1, <1>2, <1>3 DEF BotInv, WorkInv, Alive, uiVars, Writing, Ending
<1>6. TypingIsTheJobs'
  BY <1>1, <1>2 DEF TypingIsTheJobs, chanVars, jobVars
<1>7. FreshInv' /\ ShownInv'
  <2>1. Pending => Pending'
    BY <1>1 DEF Pending, uiVars, chanVars, jobVars, TypeOK
  <2>2. QED
    BY <1>1, <2>1 DEF FreshInv, ShownInv, uiVars, chanVars, screen
<1>8. QED
  BY <1>4, <1>5, <1>6, <1>7

LEMMA StutterInv ==
  ASSUME IInv, UNCHANGED vars
  PROVE  IInv'
BY DEF vars, uiVars, chanVars, jobVars, botVars, screen, IInv, TypeOK, BotInv, TypingIsTheJobs,
       WorkInv, FreshInv, ShownInv, Pending, Alive

LEMMA NextInv == IInv /\ [Next]_vars => IInv'
<1>1. ASSUME IInv, Key \/ Open
      PROVE  IInv'
  BY <1>1, KeyInv, EnterSendsInv DEF Key
<1>2. ASSUME IInv, Loop
      PROVE  IInv'
  BY <1>2, DrawInv, SendJobInv, CreateInv DEF Loop
<1>3. ASSUME IInv, NEW w \in Workers, BotStep(w)
      PROVE  IInv'
  BY <1>3, StartInv, EmitInv, EmitDirtyInv, GeneratedInv, SilentInv, StopTypingInv,
     LastDirtyInv, ReleaseInv DEF BotStep
<1>4. QED
  BY <1>1, <1>2, <1>3, StutterInv DEF Next

-----------------------------------------------------------------------------
(* The theorems.                                                           *)

\* The invariant holds in every state.
THEOREM Invariance == Spec => []IInv
BY InitInv, NextInv, PTL DEF Spec

\* "One bot at a time" (chat.c:445): bot_running, tested by send_message and
\* cleared by bot_worker, is enough to keep a second worker from being created
\* and the typing indicator from being left on.
THEOREM OneBotAtATime == Spec => []Inv
<1>1. IInv => OneBot
  <2>1. SUFFICES ASSUME IInv
                 PROVE  Cardinality(Alive) <= 1
    BY DEF IInv, BotInv, OneBot
  <2>2. Alive = {} \/ \E w : Alive = {w}
    BY <2>1 DEF IInv, BotInv
  <2>3. QED
    BY <2>2, FS_EmptySet, FS_Singleton
<1>2. IInv => Inv
  BY <1>1 DEF IInv, Inv
<1>3. QED
  BY <1>2, Invariance, PTL

\* bot_worker writes through job.msg, a slot of the channel's ring of messages,
\* without a lock: no message is pushed after it, and no reply stays blank.
THEOREM MessageIsOwned == Spec => []OwnMessage
<1>1. IInv => OwnMessage
  BY DEF IInv, WorkInv, OwnMessage, Writing, Ending
<1>2. QED
  BY <1>1, Invariance, PTL

\* The loop clears dirty before it draws and bot_worker sets it after it writes:
\* no write to the channel on the screen goes unseen.
THEOREM UpdatesAreSeen == Spec => []NoLostUpdate
<1>1. IInv => NoLostUpdate
  BY DEF IInv, FreshInv, ShownInv, Pending, NoLostUpdate
<1>2. QED
  BY <1>1, Invariance, PTL

-----------------------------------------------------------------------------
-----------------------------------------------------------------------------
(***************************************************************************)
(* The models that the bot shares with the shell, for every set of callers *)
(* and of models, and every number of slots.  The inductive invariant      *)
(* LlmIInv adds to the properties of Llm what a call has done so far:      *)
(* which operation it is, whether it still is the only one that loads, and *)
(* which parts of its slot it has filled.                                  *)
(***************************************************************************)

\* What a caller stands at tells which call it is in.
CallInv ==
  \A c \in Callers :
    /\ IsAt(c, "idle") => op[c] = NULL
    /\ ~IsAt(c, "idle") => op[c] # NULL /\ model[c] \in Models
    /\ pc[c] \in {"busy", "buffers", "run", "done"} => op[c] = "generate"
    /\ IsAt(c, "print") => op[c] = "describe"
    /\ pc[c] \in Contents => slot[c] \in Slots /\ model[c] \in Booted
    /\ IsAt(c, "print") => slot[c] \in Slots

\* Unless a race has occurred, at most one call is past load_model's search, and
\* what it looks for is in no slot.
LoadInv ==
  ~raced =>
    /\ \A c, d \in Loading : c = d
    /\ \A c \in Loading : Holding(model[c]) = {}
    /\ \A c \in Callers : pc[c] \in Contents => ~loaded[slot[c]]

\* Unless a race has occurred, a call finds in its slot what it has put there.
FilledInv ==
  ~raced =>
    \A c \in Callers :
      LET m == model[c]
          s == slot[c]
      IN
      /\ pc[c] \in Contents \ {"config"} => config[s] = m
      /\ pc[c] \in {"tokenizer", "describe", "name", "loaded"} => state[s] = m
      /\ pc[c] \in {"describe", "name", "loaded"} => tokenizer[s] = m
      /\ pc[c] \in {"name", "loaded"} => describe[s] = m
      /\ pc[c] = "loaded" => name[s] = m
      /\ pc[c] = "print" => loaded[s] /\ name[s] = m

\* Unless a race has occurred, no model is in two slots.
DistinctInv ==
  ~raced =>
    \A s \in Slots :
      loaded[s] =>
        /\ name[s] \in Booted
        /\ \A r \in Slots : loaded[r] /\ name[r] = name[s] => r = s

LlmIInv == /\ LlmTypeOK
        /\ CallInv
        /\ LoadInv
        /\ FilledInv
        /\ DistinctInv
        /\ BusyMeansWork
        /\ SlotsCoherent

-----------------------------------------------------------------------------
(* Sets.                                                                   *)

\* First is well-defined: a set of slots that is not empty has a least member.
\* The intervals from 0 to the members are ordered by inclusion, which is
\* well-founded on finite sets.
LEMMA FirstIsMember ==
  ASSUME NEW S, S \subseteq Slots, S # {}
  PROVE  First(S) \in S
<1> DEFINE T == {0..s : s \in S}
<1>1. S \subseteq Nat
  BY LlmAssumption DEF Slots
<1>2. T \subseteq FiniteSubsetsOf(Nat) /\ T # {}
  <2>1. ASSUME NEW s \in S
        PROVE  0..s \in SUBSET Nat /\ IsFiniteSet(0..s)
    BY <1>1, FS_Interval
  <2>2. QED
    BY <2>1 DEF FiniteSubsetsOf
<1> HIDE DEF T
<1>3. PICK t \in T : \A u \in T : <<u, t>> \notin StrictSubsetOrdering(Nat)
  BY <1>2, WFMin, FS_StrictSubsetOrderingWellFounded
<1>4. PICK s \in S : t = 0..s
  BY DEF T
<1>5. ASSUME NEW r \in S, r < s
      PROVE  FALSE
  <2>1. 0..r \in T /\ 0..r \in SUBSET Nat /\ 0..s \in SUBSET Nat
    BY <1>1 DEF T
  <2>2. s \in 0..s /\ s \notin 0..r
    BY <1>1, <1>5
  <2>3. 0..r \subseteq 0..s /\ 0..r # 0..s
    BY <1>1, <1>5, <2>2
  <2>4. <<0..r, t>> \in StrictSubsetOrdering(Nat)
    BY <1>4, <2>1, <2>3 DEF StrictSubsetOrdering
  <2>5. QED
    BY <1>3, <2>1, <2>4
<1>6. \A r \in S : s <= r
  BY <1>1, <1>5
<1>7. QED
  BY <1>6 DEF First

\* A set of callers with at most one member.
LEMMA AtMostOne ==
  ASSUME NEW S, S \subseteq Callers, ~(Cardinality(S) > 1)
  PROVE  \A c, d \in S : c = d
<1>1. IsFiniteSet(S) /\ Cardinality(S) \in Nat
  BY FS_Subset, FS_CardinalityType, RoomAssumption
<1>2. CASE Cardinality(S) = 0
  BY <1>1, <1>2, FS_EmptySet
<1>3. CASE Cardinality(S) = 1
  BY <1>1, <1>3, FS_Singleton
<1>4. QED
  BY <1>1, <1>2, <1>3

\* What History records.
LEMMA Raced ==
  ASSUME LlmIInv, History
  PROVE  /\ raced' \in BOOLEAN
         /\ ~raced' => ~raced /\ \A c, d \in Loading' : c = d
<1>1. Loading' \subseteq Callers
  BY DEF Loading
<1>2. QED
  BY <1>1, AtMostOne DEF History, LlmIInv, LlmTypeOK

\* Distinct booted models in every slot, and one more booted model, are more
\* than there are slots.
LEMMA Pigeons ==
  ASSUME NEW f, NEW m \in Booted,
         f \in [Slots -> Booted \ {m}],
         \A r, s \in Slots : f[r] = f[s] => r = s
  PROVE  FALSE
<1>1. IsFiniteSet(Slots) /\ Cardinality(Slots) = NumSlots
  BY FS_Interval, LlmAssumption DEF Slots
<1>2. /\ IsFiniteSet(Booted \ {m})
      /\ Cardinality(Booted \ {m}) = Cardinality(Booted) - 1
      /\ Cardinality(Booted) \in Nat
  BY FS_RemoveElement, FS_CardinalityType, RoomAssumption
<1>3. Cardinality(Booted \ {m}) < Cardinality(Slots)
  BY <1>1, <1>2, RoomAssumption, LlmAssumption
<1>4. QED
  BY <1>1, <1>2, <1>3, FS_PigeonHole

\* The variables, and what they are at one caller.
LEMMA Types ==
  ASSUME LlmTypeOK
  PROVE  /\ name \in [Slots -> Models \cup {NULL}] /\ loaded \in [Slots -> BOOLEAN]
         /\ config \in [Slots -> Models \cup {NULL}] /\ state \in [Slots -> Models \cup {NULL}]
         /\ tokenizer \in [Slots -> Models \cup {NULL}]
         /\ describe \in [Slots -> Models \cup {NULL}]
BY DEF LlmTypeOK

-----------------------------------------------------------------------------
(* One lemma per action.                                                   *)

LEMMA LlmInitInv == LlmInit => LlmIInv
<1> SUFFICES ASSUME LlmInit
             PROVE  LlmIInv
  OBVIOUS
<1>1. LlmTypeOK
  BY DEF LlmInit, LlmTypeOK, Labels
<1>2. CallInv /\ FilledInv /\ DistinctInv /\ BusyMeansWork /\ SlotsCoherent
  BY DEF LlmInit, CallInv, FilledInv, DistinctInv, BusyMeansWork, SlotsCoherent, IsAt, Contents
<1>3. LoadInv
  BY DEF LlmInit, LoadInv, Loading, Contents
<1>4. QED
  BY <1>1, <1>2, <1>3 DEF LlmIInv

\* A step that writes no slot, and enters no load.
LEMMA OutsideInv ==
  ASSUME LlmIInv, NEW c \in Callers, UNCHANGED slotVars, History,
         LlmTypeOK', CallInv', BusyMeansWork',
         \A d \in Callers \ {c} : /\ pc'[d] = pc[d] /\ model'[d] = model[d]
                                  /\ slot'[d] = slot[d],
         pc'[c] \in Contents \cup {"free", "print"} =>
           /\ c \in Loading
           /\ pc'[c] = pc[c] /\ model'[c] = model[c] /\ slot'[c] = slot[c]
  PROVE  LlmIInv'
<1> USE DEF LlmIInv
<1>1. Loading' \subseteq Loading /\ \A d \in Loading' : model'[d] = model[d]
  BY DEF Loading
<1>2. LoadInv'
  <2>1. SUFFICES ASSUME ~raced'
                 PROVE  /\ \A a, b \in Loading' : a = b
                        /\ \A a \in Loading' : Holding(model[a]) = {}
                        /\ \A a \in Callers : pc'[a] \in Contents => ~loaded[slot'[a]]
    BY <1>1 DEF LoadInv, Holding, slotVars
  <2>2. \A a \in Callers : pc'[a] \in Contents => pc[a] = pc'[a] /\ slot'[a] = slot[a]
    OBVIOUS
  <2>3. QED
    BY <1>1, <2>1, <2>2, Raced DEF LoadInv
<1>3. FilledInv'
  <2>1. SUFFICES ASSUME ~raced', NEW a \in Callers, pc'[a] \in Contents \cup {"print"}
                 PROVE  pc'[a] = pc[a] /\ model'[a] = model[a] /\ slot'[a] = slot[a] /\ ~raced
    BY DEF FilledInv, slotVars, Contents
  <2>2. QED
    BY <2>1, Raced
<1>4. DistinctInv' /\ SlotsCoherent'
  BY Raced DEF DistinctInv, SlotsCoherent, slotVars
<1>5. QED
  BY <1>2, <1>3, <1>4

LEMMA CallsInv ==
  ASSUME LlmIInv, NEW c \in Callers, Call(c)
  PROVE  LlmIInv'
<1> USE DEF LlmIInv
<1>1. PICK m \in Models : Describe(c, m) \/ Generate(c, m)
  BY DEF Call
<1>2. /\ UNCHANGED <<slotVars, llm_busy, slot>> /\ History
      /\ IsAt(c, "idle")
      /\ model' = [model EXCEPT ![c] = m]
      /\ \/ pc' = [pc EXCEPT ![c] = "find"] /\ op' = [op EXCEPT ![c] = "describe"]
         \/ pc' = [pc EXCEPT ![c] = "busy"] /\ op' = [op EXCEPT ![c] = "generate"]
  BY <1>1 DEF Call, Describe, Generate, GoesTo
<1>3. LlmTypeOK'
  BY <1>2, Raced DEF LlmTypeOK, slotVars, Labels
<1>4. CallInv'
  BY <1>2, LlmAssumption DEF CallInv, IsAt, LlmTypeOK, Contents
<1>5. BusyMeansWork'
  BY <1>2, LlmAssumption DEF BusyMeansWork, Generating, CallInv, IsAt, LlmTypeOK
<1>6. \A d \in Callers \ {c} : pc'[d] = pc[d] /\ model'[d] = model[d] /\ slot'[d] = slot[d]
  BY <1>2 DEF LlmTypeOK
<1>7. pc'[c] \notin Contents \cup {"free", "print"}
  BY <1>2 DEF LlmTypeOK, Contents
<1>8. QED
  BY <1>2, <1>3, <1>4, <1>5, <1>6, <1>7, OutsideInv

LEMMA SetBusyInv ==
  ASSUME LlmIInv, NEW c \in Callers, SetBusy(c), History
  PROVE  LlmIInv'
<1> USE DEF LlmIInv
<1>1. LlmTypeOK'
  BY Raced DEF LlmTypeOK, SetBusy, GoesTo, slotVars, Labels
<1>2. CallInv'
  BY DEF CallInv, SetBusy, IsAt, GoesTo, LlmTypeOK, Contents
<1>3. BusyMeansWork'
  BY DEF BusyMeansWork, Generating, CallInv, SetBusy, IsAt, GoesTo, LlmTypeOK
<1>4. QED
  BY <1>1, <1>2, <1>3, OutsideInv DEF SetBusy, IsAt, GoesTo, LlmTypeOK, Contents

\* Buffers and RunEnds.
LEMMA RunInv ==
  ASSUME LlmIInv, NEW c \in Callers, Buffers(c) \/ RunEnds(c), History
  PROVE  LlmIInv'
<1> USE DEF LlmIInv
<1>1. /\ pc[c] \in {"buffers", "run"}
      /\ \E l \in {"run", "done"} : pc' = [pc EXCEPT ![c] = l]
      /\ UNCHANGED <<slotVars, llm_busy, op, model, slot>>
  BY DEF Buffers, RunEnds, IsAt, GoesTo
<1>2. LlmTypeOK'
  BY <1>1, Raced DEF LlmTypeOK, slotVars, Labels
<1>3. CallInv'
  BY <1>1 DEF CallInv, IsAt, LlmTypeOK, Contents
<1>4. BusyMeansWork'
  BY <1>1 DEF BusyMeansWork, Generating, CallInv, IsAt, LlmTypeOK
<1>5. QED
  BY <1>1, <1>2, <1>3, <1>4, OutsideInv DEF LlmTypeOK, Contents

\* ClearBusy and ShowDescription: a generation clears the flag before it is gone.
LEMMA ReturnInv ==
  ASSUME LlmIInv, NEW c \in Callers, ClearBusy(c) \/ ShowDescription(c), History
  PROVE  LlmIInv'
<1> USE DEF LlmIInv
<1>1. UNCHANGED slotVars /\ Return(c) /\ pc[c] \in {"done", "print"} /\ llm_busy' \in BOOLEAN
  BY DEF ClearBusy, ShowDescription, IsAt, LlmTypeOK
<1>2. LlmTypeOK'
  BY <1>1, Raced DEF LlmTypeOK, Return, GoesTo, slotVars, Labels
<1>3. CallInv'
  BY <1>1 DEF CallInv, Return, GoesTo, IsAt, LlmTypeOK, Contents
<1>4. BusyMeansWork'
  BY <1>1
  DEF BusyMeansWork, Generating, CallInv, ClearBusy, ShowDescription, Return, GoesTo, IsAt, LlmTypeOK
<1>5. QED
  BY <1>1, <1>2, <1>3, <1>4, OutsideInv DEF Return, GoesTo, LlmTypeOK, Contents

\* A load that fails leaves the slots, and the flag, to those that come next.
LEMMA LoadFailsInv ==
  ASSUME LlmIInv, NEW c \in Callers, pc[c] \in Contents \cup {"free"}, LoadFails(c),
         UNCHANGED <<slotVars, llm_busy>>, History
  PROVE  LlmIInv'
<1> USE DEF LlmIInv
<1>1. op[c] \in {"generate", "describe"} /\ pc[c] \notin {"idle", "busy"}
  BY DEF CallInv, LlmTypeOK, IsAt, Contents
<1>2. LlmTypeOK'
  BY Raced DEF LlmTypeOK, LoadFails, Return, GoesTo, slotVars, Labels
<1>3. CallInv'
  BY <1>1 DEF CallInv, LoadFails, Return, GoesTo, IsAt, LlmTypeOK, Contents
<1>4. BusyMeansWork'
  BY <1>1 DEF BusyMeansWork, Generating, LoadFails, Return, GoesTo, IsAt, LlmTypeOK
<1>5. QED
  BY <1>2, <1>3, <1>4, OutsideInv DEF LoadFails, Return, GoesTo, LlmTypeOK, Contents

\* load_model finds the model in a slot: the slot is given back as it is.
LEMMA FindHitInv ==
  ASSUME LlmIInv, NEW c \in Callers, FindLoaded(c), Holding(model[c]) # {}, History
  PROVE  LlmIInv'
<1> USE DEF LlmIInv
<1> DEFINE s == First(Holding(model[c]))
<1>1. s \in Slots /\ loaded[s] /\ name[s] = model[c]
  <2>1. Holding(model[c]) \subseteq Slots
    BY DEF Holding
  <2>2. s \in Holding(model[c])
    BY <2>1, FirstIsMember
  <2>3. QED
    BY <2>2 DEF Holding
<1> HIDE DEF s
<1>2. /\ IsAt(c, "find") /\ UNCHANGED <<op, model>> /\ UNCHANGED slotVars /\ UNCHANGED llm_busy
      /\ slot' = [slot EXCEPT ![c] = s]
      /\ pc' = [pc EXCEPT ![c] = IF op[c] = "generate" THEN "buffers" ELSE "print"]
  BY DEF FindLoaded, LoadReturns, GoesTo, s
<1>3. op[c] \in {"generate", "describe"}
  BY <1>2 DEF CallInv, IsAt, LlmTypeOK
<1>4. LlmTypeOK'
  BY <1>1, <1>2, Raced DEF LlmTypeOK, slotVars, Labels
<1>5. CallInv'
  BY <1>1, <1>2, <1>3 DEF CallInv, IsAt, LlmTypeOK, Contents
<1>6. BusyMeansWork'
  BY <1>2 DEF BusyMeansWork, Generating, IsAt, LlmTypeOK
<1>7. LoadInv'
  <2>1. Loading' \subseteq Loading
    BY <1>2 DEF Loading, Contents, LlmTypeOK
  <2>2. \A d \in Callers : pc'[d] \in Contents => pc[d] \in Contents /\ slot'[d] = slot[d]
    BY <1>2 DEF Contents, LlmTypeOK
  <2>3. QED
    BY <1>2, <2>1, <2>2, Raced DEF LoadInv, Holding, slotVars
<1>8. FilledInv'
  <2>1. SUFFICES ASSUME ~raced', NEW d \in Callers, d # c
                 PROVE  pc'[d] = pc[d] /\ slot'[d] = slot[d]
    BY <1>1, <1>2, Raced DEF FilledInv, slotVars, LlmTypeOK, Contents
  <2>2. QED
    BY <1>2, <2>1 DEF LlmTypeOK
<1>9. DistinctInv' /\ SlotsCoherent'
  BY <1>2, Raced DEF DistinctInv, SlotsCoherent, slotVars
<1>10. QED
  BY <1>4, <1>5, <1>6, <1>7, <1>8, <1>9

\* It does not: the call is the only one that loads from here on, or it is a race.
LEMMA FindMissInv ==
  ASSUME LlmIInv, NEW c \in Callers, FindLoaded(c), Holding(model[c]) = {}, History
  PROVE  LlmIInv'
<1> USE DEF LlmIInv
<1>1. /\ IsAt(c, "find") /\ UNCHANGED <<op, model, slot>> /\ UNCHANGED slotVars
      /\ UNCHANGED llm_busy
      /\ pc' = [pc EXCEPT ![c] = "free"]
  BY DEF FindLoaded, GoesTo
<1>2. LlmTypeOK'
  BY <1>1, Raced DEF LlmTypeOK, slotVars, Labels
<1>3. CallInv'
  BY <1>1 DEF CallInv, IsAt, LlmTypeOK, Contents
<1>4. BusyMeansWork'
  BY <1>1 DEF BusyMeansWork, Generating, IsAt, LlmTypeOK
<1>5. LoadInv'
  <2>1. Loading' \subseteq Loading \cup {c}
    BY <1>1 DEF Loading, LlmTypeOK
  <2>2. \A d \in Callers : pc'[d] \in Contents => pc[d] \in Contents
    BY <1>1 DEF Contents, LlmTypeOK
  <2>3. QED
    BY <1>1, <2>1, <2>2, Raced DEF LoadInv, Holding, slotVars
<1>6. FilledInv'
  BY <1>1, Raced DEF FilledInv, slotVars, LlmTypeOK, Contents
<1>7. DistinctInv' /\ SlotsCoherent'
  BY <1>1, Raced DEF DistinctInv, SlotsCoherent, slotVars
<1>8. QED
  BY <1>2, <1>3, <1>4, <1>5, <1>6, <1>7

\* The slot is one that is not loaded.
LEMMA FindFreeInv ==
  ASSUME LlmIInv, NEW c \in Callers, FindFree(c), History
  PROVE  LlmIInv'
<1> USE DEF LlmIInv
<1>1. CASE model[c] \notin Booted
  <2>1. LoadFails(c) /\ UNCHANGED <<slotVars, llm_busy>> /\ pc[c] = "free"
    BY <1>1 DEF FindFree, IsAt
  <2>2. QED
    BY <2>1, LoadFailsInv
<1>2. CASE model[c] \in Booted
  <2> DEFINE s == First(Unused)
  <2>1. s \in Slots /\ ~loaded[s]
    <3>1. Unused \subseteq Slots /\ Unused # {}
      BY DEF Unused, FindFree
    <3>2. s \in Unused
      BY <3>1, FirstIsMember
    <3>3. QED
      BY <3>2 DEF Unused
  <2> HIDE DEF s
  <2>2. /\ IsAt(c, "free") /\ UNCHANGED <<op, model>> /\ UNCHANGED slotVars /\ UNCHANGED llm_busy
        /\ slot' = [slot EXCEPT ![c] = s]
        /\ pc' = [pc EXCEPT ![c] = "config"]
    BY <1>2 DEF FindFree, GoesTo, s
  <2>3. LlmTypeOK'
    BY <2>1, <2>2, Raced DEF LlmTypeOK, slotVars, Labels, Contents
  <2>4. CallInv'
    BY <1>2, <2>1, <2>2 DEF CallInv, IsAt, LlmTypeOK, Contents
  <2>5. BusyMeansWork'
    BY <2>2 DEF BusyMeansWork, Generating, IsAt, LlmTypeOK
  <2>6. LoadInv'
    <3>1. Loading' = Loading
      BY <2>2 DEF Loading, LlmTypeOK, IsAt, Contents
    <3>2. \A d \in Callers \ {c} : pc'[d] = pc[d] /\ slot'[d] = slot[d]
      BY <2>2 DEF LlmTypeOK
    <3>3. slot'[c] = s
      BY <2>2 DEF LlmTypeOK
    <3>4. QED
      BY <2>1, <2>2, <3>1, <3>2, <3>3, Raced DEF LoadInv, Holding, slotVars
  <2>7. FilledInv'
    BY <2>2, Raced DEF FilledInv, slotVars, LlmTypeOK, Contents
  <2>8. DistinctInv' /\ SlotsCoherent'
    BY <2>2, Raced DEF DistinctInv, SlotsCoherent, slotVars
  <2>9. QED
    BY <2>3, <2>4, <2>5, <2>6, <2>7, <2>8
<1>3. QED
  BY <1>1, <1>2

\* A step that fills one part of the slot and goes on to the next one: nobody
\* else loads, and the slot is not loaded, so that nobody reads it.
LEMMA FillInv ==
  ASSUME LlmIInv, NEW c \in Callers, pc[c] \in Contents, History,
         NEW l \in Contents, pc' = [pc EXCEPT ![c] = l],
         UNCHANGED <<op, model, slot>>, UNCHANGED loaded, UNCHANGED llm_busy,
         LlmTypeOK',
         \A s \in Slots \ {slot[c]} :
           /\ name'[s] = name[s] /\ config'[s] = config[s] /\ state'[s] = state[s]
           /\ tokenizer'[s] = tokenizer[s] /\ describe'[s] = describe[s],
         ~raced =>
           LET m == model[c]
               s == slot[c]
           IN
           /\ l # "config" => config'[s] = m
           /\ l \in {"tokenizer", "describe", "name", "loaded"} => state'[s] = m
           /\ l \in {"describe", "name", "loaded"} => tokenizer'[s] = m
           /\ l \in {"name", "loaded"} => describe'[s] = m
           /\ l = "loaded" => name'[s] = m
  PROVE  LlmIInv'
<1> USE DEF LlmIInv
<1>1. slot[c] \in Slots /\ c \in Loading /\ (~raced => ~loaded[slot[c]])
  BY DEF CallInv, LoadInv, Loading
<1>2. Loading' = Loading
  BY DEF Loading, LlmTypeOK
<1>3. CallInv'
  BY DEF CallInv, IsAt, LlmTypeOK, Contents
<1>4. BusyMeansWork'
  BY DEF BusyMeansWork, Generating, IsAt, LlmTypeOK, Contents
<1>5. LoadInv'
  <2>1. SUFFICES ASSUME ~raced'
                 PROVE  /\ \A a, b \in Loading : a = b
                        /\ \A a \in Loading : Holding(model[a])' = {}
                        /\ \A a \in Callers : pc'[a] \in Contents => ~loaded[slot[a]]
    BY <1>2 DEF LoadInv, Holding
  <2>2. ~raced
    BY <2>1, Raced
  <2>3. \A s \in Slots : loaded[s] => name'[s] = name[s]
    BY <1>1, <2>2
  <2>4. \A a \in Loading : Holding(model[a])' = {}
    BY <2>2, <2>3 DEF LoadInv, Holding
  <2>5. \A a \in Callers : pc'[a] \in Contents => pc[a] \in Contents
    BY DEF LlmTypeOK
  <2>6. QED
    BY <2>2, <2>4, <2>5 DEF LoadInv
<1>6. FilledInv'
  <2>1. SUFFICES ASSUME ~raced', NEW d \in Callers, d # c
                 PROVE  /\ pc'[d] = pc[d] /\ pc[d] \notin Contents
                        /\ pc[d] = "print" => slot[d] # slot[c] /\ slot[d] \in Slots
    BY Raced DEF FilledInv, LlmTypeOK, Contents
  <2>2. ~raced
    BY <2>1, Raced
  <2>3. pc'[d] = pc[d] /\ pc[d] \notin Contents
    BY <1>1, <2>1, <2>2 DEF LlmTypeOK, LoadInv, Loading
  <2>4. pc[d] = "print" => slot[d] # slot[c] /\ slot[d] \in Slots
    BY <1>1, <2>2 DEF FilledInv, CallInv, IsAt
  <2>5. QED
    BY <2>3, <2>4
<1>7. DistinctInv' /\ SlotsCoherent'
  <2>1. ~raced' => \A s \in Slots : loaded[s] => s # slot[c]
    BY <1>1, Raced
  <2>2. QED
    BY <2>1, Raced DEF DistinctInv, SlotsCoherent
<1>8. QED
  BY <1>3, <1>4, <1>5, <1>6, <1>7

LEMMA LoadConfigInv ==
  ASSUME LlmIInv, NEW c \in Callers, LoadConfig(c), History
  PROVE  LlmIInv'
<1>1. slot[c] \in Slots /\ model[c] \in Models
  BY DEF LlmIInv, CallInv, LoadConfig, IsAt, Contents
<1>2. LlmTypeOK'
  BY <1>1, Raced DEF LlmIInv, LlmTypeOK, LoadConfig, GoesTo, Labels, Contents
<1>3. QED
  BY <1>1, <1>2, FillInv DEF LlmIInv, LoadConfig, IsAt, GoesTo, Contents, LlmTypeOK

LEMMA AllocStateInv ==
  ASSUME LlmIInv, NEW c \in Callers, AllocState(c), History
  PROVE  LlmIInv'
<1>1. CASE LoadFails(c) /\ UNCHANGED state
  BY <1>1, LoadFailsInv DEF AllocState, IsAt, Contents, slotVars
<1>2. CASE /\ state' = [state EXCEPT ![slot[c]] = config[slot[c]]]
           /\ GoesTo(c, "tokenizer")
           /\ UNCHANGED <<op, model, slot>>
  <2>1. slot[c] \in Slots
    BY DEF LlmIInv, CallInv, AllocState, IsAt, Contents
  <2>2. LlmTypeOK'
    BY <1>2, <2>1, Raced DEF LlmIInv, LlmTypeOK, AllocState, GoesTo, Labels, Contents
  <2>3. ~raced => config[slot[c]] = model[c]
    BY DEF LlmIInv, FilledInv, AllocState, IsAt, Contents
  <2>4. QED
    BY <1>2, <2>1, <2>2, <2>3, FillInv DEF LlmIInv, AllocState, IsAt, GoesTo, Contents, LlmTypeOK
<1>3. QED
  BY <1>1, <1>2 DEF AllocState

LEMMA BuildTokenizerInv ==
  ASSUME LlmIInv, NEW c \in Callers, BuildTokenizer(c), History
  PROVE  LlmIInv'
<1>1. CASE LoadFails(c) /\ UNCHANGED tokenizer
  BY <1>1, LoadFailsInv DEF BuildTokenizer, IsAt, Contents, slotVars
<1>2. CASE /\ tokenizer' = [tokenizer EXCEPT ![slot[c]] = model[c]]
           /\ GoesTo(c, "describe")
           /\ UNCHANGED <<op, model, slot>>
  <2>1. slot[c] \in Slots /\ model[c] \in Models
    BY DEF LlmIInv, CallInv, BuildTokenizer, IsAt, Contents
  <2>2. LlmTypeOK'
    BY <1>2, <2>1, Raced DEF LlmIInv, LlmTypeOK, BuildTokenizer, GoesTo, Labels, Contents
  <2>3. ~raced => config[slot[c]] = model[c] /\ state[slot[c]] = model[c]
    BY DEF LlmIInv, FilledInv, BuildTokenizer, IsAt, Contents
  <2>4. QED
    BY <1>2, <2>1, <2>2, <2>3, FillInv DEF LlmIInv, BuildTokenizer, IsAt, GoesTo, Contents, LlmTypeOK
<1>3. QED
  BY <1>1, <1>2 DEF BuildTokenizer

LEMMA FormatDescribeInv ==
  ASSUME LlmIInv, NEW c \in Callers, FormatDescribe(c), History
  PROVE  LlmIInv'
<1>1. slot[c] \in Slots
  BY DEF LlmIInv, CallInv, FormatDescribe, IsAt, Contents
<1>2. LlmTypeOK'
  BY <1>1, Raced DEF LlmIInv, LlmTypeOK, FormatDescribe, GoesTo, Labels, Contents
<1>3. ~raced => /\ config[slot[c]] = model[c] /\ state[slot[c]] = model[c]
                /\ tokenizer[slot[c]] = model[c]
  BY DEF LlmIInv, FilledInv, FormatDescribe, IsAt, Contents
<1>4. QED
  BY <1>1, <1>2, <1>3, FillInv DEF LlmIInv, FormatDescribe, IsAt, GoesTo, Contents, LlmTypeOK

LEMMA SetNameInv ==
  ASSUME LlmIInv, NEW c \in Callers, SetName(c), History
  PROVE  LlmIInv'
<1>1. slot[c] \in Slots /\ model[c] \in Models
  BY DEF LlmIInv, CallInv, SetName, IsAt, Contents
<1>2. LlmTypeOK'
  BY <1>1, Raced DEF LlmIInv, LlmTypeOK, SetName, GoesTo, Labels, Contents
<1>3. ~raced => /\ config[slot[c]] = model[c] /\ state[slot[c]] = model[c]
                /\ tokenizer[slot[c]] = model[c] /\ describe[slot[c]] = model[c]
  BY DEF LlmIInv, FilledInv, SetName, IsAt, Contents
<1>4. QED
  BY <1>1, <1>2, <1>3, FillInv DEF LlmIInv, SetName, IsAt, GoesTo, Contents, LlmTypeOK

\* The slot is complete: from here on everyone finds the model in it.
LEMMA SetLoadedInv ==
  ASSUME LlmIInv, NEW c \in Callers, SetLoaded(c), History
  PROVE  LlmIInv'
<1> USE DEF LlmIInv
<1> DEFINE s == slot[c]
<1>1. s \in Slots /\ model[c] \in Booted /\ op[c] \in {"generate", "describe"} /\ c \in Loading
  BY DEF CallInv, SetLoaded, IsAt, Contents, LlmTypeOK, Loading
<1>2. ~raced => /\ name[s] = model[c] /\ config[s] = model[c] /\ state[s] = model[c]
                /\ tokenizer[s] = model[c] /\ describe[s] = model[c]
                /\ \A r \in Slots : loaded[r] => name[r] # model[c]
  BY <1>1 DEF FilledInv, LoadInv, Holding, SetLoaded, IsAt, Contents
<1>3. /\ pc[c] = "loaded"
      /\ pc' = [pc EXCEPT ![c] = IF op[c] = "generate" THEN "buffers" ELSE "print"]
      /\ loaded' = [loaded EXCEPT ![s] = TRUE]
      /\ slot' = [slot EXCEPT ![c] = s] /\ slot' = slot
      /\ UNCHANGED <<op, model, name, config, state, tokenizer, describe, llm_busy>>
  BY DEF SetLoaded, LoadReturns, IsAt, GoesTo, LlmTypeOK
<1> HIDE DEF s
<1>4. LlmTypeOK'
  BY <1>1, <1>3, Raced DEF LlmTypeOK, Labels
<1>5. CallInv'
  <2>1. s = slot[c]
    BY DEF s
  <2>2. QED
    BY <1>1, <1>3, <2>1 DEF CallInv, IsAt, LlmTypeOK, Contents
<1>6. BusyMeansWork'
  BY <1>3 DEF BusyMeansWork, Generating, IsAt, LlmTypeOK
<1>7. LoadInv'
  <2>1. SUFFICES ASSUME ~raced'
                 PROVE  Loading' = {}
    BY DEF LoadInv, Loading
  <2>2. \A d \in Loading : d = c
    BY <1>1, <2>1, Raced DEF LoadInv
  <2>3. \A d \in Callers \ {c} : pc'[d] = pc[d] /\ d \notin Loading
    BY <1>3, <2>2 DEF LlmTypeOK
  <2>4. QED
    BY <1>1, <1>3, <2>3 DEF Loading, LlmTypeOK, Contents
<1>8. FilledInv'
  <2>1. SUFFICES ASSUME ~raced', NEW d \in Callers
                 PROVE  /\ pc'[d] \notin Contents
                        /\ pc'[d] = "print" => loaded'[slot[d]] /\ name[slot[d]] = model[d]
    BY <1>3 DEF FilledInv, Contents
  <2>2. ~raced
    BY <2>1, Raced
  <2>3. CASE d = c
    <3>1. s = slot[c]
      BY DEF s
    <3>2. QED
      BY <1>1, <1>2, <1>3, <2>2, <2>3, <3>1 DEF LlmTypeOK, Contents
  <2>4. CASE d # c
    <3>1. pc'[d] = pc[d] /\ d \notin Loading
      BY <1>1, <1>3, <2>2, <2>4 DEF LoadInv, LlmTypeOK
    <3>2. pc[d] = "print" => slot[d] \in Slots /\ loaded[slot[d]] /\ name[slot[d]] = model[d]
      BY <2>2 DEF FilledInv, CallInv, IsAt
    <3>3. QED
      BY <1>3, <3>1, <3>2 DEF Loading, LlmTypeOK
  <2>5. QED
    BY <2>3, <2>4
<1>9. DistinctInv' /\ SlotsCoherent'
  <2>1. SUFFICES ASSUME ~raced'
                 PROVE  DistinctInv' /\ SlotsCoherent'
    BY DEF DistinctInv, SlotsCoherent
  <2>2. ~raced
    BY <2>1, Raced
  <2>3. \A r \in Slots : loaded'[r] <=> loaded[r] \/ r = s
    BY <1>1, <1>3 DEF LlmTypeOK
  <2>4. QED
    BY <1>1, <1>2, <1>3, <2>2, <2>3 DEF DistinctInv, SlotsCoherent
<1>10. QED
  BY <1>4, <1>5, <1>6, <1>7, <1>8, <1>9

LEMMA LoadStepInv ==
  ASSUME LlmIInv, NEW c \in Callers, Load(c), History
  PROVE  LlmIInv'
<1>1. CASE NoFreeSlot(c)
  BY <1>1, LoadFailsInv DEF NoFreeSlot, IsAt
<1>2. QED
  BY <1>1, FindHitInv, FindMissInv, FindFreeInv, LoadConfigInv, AllocStateInv,
     BuildTokenizerInv, FormatDescribeInv, SetNameInv, SetLoadedInv DEF Load

LEMMA LlmStutterInv ==
  ASSUME LlmIInv, UNCHANGED llm
  PROVE  LlmIInv'
BY DEF llm, slotVars, callVars, LlmIInv, LlmTypeOK, CallInv, LoadInv, FilledInv, DistinctInv,
       BusyMeansWork, SlotsCoherent, Generating, Loading, Holding, IsAt

LEMMA LlmNextInv == LlmIInv /\ [LlmNext]_llm => LlmIInv'
BY CallsInv, SetBusyInv, LoadStepInv, RunInv, ReturnInv, LlmStutterInv DEF LlmNext, Step

-----------------------------------------------------------------------------
(* The theorems.                                                           *)

\* The invariant holds in every state.
THEOREM LlmInvariance == LlmSpec => []LlmIInv
BY LlmInitInv, LlmNextInv, PTL DEF LlmSpec

\* llm_generate clears llm_busy on every path; and a slot that load_model has
\* marked loaded holds one model, whichever loads failed before, so that
\* llm_describe tells about the model asked for.  Overlapping loads are excepted.
THEOREM SlotsAreTrue == LlmSpec => []LlmInv
<1>1. LlmIInv => DescribeTellsTruth
  BY DEF LlmIInv, CallInv, FilledInv, SlotsCoherent, DescribeTellsTruth, IsAt
<1>2. LlmIInv => LlmInv
  BY <1>1 DEF LlmIInv, LlmInv
<1>3. QED
  BY <1>2, LlmInvariance, PTL

\* "both slots taken (only 2 models exist anyway)" (llm.c:458): load_model finds a
\* free slot for each of the ISO's models, because no model takes two.
THEOREM RoomIsEnough == LlmSpec => []RoomForEveryModel
<1>1. LlmIInv => RoomForEveryModel
  <2>1. SUFFICES ASSUME LlmIInv, NEW c \in Callers, IsAt(c, "free"), model[c] \in Booted, ~raced,
                        Unused = {}
                 PROVE  FALSE
    BY DEF RoomForEveryModel
  <2>2. \A s \in Slots : loaded[s]
    BY <2>1 DEF Unused
  <2>3. \A s \in Slots : name[s] \in Booted \ {model[c]}
    BY <2>1, <2>2 DEF LlmIInv, DistinctInv, LoadInv, Loading, Holding, IsAt
  <2>4. name \in [Slots -> Booted \ {model[c]}]
    BY <2>1, <2>3 DEF LlmIInv, LlmTypeOK
  <2>5. \A r, s \in Slots : name[r] = name[s] => r = s
    BY <2>1, <2>2 DEF LlmIInv, DistinctInv
  <2>6. QED
    BY <2>1, <2>4, <2>5, Pigeons
<1>2. QED
  BY <1>1, LlmInvariance, PTL
=============================================================================
