-------------------------------- MODULE Llm --------------------------------
(***************************************************************************)
(* Access to the models (llm.c): the busy flag of llm_generate, and the    *)
(* slots that load_model fills for llm_generate and llm_describe.  The     *)
(* shell thread and the llm-bot thread of chat.c call both without a lock, *)
(* and can be preempted between any two statements.                        *)
(*                                                                         *)
(* A field of a slot is the model its contents come from.  What a model    *)
(* computes is abstracted to "it runs"; qwen3 (qwen.c) is not one of       *)
(* Models: it shares the busy flag and no slot.                            *)
(***************************************************************************)
EXTENDS Naturals, FiniteSets

CONSTANTS Callers,
          Describers,   \* the callers of llm_describe (the shell)
          Models,       \* the names that callers ask for
          Booted,       \* the models the ISO was built with
          NumSlots,     \* the length of slots[]
          NULL

ASSUME LlmAssumption == /\ Describers \subseteq Callers
                        /\ Booted \subseteq Models
                        /\ NULL \notin Models \cup Nat \cup {"generate", "describe"}
                        /\ NumSlots \in Nat

\* Threads are finitely many, and slots[] has room for the models of the ISO.
ASSUME RoomAssumption == /\ IsFiniteSet(Callers) /\ IsFiniteSet(Booted)
                         /\ Cardinality(Booted) <= NumSlots

Slots == 1..NumSlots

VARIABLES
  name, loaded, config, state, tokenizer, describe,   \* ModelSlot, per slot
  llm_busy,
  pc,     \* where the caller is
  op,     \* llm_generate or llm_describe
  model,  \* its argument
  slot,   \* load_model's slot
  raced   \* history: two callers have been past load_model's search at once

slotVars == <<name, loaded, config, state, tokenizer, describe>>
callVars == <<pc, op, model, slot>>
llm == <<slotVars, llm_busy, callVars, raced>>

Contents == {"config", "state", "tokenizer", "describe", "name", "loaded"}
Labels == {"idle", "busy", "find", "free", "buffers", "run", "done", "print"} \cup Contents

LlmInit ==
  /\ name = [s \in Slots |-> NULL] /\ loaded = [s \in Slots |-> FALSE]
  /\ config = [s \in Slots |-> NULL] /\ state = [s \in Slots |-> NULL]
  /\ tokenizer = [s \in Slots |-> NULL] /\ describe = [s \in Slots |-> NULL]
  /\ llm_busy = FALSE
  /\ pc = [c \in Callers |-> "idle"]
  /\ op = [c \in Callers |-> NULL]
  /\ model = [c \in Callers |-> NULL]
  /\ slot = [c \in Callers |-> NULL]
  /\ raced = FALSE

IsAt(c, label) == pc[c] = label
GoesTo(c, label) == pc' = [pc EXCEPT ![c] = label]

\* The call is over and its locals are gone.
Return(c) ==
  /\ GoesTo(c, "idle")
  /\ op' = [op EXCEPT ![c] = NULL]
  /\ model' = [model EXCEPT ![c] = NULL]
  /\ slot' = [slot EXCEPT ![c] = NULL]

-----------------------------------------------------------------------------
(* llm_generate and llm_describe.                                          *)

Describe(c, m) ==
  /\ IsAt(c, "idle")
  /\ c \in Describers
  /\ GoesTo(c, "find")
  /\ op' = [op EXCEPT ![c] = "describe"]
  /\ model' = [model EXCEPT ![c] = m]
  /\ UNCHANGED <<slotVars, llm_busy, slot>>

\* The test of llm_busy passes; otherwise the call is over (LLM_ERR_BUSY).
Generate(c, m) ==
  /\ IsAt(c, "idle")
  /\ ~llm_busy
  /\ GoesTo(c, "busy")
  /\ op' = [op EXCEPT ![c] = "generate"]
  /\ model' = [model EXCEPT ![c] = m]
  /\ UNCHANGED <<slotVars, llm_busy, slot>>

SetBusy(c) ==
  /\ IsAt(c, "busy")
  /\ llm_busy' = TRUE
  /\ GoesTo(c, "find")
  /\ UNCHANGED <<slotVars, op, model, slot>>

\* load_model returns NULL: llm_generate goes on to clear llm_busy.
LoadFails(c) ==
  IF op[c] = "generate"
  THEN GoesTo(c, "done") /\ UNCHANGED <<op, model, slot>>
  ELSE Return(c)

LoadReturns(c, s) ==
  /\ slot' = [slot EXCEPT ![c] = s]
  /\ GoesTo(c, IF op[c] = "generate" THEN "buffers" ELSE "print")
  /\ UNCHANGED <<op, model>>

\* llama_generate's mallocs; when one fails the other is freed.
Buffers(c) ==
  /\ IsAt(c, "buffers")
  /\ \/ GoesTo(c, "run")
     \/ GoesTo(c, "done")
  /\ UNCHANGED <<slotVars, llm_busy, op, model, slot>>

\* The last token: the loop runs at most seq_len times and yields in between.
RunEnds(c) ==
  /\ IsAt(c, "run")
  /\ GoesTo(c, "done")
  /\ UNCHANGED <<slotVars, llm_busy, op, model, slot>>

\* Mutant: the flag is not cleared.
ClearBusy_Forgotten(c) ==
  /\ IsAt(c, "done")
  /\ Return(c)
  /\ UNCHANGED <<slotVars, llm_busy>>

ClearBusy(c) ==
  /\ IsAt(c, "done")
  /\ llm_busy' = FALSE
  /\ Return(c)
  /\ UNCHANGED slotVars

\* The shell prints the description it was given a pointer to.
ShowDescription(c) ==
  /\ IsAt(c, "print")
  /\ Return(c)
  /\ UNCHANGED <<slotVars, llm_busy>>

-----------------------------------------------------------------------------
(* load_model                                                              *)

Holding(m) == {s \in Slots : loaded[s] /\ name[s] = m}

\* Mutant: the first slot is taken whatever it holds.
Unused_First == Slots

Unused == {s \in Slots : ~loaded[s]}

First(S) == CHOOSE s \in S : \A r \in S : s <= r

FindLoaded(c) ==
  /\ IsAt(c, "find")
  /\ IF Holding(model[c]) # {}
     THEN LoadReturns(c, First(Holding(model[c])))
     ELSE GoesTo(c, "free") /\ UNCHANGED <<op, model, slot>>
  /\ UNCHANGED <<slotVars, llm_busy>>

NoFreeSlot(c) ==
  /\ IsAt(c, "free")
  /\ Unused = {}
  /\ LoadFails(c)
  /\ UNCHANGED <<slotVars, llm_busy>>

\* Mutant: the slot is claimed before it is known that the load succeeds.
FindFree_Claims(c) ==
  /\ IsAt(c, "free")
  /\ Unused # {}
  /\ loaded' = [loaded EXCEPT ![First(Unused)] = TRUE]
  /\ IF model[c] \in Booted
     THEN /\ slot' = [slot EXCEPT ![c] = First(Unused)]
          /\ GoesTo(c, "config")
          /\ UNCHANGED <<op, model>>
     ELSE LoadFails(c)
  /\ UNCHANGED <<name, config, state, tokenizer, describe, llm_busy>>

\* A free slot, and the two modules of the ISO, or the load fails.
FindFree(c) ==
  /\ IsAt(c, "free")
  /\ Unused # {}
  /\ IF model[c] \in Booted
     THEN /\ slot' = [slot EXCEPT ![c] = First(Unused)]
          /\ GoesTo(c, "config")
          /\ UNCHANGED <<op, model>>
     ELSE LoadFails(c)
  /\ UNCHANGED <<slotVars, llm_busy>>

\* config and weights
LoadConfig(c) ==
  /\ IsAt(c, "config")
  /\ config' = [config EXCEPT ![slot[c]] = model[c]]
  /\ GoesTo(c, "state")
  /\ UNCHANGED <<name, loaded, state, tokenizer, describe, llm_busy, op, model, slot>>

\* alloc_run_state, sized by the configuration, may run out of memory.
AllocState(c) ==
  /\ IsAt(c, "state")
  /\ \/ /\ state' = [state EXCEPT ![slot[c]] = config[slot[c]]]
        /\ GoesTo(c, "tokenizer")
        /\ UNCHANGED <<op, model, slot>>
     \/ LoadFails(c) /\ UNCHANGED state
  /\ UNCHANGED <<name, loaded, config, tokenizer, describe, llm_busy>>

BuildTokenizer(c) ==
  /\ IsAt(c, "tokenizer")
  /\ \/ /\ tokenizer' = [tokenizer EXCEPT ![slot[c]] = model[c]]
        /\ GoesTo(c, "describe")
        /\ UNCHANGED <<op, model, slot>>
     \/ LoadFails(c) /\ UNCHANGED tokenizer
  /\ UNCHANGED <<name, loaded, config, state, describe, llm_busy>>

FormatDescribe(c) ==
  /\ IsAt(c, "describe")
  /\ describe' = [describe EXCEPT ![slot[c]] = config[slot[c]]]
  /\ GoesTo(c, "name")
  /\ UNCHANGED <<name, loaded, config, state, tokenizer, llm_busy, op, model, slot>>

SetName(c) ==
  /\ IsAt(c, "name")
  /\ name' = [name EXCEPT ![slot[c]] = model[c]]
  /\ GoesTo(c, "loaded")
  /\ UNCHANGED <<loaded, config, state, tokenizer, describe, llm_busy, op, model, slot>>

SetLoaded(c) ==
  /\ IsAt(c, "loaded")
  /\ loaded' = [loaded EXCEPT ![slot[c]] = TRUE]
  /\ LoadReturns(c, slot[c])
  /\ UNCHANGED <<name, config, state, tokenizer, describe, llm_busy>>

-----------------------------------------------------------------------------
Load(c) ==
  \/ FindLoaded(c)
  \/ NoFreeSlot(c)
  \/ FindFree(c)
  \/ LoadConfig(c)
  \/ AllocState(c)
  \/ BuildTokenizer(c)
  \/ FormatDescribe(c)
  \/ SetName(c)
  \/ SetLoaded(c)

\* The callers that search a free slot or fill one.
Loading == {c \in Callers : pc[c] \in Contents \cup {"free"}}

History == raced' = (raced \/ Cardinality(Loading') > 1)

Call(c) ==
  /\ \E m \in Models : Describe(c, m) \/ Generate(c, m)
  /\ History

Step(c) ==
  /\ \/ SetBusy(c)
     \/ Load(c)
     \/ Buffers(c)
     \/ RunEnds(c)
     \/ ClearBusy(c)
     \/ ShowDescription(c)
  /\ History

LlmNext == \E c \in Callers : Call(c) \/ Step(c)

LlmSpec == LlmInit /\ [][LlmNext]_llm

\* Every ready thread gets the CPU, and a generation is at most seq_len tokens.
LlmLiveSpec == LlmSpec /\ \A c \in Callers : WF_llm(Step(c))
-----------------------------------------------------------------------------
(* Properties.                                                             *)

\* The type of every variable.
LlmTypeOK ==
  /\ loaded \in [Slots -> BOOLEAN]
  /\ \A f \in {name, config, state, tokenizer, describe} :
       f \in [Slots -> Models \cup {NULL}]
  /\ llm_busy \in BOOLEAN
  /\ pc \in [Callers -> Labels]
  /\ op \in [Callers -> {"generate", "describe", NULL}]
  /\ model \in [Callers -> Models \cup {NULL}]
  /\ slot \in [Callers -> Slots \cup {NULL}]
  /\ raced \in BOOLEAN

Generating == {c \in Callers : op[c] = "generate" /\ ~IsAt(c, "busy")}

\* llm_busy never outlives the generation that set it, on any error path.
BusyMeansWork == llm_busy => Generating # {}

\* llm_busy does not stay set: whoever is refused can get through later.
BusyEnds == llm_busy ~> ~llm_busy

\* "one story at a time" (chat.c:422): two generations never run together.
OneStory == Cardinality(Generating) <= 1

\* What a slot says of itself is true of all its parts: a generation uses the
\* weights, the buffers and the tokenizer of the model it was asked for, whichever
\* step of an earlier load failed.  Only loads that overlap mix two models.
SlotsCoherent ==
  \A s \in Slots :
    loaded[s] /\ ~raced =>
      /\ config[s] = name[s] /\ state[s] = name[s]
      /\ tokenizer[s] = name[s] /\ describe[s] = name[s]

\* "Human-readable info about a model" (llm.h:22): llm_describe tells about the
\* model that was asked for, also while a generation runs.
DescribeTellsTruth ==
  \A c \in Callers : IsAt(c, "print") /\ ~raced => describe[slot[c]] = model[c]

\* The variables have their types, llm_busy means work, and the slots are what
\* they say they are.
LlmInv == LlmTypeOK /\ BusyMeansWork /\ SlotsCoherent /\ DescribeTellsTruth

\* "both slots taken (only 2 models exist anyway)" (llm.c:458): a model that the
\* ISO has is never refused for want of a slot.
RoomForEveryModel ==
  \A c \in Callers :
    IsAt(c, "free") /\ model[c] \in Booted /\ ~raced => Unused # {}
=============================================================================
