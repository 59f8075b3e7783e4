---------------------------- MODULE ReCentAutoma ----------------------------
(***************************************************************************)
(* The ReCENT agent (_recent_automa.py): a GraphAutoma whose workers are   *)
(* the steps of an agent loop.  observe routes to select_tools, together   *)
(* with compress_memory, or to finalize_answer; select_tools adds a worker *)
(* per tool call and one that collects their results, whose callback       *)
(* removes them all again, and the loop goes back to observe.              *)
(* The scheduler is GraphAutoma's; here are the bodies of the workers.     *)
(***************************************************************************)
EXTENDS GraphAutoma, Integers

CONSTANTS
  Initialize, Observe, Select, Compress, Finalize,  \* the workers' keys
  ToolKeys,      \* keys of tool workers, "tool-<name>-<id>"
  CollectKeys,   \* keys of collecting workers, a new one each time
  Selectable,       \* the sequences of tool calls the model may select (and match)
  MaxIteration,  \* stop_condition.max_iteration, -1 for no limit
  MaxNoTool      \* stop_condition.max_consecutive_no_tool_selected

Steps == {Initialize, Observe, Select, Compress, Finalize}

Adding(key, on) == [op |-> "add", key |-> key, on |-> on]
Removing(key) == [op |-> "remove", key |-> key, on |-> {}]

\* The steps are five methods; a key "tool-<..." or "collect_results-<..." is no
\* method's name.  The program's changes include those that select_tools and the cleanup
\* callback ask for.
ASSUME ReCentAssumption ==
  /\ Keys = Steps \union ToolKeys \union CollectKeys
  /\ IsInjective(<<Initialize, Observe, Select, Compress, Finalize>>)
  /\ Steps \cap ToolKeys = {} /\ Steps \cap CollectKeys = {} /\ ToolKeys \cap CollectKeys = {}
  /\ \A t \in ToolKeys : Adding(t, {}) \in Changes
  /\ \A k \in CollectKeys, S \in SUBSET ToolKeys : Adding(k, {Compress} \union S) \in Changes
  /\ \A k \in ToolKeys \union CollectKeys : Removing(k) \in Changes
  /\ InitWorkers = Steps /\ InitDeps = [k \in Keys |-> {}]
  /\ StartKeys = {Initialize} /\ OutputKeys = {Finalize}
  /\ Selectable \subseteq Seq(ToolKeys)
  /\ MaxIteration \in Nat \union {-1} /\ MaxNoTool \in Nat

VARIABLES
  iterations,  \* iteration_cnt, in the local space of observe
  noTool,      \* no_tool_selected_cnt, in the local space of select_tools
  memory,      \* what was pushed to the memory since the last observation
  calls,       \* collecting worker -> the tool calls it was made for
  \* history
  owed,        \* tools selected whose results are not in the memory
  answers,     \* answers since the last goal was created (2: two or more)
  streak       \* selections without a tool since the last one with a tool

localVars == <<iterations, noTool>>
recentVars == <<localVars, memory, calls, owed, answers, streak>>
allVars == <<vars, recentVars>>

MemoryEntries == {"goal", "observation", "calls", "results", "summary", "answer"}

ReCentTypeOK ==
  /\ TypeOK
  /\ iterations \in Nat /\ noTool \in Nat /\ streak \in Nat /\ answers \in 0..2
  /\ memory \in Seq(MemoryEntries) /\ owed \subseteq ToolKeys
  /\ calls \in [CollectKeys -> SUBSET ToolKeys]

ReCentInit ==
  /\ Init
  /\ iterations = 0 /\ noTool = 0 /\ streak = 0 /\ answers = 0
  /\ memory = <<>> /\ owed = {}
  /\ calls = [k \in CollectKeys |-> {}]

-----------------------------------------------------------------------------
\* The body of a worker runs to its end: it asked for these ferries and changes.
Body(i, key, targets, changes, status) ==
  /\ Running(i) /\ tasks[i].key = key
  /\ ferries' = ferries \o targets /\ topology' = topology \o changes
  /\ tasks' = [tasks EXCEPT ![i].status = status]
  /\ UNCHANGED indices /\ WorkerUnchanged

Returns(i, key, targets) == Body(i, key, targets, <<>>, "returned")
Raises(i, key) == Body(i, key, <<>>, <<>>, "raised")

Push(entry) == memory' = Append(memory, entry)

\* A goal that is empty, or missing because the arguments were cleared, raises.
InitializeTaskGoal(i) ==
  \/ /\ Initialize \in FaultyKeys \/ tasks[i].from = 0
     /\ Raises(i, Initialize) /\ UNCHANGED recentVars
  \/ /\ tasks[i].from # 0 /\ Returns(i, Initialize, <<Observe>>)
     /\ Push("goal") /\ answers' = 0
     /\ UNCHANGED <<localVars, calls, owed, streak>>

OverLimit == MaxIteration >= 0 /\ iterations' > MaxIteration

\* Mutant: the iterations are not counted.
ObserveUncounted(i) ==
  /\ UNCHANGED iterations
  /\ memory' = <<"observation">>
  /\ Returns(i, Observe, <<Finalize>>) \/ Returns(i, Observe, <<Select, Compress>>)
  /\ UNCHANGED <<noTool, calls, owed, answers, streak>>

\* Route by the goal's status as the model sees it; a model that fails counts
\* as "not achieved".
ObserveGoal(i) ==
  /\ iterations' = iterations + 1
  /\ \/ /\ OverLimit
        /\ Returns(i, Observe, <<Finalize>>) /\ UNCHANGED memory
     \/ /\ ~ OverLimit
        /\ \/ Returns(i, Observe, <<Finalize>>)
           \/ Returns(i, Observe, <<Select, Compress>>)
        /\ memory' = <<"observation">>
  /\ UNCHANGED <<noTool, calls, owed, answers, streak>>

\* A worker for each call, and one that waits for them and for the compression.
Additions(chosen, new) ==
  Append([n \in DOMAIN chosen |-> Adding(chosen[n], {})],
         Adding(new, {Compress} \union ToSet(chosen)))

\* The tool workers run in the next step.
SelectsCalls(i, chosen) ==
  LET new == CHOOSE k \in CollectKeys \ workers : TRUE
  IN  /\ CollectKeys \ workers # {}
      /\ Body(i, Select, chosen, Additions(chosen, new), "returned")
      /\ calls' = [calls EXCEPT ![new] = ToSet(chosen)]
      /\ owed' = ToSet(chosen) /\ streak' = 0
      /\ UNCHANGED <<localVars, answers>>

\* Mutant: at the limit the loop just stops.
SelectsNothingAndStops(i) ==
  /\ Returns(i, Select, IF noTool + 1 < MaxNoTool THEN <<Observe>> ELSE <<>>)
  /\ noTool' = noTool + 1 /\ streak' = streak + 1
  /\ UNCHANGED <<iterations, memory, calls, owed, answers>>

\* Another try, or the answer: noTool is never set back to 0.
SelectsNothing(i) ==
  /\ Returns(i, Select, IF noTool + 1 < MaxNoTool THEN <<Observe>> ELSE <<Finalize>>)
  /\ noTool' = noTool + 1 /\ streak' = streak + 1
  /\ UNCHANGED <<iterations, memory, calls, owed, answers>>

\* Mutant: the calls are pushed at once, next to the compression.
SelectPushes(i) ==
  \/ \E chosen \in Selectable \ {<<>>} : SelectsCalls(i, chosen) /\ Push("calls")
  \/ SelectsNothing(i)

\* Mutant: back to observe, whether or not tools were selected.
SelectAlsoObserves(i) ==
  \/ \E chosen \in Selectable \ {<<>>} :
       /\ Body(i, Select, Append(chosen, Observe),
               [n \in DOMAIN chosen |-> Adding(chosen[n], {})], "returned")
       /\ owed' = ToSet(chosen) /\ streak' = 0
       /\ UNCHANGED <<localVars, memory, calls, answers>>
  \/ SelectsNothing(i)

SelectTools(i) ==
  \/ \E chosen \in Selectable \ {<<>>} : SelectsCalls(i, chosen) /\ UNCHANGED memory
  \/ SelectsNothing(i)

CompressMemory(i) ==
  /\ Returns(i, Compress, <<>>)
  /\ Push("summary") \/ UNCHANGED memory
  /\ UNCHANGED <<localVars, calls, owed, answers, streak>>

ToolRuns(i) ==
  /\ \E key \in ToolKeys : Returns(i, key, <<>>) \/ (key \in FaultyKeys /\ Raises(i, key))
  /\ UNCHANGED recentVars

\* The tool workers that the collecting worker waited for, then itself.
Removals(key) ==
  Append(SetToSeq({Removing(k) : k \in deps[key] \intersect ToolKeys \intersect workers}),
         Removing(key))

\* Mutant: the cleanup callback forgets the collecting worker itself.
CollectStays(i) ==
  /\ \E key \in CollectKeys :
       /\ Body(i, key, <<Observe>>,
               SetToSeq({Removing(k) : k \in deps[key] \intersect ToolKeys \intersect workers}),
               "returned")
       /\ memory' = memory \o <<"calls", "results">> /\ owed' = owed \ calls[key]
  /\ UNCHANGED <<localVars, calls, answers, streak>>

\* Mutant: a list of messages is pushed as if it were one message.
CollectNested(i) ==
  /\ \E key \in CollectKeys :
       /\ Body(i, key, <<Observe>>, Removals(key), "returned")
       /\ memory' = Append(memory, <<"calls", "results">>) /\ owed' = owed \ calls[key]
  /\ UNCHANGED <<localVars, calls, answers, streak>>

\* _collect_tools_results, then CollectResultsCleanupCallback.on_worker_end.
CollectResults(i) ==
  /\ \E key \in CollectKeys :
       /\ Body(i, key, <<Observe>>, Removals(key), "returned")
       /\ memory' = memory \o <<"calls", "results">> /\ owed' = owed \ calls[key]
  /\ UNCHANGED <<localVars, calls, answers, streak>>

FinalizeAnswer(i) ==
  /\ Returns(i, Finalize, <<>>)
  /\ Push("answer") /\ answers' = IF answers = 2 THEN 2 ELSE answers + 1
  /\ UNCHANGED <<localVars, calls, owed, streak>>

-----------------------------------------------------------------------------
\* _clear_run_level_state empties the local space of every worker.
RunEnds ==
  /\ Finish \/ Fail
  /\ iterations' = 0 /\ noTool' = 0 /\ streak' = 0
  /\ UNCHANGED <<memory, calls, owed, answers>>

Drives ==
  /\ \/ StartTask \/ Await \/ AllDone \/ ApplyNextChange \/ ChangesApplied
     \/ CollectTask \/ Validate \/ NextStep
  /\ UNCHANGED recentVars

WorkerRuns ==
  \E i \in DOMAIN tasks :
    \/ InitializeTaskGoal(i) \/ ObserveGoal(i) \/ SelectTools(i) \/ CompressMemory(i)
    \/ ToolRuns(i) \/ CollectResults(i) \/ FinalizeAnswer(i)

ReCentNext ==
  \/ RunEnds \/ Drives \/ WorkerRuns
  \/ Arun({}) /\ UNCHANGED recentVars

ReCentSpec == ReCentInit /\ [][ReCentNext]_allVars

\* The loop runs, and models and tools answer or fail in the end.
ReCentFairSpec == ReCentSpec /\ WF_allVars(RunEnds \/ Drives \/ WorkerRuns)

-----------------------------------------------------------------------------
At(key) == \E i \in DOMAIN tasks : Running(i) /\ tasks[i].key = key

\* The one-time workers are gone when the loop is back at observe.
ToolsGone == At(Observe) => workers = Steps

\* An observation, and an answer, is made of a memory with the results of every
\* tool that was selected.
EveryCallAnswered == At(Observe) \/ At(Finalize) => owed = {}

\* "to ensure that compression is performed based on the memory prior to tool
\* selection" (_recent_automa.py:461): a summary comes right after an observation.
SummaryBeforeCalls ==
  \A n \in DOMAIN memory : memory[n] = "summary" => n > 1 /\ memory[n-1] = "observation"

\* A run that is done has pushed and returned one answer to the goal of this run.
OneAnswerPerRun == pc = "idle" /\ outcome = "done" => answers = 1 /\ result = runs

-----------------------------------------------------------------------------
(***************************************************************************)
(* What makes these inductive (ReCentAutoma_proofs): in a run that has not *)
(* failed, the tasks of a dynamic step keep in lockstep with the workers   *)
(* kicked off for it, and the step is one of the agent's rounds.           *)
(***************************************************************************)
KickedOff == {kickoff[j].key : j \in DOMAIN kickoff}
Finished  == {kickoff[j].key : j \in {i \in DOMAIN kickoff : kickoff[i].done}}
Returned(key) == \E i \in DOMAIN tasks : tasks[i].key = key /\ tasks[i].status = "returned"

\* One task for each kickoff, in order, each with the arguments of this run.
Lockstep ==
  /\ pc \in {"driving", "waiting", "changing", "collecting", "deciding"}
  /\ inputs = runs
  /\ \A i, j \in DOMAIN kickoff : kickoff[i].key = kickoff[j].key => i = j
  /\ \A j \in DOMAIN kickoff :
       kickoff[j].done <=> pc = "deciding" \/ (pc = "collecting" /\ j < cursor)
  /\ Len(tasks) = IF pc = "driving" THEN cursor - 1 ELSE Len(kickoff)
  /\ pc = "driving" => cursor <= Len(kickoff) + 1 /\ ferries = <<>> /\ topology = <<>>
  /\ \A i \in DOMAIN tasks :
       /\ tasks[i].key = kickoff[i].key /\ tasks[i].from = runs
       /\ tasks[i].status \in {"running", "returned"}
       /\ pc = "driving" => tasks[i].status = "running"
       /\ pc \notin {"driving", "waiting"} => tasks[i].status = "returned"

\* No tool call is under way.
Plain == workers = Steps /\ topology = <<>> /\ owed = {}

GoalRound ==
  /\ Plain /\ KickedOff = {Initialize} /\ outputKeys = {}
  /\ ferries = IF Returned(Initialize) THEN <<Observe>> ELSE <<>>
  /\ Returned(Initialize) => answers = 0

ObserveRound ==
  /\ Plain /\ KickedOff = {Observe} /\ outputKeys = {} /\ answers = 0
  /\ IF Returned(Observe)
     THEN \/ ferries = <<Finalize>>
          \/ ferries = <<Select, Compress>> /\ memory = <<"observation">>
     ELSE ferries = <<>>

Selecting ==
  /\ KickedOff = {Select, Compress} /\ outputKeys = {} /\ answers = 0
  /\ ~ Returned(Compress) => memory = <<"observation">>

\* No tool is selected, or not yet.
SelectRound ==
  /\ Selecting /\ Plain
  /\ IF Returned(Select) THEN ferries \in {<<Observe>>, <<Finalize>>} ELSE ferries = <<>>

\* The workers whose addition or removal was asked for: those of the changes
\* numbered in S.
Touched(S) == {topology[m].key : m \in S}

\* The workers of the selected tools are added, and the one that waits for them.
CallsFor(new) ==
  /\ calls[new] = owed /\ topology = Additions(ferries, new)
  /\ pc = "waiting" => workers = Steps
  /\ pc = "changing" =>
       /\ cursor <= Len(topology) + 1
       /\ workers = Steps \union Touched(1..(cursor-1))
       /\ \A m, n \in 1..(cursor-1) : topology[m].key = topology[n].key => m = n
  /\ pc \in {"collecting", "deciding"} =>
       /\ workers = Steps \union owed \union {new}
       /\ \A m, n \in DOMAIN ferries : ferries[m] = ferries[n] => m = n
  /\ new \in workers => deps[new] = {Compress} \union owed /\ triggers[new] = deps[new] \ Finished

\* Tools are selected.
CallsRound ==
  /\ Selecting /\ Returned(Select) /\ pc # "driving"
  /\ ferries \in Seq(ToolKeys) \ {<<>>} /\ owed = ToSet(ferries)
  /\ \E new \in CollectKeys : CallsFor(new)

\* The tools run; the worker that collects their results waits for them.
ToolRound ==
  /\ KickedOff = owed /\ owed \subseteq ToolKeys /\ owed # {}
  /\ ferries = <<>> /\ topology = <<>> /\ outputKeys = {} /\ answers = 0
  /\ \E new \in CollectKeys :
       /\ calls[new] = owed /\ workers = Steps \union owed \union {new}
       /\ deps[new] = {Compress} \union owed /\ triggers[new] = owed \ Finished

\* The results are collected; then the one-time workers are removed again.
CollectRound ==
  /\ outputKeys = {} /\ answers = 0
  /\ \E new \in CollectKeys :
       /\ KickedOff = {new}
       /\ IF Returned(new)
          THEN /\ ferries = <<Observe>> /\ owed = {}
               /\ \A m \in DOMAIN topology :
                    topology[m].op = "remove" /\ topology[m].key \in ToolKeys \union CollectKeys
               /\ \A m, n \in DOMAIN topology : topology[m].key = topology[n].key => m = n
               /\ pc = "waiting" => workers = Steps \union Touched(DOMAIN topology)
               /\ pc = "changing" =>
                    /\ cursor <= Len(topology) + 1
                    /\ workers = Steps \union Touched(cursor..Len(topology))
               /\ pc \in {"collecting", "deciding"} => workers = Steps
          ELSE /\ ferries = <<>> /\ topology = <<>>
               /\ calls[new] = owed /\ owed \subseteq ToolKeys
               /\ workers = Steps \union owed \union {new}
               /\ deps[new] = {Compress} \union owed

AnswerRound ==
  /\ Plain /\ KickedOff = {Finalize} /\ ferries = <<>>
  /\ outputKeys = IF pc = "driving" /\ cursor = 1 THEN {} ELSE {Finalize}
  /\ answers = IF Returned(Finalize) THEN 1 ELSE 0
  /\ Finished = {Finalize} => output[Finalize] = runs

\* The answer is pushed, and nothing is kicked off any more.
LastRound ==
  /\ Plain /\ pc = "driving" /\ kickoff = <<>>
  /\ outputKeys = {Finalize} /\ answers = 1 /\ output[Finalize] = runs

Round ==
  \/ GoalRound \/ ObserveRound \/ SelectRound \/ CallsRound \/ ToolRound \/ CollectRound
  \/ AnswerRound \/ LastRound

\* Between two runs that did not fail.
Resting ==
  /\ pc = "idle" /\ kickoff = <<>> /\ tasks = <<>> /\ ferries = <<>> /\ Plain
  /\ outcome \in {"none", "done"}
  /\ outcome = "done" => answers = 1 /\ result = runs

\* Once a worker raised, the failed task and its kickoff are never cleared: every
\* later run repeats them and fails.
Stuck ==
  /\ pc # "broken" /\ SomeTask({"raised"})
  /\ kickoff # <<>> /\ topology = <<>>
  /\ KickedOff \subseteq {Initialize} \union ToolKeys
  /\ \A i \in DOMAIN tasks : tasks[i].key \in KickedOff
  /\ pc = "idle" => outcome = "failed"

AgentInv ==
  /\ ReCentTypeOK /\ IInv /\ SummaryBeforeCalls
  /\ pc = "idle" => ~ automaRunning
  /\ \A k \in Keys \ CollectKeys : deps[k] = {}
  /\ \/ pc = "broken" \/ Stuck \/ Resting
     \/ Lockstep /\ Round

-----------------------------------------------------------------------------
\* With a limit on the iterations every call of arun() ends.
LoopEnds == MaxIteration >= 0 => (pc # "idle" ~> pc \in {"idle", "broken"})

\* "Maximum number of consecutive times no tool is selected before finalizing
\* the answer" (_recent_automa.py:63).
ConsecutiveOnly ==
  [][noTool' > noTool /\ Len(ferries') > 0 /\ ferries'[Len(ferries')] = Finalize
       => streak' >= MaxNoTool]_allVars
=============================================================================
