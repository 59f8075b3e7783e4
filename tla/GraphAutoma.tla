----------------------------- MODULE GraphAutoma -----------------------------
(***************************************************************************)
(* One top-level GraphAutoma: arun() drives the worker graph in dynamic    *)
(* steps (DS).  A step starts a task for every kicked-off worker, waits for*)
(* all of them, applies the topology changes they asked for, collects their*)
(* results one by one, and then interrupts, fails, or computes the workers *)
(* of the next step.  Workers run concurrently: they ferry to other        *)
(* workers, ask for topology changes, ask a human, return or raise.  The   *)
(* application starts, resumes and reruns the automa, and may reload it    *)
(* from its last snapshot after the process died.                          *)
(***************************************************************************)
EXTENDS WorkerGraph, Sequences, SequencesExt

CONSTANTS
  StartKeys,    \* workers declared with is_start = True
  OutputKeys,   \* workers declared with is_output = True
  FerryTo,      \* FerryTo[k]: the workers that k's code may ferry to
  FaultyKeys,   \* workers whose code may raise
  Questions,    \* Questions[k]: how often k asks a human before it returns
  MaxRuns,      \* bound on the calls of arun() that do not resume a run
  MaxFerries,   \* bound on the ferries pending in one step
  MaxChanges,   \* bound on the topology changes pending in one step
  MaxRestores   \* bound on the reloads from a snapshot

ASSUME AutomaAssumption ==
  /\ StartKeys \subseteq Keys /\ OutputKeys \subseteq Keys /\ FaultyKeys \subseteq Keys
  /\ FerryTo \in [Keys -> SUBSET Keys]
  /\ Questions \in [Keys -> Nat]
  /\ {MaxRuns, MaxFerries, MaxChanges, MaxRestores} \subseteq Nat

VARIABLES
  \* --- serialized in a snapshot (with the graph)
  kickoff,        \* _current_kickoff_workers
  automaRunning,  \* _automa_running
  inputs,         \* _input_buffer: which run's arguments it holds, 0 if empty
  output,         \* _worker_output: the run a worker's last result is from
  ongoing,        \* _ongoing_interactions[k]: is its i-th question answered?
  \* --- in memory only
  tasks,          \* _running_tasks
  topology,       \* _topology_deferred_tasks
  ferries,        \* _ferry_deferred_tasks
  indices,        \* _worker_interaction_indices
  \* --- locals of _arun_internal
  pc, cursor, outputKeys,
  \* --- the application
  runs,           \* runs it asked for (a resumption is not a new run)
  outcome,        \* how the last arun() ended
  result,         \* the run that the value it returned is from, 0 for None
  snapshot,       \* the last snapshot it was given
  restores,
  \* --- history, read by properties only
  fresh,          \* fresh[w]: the workers that finished since w last finished
  ran             \* ran[w]: how often w finished in this run (2: twice or more)

automaVars == <<kickoff, automaRunning, inputs, output, ongoing>>
taskVars   == <<tasks, topology, ferries, indices>>
appVars    == <<runs, outcome, result, snapshot, restores>>
histVars   == <<fresh, ran>>
vars == <<graphVars, automaVars, taskVars, pc, cursor, outputKeys, appVars, histVars>>

Kickoff  == [key : Keys, by : {"automa", "ferry", "deps"}, done : BOOLEAN]
Statuses == {"running", "returned", "raised", "askedNew", "askedAgain", "keyError"}
\* from: the run whose arguments it was started with, 0 if the buffer was empty
Task     == [key : Keys, status : Statuses, answered : Nat, from : Nat]
Snapshot == [workers : SUBSET Keys, deps : [Keys -> SUBSET Keys],
             forwards : [Keys -> SUBSET Keys], triggers : [Keys -> SUBSET Keys],
             kickoff : Seq(Kickoff), inputs : Nat, output : [Keys -> Nat],
             ongoing : [Keys -> Seq(BOOLEAN)], fresh : [Keys -> SUBSET Keys],
             ran : [Keys -> {0, 1, 2}], runs : Nat]
None == [none |-> TRUE]

TypeOK ==
  /\ GraphTypeOK
  /\ kickoff \in Seq(Kickoff) /\ automaRunning \in BOOLEAN /\ inputs \in Nat
  /\ output \in [Keys -> Nat]
  /\ ongoing \in [Keys -> Seq(BOOLEAN)]
  /\ tasks \in Seq(Task) /\ topology \in Seq(Changes) /\ ferries \in Seq(Keys)
  /\ indices \in [Keys -> Nat]
  /\ pc \in {"idle", "driving", "waiting", "changing", "collecting", "deciding", "broken"}
  /\ cursor \in Nat \ {0} /\ outputKeys \subseteq Keys
  /\ runs \in Nat /\ result \in Nat /\ restores \in Nat
  /\ snapshot \in Snapshot \union {None}
  /\ outcome \in {"none", "done", "failed", "interrupted", "invalid"}
  /\ fresh \in [Keys -> SUBSET Keys] /\ ran \in [Keys -> {0, 1, 2}]

Init ==
  /\ GraphInit
  /\ kickoff = <<>> /\ automaRunning = FALSE /\ inputs = 0
  /\ output = [k \in Keys |-> 0] /\ ongoing = [k \in Keys |-> <<>>]
  /\ tasks = <<>> /\ topology = <<>> /\ ferries = <<>>
  /\ indices = [k \in Keys |-> 0]
  /\ pc = "idle" /\ cursor = 1 /\ outputKeys = {}
  /\ runs = 0 /\ outcome = "none" /\ result = 0 /\ snapshot = None /\ restores = 0
  /\ fresh = [k \in Keys |-> {}] /\ ran = [k \in Keys |-> 0]

-----------------------------------------------------------------------------
(***************************************************************************)
(* Clearing state: _clear_task_level_state and _clear_run_level_state.     *)
(* The latter leaves the kickoff list, the tasks and the deferred lists.   *)
(***************************************************************************)
\* Mutant: the pending ferries survive the step.
ClearKeepsFerries == tasks' = <<>> /\ topology' = <<>> /\ UNCHANGED ferries

ClearTaskLevelState == tasks' = <<>> /\ topology' = <<>> /\ ferries' = <<>>

ClearRunLevelState ==
  /\ inputs' = 0
  /\ indices' = [k \in Keys |-> 0]
  /\ ongoing' = [k \in Keys |-> <<>>]
  /\ automaRunning' = FALSE

(***************************************************************************)
(* An exception that leaves _arun_internal on a path that clears nothing.  *)
(* What the application does with such an automa is not modelled further.  *)
(***************************************************************************)
Escape ==
  /\ pc' = "broken"
  /\ UNCHANGED <<automaVars, taskVars, cursor, outputKeys, appVars, histVars>>

GoTo(phase) == pc' = phase /\ cursor' = 1

-----------------------------------------------------------------------------
(***************************************************************************)
(* The application calls arun() with answers to some of the open questions.*)
(* A run that is not being resumed is first compiled; the start workers    *)
(* are kicked off only if the kickoff list is empty.                       *)
(***************************************************************************)
Open == UNION {{k} \X {i \in 1..Len(ongoing[k]) : ~ ongoing[k][i]} : k \in Keys}

Entries(keys, by) ==
  [i \in DOMAIN keys |-> [key |-> keys[i], by |-> by, done |-> FALSE]]

Begin ==
  /\ GoTo("driving")
  /\ automaRunning' = TRUE
  /\ outputKeys' = {}
  /\ runs' = IF automaRunning THEN runs ELSE runs + 1
  /\ IF kickoff = <<>>
     THEN /\ inputs' = runs'
          /\ \E q \in SetToSeqs(workers \cap StartKeys) : kickoff' = Entries(q, "automa")
          /\ ran' = [k \in Keys |-> 0]
     ELSE UNCHANGED <<inputs, kickoff, ran>>
  /\ UNCHANGED <<graphVars, output, taskVars, outcome, result, snapshot, restores, fresh>>

\* Mutant: the feedbacks are not matched with the open interactions.
ArunForgetsAnswers(answers) ==
  /\ pc = "idle"
  /\ automaRunning \/ (runs < MaxRuns /\ WellFormed)
  /\ answers = answers /\ UNCHANGED ongoing
  /\ Begin

Arun(answers) ==
  /\ pc = "idle"
  /\ automaRunning \/ (runs < MaxRuns /\ WellFormed)
  /\ ongoing' = [k \in Keys |->
                   [i \in 1..Len(ongoing[k]) |-> ongoing[k][i] \/ <<k, i>> \in answers]]
  /\ Begin

\* _compile_graph_and_detect_risks rejects the graph, after the arguments of
\* the call were stored.
ArunRejected ==
  /\ pc = "idle" /\ ~ automaRunning /\ ~ WellFormed
  /\ inputs' = IF kickoff = <<>> THEN runs + 1 ELSE inputs
  /\ outcome' = "invalid"
  /\ UNCHANGED <<graphVars, kickoff, automaRunning, output, ongoing, taskVars, pc, cursor, outputKeys,
                 runs, result, snapshot, restores, histVars>>

-----------------------------------------------------------------------------
(***************************************************************************)
(* The for loop that starts a task for each kickoff that is not finished.  *)
(* It raises when the worker is gone or is a second output worker; the     *)
(* tasks started before are left running.                                  *)
(***************************************************************************)
Startable(k) == k \in workers /\ (k \in OutputKeys => outputKeys \subseteq {k})

\* Mutant: a kickoff that is finished is started again.
StartTaskAgain ==
  /\ pc = "driving" /\ cursor <= Len(kickoff) /\ Startable(kickoff[cursor].key)
  /\ tasks' = Append(tasks, [key |-> kickoff[cursor].key, status |-> "running",
                             answered |-> 0, from |-> inputs])
  /\ outputKeys' = outputKeys \union ({kickoff[cursor].key} \cap OutputKeys)
  /\ cursor' = cursor + 1
  /\ UNCHANGED <<graphVars, automaVars, topology, ferries, indices, pc, appVars, histVars>>

StartTask ==
  /\ pc = "driving" /\ cursor <= Len(kickoff)
  /\ LET e == kickoff[cursor]
     IN  IF e.done \/ Startable(e.key)
         THEN /\ cursor' = cursor + 1
              /\ IF e.done
                 THEN UNCHANGED <<tasks, outputKeys>>
                 ELSE /\ tasks' = Append(tasks, [key |-> e.key, status |-> "running",
                                                 answered |-> 0, from |-> inputs])
                      /\ outputKeys' = outputKeys \union ({e.key} \cap OutputKeys)
              /\ UNCHANGED <<automaVars, topology, ferries, indices, pc, appVars, histVars>>
         ELSE Escape
  /\ UNCHANGED graphVars

\* All tasks of the step are started: await them.
Await ==
  /\ pc = "driving" /\ kickoff # <<>> /\ cursor > Len(kickoff)
  /\ GoTo("waiting")
  /\ UNCHANGED <<graphVars, automaVars, taskVars, outputKeys, appVars, histVars>>

\* Mutant: the output is looked up after the state was cleared.
FinishClearsFirst ==
  /\ pc = "driving" /\ kickoff = <<>>
  /\ ClearRunLevelState
  /\ result' = 0 /\ outcome' = "done"
  /\ GoTo("idle")
  /\ UNCHANGED <<graphVars, kickoff, output, tasks, topology, ferries, outputKeys,
                 runs, snapshot, restores, histVars>>

\* Nothing is kicked off any more: the run is over and its output is returned.
Finish ==
  /\ pc = "driving" /\ kickoff = <<>>
  /\ ClearRunLevelState
  /\ IF outputKeys = {} THEN result' = 0 ELSE \E k \in outputKeys : result' = output[k]
  /\ outcome' = "done"
  /\ GoTo("idle")
  /\ UNCHANGED <<graphVars, kickoff, output, tasks, topology, ferries, outputKeys,
                 runs, snapshot, restores, histVars>>

-----------------------------------------------------------------------------
(***************************************************************************)
(* What the workers do while the scheduler awaits them.                    *)
(***************************************************************************)
Running(i) == pc = "waiting" /\ i \in DOMAIN tasks /\ tasks[i].status = "running"

WorkerUnchanged ==
  UNCHANGED <<graphVars, automaVars, pc, cursor, outputKeys, appVars, histVars>>

Ferry(i, target) ==
  /\ Running(i) /\ target \in FerryTo[tasks[i].key]
  /\ Len(ferries) < MaxFerries
  /\ ferries' = Append(ferries, target)
  /\ UNCHANGED <<tasks, topology, indices>> /\ WorkerUnchanged

WorkerReturns(i) ==
  /\ Running(i) /\ tasks[i].answered = Questions[tasks[i].key]
  /\ tasks' = [tasks EXCEPT ![i].status = "returned"]
  /\ UNCHANGED <<topology, ferries, indices>> /\ WorkerUnchanged

WorkerRaises(i) ==
  /\ Running(i) /\ tasks[i].key \in FaultyKeys
  /\ tasks' = [tasks EXCEPT ![i].status = "raised"]
  /\ UNCHANGED <<topology, ferries, indices>> /\ WorkerUnchanged

(***************************************************************************)
(* interact_with_human: the n-th call in a worker takes the answer of the  *)
(* n-th ongoing interaction, or raises to ask that question (again).       *)
(***************************************************************************)
WorkerAsks(i) ==
  LET k == tasks[i].key
      n == indices[k] + 1
  IN  /\ Running(i) /\ k \in workers /\ tasks[i].answered < Questions[k]
      /\ indices' = [indices EXCEPT ![k] = n]
      /\ tasks' = IF n > Len(ongoing[k])
                  THEN [tasks EXCEPT ![i].status = "askedNew"]
                  ELSE IF ongoing[k][n]
                  THEN [tasks EXCEPT ![i].answered = @ + 1]
                  ELSE [tasks EXCEPT ![i].status = "askedAgain"]
      /\ UNCHANGED <<topology, ferries>> /\ WorkerUnchanged

(***************************************************************************)
(* add_worker, remove_worker and add_dependency: deferred while the automa *)
(* is running, immediate otherwise.                                        *)
(***************************************************************************)
MakeChange(c) ==
  /\ ApplyChange(c)
  /\ ongoing' = IF c.op = "remove" THEN [ongoing EXCEPT ![c.key] = <<>>] ELSE ongoing
  /\ indices' = IF c.op = "remove" THEN [indices EXCEPT ![c.key] = 0] ELSE indices
  /\ fresh' = IF c.op = "add" THEN [fresh EXCEPT ![c.key] = {}] ELSE fresh
  /\ ran' = IF c.op = "add" THEN [ran EXCEPT ![c.key] = 0] ELSE ran

RequestChange(c) ==
  /\ pc = "idle" \/ \E i \in DOMAIN tasks : Running(i)
  /\ IF automaRunning
     THEN /\ Len(topology) < MaxChanges
          /\ topology' = Append(topology, c)
          /\ UNCHANGED <<graphVars, ongoing, indices, histVars>>
     ELSE MakeChange(c) /\ UNCHANGED topology
  /\ UNCHANGED <<kickoff, automaRunning, inputs, output, tasks, ferries,
                 pc, cursor, outputKeys, appVars>>

-----------------------------------------------------------------------------
(***************************************************************************)
(* Every task is done: apply the deferred changes in the order of the      *)
(* calls.  A change that is refused raises out of arun().                  *)
(***************************************************************************)
AllDone ==
  /\ pc = "waiting" /\ \A i \in DOMAIN tasks : tasks[i].status # "running"
  /\ GoTo("changing")
  /\ UNCHANGED <<graphVars, automaVars, taskVars, outputKeys, appVars, histVars>>

ApplyNextChange ==
  /\ pc = "changing" /\ cursor <= Len(topology)
  /\ \/ /\ MakeChange(topology[cursor])
        /\ cursor' = cursor + 1
        /\ UNCHANGED <<kickoff, automaRunning, inputs, output, tasks, topology, ferries,
                       pc, outputKeys, appVars>>
     \/ Refused(topology[cursor]) /\ Escape /\ UNCHANGED graphVars

ChangesApplied ==
  /\ pc = "changing" /\ cursor > Len(topology)
  /\ GoTo("collecting")
  /\ UNCHANGED <<graphVars, automaVars, taskVars, outputKeys, appVars, histVars>>

-----------------------------------------------------------------------------
(***************************************************************************)
(* The loop over the finished tasks.  A returned task marks the FIRST      *)
(* kickoff of its worker finished and, unless the worker was removed,      *)
(* stores the result, updates the triggers and forgets the interactions.   *)
(* A KeyError in that bookkeeping counts as the task's own exception.      *)
(***************************************************************************)
MarkFinished(k) ==
  kickoff' = [j \in DOMAIN kickoff |->
    IF kickoff[j].key = k /\ \A i \in 1..(j-1) : kickoff[i].key # k
    THEN [kickoff[j] EXCEPT !.done = TRUE] ELSE kickoff[j]]

CollectReturned(t) ==
  /\ t.status \in {"returned", "keyError"}
  /\ MarkFinished(t.key)
  /\ IF t.key \in workers
     THEN /\ \E visited \in SUBSET forwards[t.key] : WorkerFinished(t.key, visited)
          /\ output' = [output EXCEPT ![t.key] = t.from]
          /\ IF NotWaiting(t.key) = {}
             THEN /\ ongoing' = [ongoing EXCEPT ![t.key] = <<>>]
                  /\ indices' = [indices EXCEPT ![t.key] = 0]
                  /\ tasks' = [tasks EXCEPT ![cursor].status = "returned"]
             ELSE /\ tasks' = [tasks EXCEPT ![cursor].status = "keyError"]
                  /\ UNCHANGED <<ongoing, indices>>
          /\ fresh' = [w \in Keys |-> IF w = t.key THEN {} ELSE fresh[w] \union {t.key}]
          /\ ran' = [ran EXCEPT ![t.key] = IF @ = 0 THEN 1 ELSE 2]
     ELSE UNCHANGED <<graphVars, output, ongoing, indices, tasks, fresh, ran>>

CollectAsked(t) ==
  /\ t.status \in {"askedNew", "askedAgain"}
  /\ ongoing' = IF t.status = "askedNew" /\ t.key \in workers
                THEN [ongoing EXCEPT ![t.key] = Append(@, FALSE)] ELSE ongoing
  /\ UNCHANGED <<graphVars, kickoff, output, indices, tasks, fresh, ran>>

CollectRaised(t) ==
  /\ t.status = "raised"
  /\ UNCHANGED <<graphVars, kickoff, output, ongoing, indices, tasks, fresh, ran>>

CollectTask ==
  /\ pc = "collecting" /\ cursor <= Len(tasks)
  /\ LET t == tasks[cursor] IN CollectReturned(t) \/ CollectAsked(t) \/ CollectRaised(t)
  /\ cursor' = cursor + 1
  /\ UNCHANGED <<automaRunning, inputs, topology, ferries, pc, outputKeys, appVars>>

\* The graph is validated again if it was changed in this step.
Validate ==
  /\ pc = "collecting" /\ cursor > Len(tasks)
  /\ IF topology = <<>> \/ WellFormed
     THEN GoTo("deciding") /\ UNCHANGED <<automaVars, taskVars, outputKeys, appVars, histVars>>
     ELSE Escape
  /\ UNCHANGED graphVars

-----------------------------------------------------------------------------
(***************************************************************************)
(* The end of a step: interrupt, fail, or go on to the next step.          *)
(***************************************************************************)
SomeTask(statuses) == \E i \in DOMAIN tasks : tasks[i].status \in statuses
Asked  == SomeTask({"askedNew", "askedAgain"})
Failed == SomeTask({"raised", "keyError"})

\* Mutant: the workers' dynamic states are not serialized.
DumpWithoutTriggers ==
  [workers |-> workers, deps |-> deps, forwards |-> forwards, triggers |-> [k \in Keys |-> {}],
   kickoff |-> kickoff, inputs |-> inputs, output |-> output, ongoing |-> ongoing,
   fresh |-> fresh, ran |-> ran, runs |-> runs]

\* dump_to_dict, with the history the properties need on the same timeline.
Dump == [workers |-> workers, deps |-> deps, forwards |-> forwards, triggers |-> triggers,
         kickoff |-> kickoff, inputs |-> inputs, output |-> output, ongoing |-> ongoing,
         fresh |-> fresh, ran |-> ran, runs |-> runs]

Interrupt ==
  /\ pc = "deciding" /\ Asked
  /\ ClearTaskLevelState
  /\ indices' = [k \in Keys |-> 0]
  /\ snapshot' = Dump
  /\ outcome' = "interrupted"
  /\ GoTo("idle")
  /\ UNCHANGED <<graphVars, automaVars, outputKeys, runs, result, restores, histVars>>

Fail ==
  /\ pc = "deciding" /\ ~ Asked /\ Failed
  /\ ClearRunLevelState
  /\ outcome' = "failed"
  /\ GoTo("idle")
  /\ UNCHANGED <<graphVars, kickoff, output, tasks, topology, ferries, outputKeys,
                 runs, result, snapshot, restores, histVars>>

\* Mutant: the triggers are not looked at.
ReadyUnchecked == {s \in Keys : \E j \in DOMAIN kickoff : s \in forwards[kickoff[j].key]}

\* The successors of the finished workers that wait for nothing any more.
Ready == {s \in Keys : /\ \E j \in DOMAIN kickoff : s \in forwards[kickoff[j].key]
                       /\ triggers[s] = {}}

\* Mutant: the workers ferried to are not kicked off.
NextStepDropsFerries ==
  /\ pc = "deciding" /\ ~ Asked /\ ~ Failed
  /\ \E q \in SetToSeqs(Ready) : kickoff' = Entries(q, "deps")
  /\ ClearTaskLevelState
  /\ GoTo("driving")
  /\ UNCHANGED <<graphVars, automaRunning, inputs, output, ongoing, indices, outputKeys,
                 appVars, histVars>>

NextStep ==
  /\ pc = "deciding" /\ ~ Asked /\ ~ Failed
  /\ IF \A j \in DOMAIN kickoff : kickoff[j].done
     THEN /\ \E q \in SetToSeqs(Ready) : kickoff' = Entries(ferries, "ferry") \o Entries(q, "deps")
          /\ ClearTaskLevelState
          /\ GoTo("driving")
          /\ UNCHANGED <<automaRunning, inputs, output, ongoing, indices, outputKeys,
                         appVars, histVars>>
     ELSE Escape
  /\ UNCHANGED graphVars

-----------------------------------------------------------------------------
(***************************************************************************)
(* The process died, at any point; a new one loads the last snapshot.      *)
(***************************************************************************)
Restore ==
  /\ snapshot # None /\ restores < MaxRestores
  /\ restores' = restores + 1
  /\ workers' = snapshot.workers /\ deps' = snapshot.deps
  /\ forwards' = snapshot.forwards /\ triggers' = snapshot.triggers
  /\ kickoff' = snapshot.kickoff /\ inputs' = snapshot.inputs
  /\ output' = snapshot.output /\ ongoing' = snapshot.ongoing
  /\ fresh' = snapshot.fresh /\ ran' = snapshot.ran /\ runs' = snapshot.runs
  /\ automaRunning' = TRUE
  /\ ClearTaskLevelState /\ indices' = [k \in Keys |-> 0]
  /\ outcome' = "interrupted"
  /\ GoTo("idle")
  /\ UNCHANGED <<outputKeys, result, snapshot>>

Schedule ==
  \/ StartTask \/ Await \/ Finish \/ AllDone \/ ApplyNextChange \/ ChangesApplied
  \/ CollectTask \/ Validate \/ Interrupt \/ Fail \/ NextStep

Worker(i) ==
  \/ WorkerReturns(i) \/ WorkerRaises(i) \/ WorkerAsks(i)
  \/ \E target \in Keys : Ferry(i, target)

Application ==
  \/ \E answers \in SUBSET Open : Arun(answers)
  \/ ArunRejected
  \/ \E c \in Changes : RequestChange(c)
  \/ Restore

Next == Schedule \/ Application \/ \E i \in DOMAIN tasks : Worker(i)

Spec == Init /\ [][Next]_vars

-----------------------------------------------------------------------------
(***************************************************************************)
(* Fairness.  The event loop always runs the scheduler's next statement;   *)
(* every worker eventually returns, raises or asks (a worker that loops    *)
(* for ever hangs its automa); an application that may resume with too few *)
(* answers does not do so for ever.                                        *)
(***************************************************************************)
WorkerProgress == \E i \in DOMAIN tasks : WorkerReturns(i) \/ WorkerRaises(i) \/ WorkerAsks(i)

FairSpec == Spec /\ WF_vars(Schedule) /\ WF_vars(WorkerProgress)

ResumeWithAnswers == automaRunning /\ Arun(Open)

AnsweringSpec == FairSpec /\ SF_vars(ResumeWithAnswers)

-----------------------------------------------------------------------------
(***************************************************************************)
(* Safety.  Consistent (WorkerGraph) is the first invariant: what          *)
(* _validate_canonical_graph asserts always holds.                         *)
(***************************************************************************)

\* A dependency that is not among a worker's triggers has really finished
\* since that worker last finished: no trigger is lost without a result,
\* whatever the topology changes, failures and interruptions.
Honest(w, dp, tr, fr) == \A k \in w : dp[k] \ tr[k] \subseteq fr[k]
TriggersAreHonest == Honest(workers, deps, triggers, fresh)

\* The two invariants hold of the last snapshot as well, so that a reload in a
\* new process, however late, starts from a graph and triggers that agree.
SnapshotOK ==
  snapshot # None =>
    /\ ConsistentGraph(snapshot.workers, snapshot.deps, snapshot.forwards, snapshot.triggers)
    /\ Honest(snapshot.workers, snapshot.deps, snapshot.triggers, snapshot.fresh)

\* Together they are inductive (GraphAutoma_proofs).
IInv == TypeOK /\ Consistent /\ TriggersAreHonest /\ SnapshotOK

\* A step kicks off a worker for its dependencies only when all of its
\* CURRENT dependencies finished since it last finished itself.
DueStartStep ==
  pc = "deciding" /\ pc' = "driving" =>
    \A j \in DOMAIN kickoff' : kickoff'[j].by = "deps" =>
      LET w == kickoff'[j].key
      IN  w \in workers /\ deps[w] # {} /\ deps[w] \subseteq fresh[w]
DueStart == [][DueStartStep]_vars

\* A worker that waits for nothing any more is kicked off, or is about to be
\* because one of its predecessors finished in this step: the scheduler never
\* forgets a worker whose dependencies are all satisfied.
Remembers(w, dp, fw, tr, ko) ==
  \A k \in w : dp[k] # {} /\ tr[k] = {} =>
    \E j \in DOMAIN ko : IF ko[j].done THEN k \in fw[ko[j].key] ELSE k = ko[j].key
NoDueWorkerForgotten == Remembers(workers, deps, forwards, triggers, kickoff)

\* What makes that inductive while no worker is removed: a task is one of a worker
\* that is kicked off, and the last snapshot has forgotten nothing either.
TasksKickedOff == \A i \in DOMAIN tasks : \E j \in DOMAIN kickoff : kickoff[j].key = tasks[i].key
RemembersInv ==
  /\ NoDueWorkerForgotten /\ TasksKickedOff
  /\ snapshot # None => Remembers(snapshot.workers, snapshot.deps, snapshot.forwards,
                                  snapshot.triggers, snapshot.kickoff)

\* The bookkeeping for a finished worker never raises KeyError: whoever
\* finishes is still awaited by all of its successors.
NoBookkeepingError == ~ SomeTask({"keyError"})

\* A completed run returns what the output worker computed in this very run.
ResultOfThisRun ==
  pc = "idle" /\ outcome = "done" /\ (\E k \in OutputKeys : ran[k] > 0) => result = runs

\* A run that does not resume a paused one begins with the start workers.
RerunStartsFresh ==
  [][runs' > runs => \A j \in DOMAIN kickoff' : kickoff'[j].by = "automa"]_runs

\* With a fixed graph and no ferries, the scheduler implements Dataflow: a run
\* computes every worker that can be reached, after all of its dependencies,
\* however often it is interrupted and resumed on the way.
DF == INSTANCE Dataflow WITH Node <- InitWorkers, Source <- StartKeys \cap InitWorkers,
                             Pred <- [k \in InitWorkers |-> InitDeps[k]],
                             MayReload <- MaxRestores > 0,
                             computed <- {k \in Keys : ran[k] > 0}
ImplementsDataflow == DF!Spec

\* ... and no worker that finished is executed again in the same run: a
\* resumption repeats the workers that asked, never those that finished.
ComputedOnce == \A k \in Keys : ran[k] < 2

-----------------------------------------------------------------------------
(***************************************************************************)
(* Liveness.                                                               *)
(***************************************************************************)

\* Every call of arun() ends (in an automa whose ferries form no cycle).
ArunEnds == (pc # "idle") ~> (pc \in {"idle", "broken"})

\* A worker ferried to in a step that does not fail is started later on.
FerryHonoured ==
  \A x \in Keys :
    (pc = "deciding" /\ ~ Failed /\ \E i \in DOMAIN ferries : ferries[i] = x)
      ~> (\E i \in DOMAIN tasks : Running(i) /\ tasks[i].key = x) \/ pc = "broken"

\* As long as the application answers, a paused run is eventually completed:
\* no worker asks the same question for ever.
AnsweredRunsComplete == (outcome = "interrupted") ~> (outcome # "interrupted")
=============================================================================
