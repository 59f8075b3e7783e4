--------------------------- MODULE FixedGraph_proofs ---------------------------
(***************************************************************************)
(* Programs with a fixed graph: each run computes every worker it can, each*)
(* once, after its dependencies, across pauses and reloads.                *)
(***************************************************************************)
EXTENDS FixedGraph, GraphAutoma_proofs

\* Where a worker is kicked off, one entry of the kickoff list names it.
LEMMA KickoffElement ==
  ASSUME TypeOK, NEW j \in DOMAIN kickoff
  PROVE  kickoff[j] \in Kickoff /\ kickoff[j].key \in Keys /\ kickoff[j].done \in BOOLEAN
<1>1. kickoff \in Seq(Kickoff) /\ j \in 1..Len(kickoff)
  BY DEF TypeOK
<1>2. kickoff[j] \in Kickoff
  BY <1>1, ElementOfSeq
<1> QED BY <1>2 DEF Kickoff

\* A task is started for some worker.
LEMMA TaskElement ==
  ASSUME TypeOK, NEW i \in DOMAIN tasks
  PROVE  tasks[i] \in Task /\ tasks[i].key \in Keys /\ tasks[i].status \in Statuses
         /\ tasks[i].answered \in Nat
<1>1. tasks \in Seq(Task) /\ i \in 1..Len(tasks)
  BY DEF TypeOK
<1>2. tasks[i] \in Task
  BY <1>1, ElementOfSeq
<1> QED BY <1>2 DEF Task

\* More computed workers support more.
LEMMA SupportGrows ==
  ASSUME NEW k \in InitWorkers, NEW S, NEW T, S \subseteq T, DF!Supported(k, S)
  PROVE  DF!Supported(k, T)
BY DEF DF!Supported

\* What supports a worker is either that it starts a run, or all it depends on.
LEMMA SupportMeans ==
  ASSUME FixedProgram, NEW k \in InitWorkers, NEW S, DF!Supported(k, S)
  PROVE  InitDeps[k] \subseteq S
BY DEF DF!Supported, FixedProgram, Sources

\* An ordering of a set names each element once.
LEMMA OrderingDistinct ==
  ASSUME NEW S \in SUBSET Keys, NEW q \in SetToSeqs(S)
  PROVE  \A i, j \in DOMAIN q : q[i] = q[j] => i = j
<1>1. Cardinality(S) \in Nat
  BY InitAssumption, FS_Subset, FS_CardinalityType
<1>2. q \in [1..Cardinality(S) -> S] /\ \A i, j \in 1..Cardinality(S) : i # j => q[i] # q[j]
  BY DEF SetToSeqs
<1> QED BY <1>2

\* Kicking off a set of workers names each of them once, unfinished.
LEMMA EntriesFit ==
  ASSUME NEW S \in SUBSET Keys, NEW q \in SetToSeqs(S),
         NEW by
  PROVE  LET ko == Entries(q, by)
         IN  /\ \A i, j \in DOMAIN ko : ko[i].key = ko[j].key => i = j
             /\ \A j \in DOMAIN ko : ko[j].key \in S /\ ~ ko[j].done
             /\ \A k \in S : \E j \in DOMAIN ko : ko[j].key = k
<1> DEFINE ko == Entries(q, by)
<1>1. q \in Seq(Keys) /\ \A i \in DOMAIN q : q[i] \in S
  BY OrderingType
<1>2. /\ DOMAIN ko = DOMAIN q
      /\ \A j \in DOMAIN ko : ko[j].key = q[j] /\ ~ ko[j].done
  BY <1>1 DEF Entries
<1> QED BY <1>1, <1>2, OrderingDistinct, OrderingComplete

-----------------------------------------------------------------------------
(***************************************************************************)
(* The steps that start, compute and end a run.                            *)
(***************************************************************************)
\* The forwards table is that of the initial graph.
LEMMA FixedForwards ==
  ASSUME FixedInv
  PROVE  /\ \A k, d \in Keys : d \in InitDeps[k] <=> k \in forwards[d]
         /\ \A k \in Keys : InitDeps[k] # {} => k \in InitWorkers
         /\ \A k \in Keys : InitDeps[k] \in SUBSET Keys /\ k \notin InitDeps[k]
         /\ InitWorkers \subseteq Keys
BY InitAssumption DEF FixedInv, IInv, Consistent, ConsistentGraph

\* Most steps touch neither the run nor the snapshot.
LEMMA FixedFrame ==
  ASSUME FixedInv, IInv', TasksFit', pc' # "idle", automaRunning,
         UNCHANGED <<graphVars, topology, ferries, kickoff, ran, automaRunning, snapshot>>
  PROVE  FixedInv'
<1>1. RunFits(kickoff, triggers, ran)' /\ NoneLeftOut(kickoff, ran)'
  <2>1. RunFits(kickoff, triggers, ran) /\ NoneLeftOut(kickoff, ran)
    BY DEF FixedInv
  <2>2. UNCHANGED <<kickoff, triggers, ran>>
    BY DEF graphVars
  <2> QED BY <2>1, <2>2 DEF RunFits, NoneLeftOut, Computed
<1>2. SnapshotFits'
  BY DEF FixedInv, SnapshotFits, RunFits, NoneLeftOut, Computed
<1> QED BY <1>1, <1>2 DEF FixedInv, graphVars

\* A call in progress means that a run is.
LEMMA RunningWhileCalled ==
  ASSUME FixedInv, pc # "idle"
  PROVE  automaRunning
BY DEF FixedInv, BetweenRuns

\* The run that starts is empty, and every worker waits for all of its dependencies:
\* the last run computed all or none of them.
LEMMA ArunFixed ==
  ASSUME FixedProgram, FixedInv, IInv', NEW answers, Arun(answers)
  PROVE  FixedInv'
<1>1. /\ pc = "idle" /\ pc' = "driving" /\ automaRunning' = TRUE /\ cursor' = 1 /\ tasks = <<>>
      /\ UNCHANGED <<graphVars, tasks, topology, ferries, snapshot>>
  BY DEF Arun, Begin, GoTo, taskVars, FixedInv, TasksFit
<1>2. TasksFit'
  BY <1>1 DEF TasksFit
<1>3. CASE automaRunning
  <2>1. UNCHANGED <<kickoff, ran>>
    BY <1>3 DEF Arun, Begin, FixedInv
  <2> QED BY <1>1, <1>2, <1>3, <2>1, FixedFrame
<1>4. CASE ~ automaRunning
  <2>1. kickoff = <<>> /\ (Computed(ran) = {} \/ NoneLeftOut(kickoff, ran))
    BY <1>4 DEF FixedInv, BetweenRuns
  <2>2. PICK q \in SetToSeqs(Sources) : kickoff' = Entries(q, "automa")
    <3>1. workers \cap StartKeys = Sources
      BY DEF FixedInv, Sources
    <3> QED BY <2>1, <3>1 DEF Arun, Begin
  <2>3. ran' = [k \in Keys |-> 0]
    BY <2>1 DEF Arun, Begin
  <2>4. /\ \A i, j \in DOMAIN kickoff' : kickoff'[i].key = kickoff'[j].key => i = j
        /\ \A j \in DOMAIN kickoff' : kickoff'[j].key \in Sources /\ ~ kickoff'[j].done
        /\ \A k \in Sources : \E j \in DOMAIN kickoff' : kickoff'[j].key = k
    <3>1. Sources \in SUBSET Keys
      BY InitAssumption DEF Sources
    <3> QED BY <2>2, <3>1, EntriesFit
  <2>5. Computed(ran') = {}
    BY <2>3 DEF Computed
  <2>6. \A k \in InitWorkers : triggers[k] = InitDeps[k]
    <3>1. \A k \in InitWorkers : triggers[k] = InitDeps[k] \ (IF ran[k] > 0 THEN {} ELSE Computed(ran))
      BY DEF FixedInv, RunFits
    <3>2. CASE Computed(ran) = {}
      BY <3>1, <3>2
    <3>3. CASE Computed(ran) # {}
      <4>1. NoneLeftOut(kickoff, ran)
        BY <2>1, <3>3
      <4>2. Computed(ran) \subseteq InitWorkers
        BY DEF Computed, FixedInv, RunFits
      <4>3. \A k \in InitWorkers : DF!Supported(k, Computed(ran)) => k \in Computed(ran)
        BY <2>1, <4>1, InitAssumption DEF NoneLeftOut, Computed
      <4>4. \A k \in Computed(ran) : DF!Supported(k, Computed(ran))
        BY DEF Computed, FixedInv, RunFits
      <4>5. Complete(Computed(ran))
        BY <4>3, <4>4 DEF Complete
      <4>6. \A k \in InitWorkers \ Computed(ran) : InitDeps[k] \cap Computed(ran) = {}
        BY <4>2, <4>5 DEF FixedProgram
      <4>7. \A k \in InitWorkers : ran[k] > 0 \/ k \notin Computed(ran)
        BY DEF Computed
      <4> QED BY <3>1, <4>6, <4>7
    <3> QED BY <3>2, <3>3
  <2>7. RunFits(kickoff', triggers', ran')
    <3>1. triggers' = triggers
      BY <1>1 DEF graphVars
    <3>2. \A j \in DOMAIN kickoff' : kickoff'[j].key \in Keys
      BY <2>4, InitAssumption DEF Sources
    <3>3. \A j \in DOMAIN kickoff' : ran'[kickoff'[j].key] = 0 /\ ~ kickoff'[j].done
      BY <2>3, <2>4, <3>2
    <3>4. \A k \in Sources : k \in InitWorkers /\ DF!Supported(k, {})
      BY DEF Sources, DF!Supported
    <3>5. \A k \in Keys : ran'[k] = 0
      BY <2>3
    <3> QED BY <2>4, <2>5, <2>6, <3>1, <3>3, <3>4, <3>5, InitAssumption DEF RunFits
  <2>8. NoneLeftOut(kickoff', ran')
    <3>1. \A k \in InitWorkers : DF!Supported(k, {}) => k \in Sources
      BY DEF DF!Supported, Sources
    <3> QED BY <2>4, <2>5, <3>1 DEF NoneLeftOut
  <2>9. SnapshotFits'
    BY <1>1 DEF FixedInv, SnapshotFits, RunFits, NoneLeftOut, Computed
  <2>10. RunFits(kickoff, triggers, ran)' /\ NoneLeftOut(kickoff, ran)'
    BY <2>7, <2>8 DEF RunFits, NoneLeftOut, Computed
  <2> QED BY <1>1, <1>2, <2>9, <2>10 DEF FixedInv, graphVars
<1> QED BY <1>3, <1>4

\* A task is started for a kickoff that is not finished and has none yet.
LEMMA StartTaskFixed ==
  ASSUME FixedInv, IInv', StartTask
  PROVE  FixedInv'
<1>1. /\ pc = "driving" /\ cursor \in DOMAIN kickoff /\ automaRunning
      /\ UNCHANGED <<graphVars, topology, ferries, kickoff, ran, automaRunning, snapshot>>
  <2>1. cursor \in DOMAIN kickoff
    BY DEF StartTask, FixedInv, IInv, TypeOK
  <2> QED BY <2>1, RunningWhileCalled DEF StartTask, Escape, automaVars, taskVars, appVars, histVars
<1>2. TasksFit /\ tasks \in Seq(Task) /\ cursor \in Nat
  BY DEF FixedInv, IInv, TypeOK
<1> DEFINE e == kickoff[cursor]
           t == [key |-> e.key, status |-> "running", answered |-> 0, from |-> inputs]
<1>3. CASE pc' = "driving" /\ cursor' = cursor + 1 /\ UNCHANGED tasks
  <2>1. \A j \in DOMAIN kickoff : j < cursor => j < cursor'
    <3>1. DOMAIN kickoff \subseteq Nat
      BY DEF FixedInv, IInv, TypeOK
    <3> QED BY <1>2, <1>3, <3>1
  <2>2. TasksFit'
    BY <1>1, <1>2, <1>3, <2>1 DEF TasksFit, Collected
  <2> QED BY <1>1, <1>3, <2>2, FixedFrame
<1>4. CASE pc' = "broken" /\ UNCHANGED tasks
  <2>1. TasksFit'
    BY <1>1, <1>2, <1>4 DEF TasksFit, Collected
  <2> QED BY <1>1, <1>4, <2>1, FixedFrame
<1>5. CASE pc' = "driving" /\ cursor' = cursor + 1 /\ ~ e.done /\ tasks' = Append(tasks, t)
  <2>1. /\ DOMAIN tasks' = 1..(Len(tasks) + 1) /\ DOMAIN tasks = 1..Len(tasks) /\ Len(tasks) \in Nat
        /\ \A i \in DOMAIN tasks : tasks'[i] = tasks[i]
        /\ tasks'[Len(tasks) + 1] = t
    BY <1>2, <1>5
  <2>2. \A i \in DOMAIN tasks : tasks[i].key # e.key
    <3> SUFFICES ASSUME NEW i \in DOMAIN tasks, tasks[i].key = e.key PROVE FALSE
      OBVIOUS
    <3>1. PICK j \in DOMAIN kickoff : kickoff[j].key = tasks[i].key /\ j < cursor
      BY <1>1, <1>2 DEF TasksFit
    <3>2. kickoff[j].key = kickoff[cursor].key /\ j # cursor
      BY <1>2, <3>1
    <3> QED BY <1>1, <3>2 DEF FixedInv, RunFits
  <2>3. \A i, j \in DOMAIN tasks' : tasks'[i].key = tasks'[j].key => i = j
    <3> SUFFICES ASSUME NEW i \in DOMAIN tasks', NEW j \in DOMAIN tasks', tasks'[i].key = tasks'[j].key
                 PROVE  i = j
      OBVIOUS
    <3>1. t.key = e.key
      OBVIOUS
    <3> HIDE DEF t
    <3>2. i \in DOMAIN tasks \/ i = Len(tasks) + 1
      BY <2>1
    <3>3. j \in DOMAIN tasks \/ j = Len(tasks) + 1
      BY <2>1
    <3>4. CASE i \in DOMAIN tasks /\ j \in DOMAIN tasks
      BY <1>2, <2>1, <3>4 DEF TasksFit
    <3> QED BY <2>1, <2>2, <3>1, <3>2, <3>3, <3>4
  <2>4. ASSUME NEW i \in DOMAIN tasks'
        PROVE  /\ tasks'[i].status \in {"running", "returned", "askedNew", "askedAgain"}
               /\ tasks'[i].status \in {"askedNew", "askedAgain"} => Questions[tasks'[i].key] > 0
               /\ \E j \in DOMAIN kickoff' :
                    /\ kickoff'[j].key = tasks'[i].key
                    /\ kickoff'[j].done => tasks'[i].status = "returned" /\ Collected(i)'
                    /\ pc' = "driving" => j < cursor'
    <3>1. CASE i \in DOMAIN tasks
      <4>1. PICK j \in DOMAIN kickoff :
              /\ kickoff[j].key = tasks[i].key
              /\ kickoff[j].done => tasks[i].status = "returned" /\ Collected(i)
              /\ pc = "driving" => j < cursor
        BY <1>2, <3>1 DEF TasksFit
      <4>2. j < cursor' /\ ~ kickoff[j].done
        <5>1. DOMAIN kickoff \subseteq Nat
          BY DEF FixedInv, IInv, TypeOK
        <5> QED BY <1>1, <1>2, <1>5, <4>1, <5>1 DEF Collected
      <4>3. tasks'[i] = tasks[i] /\ kickoff' = kickoff
        BY <1>1, <2>1, <3>1
      <4> QED BY <1>2, <3>1, <4>1, <4>2, <4>3 DEF TasksFit
    <3>2. CASE i = Len(tasks) + 1
      <4>1. tasks'[i].key = e.key /\ tasks'[i].status = "running" /\ kickoff' = kickoff
        BY <1>1, <2>1, <3>2
      <4>2. cursor < cursor'
        BY <1>2, <1>5
      <4> QED BY <1>1, <1>5, <4>1, <4>2
    <3> QED BY <2>1, <3>1, <3>2
  <2>5. TasksFit'
    BY <1>5, <2>3, <2>4 DEF TasksFit
  <2> QED BY <1>1, <1>5, <2>5, FixedFrame
<1> QED BY <1>1, <1>3, <1>4, <1>5 DEF StartTask, Escape, taskVars

\* From one phase to the next nothing else changes.
LEMMA PhaseFixed ==
  ASSUME FixedInv, IInv', pc # "idle", pc' # "idle", pc' # "driving",
         pc \in {"deciding", "broken"} => pc' \in {"deciding", "broken"},
         pc = "collecting" => pc' \in {"deciding", "broken"},
         UNCHANGED <<graphVars, automaVars, taskVars, appVars, histVars>>
  PROVE  FixedInv'
<1>1. automaRunning
  BY RunningWhileCalled
<1>2. UNCHANGED <<graphVars, topology, ferries, kickoff, ran, automaRunning, snapshot, tasks>>
  BY DEF automaVars, taskVars, appVars, histVars
<1>3. TasksFit'
  BY <1>2 DEF FixedInv, TasksFit, Collected
<1> QED BY <1>1, <1>2, <1>3, FixedFrame

\* A worker returns or asks a question that it has.
LEMMA WorkerFixed ==
  ASSUME FixedProgram, FixedInv, IInv', NEW i \in DOMAIN tasks, Worker(i)
  PROVE  FixedInv'
<1>1. TypeOK /\ tasks \in Seq(Task) /\ \A j \in DOMAIN tasks : tasks[j] \in Task
  <2>1. TypeOK
    BY DEF FixedInv, IInv
  <2> QED BY <2>1, TaskElement DEF TypeOK
<1>2. ~ WorkerRaises(i) /\ \A target \in Keys : ~ Ferry(i, target)
  BY <1>1 DEF WorkerRaises, Ferry, FixedProgram, Task
<1>3. /\ pc = "waiting" /\ tasks[i].status = "running" /\ automaRunning
      /\ UNCHANGED <<graphVars, topology, ferries, kickoff, ran, automaRunning, snapshot, pc, cursor>>
  <2>1. Running(i) /\ UNCHANGED <<topology, ferries>> /\ WorkerUnchanged
    BY <1>2 DEF Worker, WorkerReturns, WorkerAsks
  <2>2. pc = "waiting" /\ tasks[i].status = "running"
    BY <2>1 DEF Running
  <2> QED BY <2>1, <2>2, RunningWhileCalled
          DEF WorkerUnchanged, automaVars, appVars, histVars
<1>4. /\ DOMAIN tasks' = DOMAIN tasks
      /\ \A j \in DOMAIN tasks : tasks'[j].key = tasks[j].key
      /\ \A j \in DOMAIN tasks : j # i => tasks'[j] = tasks[j]
      /\ tasks'[i].status \in {"running", "returned", "askedNew", "askedAgain"}
      /\ tasks'[i].status \in {"askedNew", "askedAgain"} => Questions[tasks[i].key] > 0
  <2>1. CASE WorkerReturns(i)
    BY <1>1, <2>1 DEF WorkerReturns, Task
  <2>2. CASE WorkerAsks(i)
    <3>1. Questions[tasks[i].key] > 0
      <4>1. tasks[i].answered \in Nat /\ tasks[i].key \in Keys
        BY <1>1 DEF Task
      <4>2. Questions[tasks[i].key] \in Nat
        BY <4>1, AutomaAssumption
      <4> QED BY <2>2, <4>1, <4>2 DEF WorkerAsks
    <3>2. \/ tasks' = [tasks EXCEPT ![i].status = "askedNew"]
          \/ tasks' = [tasks EXCEPT ![i].answered = @ + 1]
          \/ tasks' = [tasks EXCEPT ![i].status = "askedAgain"]
      BY <2>2 DEF WorkerAsks
    <3>3. CASE tasks' = [tasks EXCEPT ![i].status = "askedNew"]
      BY <1>1, <1>3, <3>1, <3>3 DEF Task
    <3>4. CASE tasks' = [tasks EXCEPT ![i].answered = @ + 1]
      BY <1>1, <1>3, <3>1, <3>4 DEF Task
    <3>5. CASE tasks' = [tasks EXCEPT ![i].status = "askedAgain"]
      BY <1>1, <1>3, <3>1, <3>5 DEF Task
    <3> QED BY <3>2, <3>3, <3>4, <3>5
  <2> QED BY <1>2, <2>1, <2>2 DEF Worker
<1>5. TasksFit'
  <2>1. TasksFit
    BY DEF FixedInv
  <2>2. \A j \in DOMAIN tasks : Collected(j)' <=> Collected(j)
    BY <1>3 DEF Collected
  <2>3. \A j \in DOMAIN tasks : ~ Collected(j)
    BY <1>3 DEF Collected
  <2> QED BY <1>3, <1>4, <2>1, <2>3 DEF TasksFit
<1> QED BY <1>3, <1>5, FixedFrame

\* A run that is over has computed all that it supports.
LEMMA FinishFixed ==
  ASSUME FixedInv, IInv', Finish
  PROVE  FixedInv'
<1>1. /\ pc = "driving" /\ kickoff = <<>> /\ pc' = "idle" /\ ~ automaRunning'
      /\ UNCHANGED <<graphVars, topology, ferries, kickoff, tasks, ran, snapshot>>
  BY DEF Finish, GoTo, ClearRunLevelState, histVars
<1>2. automaRunning /\ NoneLeftOut(kickoff, ran)
  BY <1>1, RunningWhileCalled DEF FixedInv
<1>3. tasks = <<>>
  <2>1. DOMAIN tasks = {}
    <3>1. DOMAIN kickoff = {}
      BY <1>1
    <3> QED BY <3>1 DEF FixedInv, TasksFit
  <2>2. tasks \in Seq(Task)
    BY DEF FixedInv, IInv, TypeOK
  <2> QED BY <2>1, <2>2
<1>4. TasksFit'
  BY <1>1, <1>3 DEF TasksFit
<1>5. NoneLeftOut(kickoff, ran)' /\ RunFits(kickoff, triggers, ran)'
  BY <1>1, <1>2 DEF FixedInv, NoneLeftOut, RunFits, Computed, graphVars
<1>6. BetweenRuns'
  BY <1>1, <1>3, <1>5 DEF BetweenRuns
<1>7. SnapshotFits'
  BY <1>1 DEF FixedInv, SnapshotFits, RunFits, NoneLeftOut, Computed
<1> QED BY <1>1, <1>4, <1>5, <1>6, <1>7 DEF FixedInv, graphVars

-----------------------------------------------------------------------------
(***************************************************************************)
(* The bookkeeping for a finished worker.                                  *)
(***************************************************************************)
\* Every successor of a worker that was not computed yet still waits for it.
LEMMA StillAwaited ==
  ASSUME FixedInv, NEW x \in Keys, ran[x] = 0
  PROVE  NotWaiting(x) = {}
<1> SUFFICES ASSUME NEW s \in forwards[x] PROVE x \in triggers[s]
  BY DEF NotWaiting
<1>1. s \in Keys
  BY DEF FixedInv, IInv, TypeOK, GraphTypeOK
<1>2. x \in InitDeps[s] /\ s \in InitWorkers
  BY <1>1, FixedForwards
<1>3. x \notin Computed(ran)
  BY DEF Computed
<1>4. triggers[s] = InitDeps[s] \ (IF ran[s] > 0 THEN {} ELSE Computed(ran))
  BY <1>2 DEF FixedInv, RunFits
<1> QED BY <1>2, <1>3, <1>4

\* A worker is collected once in a run, and who is due by it is a successor of its.
LEMMA ReturnedFixed ==
  ASSUME FixedProgram, FixedInv, IInv', CollectTask, CollectReturned(tasks[cursor])
  PROVE  FixedInv'
<1> DEFINE t == tasks[cursor]
           x == t.key
           C == Computed(ran)
<1>1. /\ TypeOK /\ pc = "collecting" /\ pc' = pc /\ cursor' = cursor + 1 /\ cursor \in Nat
      /\ cursor \in DOMAIN tasks /\ x \in Keys /\ t.status = "returned"
      /\ \A i \in DOMAIN tasks : tasks[i] \in Task
      /\ automaRunning /\ automaRunning' /\ UNCHANGED <<topology, ferries, snapshot>>
  <2>1. TypeOK /\ pc = "collecting"
    BY DEF FixedInv, IInv, CollectTask
  <2>2. cursor \in DOMAIN tasks /\ cursor \in Nat
    BY <2>1, CollectedTask DEF TypeOK
  <2>3. \A i \in DOMAIN tasks : tasks[i] \in Task /\ tasks[i].key \in Keys
    BY <2>1, TaskElement
  <2>4. t.status \in {"running", "returned", "askedNew", "askedAgain"}
    BY <2>2 DEF FixedInv, TasksFit
  <2>5. t.status = "returned"
    BY <2>4 DEF CollectReturned
  <2> QED BY <2>1, <2>2, <2>3, <2>5, RunningWhileCalled DEF CollectTask, appVars
<1>2. PICK j0 \in DOMAIN kickoff : kickoff[j0].key = x /\ ~ kickoff[j0].done
  <2>1. PICK j \in DOMAIN kickoff : kickoff[j].key = x /\ (kickoff[j].done => Collected(cursor))
    BY <1>1 DEF FixedInv, TasksFit
  <2> QED BY <1>1, <2>1 DEF Collected
<1>3. ran[x] = 0 /\ x \in InitWorkers /\ DF!Supported(x, C) /\ x \notin C
  <2>1. ran[x] = 0
    BY <1>2 DEF FixedInv, RunFits
  <2>2. x \in InitWorkers /\ DF!Supported(x, C)
    BY <1>1, <1>2 DEF FixedInv, RunFits
  <2>3. x \notin C
    BY <2>1 DEF Computed
  <2> QED BY <2>1, <2>2, <2>3
<1>4. /\ DOMAIN kickoff' = DOMAIN kickoff
      /\ \A j \in DOMAIN kickoff : kickoff'[j].key = kickoff[j].key
      /\ \A j \in DOMAIN kickoff : j # j0 => kickoff'[j] = kickoff[j]
      /\ kickoff'[j0].done
  <2>1. MarkFinished(x)
    BY DEF CollectReturned
  <2>2. /\ DOMAIN kickoff' = DOMAIN kickoff
        /\ \A j \in DOMAIN kickoff : kickoff'[j].key = kickoff[j].key
        /\ \A j \in DOMAIN kickoff : kickoff[j].key # x => kickoff'[j] = kickoff[j]
        /\ \E j \in DOMAIN kickoff : kickoff[j].key = x /\ kickoff'[j].done
    BY <1>1, <1>2, <2>1, MarkFirst
  <2>3. \A j \in DOMAIN kickoff : kickoff[j].key = x => j = j0
    BY <1>2 DEF FixedInv, RunFits
  <2> QED BY <2>2, <2>3
<1>5. /\ UNCHANGED <<workers, deps, forwards>>
      /\ triggers' = [s \in Keys |-> IF s = x THEN InitDeps[x]
                                     ELSE IF s \in forwards[x] THEN triggers[s] \ {x}
                                     ELSE triggers[s]]
      /\ ran' = [ran EXCEPT ![x] = 1]
      /\ tasks' = [tasks EXCEPT ![cursor].status = "returned"]
  <2>1. NotWaiting(x) = {}
    BY <1>1, <1>3, StillAwaited
  <2>2. workers = InitWorkers /\ deps = InitDeps
    BY DEF FixedInv
  <2>3. PICK visited \in SUBSET forwards[x] : WorkerFinished(x, visited)
    BY <1>3, <2>2 DEF CollectReturned
  <2>4. visited = forwards[x]
    BY <2>1, <2>3 DEF WorkerFinished
  <2>5. ran' = [ran EXCEPT ![x] = IF @ = 0 THEN 1 ELSE 2]
        /\ tasks' = [tasks EXCEPT ![cursor].status = "returned"]
    BY <1>3, <2>1, <2>2 DEF CollectReturned
  <2> QED BY <1>1, <1>3, <2>2, <2>3, <2>4, <2>5 DEF WorkerFinished
<1>6. ran \in [Keys -> {0, 1, 2}] /\ triggers \in [Keys -> SUBSET Keys] /\ forwards \in [Keys -> SUBSET Keys]
  BY <1>1 DEF TypeOK, GraphTypeOK
<1>7. ran' \in [Keys -> {0, 1, 2}] /\ ran'[x] = 1 /\ \A k \in Keys : k # x => ran'[k] = ran[k]
  BY <1>1, <1>5, <1>6
<1>8. Computed(ran') = C \union {x}
  BY <1>1, <1>7 DEF Computed
<1>9. DOMAIN tasks' = DOMAIN tasks /\ \A i \in DOMAIN tasks : tasks'[i].key = tasks[i].key
                                                            /\ tasks'[i].status = tasks[i].status
  BY <1>1, <1>5 DEF Task
<1>10. RunFits(kickoff', triggers', ran')
  <2>1. \A i, j \in DOMAIN kickoff' : kickoff'[i].key = kickoff'[j].key => i = j
    BY <1>4 DEF FixedInv, RunFits
  <2>2. ASSUME NEW j \in DOMAIN kickoff'
        PROVE  ran'[kickoff'[j].key] = IF kickoff'[j].done THEN 1 ELSE 0
    <3>1. CASE j = j0
      BY <1>2, <1>4, <1>7, <3>1
    <3>2. CASE j # j0
      <4>1. kickoff[j].key \in Keys /\ kickoff[j].key # x
        BY <1>1, <1>2, <1>4, <3>2, KickoffElement DEF FixedInv, RunFits
      <4>2. ran[kickoff[j].key] = IF kickoff[j].done THEN 1 ELSE 0
        BY <1>4 DEF FixedInv, RunFits
      <4> QED BY <1>4, <1>7, <3>2, <4>1, <4>2
    <3> QED BY <3>1, <3>2
  <2>3. \A k \in Keys : ran'[k] < 2
    BY <1>7 DEF FixedInv, RunFits
  <2>4. ASSUME NEW k \in Keys, ran'[k] > 0 \/ \E j \in DOMAIN kickoff' : kickoff'[j].key = k
        PROVE  k \in InitWorkers /\ DF!Supported(k, Computed(ran'))
    <3>1. ran[k] > 0 \/ \E j \in DOMAIN kickoff : kickoff[j].key = k
      BY <1>2, <1>4, <1>7, <2>4
    <3>2. k \in InitWorkers /\ DF!Supported(k, C)
      BY <3>1 DEF FixedInv, RunFits
    <3> QED BY <1>8, <3>2, SupportGrows
  <2>5. ASSUME NEW k \in InitWorkers
        PROVE  triggers'[k] = InitDeps[k] \ (IF ran'[k] > 0 THEN {} ELSE Computed(ran'))
    <3>1. k \in Keys /\ triggers[k] = InitDeps[k] \ (IF ran[k] > 0 THEN {} ELSE C)
      BY InitAssumption DEF FixedInv, RunFits
    <3>2. k \in forwards[x] <=> x \in InitDeps[k]
      BY <1>1, <3>1, FixedForwards
    <3>3. CASE k = x
      BY <1>5, <1>7, <3>1, <3>3
    <3>4. CASE k # x /\ ran[k] > 0
      <4>1. DF!Supported(k, C)
        BY <3>1, <3>4 DEF FixedInv, RunFits
      <4>2. x \notin InitDeps[k]
        BY <1>3, <4>1, SupportMeans
      <4> QED BY <1>5, <1>7, <3>1, <3>2, <3>4, <4>2
    <3>5. CASE k # x /\ ~ (ran[k] > 0)
      BY <1>5, <1>7, <1>8, <3>1, <3>2, <3>5
    <3> QED BY <3>3, <3>4, <3>5
  <2> QED BY <2>1, <2>2, <2>3, <2>4, <2>5 DEF RunFits
<1>11. NoneLeftOut(kickoff', ran')
  <2> SUFFICES ASSUME NEW k \in InitWorkers, DF!Supported(k, C \union {x})
               PROVE  \/ ran'[k] > 0
                      \/ \E j \in DOMAIN kickoff' : IF kickoff'[j].done THEN kickoff'[j].key \in InitDeps[k]
                                                                        ELSE kickoff'[j].key = k
    BY <1>8 DEF NoneLeftOut
  <2>1. k \in Keys
    BY InitAssumption
  <2>2. CASE DF!Supported(k, C)
    <3>1. \/ ran[k] > 0
          \/ \E j \in DOMAIN kickoff : IF kickoff[j].done THEN kickoff[j].key \in InitDeps[k]
                                                          ELSE kickoff[j].key = k
      BY <1>1, <2>2 DEF FixedInv, NoneLeftOut
    <3>2. CASE ran[k] > 0
      BY <1>7, <2>1, <3>2
    <3>3. CASE k = x
      BY <1>7, <3>3
    <3>4. ASSUME NEW j \in DOMAIN kickoff, k # x,
                 IF kickoff[j].done THEN kickoff[j].key \in InitDeps[k] ELSE kickoff[j].key = k
          PROVE  j \in DOMAIN kickoff' /\ IF kickoff'[j].done THEN kickoff'[j].key \in InitDeps[k]
                                                               ELSE kickoff'[j].key = k
      BY <1>2, <1>4, <3>4
    <3> QED BY <3>1, <3>2, <3>3, <3>4
  <2>3. CASE ~ DF!Supported(k, C)
    <3>1. x \in InitDeps[k]
      BY <2>3 DEF DF!Supported
    <3> QED BY <1>2, <1>4, <3>1
  <2> QED BY <2>2, <2>3
<1>12. TasksFit'
  <2>1. \A i, j \in DOMAIN tasks' : tasks'[i].key = tasks'[j].key => i = j
    BY <1>9 DEF FixedInv, TasksFit
  <2>2. ASSUME NEW i \in DOMAIN tasks'
        PROVE  /\ tasks'[i].status \in {"running", "returned", "askedNew", "askedAgain"}
               /\ tasks'[i].status \in {"askedNew", "askedAgain"} => Questions[tasks'[i].key] > 0
    BY <1>9 DEF FixedInv, TasksFit
  <2>3. ASSUME NEW i \in DOMAIN tasks'
        PROVE  \E j \in DOMAIN kickoff' :
                 /\ kickoff'[j].key = tasks'[i].key
                 /\ kickoff'[j].done => tasks'[i].status = "returned" /\ Collected(i)'
                 /\ pc' = "driving" => j < cursor'
    <3>1. DOMAIN tasks \subseteq Nat
      BY <1>1 DEF TypeOK
    <3>2. CASE i = cursor
      <4>1. i < cursor'
        BY <1>1, <3>2
      <4> QED BY <1>1, <1>2, <1>4, <1>9, <3>2, <4>1 DEF Collected
    <3>3. CASE i # cursor
      <4>1. PICK j \in DOMAIN kickoff :
              /\ kickoff[j].key = tasks[i].key
              /\ kickoff[j].done => tasks[i].status = "returned" /\ Collected(i)
        BY <1>9 DEF FixedInv, TasksFit
      <4>2. j # j0
        BY <1>1, <1>2, <1>9, <3>3, <4>1 DEF FixedInv, TasksFit
      <4>3. Collected(i) => Collected(i)'
        BY <1>1, <1>9, <3>1 DEF Collected
      <4> QED BY <1>1, <1>4, <1>9, <4>1, <4>2, <4>3
    <3> QED BY <3>2, <3>3
  <2> QED BY <1>1, <2>1, <2>2, <2>3 DEF TasksFit
<1>13. SnapshotFits'
  BY <1>1 DEF FixedInv, SnapshotFits, RunFits, NoneLeftOut, Computed
<1>14. RunFits(kickoff, triggers, ran)' /\ NoneLeftOut(kickoff, ran)'
  BY <1>10, <1>11 DEF RunFits, NoneLeftOut, Computed
<1> QED BY <1>1, <1>5, <1>12, <1>13, <1>14 DEF FixedInv

\* A task that asked leaves the run as it is, and none raised.
LEMMA CollectFixed ==
  ASSUME FixedProgram, FixedInv, IInv', CollectTask
  PROVE  FixedInv'
<1> DEFINE t == tasks[cursor]
<1>1. cursor \in DOMAIN tasks /\ cursor \in Nat /\ DOMAIN tasks \subseteq Nat
  <2>1. TypeOK
    BY DEF FixedInv, IInv
  <2> QED BY <2>1, CollectedTask DEF TypeOK
<1>2. t.status \in {"running", "returned", "askedNew", "askedAgain"}
  BY <1>1 DEF FixedInv, TasksFit
<1>3. CASE CollectReturned(t)
  BY <1>3, ReturnedFixed
<1>4. CASE CollectAsked(t)
  <2>1. /\ pc = "collecting" /\ pc' = pc /\ cursor' = cursor + 1 /\ automaRunning
        /\ UNCHANGED <<graphVars, topology, ferries, kickoff, ran, automaRunning, snapshot, tasks>>
    BY <1>4, RunningWhileCalled DEF CollectTask, CollectAsked, appVars
  <2>2. \A i \in DOMAIN tasks : Collected(i) => Collected(i)'
    BY <1>1, <2>1 DEF Collected
  <2>3. TasksFit'
    BY <2>1, <2>2 DEF FixedInv, TasksFit
  <2> QED BY <2>1, <2>3, FixedFrame
<1>5. CASE CollectRaised(t)
  BY <1>2, <1>5 DEF CollectRaised
<1> QED BY <1>3, <1>4, <1>5 DEF CollectTask

-----------------------------------------------------------------------------
(***************************************************************************)
(* The end of a step, a reload, and a call that is rejected.               *)
(***************************************************************************)
\* The paused run still has a worker to execute: the one that asked.
LEMMA InterruptFixed ==
  ASSUME FixedInv, IInv', Interrupt
  PROVE  FixedInv'
<1>1. /\ pc = "deciding" /\ pc' = "idle" /\ automaRunning /\ automaRunning'
      /\ tasks' = <<>> /\ topology' = <<>> /\ ferries' = <<>> /\ snapshot' = Dump
      /\ UNCHANGED <<graphVars, kickoff, ran>>
  BY RunningWhileCalled DEF Interrupt, ClearTaskLevelState, GoTo, automaVars, histVars
<1>2. DOMAIN kickoff # {}
  BY DEF FixedInv, TasksFit, Interrupt, Asked, SomeTask
<1>3. kickoff # <<>>
  BY <1>2
<1>4. TasksFit'
  BY <1>1 DEF TasksFit
<1>5. RunFits(kickoff, triggers, ran) /\ NoneLeftOut(kickoff, ran)
  BY <1>1 DEF FixedInv
<1>6. /\ Dump.workers = InitWorkers /\ Dump.deps = InitDeps
      /\ Dump.kickoff = kickoff /\ Dump.triggers = triggers /\ Dump.ran = ran
  BY DEF Dump, FixedInv
<1>7. SnapshotFits'
  BY <1>1, <1>3, <1>5, <1>6 DEF SnapshotFits, RunFits, NoneLeftOut, Computed
<1>8. RunFits(kickoff, triggers, ran)' /\ NoneLeftOut(kickoff, ran)'
  BY <1>1, <1>5 DEF RunFits, NoneLeftOut, Computed, graphVars
<1> QED BY <1>1, <1>3, <1>4, <1>7, <1>8 DEF FixedInv, graphVars

\* A successor that waits for nothing was not computed in this run, and all that it
\* depends on was.
LEMMA ReadyIsDue ==
  ASSUME FixedInv, NEW s \in Ready
  PROVE  s \in InitWorkers /\ ran[s] = 0 /\ DF!Supported(s, Computed(ran))
<1>1. s \in Keys /\ triggers[s] = {}
  BY DEF Ready
<1>2. PICK j \in DOMAIN kickoff : s \in forwards[kickoff[j].key]
  BY DEF Ready
<1>3. kickoff[j].key \in Keys
  BY KickoffElement DEF FixedInv, IInv
<1>4. kickoff[j].key \in InitDeps[s] /\ s \in InitWorkers
  BY <1>1, <1>2, <1>3, FixedForwards
<1>5. triggers[s] = InitDeps[s] \ (IF ran[s] > 0 THEN {} ELSE Computed(ran))
  BY <1>4 DEF FixedInv, RunFits
<1>6. ~ (ran[s] > 0) /\ InitDeps[s] \subseteq Computed(ran)
  BY <1>1, <1>4, <1>5
<1>7. ran[s] = 0
  <2>1. ran \in [Keys -> {0, 1, 2}]
    BY DEF FixedInv, IInv, TypeOK
  <2> QED BY <1>1, <1>6, <2>1
<1> QED BY <1>4, <1>6, <1>7 DEF DF!Supported

\* With no ferries pending, the next step kicks off exactly the workers that are ready.
LEMMA NextKickoffsReady ==
  ASSUME FixedInv, NEW q \in SetToSeqs(Ready),
         kickoff' = Entries(ferries, "ferry") \o Entries(q, "deps")
  PROVE  /\ \A i, j \in DOMAIN kickoff' : kickoff'[i].key = kickoff'[j].key => i = j
         /\ \A j \in DOMAIN kickoff' : kickoff'[j].key \in Ready /\ ~ kickoff'[j].done
         /\ \A k \in Ready : \E j \in DOMAIN kickoff' : kickoff'[j].key = k
<1>1. Ready \in SUBSET Keys
  BY DEF Ready
<1>2. Entries(q, "deps") \in Seq(Kickoff)
  <2>1. q \in Seq(Keys) /\ "deps" \in {"automa", "ferry", "deps"}
    BY <1>1, OrderingType
  <2> QED BY <2>1, EntriesType
<1>3. Entries(ferries, "ferry") = <<>>
  BY DEF Entries, FixedInv
<1>4. kickoff' = Entries(q, "deps")
  BY <1>2, <1>3, ConcatEmptySeq
<1>5. PICK R \in SUBSET Keys : R = Ready
  BY <1>1
<1>6. q \in SetToSeqs(R)
  BY <1>5
<1> DEFINE ko == Entries(q, "deps")
<1>7. /\ \A i, j \in DOMAIN ko : ko[i].key = ko[j].key => i = j
      /\ \A j \in DOMAIN ko : ko[j].key \in R /\ ~ ko[j].done
      /\ \A k \in R : \E j \in DOMAIN ko : ko[j].key = k
  BY <1>6, EntriesFit
<1> HIDE DEF ko
<1>8. kickoff' = ko
  BY <1>4 DEF ko
<1> QED BY <1>5, <1>7, <1>8

\* Whoever is due is kicked off in the next step.
LEMMA NextStepFixed ==
  ASSUME FixedProgram, FixedInv, IInv', NextStep
  PROVE  FixedInv'
<1>1. pc = "deciding" /\ automaRunning
  BY RunningWhileCalled DEF NextStep
<1>2. CASE Escape /\ UNCHANGED graphVars
  <2>1. pc' = "broken" /\ UNCHANGED <<graphVars, automaVars, taskVars, appVars, histVars>>
    BY <1>2 DEF Escape
  <2> QED BY <1>1, <2>1, PhaseFixed
<1>3. CASE \A j \in DOMAIN kickoff : kickoff[j].done
  <2>1. /\ pc' = "driving" /\ cursor' = 1 /\ tasks' = <<>> /\ topology' = <<>> /\ ferries' = <<>>
        /\ UNCHANGED <<graphVars, automaRunning, ran, snapshot>>
    BY <1>3 DEF NextStep, ClearTaskLevelState, GoTo, appVars, histVars
  <2>2. PICK q \in SetToSeqs(Ready) : kickoff' = Entries(ferries, "ferry") \o Entries(q, "deps")
    BY <1>3 DEF NextStep
  <2>3. /\ \A i, j \in DOMAIN kickoff' : kickoff'[i].key = kickoff'[j].key => i = j
        /\ \A j \in DOMAIN kickoff' : kickoff'[j].key \in Ready /\ ~ kickoff'[j].done
        /\ \A k \in Ready : \E j \in DOMAIN kickoff' : kickoff'[j].key = k
    BY <2>2, NextKickoffsReady
  <2>4. \A j \in DOMAIN kickoff' : /\ kickoff'[j].key \in InitWorkers /\ ran[kickoff'[j].key] = 0
                                   /\ DF!Supported(kickoff'[j].key, Computed(ran))
    BY <2>3, ReadyIsDue
  <2>5. RunFits(kickoff', triggers, ran)
    BY <2>3, <2>4 DEF FixedInv, RunFits
  <2>6. NoneLeftOut(kickoff', ran)
    <3> SUFFICES ASSUME NEW k \in InitWorkers, DF!Supported(k, Computed(ran)), ~ (ran[k] > 0)
                 PROVE  \E j \in DOMAIN kickoff' : kickoff'[j].key = k
      BY <2>3 DEF NoneLeftOut
    <3>1. k \in Keys
      BY InitAssumption
    <3>2. PICK j \in DOMAIN kickoff : kickoff[j].key \in InitDeps[k]
      BY <1>1, <1>3 DEF FixedInv, NoneLeftOut
    <3>3. k \in forwards[kickoff[j].key]
      <4>1. kickoff[j].key \in Keys
        BY KickoffElement DEF FixedInv, IInv
      <4> QED BY <3>1, <3>2, <4>1, FixedForwards
    <3>4. triggers[k] = {}
      <4>1. InitDeps[k] \subseteq Computed(ran)
        BY SupportMeans
      <4>2. triggers[k] = InitDeps[k] \ Computed(ran)
        BY DEF FixedInv, RunFits
      <4> QED BY <4>1, <4>2
    <3> QED BY <2>3, <3>1, <3>3, <3>4 DEF Ready
  <2>7. RunFits(kickoff, triggers, ran)' /\ NoneLeftOut(kickoff, ran)'
    BY <2>1, <2>5, <2>6 DEF RunFits, NoneLeftOut, Computed, graphVars
  <2>8. TasksFit'
    BY <2>1 DEF TasksFit
  <2>9. SnapshotFits'
    BY <2>1 DEF FixedInv, SnapshotFits, RunFits, NoneLeftOut, Computed
  <2> QED BY <1>1, <2>1, <2>7, <2>8, <2>9 DEF FixedInv, graphVars
<1> QED BY <1>2, <1>3 DEF NextStep

\* A reload brings back a run that fits.
LEMMA RestoreFixed ==
  ASSUME FixedInv, IInv', Restore
  PROVE  FixedInv'
<1>1. /\ pc' = "idle" /\ automaRunning' /\ tasks' = <<>> /\ topology' = <<>> /\ ferries' = <<>>
      /\ workers' = snapshot.workers /\ deps' = snapshot.deps /\ triggers' = snapshot.triggers
      /\ kickoff' = snapshot.kickoff /\ ran' = snapshot.ran /\ snapshot' = snapshot
  BY DEF Restore, ClearTaskLevelState, GoTo
<1>2. /\ snapshot.workers = InitWorkers /\ snapshot.deps = InitDeps
      /\ RunFits(snapshot.kickoff, snapshot.triggers, snapshot.ran)
      /\ NoneLeftOut(snapshot.kickoff, snapshot.ran) /\ snapshot.kickoff # <<>>
  BY DEF Restore, FixedInv, SnapshotFits
<1>3. TasksFit'
  BY <1>1 DEF TasksFit
<1>4. RunFits(kickoff, triggers, ran)' /\ NoneLeftOut(kickoff, ran)'
  BY <1>1, <1>2 DEF RunFits, NoneLeftOut, Computed
<1>5. SnapshotFits'
  BY <1>1 DEF FixedInv, SnapshotFits, RunFits, NoneLeftOut, Computed
<1> QED BY <1>1, <1>2, <1>3, <1>4, <1>5 DEF FixedInv

\* A step that leaves the run, the tasks and the snapshot alone.
LEMMA StillFixed ==
  ASSUME FixedInv, IInv',
         UNCHANGED <<graphVars, topology, ferries, kickoff, ran, automaRunning, snapshot,
                     tasks, pc, cursor>>
  PROVE  FixedInv'
<1>1. TasksFit'
  BY DEF FixedInv, TasksFit, Collected
<1>2. RunFits(kickoff, triggers, ran)' /\ (NoneLeftOut(kickoff, ran) => NoneLeftOut(kickoff, ran)')
  BY DEF FixedInv, RunFits, NoneLeftOut, Computed, graphVars
<1>3. BetweenRuns => BetweenRuns'
  BY DEF BetweenRuns, NoneLeftOut, Computed
<1>4. SnapshotFits'
  BY DEF FixedInv, SnapshotFits, RunFits, NoneLeftOut, Computed
<1> QED BY <1>1, <1>2, <1>3, <1>4 DEF FixedInv, graphVars

-----------------------------------------------------------------------------
(***************************************************************************)
(* The invariant.                                                          *)
(***************************************************************************)
\* Nothing is computed, kicked off or waited for in vain when the automa is constructed.
LEMMA InitFixed == Init => FixedInv
<1> SUFFICES ASSUME Init PROVE FixedInv
  OBVIOUS
<1>1. IInv
  BY InitInvariant
<1>2. /\ workers = InitWorkers /\ deps = InitDeps /\ triggers = InitDeps
      /\ kickoff = <<>> /\ tasks = <<>> /\ topology = <<>> /\ ferries = <<>>
      /\ pc = "idle" /\ ~ automaRunning /\ snapshot = None /\ ran = [k \in Keys |-> 0]
  BY DEF Init, GraphInit
<1>3. Computed(ran) = {} /\ \A k \in Keys : ran[k] = 0
  BY <1>2 DEF Computed
<1>4. RunFits(kickoff, triggers, ran)
  BY <1>2, <1>3, InitAssumption DEF RunFits
<1>5. TasksFit
  BY <1>2 DEF TasksFit
<1> QED BY <1>1, <1>2, <1>3, <1>4, <1>5 DEF FixedInv, BetweenRuns, SnapshotFits

\* Every step preserves it, action by action.
LEMMA StepFixed == FixedProgram /\ FixedInv /\ [Next]_vars => FixedInv'
<1> SUFFICES ASSUME FixedProgram, FixedInv, [Next]_vars PROVE FixedInv'
  OBVIOUS
<1>1. IInv'
  BY StepInvariant DEF FixedInv
<1>2. topology = <<>> /\ Changes = {} /\ cursor \in Nat \ {0}
  BY DEF FixedInv, FixedProgram, IInv, TypeOK
<1>3. CASE StartTask
  BY <1>1, <1>3, StartTaskFixed
<1>4. CASE Await \/ AllDone \/ ChangesApplied \/ Validate
  <2>1. /\ pc # "idle" /\ pc' \notin {"idle", "driving"}
        /\ pc \in {"deciding", "broken"} => pc' \in {"deciding", "broken"}
        /\ pc = "collecting" => pc' \in {"deciding", "broken"}
        /\ UNCHANGED <<graphVars, automaVars, taskVars, appVars, histVars>>
    BY <1>2, <1>4 DEF Await, AllDone, ChangesApplied, Validate, GoTo
  <2> QED BY <1>1, <2>1, PhaseFixed
<1>5. CASE Finish
  BY <1>1, <1>5, FinishFixed
<1>6. CASE ApplyNextChange
  <2>1. Len(topology) = 0 /\ cursor <= Len(topology)
    BY <1>2, <1>6 DEF ApplyNextChange
  <2> QED BY <1>2, <2>1
<1>7. CASE CollectTask
  BY <1>1, <1>7, CollectFixed
<1>8. CASE Interrupt
  BY <1>1, <1>8, InterruptFixed
<1>9. CASE Fail
  BY <1>9 DEF Fail, Failed, SomeTask, FixedInv, TasksFit
<1>10. CASE NextStep
  BY <1>1, <1>10, NextStepFixed
<1>11. CASE \E answers \in SUBSET Open : Arun(answers)
  BY <1>1, <1>11, ArunFixed
<1>12. CASE ArunRejected
  <2>1. UNCHANGED <<graphVars, topology, ferries, kickoff, ran, automaRunning, snapshot,
                    tasks, pc, cursor>>
    BY <1>12 DEF ArunRejected, taskVars, histVars
  <2> QED BY <1>1, <2>1, StillFixed
<1>13. CASE \E c \in Changes : RequestChange(c)
  BY <1>2, <1>13
<1>14. CASE Restore
  BY <1>1, <1>14, RestoreFixed
<1>15. CASE \E i \in DOMAIN tasks : Worker(i)
  BY <1>1, <1>15, WorkerFixed
<1>16. CASE UNCHANGED vars
  <2>1. UNCHANGED <<graphVars, topology, ferries, kickoff, ran, automaRunning, snapshot,
                    tasks, pc, cursor>>
    BY <1>16 DEF vars, automaVars, taskVars, appVars, histVars
  <2> QED BY <1>1, <2>1, StillFixed
<1> QED BY <1>3, <1>4, <1>5, <1>6, <1>7, <1>8, <1>9, <1>10, <1>11, <1>12, <1>13, <1>14, <1>15,
           <1>16 DEF Next, Schedule, Application

-----------------------------------------------------------------------------
(***************************************************************************)
(* The scheduler implements Dataflow.                                      *)
(***************************************************************************)
\* A step that leaves the run's history alone does not show.
LEMMA Unseen ==
  ASSUME UNCHANGED ran
  PROVE  UNCHANGED {k \in Keys : ran[k] > 0}
OBVIOUS

\* Collecting a worker computes it; the others leave the history alone.
LEMMA CollectComputes ==
  ASSUME FixedInv, CollectTask
  PROVE  (\E k \in InitWorkers : DF!Compute(k)) \/ UNCHANGED {k \in Keys : ran[k] > 0}
<1> DEFINE t == tasks[cursor]
           x == t.key
<1>1. CASE CollectAsked(t) \/ CollectRaised(t)
  BY <1>1, Unseen DEF CollectAsked, CollectRaised
<1>2. CASE CollectReturned(t)
  <2>1. /\ TypeOK /\ pc = "collecting" /\ cursor \in DOMAIN tasks /\ x \in Keys
        /\ workers = InitWorkers
    <3>1. TypeOK /\ pc = "collecting" /\ workers = InitWorkers
      BY DEF FixedInv, IInv, CollectTask
    <3>2. cursor \in DOMAIN tasks
      BY <3>1, CollectedTask DEF TypeOK
    <3> QED BY <3>1, <3>2, TaskElement
  <2>2. t.status = "returned"
    BY <1>2, <2>1 DEF FixedInv, TasksFit, CollectReturned
  <2>3. PICK j \in DOMAIN kickoff : kickoff[j].key = x /\ (kickoff[j].done => Collected(cursor))
    BY <2>1 DEF FixedInv, TasksFit
  <2>4. ~ kickoff[j].done
    <3>1. cursor \in Nat
      BY <2>1 DEF TypeOK
    <3> QED BY <2>1, <2>3, <3>1 DEF Collected
  <2>5. x \in InitWorkers /\ ran[x] = 0 /\ DF!Supported(x, Computed(ran))
    <3>1. ran[x] = 0
      BY <2>3, <2>4 DEF FixedInv, RunFits
    <3>2. x \in InitWorkers /\ DF!Supported(x, Computed(ran))
      BY <2>1, <2>3 DEF FixedInv, RunFits
    <3> QED BY <3>1, <3>2
  <2>6. ran' = [ran EXCEPT ![x] = 1]
    BY <1>2, <2>1, <2>5 DEF CollectReturned
  <2>7. ran \in [Keys -> {0, 1, 2}]
    BY <2>1 DEF TypeOK
  <2>8. x \notin Computed(ran) /\ Computed(ran') = Computed(ran) \union {x}
    BY <2>1, <2>5, <2>6, <2>7 DEF Computed
  <2>9. PICK k \in InitWorkers : k = x
    BY <2>5
  <2>10. DF!Compute(k)
    BY <2>5, <2>8, <2>9 DEF DF!Compute, DF!Supported, Computed
  <2> QED BY <2>10
<1> QED BY <1>1, <1>2 DEF CollectTask

\* A run begins when the last one has computed all that it could.
LEMMA ArunBegins ==
  ASSUME FixedInv, NEW answers, Arun(answers)
  PROVE  DF!NewRun \/ UNCHANGED {k \in Keys : ran[k] > 0}
<1>1. CASE kickoff # <<>>
  BY <1>1, Unseen DEF Arun, Begin
<1>2. CASE kickoff = <<>>
  <2>1. ran' = [k \in Keys |-> 0] /\ pc = "idle"
    BY <1>2 DEF Arun, Begin
  <2>2. Computed(ran') = {}
    BY <2>1 DEF Computed
  <2>3. Computed(ran) = {} \/ NoneLeftOut(kickoff, ran)
    BY <1>2, <2>1 DEF FixedInv, BetweenRuns
  <2>4. CASE Computed(ran) = {}
    BY <2>2, <2>4 DEF Computed
  <2>5. CASE NoneLeftOut(kickoff, ran)
    <3>1. \A k \in InitWorkers : DF!Supported(k, Computed(ran)) => k \in Computed(ran)
      BY <1>2, <2>5, InitAssumption DEF NoneLeftOut, Computed
    <3>2. \A k \in InitWorkers \ Computed(ran) : ~ DF!Supported(k, Computed(ran))
      BY <3>1
    <3> QED BY <2>2, <3>2 DEF DF!NewRun, DF!Supported, Computed
  <2> QED BY <2>3, <2>4, <2>5
<1> QED BY <1>1, <1>2

\* A reload goes back to a set of workers that a run can have computed.
LEMMA RestoreReloads ==
  ASSUME FixedInv, Restore
  PROVE  DF!Reload
<1>1. ran' = snapshot.ran /\ RunFits(snapshot.kickoff, snapshot.triggers, snapshot.ran)
  BY DEF Restore, FixedInv, SnapshotFits
<1>2. \A k \in Keys : ran'[k] > 0 => k \in InitWorkers /\ DF!Supported(k, Computed(ran'))
  BY <1>1 DEF RunFits
<1>3. Computed(ran') \in {S \in SUBSET InitWorkers : \A k \in S : DF!Supported(k, S)}
  BY <1>2 DEF Computed
<1>4. MaxRestores > 0
  BY AutomaAssumption DEF Restore, FixedInv, IInv, TypeOK
<1> QED BY <1>3, <1>4 DEF DF!Reload, DF!Supported, Computed

\* Every step is one of Dataflow, or does not show.
LEMMA StepDataflow ==
  ASSUME FixedProgram, FixedInv, [Next]_vars
  PROVE  DF!Next \/ UNCHANGED {k \in Keys : ran[k] > 0}
<1>1. CASE CollectTask
  BY <1>1, CollectComputes DEF DF!Next
<1>2. CASE \E answers \in SUBSET Open : Arun(answers)
  BY <1>2, ArunBegins DEF DF!Next
<1>3. CASE Restore
  BY <1>3, RestoreReloads DEF DF!Next
<1>4. CASE \E i \in DOMAIN tasks : Worker(i)
  <2>1. UNCHANGED ran
    BY <1>4 DEF Worker, WorkerReturns, WorkerRaises, WorkerAsks, Ferry, WorkerUnchanged, histVars
  <2> QED BY <2>1, Unseen
<1>5. CASE \/ StartTask \/ Await \/ Finish \/ AllDone \/ ChangesApplied \/ Validate
           \/ Interrupt \/ Fail \/ NextStep \/ ArunRejected
  <2>1. UNCHANGED ran
    BY <1>5 DEF StartTask, Await, Finish, AllDone, ChangesApplied, Validate, Interrupt, Fail,
                NextStep, ArunRejected, Escape, histVars
  <2> QED BY <2>1, Unseen
<1>6. CASE ApplyNextChange \/ \E c \in Changes : RequestChange(c)
  <2>1. Len(topology) = 0 /\ cursor \in Nat \ {0} /\ Changes = {}
    BY DEF FixedInv, FixedProgram, IInv, TypeOK
  <2> QED BY <1>6, <2>1 DEF ApplyNextChange
<1>7. CASE UNCHANGED vars
  BY <1>7, Unseen DEF vars, histVars
<1> QED BY <1>1, <1>2, <1>3, <1>4, <1>5, <1>6, <1>7 DEF Next, Schedule, Application

-----------------------------------------------------------------------------
(***************************************************************************)
(* The output of a run, where whoever asks comes before the output workers.*)
(***************************************************************************)
\* All that a computed worker depends on is computed: when a task asks, no output
\* worker is.
LEMMA NoOutputYet ==
  ASSUME FixedProgram, OutputLast, FixedInv, Asked, NEW o \in OutputKeys
  PROVE  ran[o] = 0
<1> SUFFICES ASSUME ran[o] # 0 PROVE FALSE
  OBVIOUS
<1>1. o \in Computed(ran) /\ Computed(ran) \in SUBSET Keys
  <2>1. o \in Keys /\ ran \in [Keys -> {0, 1, 2}]
    BY AutomaAssumption DEF FixedInv, IInv, TypeOK
  <2> QED BY <2>1 DEF Computed
<1>2. \A k \in Computed(ran) : InitDeps[k] \subseteq Computed(ran)
  <2> SUFFICES ASSUME NEW k \in Computed(ran) PROVE InitDeps[k] \subseteq Computed(ran)
    OBVIOUS
  <2>1. k \in InitWorkers /\ DF!Supported(k, Computed(ran))
    BY DEF FixedInv, RunFits, Computed
  <2> QED BY <2>1, SupportMeans
<1>3. \A k \in InitWorkers : Questions[k] > 0 => k \in Computed(ran)
  BY <1>1, <1>2 DEF OutputLast
<1>4. PICK i \in DOMAIN tasks : tasks[i].status \in {"askedNew", "askedAgain"}
  BY DEF Asked, SomeTask
<1>5. Questions[tasks[i].key] > 0
  BY <1>4 DEF FixedInv, TasksFit
<1>6. PICK j \in DOMAIN kickoff : kickoff[j].key = tasks[i].key /\ ~ kickoff[j].done
  BY <1>4 DEF FixedInv, TasksFit
<1>7. tasks[i].key \in InitWorkers /\ ran[tasks[i].key] = 0
  <2>1. tasks[i].key \in Keys
    BY TaskElement DEF FixedInv, IInv
  <2> QED BY <1>6, <2>1 DEF FixedInv, RunFits
<1> QED BY <1>3, <1>5, <1>7 DEF Computed

\* Most steps leave alone what the output depends on.
LEMMA OutputFrame ==
  ASSUME OutputInv, pc # "idle", pc' \notin {"idle", "broken"}, pc # "broken",
         UNCHANGED <<automaVars, ran, appVars, tasks, outputKeys>>
  PROVE  OutputInv'
BY DEF OutputInv, ResultOfThisRun, automaVars, appVars

\* An exception that escapes leaves an automa that is not used any more.
LEMMA OutputEscape ==
  ASSUME OutputInv, Escape
  PROVE  OutputInv'
BY DEF OutputInv, ResultOfThisRun, Escape, automaVars, taskVars, appVars, histVars

\* A run begins without output; a resumed one had none when it was paused.
LEMMA ArunOutput ==
  ASSUME FixedInv, OutputInv, NEW answers, Arun(answers)
  PROVE  OutputInv'
<1>1. /\ pc = "idle" /\ pc' = "driving" /\ automaRunning' /\ outputKeys' = {} /\ tasks = <<>>
      /\ UNCHANGED <<output, tasks, snapshot>>
  BY DEF Arun, Begin, GoTo, taskVars, FixedInv, TasksFit
<1>2. CASE automaRunning
  <2>1. kickoff # <<>>
    BY <1>1, <1>2 DEF FixedInv
  <2>2. UNCHANGED <<inputs, ran, runs>>
    BY <1>2, <2>1 DEF Arun, Begin
  <2>3. \A o \in OutputKeys : ran[o] = 0
    BY <1>1, <1>2 DEF OutputInv
  <2> QED BY <1>1, <1>2, <2>2, <2>3 DEF OutputInv, ResultOfThisRun
<1>3. CASE ~ automaRunning
  <2>1. inputs' = runs' /\ ran' = [k \in Keys |-> 0]
    BY <1>3 DEF Arun, Begin, FixedInv, BetweenRuns
  <2>2. \A k \in Keys : ran'[k] = 0
    BY <2>1
  <2>3. OutputKeys \subseteq Keys
    BY AutomaAssumption
  <2> QED BY <1>1, <2>1, <2>2, <2>3 DEF OutputInv, ResultOfThisRun
<1> QED BY <1>2, <1>3

\* An output worker that is started is the output worker of this call.
LEMMA StartTaskOutput ==
  ASSUME FixedInv, OutputInv, StartTask
  PROVE  OutputInv'
<1> DEFINE e == kickoff[cursor]
           t == [key |-> e.key, status |-> "running", answered |-> 0, from |-> inputs]
<1>1. CASE Escape
  BY <1>1, OutputEscape
<1>2. CASE e.done /\ UNCHANGED <<tasks, outputKeys, automaVars, pc, appVars, histVars>>
  <2>1. pc = "driving"
    BY DEF StartTask
  <2> QED BY <1>2, <2>1, OutputFrame DEF histVars
<1>3. CASE /\ tasks' = Append(tasks, t) /\ outputKeys' = outputKeys \union ({e.key} \cap OutputKeys)
           /\ UNCHANGED <<automaVars, pc, appVars, histVars>>
  <2>1. /\ pc = "driving" /\ automaRunning /\ tasks \in Seq(Task)
        /\ UNCHANGED <<inputs, runs, automaRunning, ran, output, snapshot, pc>>
    BY <1>3, RunningWhileCalled DEF StartTask, FixedInv, IInv, TypeOK, automaVars, appVars, histVars
  <2>2. /\ DOMAIN tasks' = 1..(Len(tasks) + 1) /\ DOMAIN tasks = 1..Len(tasks) /\ Len(tasks) \in Nat
        /\ \A i \in DOMAIN tasks : tasks'[i] = tasks[i]
        /\ tasks'[Len(tasks) + 1] = t
    BY <1>3, <2>1
  <2>3. t.key = e.key /\ t.from = inputs /\ inputs = runs
    BY <2>1 DEF OutputInv
  <2> HIDE DEF t
  <2>4. \A i \in DOMAIN tasks' : i \in DOMAIN tasks \/ i = Len(tasks) + 1
    BY <2>2
  <2>5. \A i \in DOMAIN tasks' : tasks'[i].from = runs
    BY <2>2, <2>3, <2>4 DEF OutputInv
  <2>6. \A i \in DOMAIN tasks' : tasks'[i].key \in OutputKeys => tasks'[i].key \in outputKeys'
    BY <1>3, <2>1, <2>2, <2>3, <2>4 DEF OutputInv
  <2>7. \A o \in outputKeys' : ran[o] > 0 \/ \E i \in DOMAIN tasks' : tasks'[i].key = o
    <3> SUFFICES ASSUME NEW o \in outputKeys'
                 PROVE  ran[o] > 0 \/ \E i \in DOMAIN tasks' : tasks'[i].key = o
      OBVIOUS
    <3>1. CASE o \in outputKeys
      <4>1. ran[o] > 0 \/ \E i \in DOMAIN tasks : tasks[i].key = o
        BY <2>1, <3>1 DEF OutputInv
      <4>2. DOMAIN tasks \subseteq DOMAIN tasks'
        BY <2>2
      <4> QED BY <2>2, <4>1, <4>2
    <3>2. CASE o = e.key
      <4>1. Len(tasks) + 1 \in DOMAIN tasks'
        BY <2>2
      <4> QED BY <2>2, <2>3, <3>2, <4>1
    <3> QED BY <1>3, <3>1, <3>2
  <2>8. outputKeys' \subseteq OutputKeys /\ outputKeys \subseteq outputKeys'
    BY <1>3 DEF OutputInv
  <2> QED BY <2>1, <2>5, <2>6, <2>7, <2>8 DEF OutputInv, ResultOfThisRun
<1> QED BY <1>1, <1>2, <1>3 DEF StartTask, taskVars

\* The value that a completed run returns is the one its output worker stored.
LEMMA FinishOutput ==
  ASSUME FixedInv, OutputInv, Finish
  PROVE  OutputInv'
<1>1. /\ pc = "driving" /\ pc' = "idle" /\ ~ automaRunning' /\ DOMAIN kickoff = {}
      /\ UNCHANGED <<output, ran, tasks, outputKeys, runs, snapshot>>
      /\ IF outputKeys = {} THEN result' = 0 ELSE \E k \in outputKeys : result' = output[k]
  BY DEF Finish, GoTo, ClearRunLevelState, histVars
<1>2. DOMAIN tasks = {}
  BY <1>1 DEF FixedInv, TasksFit
<1>3. ASSUME NEW o \in OutputKeys, ran[o] > 0
      PROVE  result' = runs
  <2>1. o \in outputKeys
    BY <1>1, <1>3 DEF OutputInv
  <2>2. PICK k \in outputKeys : result' = output[k]
    BY <1>1, <2>1
  <2>3. k \in Keys /\ ran[k] > 0
    BY <1>1, <1>2, AutomaAssumption DEF OutputInv
  <2> QED BY <2>2, <2>3 DEF OutputInv
<1> QED BY <1>1, <1>3 DEF OutputInv, ResultOfThisRun

\* What a worker does while it is awaited does not change whose task it is.
LEMMA WorkerOutput ==
  ASSUME FixedInv, OutputInv, NEW i \in DOMAIN tasks, Worker(i)
  PROVE  OutputInv'
<1>1. /\ pc = "waiting" /\ automaRunning
      /\ UNCHANGED <<automaVars, ran, appVars, outputKeys, pc>>
  <2>1. Running(i) /\ WorkerUnchanged
    BY DEF Worker, WorkerReturns, WorkerRaises, WorkerAsks, Ferry
  <2> QED BY <2>1, RunningWhileCalled DEF Running, WorkerUnchanged, histVars
<1>2. \A j \in DOMAIN tasks : tasks[j] \in Task
  BY TaskElement DEF FixedInv, IInv
<1>3. DOMAIN tasks' = DOMAIN tasks /\ \A j \in DOMAIN tasks : tasks'[j].key = tasks[j].key
                                                            /\ tasks'[j].from = tasks[j].from
  <2>1. \/ UNCHANGED tasks
        \/ \E s \in Statuses : tasks' = [tasks EXCEPT ![i].status = s]
        \/ tasks' = [tasks EXCEPT ![i].answered = @ + 1]
    BY DEF Worker, WorkerReturns, WorkerRaises, WorkerAsks, Ferry, Statuses
  <2>2. CASE UNCHANGED tasks
    BY <2>2
  <2>3. CASE \E s \in Statuses : tasks' = [tasks EXCEPT ![i].status = s]
    BY <1>2, <2>3 DEF Task
  <2>4. CASE tasks' = [tasks EXCEPT ![i].answered = @ + 1]
    BY <1>2, <2>4 DEF Task
  <2> QED BY <2>1, <2>2, <2>3, <2>4
<1> QED BY <1>1, <1>3 DEF OutputInv, ResultOfThisRun, automaVars, appVars

\* The result that is stored comes from the arguments its task was started with.
LEMMA CollectOutput ==
  ASSUME FixedInv, OutputInv, CollectTask
  PROVE  OutputInv'
<1> DEFINE t == tasks[cursor]
           x == t.key
<1>1. /\ TypeOK /\ pc = "collecting" /\ cursor \in DOMAIN tasks /\ x \in Keys /\ automaRunning
      /\ workers = InitWorkers /\ \A i \in DOMAIN tasks : tasks[i] \in Task
  <2>1. TypeOK /\ pc = "collecting" /\ workers = InitWorkers
    BY DEF FixedInv, IInv, CollectTask
  <2>2. cursor \in DOMAIN tasks
    BY <2>1, CollectedTask DEF TypeOK
  <2> QED BY <2>1, <2>2, TaskElement, RunningWhileCalled
<1>2. UNCHANGED <<automaRunning, inputs, pc, outputKeys, appVars>>
  BY DEF CollectTask
<1>3. DOMAIN tasks' = DOMAIN tasks /\ \A j \in DOMAIN tasks : tasks'[j].key = tasks[j].key
                                                            /\ tasks'[j].from = tasks[j].from
  <2>1. UNCHANGED tasks \/ \E s \in Statuses : tasks' = [tasks EXCEPT ![cursor].status = s]
    BY DEF CollectTask, CollectReturned, CollectAsked, CollectRaised, Statuses
  <2>2. CASE UNCHANGED tasks
    BY <2>2
  <2>3. CASE \E s \in Statuses : tasks' = [tasks EXCEPT ![cursor].status = s]
    BY <1>1, <2>3 DEF Task
  <2> QED BY <2>1, <2>2, <2>3
<1>4. CASE UNCHANGED <<output, ran>>
  BY <1>1, <1>2, <1>3, <1>4 DEF OutputInv, ResultOfThisRun, appVars
<1>5. CASE /\ output' = [output EXCEPT ![x] = t.from]
           /\ ran' = [ran EXCEPT ![x] = IF @ = 0 THEN 1 ELSE 2]
  <2>1. output \in [Keys -> Nat] /\ ran \in [Keys -> {0, 1, 2}]
    BY <1>1 DEF TypeOK
  <2>2. /\ output'[x] = runs /\ ran'[x] > 0
        /\ \A k \in Keys : k # x => output'[k] = output[k] /\ ran'[k] = ran[k]
    BY <1>1, <1>5, <2>1 DEF OutputInv
  <2>3. OutputKeys \subseteq Keys /\ outputKeys \subseteq OutputKeys
    BY AutomaAssumption DEF OutputInv
  <2>4. \A k \in Keys : ran'[k] > 0 => output'[k] = runs
    BY <2>2 DEF OutputInv
  <2>5. \A o \in OutputKeys : ran'[o] > 0 => o \in outputKeys
    BY <1>1, <2>2, <2>3 DEF OutputInv
  <2>6. \A o \in outputKeys : ran'[o] > 0 \/ \E i \in DOMAIN tasks : tasks[i].key = o
    BY <1>1, <2>2, <2>3 DEF OutputInv
  <2> QED BY <1>1, <1>2, <1>3, <2>3, <2>4, <2>5, <2>6 DEF OutputInv, ResultOfThisRun, appVars
<1> QED BY <1>4, <1>5 DEF CollectTask, CollectReturned, CollectAsked, CollectRaised

\* A paused run has no output yet, nor has its snapshot.
LEMMA InterruptOutput ==
  ASSUME FixedProgram, OutputLast, FixedInv, OutputInv, Interrupt
  PROVE  OutputInv'
<1>1. /\ pc = "deciding" /\ pc' = "idle" /\ automaRunning /\ tasks' = <<>> /\ snapshot' = Dump
      /\ outcome' = "interrupted"
      /\ UNCHANGED <<automaRunning, inputs, output, ran, outputKeys, runs>>
  BY RunningWhileCalled DEF Interrupt, ClearTaskLevelState, GoTo, automaVars, histVars
<1>2. \A o \in OutputKeys : ran[o] = 0
  BY NoOutputYet DEF Interrupt
<1>3. inputs = runs /\ (\A k \in Keys : ran[k] > 0 => output[k] = runs) /\ outputKeys \subseteq OutputKeys
  BY <1>1 DEF OutputInv
<1>4. Dump.inputs = inputs /\ Dump.runs = runs /\ Dump.ran = ran /\ Dump.output = output
  BY DEF Dump
<1> QED BY <1>1, <1>2, <1>3, <1>4 DEF OutputInv, ResultOfThisRun

\* The tasks of a step that is over were all computed.
LEMMA NextStepOutput ==
  ASSUME FixedInv, OutputInv, NextStep
  PROVE  OutputInv'
<1>1. CASE Escape
  BY <1>1, OutputEscape
<1>2. CASE \A j \in DOMAIN kickoff : kickoff[j].done
  <2>1. /\ pc = "deciding" /\ pc' = "driving" /\ tasks' = <<>>
        /\ UNCHANGED <<automaRunning, inputs, output, ran, outputKeys, appVars>>
    BY <1>2 DEF NextStep, ClearTaskLevelState, GoTo, histVars
  <2>2. ASSUME NEW i \in DOMAIN tasks PROVE ran[tasks[i].key] > 0
    <3>1. PICK j \in DOMAIN kickoff : kickoff[j].key = tasks[i].key
      BY DEF FixedInv, TasksFit
    <3>2. ran[kickoff[j].key] = 1
      BY <1>2 DEF FixedInv, RunFits
    <3> QED BY <3>1, <3>2
  <2>3. \A o \in outputKeys : ran[o] > 0
    BY <2>1, <2>2 DEF OutputInv
  <2> QED BY <2>1, <2>3 DEF OutputInv, ResultOfThisRun, appVars
<1> QED BY <1>1, <1>2 DEF NextStep

\* A reload brings back what was known of the run.
LEMMA RestoreOutput ==
  ASSUME OutputInv, Restore
  PROVE  OutputInv'
<1>1. /\ pc' = "idle" /\ tasks' = <<>> /\ outcome' = "interrupted"
      /\ inputs' = snapshot.inputs /\ output' = snapshot.output /\ ran' = snapshot.ran
      /\ runs' = snapshot.runs /\ UNCHANGED <<outputKeys, snapshot>> /\ snapshot # None
  BY DEF Restore, ClearTaskLevelState, GoTo
<1> QED BY <1>1 DEF OutputInv, ResultOfThisRun

\* Every step preserves it, action by action.
LEMMA StepOutput ==
  FixedProgram /\ OutputLast /\ FixedInv /\ OutputInv /\ [Next]_vars => OutputInv'
<1> SUFFICES ASSUME FixedProgram, OutputLast, FixedInv, OutputInv, [Next]_vars PROVE OutputInv'
  OBVIOUS
<1>1. topology = <<>> /\ Changes = {} /\ cursor \in Nat \ {0}
  BY DEF FixedInv, FixedProgram, IInv, TypeOK
<1>2. CASE StartTask
  BY <1>2, StartTaskOutput
<1>3. CASE Await \/ AllDone \/ ChangesApplied \/ Validate
  <2>1. /\ pc # "idle" /\ pc # "broken" /\ pc' \notin {"idle", "broken"}
        /\ UNCHANGED <<automaVars, ran, appVars, tasks, outputKeys>>
    BY <1>1, <1>3 DEF Await, AllDone, ChangesApplied, Validate, GoTo, taskVars, histVars
  <2> QED BY <2>1, OutputFrame
<1>4. CASE Finish
  BY <1>4, FinishOutput
<1>5. CASE ApplyNextChange \/ \E c \in Changes : RequestChange(c)
  <2>1. Len(topology) = 0
    BY <1>1
  <2> QED BY <1>1, <1>5, <2>1 DEF ApplyNextChange
<1>6. CASE CollectTask
  BY <1>6, CollectOutput
<1>7. CASE Interrupt
  BY <1>7, InterruptOutput
<1>8. CASE Fail
  BY <1>8 DEF Fail, Failed, SomeTask, FixedInv, TasksFit
<1>9. CASE NextStep
  BY <1>9, NextStepOutput
<1>10. CASE \E answers \in SUBSET Open : Arun(answers)
  BY <1>10, ArunOutput
<1>11. CASE ArunRejected
  <2>1. /\ pc = "idle" /\ pc' = pc /\ ~ automaRunning /\ ~ automaRunning' /\ outcome' = "invalid"
        /\ UNCHANGED <<output, tasks, ran, runs, outputKeys, snapshot>>
    BY <1>11 DEF ArunRejected, taskVars, histVars
  <2> QED BY <2>1 DEF OutputInv, ResultOfThisRun
<1>12. CASE Restore
  BY <1>12, RestoreOutput
<1>13. CASE \E i \in DOMAIN tasks : Worker(i)
  BY <1>13, WorkerOutput
<1>14. CASE UNCHANGED vars
  BY <1>14 DEF vars, automaVars, taskVars, appVars, histVars, OutputInv, ResultOfThisRun
<1> QED BY <1>2, <1>3, <1>4, <1>5, <1>6, <1>7, <1>8, <1>9, <1>10, <1>11, <1>12, <1>13, <1>14
        DEF Next, Schedule, Application

-----------------------------------------------------------------------------
(***************************************************************************)
(* The theorems.                                                           *)
(***************************************************************************)
\* In a FixedProgram the kickoff list, the triggers and the tasks always fit what the
\* run has computed, and nobody who is due is left out.
THEOREM FixedInvariance == FixedProgram => (Spec => []FixedInv)
<1> SUFFICES ASSUME FixedProgram PROVE Spec => []FixedInv
  OBVIOUS
<1>1. FixedInv /\ [Next]_vars => FixedInv'
  BY StepFixed
<1> QED BY <1>1, InitFixed, PTL DEF Spec

\* The bookkeeping for a finished worker never raises KeyError, whatever the order in
\* which tasks end, and however often the run is paused, resumed or reloaded.
THEOREM NeverBookkeepingError == FixedProgram => (Spec => []NoBookkeepingError)
<1>1. FixedInv => NoBookkeepingError
  BY DEF FixedInv, TasksFit, NoBookkeepingError, SomeTask
<1> SUFFICES ASSUME FixedProgram PROVE Spec => []NoBookkeepingError
  OBVIOUS
<1>2. Spec => []FixedInv
  BY FixedInvariance
<1> QED BY <1>1, <1>2, PTL

\* No worker is computed twice in a run.
THEOREM AlwaysComputedOnce == FixedProgram => (Spec => []ComputedOnce)
<1>1. FixedInv => ComputedOnce
  BY DEF FixedInv, RunFits, ComputedOnce
<1> SUFFICES ASSUME FixedProgram PROVE Spec => []ComputedOnce
  OBVIOUS
<1>2. Spec => []FixedInv
  BY FixedInvariance
<1> QED BY <1>1, <1>2, PTL

\* A run computes a worker only after all that it depends on, and a new run begins only
\* when the last has computed all that it could: pauses and resumptions do not show, a
\* reload goes back to what a run can have computed.
THEOREM SchedulerImplementsDataflow == FixedProgram => (Spec => ImplementsDataflow)
<1> SUFFICES ASSUME FixedProgram PROVE Spec => ImplementsDataflow
  OBVIOUS
<1>1. Init => DF!Init
  BY DEF Init, DF!Init
<1>2. FixedInv /\ [Next]_vars => [DF!Next]_{k \in Keys : ran[k] > 0}
  BY StepDataflow
<1>3. Spec => []FixedInv
  BY FixedInvariance
<1> QED BY <1>1, <1>2, <1>3, PTL DEF Spec, ImplementsDataflow, DF!Spec

\* A completed run returns what its output worker computed in this very run, if those
\* who ask a human come before the output workers.
THEOREM AlwaysResultOfThisRun == FixedProgram /\ OutputLast => (Spec => []ResultOfThisRun)
<1>1. Init => OutputInv
  <2> SUFFICES ASSUME Init PROVE OutputInv
    OBVIOUS
  <2>1. /\ ~ automaRunning /\ tasks = <<>> /\ outputKeys = {} /\ pc = "idle" /\ snapshot = None
        /\ outcome = "none" /\ ran = [k \in Keys |-> 0]
    BY DEF Init
  <2>2. \A k \in Keys : ran[k] = 0
    BY <2>1
  <2> QED BY <2>1, <2>2 DEF OutputInv, ResultOfThisRun
<1>2. OutputInv => ResultOfThisRun
  BY DEF OutputInv
<1> SUFFICES ASSUME FixedProgram, OutputLast PROVE Spec => []ResultOfThisRun
  OBVIOUS
<1>3. FixedInv /\ OutputInv /\ [Next]_vars => OutputInv'
  BY StepOutput
<1>4. Spec => []FixedInv
  BY FixedInvariance
<1> QED BY <1>1, <1>2, <1>3, <1>4, PTL DEF Spec
=============================================================================
