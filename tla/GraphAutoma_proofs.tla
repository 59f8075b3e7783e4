-------------------------- MODULE GraphAutoma_proofs --------------------------
(***************************************************************************)
(* The scheduler's safety, for every graph, every program and every bound. *)
(***************************************************************************)
EXTENDS GraphAutoma, WorkerGraph_proofs, FiniteSetTheorems, SequenceTheorems

\* An ordering of a set of keys is a sequence of keys.
LEMMA OrderingType ==
  ASSUME NEW S \in SUBSET Keys, NEW q \in SetToSeqs(S)
  PROVE  /\ q \in Seq(Keys)
         /\ \A i \in DOMAIN q : q[i] \in S
<1>1. IsFiniteSet(S)
  BY InitAssumption, FS_Subset
<1>2. Cardinality(S) \in Nat
  BY <1>1, FS_CardinalityType
<1>3. q \in [1..Cardinality(S) -> S]
  BY DEF SetToSeqs
<1> QED BY <1>2, <1>3

\* Entries turns a sequence of keys into kickoffs with the same keys.
LEMMA EntriesType ==
  ASSUME NEW q \in Seq(Keys), NEW by \in {"automa", "ferry", "deps"}
  PROVE  /\ Entries(q, by) \in Seq(Kickoff)
         /\ Len(Entries(q, by)) = Len(q)
         /\ \A i \in 1..Len(Entries(q, by)) : /\ i \in DOMAIN q
                                              /\ Entries(q, by)[i].key = q[i]
                                              /\ Entries(q, by)[i].by = by
<1>1. Entries(q, by) = [i \in 1..Len(q) |-> [key |-> q[i], by |-> by, done |-> FALSE]]
  BY DEF Entries
<1>2. \A i \in 1..Len(q) : [key |-> q[i], by |-> by, done |-> FALSE] \in Kickoff
  BY DEF Kickoff
<1> QED BY <1>1, <1>2

-----------------------------------------------------------------------------
\* Updating a function at one point keeps its type.
LEMMA UpdateType ==
  ASSUME NEW S, NEW T, NEW f \in [S -> T], NEW x, NEW v \in T
  PROVE  [f EXCEPT ![x] = v] \in [S -> T]
OBVIOUS

(***************************************************************************)
(* Type correctness, action by action.                                     *)
(***************************************************************************)
\* Starting or resuming a run kicks off well-typed workers.
LEMMA ArunType ==
  ASSUME TypeOK, NEW answers, Arun(answers)
  PROVE  TypeOK'
<1>1. ongoing' \in [Keys -> Seq(BOOLEAN)]
  BY DEF Arun, TypeOK
<1>2. kickoff' \in Seq(Kickoff) /\ inputs' \in Nat /\ ran' \in [Keys -> {0, 1, 2}] /\ runs' \in Nat
  <2>1. runs' \in Nat
    BY DEF Arun, Begin, TypeOK
  <2>2. CASE kickoff = <<>>
    <3>1. PICK q \in SetToSeqs(workers \cap StartKeys) : kickoff' = Entries(q, "automa")
      BY <2>2 DEF Arun, Begin
    <3>2. q \in Seq(Keys)
      BY OrderingType, workers \cap StartKeys \in SUBSET Keys DEF TypeOK, GraphTypeOK
    <3> QED BY <2>1, <2>2, <3>1, <3>2, EntriesType DEF Arun, Begin
  <2>3. CASE kickoff # <<>>
    BY <2>1, <2>3 DEF Arun, Begin, TypeOK
  <2> QED BY <2>2, <2>3
<1> QED BY <1>1, <1>2 DEF Arun, Begin, TypeOK, GraphTypeOK, GoTo, taskVars, graphVars

\* A rejected call stores its arguments and changes nothing else of the automa.
LEMMA ArunRejectedType == TypeOK /\ ArunRejected => TypeOK'
<1> SUFFICES ASSUME TypeOK, ArunRejected PROVE TypeOK'
  OBVIOUS
<1>1. inputs' \in Nat
  BY DEF TypeOK, ArunRejected
<1> QED BY <1>1 DEF TypeOK, GraphTypeOK, ArunRejected, graphVars, taskVars, histVars

\* An escaped exception only moves the program counter.
LEMMA EscapeType == TypeOK /\ Escape /\ UNCHANGED graphVars => TypeOK'
BY DEF TypeOK, GraphTypeOK, Escape, graphVars, automaVars, taskVars, appVars, histVars

\* A started task is a task of a kicked-off worker.
LEMMA StartTaskType == TypeOK /\ StartTask => TypeOK'
<1> SUFFICES ASSUME TypeOK, StartTask PROVE TypeOK'
  OBVIOUS
<1> DEFINE e == kickoff[cursor]
           t == [key |-> e.key, status |-> "running", answered |-> 0, from |-> inputs]
<1>1. e \in Kickoff
  <2>1. kickoff \in Seq(Kickoff) /\ cursor \in 1..Len(kickoff)
    BY DEF StartTask, TypeOK
  <2> QED BY <2>1, ElementOfSeq
<1>2. CASE e.done \/ Startable(e.key)
  <2>1. t \in Task
    BY <1>1 DEF TypeOK, Task, Statuses, Kickoff
  <2>2. tasks \in Seq(Task) /\ outputKeys \subseteq Keys /\ cursor \in Nat \ {0}
    BY DEF TypeOK
  <2>3. tasks' = tasks \/ tasks' = Append(tasks, t)
    BY <1>2 DEF StartTask
  <2>4. tasks' \in Seq(Task)
    BY <2>1, <2>2, <2>3, AppendProperties
  <2>5. outputKeys' \subseteq Keys /\ cursor' \in Nat \ {0}
    BY <1>1, <1>2, <2>2 DEF StartTask, Kickoff
  <2> QED
    BY <1>2, <2>4, <2>5 DEF StartTask, TypeOK, GraphTypeOK, graphVars, automaVars, appVars, histVars
<1>3. CASE ~ (e.done \/ Startable(e.key))
  BY <1>3, EscapeType DEF StartTask
<1> QED BY <1>2, <1>3

\* The steps that only move the program counter.
LEMMA PhaseType ==
  ASSUME TypeOK, NEW phase \in {"waiting", "changing", "collecting", "deciding"}, GoTo(phase),
         UNCHANGED <<graphVars, automaVars, taskVars, outputKeys, appVars, histVars>>
  PROVE  TypeOK'
BY DEF TypeOK, GraphTypeOK, GoTo, graphVars, automaVars, taskVars, appVars, histVars

\* What _clear_run_level_state assigns is well typed.
LEMMA ClearType ==
  ClearRunLevelState =>
    /\ inputs' \in Nat /\ automaRunning' \in BOOLEAN
    /\ indices' \in [Keys -> Nat] /\ ongoing' \in [Keys -> Seq(BOOLEAN)]
<1>1. <<>> \in Seq(BOOLEAN)
  BY EmptySeq
<1> SUFFICES ASSUME ClearRunLevelState
             PROVE  /\ inputs' \in Nat /\ automaRunning' \in BOOLEAN
                    /\ indices' \in [Keys -> Nat] /\ ongoing' \in [Keys -> Seq(BOOLEAN)]
  OBVIOUS
<1>2. inputs' \in Nat
  BY DEF ClearRunLevelState
<1>3. automaRunning' \in BOOLEAN
  BY DEF ClearRunLevelState
<1>4. indices' \in [Keys -> Nat]
  BY DEF ClearRunLevelState
<1>5. ongoing' \in [Keys -> Seq(BOOLEAN)]
  BY <1>1 DEF ClearRunLevelState
<1> QED BY <1>2, <1>3, <1>4, <1>5

\* A completed run returns a result and clears its run-level state.
LEMMA FinishType == TypeOK /\ Finish => TypeOK'
<1> SUFFICES ASSUME TypeOK, Finish PROVE TypeOK'
  OBVIOUS
<1>1. result' \in Nat
  BY DEF TypeOK, Finish
<1> QED BY <1>1, ClearType DEF TypeOK, GraphTypeOK, Finish, GoTo, graphVars, histVars

\* A failed run clears its run-level state.
LEMMA FailType == TypeOK /\ Fail => TypeOK'
BY ClearType DEF TypeOK, GraphTypeOK, Fail, GoTo, graphVars, histVars

\* What a worker does changes its task, the ferries and its interaction count only.
LEMMA WorkerType ==
  ASSUME TypeOK, NEW i \in DOMAIN tasks, Worker(i)
  PROVE  TypeOK'
<1>1. /\ tasks \in Seq(Task) /\ ferries \in Seq(Keys) /\ indices \in [Keys -> Nat]
      /\ i \in 1..Len(tasks)
  BY DEF TypeOK
<1>2. tasks[i] \in Task
  BY <1>1, ElementOfSeq
<1>3. /\ \A s \in Statuses : [tasks[i] EXCEPT !.status = s] \in Task
      /\ [tasks[i] EXCEPT !.answered = @ + 1] \in Task
  BY <1>2 DEF Task
<1>4. \A t \in Task : [tasks EXCEPT ![i] = t] \in Seq(Task)
  BY <1>1, ExceptSeq
<1>5. tasks' \in Seq(Task) /\ ferries' \in Seq(Keys) /\ indices' \in [Keys -> Nat]
      /\ UNCHANGED topology
  <2>1. CASE WorkerReturns(i)
    BY <1>1, <1>3, <1>4, <2>1 DEF WorkerReturns, Statuses
  <2>2. CASE WorkerRaises(i)
    BY <1>1, <1>3, <1>4, <2>2 DEF WorkerRaises, Statuses
  <2>3. CASE WorkerAsks(i)
    <3>1. tasks' \in Seq(Task)
      BY <1>3, <1>4, <2>3 DEF WorkerAsks, Statuses
    <3>2. indices' \in [Keys -> Nat]
      BY <1>1, <1>2, <2>3 DEF WorkerAsks, Task
    <3> QED BY <1>1, <2>3, <3>1, <3>2 DEF WorkerAsks
  <2>4. CASE \E target \in Keys : Ferry(i, target)
    BY <1>1, <2>4, AppendProperties DEF Ferry
  <2> QED BY <2>1, <2>2, <2>3, <2>4 DEF Worker
<1>6. WorkerUnchanged
  BY DEF Worker, WorkerReturns, WorkerRaises, WorkerAsks, Ferry
<1> QED BY <1>5, <1>6
  DEF WorkerUnchanged, TypeOK, GraphTypeOK, graphVars, automaVars, appVars, histVars

\* A topology change keeps every variable it touches well typed.
LEMMA MakeChangeType ==
  ASSUME TypeOK, Consistent, NEW c \in Changes, MakeChange(c)
  PROVE  /\ GraphTypeOK' /\ Consistent'
         /\ ongoing' \in [Keys -> Seq(BOOLEAN)] /\ indices' \in [Keys -> Nat]
         /\ fresh' \in [Keys -> SUBSET Keys] /\ ran' \in [Keys -> {0, 1, 2}]
<1>1. GraphTypeOK' /\ Consistent'
  BY ApplyChangeStep DEF MakeChange, TypeOK
<1>2. /\ ongoing \in [Keys -> Seq(BOOLEAN)] /\ indices \in [Keys -> Nat]
      /\ fresh \in [Keys -> SUBSET Keys] /\ ran \in [Keys -> {0, 1, 2}]
  BY DEF TypeOK
<1>3. ongoing' \in [Keys -> Seq(BOOLEAN)]
  BY <1>2, EmptySeq, UpdateType DEF MakeChange
<1>4. indices' \in [Keys -> Nat]
  BY <1>2, UpdateType DEF MakeChange
<1>5. fresh' \in [Keys -> SUBSET Keys]
  BY <1>2, UpdateType DEF MakeChange
<1>6. ran' \in [Keys -> {0, 1, 2}]
  <2>1. ran' = ran \/ ran' = [ran EXCEPT ![c.key] = 0]
    BY DEF MakeChange
  <2> QED BY <1>2, <2>1, UpdateType
<1> QED BY <1>1, <1>3, <1>4, <1>5, <1>6

\* A change the program asks for is deferred or made at once.
LEMMA RequestChangeType ==
  ASSUME TypeOK, Consistent, NEW c \in Changes, RequestChange(c)
  PROVE  TypeOK' /\ Consistent'
<1>1. CASE automaRunning
  <2>1. topology \in Seq(Changes) /\ topology' = Append(topology, c)
    BY <1>1 DEF RequestChange, TypeOK
  <2>2. topology' \in Seq(Changes)
    BY <2>1, AppendProperties
  <2>3. UNCHANGED <<graphVars, automaVars, tasks, ferries, indices, pc, cursor, outputKeys,
                    appVars, histVars>>
    BY <1>1 DEF RequestChange, automaVars
  <2>4. TypeOK'
    BY <2>2, <2>3 DEF TypeOK, GraphTypeOK, graphVars, automaVars, appVars, histVars
  <2> QED BY <2>3, <2>4 DEF Consistent, graphVars
<1>2. CASE ~ automaRunning
  <2>1. MakeChange(c)
    BY <1>2 DEF RequestChange
  <2>2. UNCHANGED <<kickoff, automaRunning, inputs, output, tasks, topology, ferries,
                    pc, cursor, outputKeys, appVars>>
    BY <1>2 DEF RequestChange
  <2>3. TypeOK'
    BY <2>1, <2>2, MakeChangeType DEF TypeOK, appVars
  <2> QED BY <2>1, <2>3, MakeChangeType
<1> QED BY <1>1, <1>2

\* A deferred change is made or refused.
LEMMA ApplyNextChangeType ==
  ASSUME TypeOK, Consistent, ApplyNextChange
  PROVE  TypeOK' /\ Consistent'
<1> DEFINE c == topology[cursor]
<1>1. c \in Changes
  <2>1. topology \in Seq(Changes) /\ cursor \in 1..Len(topology)
    BY DEF ApplyNextChange, TypeOK
  <2> QED BY <2>1, ElementOfSeq
<1>2. CASE Refused(c) /\ Escape /\ UNCHANGED graphVars
  BY <1>2, EscapeType DEF Consistent, graphVars
<1>3. CASE /\ MakeChange(c) /\ cursor' = cursor + 1
           /\ UNCHANGED <<kickoff, automaRunning, inputs, output, tasks, topology, ferries,
                          pc, outputKeys, appVars>>
  <2>1. cursor' \in Nat \ {0}
    BY <1>3 DEF TypeOK
  <2>2. TypeOK'
    BY <1>1, <1>3, <2>1, MakeChangeType DEF TypeOK, appVars
  <2> QED BY <1>1, <1>3, <2>2, MakeChangeType
<1> QED BY <1>2, <1>3 DEF ApplyNextChange

\* Marking a kickoff finished changes no key and no origin.
LEMMA MarkFinishedType ==
  ASSUME NEW k, kickoff \in Seq(Kickoff), MarkFinished(k)
  PROVE  kickoff' \in Seq(Kickoff)
<1>1. kickoff' = [j \in 1..Len(kickoff) |->
                    IF kickoff[j].key = k /\ \A i \in 1..(j-1) : kickoff[i].key # k
                    THEN [kickoff[j] EXCEPT !.done = TRUE] ELSE kickoff[j]]
  BY DEF MarkFinished
<1>2. \A j \in 1..Len(kickoff) : kickoff[j] \in Kickoff
  BY ElementOfSeq
<1>3. \A e \in Kickoff : [e EXCEPT !.done = TRUE] \in Kickoff
  BY DEF Kickoff
<1>4. Len(kickoff) \in Nat
  BY LenProperties
<1> QED BY <1>1, <1>2, <1>3, <1>4, IsASeq

\* The cursor is at a task while tasks are collected.
LEMMA CollectedTask ==
  ASSUME TypeOK, CollectTask
  PROVE  cursor \in 1..Len(tasks) /\ tasks[cursor] \in Task
<1>1. tasks \in Seq(Task) /\ cursor \in 1..Len(tasks)
  BY DEF CollectTask, TypeOK
<1> QED BY <1>1, ElementOfSeq

\* Collecting a task keeps the scheduler's state well typed, the graph consistent.
LEMMA CollectTaskType ==
  ASSUME TypeOK, Consistent, CollectTask
  PROVE  TypeOK' /\ Consistent'
<1> DEFINE t == tasks[cursor]
<1>1. /\ t \in Task /\ t.key \in Keys /\ t.from \in Nat
      /\ cursor \in 1..Len(tasks) /\ tasks \in Seq(Task) /\ cursor' \in Nat \ {0}
  <2>1. t \in Task /\ cursor \in 1..Len(tasks)
    BY CollectedTask
  <2>2. tasks \in Seq(Task) /\ cursor' = cursor + 1
    BY DEF CollectTask, TypeOK
  <2>3. t.key \in Keys /\ t.from \in Nat
    BY <2>1 DEF Task
  <2> QED BY <2>1, <2>2, <2>3
<1>2. /\ UNCHANGED <<automaRunning, inputs, topology, ferries, pc, outputKeys, appVars>>
      /\ CollectReturned(t) \/ CollectAsked(t) \/ CollectRaised(t)
  BY DEF CollectTask
<1>3. /\ kickoff \in Seq(Kickoff) /\ output \in [Keys -> Nat]
      /\ ongoing \in [Keys -> Seq(BOOLEAN)] /\ indices \in [Keys -> Nat]
      /\ fresh \in [Keys -> SUBSET Keys] /\ ran \in [Keys -> {0, 1, 2}] /\ GraphTypeOK
  BY DEF TypeOK
<1> DEFINE Typed ==
      /\ GraphTypeOK' /\ Consistent'
      /\ kickoff' \in Seq(Kickoff) /\ output' \in [Keys -> Nat]
      /\ ongoing' \in [Keys -> Seq(BOOLEAN)] /\ indices' \in [Keys -> Nat]
      /\ tasks' \in Seq(Task)
      /\ fresh' \in [Keys -> SUBSET Keys] /\ ran' \in [Keys -> {0, 1, 2}]
<1> SUFFICES Typed
  BY <1>1, <1>2 DEF TypeOK, appVars
<1>4. CASE CollectReturned(t) /\ t.key \in workers
  <2>1. kickoff' \in Seq(Kickoff)
    BY <1>3, <1>4, MarkFinishedType DEF CollectReturned
  <2>2. GraphTypeOK' /\ Consistent'
    <3>1. PICK visited \in SUBSET forwards[t.key] : WorkerFinished(t.key, visited)
      BY <1>4 DEF CollectReturned
    <3>2. visited \in SUBSET Keys
      BY <1>1, <1>3 DEF GraphTypeOK
    <3> QED BY <1>1, <1>3, <3>1, <3>2, WorkerFinishedStep
  <2>3. output' \in [Keys -> Nat]
    BY <1>1, <1>3, <1>4 DEF CollectReturned
  <2>4. ongoing' \in [Keys -> Seq(BOOLEAN)]
    <3>1. ongoing' = ongoing \/ ongoing' = [ongoing EXCEPT ![t.key] = <<>>]
      BY <1>4 DEF CollectReturned
    <3>2. <<>> \in Seq(BOOLEAN)
      BY EmptySeq
    <3>3. [ongoing EXCEPT ![t.key] = <<>>] \in [Keys -> Seq(BOOLEAN)]
      BY <1>3, <3>2, UpdateType
    <3> QED BY <1>3, <3>1, <3>3
  <2>5. indices' \in [Keys -> Nat]
    <3>1. indices' = indices \/ indices' = [indices EXCEPT ![t.key] = 0]
      BY <1>4 DEF CollectReturned
    <3>2. [indices EXCEPT ![t.key] = 0] \in [Keys -> Nat]
      BY <1>3, UpdateType
    <3> QED BY <1>3, <3>1, <3>2
  <2>6. tasks' \in Seq(Task)
    <3>1. \A s \in Statuses : [t EXCEPT !.status = s] \in Task
      BY <1>1 DEF Task
    <3>2. \A u \in Task : [tasks EXCEPT ![cursor] = u] \in Seq(Task)
      BY <1>1, ExceptSeq
    <3> QED BY <1>4, <3>1, <3>2 DEF CollectReturned, Statuses
  <2>7. fresh' \in [Keys -> SUBSET Keys]
    <3>1. fresh' = [w \in Keys |-> IF w = t.key THEN {} ELSE fresh[w] \union {t.key}]
      BY <1>4 DEF CollectReturned
    <3> QED BY <1>1, <1>3, <3>1
  <2>8. ran' \in [Keys -> {0, 1, 2}]
    <3>1. \E n \in {1, 2} : ran' = [ran EXCEPT ![t.key] = n]
      BY <1>4 DEF CollectReturned
    <3> QED BY <1>3, <3>1, UpdateType
  <2> QED BY <2>1, <2>2, <2>3, <2>4, <2>5, <2>6, <2>7, <2>8
<1>5. CASE CollectReturned(t) /\ t.key \notin workers
  <2>1. kickoff' \in Seq(Kickoff)
    BY <1>3, <1>5, MarkFinishedType DEF CollectReturned
  <2> QED BY <1>1, <1>3, <1>5, <2>1
          DEF CollectReturned, GraphTypeOK, Consistent, graphVars
<1>6. CASE CollectAsked(t)
  <2>1. ongoing' \in [Keys -> Seq(BOOLEAN)]
    <3>1. Append(ongoing[t.key], FALSE) \in Seq(BOOLEAN)
      BY <1>1, <1>3, AppendProperties
    <3> QED BY <1>1, <1>3, <1>6, <3>1 DEF CollectAsked
  <2> QED BY <1>1, <1>3, <1>6, <2>1 DEF CollectAsked, GraphTypeOK, Consistent, graphVars
<1>7. CASE CollectRaised(t)
  BY <1>1, <1>3, <1>7 DEF CollectRaised, GraphTypeOK, Consistent, graphVars
<1> QED BY <1>2, <1>4, <1>5, <1>6, <1>7

\* Validating the graph changes none of it.
LEMMA ValidateType == TypeOK /\ Validate => TypeOK'
BY PhaseType, EscapeType DEF Validate

\* A snapshot of a well-typed automa is well typed.
LEMMA InterruptType ==
  ASSUME TypeOK, Interrupt
  PROVE  TypeOK'
<1>1. Dump \in Snapshot
  BY DEF TypeOK, GraphTypeOK, Dump, Snapshot
<1>2. snapshot' \in Snapshot \union {None}
  BY <1>1 DEF Interrupt
<1>3. tasks' \in Seq(Task) /\ topology' \in Seq(Changes) /\ ferries' \in Seq(Keys)
  BY EmptySeq DEF Interrupt, ClearTaskLevelState
<1>4. indices' \in [Keys -> Nat]
  BY DEF Interrupt
<1>5. pc' = "idle" /\ cursor' = 1 /\ outcome' = "interrupted"
      /\ UNCHANGED <<graphVars, automaVars, outputKeys, runs, result, restores, histVars>>
  BY DEF Interrupt, GoTo
<1> QED BY <1>2, <1>3, <1>4, <1>5 DEF TypeOK, GraphTypeOK, graphVars, automaVars, histVars

\* What the next step kicks off: the workers ferried to, then the ready ones.
LEMMA NextKickoffs ==
  ASSUME TypeOK, NEW q \in SetToSeqs(Ready),
         kickoff' = Entries(ferries, "ferry") \o Entries(q, "deps")
  PROVE  /\ kickoff' \in Seq(Kickoff)
         /\ \A j \in DOMAIN kickoff' : kickoff'[j].by = "deps" => kickoff'[j].key \in Ready
<1>1. q \in Seq(Keys) /\ \A i \in DOMAIN q : q[i] \in Ready
  BY OrderingType, Ready \in SUBSET Keys DEF Ready
<1>2. ferries \in Seq(Keys)
  BY DEF TypeOK
<1> DEFINE F == Entries(ferries, "ferry")
           D == Entries(q, "deps")
<1>3. /\ F \in Seq(Kickoff) /\ \A i \in 1..Len(F) : F[i].by = "ferry"
      /\ D \in Seq(Kickoff) /\ \A i \in 1..Len(D) : D[i].key = q[i] /\ i \in DOMAIN q
  <2> "ferry" \in {"automa", "ferry", "deps"} /\ "deps" \in {"automa", "ferry", "deps"}
    OBVIOUS
  <2>1. F \in Seq(Kickoff) /\ \A i \in 1..Len(F) : F[i].by = "ferry"
    BY <1>2, EntriesType
  <2>2. D \in Seq(Kickoff) /\ \A i \in 1..Len(D) : D[i].key = q[i] /\ i \in DOMAIN q
    BY <1>1, EntriesType
  <2> QED BY <2>1, <2>2
<1> HIDE DEF F, D
<1>4. /\ kickoff' \in Seq(Kickoff) /\ Len(kickoff') = Len(F) + Len(D)
      /\ \A j \in 1..(Len(F) + Len(D)) :
            kickoff'[j] = IF j <= Len(F) THEN F[j] ELSE D[j - Len(F)]
  BY <1>3, ConcatProperties DEF F, D
<1>5. ASSUME NEW j \in DOMAIN kickoff', kickoff'[j].by = "deps"
      PROVE  kickoff'[j].key \in Ready
  <2>1. j \in 1..(Len(F) + Len(D)) /\ Len(F) \in Nat /\ Len(D) \in Nat
    BY <1>3, <1>4, LenProperties
  <2>2. ~ (j <= Len(F))
    BY <1>3, <1>4, <1>5, <2>1
  <2>3. j - Len(F) \in 1..Len(D) /\ kickoff'[j] = D[j - Len(F)]
    BY <1>4, <2>1, <2>2
  <2> QED BY <1>1, <1>3, <2>3
<1> QED BY <1>4, <1>5

\* Going on to the next step kicks off well-typed workers.
LEMMA NextStepType ==
  ASSUME TypeOK, NextStep
  PROVE  TypeOK'
<1>1. CASE Escape /\ UNCHANGED graphVars
  BY <1>1, EscapeType
<1>2. CASE \A j \in DOMAIN kickoff : kickoff[j].done
  <2>1. kickoff' \in Seq(Kickoff)
    BY <1>2, NextKickoffs DEF NextStep
  <2>2. tasks' \in Seq(Task) /\ topology' \in Seq(Changes) /\ ferries' \in Seq(Keys)
    BY <1>2, EmptySeq DEF NextStep, ClearTaskLevelState
  <2>3. pc' = "driving" /\ cursor' = 1
        /\ UNCHANGED <<graphVars, automaRunning, inputs, output, ongoing, indices, outputKeys,
                       appVars, histVars>>
    BY <1>2 DEF NextStep, GoTo, graphVars
  <2> QED BY <2>1, <2>2, <2>3 DEF TypeOK, GraphTypeOK, graphVars, appVars, histVars
<1> QED BY <1>1, <1>2 DEF NextStep

\* A reload brings back what a snapshot of the right type holds.
LEMMA RestoreType ==
  ASSUME TypeOK, Restore
  PROVE  TypeOK'
<1>1. snapshot \in Snapshot
  BY DEF TypeOK, Restore
<1>2. /\ GraphTypeOK' /\ kickoff' \in Seq(Kickoff) /\ inputs' \in Nat
      /\ output' \in [Keys -> Nat] /\ ongoing' \in [Keys -> Seq(BOOLEAN)]
      /\ fresh' \in [Keys -> SUBSET Keys] /\ ran' \in [Keys -> {0, 1, 2}] /\ runs' \in Nat
  BY <1>1 DEF Restore, GraphTypeOK, Snapshot
<1>3. tasks' \in Seq(Task) /\ topology' \in Seq(Changes) /\ ferries' \in Seq(Keys)
  BY EmptySeq DEF Restore, ClearTaskLevelState
<1>4. indices' \in [Keys -> Nat]
  BY DEF Restore
<1>5. restores' \in Nat
  BY DEF TypeOK, Restore
<1>6. pc' = "idle" /\ cursor' = 1 /\ outcome' = "interrupted" /\ automaRunning' = TRUE
      /\ UNCHANGED <<outputKeys, result, snapshot>>
  BY DEF Restore, GoTo
<1> QED BY <1>2, <1>3, <1>4, <1>5, <1>6 DEF TypeOK

-----------------------------------------------------------------------------
(***************************************************************************)
(* Honesty: the steps that change the graph, the triggers or the history.  *)
(***************************************************************************)

\* A topology change moves no dependency out of the triggers, and a worker
\* added anew waits for all of its dependencies.
LEMMA MakeChangeHonest ==
  ASSUME TypeOK, Consistent, TriggersAreHonest, NEW c \in Changes, MakeChange(c)
  PROVE  TriggersAreHonest'
<1> USE DEF TriggersAreHonest, Honest, TypeOK, GraphTypeOK
<1>1. c.key \in Keys /\ c.on \in SUBSET Keys
  BY ChangeAssumption DEF Change
<1>2. CASE c.op = "add" /\ AddWorker(c.key, c.on)
  <2>1. /\ workers' = workers \union {c.key} /\ fresh' = [fresh EXCEPT ![c.key] = {}]
        /\ deps' = [deps EXCEPT ![c.key] = c.on] /\ triggers' = [triggers EXCEPT ![c.key] = c.on]
    BY <1>2 DEF AddWorker, MakeChange
  <2> QED BY <1>1, <2>1
<1>3. CASE c.op = "remove" /\ RemoveWorker(c.key)
  <2>1. fresh' = fresh
    BY <1>3 DEF MakeChange
  <2> QED BY <1>1, <1>3, <2>1 DEF RemoveWorker
<1>4. CASE c.op = "depend" /\ \E d \in c.on : AddDependency(c.key, d)
  <2>1. fresh' = fresh
    BY <1>4 DEF MakeChange
  <2> QED BY <1>1, <1>4, <2>1 DEF AddDependency
<1> QED BY <1>2, <1>3, <1>4 DEF MakeChange, ApplyChange

\* A trigger is only discarded for the worker that just finished.
LEMMA CollectTaskHonest ==
  ASSUME TypeOK, TriggersAreHonest, CollectTask
  PROVE  TriggersAreHonest'
<1> DEFINE t == tasks[cursor]
<1>1. t.key \in Keys
  BY CollectedTask DEF Task
<1>2. CASE CollectReturned(t) /\ t.key \in workers
  <2>1. PICK visited \in SUBSET forwards[t.key] : WorkerFinished(t.key, visited)
    BY <1>2 DEF CollectReturned
  <2>2. fresh' = [w \in Keys |-> IF w = t.key THEN {} ELSE fresh[w] \union {t.key}]
    BY <1>2 DEF CollectReturned
  <2> QED BY <1>1, <2>1, <2>2
          DEF WorkerFinished, TriggersAreHonest, Honest, TypeOK, GraphTypeOK
<1>3. CASE ~ (CollectReturned(t) /\ t.key \in workers)
  <2>1. UNCHANGED <<workers, deps, triggers, fresh>>
    BY <1>3 DEF CollectTask, CollectReturned, CollectAsked, CollectRaised, graphVars
  <2> QED BY <2>1 DEF TriggersAreHonest, Honest
<1> QED BY <1>2, <1>3

-----------------------------------------------------------------------------
(***************************************************************************)
(* The induction.                                                          *)
(***************************************************************************)

\* The invariant holds of a newly constructed automa.
LEMMA InitInvariant == Init => IInv
<1> SUFFICES ASSUME Init PROVE IInv
  OBVIOUS
<1>1. GraphTypeOK /\ Consistent
  BY InitialGraph DEF Init
<1>2. /\ kickoff \in Seq(Kickoff) /\ tasks \in Seq(Task) /\ topology \in Seq(Changes)
      /\ ferries \in Seq(Keys)
  BY EmptySeq DEF Init
<1>3. ongoing \in [Keys -> Seq(BOOLEAN)]
  <2>1. <<>> \in Seq(BOOLEAN)
    BY EmptySeq
  <2> QED BY <2>1 DEF Init
<1>4. indices \in [Keys -> Nat] /\ output \in [Keys -> Nat]
      /\ fresh \in [Keys -> SUBSET Keys] /\ ran \in [Keys -> {0, 1, 2}]
  BY DEF Init
<1>5. TypeOK
  <2>1. /\ automaRunning \in BOOLEAN /\ inputs \in Nat /\ outputKeys \subseteq Keys
        /\ runs \in Nat /\ result \in Nat /\ restores \in Nat
        /\ snapshot \in Snapshot \union {None}
    BY DEF Init
  <2>2. /\ pc \in {"idle", "driving", "waiting", "changing", "collecting", "deciding", "broken"}
        /\ cursor \in Nat \ {0}
        /\ outcome \in {"none", "done", "failed", "interrupted", "invalid"}
    BY DEF Init
  <2> QED BY <1>1, <1>2, <1>3, <1>4, <2>1, <2>2 DEF TypeOK
<1>6. TriggersAreHonest
  BY DEF Init, GraphInit, TriggersAreHonest, Honest
<1>7. SnapshotOK
  BY DEF Init, SnapshotOK
<1> QED BY <1>1, <1>5, <1>6, <1>7 DEF IInv

\* Most steps change neither the graph nor the history nor the snapshot.
LEMMA Frame ==
  ASSUME IInv, TypeOK', UNCHANGED <<graphVars, histVars, snapshot>>
  PROVE  IInv'
BY DEF IInv, Consistent, TriggersAreHonest, SnapshotOK, graphVars, histVars

\* The invariant is preserved by every step, action by action.
LEMMA StepInvariant == IInv /\ [Next]_vars => IInv'
<1> SUFFICES ASSUME IInv, [Next]_vars PROVE IInv'
  OBVIOUS
<1> TypeOK /\ Consistent /\ TriggersAreHonest /\ SnapshotOK
  BY DEF IInv
<1>1. CASE StartTask
  <2>1. UNCHANGED <<graphVars, histVars, snapshot>>
    BY <1>1 DEF StartTask, Escape, appVars
  <2> QED BY <1>1, <2>1, StartTaskType, Frame
<1>2. CASE Await \/ AllDone \/ ChangesApplied
  <2>1. UNCHANGED <<graphVars, histVars, snapshot>>
    BY <1>2 DEF Await, AllDone, ChangesApplied, appVars
  <2>2. TypeOK'
    BY <1>2, PhaseType DEF Await, AllDone, ChangesApplied
  <2> QED BY <2>1, <2>2, Frame
<1>3. CASE Finish
  <2>1. UNCHANGED <<graphVars, histVars, snapshot>>
    BY <1>3 DEF Finish
  <2> QED BY <1>3, <2>1, FinishType, Frame
<1>4. CASE ApplyNextChange
  <2>1. TypeOK' /\ Consistent'
    BY <1>4, ApplyNextChangeType
  <2>2. UNCHANGED snapshot
    BY <1>4 DEF ApplyNextChange, Escape, appVars
  <2>3. TriggersAreHonest'
    <3>1. topology[cursor] \in Changes
      BY <1>4, ElementOfSeq DEF ApplyNextChange, TypeOK
    <3>2. CASE MakeChange(topology[cursor])
      BY <3>1, <3>2, MakeChangeHonest
    <3>3. CASE Escape /\ UNCHANGED graphVars
      BY <3>3 DEF Escape, histVars, graphVars, TriggersAreHonest
    <3> QED BY <1>4, <3>2, <3>3 DEF ApplyNextChange
  <2> QED BY <2>1, <2>2, <2>3 DEF IInv, SnapshotOK
<1>5. CASE CollectTask
  <2>1. UNCHANGED snapshot
    BY <1>5 DEF CollectTask, appVars
  <2> QED BY <1>5, <2>1, CollectTaskType, CollectTaskHonest DEF IInv, SnapshotOK
<1>6. CASE Validate
  <2>1. UNCHANGED <<graphVars, histVars, snapshot>>
    BY <1>6 DEF Validate, Escape, appVars
  <2> QED BY <1>6, <2>1, ValidateType, Frame
<1>7. CASE Interrupt
  <2>1. UNCHANGED <<graphVars, histVars>> /\ snapshot' = Dump
    BY <1>7 DEF Interrupt
  <2>2. /\ Dump.workers = workers /\ Dump.deps = deps /\ Dump.forwards = forwards
        /\ Dump.triggers = triggers /\ Dump.fresh = fresh
    BY DEF Dump
  <2>3. SnapshotOK'
    BY <2>1, <2>2 DEF SnapshotOK, Consistent, TriggersAreHonest
  <2>4. Consistent' /\ TriggersAreHonest'
    BY <2>1 DEF Consistent, TriggersAreHonest, graphVars, histVars
  <2> QED BY <1>7, <2>3, <2>4, InterruptType DEF IInv
<1>8. CASE Fail
  <2>1. UNCHANGED <<graphVars, histVars, snapshot>>
    BY <1>8 DEF Fail
  <2> QED BY <1>8, <2>1, FailType, Frame
<1>9. CASE NextStep
  <2>1. UNCHANGED <<graphVars, histVars, snapshot>>
    BY <1>9 DEF NextStep, Escape, appVars
  <2> QED BY <1>9, <2>1, NextStepType, Frame
<1>10. CASE \E answers \in SUBSET Open : Arun(answers)
  <2>1. UNCHANGED <<graphVars, snapshot, fresh>>
    BY <1>10 DEF Arun, Begin
  <2>2. TypeOK'
    BY <1>10, ArunType
  <2> QED BY <2>1, <2>2
          DEF IInv, Consistent, TriggersAreHonest, SnapshotOK, graphVars
<1>11. CASE ArunRejected
  <2>1. UNCHANGED <<graphVars, histVars, snapshot>>
    BY <1>11 DEF ArunRejected
  <2> QED BY <1>11, <2>1, ArunRejectedType, Frame
<1>12. CASE \E c \in Changes : RequestChange(c)
  <2>1. PICK c \in Changes : RequestChange(c)
    BY <1>12
  <2>2. TypeOK' /\ Consistent'
    BY <2>1, RequestChangeType
  <2>3. UNCHANGED snapshot
    BY <2>1 DEF RequestChange, appVars
  <2>4. TriggersAreHonest'
    <3>1. CASE automaRunning
      BY <2>1, <3>1 DEF RequestChange, TriggersAreHonest, graphVars, histVars
    <3>2. CASE ~ automaRunning
      BY <2>1, <3>2, MakeChangeHonest DEF RequestChange
    <3> QED BY <3>1, <3>2
  <2> QED BY <2>2, <2>3, <2>4 DEF IInv, SnapshotOK
<1>13. CASE Restore
  <2>1. Consistent' /\ TriggersAreHonest' /\ SnapshotOK'
    BY <1>13 DEF Restore, SnapshotOK, Consistent, TriggersAreHonest
  <2> QED BY <1>13, <2>1, RestoreType DEF IInv
<1>14. CASE \E i \in DOMAIN tasks : Worker(i)
  <2>1. UNCHANGED <<graphVars, histVars, snapshot>>
    BY <1>14 DEF Worker, WorkerReturns, WorkerRaises, WorkerAsks, Ferry, WorkerUnchanged,
                 appVars
  <2> QED BY <1>14, <2>1, WorkerType, Frame
<1>15. CASE UNCHANGED vars
  <2>1. TypeOK'
    BY <1>15 DEF vars, TypeOK, GraphTypeOK, graphVars, automaVars, taskVars, appVars, histVars
  <2> QED BY <1>15, <2>1, Frame DEF vars, appVars
<1> QED BY <1>1, <1>2, <1>3, <1>4, <1>5, <1>6, <1>7, <1>8, <1>9, <1>10, <1>11, <1>12, <1>13,
           <1>14, <1>15 DEF Next, Schedule, Application

-----------------------------------------------------------------------------
(***************************************************************************)
(* The theorems.                                                           *)
(***************************************************************************)

\* IInv is inductive, and holds in every reachable state.
THEOREM Invariance == Spec => []IInv
BY InitInvariant, StepInvariant, PTL DEF Spec

\* Every variable of the scheduler keeps its type.
THEOREM TypeCorrect == Spec => []TypeOK
<1>1. IInv => TypeOK
  BY DEF IInv
<1> QED BY <1>1, Invariance, PTL

\* The assertions of _validate_canonical_graph never fail: after any sequence
\* of changes, finished workers, interruptions and reloads the triggers are
\* dependencies and the forwards table inverts the dependencies.
THEOREM AlwaysConsistent == Spec => []Consistent
<1>1. IInv => Consistent
  BY DEF IInv
<1> QED BY <1>1, Invariance, PTL

\* A worker never stops waiting for a dependency that did not finish.
THEOREM AlwaysHonest == Spec => []TriggersAreHonest
<1>1. IInv => TriggersAreHonest
  BY DEF IInv
<1> QED BY <1>1, Invariance, PTL

\* The scheduler kicks a worker off for its dependencies only when each of its
\* current dependencies finished since the worker itself last did.
LEMMA DueStartHolds == IInv /\ [Next]_vars => [DueStartStep]_vars
<1> SUFFICES ASSUME IInv, Next, pc = "deciding", pc' = "driving",
                    NEW j \in DOMAIN kickoff', kickoff'[j].by = "deps"
             PROVE  LET w == kickoff'[j].key
                    IN  w \in workers /\ deps[w] # {} /\ deps[w] \subseteq fresh[w]
  BY DEF DueStartStep
<1> DEFINE w == kickoff'[j].key
<1>1. TypeOK /\ Consistent /\ TriggersAreHonest
  BY DEF IInv
<1>2. NextStep
  <2>1. ~ Application
    BY DEF Application, Arun, ArunRejected, RequestChange, Running, Restore, GoTo
  <2>2. ~ \E i \in DOMAIN tasks : Worker(i)
    BY DEF Worker, WorkerReturns, WorkerRaises, WorkerAsks, Ferry, Running
  <2>3. ~ (Interrupt \/ Fail)
    BY DEF Interrupt, Fail, GoTo
  <2>4. ~ (StartTask \/ Await \/ Finish \/ AllDone \/ ApplyNextChange \/ ChangesApplied
            \/ CollectTask \/ Validate)
    BY DEF StartTask, Await, Finish, AllDone, ApplyNextChange, ChangesApplied, CollectTask,
           Validate
  <2> QED BY <2>1, <2>2, <2>3, <2>4 DEF Next, Schedule
<1>3. w \in Ready
  <2>1. ~ Escape
    BY DEF Escape
  <2>2. PICK q \in SetToSeqs(Ready) :
            kickoff' = Entries(ferries, "ferry") \o Entries(q, "deps")
    BY <1>2, <2>1 DEF NextStep
  <2> QED BY <1>1, <2>2, NextKickoffs
<1>4. w \in Keys /\ triggers[w] = {} /\ deps[w] # {}
  <2>1. PICK i \in DOMAIN kickoff : w \in forwards[kickoff[i].key]
    BY <1>3 DEF Ready
  <2>2. kickoff[i].key \in Keys
    <3>1. kickoff \in Seq(Kickoff) /\ i \in 1..Len(kickoff)
      BY <1>1 DEF TypeOK
    <3>2. kickoff[i] \in Kickoff
      BY <3>1, ElementOfSeq
    <3> QED BY <3>2 DEF Kickoff
  <2>3. w \in Keys /\ triggers[w] = {}
    BY <1>3 DEF Ready
  <2> QED BY <1>1, <2>1, <2>2, <2>3 DEF Consistent, ConsistentGraph
<1>5. w \in workers
  BY <1>1, <1>4 DEF Consistent, ConsistentGraph
<1>6. deps[w] \subseteq fresh[w]
  BY <1>1, <1>4, <1>5 DEF TriggersAreHonest, Honest
<1> QED BY <1>4, <1>5, <1>6

\* No worker ever starts for its dependencies before all of them finished, in
\* whatever order the graph is changed, workers finish and snapshots are loaded.
THEOREM AlwaysDueStart == Spec => DueStart
BY DueStartHolds, Invariance, PTL DEF Spec, DueStart

-----------------------------------------------------------------------------
(***************************************************************************)
(* Nothing due is forgotten while no worker is removed.                    *)
(***************************************************************************)
NoRemovals == \A c \in Changes : c.op # "remove"

\* An ordering of a set of keys leaves none of them out.
LEMMA OrderingComplete ==
  ASSUME NEW S \in SUBSET Keys, NEW q \in SetToSeqs(S), NEW x \in S
  PROVE  \E i \in DOMAIN q : q[i] = x
<1> DEFINE n == Cardinality(S)
<1>1. IsFiniteSet(S)
  BY InitAssumption, FS_Subset
<1>2. n \in Nat
  BY <1>1, FS_CardinalityType
<1>3. q \in [1..n -> S] /\ \A i, j \in 1..n : i # j => q[i] # q[j]
  BY DEF SetToSeqs
<1> SUFFICES ASSUME \A i \in 1..n : q[i] # x PROVE FALSE
  BY <1>3
<1>4. q \in [1..n -> S \ {x}]
  BY <1>3
<1>5. IsFiniteSet(S \ {x}) /\ Cardinality(S \ {x}) = n - 1
  BY <1>1, FS_RemoveElement
<1>6. IsFiniteSet(1..n) /\ Cardinality(1..n) = n
  BY <1>2, FS_Interval
<1>7. Cardinality(S \ {x}) < Cardinality(1..n)
  BY <1>2, <1>5, <1>6
<1>8. \E i, j \in 1..n : i # j /\ q[i] = q[j]
  <2> HIDE DEF n
  <2> DEFINE D == 1..n
             T == S \ {x}
  <2>1. IsFiniteSet(D) /\ IsFiniteSet(T) /\ Cardinality(T) < Cardinality(D) /\ q \in [D -> T]
    BY <1>4, <1>5, <1>6, <1>7
  <2> HIDE DEF D, T
  <2>2. \E i, j \in D : i # j /\ q[i] = q[j]
    BY <2>1, FS_PigeonHole
  <2> QED BY <2>2 DEF D
<1> QED BY <1>3, <1>8

\* The next step kicks off all that is ready.
LEMMA ReadyKickedOff ==
  ASSUME TypeOK, NEW q \in SetToSeqs(Ready),
         kickoff' = Entries(ferries, "ferry") \o Entries(q, "deps"), NEW w \in Ready
  PROVE  \E j \in DOMAIN kickoff' : kickoff'[j].key = w /\ ~ kickoff'[j].done
<1> DEFINE F == Entries(ferries, "ferry")
           D == Entries(q, "deps")
<1>1. Ready \in SUBSET Keys
  BY DEF Ready
<1>2. q \in Seq(Keys) /\ ferries \in Seq(Keys)
  BY <1>1, OrderingType DEF TypeOK
<1>3. PICK i \in DOMAIN q : q[i] = w
  BY <1>1, OrderingComplete
<1>4. F \in Seq(Kickoff) /\ D \in Seq(Kickoff) /\ Len(D) = Len(q)
  <2> "ferry" \in {"automa", "ferry", "deps"} /\ "deps" \in {"automa", "ferry", "deps"}
    OBVIOUS
  <2> QED BY <1>2, EntriesType
<1>5. i \in 1..Len(D) /\ D[i].key = w /\ ~ D[i].done
  BY <1>2, <1>3, <1>4 DEF Entries
<1> HIDE DEF F, D
<1>6. /\ kickoff' \in Seq(Kickoff) /\ Len(kickoff') = Len(F) + Len(D)
      /\ \A j \in 1..(Len(F) + Len(D)) :
            kickoff'[j] = IF j <= Len(F) THEN F[j] ELSE D[j - Len(F)]
  BY <1>4, ConcatProperties DEF F, D
<1>7. Len(F) \in Nat /\ Len(D) \in Nat
  BY <1>4, LenProperties
<1>8. Len(F) + i \in 1..(Len(F) + Len(D)) /\ kickoff'[Len(F) + i] = D[i]
  BY <1>5, <1>6, <1>7
<1> QED BY <1>5, <1>6, <1>8

\* A change that removes nothing makes no worker due.
LEMMA MakeChangeRemembers ==
  ASSUME TypeOK, NoRemovals, NoDueWorkerForgotten, NEW c \in Changes, MakeChange(c),
         UNCHANGED kickoff
  PROVE  NoDueWorkerForgotten'
<1> USE DEF TypeOK, GraphTypeOK
<1>1. c.key \in Keys /\ c.on \in SUBSET Keys /\ c.op # "remove"
  BY ChangeAssumption DEF Change, NoRemovals
<1>2. \A j \in DOMAIN kickoff : kickoff[j].key \in Keys
  <2> SUFFICES ASSUME NEW j \in DOMAIN kickoff PROVE kickoff[j].key \in Keys
    OBVIOUS
  <2>1. kickoff[j] \in Kickoff
    BY ElementOfSeq
  <2> QED BY <2>1 DEF Kickoff
<1>3. \A d \in Keys : forwards[d] \subseteq forwards'[d]
  <2>1. CASE AddWorker(c.key, c.on)
    BY <1>1, <2>1 DEF AddWorker
  <2>2. CASE \E d \in c.on : AddDependency(c.key, d)
    BY <1>1, <2>2 DEF AddDependency
  <2> QED BY <1>1, <2>1, <2>2 DEF MakeChange, ApplyChange
<1>4. \A k \in workers' : deps'[k] # {} /\ triggers'[k] = {} =>
        k \in workers /\ deps[k] # {} /\ triggers[k] = {}
  <2> SUFFICES ASSUME NEW k \in workers', deps'[k] # {}, triggers'[k] = {}
               PROVE  k \in workers /\ deps[k] # {} /\ triggers[k] = {}
    OBVIOUS
  <2>1. CASE AddWorker(c.key, c.on)
    <3>1. workers' = workers \union {c.key} /\ deps'[c.key] = c.on /\ triggers'[c.key] = c.on
      BY <1>1, <2>1 DEF AddWorker
    <3>2. k # c.key /\ k \in workers
      BY <3>1
    <3>3. deps'[k] = deps[k] /\ triggers'[k] = triggers[k]
      BY <1>1, <2>1, <3>2 DEF AddWorker
    <3> QED BY <3>2, <3>3
  <2>2. CASE \E d \in c.on : AddDependency(c.key, d)
    <3>1. PICK d \in c.on : AddDependency(c.key, d)
      BY <2>2
    <3>2. workers' = workers
      BY <3>1 DEF AddDependency
    <3>3. triggers'[c.key] = triggers[c.key] \union {d}
      BY <1>1, <3>1 DEF AddDependency
    <3>4. k # c.key
      BY <3>3
    <3>5. deps'[k] = deps[k] /\ triggers'[k] = triggers[k]
      BY <1>1, <3>1, <3>4 DEF AddDependency
    <3> QED BY <3>2, <3>5
  <2> QED BY <1>1, <2>1, <2>2 DEF MakeChange, ApplyChange
<1> QED BY <1>2, <1>3, <1>4 DEF NoDueWorkerForgotten, Remembers

\* Marking a kickoff finished changes no key, and finishes a worker's first.
LEMMA MarkFirst ==
  ASSUME TypeOK, NEW k, MarkFinished(k), \E j \in DOMAIN kickoff : kickoff[j].key = k
  PROVE  /\ DOMAIN kickoff' = DOMAIN kickoff
         /\ \A j \in DOMAIN kickoff : kickoff'[j].key = kickoff[j].key
         /\ \A j \in DOMAIN kickoff : kickoff[j].key # k => kickoff'[j] = kickoff[j]
         /\ \A j \in DOMAIN kickoff : kickoff[j].done => kickoff'[j].done
         /\ \E j \in DOMAIN kickoff : kickoff[j].key = k /\ kickoff'[j].done
<1>1. kickoff \in Seq(Kickoff) /\ \A j \in DOMAIN kickoff : kickoff[j] \in Kickoff
  BY ElementOfSeq DEF TypeOK
<1>2. Len(kickoff) \in Nat /\ DOMAIN kickoff = 1..Len(kickoff)
  BY <1>1, LenProperties
<1> DEFINE first(j) == kickoff[j].key = k /\ \A i \in 1..(j - 1) : kickoff[i].key # k
<1>3. kickoff' = [j \in DOMAIN kickoff |->
                    IF first(j) THEN [kickoff[j] EXCEPT !.done = TRUE] ELSE kickoff[j]]
  BY DEF MarkFinished
<1>4. \A j \in DOMAIN kickoff : first(j) => kickoff[j].key = k
  OBVIOUS
<1>5. \E j \in DOMAIN kickoff : first(j)
  <2> DEFINE P == {j \in 1..Len(kickoff) : kickoff[j].key = k}
  <2>1. P \subseteq Nat /\ P # {}
    BY <1>2
  <2>2. PICK m \in P : \A j \in P : ~ (<<j, m>> \in OpToRel(<, Nat))
    <3> HIDE DEF P
    <3> QED BY <2>1, WFMin, NatLessThanWellFounded
  <2>3. \A j \in P : ~ (j < m)
    BY <2>1, <2>2 DEF OpToRel
  <2>4. m \in 1..Len(kickoff) /\ kickoff[m].key = k
    OBVIOUS
  <2>5. \A i \in 1..(m - 1) : kickoff[i].key # k
    <3> SUFFICES ASSUME NEW i \in 1..(m - 1), kickoff[i].key = k PROVE FALSE
      OBVIOUS
    <3>1. i \in 1..Len(kickoff) /\ i < m
      BY <1>2, <2>4
    <3> QED BY <2>3, <3>1
  <2> QED BY <1>2, <2>4, <2>5
<1> HIDE DEF first
<1>6. DOMAIN kickoff' = DOMAIN kickoff
  BY <1>3
<1>7. \A j \in DOMAIN kickoff : kickoff'[j].key = kickoff[j].key
  BY <1>1, <1>3 DEF Kickoff
<1>8. \A j \in DOMAIN kickoff : kickoff[j].key # k => kickoff'[j] = kickoff[j]
  BY <1>3, <1>4
<1>9. \A j \in DOMAIN kickoff : first(j) => kickoff'[j].done
  BY <1>1, <1>3 DEF Kickoff
<1>10. \A j \in DOMAIN kickoff : kickoff[j].done => kickoff'[j].done
  BY <1>1, <1>3, <1>9 DEF Kickoff
<1> QED BY <1>4, <1>5, <1>6, <1>7, <1>8, <1>9, <1>10

\* The successors that lose their last trigger are those of a finished kickoff; the
\* finished worker itself waits for its dependencies again.
LEMMA CollectRemembers ==
  ASSUME IInv, RemembersInv, CollectTask
  PROVE  NoDueWorkerForgotten' /\ TasksKickedOff'
<1> DEFINE t == tasks[cursor]
<1>1. cursor \in DOMAIN tasks /\ t.key \in Keys
  <2>1. cursor \in 1..Len(tasks) /\ t \in Task
    BY CollectedTask DEF IInv
  <2>2. tasks \in Seq(Task)
    BY DEF IInv, TypeOK
  <2> QED BY <2>1, <2>2 DEF Task
<1>2. TypeOK /\ Consistent
  BY DEF IInv
<1>3. \E j \in DOMAIN kickoff : kickoff[j].key = t.key
  BY <1>1 DEF RemembersInv, TasksKickedOff
<1>4. CASE CollectReturned(t)
  <2>1. /\ DOMAIN kickoff' = DOMAIN kickoff
        /\ \A j \in DOMAIN kickoff : kickoff'[j].key = kickoff[j].key
        /\ \A j \in DOMAIN kickoff : kickoff[j].key # t.key => kickoff'[j] = kickoff[j]
        /\ \A j \in DOMAIN kickoff : kickoff[j].done => kickoff'[j].done
        /\ \E j \in DOMAIN kickoff : kickoff[j].key = t.key /\ kickoff'[j].done
    BY <1>2, <1>3, <1>4, MarkFirst DEF CollectReturned
  <2>2. \A i \in DOMAIN tasks' : i \in DOMAIN tasks /\ tasks'[i].key = tasks[i].key
    <3>1. tasks \in Seq(Task) /\ \A i \in DOMAIN tasks : tasks[i] \in Task
      BY <1>2, ElementOfSeq DEF TypeOK
    <3>2. CASE UNCHANGED tasks
      BY <3>2
    <3>3. CASE \E s \in Statuses : tasks' = [tasks EXCEPT ![cursor].status = s]
      BY <1>1, <3>1, <3>3 DEF Task
    <3> QED BY <1>4, <3>2, <3>3 DEF CollectReturned, Statuses
  <2>3. TasksKickedOff'
    BY <2>1, <2>2 DEF RemembersInv, TasksKickedOff
  <2>4. CASE t.key \in workers
    <3>1. PICK visited \in SUBSET forwards[t.key] : WorkerFinished(t.key, visited)
      BY <1>4, <2>4 DEF CollectReturned
    <3>2. UNCHANGED <<workers, deps, forwards>>
      BY <3>1 DEF WorkerFinished
    <3>3. \A w \in workers : triggers'[w] = {} /\ deps[w] # {} =>
            w # t.key /\ (triggers[w] = {} \/ w \in forwards[t.key])
      BY <1>2, <3>1 DEF WorkerFinished, TypeOK, GraphTypeOK
    <3>4. ASSUME NEW w \in workers, triggers'[w] = {}, deps[w] # {}
          PROVE  \E j \in DOMAIN kickoff' : IF kickoff'[j].done THEN w \in forwards[kickoff'[j].key]
                                                                ELSE w = kickoff'[j].key
      <4>1. CASE w \in forwards[t.key]
        BY <2>1, <4>1
      <4>2. CASE triggers[w] = {}
        <5>1. PICK j \in DOMAIN kickoff : IF kickoff[j].done THEN w \in forwards[kickoff[j].key]
                                                             ELSE w = kickoff[j].key
          BY <3>4, <4>2 DEF RemembersInv, NoDueWorkerForgotten, Remembers
        <5>2. CASE kickoff[j].done
          BY <2>1, <5>1, <5>2
        <5>3. CASE ~ kickoff[j].done
          BY <2>1, <3>3, <3>4, <5>1, <5>3
        <5> QED BY <5>2, <5>3
      <4> QED BY <3>3, <3>4, <4>1, <4>2
    <3> QED BY <2>3, <3>2, <3>4 DEF NoDueWorkerForgotten, Remembers
  <2>5. CASE t.key \notin workers
    <3>1. UNCHANGED graphVars
      BY <1>4, <2>5 DEF CollectReturned
    <3>2. ASSUME NEW w \in workers, triggers[w] = {}, deps[w] # {}
          PROVE  \E j \in DOMAIN kickoff' : IF kickoff'[j].done THEN w \in forwards[kickoff'[j].key]
                                                                ELSE w = kickoff'[j].key
      <4>1. PICK j \in DOMAIN kickoff : IF kickoff[j].done THEN w \in forwards[kickoff[j].key]
                                                           ELSE w = kickoff[j].key
        BY <3>2 DEF RemembersInv, NoDueWorkerForgotten, Remembers
      <4>2. CASE kickoff[j].done
        BY <2>1, <4>1, <4>2
      <4>3. CASE ~ kickoff[j].done
        BY <2>1, <2>5, <3>2, <4>1, <4>3
      <4> QED BY <4>2, <4>3
    <3> QED BY <2>3, <3>1, <3>2 DEF NoDueWorkerForgotten, Remembers, graphVars
  <2> QED BY <2>4, <2>5
<1>5. CASE CollectAsked(t) \/ CollectRaised(t)
  <2>1. UNCHANGED <<graphVars, kickoff, tasks>>
    BY <1>5 DEF CollectAsked, CollectRaised
  <2> QED BY <2>1 DEF RemembersInv, NoDueWorkerForgotten, Remembers, TasksKickedOff, graphVars
<1> QED BY <1>4, <1>5 DEF CollectTask

\* The invariant is preserved while no change removes a worker.
LEMMA StepRemembers == NoRemovals /\ IInv /\ RemembersInv /\ [Next]_vars => RemembersInv'
<1> SUFFICES ASSUME NoRemovals, IInv, RemembersInv, [Next]_vars PROVE RemembersInv'
  OBVIOUS
<1>0. TypeOK /\ tasks \in Seq(Task) /\ kickoff \in Seq(Kickoff)
  BY DEF IInv, TypeOK
<1>1. ASSUME UNCHANGED <<graphVars, kickoff, snapshot>>, TasksKickedOff' PROVE RemembersInv'
  BY <1>1 DEF RemembersInv, NoDueWorkerForgotten, Remembers, graphVars
<1>2. ASSUME UNCHANGED <<graphVars, kickoff, snapshot, tasks>> PROVE RemembersInv'
  BY <1>1, <1>2 DEF RemembersInv, TasksKickedOff
<1>3. ASSUME UNCHANGED snapshot, NoDueWorkerForgotten', TasksKickedOff' PROVE RemembersInv'
  BY <1>3 DEF RemembersInv
<1>4. CASE StartTask
  <2>1. UNCHANGED <<graphVars, kickoff, snapshot>>
    BY <1>4 DEF StartTask, Escape, automaVars, appVars
  <2>2. CASE UNCHANGED tasks
    BY <1>2, <2>1, <2>2
  <2>3. CASE tasks' = Append(tasks, [key |-> kickoff[cursor].key, status |-> "running",
                                     answered |-> 0, from |-> inputs])
    <3>1. cursor \in DOMAIN kickoff
      BY <1>0, <1>4 DEF StartTask, TypeOK
    <3>2. \A i \in DOMAIN tasks' : \/ i \in DOMAIN tasks /\ tasks'[i] = tasks[i]
                                   \/ tasks'[i].key = kickoff[cursor].key
      BY <1>0, <2>3, AppendProperties
    <3> QED BY <1>1, <2>1, <3>1, <3>2 DEF RemembersInv, TasksKickedOff
  <2> QED BY <1>4, <2>2, <2>3 DEF StartTask, Escape, taskVars
<1>5. CASE Await \/ AllDone \/ ChangesApplied \/ Validate \/ Finish \/ Fail
  <2>1. UNCHANGED <<graphVars, kickoff, snapshot, tasks>>
    BY <1>5 DEF Await, AllDone, ChangesApplied, Validate, Escape, Finish, Fail,
                automaVars, appVars, taskVars
  <2> QED BY <1>2, <2>1
<1>6. CASE ApplyNextChange
  <2>1. CASE Escape /\ UNCHANGED graphVars
    BY <1>2, <2>1 DEF Escape, automaVars, appVars, taskVars
  <2>2. CASE MakeChange(topology[cursor]) /\ UNCHANGED <<kickoff, tasks, appVars>>
    <3>1. topology[cursor] \in Changes
      BY <1>0, <1>6, ElementOfSeq DEF ApplyNextChange, TypeOK
    <3>2. NoDueWorkerForgotten'
      BY <1>0, <2>2, <3>1, MakeChangeRemembers DEF RemembersInv
    <3> QED BY <1>3, <2>2, <3>2 DEF RemembersInv, TasksKickedOff, appVars
  <2> QED BY <1>6, <2>1, <2>2 DEF ApplyNextChange
<1>7. CASE CollectTask
  BY <1>3, <1>7, CollectRemembers DEF CollectTask, appVars
<1>8. CASE Interrupt
  <2>1. /\ UNCHANGED <<graphVars, kickoff>> /\ snapshot' = Dump /\ tasks' = <<>>
    BY <1>8 DEF Interrupt, ClearTaskLevelState, automaVars
  <2>2. NoDueWorkerForgotten' /\ TasksKickedOff'
    BY <2>1 DEF RemembersInv, NoDueWorkerForgotten, Remembers, TasksKickedOff, graphVars
  <2>3. /\ Dump.workers = workers /\ Dump.deps = deps /\ Dump.forwards = forwards
        /\ Dump.triggers = triggers /\ Dump.kickoff = kickoff
    BY DEF Dump
  <2>4. Remembers(Dump.workers, Dump.deps, Dump.forwards, Dump.triggers, Dump.kickoff)
    BY <2>3 DEF RemembersInv, NoDueWorkerForgotten
  <2> HIDE DEF Dump
  <2>5. (snapshot # None => Remembers(snapshot.workers, snapshot.deps, snapshot.forwards,
                                      snapshot.triggers, snapshot.kickoff))'
    <3>1. snapshot'.workers = Dump.workers /\ snapshot'.deps = Dump.deps
          /\ snapshot'.forwards = Dump.forwards /\ snapshot'.triggers = Dump.triggers
          /\ snapshot'.kickoff = Dump.kickoff
      BY <2>1
    <3> QED BY <2>3, <2>4, <3>1 DEF Remembers
  <2> QED BY <2>2, <2>5 DEF RemembersInv
<1>9. CASE NextStep
  <2>1. CASE Escape
    BY <1>2, <1>9, <2>1 DEF NextStep, Escape, automaVars, appVars, taskVars
  <2>2. CASE ~ Escape
    <3>1. PICK q \in SetToSeqs(Ready) : kickoff' = Entries(ferries, "ferry") \o Entries(q, "deps")
      BY <1>9, <2>2 DEF NextStep
    <3>2. UNCHANGED <<graphVars, snapshot>> /\ tasks' = <<>>
      BY <1>9, <2>2 DEF NextStep, ClearTaskLevelState, appVars
    <3>3. \A j \in DOMAIN kickoff : kickoff[j].done
      BY <1>9, <2>2 DEF NextStep
    <3>4. ASSUME NEW w \in workers, deps[w] # {}, triggers[w] = {}
          PROVE  \E j \in DOMAIN kickoff' : kickoff'[j].key = w /\ ~ kickoff'[j].done
      <4>1. \E j \in DOMAIN kickoff : w \in forwards[kickoff[j].key]
        BY <3>3, <3>4 DEF RemembersInv, NoDueWorkerForgotten, Remembers
      <4>2. w \in Ready
        BY <1>0, <3>4, <4>1 DEF Ready, TypeOK, GraphTypeOK
      <4> QED BY <1>0, <3>1, <4>2, ReadyKickedOff
    <3>5. NoDueWorkerForgotten'
      BY <3>2, <3>4 DEF NoDueWorkerForgotten, Remembers, graphVars
    <3>6. TasksKickedOff'
      BY <3>2 DEF TasksKickedOff
    <3> QED BY <1>3, <3>2, <3>5, <3>6
  <2> QED BY <2>1, <2>2
<1>10. CASE \E answers \in SUBSET Open : Arun(answers)
  <2>1. UNCHANGED <<graphVars, snapshot, tasks>>
    BY <1>10 DEF Arun, Begin, taskVars
  <2>2. CASE kickoff = <<>>
    <3>1. \A w \in workers : ~ (deps[w] # {} /\ triggers[w] = {})
      BY <2>2 DEF RemembersInv, NoDueWorkerForgotten, Remembers
    <3>2. \A i \in DOMAIN tasks : FALSE
      BY <2>2 DEF RemembersInv, TasksKickedOff
    <3> QED BY <1>3, <2>1, <3>1, <3>2 DEF NoDueWorkerForgotten, Remembers, TasksKickedOff, graphVars
  <2>3. CASE kickoff # <<>>
    BY <1>2, <1>10, <2>1, <2>3 DEF Arun, Begin
  <2> QED BY <2>2, <2>3
<1>11. CASE ArunRejected
  BY <1>2, <1>11 DEF ArunRejected, taskVars
<1>12. CASE \E c \in Changes : RequestChange(c)
  <2>1. PICK c \in Changes : RequestChange(c)
    BY <1>12
  <2>2. UNCHANGED <<kickoff, tasks, snapshot>>
    BY <2>1 DEF RequestChange, appVars
  <2>3. CASE UNCHANGED graphVars
    BY <1>2, <2>2, <2>3
  <2>4. CASE MakeChange(c)
    <3>1. NoDueWorkerForgotten'
      BY <1>0, <2>2, <2>4, MakeChangeRemembers DEF RemembersInv
    <3> QED BY <1>3, <2>2, <3>1 DEF RemembersInv, TasksKickedOff
  <2> QED BY <2>1, <2>3, <2>4 DEF RequestChange
<1>13. CASE Restore
  <2>1. /\ workers' = snapshot.workers /\ deps' = snapshot.deps /\ forwards' = snapshot.forwards
        /\ triggers' = snapshot.triggers /\ kickoff' = snapshot.kickoff
        /\ tasks' = <<>> /\ snapshot' = snapshot /\ snapshot # None
    BY <1>13 DEF Restore, ClearTaskLevelState
  <2>2. NoDueWorkerForgotten'
    BY <2>1 DEF RemembersInv, NoDueWorkerForgotten, Remembers
  <2> QED BY <1>3, <2>1, <2>2 DEF TasksKickedOff
<1>14. CASE \E i \in DOMAIN tasks : Worker(i)
  <2>1. PICK i \in DOMAIN tasks : Worker(i)
    BY <1>14
  <2>2. UNCHANGED <<graphVars, kickoff, snapshot>>
    BY <2>1 DEF Worker, WorkerReturns, WorkerRaises, WorkerAsks, Ferry, WorkerUnchanged,
                automaVars, appVars
  <2>3. \A j \in DOMAIN tasks : tasks[j] \in Task
    BY <1>0, ElementOfSeq
  <2>4. \/ UNCHANGED tasks
        \/ \E s \in Statuses : tasks' = [tasks EXCEPT ![i].status = s]
        \/ tasks' = [tasks EXCEPT ![i].answered = @ + 1]
    BY <2>1 DEF Worker, WorkerReturns, WorkerRaises, WorkerAsks, Ferry, Statuses
  <2>5. \A j \in DOMAIN tasks' : j \in DOMAIN tasks /\ tasks'[j].key = tasks[j].key
    BY <2>3, <2>4 DEF Task
  <2> QED BY <1>1, <2>2, <2>5 DEF RemembersInv, TasksKickedOff
<1>15. CASE UNCHANGED vars
  BY <1>2, <1>15 DEF vars, automaVars, appVars, taskVars
<1> QED BY <1>4, <1>5, <1>6, <1>7, <1>8, <1>9, <1>10, <1>11, <1>12, <1>13, <1>14, <1>15
        DEF Next, Schedule, Application

\* As long as the program removes no worker, one whose dependencies are all satisfied
\* is kicked off, or about to be, whatever is added, fails, asks or is reloaded: the
\* selection of the next step from the successors of finished workers is enough.
THEOREM NeverForgotten == NoRemovals => (Spec => []NoDueWorkerForgotten)
<1>1. Init => RemembersInv
  <2> SUFFICES ASSUME Init PROVE RemembersInv
    OBVIOUS
  <2>1. NoDueWorkerForgotten
    BY DEF Init, GraphInit, NoDueWorkerForgotten, Remembers
  <2>2. TasksKickedOff /\ snapshot = None
    BY DEF Init, TasksKickedOff
  <2> QED BY <2>1, <2>2 DEF RemembersInv
<1>2. RemembersInv => NoDueWorkerForgotten
  BY DEF RemembersInv
<1> SUFFICES ASSUME NoRemovals PROVE Spec => []NoDueWorkerForgotten
  OBVIOUS
<1>3. IInv /\ RemembersInv /\ [Next]_vars => RemembersInv'
  BY StepRemembers
<1> QED BY <1>1, <1>2, <1>3, Invariance, PTL DEF Spec
=============================================================================
