------------------------- MODULE ReCentAutoma_proofs -------------------------
(***************************************************************************)
(* The agent's safety, for every set of tools, every selection of the      *)
(* model and every limit.                                                  *)
(***************************************************************************)
EXTENDS ReCentAutoma, GraphAutoma_proofs

\* The keys of the steps, of the tools and of the collecting workers differ.
LEMMA Names ==
  /\ Initialize # Observe /\ Initialize # Select /\ Initialize # Compress /\ Initialize # Finalize
  /\ Observe # Select /\ Observe # Compress /\ Observe # Finalize
  /\ Select # Compress /\ Select # Finalize /\ Compress # Finalize
  /\ Steps \subseteq Keys /\ ToolKeys \subseteq Keys /\ CollectKeys \subseteq Keys
  /\ \A k \in ToolKeys \union CollectKeys : k \notin Steps
  /\ \A k \in ToolKeys : k \notin CollectKeys
  /\ InitWorkers = Steps /\ InitDeps = [k \in Keys |-> {}]
  /\ StartKeys = {Initialize} /\ OutputKeys = {Finalize}
  /\ Selectable \subseteq Seq(ToolKeys)
<1> DEFINE s == <<Initialize, Observe, Select, Compress, Finalize>>
<1>1. \A a, b \in 1..5 : s[a] = s[b] => a = b
  BY ReCentAssumption DEF IsInjective
<1>2. /\ s[1] = Initialize /\ s[2] = Observe /\ s[3] = Select /\ s[4] = Compress
      /\ s[5] = Finalize
  OBVIOUS
<1>3. /\ Initialize # Observe /\ Initialize # Select /\ Initialize # Compress
      /\ Initialize # Finalize /\ Observe # Select /\ Observe # Compress
      /\ Observe # Finalize /\ Select # Compress /\ Select # Finalize /\ Compress # Finalize
  <2> HIDE DEF s
  <2> QED BY <1>1, <1>2
<1> QED BY <1>3, ReCentAssumption

-----------------------------------------------------------------------------
(***************************************************************************)
(* Sequences of changes.                                                   *)
(***************************************************************************)

\* The changes that select_tools asks for are additions of its workers.
LEMMA AddsType ==
  ASSUME NEW q \in Seq(ToolKeys), NEW new \in CollectKeys
  PROVE  /\ Additions(q, new) \in Seq(Changes) /\ Len(Additions(q, new)) = Len(q) + 1
         /\ \A n \in 1..Len(q) : Additions(q, new)[n] = Adding(q[n], {})
         /\ Additions(q, new)[Len(q) + 1] = Adding(new, {Compress} \union ToSet(q))
<1> DEFINE first == [n \in DOMAIN q |-> Adding(q[n], {})]
           last == Adding(new, {Compress} \union ToSet(q))
<1>1. ToSet(q) \in SUBSET ToolKeys
  BY DEF ToSet
<1>2. last \in Changes
  BY <1>1, ReCentAssumption
<1>3. \A n \in 1..Len(q) : Adding(q[n], {}) \in Changes
  BY ReCentAssumption
<1>4. first \in Seq(Changes) /\ Len(first) = Len(q)
      /\ \A n \in 1..Len(q) : first[n] = Adding(q[n], {})
  <2>1. DOMAIN q = 1..Len(q) /\ Len(q) \in Nat
    OBVIOUS
  <2>2. \A n \in 1..Len(q) : first[n] = Adding(q[n], {})
    BY <2>1
  <2>3. first \in [1..Len(q) -> Changes]
    BY <1>3, <2>1
  <2> HIDE DEF first
  <2> QED BY <2>1, <2>2, <2>3
<1> HIDE DEF first, last
<1>5. /\ Append(first, last) \in Seq(Changes) /\ Len(Append(first, last)) = Len(q) + 1
      /\ \A n \in 1..Len(q) : Append(first, last)[n] = first[n]
      /\ Append(first, last)[Len(q) + 1] = last
  BY <1>2, <1>4, AppendProperties
<1> QED BY <1>4, <1>5 DEF Additions, first, last

\* SetToSeq enumerates a finite set without repetition.
LEMMA Enumeration ==
  ASSUME NEW S, IsFiniteSet(S)
  PROVE  /\ SetToSeq(S) \in Seq(S) /\ Len(SetToSeq(S)) = Cardinality(S)
         /\ \A m, n \in DOMAIN SetToSeq(S) : SetToSeq(S)[m] = SetToSeq(S)[n] => m = n
         /\ \A x \in S : \E n \in DOMAIN SetToSeq(S) : SetToSeq(S)[n] = x
<1> DEFINE D == 1..Cardinality(S)
<1>1. Cardinality(S) \in Nat /\ ExistsBijection(D, S)
  BY FS_CardinalityType
<1>2. PICK g : g \in Bijection(D, S)
  BY <1>1 DEF ExistsBijection
<1>3. g \in [D -> S] /\ IsInjective(g)
  BY <1>2 DEF Bijection, Injection, IsInjective
<1>4. SetToSeq(S) \in [D -> S] /\ IsInjective(SetToSeq(S))
  BY <1>3 DEF SetToSeq
<1>5. IsFiniteSet(D) /\ Cardinality(D) = Cardinality(S)
  BY <1>1, FS_Interval
<1>6. SetToSeq(S) \in Injection(D, S)
  BY <1>4 DEF Injection, IsInjective
<1>7. SetToSeq(S) \in Surjection(D, S)
  BY <1>5, <1>6, FS_Injection
<1> QED BY <1>1, <1>4, <1>7 DEF Surjection, IsInjective

\* What the cleanup callback asks for: each of the tool workers is removed, and
\* then the collecting worker.
LEMMA RemovalsType ==
  ASSUME NEW new \in CollectKeys
  PROVE  /\ Removals(new) \in Seq(Changes) /\ Removals(new) # <<>>
         /\ \A m \in DOMAIN Removals(new) : Removals(new)[m].op = "remove"
         /\ \A m, n \in DOMAIN Removals(new) :
              Removals(new)[m].key = Removals(new)[n].key => m = n
         /\ {Removals(new)[m].key : m \in DOMAIN Removals(new)}
              = (deps[new] \intersect ToolKeys \intersect workers) \union {new}
<1> DEFINE T == deps[new] \intersect ToolKeys \intersect workers
           R == {Removing(k) : k \in T}
           f == [k \in T |-> Removing(k)]
           q == SetToSeq(R)
           removals == Append(q, Removing(new))
<1>0. removals = Removals(new) /\ T \subseteq ToolKeys
  BY DEF Removals
<1>1. IsFiniteSet(R)
  <2>1. IsFiniteSet(T)
    BY Names, InitAssumption, FS_Subset
  <2> HIDE DEF T
  <2>2. f \in Surjection(T, R)
    BY DEF Surjection
  <2> HIDE DEF f, R
  <2> QED BY <2>1, <2>2, FS_Surjection
<1>2. R \subseteq Changes /\ Removing(new) \in Changes
  BY <1>0, ReCentAssumption
<1> HIDE DEF T
<1>3. \A x \in R : x.op = "remove" /\ x.key \in T /\ x = Removing(x.key)
  BY DEF Removing
<1>4. Removing(new).op = "remove" /\ Removing(new).key = new /\ new \notin T
  BY <1>0, Names DEF Removing
<1>5. \A k \in T : Removing(k) \in R /\ Removing(k).key = k
  BY DEF Removing
<1> HIDE DEF R, T
<1>6. /\ q \in Seq(R)
      /\ \A m, n \in DOMAIN q : q[m] = q[n] => m = n
      /\ \A x \in R : \E n \in DOMAIN q : q[n] = x
  BY <1>1, Enumeration
<1> HIDE DEF q
<1>7. Len(q) \in Nat /\ DOMAIN q = 1..Len(q) /\ q \in Seq(Changes)
  BY <1>2, <1>6
<1>8. /\ removals \in Seq(Changes) /\ removals # <<>> /\ Len(removals) = Len(q) + 1
      /\ \A n \in 1..Len(q) : removals[n] = q[n]
      /\ removals[Len(q) + 1] = Removing(new)
  BY <1>2, <1>7, AppendProperties
<1> HIDE DEF removals
<1>9. DOMAIN removals = 1..(Len(q) + 1)
  BY <1>8
<1>10. \A n \in 1..Len(q) : removals[n] \in R /\ q[n] \in R
  BY <1>6, <1>8
<1>11. \A m \in DOMAIN removals :
         removals[m].op = "remove" /\ (m # Len(q) + 1 => removals[m].key \in T)
  BY <1>3, <1>4, <1>7, <1>8, <1>9, <1>10
<1>12. \A m, n \in DOMAIN removals : removals[m].key = removals[n].key => m = n
  <2> SUFFICES ASSUME NEW m \in DOMAIN removals, NEW n \in DOMAIN removals,
                      removals[m].key = removals[n].key
               PROVE  m = n
    OBVIOUS
  <2>1. CASE m # Len(q) + 1 /\ n # Len(q) + 1
    <3>1. m \in 1..Len(q) /\ n \in 1..Len(q)
      BY <1>7, <1>9, <2>1
    <3>2. q[m] = q[n]
      BY <1>3, <1>8, <1>10, <3>1
    <3> QED BY <1>6, <1>7, <3>1, <3>2
  <2> QED BY <1>4, <1>8, <1>11, <2>1
<1>13. {removals[m].key : m \in DOMAIN removals} = T \union {new}
  <2>1. \A k \in T : \E m \in DOMAIN removals : removals[m].key = k
    BY <1>5, <1>6, <1>7, <1>8, <1>9
  <2> QED BY <1>4, <1>7, <1>8, <1>9, <1>11, <2>1
<1> QED BY <1>0, <1>8, <1>11, <1>12, <1>13 DEF T

-----------------------------------------------------------------------------
(***************************************************************************)
(* Type correctness.                                                       *)
(***************************************************************************)

\* The body of a worker asks for well-typed ferries and changes.
LEMMA BodyType ==
  ASSUME TypeOK, NEW i \in DOMAIN tasks, NEW key, NEW targets \in Seq(Keys),
         NEW changes \in Seq(Changes), NEW status \in {"returned", "raised"},
         Body(i, key, targets, changes, status)
  PROVE  TypeOK'
<1>1. tasks \in Seq(Task) /\ i \in 1..Len(tasks) /\ tasks[i] \in Task
  BY ElementOfSeq DEF TypeOK
<1>2. [tasks[i] EXCEPT !.status = status] \in Task
  BY <1>1 DEF Task, Statuses
<1>3. tasks' \in Seq(Task)
  BY <1>1, <1>2 DEF Body
<1>4. ferries' \in Seq(Keys) /\ topology' \in Seq(Changes)
  BY ConcatProperties DEF Body, TypeOK
<1> QED BY <1>3, <1>4 DEF Body, WorkerUnchanged, TypeOK, GraphTypeOK, graphVars, automaVars,
                         appVars, histVars

\* Every body keeps the types, and leaves the graph and the history alone.
LEMMA WorkerTypes ==
  ASSUME ReCentTypeOK, NEW i \in DOMAIN tasks,
         \/ InitializeTaskGoal(i) \/ ObserveGoal(i) \/ SelectTools(i) \/ CompressMemory(i)
         \/ ToolRuns(i) \/ CollectResults(i) \/ FinalizeAnswer(i)
  PROVE  ReCentTypeOK' /\ UNCHANGED <<graphVars, histVars, snapshot>>
<1>1. /\ TypeOK /\ iterations \in Nat /\ noTool \in Nat /\ streak \in Nat /\ answers \in 0..2
      /\ memory \in Seq(MemoryEntries) /\ owed \subseteq ToolKeys
      /\ calls \in [CollectKeys -> SUBSET ToolKeys]
  BY DEF ReCentTypeOK
<1>2. \A entry \in MemoryEntries : Append(memory, entry) \in Seq(MemoryEntries)
  BY <1>1, AppendProperties
<1>3. /\ <<>> \in Seq(Keys) /\ <<>> \in Seq(Changes) /\ <<"observation">> \in Seq(MemoryEntries)
      /\ \A k \in Keys : <<k>> \in Seq(Keys)
      /\ \A k, m \in Keys : <<k, m>> \in Seq(Keys)
  BY DEF MemoryEntries
<1>4. {Initialize, Observe, Select, Compress, Finalize} \subseteq Keys
  BY Names DEF Steps
<1>5. ASSUME NEW key, NEW targets \in Seq(Keys), NEW changes \in Seq(Changes),
             NEW status \in {"returned", "raised"}, Body(i, key, targets, changes, status)
      PROVE  TypeOK' /\ UNCHANGED <<graphVars, histVars, snapshot>>
  BY <1>1, <1>5, BodyType DEF Body, WorkerUnchanged, appVars
<1>6. ASSUME NEW key, NEW targets \in Seq(Keys), Returns(i, key, targets)
      PROVE  TypeOK' /\ UNCHANGED <<graphVars, histVars, snapshot>>
  BY <1>3, <1>5, <1>6 DEF Returns
<1>7. ASSUME NEW key, Raises(i, key)
      PROVE  TypeOK' /\ UNCHANGED <<graphVars, histVars, snapshot>>
  BY <1>3, <1>5, <1>7 DEF Raises
<1>8. CASE InitializeTaskGoal(i)
  <2>1. TypeOK' /\ UNCHANGED <<graphVars, histVars, snapshot>>
    <3>1. CASE Raises(i, Initialize)
      BY <1>7, <3>1
    <3>2. CASE Returns(i, Initialize, <<Observe>>)
      BY <1>3, <1>4, <1>6, <3>2
    <3> QED BY <1>8, <3>1, <3>2 DEF InitializeTaskGoal
  <2>2. memory' \in Seq(MemoryEntries)
    BY <1>1, <1>2, <1>8 DEF InitializeTaskGoal, Push, MemoryEntries, recentVars
  <2> QED BY <1>1, <1>8, <2>1, <2>2 DEF InitializeTaskGoal, ReCentTypeOK, recentVars, localVars
<1>9. CASE ObserveGoal(i)
  <2>1. TypeOK' /\ UNCHANGED <<graphVars, histVars, snapshot>>
    <3>1. CASE Returns(i, Observe, <<Finalize>>)
      BY <1>3, <1>4, <1>6, <3>1
    <3>2. CASE Returns(i, Observe, <<Select, Compress>>)
      BY <1>3, <1>4, <1>6, <3>2
    <3> QED BY <1>9, <3>1, <3>2 DEF ObserveGoal
  <2>2. iterations' \in Nat
    BY <1>1, <1>9 DEF ObserveGoal
  <2>3. memory' = memory \/ memory' = <<"observation">>
    BY <1>9 DEF ObserveGoal
  <2>4. memory' \in Seq(MemoryEntries)
    BY Zenon, <1>1, <1>3, <2>3
  <2> QED BY <1>1, <1>9, <2>1, <2>2, <2>4 DEF ObserveGoal, ReCentTypeOK
<1>10. CASE SelectTools(i)
  <2>1. ASSUME NEW chosen \in Selectable \ {<<>>}, SelectsCalls(i, chosen), UNCHANGED memory
        PROVE  ReCentTypeOK' /\ UNCHANGED <<graphVars, histVars, snapshot>>
    <3> DEFINE new == CHOOSE k \in CollectKeys \ workers : TRUE
               changes == Additions(chosen, new)
    <3>1. new \in CollectKeys
      BY <2>1 DEF SelectsCalls
    <3>2. chosen \in Seq(ToolKeys) /\ chosen \in Seq(Keys) /\ ToSet(chosen) \subseteq ToolKeys
      BY Names DEF ToSet
    <3>3. changes \in Seq(Changes)
      BY <3>1, <3>2, AddsType
    <3>4. /\ Body(i, Select, chosen, changes, "returned")
          /\ calls' = [calls EXCEPT ![new] = ToSet(chosen)]
          /\ owed' = ToSet(chosen) /\ streak' = 0 /\ UNCHANGED <<localVars, answers>>
      BY <2>1 DEF SelectsCalls
    <3> HIDE DEF new, changes
    <3>5. calls' \in [CollectKeys -> SUBSET ToolKeys]
      BY <1>1, <3>1, <3>2, <3>4
    <3>6. TypeOK' /\ UNCHANGED <<graphVars, histVars, snapshot>>
      BY <1>5, <3>2, <3>3, <3>4
    <3> QED BY <1>1, <2>1, <3>2, <3>4, <3>5, <3>6 DEF ReCentTypeOK, localVars
  <2>2. CASE SelectsNothing(i)
    <3>1. TypeOK' /\ UNCHANGED <<graphVars, histVars, snapshot>>
      BY <1>3, <1>4, <1>6, <2>2 DEF SelectsNothing
    <3> QED BY <1>1, <2>2, <3>1 DEF SelectsNothing, ReCentTypeOK
  <2> QED BY <1>10, <2>1, <2>2 DEF SelectTools
<1>11. CASE CompressMemory(i)
  <2>1. memory' \in Seq(MemoryEntries)
    BY <1>1, <1>2, <1>11 DEF CompressMemory, Push, MemoryEntries
  <2>2. TypeOK' /\ UNCHANGED <<graphVars, histVars, snapshot>>
    BY <1>3, <1>6, <1>11 DEF CompressMemory
  <2> QED BY <1>1, <1>11, <2>1, <2>2 DEF CompressMemory, ReCentTypeOK, localVars
<1>12. CASE ToolRuns(i)
  <2>1. TypeOK' /\ UNCHANGED <<graphVars, histVars, snapshot>>
    BY <1>3, <1>6, <1>7, <1>12 DEF ToolRuns
  <2> QED BY <1>1, <1>12, <2>1 DEF ToolRuns, ReCentTypeOK, recentVars, localVars
<1>13. CASE CollectResults(i)
  <2>1. PICK key \in CollectKeys :
          /\ Body(i, key, <<Observe>>, Removals(key), "returned")
          /\ memory' = memory \o <<"calls", "results">> /\ owed' = owed \ calls[key]
    BY <1>13 DEF CollectResults
  <2>2. memory' \in Seq(MemoryEntries)
    <3>1. <<"calls", "results">> \in Seq(MemoryEntries)
      BY DEF MemoryEntries
    <3> QED BY <1>1, <2>1, <3>1, ConcatProperties
  <2>3. TypeOK' /\ UNCHANGED <<graphVars, histVars, snapshot>>
    BY <1>3, <1>4, <1>5, <2>1, RemovalsType
  <2> QED BY <1>1, <1>13, <2>1, <2>2, <2>3 DEF CollectResults, ReCentTypeOK, localVars
<1>14. CASE FinalizeAnswer(i)
  <2>1. memory' \in Seq(MemoryEntries)
    BY <1>2, <1>14 DEF FinalizeAnswer, Push, MemoryEntries
  <2>2. TypeOK' /\ UNCHANGED <<graphVars, histVars, snapshot>>
    BY <1>3, <1>6, <1>14 DEF FinalizeAnswer
  <2> QED BY <1>1, <1>14, <2>1, <2>2 DEF FinalizeAnswer, ReCentTypeOK, localVars
<1> QED BY <1>8, <1>9, <1>10, <1>11, <1>12, <1>13, <1>14

\* ReCentTypeOK, with the scheduler's invariant, is inductive.
LEMMA AgentTypes ==
  ASSUME ReCentTypeOK, IInv, [ReCentNext]_allVars
  PROVE  ReCentTypeOK' /\ IInv'
<1>1. CASE WorkerRuns
  <2>1. ReCentTypeOK' /\ UNCHANGED <<graphVars, histVars, snapshot>>
    BY <1>1, WorkerTypes DEF WorkerRuns
  <2> QED BY <2>1, Frame DEF ReCentTypeOK
<1>2. CASE UNCHANGED allVars
  <2>1. IInv'
    BY <1>2, StepInvariant DEF allVars
  <2> QED BY <1>2, <2>1 DEF allVars, recentVars, localVars, ReCentTypeOK, IInv
<1>3. CASE RunEnds
  <2>1. IInv'
    BY <1>3, StepInvariant DEF RunEnds, Next, Schedule
  <2> QED BY <1>3, <2>1 DEF RunEnds, ReCentTypeOK, IInv
<1>4. CASE Drives
  <2>1. IInv'
    BY <1>4, StepInvariant DEF Drives, Next, Schedule
  <2> QED BY <1>4, <2>1 DEF Drives, ReCentTypeOK, IInv, recentVars, localVars
<1>5. CASE Arun({}) /\ UNCHANGED recentVars
  <2>1. \E a \in SUBSET Open : Arun(a)
    BY <1>5
  <2>2. IInv'
    BY <2>1, StepInvariant DEF Next, Application
  <2> QED BY <1>5, <2>2 DEF ReCentTypeOK, IInv, recentVars, localVars
<1> QED BY <1>1, <1>2, <1>3, <1>4, <1>5 DEF ReCentNext

-----------------------------------------------------------------------------
(***************************************************************************)
(* Once a worker raised: every later run repeats it and fails.             *)
(***************************************************************************)

\* Marking a worker finished changes no key of the kickoff list.
LEMMA MarkedKeys ==
  ASSUME NEW k, kickoff \in Seq(Kickoff), MarkFinished(k)
  PROVE  /\ kickoff' \in Seq(Kickoff) /\ Len(kickoff') = Len(kickoff)
         /\ DOMAIN kickoff' = DOMAIN kickoff
         /\ \A j \in DOMAIN kickoff :
              /\ kickoff'[j].key = kickoff[j].key
              /\ kickoff'[j].done =
                   IF kickoff[j].key = k /\ \A i \in 1..(j-1) : kickoff[i].key # k
                   THEN TRUE ELSE kickoff[j].done
         /\ KickedOff' = KickedOff
<1>1. kickoff' \in Seq(Kickoff)
  BY MarkFinishedType
<1>2. DOMAIN kickoff' = DOMAIN kickoff /\ Len(kickoff') = Len(kickoff)
  <2>1. DOMAIN kickoff' = DOMAIN kickoff
    BY DEF MarkFinished
  <2>2. DOMAIN kickoff' = 1..Len(kickoff') /\ DOMAIN kickoff = 1..Len(kickoff)
        /\ Len(kickoff') \in Nat /\ Len(kickoff) \in Nat
    BY <1>1
  <2>3. \A m, n \in Nat : 1..m = 1..n => m = n
    <3> SUFFICES ASSUME NEW m \in Nat, NEW n \in Nat, 1..m = 1..n PROVE m <= n /\ n <= m
      OBVIOUS
    <3>1. m = 0 \/ m \in 1..n
      OBVIOUS
    <3>2. n = 0 \/ n \in 1..m
      OBVIOUS
    <3> QED BY <3>1, <3>2
  <2> QED BY <2>1, <2>2, <2>3
<1>3. \A j \in DOMAIN kickoff : kickoff[j] \in Kickoff
  BY ElementOfSeq
<1>4. \A j \in DOMAIN kickoff :
        /\ kickoff'[j].key = kickoff[j].key
        /\ kickoff'[j].done =
             IF kickoff[j].key = k /\ \A i \in 1..(j-1) : kickoff[i].key # k
             THEN TRUE ELSE kickoff[j].done
  BY <1>3 DEF MarkFinished, Kickoff
<1> QED BY <1>1, <1>2, <1>4 DEF KickedOff

\* A failed task stays, and its worker stays kicked off, whatever happens next.
LEMMA StuckStep ==
  ASSUME TypeOK, Stuck, [ReCentNext]_allVars
  PROVE  pc' = "broken" \/ Stuck'
<1>1. PICK r \in DOMAIN tasks : tasks[r].status = "raised"
  BY DEF Stuck, SomeTask
<1>2. /\ pc # "broken" /\ kickoff # <<>> /\ topology = <<>>
      /\ KickedOff \subseteq {Initialize} \union ToolKeys
      /\ \A i \in DOMAIN tasks : tasks[i].key \in KickedOff
  BY DEF Stuck
<1>3. /\ tasks \in Seq(Task) /\ kickoff \in Seq(Kickoff) /\ cursor \in Nat \ {0}
      /\ DOMAIN tasks = 1..Len(tasks) /\ Len(tasks) \in Nat
  BY DEF TypeOK
<1>4. ASSUME DOMAIN tasks \subseteq DOMAIN tasks', tasks'[r].status = "raised",
             \A i \in DOMAIN tasks' : tasks'[i].key \in KickedOff,
             kickoff' # <<>>, KickedOff' = KickedOff, topology' = <<>>,
             pc' # "broken", pc' = "idle" => outcome' = "failed"
      PROVE  Stuck'
  <2>1. SomeTask({"raised"})'
    BY <1>1, <1>4 DEF SomeTask
  <2> QED BY <1>2, <1>4, <2>1 DEF Stuck
<1>5. UNCHANGED kickoff => KickedOff' = KickedOff
  BY DEF KickedOff
<1>6. CASE StartTask
  <2>1. CASE pc' = "broken"
    BY <2>1
  <2>2. CASE ~ (pc' = "broken")
    <3>1. cursor \in DOMAIN kickoff /\ kickoff[cursor].key \in KickedOff
      BY <1>3, <1>6 DEF StartTask, KickedOff
    <3>2. /\ pc' = "driving" /\ UNCHANGED <<kickoff, topology>>
          /\ \/ UNCHANGED tasks
             \/ tasks' = Append(tasks, [key |-> kickoff[cursor].key, status |-> "running",
                                        answered |-> 0, from |-> inputs])
      BY <1>6, <2>2 DEF StartTask, Escape, automaVars
    <3>3. /\ DOMAIN tasks \subseteq DOMAIN tasks' /\ tasks'[r] = tasks[r]
          /\ \A i \in DOMAIN tasks' : tasks'[i].key \in KickedOff
      <4>1. CASE UNCHANGED tasks
        BY <1>2, <4>1
      <4>2. ASSUME NEW t, t.key \in KickedOff, tasks' = Append(tasks, t)
            PROVE  /\ DOMAIN tasks \subseteq DOMAIN tasks' /\ tasks'[r] = tasks[r]
                   /\ \A i \in DOMAIN tasks' : tasks'[i].key \in KickedOff
        <5>1. /\ DOMAIN tasks' = 1..(Len(tasks) + 1) /\ tasks'[Len(tasks) + 1] = t
              /\ \A i \in 1..Len(tasks) : tasks'[i] = tasks[i]
          BY <1>3, <4>2
        <5> QED BY <1>2, <1>3, <4>2, <5>1
      <4> QED BY <3>1, <3>2, <4>1, <4>2
    <3> QED BY <1>1, <1>2, <1>4, <1>5, <3>2, <3>3
  <2> QED BY <2>1, <2>2
<1>7. CASE Await \/ AllDone \/ ChangesApplied \/ Validate
  <2>1. UNCHANGED <<kickoff, tasks, topology>> /\ pc' # "idle"
    BY <1>7 DEF Await, AllDone, ChangesApplied, Validate, Escape, GoTo, automaVars, taskVars
  <2> QED BY <1>1, <1>2, <1>4, <1>5, <2>1
<1>8. CASE ApplyNextChange
  BY <1>2, <1>3, <1>8 DEF ApplyNextChange
<1>9. CASE CollectTask
  <2> DEFINE t == tasks[cursor]
  <2>1. cursor \in DOMAIN tasks /\ UNCHANGED <<topology, pc, outcome>> /\ pc = "collecting"
    BY <1>3, <1>9 DEF CollectTask, appVars
  <2>2. CASE CollectReturned(t)
    <3>1. cursor # r
      BY <1>1, <2>2 DEF CollectReturned
    <3>2. \/ UNCHANGED tasks
          \/ \E s \in Statuses : tasks' = [tasks EXCEPT ![cursor].status = s]
      BY <2>2 DEF CollectReturned, Statuses
    <3>3. tasks[cursor] \in Task
      BY <1>3, <2>1, ElementOfSeq
    <3>4. /\ DOMAIN tasks' = DOMAIN tasks /\ tasks'[r] = tasks[r]
          /\ \A i \in DOMAIN tasks : tasks'[i].key = tasks[i].key
      BY <1>3, <2>1, <3>1, <3>2, <3>3 DEF Task
    <3>5. KickedOff' = KickedOff /\ kickoff' # <<>>
      <4>1. KickedOff' = KickedOff /\ Len(kickoff') = Len(kickoff) /\ kickoff' \in Seq(Kickoff)
        BY <1>3, <2>2, MarkedKeys DEF CollectReturned
      <4> QED BY <1>2, <1>3, <4>1
    <3> QED BY <1>1, <1>2, <1>4, <2>1, <3>4, <3>5
  <2>3. CASE CollectAsked(t) \/ CollectRaised(t)
    <3>1. UNCHANGED <<kickoff, tasks>>
      BY <2>3 DEF CollectAsked, CollectRaised
    <3> QED BY <1>1, <1>2, <1>4, <1>5, <2>1, <3>1
  <2> QED BY <1>9, <2>2, <2>3 DEF CollectTask
<1>10. CASE NextStep
  BY <1>1, <1>10 DEF NextStep, Failed, SomeTask
<1>11. CASE Finish
  BY <1>2, <1>11 DEF Finish
<1>12. CASE Fail
  <2>1. UNCHANGED <<kickoff, tasks, topology>> /\ outcome' = "failed" /\ pc' = "idle"
    BY <1>12 DEF Fail, GoTo
  <2> QED BY <1>1, <1>2, <1>4, <1>5, <2>1
<1>13. CASE Arun({})
  <2>1. UNCHANGED <<kickoff, tasks, topology>> /\ pc' = "driving"
    BY <1>2, <1>13 DEF Arun, Begin, GoTo, taskVars
  <2> QED BY <1>1, <1>2, <1>4, <1>5, <2>1
<1>14. CASE WorkerRuns
  <2>1. PICK i \in DOMAIN tasks :
          \/ InitializeTaskGoal(i) \/ ObserveGoal(i) \/ SelectTools(i) \/ CompressMemory(i)
          \/ ToolRuns(i) \/ CollectResults(i) \/ FinalizeAnswer(i)
    BY <1>14 DEF WorkerRuns
  <2>3. tasks[i].key \in {Initialize} \union ToolKeys
    BY <1>2
  <2>4. \E k, q, s : Body(i, k, q, <<>>, s)
    <3>1. CASE InitializeTaskGoal(i)
      BY <3>1 DEF InitializeTaskGoal, Returns, Raises
    <3>2. CASE ToolRuns(i)
      BY <3>2 DEF ToolRuns, Returns, Raises
    <3>3. CASE ObserveGoal(i)
      BY <2>3, <3>3, Names DEF ObserveGoal, Returns, Body, Steps
    <3>4. CASE SelectTools(i)
      BY <2>3, <3>4, Names DEF SelectTools, SelectsCalls, SelectsNothing, Returns, Body, Steps
    <3>5. CASE CompressMemory(i) \/ FinalizeAnswer(i)
      BY <2>3, <3>5, Names DEF CompressMemory, FinalizeAnswer, Returns, Body, Steps
    <3>6. CASE CollectResults(i)
      BY <2>3, <3>6, Names DEF CollectResults, Body, Steps
    <3> QED BY <2>1, <3>1, <3>2, <3>3, <3>4, <3>5, <3>6
  <2>5. PICK q, s : /\ tasks' = [tasks EXCEPT ![i].status = s] /\ topology' = topology \o <<>>
                    /\ UNCHANGED <<kickoff, pc>> /\ pc = "waiting" /\ tasks[i].status = "running"
    BY <2>4 DEF Body, Running, WorkerUnchanged, automaVars
  <2>6. /\ DOMAIN tasks' = DOMAIN tasks /\ tasks'[r] = tasks[r]
        /\ \A j \in DOMAIN tasks : tasks'[j].key = tasks[j].key
    <3>1. tasks[i] \in Task
      BY <1>3, ElementOfSeq
    <3> QED BY <1>1, <1>3, <2>5, <3>1 DEF Task
  <2>7. topology' = <<>>
    BY <1>2, <2>5
  <2> QED BY <1>1, <1>2, <1>4, <1>5, <2>5, <2>6, <2>7
<1>15. CASE UNCHANGED allVars
  <2>1. UNCHANGED <<kickoff, tasks, topology, pc, outcome>>
    BY <1>15 DEF allVars, vars, automaVars, taskVars, appVars
  <2> QED BY <1>1, <1>2, <1>4, <1>5, <2>1 DEF Stuck
<1> QED BY <1>6, <1>7, <1>8, <1>9, <1>10, <1>11, <1>12, <1>13, <1>14, <1>15
        DEF ReCentNext, RunEnds, Drives

-----------------------------------------------------------------------------
(***************************************************************************)
(* The scheduler's steps keep the tasks in lockstep with the kickoffs.     *)
(***************************************************************************)

\* What the lockstep says of the workers that returned, phase by phase.
LEMMA Phases ==
  ASSUME TypeOK, Lockstep
  PROVE  /\ pc = "driving" => \A k : ~ Returned(k)
         /\ pc \notin {"driving", "waiting"} => \A k \in KickedOff : Returned(k)
         /\ pc \in {"driving", "waiting", "changing"} => Finished = {}
         /\ pc = "deciding" => Finished = KickedOff
         /\ \A i \in DOMAIN tasks : i \in DOMAIN kickoff /\ tasks[i].key \in KickedOff
         /\ \A k : Returned(k) => k \in KickedOff
<1>1. /\ DOMAIN tasks = 1..Len(tasks) /\ Len(tasks) \in Nat /\ cursor \in Nat \ {0}
      /\ DOMAIN kickoff = 1..Len(kickoff) /\ Len(kickoff) \in Nat
  BY DEF TypeOK
<1>2. \A i \in DOMAIN tasks : i \in DOMAIN kickoff /\ tasks[i].key = kickoff[i].key
  BY <1>1 DEF Lockstep
<1>3. \A i \in DOMAIN tasks : tasks[i].key \in KickedOff
  BY <1>2 DEF KickedOff
<1>4. pc = "driving" => \A k : ~ Returned(k)
  BY DEF Lockstep, Returned
<1>5. pc \notin {"driving", "waiting"} => \A k \in KickedOff : Returned(k)
  BY <1>1 DEF Lockstep, Returned, KickedOff
<1>6. pc \in {"driving", "waiting", "changing"} => Finished = {}
  BY DEF Lockstep, Finished
<1>7. pc = "deciding" => Finished = KickedOff
  BY DEF Lockstep, Finished, KickedOff
<1>8. \A k : Returned(k) => k \in KickedOff
  BY <1>3 DEF Returned
<1> QED BY <1>2, <1>3, <1>4, <1>5, <1>6, <1>7, <1>8

\* The next task is started.
LEMMA LockstepStart ==
  ASSUME TypeOK, Lockstep, StartTask, pc' # "broken"
  PROVE  /\ Lockstep' /\ \A k : ~ Returned(k)'
         /\ cursor \in DOMAIN kickoff /\ cursor' = cursor + 1 /\ pc = "driving" /\ pc' = "driving"
         /\ outputKeys' = outputKeys \union ({kickoff[cursor].key} \cap OutputKeys)
         /\ UNCHANGED <<kickoff, ferries, topology, graphVars, output, runs>>
<1>1. /\ DOMAIN tasks = 1..Len(tasks) /\ Len(tasks) \in Nat /\ cursor \in Nat \ {0}
      /\ DOMAIN kickoff = 1..Len(kickoff) /\ Len(kickoff) \in Nat
      /\ tasks \in Seq(Task) /\ kickoff \in Seq(Kickoff)
  BY DEF TypeOK
<1>2. pc = "driving" /\ cursor \in DOMAIN kickoff
  BY <1>1 DEF StartTask
<1>3. ~ kickoff[cursor].done /\ Len(tasks) = cursor - 1 /\ inputs = runs
  BY <1>2 DEF Lockstep
<1> DEFINE t == [key |-> kickoff[cursor].key, status |-> "running", answered |-> 0, from |-> inputs]
<1>4. /\ tasks' = Append(tasks, t) /\ cursor' = cursor + 1
      /\ outputKeys' = outputKeys \union ({kickoff[cursor].key} \cap OutputKeys)
      /\ UNCHANGED <<kickoff, automaRunning, inputs, output, ongoing, topology, ferries, pc, runs>>
  BY <1>3 DEF StartTask, Escape, automaVars, appVars
<1>5. UNCHANGED graphVars
  BY DEF StartTask
<1>6. t.key = kickoff[cursor].key /\ t.status = "running" /\ t.from = runs
  BY <1>3
<1> HIDE DEF t
<1>7. /\ Len(tasks') = cursor /\ DOMAIN tasks' = 1..cursor /\ tasks'[cursor] = t
      /\ \A i \in 1..(cursor - 1) : tasks'[i] = tasks[i]
  BY <1>1, <1>3, <1>4
<1>8. \A i \in DOMAIN tasks' :
        /\ tasks'[i].key = kickoff[i].key /\ tasks'[i].from = runs
        /\ tasks'[i].status = "running"
  <2> SUFFICES ASSUME NEW i \in DOMAIN tasks'
               PROVE  /\ tasks'[i].key = kickoff[i].key /\ tasks'[i].from = runs
                      /\ tasks'[i].status = "running"
    OBVIOUS
  <2>1. CASE i = cursor
    BY <1>6, <1>7, <2>1
  <2>2. CASE i # cursor
    <3>1. i \in DOMAIN tasks /\ tasks'[i] = tasks[i]
      BY <1>1, <1>3, <1>7, <2>2
    <3> QED BY <1>2, <3>1 DEF Lockstep
  <2> QED BY <2>1, <2>2
<1>9. Lockstep'
  BY <1>1, <1>2, <1>4, <1>7, <1>8 DEF Lockstep
<1> QED BY <1>2, <1>4, <1>5, <1>8, <1>9 DEF Returned

\* The scheduler goes on to the next phase of the step.
LEMMA LockstepPhase ==
  ASSUME TypeOK, Lockstep, Await \/ AllDone \/ ChangesApplied \/ Validate, pc' # "broken"
  PROVE  /\ Lockstep' /\ cursor' = 1
         /\ \/ pc = "driving" /\ pc' = "waiting" /\ cursor > Len(kickoff)
            \/ pc = "waiting" /\ pc' = "changing"
            \/ pc = "changing" /\ pc' = "collecting" /\ cursor > Len(topology)
            \/ pc = "collecting" /\ pc' = "deciding"
         /\ UNCHANGED <<kickoff, tasks, ferries, topology, graphVars, output, outputKeys>>
<1>1. /\ DOMAIN tasks = 1..Len(tasks) /\ Len(tasks) \in Nat /\ cursor \in Nat \ {0}
      /\ DOMAIN kickoff = 1..Len(kickoff) /\ Len(kickoff) \in Nat
  BY DEF TypeOK
<1>2. /\ UNCHANGED <<kickoff, inputs, tasks, ferries, topology, output, outputKeys, runs>>
      /\ UNCHANGED graphVars /\ cursor' = 1
  BY DEF Await, AllDone, ChangesApplied, Validate, Escape, GoTo, automaVars, taskVars, appVars
<1>3. /\ \/ pc = "driving" /\ pc' = "waiting" /\ cursor > Len(kickoff)
         \/ pc = "waiting" /\ pc' = "changing" /\ \A i \in DOMAIN tasks : tasks[i].status # "running"
         \/ pc = "changing" /\ pc' = "collecting" /\ cursor > Len(topology)
         \/ pc = "collecting" /\ pc' = "deciding" /\ cursor > Len(tasks)
  BY DEF Await, AllDone, ChangesApplied, Validate, Escape, GoTo
<1>4. CASE pc = "driving"
  <2>1. pc' = "waiting" /\ cursor > Len(kickoff) /\ Len(tasks) = Len(kickoff)
    BY <1>1, <1>3, <1>4 DEF Lockstep
  <2> QED BY <1>2, <1>3, <1>4, <2>1 DEF Lockstep
<1>5. CASE pc = "waiting"
  BY <1>2, <1>3, <1>5 DEF Lockstep
<1>6. CASE pc = "changing"
  BY <1>1, <1>2, <1>3, <1>6 DEF Lockstep
<1>7. CASE pc = "collecting"
  BY <1>1, <1>2, <1>3, <1>7 DEF Lockstep
<1> QED BY <1>2, <1>3, <1>4, <1>5, <1>6, <1>7

\* A worker returns.
LEMMA LockstepBody ==
  ASSUME TypeOK, Lockstep, NEW i \in DOMAIN tasks, NEW key, NEW targets, NEW changes,
         Body(i, key, targets, changes, "returned")
  PROVE  /\ Lockstep' /\ pc = "waiting" /\ pc' = "waiting" /\ key \in KickedOff
         /\ ~ (tasks[i].status = "returned") /\ tasks[i].key = key
         /\ ~ Returned(key)
         /\ \A k : Returned(k)' <=> Returned(k) \/ k = key
         /\ ferries' = ferries \o targets /\ topology' = topology \o changes
         /\ UNCHANGED <<kickoff, graphVars, output, outputKeys, cursor, runs>>
<1>1. /\ DOMAIN tasks = 1..Len(tasks) /\ Len(tasks) \in Nat
      /\ DOMAIN kickoff = 1..Len(kickoff) /\ Len(kickoff) \in Nat
      /\ tasks \in Seq(Task) /\ tasks[i] \in Task
  BY ElementOfSeq DEF TypeOK
<1>2. /\ pc = "waiting" /\ tasks[i].status = "running" /\ tasks[i].key = key
      /\ ferries' = ferries \o targets /\ topology' = topology \o changes
      /\ tasks' = [tasks EXCEPT ![i].status = "returned"]
      /\ UNCHANGED <<kickoff, inputs, output, pc, cursor, outputKeys, runs>>
      /\ UNCHANGED graphVars
  BY DEF Body, Running, WorkerUnchanged, automaVars, appVars
<1>3. /\ DOMAIN tasks' = DOMAIN tasks /\ Len(tasks') = Len(tasks)
      /\ tasks'[i].status = "returned"
      /\ \A j \in DOMAIN tasks : /\ tasks'[j].key = tasks[j].key /\ tasks'[j].from = tasks[j].from
                                 /\ j # i => tasks'[j].status = tasks[j].status
  BY <1>1, <1>2 DEF Task
<1>4. Lockstep'
  BY <1>1, <1>2, <1>3 DEF Lockstep
<1>5. \A j \in DOMAIN tasks : tasks[j].key = key => j = i
  BY <1>1, <1>2 DEF Lockstep
<1>6. ~ Returned(key)
  BY <1>2, <1>5 DEF Returned
<1>7. \A k : Returned(k)' <=> Returned(k) \/ k = key
  BY <1>2, <1>3, <1>5 DEF Returned
<1>8. key \in KickedOff
  BY <1>2, Phases
<1> QED BY <1>2, <1>4, <1>6, <1>7, <1>8

\* The scheduler collects the result of the next task.
LEMMA LockstepCollect ==
  ASSUME TypeOK, Lockstep, CollectTask, NotWaiting(tasks[cursor].key) = {}
  PROVE  /\ Lockstep' /\ pc = "collecting" /\ pc' = "collecting"
         /\ KickedOff' = KickedOff /\ tasks[cursor].key \in KickedOff \ Finished
         /\ Finished' = Finished \union {tasks[cursor].key}
         /\ \A k : Returned(k)' <=> Returned(k)
         /\ CollectReturned(tasks[cursor])
         /\ UNCHANGED <<ferries, topology, outputKeys, runs>>
<1> DEFINE t == tasks[cursor]
<1>1. /\ DOMAIN tasks = 1..Len(tasks) /\ Len(tasks) \in Nat /\ cursor \in Nat \ {0}
      /\ DOMAIN kickoff = 1..Len(kickoff) /\ Len(kickoff) \in Nat
      /\ tasks \in Seq(Task) /\ kickoff \in Seq(Kickoff)
  BY DEF TypeOK
<1>2. /\ pc = "collecting" /\ pc' = "collecting" /\ cursor \in DOMAIN tasks
      /\ cursor' = cursor + 1 /\ UNCHANGED <<inputs, topology, ferries, outputKeys, runs>>
  BY <1>1 DEF CollectTask, appVars
<1>3. /\ Len(tasks) = Len(kickoff) /\ t.status = "returned" /\ t.key = kickoff[cursor].key
  BY <1>2 DEF Lockstep
<1>4. CollectReturned(t)
  BY <1>3 DEF CollectTask, CollectAsked, CollectRaised
<1>5. /\ Len(kickoff') = Len(kickoff) /\ DOMAIN kickoff' = DOMAIN kickoff
      /\ KickedOff' = KickedOff
      /\ \A j \in DOMAIN kickoff :
           /\ kickoff'[j].key = kickoff[j].key
           /\ kickoff'[j].done =
                IF kickoff[j].key = t.key /\ \A i \in 1..(j-1) : kickoff[i].key # t.key
                THEN TRUE ELSE kickoff[j].done
  BY <1>1, <1>4, MarkedKeys DEF CollectReturned
<1>6. \A j \in DOMAIN kickoff : kickoff[j].key = t.key <=> j = cursor
  BY <1>1, <1>2, <1>3 DEF Lockstep
<1>7. \A j \in DOMAIN kickoff :
        /\ kickoff'[j].key = kickoff[j].key
        /\ kickoff'[j].done <=> j = cursor \/ kickoff[j].done
  <2> SUFFICES ASSUME NEW j \in DOMAIN kickoff
               PROVE  /\ kickoff'[j].key = kickoff[j].key
                      /\ kickoff'[j].done <=> j = cursor \/ kickoff[j].done
    OBVIOUS
  <2>1. (kickoff[j].key = t.key /\ \A i \in 1..(j-1) : kickoff[i].key # t.key) <=> j = cursor
    BY <1>1, <1>6
  <2> HIDE DEF t
  <2>3. CASE j = cursor
    <3>1. kickoff'[j].done = TRUE
      BY <1>5, <2>1, <2>3
    <3> QED BY Zenon, <1>5, <2>3, <3>1
  <2>4. CASE j # cursor
    <3>1. kickoff'[j].done = kickoff[j].done
      BY <1>5, <2>1, <2>4
    <3> QED BY Zenon, <1>5, <2>4, <3>1
  <2> QED BY <2>3, <2>4
<1>8. \/ UNCHANGED tasks
      \/ tasks' = [tasks EXCEPT ![cursor].status = "returned"]
  BY <1>4 DEF CollectReturned
<1>9. UNCHANGED tasks
  <2>1. CASE tasks' = [tasks EXCEPT ![cursor].status = "returned"]
    <3>1. tasks[cursor] \in Task
      BY <1>1, <1>2, ElementOfSeq
    <3>2. [tasks[cursor] EXCEPT !.status = "returned"] = tasks[cursor]
      BY <1>3, <3>1 DEF Task
    <3> QED BY <1>1, <1>2, <2>1, <3>2
  <2> QED BY <1>8, <2>1
<1>10. Lockstep'
  <2>1. \A i, j \in DOMAIN kickoff' : kickoff'[i].key = kickoff'[j].key => i = j
    BY <1>5, <1>7 DEF Lockstep
  <2>2. \A i \in DOMAIN tasks' :
          /\ tasks'[i].key = kickoff'[i].key /\ tasks'[i].from = runs'
          /\ tasks'[i].status = "returned"
    BY <1>1, <1>2, <1>3, <1>7, <1>9 DEF Lockstep
  <2>3. \A j \in DOMAIN kickoff' : kickoff'[j].done <=> j < cursor'
    <3>1. \A j \in DOMAIN kickoff : kickoff[j].done <=> j < cursor
      BY <1>2 DEF Lockstep
    <3> QED BY <1>1, <1>2, <1>3, <1>5, <1>7, <3>1
  <2> QED BY <1>2, <1>3, <1>5, <1>9, <2>1, <2>2, <2>3 DEF Lockstep
<1>11. Finished' = Finished \union {t.key}
  <2>1. \A j \in DOMAIN kickoff : kickoff'[j].done <=> kickoff[j].done \/ j = cursor
    BY <1>7
  <2>2. cursor \in DOMAIN kickoff /\ t.key = kickoff[cursor].key
    BY <1>1, <1>2, <1>3
  <2> HIDE DEF t
  <2> QED BY <1>5, <1>7, <2>1, <2>2 DEF Finished
<1>12. t.key \in KickedOff \ Finished
  BY <1>1, <1>2, <1>3, <1>6 DEF KickedOff, Finished, Lockstep
<1>13. \A k : Returned(k)' <=> Returned(k)
  BY <1>9 DEF Returned
<1> QED BY <1>2, <1>4, <1>5, <1>10, <1>11, <1>12, <1>13

-----------------------------------------------------------------------------
(***************************************************************************)
(* The agent's rounds, step by step.                                       *)
(***************************************************************************)

\* Only a collecting worker waits for others.
StepsWait == \A k \in Keys \ CollectKeys : deps[k] = {}

\* The workers a step leads to are collecting workers that depend on it: no other waits.
LEMMA Successors ==
  ASSUME TypeOK, Consistent, StepsWait, NEW k \in Keys, NEW s \in forwards[k]
  PROVE  s \in workers \cap CollectKeys /\ k \in deps[s]
<1>1. s \in Keys
  BY DEF TypeOK, GraphTypeOK
<1>2. k \in deps[s]
  BY <1>1 DEF Consistent, ConsistentGraph
<1> QED BY <1>1, <1>2 DEF StepsWait, Consistent, ConsistentGraph

\* Without a collecting worker no worker has a successor.
LEMMA NoSuccessors ==
  ASSUME TypeOK, Consistent, StepsWait, workers = Steps, NEW k \in Keys
  PROVE  forwards[k] = {}
BY Successors, Names

\* What a round says of the keys that are kicked off.
LEMMA RoundKeys ==
  ASSUME Round
  PROVE  \/ KickedOff = {Initialize} /\ GoalRound
         \/ KickedOff = {Observe} /\ ObserveRound
         \/ KickedOff = {Select, Compress} /\ (SelectRound \/ CallsRound)
         \/ KickedOff \subseteq ToolKeys /\ KickedOff # {} /\ ToolRound
         \/ (\E new \in CollectKeys : KickedOff = {new}) /\ CollectRound
         \/ KickedOff = {Finalize} /\ AnswerRound
         \/ KickedOff = {} /\ LastRound
<1>1. GoalRound => KickedOff = {Initialize}
  BY DEF GoalRound
<1>2. ObserveRound => KickedOff = {Observe}
  BY DEF ObserveRound
<1>3. SelectRound \/ CallsRound => KickedOff = {Select, Compress}
  BY DEF SelectRound, CallsRound, Selecting
<1>4. ToolRound => KickedOff \subseteq ToolKeys /\ KickedOff # {}
  BY DEF ToolRound
<1>5. CollectRound => \E new \in CollectKeys : KickedOff = {new}
  BY DEF CollectRound
<1>6. AnswerRound => KickedOff = {Finalize}
  BY DEF AnswerRound
<1>7. LastRound => KickedOff = {}
  BY DEF LastRound, KickedOff
<1> QED BY <1>1, <1>2, <1>3, <1>4, <1>5, <1>6, <1>7 DEF Round

\* Starting a task leaves the round as it is.
LEMMA RoundStart ==
  ASSUME TypeOK, Lockstep, Round, StartTask, UNCHANGED recentVars, pc' # "broken"
  PROVE  Lockstep' /\ Round'
<1>1. /\ Lockstep' /\ \A k : ~ Returned(k)'
      /\ cursor \in DOMAIN kickoff /\ cursor' = cursor + 1 /\ pc = "driving" /\ pc' = "driving"
      /\ outputKeys' = outputKeys \union ({kickoff[cursor].key} \cap OutputKeys)
      /\ UNCHANGED <<kickoff, ferries, topology, graphVars, output, runs>>
  BY LockstepStart
<1>2. \A k : ~ Returned(k)
  BY <1>1, Phases
<1>3. cursor \in Nat \ {0} /\ cursor' # 1
  BY <1>1 DEF TypeOK
<1>4. KickedOff' = KickedOff /\ Finished' = Finished /\ kickoff[cursor].key \in KickedOff
  BY <1>1 DEF KickedOff, Finished
<1>5. outputKeys' = IF KickedOff = {Finalize} THEN {Finalize} ELSE outputKeys
  <2>1. CASE KickedOff = {Finalize}
    <3>1. outputKeys \subseteq {Finalize}
      BY <2>1, RoundKeys, Names DEF AnswerRound, Steps
    <3> QED BY <1>1, <1>4, <2>1, <3>1, Names
  <2>2. CASE KickedOff # {Finalize}
    <3>1. Finalize \notin KickedOff
      BY <2>2, RoundKeys, Names DEF Steps
    <3> QED BY <1>1, <1>4, <2>2, <3>1, Names
  <2> QED BY <2>1, <2>2
<1>6. UNCHANGED <<workers, deps, triggers, owed, answers, memory, calls, output, ferries, topology,
                  runs>>
  BY <1>1 DEF graphVars, recentVars, localVars
<1>7. CASE GoalRound
  BY <1>2, <1>1, <1>4, <1>5, <1>6, <1>7, Names DEF GoalRound, Plain, Round
<1>8. CASE ObserveRound
  BY <1>2, <1>1, <1>4, <1>5, <1>6, <1>8, Names DEF ObserveRound, Plain, Round
<1>9. CASE SelectRound
  BY <1>2, <1>1, <1>4, <1>5, <1>6, <1>9, Names DEF SelectRound, Selecting, Plain, Round
<1>10. CASE CallsRound
  BY <1>1, <1>10 DEF CallsRound
<1>11. CASE ToolRound
  <2>1. KickedOff # {Finalize}
    BY <1>11, Names DEF ToolRound, Steps
  <2> QED BY <1>1, <1>4, <1>5, <1>6, <1>11, <2>1 DEF ToolRound, Round
<1>12. CASE CollectRound
  <2>1. PICK new \in CollectKeys :
          /\ KickedOff = {new} /\ ferries = <<>> /\ topology = <<>>
          /\ calls[new] = owed /\ owed \subseteq ToolKeys
          /\ workers = Steps \union owed \union {new}
          /\ deps[new] = {Compress} \union owed
    BY <1>2, <1>12 DEF CollectRound
  <2>2. KickedOff # {Finalize}
    BY <2>1, Names DEF Steps
  <2> QED BY <1>1, <1>4, <1>5, <1>6, <1>12, <2>1, <2>2 DEF CollectRound, Round
<1>13. CASE AnswerRound
  <2>1. AnswerRound'
    BY <1>2, <1>1, <1>3, <1>4, <1>5, <1>6, <1>13 DEF AnswerRound, Plain
  <2> QED BY <1>1, <2>1 DEF Round
<1>14. CASE LastRound
  BY <1>1, <1>14 DEF LastRound
<1> QED BY <1>1, <1>7, <1>8, <1>9, <1>10, <1>11, <1>12, <1>13, <1>14 DEF Round

\* So does the next phase of the step.
LEMMA RoundPhase ==
  ASSUME TypeOK, Lockstep, Round, Await \/ AllDone \/ ChangesApplied \/ Validate,
         UNCHANGED recentVars, pc' # "broken"
  PROVE  Lockstep' /\ Round'
<1>1. /\ Lockstep' /\ cursor' = 1
      /\ \/ pc = "driving" /\ pc' = "waiting" /\ cursor > Len(kickoff)
         \/ pc = "waiting" /\ pc' = "changing"
         \/ pc = "changing" /\ pc' = "collecting" /\ cursor > Len(topology)
         \/ pc = "collecting" /\ pc' = "deciding"
      /\ UNCHANGED <<kickoff, tasks, ferries, topology, graphVars, output, outputKeys>>
  BY LockstepPhase
<1>2. \A k : Returned(k)' <=> Returned(k)
  BY <1>1 DEF Returned
<1>3. KickedOff' = KickedOff /\ Finished' = Finished
  BY <1>1 DEF KickedOff, Finished
<1>4. UNCHANGED <<workers, deps, triggers, owed, answers, memory, calls, output, outputKeys,
                  ferries, topology, runs>>
  BY <1>1 DEF graphVars, recentVars, localVars, Await, AllDone, ChangesApplied, Validate, Escape,
              appVars
<1>5. cursor \in Nat \ {0} /\ Len(topology) \in Nat /\ DOMAIN topology = 1..Len(topology)
  BY DEF TypeOK
<1>6. \A S : Touched(S)' = Touched(S)
  BY <1>4 DEF Touched
<1>7. CASE GoalRound
  BY <1>1, <1>2, <1>3, <1>4, <1>7 DEF GoalRound, Plain, Round
<1>8. CASE ObserveRound
  BY <1>1, <1>2, <1>3, <1>4, <1>8 DEF ObserveRound, Plain, Round
<1>9. CASE SelectRound
  BY <1>1, <1>2, <1>3, <1>4, <1>9 DEF SelectRound, Selecting, Plain, Round
<1>11. CASE ToolRound
  BY <1>1, <1>3, <1>4, <1>11 DEF ToolRound, Round
<1>13. CASE AnswerRound
  <2>1. ~ (pc = "driving" /\ cursor = 1)
    <3>1. kickoff # <<>>
      BY <1>13 DEF AnswerRound, KickedOff
    <3>2. Len(kickoff) \in Nat /\ Len(kickoff) # 0
      BY <3>1 DEF TypeOK
    <3> QED BY <1>1, <3>2
  <2>2. pc' # "driving"
    BY <1>1
  <2> QED BY <1>1, <1>2, <1>3, <1>4, <1>13, <2>1, <2>2 DEF AnswerRound, Plain, Round
<1>14. CASE LastRound
  <2>1. Await /\ kickoff = <<>>
    BY <1>14 DEF LastRound, AllDone, ChangesApplied, Validate
  <2> QED BY <2>1 DEF Await
<1>10. CASE CallsRound
  <2>0. PICK new \in CollectKeys : CallsFor(new)
    BY <1>10 DEF CallsRound
  <2>1. /\ calls[new] = owed /\ topology = Additions(ferries, new)
        /\ pc = "waiting" => workers = Steps
        /\ pc = "changing" =>
             /\ cursor <= Len(topology) + 1
             /\ workers = Steps \union Touched(1..(cursor-1))
             /\ \A m, n \in 1..(cursor-1) : topology[m].key = topology[n].key => m = n
        /\ pc \in {"collecting", "deciding"} =>
             /\ workers = Steps \union owed \union {new}
             /\ \A m, n \in DOMAIN ferries : ferries[m] = ferries[n] => m = n
        /\ new \in workers => /\ deps[new] = {Compress} \union owed
                              /\ triggers[new] = deps[new] \ Finished
    BY <2>0 DEF CallsFor
  <2>2. /\ Selecting /\ Returned(Select) /\ pc # "driving"
        /\ ferries \in Seq(ToolKeys) \ {<<>>} /\ owed = ToSet(ferries)
    BY <1>10 DEF CallsRound
  <2>3. /\ Len(topology) = Len(ferries) + 1 /\ DOMAIN ferries = 1..Len(ferries) /\ Len(ferries) \in Nat
        /\ \A n \in 1..Len(ferries) : topology[n].key = ferries[n]
        /\ topology[Len(ferries) + 1].key = new
    <3>1. /\ Len(topology) = Len(ferries) + 1
          /\ \A n \in 1..Len(ferries) : topology[n] = Adding(ferries[n], {})
          /\ topology[Len(ferries) + 1] = Adding(new, {Compress} \union ToSet(ferries))
      BY <2>1, <2>2, AddsType
    <3>2. ferries \in Seq(ToolKeys)
      BY <2>2
    <3>3. \A k, on : Adding(k, on).key = k
      BY DEF Adding
    <3> QED BY <3>1, <3>2, <3>3
  <2>4. /\ pc' = "waiting" => workers = Steps
        /\ pc' = "changing" =>
             /\ cursor' <= Len(topology) + 1
             /\ workers = Steps \union Touched(1..(cursor' - 1))
             /\ \A m, n \in 1..(cursor' - 1) : topology[m].key = topology[n].key => m = n
        /\ pc' \in {"collecting", "deciding"} =>
             /\ workers = Steps \union owed \union {new}
             /\ \A m, n \in DOMAIN ferries : ferries[m] = ferries[n] => m = n
    <3>1. CASE pc = "waiting" /\ pc' = "changing"
      <4>1. 1..(cursor' - 1) = {}
        BY <1>1
      <4>2. Touched(1..(cursor' - 1)) = {}
        BY <4>1 DEF Touched
      <4>3. cursor' <= Len(topology) + 1
        BY <1>1, <1>5
      <4>4. workers = Steps
        BY <2>1, <3>1
      <4>5. workers = Steps \union Touched(1..(cursor' - 1))
        BY <4>2, <4>4
      <4>6. \A m, n \in 1..(cursor' - 1) : topology[m].key = topology[n].key => m = n
        BY <4>1
      <4>7. pc' # "waiting" /\ ~ (pc' \in {"collecting", "deciding"})
        BY <3>1
      <4> QED BY Zenon, <4>3, <4>5, <4>6, <4>7
    <3>2. CASE pc = "changing" /\ pc' = "collecting" /\ cursor > Len(topology)
      <4>1. cursor - 1 = Len(ferries) + 1
        BY <1>5, <2>1, <2>3, <3>2
      <4>2. Touched(1..(cursor-1)) = owed \union {new}
        BY <2>2, <2>3, <4>1 DEF Touched, ToSet
      <4>3. \A m, n \in DOMAIN ferries : ferries[m] = ferries[n] => m = n
        BY <2>1, <2>3, <3>2, <4>1
      <4> QED BY <2>1, <3>2, <4>2, <4>3
    <3>3. CASE pc = "collecting" /\ pc' = "deciding"
      BY <2>1, <3>3
    <3> QED BY <1>1, <2>2, <3>1, <3>2, <3>3
  <2>5. Selecting' /\ Returned(Select)' /\ pc' # "driving"
    BY <1>1, <1>2, <1>3, <1>4, <2>2 DEF Selecting
  <2>6. CallsFor(new)'
    BY <1>3, <1>4, <1>6, <2>1, <2>4 DEF CallsFor
  <2>7. CallsRound'
    BY <1>4, <2>2, <2>5, <2>6 DEF CallsRound
  <2> QED BY <1>1, <2>7 DEF Round
<1>12. CASE CollectRound
  <2>1. PICK new \in CollectKeys :
          /\ KickedOff = {new}
          /\ IF Returned(new)
             THEN /\ ferries = <<Observe>> /\ owed = {}
                  /\ \A m \in DOMAIN topology :
                       topology[m].op = "remove" /\ topology[m].key \in ToolKeys \union CollectKeys
                  /\ \A m, n \in DOMAIN topology : topology[m].key = topology[n].key => m = n
                  /\ pc = "waiting" => workers = Steps \union Touched(DOMAIN topology)
                  /\ pc = "changing" =>
                       /\ cursor <= Len(topology) + 1
                       /\ workers = Steps \union Touched(cursor..Len(topology))
                  /\ pc \in {"collecting", "deciding"} => workers = Steps
             ELSE /\ ferries = <<>> /\ topology = <<>>
                  /\ calls[new] = owed /\ owed \subseteq ToolKeys
                  /\ workers = Steps \union owed \union {new}
                  /\ deps[new] = {Compress} \union owed
    BY <1>12 DEF CollectRound
  <2>2. outputKeys = {} /\ answers = 0
    BY <1>12 DEF CollectRound
  <2>3. CASE Returned(new)
    <3>1. /\ pc' = "waiting" => workers = Steps \union Touched(DOMAIN topology)
          /\ pc' = "changing" =>
               /\ cursor' <= Len(topology) + 1
               /\ workers = Steps \union Touched(cursor'..Len(topology))
          /\ pc' \in {"collecting", "deciding"} => workers = Steps
      <4>1. pc # "driving"
        BY <2>3, Phases
      <4>2. CASE pc = "waiting" /\ pc' = "changing"
        BY <1>1, <1>5, <2>1, <2>3, <4>2
      <4>3. CASE pc = "changing" /\ pc' = "collecting" /\ cursor > Len(topology)
        <5>1. cursor..Len(topology) = {}
          BY <1>5, <4>3
        <5>2. Touched(cursor..Len(topology)) = {}
          BY <5>1 DEF Touched
        <5> QED BY <2>1, <2>3, <4>3, <5>2
      <4>4. CASE pc = "collecting" /\ pc' = "deciding"
        BY <2>1, <2>3, <4>4
      <4> QED BY <1>1, <4>1, <4>2, <4>3, <4>4
    <3>2. CollectRound'
      BY <1>2, <1>3, <1>4, <1>6, <2>1, <2>2, <2>3, <3>1 DEF CollectRound
    <3> QED BY <1>1, <3>2 DEF Round
  <2>4. CASE ~ Returned(new)
    <3>1. CollectRound'
      BY <1>2, <1>3, <1>4, <2>1, <2>2, <2>4 DEF CollectRound
    <3> QED BY <1>1, <3>1 DEF Round
  <2> QED BY <2>3, <2>4
<1> QED BY <1>1, <1>7, <1>8, <1>9, <1>10, <1>11, <1>12, <1>13, <1>14 DEF Round

\* A change that is made in the round it was asked in.
LEMMA RoundChange ==
  ASSUME TypeOK, StepsWait, Lockstep, Round, ApplyNextChange, UNCHANGED recentVars,
         pc' # "broken"
  PROVE  Lockstep' /\ Round' /\ StepsWait'
<1> DEFINE c == topology[cursor]
<1>1. /\ pc = "changing" /\ cursor \in Nat \ {0} /\ cursor <= Len(topology)
      /\ Len(topology) \in Nat /\ DOMAIN topology = 1..Len(topology)
      /\ Len(kickoff) \in Nat /\ DOMAIN kickoff = 1..Len(kickoff)
  BY DEF ApplyNextChange, TypeOK
<1>2. /\ MakeChange(c) /\ cursor' = cursor + 1
      /\ UNCHANGED <<kickoff, inputs, output, tasks, topology, ferries, pc, outputKeys, runs>>
  BY <1>1 DEF ApplyNextChange, Escape, appVars
<1>3. ApplyChange(c)
  BY <1>2 DEF MakeChange
<1>4. Lockstep'
  BY <1>1, <1>2 DEF Lockstep
<1>5. KickedOff' = KickedOff /\ Finished' = Finished /\ Finished = {}
      /\ \A k : Returned(k)' <=> Returned(k)
  <2>1. Finished = {}
    BY <1>1, Phases
  <2>2. KickedOff' = KickedOff /\ Finished' = Finished
    BY <1>2 DEF KickedOff, Finished
  <2>3. \A k : Returned(k)' <=> Returned(k)
    BY <1>2 DEF Returned
  <2> QED BY <2>1, <2>2, <2>3
<1>6. UNCHANGED <<owed, answers, memory, calls>>
  BY DEF recentVars, localVars
<1>7. topology # <<>> /\ cursor \in DOMAIN topology
  BY <1>1
<1>8. \A S : Touched(S)' = Touched(S)
  BY <1>2 DEF Touched
<1>9. /\ workers \subseteq Keys /\ deps \in [Keys -> SUBSET Keys]
      /\ triggers \in [Keys -> SUBSET Keys]
  BY DEF TypeOK, GraphTypeOK
<1>10. CASE CallsRound
  <2>0. PICK new \in CollectKeys : CallsFor(new)
    BY <1>10 DEF CallsRound
  <2>1. /\ calls[new] = owed /\ topology = Additions(ferries, new)
        /\ workers = Steps \union Touched(1..(cursor-1))
        /\ \A m, n \in 1..(cursor-1) : topology[m].key = topology[n].key => m = n
        /\ new \in workers => /\ deps[new] = {Compress} \union owed
                              /\ triggers[new] = deps[new] \ Finished
    BY <1>1, <2>0 DEF CallsFor
  <2>2. /\ Selecting /\ Returned(Select)
        /\ ferries \in Seq(ToolKeys) /\ ferries # <<>> /\ owed = ToSet(ferries)
    BY <1>10 DEF CallsRound
  <2>3. /\ Len(topology) = Len(ferries) + 1 /\ DOMAIN ferries = 1..Len(ferries)
        /\ Len(ferries) \in Nat
        /\ \A n \in 1..Len(ferries) : topology[n] = Adding(ferries[n], {})
        /\ topology[Len(ferries) + 1] = Adding(new, {Compress} \union owed)
    <3>1. /\ Len(topology) = Len(ferries) + 1
          /\ \A n \in 1..Len(ferries) : topology[n] = Adding(ferries[n], {})
          /\ topology[Len(ferries) + 1] = Adding(new, {Compress} \union ToSet(ferries))
      BY <2>1, <2>2, AddsType
    <3> QED BY <2>2, <3>1
  <2>4. \A k, on : Adding(k, on).key = k /\ Adding(k, on).op = "add" /\ Adding(k, on).on = on
    BY DEF Adding
  <2>5. \A n \in 1..Len(ferries) : topology[n].key \in ToolKeys
    BY <2>2, <2>3, <2>4
  <2>6. c.op = "add" /\ AddWorker(c.key, c.on)
    <3>1. c.op = "add"
      BY <1>7, <1>1, <2>3, <2>4
    <3> QED BY <1>3, <3>1 DEF ApplyChange
  <2>7. Touched(1..cursor) = Touched(1..(cursor-1)) \union {c.key}
    <3>1. 1..cursor = (1..(cursor-1)) \union {cursor}
      BY <1>1
    <3>2. \A S : Touched(S \union {cursor}) = Touched(S) \union {c.key}
      BY DEF Touched
    <3> QED BY <3>1, <3>2
  <2>8. /\ c.key \notin workers /\ workers' = workers \union {c.key}
        /\ deps' = [deps EXCEPT ![c.key] = c.on] /\ triggers' = [triggers EXCEPT ![c.key] = c.on]
    BY <2>6 DEF AddWorker
  <2>9. workers' = Steps \union Touched(1..(cursor'-1)) /\ cursor' - 1 = cursor
    BY <1>1, <1>2, <2>1, <2>7, <2>8
  <2>10. \A m \in 1..(cursor-1) : topology[m].key \in workers
    BY <2>1 DEF Touched
  <2>11. \A m, n \in 1..cursor : topology[m].key = topology[n].key => m = n
    BY <1>1, <2>1, <2>8, <2>10
  <2>14. ASSUME new \in workers' => /\ deps'[new] = {Compress} \union owed
                                    /\ triggers'[new] = deps'[new] \ Finished
         PROVE  CallsRound'
    <3>1. /\ cursor' <= Len(topology) + 1
          /\ workers' = Steps \union Touched(1..(cursor'-1))
          /\ \A m, n \in 1..(cursor'-1) : topology[m].key = topology[n].key => m = n
      BY <1>1, <1>2, <2>9, <2>11
    <3>2. Selecting' /\ Returned(Select)'
      BY <1>2, <1>5, <1>6, <2>2 DEF Selecting
    <3>3. /\ pc' = "changing" /\ ferries' \in Seq(ToolKeys) \ {<<>>} /\ owed' = ToSet(ferries')
          /\ calls'[new] = owed' /\ topology' = Additions(ferries', new)
          /\ Finished' = Finished /\ owed' = owed
      BY <1>1, <1>2, <1>5, <1>6, <2>1, <2>2
    <3>4. CallsFor(new)'
      BY <1>2, <1>8, <2>14, <3>1, <3>3 DEF CallsFor
    <3> QED BY <3>2, <3>3, <3>4 DEF CallsRound
  <2>12. CASE cursor \in 1..Len(ferries)
    <3>1. c.key \in ToolKeys /\ c.on = {} /\ c.key \in Keys
      BY <2>3, <2>4, <2>5, <2>12, Names
    <3>2. new \notin workers'
      <4>1. \A m \in 1..cursor : topology[m].key \in ToolKeys
        BY <2>5, <2>12
      <4> QED BY <2>9, <4>1, Names DEF Touched
    <3>3. StepsWait'
      BY <1>9, <2>8, <3>1 DEF StepsWait
    <3>4. CallsRound'
      BY <2>14, <3>2
    <3> QED BY <1>4, <3>3, <3>4 DEF Round
  <2>13. CASE ~ (cursor \in 1..Len(ferries))
    <3>1. cursor = Len(ferries) + 1
      BY <1>1, <2>3, <2>13
    <3>2. c.key = new /\ c.on = {Compress} \union owed /\ new \in Keys
      BY <2>3, <2>4, <3>1, Names
    <3>3. deps'[new] = {Compress} \union owed /\ triggers'[new] = {Compress} \union owed
      BY <1>9, <2>8, <3>2
    <3>4. StepsWait'
      BY <1>9, <2>8, <3>2 DEF StepsWait
    <3>5. CallsRound'
      BY <1>5, <2>14, <3>3
    <3> QED BY <1>4, <3>4, <3>5 DEF Round
  <2> QED BY <2>12, <2>13
<1>11. CASE CollectRound
  <2>1. PICK new \in CollectKeys :
          /\ KickedOff = {new} /\ Returned(new) /\ ferries = <<Observe>> /\ owed = {}
          /\ \A m \in DOMAIN topology :
               topology[m].op = "remove" /\ topology[m].key \in ToolKeys \union CollectKeys
          /\ \A m, n \in DOMAIN topology : topology[m].key = topology[n].key => m = n
          /\ workers = Steps \union Touched(cursor..Len(topology))
    BY <1>1, <1>7, <1>11 DEF CollectRound
  <2>2. outputKeys = {} /\ answers = 0
    BY <1>11 DEF CollectRound
  <2>3. RemoveWorker(c.key)
    <3>1. c.op = "remove"
      BY <1>7, <2>1
    <3> QED BY <1>3, <3>1 DEF ApplyChange
  <2>4. c.key \notin Steps
    BY <1>7, <2>1, Names
  <2>5. Touched(cursor..Len(topology)) \ {c.key} = Touched((cursor+1)..Len(topology))
    <3>1. \A m \in cursor..Len(topology) : m \in DOMAIN topology /\ (m = cursor \/ m \in (cursor+1)..Len(topology))
      BY <1>1
    <3>2. \A m \in (cursor+1)..Len(topology) : m \in DOMAIN topology /\ m # cursor /\ m \in cursor..Len(topology)
      BY <1>1
    <3> QED BY <1>7, <2>1, <3>1, <3>2 DEF Touched
  <2>6. workers' = Steps \union Touched(cursor'..Len(topology))
    BY <1>2, <2>1, <2>3, <2>4, <2>5 DEF RemoveWorker
  <2>7. StepsWait'
    BY <1>9, <2>3 DEF StepsWait, RemoveWorker
  <2>8. cursor' <= Len(topology) + 1
    BY <1>1, <1>2
  <2>9. CollectRound'
    BY <1>1, <1>2, <1>5, <1>6, <1>8, <2>1, <2>2, <2>6, <2>8 DEF CollectRound
  <2> QED BY <1>4, <2>7, <2>9 DEF Round
<1>12. CASE GoalRound \/ ObserveRound \/ SelectRound \/ ToolRound \/ AnswerRound \/ LastRound
  BY <1>7, <1>12 DEF GoalRound, ObserveRound, SelectRound, ToolRound, AnswerRound, LastRound, Plain
<1> QED BY <1>10, <1>11, <1>12 DEF Round

\* Collecting a result never finds a successor that does not wait any more.
LEMMA RoundCollect ==
  ASSUME TypeOK, Consistent, StepsWait, Lockstep, Round, CollectTask, UNCHANGED recentVars
  PROVE  Lockstep' /\ Round' /\ StepsWait'
<1> DEFINE t == tasks[cursor]
<1>1. /\ DOMAIN tasks = 1..Len(tasks) /\ Len(tasks) \in Nat /\ cursor \in Nat \ {0}
      /\ DOMAIN kickoff = 1..Len(kickoff) /\ Len(kickoff) \in Nat
      /\ workers \subseteq Keys /\ deps \in [Keys -> SUBSET Keys]
      /\ forwards \in [Keys -> SUBSET Keys] /\ triggers \in [Keys -> SUBSET Keys]
      /\ output \in [Keys -> Nat]
  BY DEF TypeOK, GraphTypeOK
<1>2. /\ pc = "collecting" /\ cursor \in DOMAIN tasks /\ cursor \in DOMAIN kickoff
      /\ t.key = kickoff[cursor].key /\ t.from = runs
  BY <1>1 DEF CollectTask, Lockstep
<1>3. t.key \in Keys /\ t.key \in KickedOff /\ t.key \notin Finished
  <2>1. t \in Task
    BY CollectedTask
  <2>2. \A j \in DOMAIN kickoff : kickoff[j].key = t.key => j = cursor
    BY <1>2 DEF Lockstep
  <2>3. ~ kickoff[cursor].done
    BY <1>1, <1>2 DEF Lockstep
  <2> QED BY <1>2, <2>1, <2>2, <2>3 DEF KickedOff, Finished, Task
<1>4. \A k \in KickedOff : Returned(k)
  BY <1>2, Phases
<1>5. \A s \in forwards[t.key] : s \in workers \cap CollectKeys /\ t.key \in deps[s]
  BY <1>3, Successors
<1>6. NotWaiting(t.key) = {}
  <2> SUFFICES ASSUME NEW s \in forwards[t.key] PROVE t.key \in triggers[s]
    BY DEF NotWaiting
  <2>1. s \in workers /\ s \in CollectKeys /\ s \notin Steps /\ t.key \in deps[s]
    BY <1>5, Names
  <2> HIDE DEF t
  <2>2. CASE GoalRound \/ ObserveRound \/ SelectRound \/ AnswerRound \/ LastRound
    BY <2>1, <2>2 DEF GoalRound, ObserveRound, SelectRound, AnswerRound, LastRound, Plain
  <2>3. CASE CallsRound
    <3>1. PICK new \in CollectKeys :
            /\ workers = Steps \union owed \union {new}
            /\ new \in workers => triggers[new] = deps[new] \ Finished
      BY <1>2, <2>3 DEF CallsRound, CallsFor
    <3>2. owed \subseteq ToolKeys
      BY <2>3 DEF CallsRound, ToSet
    <3>3. s = new
      BY <2>1, <3>1, <3>2, Names
    <3> QED BY <1>3, <2>1, <3>1, <3>3
  <2>4. CASE ToolRound
    <3>1. PICK new \in CollectKeys :
            workers = Steps \union owed \union {new} /\ triggers[new] = owed \ Finished
      BY <2>4 DEF ToolRound
    <3>2. owed \subseteq ToolKeys /\ KickedOff = owed
      BY <2>4 DEF ToolRound
    <3>3. s = new
      BY <2>1, <3>1, <3>2, Names
    <3> QED BY <1>3, <3>1, <3>2, <3>3
  <2>5. CASE CollectRound
    <3>1. workers = Steps
      BY <1>2, <1>4, <2>5 DEF CollectRound
    <3> QED BY <2>1, <3>1
  <2> QED BY <2>2, <2>3, <2>4, <2>5 DEF Round
<1>7. /\ Lockstep' /\ pc' = "collecting"
      /\ KickedOff' = KickedOff /\ Finished' = Finished \union {t.key}
      /\ \A k : Returned(k)' <=> Returned(k)
      /\ CollectReturned(t)
      /\ UNCHANGED <<ferries, topology, outputKeys, runs>>
  BY <1>6, LockstepCollect
<1>8. UNCHANGED <<owed, answers, memory, calls>>
  BY DEF recentVars, localVars
<1>9. /\ UNCHANGED <<workers, deps>>
      /\ t.key \in workers =>
           /\ \A w \in Keys : w # t.key => triggers'[w] = triggers[w] \ {t.key}
           /\ output'[t.key] = runs
      /\ t.key \notin workers => UNCHANGED triggers
  <2>1. CASE t.key \notin workers
    BY <1>7, <2>1 DEF CollectReturned, graphVars
  <2>2. CASE t.key \in workers
    <3>1. WorkerFinished(t.key, forwards[t.key]) /\ output' = [output EXCEPT ![t.key] = t.from]
      BY <1>6, <1>7, <2>2 DEF CollectReturned, WorkerFinished
    <3>2. \A w \in Keys : t.key \in triggers[w] => w \in forwards[t.key]
      BY <1>3 DEF Consistent, ConsistentGraph
    <3>3. output'[t.key] = runs
      BY <1>1, <1>2, <1>3, <3>1
    <3> HIDE DEF t
    <3>4. \A w \in Keys : w # t.key => triggers'[w] = triggers[w] \ {t.key}
      BY <1>1, <3>1, <3>2 DEF WorkerFinished
    <3> QED BY <2>2, <3>1, <3>3, <3>4 DEF WorkerFinished
  <2> QED BY <2>1, <2>2
<1>10. StepsWait'
  BY <1>9 DEF StepsWait
<1>11. \A S : Touched(S)' = Touched(S)
  BY <1>7 DEF Touched
<1> HIDE DEF t
<1>12. CASE GoalRound
  BY <1>2, <1>7, <1>8, <1>9, <1>10, <1>12 DEF GoalRound, Plain, Round
<1>13. CASE ObserveRound
  BY <1>2, <1>7, <1>8, <1>9, <1>10, <1>13 DEF ObserveRound, Plain, Round
<1>14. CASE SelectRound
  BY <1>2, <1>7, <1>8, <1>9, <1>10, <1>14 DEF SelectRound, Selecting, Plain, Round
<1>15. CASE CallsRound
  <2>1. PICK new \in CollectKeys : CallsFor(new)
    BY <1>15 DEF CallsRound
  <2>2. /\ calls[new] = owed /\ topology = Additions(ferries, new)
        /\ workers = Steps \union owed \union {new}
        /\ \A m, n \in DOMAIN ferries : ferries[m] = ferries[n] => m = n
        /\ deps[new] = {Compress} \union owed /\ triggers[new] = deps[new] \ Finished
    BY <1>2, <2>1 DEF CallsFor
  <2>3. /\ Selecting /\ Returned(Select) /\ ferries \in Seq(ToolKeys) \ {<<>>}
        /\ owed = ToSet(ferries)
    BY <1>15 DEF CallsRound
  <2>4. t.key \in Steps /\ t.key # new /\ new \in Keys
    BY <1>3, <2>3, Names DEF Selecting, Steps
  <2>5. triggers'[new] = deps'[new] \ Finished'
    BY <1>7, <1>9, <2>2, <2>4
  <2>6. CallsFor(new)'
    BY <1>7, <1>8, <1>9, <2>2, <2>5 DEF CallsFor
  <2>7. Selecting' /\ Returned(Select)'
    BY <1>7, <1>8, <2>3 DEF Selecting
  <2>8. CallsRound'
    BY <1>7, <1>8, <2>3, <2>6, <2>7 DEF CallsRound
  <2> QED BY <1>7, <1>10, <2>8 DEF Round
<1>16. CASE ToolRound
  <2>1. PICK new \in CollectKeys :
          /\ calls[new] = owed /\ workers = Steps \union owed \union {new}
          /\ deps[new] = {Compress} \union owed /\ triggers[new] = owed \ Finished
    BY <1>16 DEF ToolRound
  <2>2. /\ KickedOff = owed /\ owed \subseteq ToolKeys /\ owed # {}
        /\ ferries = <<>> /\ topology = <<>> /\ outputKeys = {} /\ answers = 0
    BY <1>16 DEF ToolRound
  <2>3. t.key \in workers /\ t.key # new /\ new \in Keys
    BY <1>3, <2>1, <2>2, Names
  <2>4. triggers'[new] = owed' \ Finished'
    BY <1>7, <1>8, <1>9, <2>1, <2>3
  <2>5. ToolRound'
    BY <1>7, <1>8, <1>9, <2>1, <2>2, <2>4 DEF ToolRound
  <2> QED BY <1>7, <1>10, <2>5 DEF Round
<1>17. CASE CollectRound
  <2>1. CollectRound'
    BY <1>2, <1>4, <1>7, <1>8, <1>9, <1>11, <1>17 DEF CollectRound
  <2> QED BY <1>7, <1>10, <2>1 DEF Round
<1>18. CASE AnswerRound
  <2>1. t.key = Finalize /\ Finalize \in workers
    BY <1>3, <1>18, Names DEF AnswerRound, Plain, Steps
  <2>2. output'[Finalize] = runs'
    BY <1>7, <1>9, <2>1
  <2>3. AnswerRound'
    BY <1>2, <1>7, <1>8, <1>9, <1>18, <2>2 DEF AnswerRound, Plain
  <2> QED BY <1>7, <1>10, <2>3 DEF Round
<1>19. ~ LastRound
  BY <1>2 DEF LastRound
<1> QED BY <1>12, <1>13, <1>14, <1>15, <1>16, <1>17, <1>18, <1>19 DEF Round

\* The workers of a list without repetition are kicked off.
LEMMA Kicked ==
  ASSUME NEW q \in Seq(Keys), NEW by \in {"automa", "ferry", "deps"},
         \A m, n \in DOMAIN q : q[m] = q[n] => m = n,
         kickoff' = Entries(q, by), pc' = "driving", cursor' = 1, inputs' = runs',
         tasks' = <<>>, ferries' = <<>>, topology' = <<>>
  PROVE  /\ Lockstep' /\ KickedOff' = ToSet(q) /\ Finished' = {}
         /\ \A k : ~ Returned(k)'
         /\ kickoff' = <<>> <=> q = <<>>
<1> DEFINE e == Entries(q, by)
<1>1. /\ DOMAIN q = 1..Len(q) /\ Len(q) \in Nat
      /\ e \in Seq(Kickoff) /\ Len(e) = Len(q)
      /\ \A i \in 1..Len(q) : e[i].key = q[i]
  BY EntriesType
<1>2. \A i \in 1..Len(q) : e[i].done = FALSE
  BY <1>1 DEF Entries
<1>3. kickoff' = e
  OBVIOUS
<1> HIDE DEF e
<1>4. DOMAIN kickoff' = 1..Len(q) /\ Len(kickoff') = Len(q)
  BY <1>1, <1>3
<1>5. Lockstep'
  <2>1. \A i, j \in DOMAIN kickoff' : kickoff'[i].key = kickoff'[j].key => i = j
    BY <1>1, <1>3, <1>4
  <2>2. \A j \in DOMAIN kickoff' : ~ kickoff'[j].done
    BY <1>2, <1>3, <1>4
  <2> QED BY <1>1, <1>4, <2>1, <2>2 DEF Lockstep
<1>6. KickedOff' = ToSet(q)
  BY <1>1, <1>3, <1>4 DEF KickedOff, ToSet
<1>7. Finished' = {}
  BY <1>2, <1>3, <1>4 DEF Finished
<1>8. \A k : ~ Returned(k)'
  BY DEF Returned
<1>9. kickoff' = <<>> <=> q = <<>>
  BY <1>1, <1>3
<1> QED BY <1>5, <1>6, <1>7, <1>8, <1>9

\* An ordering of a set of keys lists each of them once.
LEMMA Ordering ==
  ASSUME NEW S \in SUBSET Keys, NEW q \in SetToSeqs(S)
  PROVE  /\ q \in Seq(Keys) /\ ToSet(q) = S
         /\ \A m, n \in DOMAIN q : q[m] = q[n] => m = n
<1>1. q \in Seq(Keys) /\ \A i \in DOMAIN q : q[i] \in S
  BY OrderingType
<1>2. \A x \in S : \E i \in DOMAIN q : q[i] = x
  BY OrderingComplete
<1>3. \A m, n \in DOMAIN q : q[m] = q[n] => m = n
  BY DEF SetToSeqs
<1> QED BY <1>1, <1>2, <1>3 DEF ToSet

\* The next step kicks off the workers ferried to, or those that are ready.
LEMMA NextKicks ==
  ASSUME TypeOK, Lockstep, NextStep, pc' # "broken",
         Ready = {} \/ ferries = <<>>,
         \A m, n \in DOMAIN ferries : ferries[m] = ferries[n] => m = n
  PROVE  /\ Lockstep' /\ pc' = "driving" /\ cursor' = 1
         /\ KickedOff' = ToSet(ferries) \union Ready /\ Finished' = {}
         /\ \A k : ~ Returned(k)'
         /\ KickedOff' = {} => kickoff' = <<>>
         /\ ferries' = <<>> /\ topology' = <<>>
         /\ UNCHANGED <<graphVars, output, outputKeys, runs>>
<1>1. PICK q \in SetToSeqs(Ready) : kickoff' = Entries(ferries, "ferry") \o Entries(q, "deps")
  BY DEF NextStep, Escape
<1>2. /\ pc = "deciding" /\ pc' = "driving" /\ cursor' = 1
      /\ tasks' = <<>> /\ ferries' = <<>> /\ topology' = <<>>
      /\ UNCHANGED <<graphVars, inputs, output, outputKeys, runs>>
  BY DEF NextStep, Escape, ClearTaskLevelState, GoTo, appVars
<1>3. Ready \in SUBSET Keys /\ ferries \in Seq(Keys) /\ inputs = runs
  BY DEF Ready, TypeOK, Lockstep
<1>4. /\ q \in Seq(Keys) /\ ToSet(q) = Ready
      /\ \A m, n \in DOMAIN q : q[m] = q[n] => m = n
  BY <1>3, Ordering
<1>5. /\ Entries(ferries, "ferry") \in Seq(Kickoff) /\ Entries(q, "deps") \in Seq(Kickoff)
      /\ Len(Entries(ferries, "ferry")) = Len(ferries) /\ Len(Entries(q, "deps")) = Len(q)
  BY <1>3, <1>4, EntriesType
<1>6. \A s \in Seq(Keys) : ToSet(s) = {} => s = <<>>
  <2> SUFFICES ASSUME NEW s \in Seq(Keys), s # <<>> PROVE s[1] \in ToSet(s)
    OBVIOUS
  <2> QED BY DEF ToSet
<1>7. ToSet(<<>>) = {}
  BY DEF ToSet
<1>8. CASE Ready = {}
  <2>1. q = <<>> /\ Entries(q, "deps") = <<>>
    BY <1>4, <1>5, <1>6, <1>8
  <2>2. kickoff' = Entries(ferries, "ferry")
    BY <1>1, <1>5, <2>1
  <2>3. /\ Lockstep' /\ KickedOff' = ToSet(ferries) /\ Finished' = {}
        /\ \A k : ~ Returned(k)'
        /\ kickoff' = <<>> <=> ferries = <<>>
    BY <1>2, <1>3, <2>2, Kicked
  <2> QED BY <1>2, <1>3, <1>6, <1>8, <2>3
<1>9. CASE ferries = <<>>
  <2>1. Entries(ferries, "ferry") = <<>>
    BY <1>5, <1>9
  <2>2. kickoff' = Entries(q, "deps")
    BY <1>1, <1>5, <2>1
  <2>3. /\ Lockstep' /\ KickedOff' = ToSet(q) /\ Finished' = {}
        /\ \A k : ~ Returned(k)'
        /\ kickoff' = <<>> <=> q = <<>>
    BY <1>2, <1>3, <1>4, <2>2, Kicked
  <2> QED BY <1>2, <1>4, <1>6, <1>7, <1>9, <2>3
<1> QED BY <1>8, <1>9

\* One round follows another.
LEMMA RoundNext ==
  ASSUME TypeOK, Consistent, StepsWait, Lockstep, Round, NextStep, UNCHANGED recentVars,
         pc' # "broken"
  PROVE  Lockstep' /\ Round'
<1>1. /\ pc = "deciding" /\ pc # "driving" /\ pc # "waiting" /\ pc # "changing"
      /\ \A j \in DOMAIN kickoff : kickoff[j].key \in Keys
  <2>1. pc = "deciding" /\ kickoff \in Seq(Kickoff)
    BY DEF NextStep, TypeOK
  <2>2. \A j \in DOMAIN kickoff : kickoff[j] \in Kickoff
    BY <2>1, ElementOfSeq
  <2> QED BY <2>1, <2>2 DEF Kickoff
<1>2. (\A k \in KickedOff : Returned(k)) /\ Finished = KickedOff
  BY <1>1, Phases
<1>3. \A s \in Ready : s \in workers /\ s \in CollectKeys /\ triggers[s] = {}
  BY <1>1, Successors DEF Ready
<1>4. workers = Steps => Ready = {}
  BY <1>3, Names
<1>5. UNCHANGED <<owed, answers, memory, calls>>
  BY DEF recentVars, localVars
<1>6. /\ \A x : \A m, n \in DOMAIN <<x>> : <<x>>[m] = <<x>>[n] => m = n
      /\ \A x, y : x # y => \A m, n \in DOMAIN <<x, y>> : <<x, y>>[m] = <<x, y>>[n] => m = n
      /\ \A x : ToSet(<<x>>) = {x}
      /\ \A x, y : ToSet(<<x, y>>) = {x, y}
      /\ ToSet(<<>>) = {} /\ DOMAIN <<>> = {}
  BY DEF ToSet
<1> DEFINE Kicks(S) ==
      /\ Lockstep' /\ pc' = "driving" /\ cursor' = 1
      /\ KickedOff' = S /\ Finished' = {}
      /\ \A k : ~ Returned(k)'
      /\ KickedOff' = {} => kickoff' = <<>>
      /\ ferries' = <<>> /\ topology' = <<>>
      /\ UNCHANGED <<graphVars, output, outputKeys, runs>>
<1>7. ASSUME Ready = {} \/ ferries = <<>>,
             \A m, n \in DOMAIN ferries : ferries[m] = ferries[n] => m = n
      PROVE  Kicks(ToSet(ferries) \union Ready)
  BY <1>7, NextKicks
<1>8. \A S : Kicks(S) => UNCHANGED <<workers, deps, triggers>>
  BY DEF graphVars
<1> HIDE DEF Kicks
<1>9. ASSUME Kicks({Observe}), workers = Steps, owed = {}, answers = 0, outputKeys = {}
      PROVE  Lockstep' /\ Round'
  <2>1. ObserveRound'
    BY <1>5, <1>8, <1>9 DEF Kicks, ObserveRound, Plain
  <2> QED BY <1>9, <2>1 DEF Kicks, Round
<1>10. ASSUME Kicks({Finalize}), workers = Steps, owed = {}, answers = 0, outputKeys = {}
       PROVE  Lockstep' /\ Round'
  <2>1. AnswerRound'
    BY <1>5, <1>8, <1>10 DEF Kicks, AnswerRound, Plain
  <2> QED BY <1>10, <2>1 DEF Kicks, Round
<1>11. CASE GoalRound
  <2>1. /\ workers = Steps /\ owed = {} /\ answers = 0 /\ outputKeys = {}
        /\ ferries = <<Observe>>
    BY <1>2, <1>11 DEF GoalRound, Plain
  <2>2. Kicks({Observe})
    BY <1>4, <1>6, <1>7, <2>1
  <2> QED BY <1>9, <2>1, <2>2
<1>12. CASE ObserveRound
  <2>1. /\ workers = Steps /\ owed = {} /\ answers = 0 /\ outputKeys = {}
        /\ \/ ferries = <<Finalize>>
           \/ ferries = <<Select, Compress>> /\ memory = <<"observation">>
    BY <1>2, <1>12 DEF ObserveRound, Plain
  <2>2. CASE ferries = <<Finalize>>
    <3>1. Kicks({Finalize})
      BY <1>4, <1>6, <1>7, <2>1, <2>2
    <3> QED BY <1>10, <2>1, <3>1
  <2>3. CASE ferries = <<Select, Compress>> /\ memory = <<"observation">>
    <3>1. Kicks({Select, Compress})
      BY <1>4, <1>6, <1>7, <2>1, <2>3, Names
    <3>2. SelectRound'
      BY <1>5, <1>8, <2>1, <2>3, <3>1 DEF Kicks, SelectRound, Selecting, Plain
    <3> QED BY <3>1, <3>2 DEF Kicks, Round
  <2> QED BY <2>1, <2>2, <2>3
<1>13. CASE SelectRound
  <2>1. /\ workers = Steps /\ owed = {} /\ answers = 0 /\ outputKeys = {}
        /\ ferries = <<Observe>> \/ ferries = <<Finalize>>
    BY <1>2, <1>13 DEF SelectRound, Selecting, Plain
  <2>2. CASE ferries = <<Observe>>
    <3>1. Kicks({Observe})
      BY <1>4, <1>6, <1>7, <2>1, <2>2
    <3> QED BY <1>9, <2>1, <3>1
  <2>3. CASE ferries = <<Finalize>>
    <3>1. Kicks({Finalize})
      BY <1>4, <1>6, <1>7, <2>1, <2>3
    <3> QED BY <1>10, <2>1, <3>1
  <2> QED BY <2>1, <2>2, <2>3
<1>14. CASE CallsRound
  <2>1. PICK new \in CollectKeys :
          /\ calls[new] = owed /\ workers = Steps \union owed \union {new}
          /\ \A m, n \in DOMAIN ferries : ferries[m] = ferries[n] => m = n
          /\ deps[new] = {Compress} \union owed /\ triggers[new] = deps[new] \ Finished
    BY <1>1, <1>14 DEF CallsRound, CallsFor
  <2>2. /\ KickedOff = {Select, Compress} /\ outputKeys = {} /\ answers = 0
        /\ ferries \in Seq(ToolKeys) /\ ferries # <<>> /\ owed = ToSet(ferries)
    BY <1>14 DEF CallsRound, Selecting
  <2>3. owed \subseteq ToolKeys /\ owed # {}
    <3>1. ferries[1] \in ToSet(ferries)
      BY <2>2 DEF ToSet
    <3> QED BY <2>2, <3>1 DEF ToSet
  <2>4. triggers[new] = owed
    BY <1>2, <2>1, <2>2, <2>3, Names DEF Steps
  <2>5. Ready = {}
    BY <1>3, <2>1, <2>3, <2>4, Names
  <2>6. Kicks(owed)
    BY <1>7, <2>1, <2>2, <2>5
  <2>7. ToolRound'
    BY <1>5, <1>8, <2>1, <2>2, <2>3, <2>4, <2>6 DEF Kicks, ToolRound
  <2> QED BY <2>6, <2>7 DEF Kicks, Round
<1>15. CASE ToolRound
  <2>1. PICK new \in CollectKeys :
          /\ calls[new] = owed /\ workers = Steps \union owed \union {new}
          /\ deps[new] = {Compress} \union owed /\ triggers[new] = owed \ Finished
    BY <1>15 DEF ToolRound
  <2>2. /\ KickedOff = owed /\ owed \subseteq ToolKeys /\ owed # {}
        /\ ferries = <<>> /\ topology = <<>> /\ outputKeys = {} /\ answers = 0
    BY <1>15 DEF ToolRound
  <2>3. Ready \subseteq {new}
    BY <1>3, <2>1, <2>2, Names
  <2>4. new \in Ready
    <3>1. PICK j \in DOMAIN kickoff : kickoff[j].key \in owed
      BY <2>2 DEF KickedOff
    <3>2. new \in Keys /\ kickoff[j].key \in Keys /\ kickoff[j].key \in deps[new]
      BY <1>1, <2>1, <3>1, Names
    <3>3. new \in forwards[kickoff[j].key]
      BY <3>2 DEF Consistent, ConsistentGraph
    <3>4. triggers[new] = {}
      BY <1>2, <2>1, <2>2
    <3> QED BY <3>2, <3>3, <3>4 DEF Ready
  <2>5. Kicks({new})
    <3>1. ToSet(ferries) \union Ready = {new}
      BY <1>6, <2>2, <2>3, <2>4
    <3>2. \A m, n \in DOMAIN ferries : ferries[m] = ferries[n] => m = n
      BY <1>6, <2>2
    <3> QED BY <1>7, <2>2, <3>1, <3>2
  <2>6. CollectRound'
    BY <1>5, <1>8, <2>1, <2>2, <2>5 DEF Kicks, CollectRound
  <2> QED BY <2>5, <2>6 DEF Kicks, Round
<1>16. CASE CollectRound
  <2>1. /\ workers = Steps /\ owed = {} /\ answers = 0 /\ outputKeys = {}
        /\ ferries = <<Observe>>
    BY <1>1, <1>2, <1>16 DEF CollectRound
  <2>2. Kicks({Observe})
    BY <1>4, <1>6, <1>7, <2>1
  <2> QED BY <1>9, <2>1, <2>2
<1>17. CASE AnswerRound
  <2>1. /\ workers = Steps /\ owed = {} /\ answers = 1 /\ outputKeys = {Finalize}
        /\ ferries = <<>> /\ output[Finalize] = runs
    BY <1>1, <1>2, <1>17 DEF AnswerRound, Plain
  <2>2. Kicks({})
    <3>1. ToSet(ferries) \union Ready = {}
      BY <1>4, <1>6, <2>1
    <3>2. \A m, n \in DOMAIN ferries : ferries[m] = ferries[n] => m = n
      BY <1>6, <2>1
    <3> QED BY <1>7, <2>1, <3>1, <3>2
  <2>3. LastRound'
    BY <1>5, <1>8, <2>1, <2>2 DEF Kicks, LastRound, Plain
  <2> QED BY <2>2, <2>3 DEF Kicks, Round
<1>18. ~ LastRound
  BY <1>1 DEF LastRound
<1> QED BY <1>11, <1>12, <1>13, <1>14, <1>15, <1>16, <1>17, <1>18 DEF Round

\* The last round ends with the answer of this run.
LEMMA RoundFinish ==
  ASSUME TypeOK, Lockstep, Round, Finish, UNCHANGED <<owed, answers>>
  PROVE  Resting'
<1>1. pc = "driving" /\ kickoff = <<>>
  BY DEF Finish
<1>2. KickedOff = {}
  BY <1>1 DEF KickedOff
<1>3. LastRound
  BY <1>2, RoundKeys
<1>4. tasks = <<>> /\ ferries = <<>>
  <2>1. Len(kickoff) = 0 /\ tasks \in Seq(Task) /\ cursor \in Nat \ {0}
    BY <1>1 DEF TypeOK
  <2>2. Len(tasks) = 0
    BY <1>1, <2>1 DEF Lockstep
  <2> QED BY <1>1, <2>1, <2>2 DEF Lockstep
<1>5. /\ workers = Steps /\ topology = <<>> /\ owed = {}
      /\ outputKeys = {Finalize} /\ answers = 1 /\ output[Finalize] = runs
  BY <1>3 DEF LastRound, Plain
<1>6. /\ pc' = "idle" /\ outcome' = "done" /\ result' = runs
      /\ UNCHANGED <<workers, kickoff, tasks, topology, ferries, runs>>
  BY <1>5 DEF Finish, GoTo, graphVars
<1> QED BY <1>1, <1>4, <1>5, <1>6 DEF Resting, Plain

\* A run that did not end in a failure starts with a goal.
LEMMA RoundArun ==
  ASSUME TypeOK, Resting, ~ automaRunning, Arun({}), UNCHANGED recentVars
  PROVE  Lockstep' /\ Round'
<1>1. kickoff = <<>> /\ tasks = <<>> /\ ferries = <<>> /\ workers = Steps /\ topology = <<>>
      /\ owed = {}
  BY DEF Resting, Plain
<1>2. workers \cap StartKeys = {Initialize} /\ {Initialize} \in SUBSET Keys
  BY <1>1, Names DEF Steps
<1>3. PICK q \in SetToSeqs({Initialize}) : kickoff' = Entries(q, "automa")
  BY <1>1, <1>2 DEF Arun, Begin
<1>4. /\ pc' = "driving" /\ cursor' = 1 /\ inputs' = runs' /\ outputKeys' = {}
      /\ UNCHANGED <<tasks, ferries, topology, workers>>
  BY <1>1 DEF Arun, Begin, GoTo, taskVars, graphVars
<1>5. q \in Seq(Keys) /\ ToSet(q) = {Initialize} /\ \A m, n \in DOMAIN q : q[m] = q[n] => m = n
  BY <1>2, Ordering
<1>6. Lockstep' /\ KickedOff' = {Initialize} /\ \A k : ~ Returned(k)'
  BY <1>1, <1>3, <1>4, <1>5, Kicked
<1>7. owed' = {}
  BY <1>1 DEF recentVars
<1>8. GoalRound'
  BY <1>1, <1>4, <1>6, <1>7 DEF GoalRound, Plain
<1> QED BY <1>6, <1>8 DEF Round

\* A worker that raises is one of the goal or of the tools.
LEMMA RoundRaises ==
  ASSUME TypeOK, Lockstep, Round, NEW i \in DOMAIN tasks, NEW key \in {Initialize} \union ToolKeys,
         Raises(i, key)
  PROVE  Stuck'
<1>1. /\ tasks \in Seq(Task) /\ DOMAIN tasks = 1..Len(tasks) /\ tasks[i] \in Task
  BY ElementOfSeq DEF TypeOK
<1>2. /\ pc = "waiting" /\ pc' = "waiting" /\ tasks[i].key = key
      /\ tasks' = [tasks EXCEPT ![i].status = "raised"] /\ topology' = topology \o <<>>
      /\ UNCHANGED kickoff
  BY DEF Raises, Body, Running, WorkerUnchanged, automaVars
<1>3. /\ DOMAIN tasks' = DOMAIN tasks /\ tasks'[i].status = "raised"
      /\ \A j \in DOMAIN tasks : tasks'[j].key = tasks[j].key
  BY <1>1, <1>2 DEF Task
<1>4. KickedOff' = KickedOff /\ \A j \in DOMAIN tasks : tasks[j].key \in KickedOff
  BY <1>2, Phases DEF KickedOff
<1>5. key \in KickedOff
  BY <1>2, <1>4
<1>6. KickedOff \subseteq {Initialize} \union ToolKeys /\ topology = <<>>
  <2>1. CASE key = Initialize
    BY <1>5, <2>1, RoundKeys, Names DEF GoalRound, Plain, Steps
  <2>2. CASE key \in ToolKeys
    BY <1>5, <2>2, RoundKeys, Names DEF ToolRound, Steps
  <2> QED BY <2>1, <2>2
<1>7. topology' = <<>>
  BY <1>2, <1>6
<1>8. kickoff' # <<>>
  BY <1>2, <1>5 DEF KickedOff
<1> QED BY <1>2, <1>3, <1>4, <1>6, <1>7, <1>8 DEF Stuck, SomeTask

\* The goal is created.
LEMMA GoalBody ==
  ASSUME TypeOK, Lockstep, Round, NEW i \in DOMAIN tasks, InitializeTaskGoal(i)
  PROVE  Stuck' \/ (Lockstep' /\ Round')
<1>1. CASE Raises(i, Initialize)
  <2>1. Initialize \in {Initialize} \union ToolKeys
    OBVIOUS
  <2> QED BY <1>1, <2>1, RoundRaises
<1>2. CASE Returns(i, Initialize, <<Observe>>) /\ answers' = 0 /\ UNCHANGED owed
  <2>1. /\ Lockstep' /\ Initialize \in KickedOff /\ ~ Returned(Initialize)
        /\ Returned(Initialize)'
        /\ ferries' = ferries \o <<Observe>> /\ topology' = topology \o <<>>
        /\ UNCHANGED <<kickoff, graphVars, outputKeys>>
    BY <1>2, LockstepBody DEF Returns
  <2>2. GoalRound
    BY <2>1, RoundKeys, Names DEF Steps
  <2>3. ferries' = <<Observe>> /\ topology' = <<>>
    BY <2>1, <2>2 DEF GoalRound, Plain
  <2>4. KickedOff' = KickedOff
    BY <2>1 DEF KickedOff
  <2>5. GoalRound'
    BY <1>2, <2>1, <2>2, <2>3, <2>4 DEF GoalRound, Plain, graphVars
  <2> QED BY <2>1, <2>5 DEF Round
<1> QED BY <1>1, <1>2 DEF InitializeTaskGoal

\* The goal's status is observed, and memorized before tools are selected.
LEMMA ObserveBody ==
  ASSUME TypeOK, Lockstep, Round, NEW i \in DOMAIN tasks, ObserveGoal(i)
  PROVE  Lockstep' /\ Round'
<1>1. PICK q \in {<<Finalize>>, <<Select, Compress>>} :
        /\ Returns(i, Observe, q)
        /\ q = <<Finalize>> \/ memory' = <<"observation">>
  BY DEF ObserveGoal
<1>2. /\ Lockstep' /\ Observe \in KickedOff /\ ~ Returned(Observe) /\ Returned(Observe)'
      /\ ferries' = ferries \o q /\ topology' = topology \o <<>>
      /\ UNCHANGED <<kickoff, graphVars, outputKeys>>
  BY <1>1, LockstepBody DEF Returns
<1>3. ObserveRound
  BY <1>2, RoundKeys, Names DEF Steps
<1>4. ferries = <<>> /\ topology = <<>>
  BY <1>2, <1>3 DEF ObserveRound, Plain
<1>5. /\ topology' = <<>>
      /\ \/ ferries' = <<Finalize>>
         \/ ferries' = <<Select, Compress>> /\ memory' = <<"observation">>
  <2>1. topology' = <<>> \o <<>> /\ ferries' = <<>> \o q
    BY <1>2, <1>4
  <2>2. CASE q = <<Finalize>>
    BY <2>1, <2>2
  <2>3. CASE q = <<Select, Compress>> /\ memory' = <<"observation">>
    BY <2>1, <2>3
  <2>4. <<Select, Compress>> # <<Finalize>>
    OBVIOUS
  <2> QED BY <1>1, <2>2, <2>3, <2>4
<1>6. KickedOff' = KickedOff /\ UNCHANGED <<owed, answers>>
  BY <1>2 DEF KickedOff, ObserveGoal
<1>7. ObserveRound'
  BY <1>2, <1>3, <1>5, <1>6 DEF ObserveRound, Plain, graphVars
<1> QED BY <1>2, <1>7 DEF Round

\* Tools are selected, or none.
LEMMA SelectBody ==
  ASSUME ReCentTypeOK, Lockstep, Round, NEW i \in DOMAIN tasks, SelectTools(i)
  PROVE  Lockstep' /\ Round'
<1>0. TypeOK /\ calls \in [CollectKeys -> SUBSET ToolKeys]
  BY DEF ReCentTypeOK
<1>1. ASSUME NEW q, NEW c, Body(i, Select, q, c, "returned")
      PROVE  /\ Lockstep' /\ pc = "waiting" /\ pc' = "waiting"
             /\ Select \in KickedOff /\ ~ Returned(Select)
             /\ \A k : Returned(k)' <=> Returned(k) \/ k = Select
             /\ ferries' = ferries \o q /\ topology' = topology \o c
             /\ UNCHANGED <<kickoff, graphVars, output, outputKeys, cursor, runs>>
  BY <1>0, <1>1, LockstepBody
<1>2. ASSUME Select \in KickedOff, ~ Returned(Select) PROVE SelectRound
  BY <1>2, RoundKeys, Names DEF CallsRound, Steps
<1>3. ASSUME SelectRound, ~ Returned(Select)
      PROVE  ferries = <<>> /\ topology = <<>> /\ owed = {} /\ workers = Steps /\ Selecting
  BY <1>3 DEF SelectRound, Plain
<1>4. ASSUME Selecting, UNCHANGED <<kickoff, outputKeys, answers, memory>>,
             \A k : Returned(k)' <=> Returned(k) \/ k = Select
      PROVE  Selecting'
  BY <1>4, Names DEF Selecting, KickedOff
<1>5. ASSUME NEW chosen \in Selectable \ {<<>>}, SelectsCalls(i, chosen), UNCHANGED memory
      PROVE  Lockstep' /\ Round'
  <2>1. PICK new \in CollectKeys :
          /\ new \notin workers
          /\ Body(i, Select, chosen, Additions(chosen, new), "returned")
          /\ calls' = [calls EXCEPT ![new] = ToSet(chosen)]
    BY <1>5 DEF SelectsCalls
  <2>2. owed' = ToSet(chosen) /\ UNCHANGED answers
    BY <1>5 DEF SelectsCalls
  <2> DEFINE c == Additions(chosen, new)
  <2>3. chosen \in Seq(ToolKeys) /\ chosen # <<>> /\ c \in Seq(Changes)
    BY <2>1, Names, AddsType
  <2>4. /\ Lockstep' /\ pc' = "waiting" /\ Select \in KickedOff /\ ~ Returned(Select)
        /\ \A k : Returned(k)' <=> Returned(k) \/ k = Select
        /\ ferries' = ferries \o chosen /\ topology' = topology \o c
        /\ UNCHANGED <<kickoff, graphVars, outputKeys>>
    BY <1>1, <2>1
  <2>5. ferries = <<>> /\ topology = <<>> /\ workers = Steps /\ Selecting
    BY <1>2, <1>3, <2>4
  <2>6. ferries' = chosen /\ topology' = c
    BY <2>3, <2>4, <2>5, ConcatEmptySeq
  <2>7. calls'[new] = owed'
    BY <1>0, <2>1, <2>2
  <2>8. workers' = Steps /\ new \notin workers'
    BY <2>1, <2>4, <2>5 DEF graphVars
  <2>9. CallsFor(new)'
    <3>1. topology' = Additions(ferries', new)
      BY <2>6
    <3>2. pc' = "waiting" /\ workers' = Steps /\ new \notin workers' /\ calls'[new] = owed'
      BY <2>4, <2>7, <2>8
    <3> HIDE DEF c
    <3> QED BY <3>1, <3>2 DEF CallsFor
  <2>10. Selecting' /\ Returned(Select)'
    BY <1>4, <1>5, <2>2, <2>4, <2>5
  <2>11. CallsRound'
    <3>1. /\ pc' # "driving" /\ ferries' \in Seq(ToolKeys) \ {<<>>} /\ owed' = ToSet(ferries')
      BY <2>2, <2>3, <2>4, <2>6
    <3> HIDE DEF c
    <3> QED BY <2>1, <2>9, <2>10, <3>1 DEF CallsRound
  <2> QED BY <2>4, <2>11 DEF Round
<1>6. CASE SelectsNothing(i)
  <2>1. PICK q \in {<<Observe>>, <<Finalize>>} : Returns(i, Select, q)
    BY <1>6 DEF SelectsNothing
  <2>2. UNCHANGED <<memory, owed, answers>>
    BY <1>6 DEF SelectsNothing
  <2>3. /\ Lockstep' /\ Select \in KickedOff /\ ~ Returned(Select)
        /\ \A k : Returned(k)' <=> Returned(k) \/ k = Select
        /\ ferries' = ferries \o q /\ topology' = topology \o <<>>
        /\ UNCHANGED <<kickoff, graphVars, outputKeys>>
    BY <1>1, <2>1 DEF Returns
  <2>4. ferries = <<>> /\ topology = <<>> /\ workers = Steps /\ Selecting /\ owed = {}
    BY <1>2, <1>3, <2>3
  <2>5. ferries' = q /\ topology' = <<>>
    <3>1. ferries' = <<>> \o q /\ topology' = <<>> \o <<>>
      BY <2>3, <2>4
    <3>2. CASE q = <<Observe>>
      BY <3>1, <3>2
    <3>3. CASE q = <<Finalize>>
      BY <3>1, <3>3
    <3> QED BY <3>2, <3>3
  <2>6. Selecting' /\ Returned(Select)'
    BY <1>4, <2>2, <2>3, <2>4
  <2>7. SelectRound'
    BY <2>2, <2>3, <2>4, <2>5, <2>6 DEF SelectRound, Plain, graphVars
  <2> QED BY <2>3, <2>7 DEF Round
<1> QED BY <1>5, <1>6 DEF SelectTools

\* The memory is compressed as it was observed, before the calls are memorized.
LEMMA CompressBody ==
  ASSUME TypeOK, Lockstep, Round, NEW i \in DOMAIN tasks, CompressMemory(i)
  PROVE  Lockstep' /\ Round' /\ memory = <<"observation">>
<1>1. UNCHANGED <<calls, owed, answers>>
  BY DEF CompressMemory
<1>2. /\ Lockstep' /\ pc = "waiting" /\ pc' = "waiting"
      /\ Compress \in KickedOff /\ ~ Returned(Compress)
      /\ \A k : Returned(k)' <=> Returned(k) \/ k = Compress
      /\ ferries' = ferries \o <<>> /\ topology' = topology \o <<>>
      /\ UNCHANGED <<kickoff, graphVars, output, outputKeys, cursor, runs>>
  BY LockstepBody DEF CompressMemory, Returns
<1>3. SelectRound \/ CallsRound
  BY <1>2, RoundKeys, Names DEF Steps
<1>4. Selecting
  BY <1>3 DEF SelectRound, CallsRound
<1>5. memory = <<"observation">>
  BY <1>2, <1>4 DEF Selecting
<1>6. UNCHANGED <<ferries, topology>>
  <2>1. ferries \in Seq(Keys) /\ topology \in Seq(Changes)
    BY DEF TypeOK
  <2> QED BY <1>2, <2>1, ConcatEmptySeq
<1>7. Selecting' /\ (Returned(Select)' <=> Returned(Select))
  BY <1>1, <1>2, <1>4, Names DEF Selecting, KickedOff
<1>8. UNCHANGED <<workers, deps, triggers>> /\ KickedOff' = KickedOff /\ Finished' = Finished
  BY <1>2 DEF graphVars, KickedOff, Finished
<1>9. CASE SelectRound
  <2>1. SelectRound'
    BY <1>1, <1>6, <1>7, <1>8, <1>9 DEF SelectRound, Plain
  <2> QED BY <1>2, <1>5, <2>1 DEF Round
<1>10. CASE CallsRound
  <2>1. PICK new \in CollectKeys : CallsFor(new)
    BY <1>10 DEF CallsRound
  <2>2. CallsFor(new)'
    BY <1>1, <1>2, <1>6, <1>8, <2>1 DEF CallsFor
  <2>3. CallsRound'
    BY <1>1, <1>2, <1>6, <1>7, <1>10, <2>2 DEF CallsRound
  <2> QED BY <1>2, <1>5, <2>3 DEF Round
<1> QED BY <1>3, <1>9, <1>10

\* A tool returns or raises.
LEMMA ToolBody ==
  ASSUME TypeOK, Lockstep, Round, NEW i \in DOMAIN tasks, ToolRuns(i)
  PROVE  Stuck' \/ (Lockstep' /\ Round')
<1>1. PICK key \in ToolKeys : Returns(i, key, <<>>) \/ (key \in FaultyKeys /\ Raises(i, key))
  BY DEF ToolRuns
<1>2. CASE Raises(i, key)
  <2>1. key \in {Initialize} \union ToolKeys
    OBVIOUS
  <2> QED BY <1>2, <2>1, RoundRaises
<1>3. CASE Returns(i, key, <<>>)
  <2>1. /\ Lockstep' /\ key \in KickedOff
        /\ ferries' = ferries \o <<>> /\ topology' = topology \o <<>>
        /\ UNCHANGED <<kickoff, graphVars, outputKeys>>
    BY <1>3, LockstepBody DEF Returns
  <2>2. ToolRound
    BY <2>1, RoundKeys, Names DEF Steps
  <2>3. ferries' = <<>> /\ topology' = <<>>
    BY <2>1, <2>2 DEF ToolRound
  <2>4. /\ UNCHANGED <<workers, deps, triggers, owed, answers, calls>>
        /\ KickedOff' = KickedOff /\ Finished' = Finished
    BY <2>1 DEF graphVars, KickedOff, Finished, ToolRuns, recentVars
  <2>5. ToolRound'
    BY <2>1, <2>2, <2>3, <2>4 DEF ToolRound
  <2> QED BY <2>1, <2>5 DEF Round
<1> QED BY <1>1, <1>2, <1>3

\* The results are collected, and the removal of the one-time workers is asked for.
LEMMA CollectBody ==
  ASSUME TypeOK, Lockstep, Round, NEW i \in DOMAIN tasks, CollectResults(i)
  PROVE  Lockstep' /\ Round'
<1>1. PICK key \in CollectKeys :
        /\ Body(i, key, <<Observe>>, Removals(key), "returned")
        /\ owed' = owed \ calls[key]
  BY DEF CollectResults
<1>2. /\ Lockstep' /\ pc' = "waiting" /\ key \in KickedOff /\ ~ Returned(key) /\ Returned(key)'
      /\ ferries' = ferries \o <<Observe>> /\ topology' = topology \o Removals(key)
      /\ UNCHANGED <<kickoff, graphVars, outputKeys>>
  BY <1>1, LockstepBody
<1>3. CollectRound
  BY <1>2, RoundKeys, Names DEF Steps
<1>4. /\ KickedOff = {key} /\ ferries = <<>> /\ topology = <<>>
      /\ calls[key] = owed /\ owed \subseteq ToolKeys
      /\ workers = Steps \union owed \union {key}
      /\ deps[key] = {Compress} \union owed
      /\ outputKeys = {} /\ answers = 0
  BY <1>2, <1>3 DEF CollectRound
<1>5. /\ Removals(key) \in Seq(Changes)
      /\ \A m \in DOMAIN Removals(key) : Removals(key)[m].op = "remove"
      /\ \A m, n \in DOMAIN Removals(key) : Removals(key)[m].key = Removals(key)[n].key => m = n
      /\ {Removals(key)[m].key : m \in DOMAIN Removals(key)}
           = (deps[key] \intersect ToolKeys \intersect workers) \union {key}
  BY RemovalsType
<1>6. (deps[key] \intersect ToolKeys \intersect workers) \union {key} = owed \union {key}
  BY <1>4, Names DEF Steps
<1> DEFINE removals == Removals(key)
<1>7. topology' = removals /\ ferries' = <<Observe>>
  BY <1>2, <1>4, <1>5, ConcatEmptySeq
<1> HIDE DEF removals
<1>8. /\ owed' = {} /\ answers' = 0 /\ outputKeys' = {} /\ KickedOff' = {key}
      /\ workers' = Steps \union owed \union {key}
  BY <1>1, <1>2, <1>4 DEF CollectResults, KickedOff, graphVars
<1>9. {removals[m].key : m \in DOMAIN removals} = owed \union {key}
  BY <1>5, <1>6 DEF removals
<1>10. /\ \A m \in DOMAIN removals :
            removals[m].op = "remove" /\ removals[m].key \in ToolKeys \union CollectKeys
       /\ \A m, n \in DOMAIN removals : removals[m].key = removals[n].key => m = n
  <2>1. \A m \in DOMAIN removals : removals[m].key \in owed \union {key}
    BY <1>9
  <2>2. /\ \A m \in DOMAIN removals : removals[m].op = "remove"
        /\ \A m, n \in DOMAIN removals : removals[m].key = removals[n].key => m = n
    BY <1>5 DEF removals
  <2> QED BY <1>4, <2>1, <2>2
<1>11. workers' = Steps \union Touched(DOMAIN topology)'
  BY <1>7, <1>8, <1>9 DEF Touched
<1>12. CollectRound'
  BY <1>2, <1>7, <1>8, <1>10, <1>11 DEF CollectRound
<1> QED BY <1>2, <1>12 DEF Round

\* The answer is pushed.
LEMMA AnswerBody ==
  ASSUME TypeOK, Lockstep, Round, NEW i \in DOMAIN tasks, FinalizeAnswer(i)
  PROVE  Lockstep' /\ Round'
<1>1. /\ Lockstep' /\ pc = "waiting" /\ pc' = "waiting"
      /\ Finalize \in KickedOff /\ ~ Returned(Finalize) /\ Returned(Finalize)'
      /\ ferries' = ferries \o <<>> /\ topology' = topology \o <<>>
      /\ UNCHANGED <<kickoff, graphVars, output, outputKeys, cursor, runs>>
  BY LockstepBody DEF FinalizeAnswer, Returns
<1>2. AnswerRound
  BY <1>1, RoundKeys, Names DEF Steps
<1>3. ferries' = <<>> /\ topology' = <<>> /\ answers = 0
  BY <1>1, <1>2 DEF AnswerRound, Plain
<1>4. answers' = 1 /\ UNCHANGED owed
  BY <1>3 DEF FinalizeAnswer
<1>5. UNCHANGED workers /\ KickedOff' = KickedOff /\ Finished' = Finished
  BY <1>1 DEF graphVars, KickedOff, Finished
<1>6. AnswerRound'
  BY <1>1, <1>2, <1>3, <1>4, <1>5 DEF AnswerRound, Plain
<1> QED BY <1>1, <1>6 DEF Round

-----------------------------------------------------------------------------
(***************************************************************************)
(* The invariant.                                                          *)
(***************************************************************************)

\* A summary stays behind the observation it was made of.
LEMMA SummaryStays ==
  ASSUME memory \in Seq(MemoryEntries), SummaryBeforeCalls,
         \/ UNCHANGED memory
         \/ \E entry \in MemoryEntries \ {"summary"} : Push(entry)
         \/ memory' = <<"observation">>
         \/ memory = <<"observation">> /\ Push("summary")
         \/ memory' = memory \o <<"calls", "results">>
  PROVE  SummaryBeforeCalls'
<1>1. DOMAIN memory = 1..Len(memory) /\ Len(memory) \in Nat
  OBVIOUS
<1>2. \A n \in DOMAIN memory : memory[n] = "summary" => n > 1 /\ memory[n-1] = "observation"
  BY DEF SummaryBeforeCalls
<1>3. CASE UNCHANGED memory
  BY <1>2, <1>3 DEF SummaryBeforeCalls
<1>4. ASSUME NEW k \in Nat, k >= Len(memory), DOMAIN memory' = 1..k,
             \A n \in (Len(memory) + 1)..k : memory'[n] # "summary",
             \A n \in 1..Len(memory) : memory'[n] = memory[n]
      PROVE  SummaryBeforeCalls'
  <2> SUFFICES ASSUME NEW n \in 1..k, memory'[n] = "summary"
               PROVE  n > 1 /\ memory'[n-1] = "observation"
    BY <1>4 DEF SummaryBeforeCalls
  <2>1. n \in 1..Len(memory) /\ memory[n] = "summary"
    BY <1>1, <1>4
  <2>2. n > 1 /\ memory[n-1] = "observation"
    BY <1>1, <1>2, <2>1
  <2>3. n-1 \in 1..Len(memory)
    BY <1>1, <2>1, <2>2
  <2> QED BY <1>4, <2>2, <2>3
<1>5. ASSUME NEW entry \in MemoryEntries \ {"summary"}, Push(entry)
      PROVE  SummaryBeforeCalls'
  <2>1. /\ DOMAIN memory' = 1..(Len(memory) + 1) /\ memory'[Len(memory) + 1] # "summary"
        /\ \A n \in 1..Len(memory) : memory'[n] = memory[n]
    <3>1. /\ memory' \in Seq(MemoryEntries) /\ Len(memory') = Len(memory) + 1
          /\ memory'[Len(memory) + 1] = entry
          /\ \A n \in 1..Len(memory) : memory'[n] = memory[n]
      BY <1>5, AppendProperties DEF Push
    <3>2. DOMAIN memory' = 1..Len(memory')
      BY <3>1
    <3> QED BY <3>1, <3>2
  <2>2. \A n \in (Len(memory) + 1)..(Len(memory) + 1) : memory'[n] # "summary"
    BY <1>1, <2>1
  <2> QED BY <1>1, <1>4, <2>1, <2>2
<1>6. CASE memory' = <<"observation">>
  BY <1>6 DEF SummaryBeforeCalls
<1>7. CASE memory = <<"observation">> /\ Push("summary")
  <2>1. Len(memory) = 1 /\ memory[1] = "observation"
    BY <1>7
  <2>2. /\ memory' \in Seq(MemoryEntries) /\ Len(memory') = Len(memory) + 1
        /\ \A n \in 1..Len(memory) : memory'[n] = memory[n]
    BY <1>7, AppendProperties DEF Push, MemoryEntries
  <2>3. DOMAIN memory' = 1..2 /\ memory'[1] = "observation"
    BY <2>1, <2>2
  <2> QED BY <2>3 DEF SummaryBeforeCalls
<1>8. CASE memory' = memory \o <<"calls", "results">>
  <2>1. /\ DOMAIN memory' = 1..(Len(memory) + 2)
        /\ memory'[Len(memory) + 1] # "summary" /\ memory'[Len(memory) + 2] # "summary"
        /\ \A n \in 1..Len(memory) : memory'[n] = memory[n]
    <3> DEFINE both == <<"calls", "results">>
    <3>1. /\ both \in Seq(MemoryEntries) /\ Len(both) = 2
          /\ both[1] # "summary" /\ both[2] # "summary"
      BY DEF MemoryEntries
    <3> HIDE DEF both
    <3>2. memory' \in Seq(MemoryEntries) /\ Len(memory') = Len(memory) + 2
      BY <1>8, <3>1, ConcatProperties DEF both
    <3>3. \A n \in 1..(Len(memory) + 2) :
            memory'[n] = IF n <= Len(memory) THEN memory[n] ELSE both[n - Len(memory)]
      BY <1>8, <3>1, ConcatProperties DEF both
    <3>4. DOMAIN memory' = 1..(Len(memory) + 2)
      BY <3>2
    <3>5. \A n \in 1..Len(memory) : memory'[n] = memory[n]
      BY <1>1, <3>3
    <3>6. memory'[Len(memory) + 1] = both[1] /\ memory'[Len(memory) + 2] = both[2]
      BY <1>1, <3>3
    <3> QED BY <3>1, <3>4, <3>5, <3>6
  <2>2. \A n \in (Len(memory) + 1)..(Len(memory) + 2) : memory'[n] # "summary"
    BY <1>1, <2>1
  <2> QED BY <1>1, <1>4, <2>1, <2>2
<1> QED BY <1>3, <1>5, <1>6, <1>7, <1>8

\* An automa that is idle is not running.
LEMMA IdleStep ==
  ASSUME pc = "idle" => ~ automaRunning, [ReCentNext]_allVars
  PROVE  (pc = "idle" => ~ automaRunning)'
<1>1. CASE RunEnds
  BY <1>1 DEF RunEnds, Finish, Fail, ClearRunLevelState
<1>2. CASE Drives
  BY <1>2 DEF Drives, StartTask, Await, AllDone, ApplyNextChange, ChangesApplied, CollectTask,
              Validate, NextStep, Escape, GoTo
<1>3. CASE WorkerRuns
  <2>1. \E i \in DOMAIN tasks : \E k, q, c, s : Body(i, k, q, c, s)
    BY <1>3 DEF WorkerRuns, InitializeTaskGoal, ObserveGoal, SelectTools, SelectsCalls,
                SelectsNothing, CompressMemory, ToolRuns, CollectResults, FinalizeAnswer,
                Returns, Raises
  <2> QED BY <2>1 DEF Body, Running, WorkerUnchanged
<1>4. CASE Arun({})
  BY <1>4 DEF Arun, Begin, GoTo
<1>5. CASE UNCHANGED allVars
  BY <1>5 DEF allVars, vars, automaVars
<1> QED BY <1>1, <1>2, <1>3, <1>4, <1>5 DEF ReCentNext

\* Only a change of the topology changes what a worker depends on.
LEMMA DependenciesStay ==
  ASSUME [ReCentNext]_allVars, ~ ApplyNextChange \/ pc' = "broken"
  PROVE  UNCHANGED deps
<1>1. CASE RunEnds
  BY <1>1 DEF RunEnds, Finish, Fail, graphVars
<1>2. CASE Drives
  <2>1. CASE CollectTask
    BY <2>1 DEF CollectTask, CollectReturned, CollectAsked, CollectRaised, WorkerFinished, graphVars
  <2>2. CASE ApplyNextChange
    BY <2>2 DEF ApplyNextChange, graphVars
  <2>3. CASE StartTask \/ Await \/ AllDone \/ ChangesApplied \/ Validate \/ NextStep
    BY <2>3 DEF StartTask, Await, AllDone, ChangesApplied, Validate, NextStep, graphVars
  <2> QED BY <1>2, <2>1, <2>2, <2>3 DEF Drives
<1>3. CASE WorkerRuns
  <2>1. \E i \in DOMAIN tasks : \E k, q, c, s : Body(i, k, q, c, s)
    BY <1>3 DEF WorkerRuns, InitializeTaskGoal, ObserveGoal, SelectTools, SelectsCalls,
                SelectsNothing, CompressMemory, ToolRuns, CollectResults, FinalizeAnswer,
                Returns, Raises
  <2> QED BY <2>1 DEF Body, WorkerUnchanged, graphVars
<1>4. CASE Arun({})
  BY <1>4 DEF Arun, Begin, graphVars
<1>5. CASE UNCHANGED allVars
  BY <1>5 DEF allVars, vars, graphVars
<1> QED BY <1>1, <1>2, <1>3, <1>4, <1>5 DEF ReCentNext

\* The memory grows in this order as long as it is compressed only when it was observed.
LEMMA SummaryStep ==
  ASSUME ReCentTypeOK, SummaryBeforeCalls, [ReCentNext]_allVars,
         \A i \in DOMAIN tasks : CompressMemory(i) => memory = <<"observation">>
  PROVE  SummaryBeforeCalls'
<1>1. memory \in Seq(MemoryEntries)
  BY DEF ReCentTypeOK
<1>2. UNCHANGED memory => SummaryBeforeCalls'
  BY <1>1, SummaryStays
<1>3. CASE WorkerRuns
  <2>1. PICK i \in DOMAIN tasks :
          \/ InitializeTaskGoal(i) \/ ObserveGoal(i) \/ SelectTools(i) \/ CompressMemory(i)
          \/ ToolRuns(i) \/ CollectResults(i) \/ FinalizeAnswer(i)
    BY <1>3 DEF WorkerRuns
  <2>2. "goal" \in MemoryEntries \ {"summary"} /\ "answer" \in MemoryEntries \ {"summary"}
    BY DEF MemoryEntries
  <2>3. CASE InitializeTaskGoal(i)
    BY <1>1, <2>2, <2>3, SummaryStays DEF InitializeTaskGoal, recentVars
  <2>4. CASE ObserveGoal(i)
    BY <1>1, <2>4, SummaryStays DEF ObserveGoal
  <2>5. CASE SelectTools(i)
    BY <1>2, <2>5 DEF SelectTools, SelectsNothing
  <2>6. CASE CompressMemory(i)
    BY <1>1, <2>6, SummaryStays DEF CompressMemory
  <2>7. CASE ToolRuns(i)
    BY <1>2, <2>7 DEF ToolRuns, recentVars
  <2>8. CASE CollectResults(i)
    <3>1. memory' = memory \o <<"calls", "results">>
      BY <2>8 DEF CollectResults
    <3> QED BY <1>1, <3>1, SummaryStays
  <2>9. CASE FinalizeAnswer(i)
    BY <1>1, <2>2, <2>9, SummaryStays DEF FinalizeAnswer
  <2> QED BY <2>1, <2>3, <2>4, <2>5, <2>6, <2>7, <2>8, <2>9
<1>4. CASE ~ WorkerRuns
  BY <1>2, <1>4 DEF ReCentNext, RunEnds, Drives, recentVars, allVars
<1> QED BY <1>3, <1>4

\* In lockstep a step stays in its round, begins the next one, ends the run, or fails.
LEMMA RoundStep ==
  ASSUME ReCentTypeOK, Consistent, StepsWait, Lockstep, Round, ReCentNext, pc' # "broken"
  PROVE  StepsWait' /\ (Stuck' \/ Resting' \/ (Lockstep' /\ Round'))
<1>0. TypeOK
  BY DEF ReCentTypeOK
<1>1. ~ ApplyNextChange => StepsWait'
  BY DependenciesStay DEF StepsWait
<1>2. CASE RunEnds
  <2>1. UNCHANGED <<owed, answers>>
    BY <1>2 DEF RunEnds
  <2>2. ~ Fail
    BY DEF Fail, Failed, SomeTask, Lockstep
  <2>3. Resting'
    BY <1>0, <1>2, <2>1, <2>2, RoundFinish DEF RunEnds
  <2>4. ~ ApplyNextChange
    BY <1>2, <2>2 DEF RunEnds, Finish, ApplyNextChange
  <2> QED BY <1>1, <2>3, <2>4
<1>3. CASE Drives
  <2>1. UNCHANGED recentVars
    BY <1>3 DEF Drives
  <2>2. CASE StartTask
    <3>1. ~ ApplyNextChange
      BY <2>2 DEF StartTask, ApplyNextChange
    <3> QED BY <1>0, <1>1, <2>1, <2>2, <3>1, RoundStart
  <2>3. CASE Await \/ AllDone \/ ChangesApplied \/ Validate
    <3>1. ~ ApplyNextChange
      BY <1>0, <2>3 DEF Await, AllDone, ChangesApplied, Validate, ApplyNextChange, TypeOK
    <3> QED BY <1>0, <1>1, <2>1, <2>3, <3>1, RoundPhase
  <2>4. CASE ApplyNextChange
    BY <1>0, <2>1, <2>4, RoundChange
  <2>5. CASE CollectTask
    BY <1>0, <2>1, <2>5, RoundCollect
  <2>6. CASE NextStep
    <3>1. ~ ApplyNextChange
      BY <2>6 DEF NextStep, ApplyNextChange
    <3> QED BY <1>0, <1>1, <2>1, <2>6, <3>1, RoundNext
  <2> QED BY <1>3, <2>2, <2>3, <2>4, <2>5, <2>6 DEF Drives
<1>4. CASE WorkerRuns
  <2>1. Stuck' \/ (Lockstep' /\ Round')
    BY <1>0, <1>4, GoalBody, ObserveBody, SelectBody, CompressBody, ToolBody, CollectBody,
       AnswerBody DEF WorkerRuns
  <2>2. pc = "waiting"
    BY <1>4 DEF WorkerRuns, InitializeTaskGoal, ObserveGoal, SelectTools, SelectsCalls,
                SelectsNothing, CompressMemory, ToolRuns, CollectResults, FinalizeAnswer,
                Returns, Raises, Body, Running
  <2> QED BY <1>1, <2>1, <2>2 DEF ApplyNextChange
<1>5. ~ Arun({})
  BY DEF Arun, Lockstep
<1> QED BY <1>2, <1>3, <1>4, <1>5 DEF ReCentNext

\* The agent's invariant is inductive.
LEMMA AgentStep == AgentInv /\ [ReCentNext]_allVars => AgentInv'
<1> SUFFICES ASSUME AgentInv, [ReCentNext]_allVars PROVE AgentInv'
  OBVIOUS
<1>1. /\ ReCentTypeOK /\ IInv /\ SummaryBeforeCalls /\ StepsWait
      /\ pc = "idle" => ~ automaRunning
      /\ pc = "broken" \/ Stuck \/ Resting \/ (Lockstep /\ Round)
  BY DEF AgentInv, StepsWait
<1>2. TypeOK /\ Consistent
  BY <1>1 DEF IInv
<1>3. ReCentTypeOK' /\ IInv' /\ (pc = "idle" => ~ automaRunning)'
  BY <1>1, AgentTypes, IdleStep
<1>4. ASSUME \A i \in DOMAIN tasks : CompressMemory(i) => memory = <<"observation">>
      PROVE  SummaryBeforeCalls'
  BY <1>1, <1>4, SummaryStep
<1>5. ASSUME ~ ApplyNextChange \/ pc' = "broken" PROVE StepsWait'
  BY <1>1, <1>5, DependenciesStay DEF StepsWait
<1>6. ASSUME SummaryBeforeCalls', StepsWait',
             pc' = "broken" \/ Stuck' \/ Resting' \/ (Lockstep' /\ Round')
      PROVE  AgentInv'
  BY <1>3, <1>6 DEF AgentInv, StepsWait
<1>7. ASSUME pc # "waiting" PROVE SummaryBeforeCalls'
  BY <1>4, <1>7 DEF CompressMemory, Returns, Body, Running
<1>8. CASE UNCHANGED allVars
  <2>1. UNCHANGED <<workers, deps, triggers, kickoff, inputs, output, tasks, topology, ferries, pc,
                    cursor, outputKeys, runs, outcome, result, memory, calls, owed, answers>>
    BY <1>8 DEF allVars, vars, recentVars, graphVars, automaVars, taskVars, appVars
  <2>2. /\ KickedOff' = KickedOff /\ Finished' = Finished
        /\ \A k : Returned(k)' <=> Returned(k)
        /\ \A S : Touched(S)' = Touched(S)
    BY <2>1 DEF KickedOff, Finished, Returned, Touched
  <2>3. SummaryBeforeCalls' /\ StepsWait'
    BY <1>1, <2>1 DEF SummaryBeforeCalls, StepsWait
  <2>4. (Stuck => Stuck') /\ (Resting => Resting') /\ (Lockstep => Lockstep')
    BY <2>1, <2>2 DEF Stuck, SomeTask, Resting, Plain, Lockstep
  <2>5. Round => Round'
    <3>1. (GoalRound => GoalRound') /\ (ObserveRound => ObserveRound')
      BY <2>1, <2>2 DEF GoalRound, ObserveRound, Plain
    <3>2. (SelectRound => SelectRound') /\ (ToolRound => ToolRound')
      BY <2>1, <2>2 DEF SelectRound, Selecting, ToolRound, Plain
    <3>3. CallsRound => CallsRound'
      <4>1. \A new \in CollectKeys : CallsFor(new) => CallsFor(new)'
        BY <2>1, <2>2 DEF CallsFor
      <4> QED BY <2>1, <2>2, <4>1 DEF CallsRound, Selecting
    <3>4. CollectRound => CollectRound'
      BY <2>1, <2>2 DEF CollectRound
    <3>5. (AnswerRound => AnswerRound') /\ (LastRound => LastRound')
      BY <2>1, <2>2 DEF AnswerRound, LastRound, Plain
    <3> QED BY <3>1, <3>2, <3>3, <3>4, <3>5 DEF Round
  <2> QED BY <1>1, <1>6, <2>1, <2>3, <2>4, <2>5
<1>9. CASE pc = "broken" /\ ReCentNext
  <2>1. ~ RunEnds /\ ~ Drives /\ ~ Arun({})
    BY <1>9 DEF RunEnds, Finish, Fail, Drives, StartTask, Await, AllDone, ApplyNextChange,
                ChangesApplied, CollectTask, Validate, NextStep, Arun
  <2>2. ~ WorkerRuns
    BY <1>9 DEF WorkerRuns, InitializeTaskGoal, ObserveGoal, SelectTools, SelectsCalls,
                SelectsNothing, CompressMemory, ToolRuns, CollectResults, FinalizeAnswer,
                Returns, Raises, Body, Running
  <2> QED BY <1>9, <2>1, <2>2 DEF ReCentNext
<1>10. CASE Stuck
  <2>1. pc' = "broken" \/ Stuck'
    BY <1>2, <1>10, StuckStep
  <2>2. ~ ApplyNextChange
    BY <1>2, <1>10 DEF Stuck, ApplyNextChange, TypeOK
  <2>3. \A i \in DOMAIN tasks : ~ CompressMemory(i)
    BY <1>10, Names DEF Stuck, CompressMemory, Returns, Body, Steps
  <2> QED BY <1>4, <1>5, <1>6, <2>1, <2>2, <2>3
<1>11. CASE Resting /\ ReCentNext
  <2>1. pc = "idle" /\ ~ automaRunning
    BY <1>1, <1>11 DEF Resting
  <2>2. ~ RunEnds /\ ~ Drives /\ ~ ApplyNextChange
    BY <1>11, <2>1 DEF Resting, RunEnds, Finish, Fail, Drives, StartTask, Await, AllDone,
                ApplyNextChange, ChangesApplied, CollectTask, Validate, NextStep
  <2>3. ~ WorkerRuns
    BY <2>1 DEF WorkerRuns, InitializeTaskGoal, ObserveGoal, SelectTools, SelectsCalls,
                SelectsNothing, CompressMemory, ToolRuns, CollectResults, FinalizeAnswer,
                Returns, Raises, Body, Running
  <2>4. Lockstep' /\ Round'
    BY <1>2, <1>11, <2>1, <2>2, <2>3, RoundArun DEF ReCentNext
  <2> QED BY <1>5, <1>6, <1>7, <2>1, <2>2, <2>4
<1>12. CASE Lockstep /\ Round /\ ReCentNext
  <2>1. SummaryBeforeCalls'
    BY <1>2, <1>4, <1>12, CompressBody
  <2>2. CASE pc' = "broken"
    BY <1>5, <1>6, <2>1, <2>2
  <2>3. CASE pc' # "broken"
    BY <1>1, <1>2, <1>6, <1>12, <2>1, <2>3, RoundStep
  <2> QED BY <2>2, <2>3
<1> QED BY <1>1, <1>8, <1>9, <1>10, <1>11, <1>12

\* It holds before the first run.
LEMMA AgentInit == ReCentInit => AgentInv
<1> SUFFICES ASSUME ReCentInit PROVE AgentInv
  OBVIOUS
<1>1. IInv
  BY InitInvariant DEF ReCentInit
<1>2. ReCentTypeOK
  <2>1. memory \in Seq(MemoryEntries) /\ calls \in [CollectKeys -> SUBSET ToolKeys]
    BY DEF ReCentInit
  <2> QED BY <1>1, <2>1 DEF ReCentInit, ReCentTypeOK, IInv
<1>3. workers = Steps /\ \A k \in Keys : deps[k] = {}
  BY Names DEF ReCentInit, Init, GraphInit
<1>4. Resting /\ ~ automaRunning
  BY <1>3 DEF Resting, Plain, ReCentInit, Init
<1>5. SummaryBeforeCalls
  BY DEF SummaryBeforeCalls, ReCentInit
<1> QED BY <1>1, <1>2, <1>3, <1>4, <1>5 DEF AgentInv

\* An agent's run is a sequence of rounds: a goal, observations, selections, tool
\* calls with their collection, and one answer; it leaves none of them half done
\* unless a worker raised or the scheduler did.
THEOREM AgentInvariance == ReCentSpec => []AgentInv
BY AgentInit, AgentStep, PTL DEF ReCentSpec

\* Every variable of the agent keeps its type.
THEOREM AgentTypeCorrect == ReCentSpec => []ReCentTypeOK
<1>1. AgentInv => ReCentTypeOK
  BY DEF AgentInv
<1> QED BY <1>1, AgentInvariance, PTL

\* A worker that observes, or answers, is in the round of that name.
LEMMA Rounds ==
  ASSUME AgentInv
  PROVE  /\ At(Observe) => ObserveRound
         /\ At(Finalize) => AnswerRound
<1>1. TypeOK
  BY DEF AgentInv, ReCentTypeOK
<1>2. ASSUME NEW i \in DOMAIN tasks, Running(i), tasks[i].key \in {Observe, Finalize}
      PROVE  Lockstep /\ Round /\ tasks[i].key \in KickedOff
  <2>1. pc = "waiting"
    BY <1>2 DEF Running
  <2>2. ~ Stuck
    BY <1>2, Names DEF Stuck, Steps
  <2>3. Lockstep /\ Round
    BY <2>1, <2>2 DEF AgentInv, Resting
  <2> QED BY <1>1, <2>3, Phases
<1>3. At(Observe) => ObserveRound
  BY <1>2, RoundKeys, Names DEF At, Steps
<1>4. At(Finalize) => AnswerRound
  BY <1>2, RoundKeys, Names DEF At, Steps
<1> QED BY <1>3, <1>4

\* Whenever the agent observes, its graph holds the five steps and nothing else:
\* the tool workers and the collecting worker of every earlier iteration are removed.
THEOREM AlwaysToolsGone == ReCentSpec => []ToolsGone
<1>1. AgentInv => ToolsGone
  BY Rounds DEF ToolsGone, ObserveRound, Plain
<1> QED BY <1>1, AgentInvariance, PTL

\* No observation and no answer is made before the results of every selected tool
\* are in the memory.
THEOREM AlwaysEveryCallAnswered == ReCentSpec => []EveryCallAnswered
<1>1. AgentInv => EveryCallAnswered
  BY Rounds DEF EveryCallAnswered, ObserveRound, AnswerRound, Plain
<1> QED BY <1>1, AgentInvariance, PTL

\* The memory is compressed as it was before the tools were selected, although
\* both workers run in one step and the tools in the next.
THEOREM AlwaysSummaryBeforeCalls == ReCentSpec => []SummaryBeforeCalls
<1>1. AgentInv => SummaryBeforeCalls
  BY DEF AgentInv
<1> QED BY <1>1, AgentInvariance, PTL

\* A run that is done pushed one answer and returns that of this run, whatever the
\* model selected and however the tools ended.
THEOREM AlwaysOneAnswerPerRun == ReCentSpec => []OneAnswerPerRun
<1>1. AgentInv => OneAnswerPerRun
  BY DEF AgentInv, OneAnswerPerRun, Stuck, Resting, Lockstep
<1> QED BY <1>1, AgentInvariance, PTL
=============================================================================
