------------------------------ MODULE FixedGraph ------------------------------
(***************************************************************************)
(* Programs that neither change their graph nor ferry: what the scheduler  *)
(* promises them (ImplementsDataflow, ComputedOnce, NoBookkeepingError,    *)
(* ResultOfThisRun of GraphAutoma), under which conditions, and the        *)
(* invariant that shows why.                                               *)
(***************************************************************************)
EXTENDS GraphAutoma

Sources == StartKeys \cap InitWorkers
Computed(r) == {k \in Keys : r[k] > 0}

\* What a run can end with: everything that it supports, and nothing else.
Complete(S) == \A k \in InitWorkers : k \in S <=> DF!Supported(k, S)

\* Nothing raises, a start worker waits for nobody, and no worker is left waiting with
\* some of its dependencies computed: its triggers would be a worker short in the next
\* run, where the bookkeeping raises KeyError.
FixedProgram ==
  /\ Changes = {} /\ FaultyKeys = {} /\ \A k \in Keys : FerryTo[k] = {}
  /\ \A k \in Sources : InitDeps[k] = {}
  /\ \A S \in SUBSET InitWorkers :
       Complete(S) => \A k \in InitWorkers \ S : InitDeps[k] \cap S = {}

\* Whoever asks a human is an output worker or comes before all of them: an output that
\* is computed before a pause is not returned after it.
OutputLast ==
  \A o \in OutputKeys : \A S \in SUBSET Keys :
    o \in S /\ (\A k \in S : InitDeps[k] \subseteq S)
      => \A k \in InitWorkers : Questions[k] > 0 => k \in S

-----------------------------------------------------------------------------
\* The kickoff list names each worker once, finished exactly if it was computed; what
\* is kicked off or computed was due; who was not computed waits for the rest of its
\* dependencies, and who was waits for all of them again.
RunFits(ko, tr, r) ==
  /\ \A i, j \in DOMAIN ko : ko[i].key = ko[j].key => i = j
  /\ \A j \in DOMAIN ko : r[ko[j].key] = IF ko[j].done THEN 1 ELSE 0
  /\ \A k \in Keys : r[k] < 2
  /\ \A k \in Keys : r[k] > 0 \/ (\E j \in DOMAIN ko : ko[j].key = k)
                       => k \in InitWorkers /\ DF!Supported(k, Computed(r))
  /\ \A k \in InitWorkers : tr[k] = InitDeps[k] \ (IF r[k] > 0 THEN {} ELSE Computed(r))

\* Who is due is computed, kicked off, or a successor of one that has just finished.
NoneLeftOut(ko, r) ==
  \A k \in InitWorkers : DF!Supported(k, Computed(r)) =>
    \/ r[k] > 0
    \/ \E j \in DOMAIN ko : IF ko[j].done THEN ko[j].key \in InitDeps[k] ELSE ko[j].key = k

\* Nothing is pending between the runs, and the last one was complete.
BetweenRuns ==
  /\ kickoff = <<>> /\ tasks = <<>> /\ pc = "idle"
  /\ Computed(ran) = {} \/ NoneLeftOut(kickoff, ran)

\* Each task is that of a kickoff of its own, which is finished once the task is collected.
Collected(i) == pc \in {"deciding", "broken"} \/ (pc = "collecting" /\ i < cursor)

TasksFit ==
  /\ \A i, j \in DOMAIN tasks : tasks[i].key = tasks[j].key => i = j
  /\ \A i \in DOMAIN tasks :
       /\ tasks[i].status \in {"running", "returned", "askedNew", "askedAgain"}
       /\ tasks[i].status \in {"askedNew", "askedAgain"} => Questions[tasks[i].key] > 0
       /\ \E j \in DOMAIN kickoff :
            /\ kickoff[j].key = tasks[i].key
            /\ kickoff[j].done => tasks[i].status = "returned" /\ Collected(i)
            /\ pc = "driving" => j < cursor
  /\ pc = "idle" => tasks = <<>>

\* The last snapshot is one of such a run.
SnapshotFits ==
  snapshot # None =>
    /\ snapshot.workers = InitWorkers /\ snapshot.deps = InitDeps
    /\ RunFits(snapshot.kickoff, snapshot.triggers, snapshot.ran)
    /\ NoneLeftOut(snapshot.kickoff, snapshot.ran) /\ snapshot.kickoff # <<>>

\* The inductive invariant of a FixedProgram.
FixedInv ==
  /\ IInv
  /\ workers = InitWorkers /\ deps = InitDeps /\ topology = <<>> /\ ferries = <<>>
  /\ RunFits(kickoff, triggers, ran)
  /\ IF automaRunning THEN NoneLeftOut(kickoff, ran) ELSE BetweenRuns
  /\ pc = "idle" /\ automaRunning => kickoff # <<>>
  /\ TasksFit /\ SnapshotFits

\* What is computed or being computed comes from this run's arguments, and the output
\* workers among it are known to the call of arun() that is in progress.
OutputInv ==
  /\ automaRunning => inputs = runs
  /\ \A k \in Keys : ran[k] > 0 => output[k] = runs
  /\ \A i \in DOMAIN tasks : tasks[i].from = runs
  /\ outputKeys \subseteq OutputKeys
  /\ pc \notin {"idle", "broken"} =>
       /\ \A o \in OutputKeys : ran[o] > 0 => o \in outputKeys
       /\ \A i \in DOMAIN tasks : tasks[i].key \in OutputKeys => tasks[i].key \in outputKeys
       /\ \A o \in outputKeys : ran[o] > 0 \/ \E i \in DOMAIN tasks : tasks[i].key = o
  /\ pc = "idle" /\ automaRunning => \A o \in OutputKeys : ran[o] = 0
  /\ snapshot # None =>
       /\ snapshot.inputs = snapshot.runs
       /\ \A k \in Keys : snapshot.ran[k] > 0 => snapshot.output[k] = snapshot.runs
       /\ \A o \in OutputKeys : snapshot.ran[o] = 0
  /\ ResultOfThisRun
=============================================================================
