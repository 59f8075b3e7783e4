----------------------------- MODULE WorkerGraph -----------------------------
(***************************************************************************)
(* The dynamic directed graph (DDG) of a GraphAutoma: the workers it holds,*)
(* the dependencies each one declares, the forwards table that inverts     *)
(* them, and the dependency triggers a worker still waits for.  The four   *)
(* actions are the primitives every topology change and every finished     *)
(* worker goes through.                                                    *)
(*                                                                         *)
(* The lists of the code are sets here: the order of a dependencies or a   *)
(* forwards list only fixes the order in which successors are visited.     *)
(* A dependencies list is taken to be free of duplicates.                  *)
(***************************************************************************)
EXTENDS Naturals, FiniteSets

CONSTANTS
  Keys,         \* every worker key a program may use
  InitWorkers,  \* the workers registered when the automa is constructed
  InitDeps,     \* their dependencies (empty for every other key)
  Changes       \* the topology changes the program may ask for

(***************************************************************************)
(* A topology change, as the deferred-task classes record it: add a worker *)
(* with its dependencies, remove a worker, add one dependency.             *)
(***************************************************************************)
Change == [op : {"add", "remove", "depend"}, key : Keys, on : SUBSET Keys]

\* The dependencies declared when the automa is constructed belong to its workers.
ASSUME InitAssumption ==
  /\ IsFiniteSet(Keys) /\ InitWorkers \subseteq Keys
  /\ InitDeps \in [Keys -> SUBSET Keys]
  /\ \A k \in Keys \ InitWorkers : InitDeps[k] = {}
  /\ \A k \in Keys : k \notin InitDeps[k]

\* No change makes a worker depend on itself; "depend" names one dependency.
ASSUME ChangeAssumption ==
  /\ Changes \subseteq Change
  /\ \A c \in Changes : c.key \notin c.on
  /\ \A c \in Changes : c.op = "depend" => Cardinality(c.on) = 1

VARIABLES
  workers,      \* _workers: the keys of the registered workers
  deps,         \* _workers[k].dependencies
  forwards,     \* _worker_forwards: the workers that depend on k
  triggers      \* _workers_dynamic_states[k].dependency_triggers

graphVars == <<workers, deps, forwards, triggers>>

GraphTypeOK ==
  /\ workers \subseteq Keys
  /\ deps \in [Keys -> SUBSET Keys]
  /\ forwards \in [Keys -> SUBSET Keys]
  /\ triggers \in [Keys -> SUBSET Keys]

GraphInit ==
  /\ workers = InitWorkers
  /\ deps = InitDeps
  /\ forwards = [k \in Keys |-> {s \in Keys : k \in InitDeps[s]}]
  /\ triggers = InitDeps

\* Mutant: a worker added later waits for nothing.
AddWorkerWithoutTriggers(k, ds) ==
  /\ k \notin workers
  /\ workers' = workers \union {k}
  /\ deps' = [deps EXCEPT ![k] = ds]
  /\ forwards' = [d \in Keys |-> IF d \in ds THEN forwards[d] \union {k} ELSE forwards[d]]
  /\ UNCHANGED triggers

(***************************************************************************)
(* _add_worker_incrementally.  A dependency may name a worker that is not  *)
(* registered (yet): the check comes later, in Canonical.                  *)
(***************************************************************************)
AddWorker(k, ds) ==
  /\ k \notin workers
  /\ workers' = workers \union {k}
  /\ deps' = [deps EXCEPT ![k] = ds]
  /\ triggers' = [triggers EXCEPT ![k] = ds]
  /\ forwards' = [d \in Keys |-> IF d \in ds THEN forwards[d] \union {k}
                                             ELSE forwards[d]]

\* Mutant: the worker stays in the forwards of its dependencies.
RemoveWorkerHalf(k) ==
  /\ k \in workers
  /\ workers' = workers \ {k}
  /\ deps' = [s \in Keys |-> IF s = k THEN {} ELSE deps[s] \ {k}]
  /\ triggers' = [s \in Keys |-> IF s = k THEN {} ELSE triggers[s] \ {k}]
  /\ forwards' = [forwards EXCEPT ![k] = {}]

(***************************************************************************)
(* _remove_worker_incrementally.  Its successors lose the dependency and   *)
(* the trigger (discard), and it leaves the forwards of its dependencies.  *)
(***************************************************************************)
RemoveWorker(k) ==
  /\ k \in workers
  /\ workers' = workers \ {k}
  /\ deps' = [s \in Keys |-> IF s = k THEN {} ELSE IF s \in forwards[k] THEN deps[s] \ {k}
                                                                    ELSE deps[s]]
  /\ triggers' = [s \in Keys |-> IF s = k THEN {}
                                 ELSE IF s \in forwards[k] THEN triggers[s] \ {k}
                                 ELSE triggers[s]]
  /\ forwards' = [d \in Keys |-> IF d = k THEN {} ELSE IF d \in deps[k] THEN forwards[d] \ {k}
                                                                     ELSE forwards[d]]

\* Mutant: the worker does not wait for its new dependency.
AddDependencyUnawaited(k, d) ==
  /\ {k, d} \subseteq workers
  /\ d \notin deps[k]
  /\ deps' = [deps EXCEPT ![k] = @ \union {d}]
  /\ forwards' = [forwards EXCEPT ![d] = @ \union {k}]
  /\ UNCHANGED <<workers, triggers>>

(***************************************************************************)
(* _add_dependency_incrementally.                                          *)
(***************************************************************************)
AddDependency(k, d) ==
  /\ {k, d} \subseteq workers
  /\ d \notin deps[k]
  /\ deps' = [deps EXCEPT ![k] = @ \union {d}]
  /\ triggers' = [triggers EXCEPT ![k] = @ \union {d}]
  /\ forwards' = [forwards EXCEPT ![d] = @ \union {k}]
  /\ UNCHANGED workers

\* A topology change goes through ...
ApplyChange(c) ==
  \/ c.op = "add" /\ AddWorker(c.key, c.on)
  \/ c.op = "remove" /\ RemoveWorker(c.key)
  \/ c.op = "depend" /\ \E d \in c.on : AddDependency(c.key, d)

\* ... unless one of the checks at the top of the primitives raises.
Refused(c) ==
  \/ c.op = "add" /\ c.key \in workers
  \/ c.op = "remove" /\ c.key \notin workers
  \/ c.op = "depend" /\ \/ ~ ({c.key} \union c.on) \subseteq workers
                        \/ c.on \subseteq deps[c.key]

(***************************************************************************)
(* The bookkeeping for a worker that finished: its own triggers are reset  *)
(* to its dependencies and it is removed from its successors' triggers.    *)
(* set.remove raises KeyError at the first successor that does not wait    *)
(* for it any more; the successors visited before keep the effect.         *)
(***************************************************************************)
NotWaiting(k) == {s \in forwards[k] : k \notin triggers[s]}

\* Mutant: the triggers of the finished worker itself are not reset.
WorkerFinishedNoReset(k, visited) ==
  /\ k \in workers
  /\ IF NotWaiting(k) = {} THEN visited = forwards[k]
                           ELSE visited \subseteq forwards[k] \ NotWaiting(k)
  /\ triggers' = [s \in Keys |-> IF s \in visited THEN triggers[s] \ {k} ELSE triggers[s]]
  /\ UNCHANGED <<workers, deps, forwards>>

WorkerFinished(k, visited) ==
  /\ k \in workers
  /\ IF NotWaiting(k) = {} THEN visited = forwards[k]
                           ELSE visited \subseteq forwards[k] \ NotWaiting(k)
  /\ triggers' = [s \in Keys |-> IF s = k THEN deps[k]
                                 ELSE IF s \in visited THEN triggers[s] \ {k}
                                 ELSE triggers[s]]
  /\ UNCHANGED <<workers, deps, forwards>>

(***************************************************************************)
(* _validate_canonical_graph.  Registered is its AutomaCompilationError;   *)
(* Consistent is what it asserts: the triggers are dependencies, and the   *)
(* two adjacency tables are inverse to each other.                         *)
(***************************************************************************)
Registered == \A k \in workers : deps[k] \subseteq workers

ConsistentGraph(w, dp, fw, tr) ==
  /\ \A k \in Keys : tr[k] \subseteq dp[k]
  /\ \A k, d \in Keys : d \in dp[k] <=> k \in fw[d]
  /\ \A k \in Keys \ w : dp[k] = {}

Consistent == ConsistentGraph(workers, deps, forwards, triggers)

(***************************************************************************)
(* GraphMeta.validate_dag_constraints: Kahn's algorithm leaves a worker    *)
(* with a positive in-degree exactly when some set of workers is closed    *)
(* under "has a predecessor in the set".                                   *)
(***************************************************************************)
Acyclic ==
  {S \in (SUBSET Keys) \ {{}} : \A x \in S : \E y \in S : x \in forwards[y]} = {}

WellFormed == Registered /\ Consistent /\ Acyclic
==============================================================================
