-------------------------- MODULE WorkerGraph_proofs --------------------------
(***************************************************************************)
(* What the primitives of the worker graph preserve, for every graph.      *)
(***************************************************************************)
EXTENDS WorkerGraph, TLAPS

\* The graph an automa is constructed with is well typed and consistent.
LEMMA InitialGraph == GraphInit => GraphTypeOK /\ Consistent
BY InitAssumption DEF GraphInit, GraphTypeOK, Consistent, ConsistentGraph

\* _add_worker_incrementally keeps the tables inverse to each other.
LEMMA AddWorkerStep ==
  ASSUME GraphTypeOK, Consistent, NEW k \in Keys, NEW ds \in SUBSET Keys, AddWorker(k, ds)
  PROVE  GraphTypeOK' /\ Consistent'
BY DEF GraphTypeOK, Consistent, ConsistentGraph, AddWorker

\* _remove_worker_incrementally leaves no trace of the worker in either table.
LEMMA RemoveWorkerStep ==
  ASSUME GraphTypeOK, Consistent, NEW k \in Keys, RemoveWorker(k)
  PROVE  GraphTypeOK' /\ Consistent'
BY DEF GraphTypeOK, Consistent, ConsistentGraph, RemoveWorker

\* _add_dependency_incrementally adds the edge to both tables.
LEMMA AddDependencyStep ==
  ASSUME GraphTypeOK, Consistent, NEW k \in Keys, NEW d \in Keys, AddDependency(k, d)
  PROVE  GraphTypeOK' /\ Consistent'
BY DEF GraphTypeOK, Consistent, ConsistentGraph, AddDependency

\* A finished worker only resets or reduces triggers.
LEMMA WorkerFinishedStep ==
  ASSUME GraphTypeOK, Consistent, NEW k \in Keys, NEW visited \in SUBSET Keys,
         WorkerFinished(k, visited)
  PROVE  GraphTypeOK' /\ Consistent'
BY DEF GraphTypeOK, Consistent, ConsistentGraph, WorkerFinished

\* Every topology change keeps the graph consistent.
LEMMA ApplyChangeStep ==
  ASSUME GraphTypeOK, Consistent, NEW c \in Changes, ApplyChange(c)
  PROVE  GraphTypeOK' /\ Consistent'
<1> c.key \in Keys /\ c.on \in SUBSET Keys
  BY ChangeAssumption DEF Change
<1>1. CASE c.op = "add" /\ AddWorker(c.key, c.on)
  BY <1>1, AddWorkerStep
<1>2. CASE c.op = "remove" /\ RemoveWorker(c.key)
  BY <1>2, RemoveWorkerStep
<1>3. CASE c.op = "depend" /\ \E d \in c.on : AddDependency(c.key, d)
  BY <1>3, AddDependencyStep
<1> QED BY <1>1, <1>2, <1>3 DEF ApplyChange
=============================================================================
