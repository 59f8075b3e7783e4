------------------------------ MODULE Dataflow -------------------------------
(***************************************************************************)
(* What an automa with a fixed graph and no ferries promises: a run        *)
(* computes every worker it can, each one exactly once and only after all  *)
(* that it depends on, before the next run begins.  Interruptions do not  *)
(* show; reloading a snapshot goes back to a set of computed workers that  *)
(* a run can pass through.                                                 *)
(***************************************************************************)
CONSTANTS
  Node, Source, \* the workers, and those a run starts with
  Pred,         \* what each worker depends on
  MayReload     \* does the application reload snapshots?

VARIABLE computed

Init == computed = {}

Supported(k, S) == k \in Source \/ (Pred[k] # {} /\ Pred[k] \subseteq S)

Compute(k) ==
  /\ k \notin computed
  /\ Supported(k, computed)
  /\ computed' = computed \union {k}

NewRun ==
  /\ \A k \in Node \ computed : ~ Supported(k, computed)
  /\ computed' = {}

Reload ==
  /\ MayReload
  /\ computed' \in {S \in SUBSET Node : \A k \in S : Supported(k, S)}

Next == (\E k \in Node : Compute(k)) \/ NewRun \/ Reload

Spec == Init /\ [][Next]_computed
=============================================================================
