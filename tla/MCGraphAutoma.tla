--------------------------- MODULE MCGraphAutoma ---------------------------
(* Small automas for TLC: graphs of three or four workers. *)
EXTENDS FixedGraph

CONSTANTS a, b, c, d

NoDeps == [k \in Keys |-> {}]
\* a -> b, a -> c, {a, b, c} -> d
Diamond == [k \in Keys |-> CASE k \in {b, c} -> {a} [] k = d -> {a, b, c} [] OTHER -> {}]
\* a -> b -> c
Chain == [k \in Keys |-> CASE k = b -> {a} [] k = c -> {b} [] OTHER -> {}]
\* a -> b, a -> c
Fork == [k \in Keys |-> IF k \in {b, c} THEN {a} ELSE {}]

NoFerry == [k \in Keys |-> {}]

\* a -> d -> b, {a, b} -> c
Late == [k \in Keys |-> CASE k = d -> {a} [] k = b -> {d} [] k = c -> {a, b} [] OTHER -> {}]

\* a may ferry to d
ToD == [k \in Keys |-> IF k = a THEN {d} ELSE {}]

\* a may ferry to c
ToC == [k \in Keys |-> IF k = a THEN {c} ELSE {}]

\* a may ferry to b and c, c back to a
Branch == [k \in Keys |-> CASE k = a -> {b, c} [] k = c -> {a} [] OTHER -> {}]

\* what the program may do to a chain a -> b -> c
Grow == {[op |-> "add", key |-> d, on |-> {a}], [op |-> "depend", key |-> c, on |-> {d}]}
Rewire == {[op |-> "add", key |-> d, on |-> {a}], [op |-> "depend", key |-> c, on |-> {d}],
           [op |-> "remove", key |-> b, on |-> {}], [op |-> "depend", key |-> a, on |-> {c}]}

DropB == {[op |-> "remove", key |-> b, on |-> {}]}

NoQuestions == [k \in Keys |-> 0]
\* b asks once
OneAsks == [k \in Keys |-> IF k = b THEN 1 ELSE 0]
\* b asks twice, c once
BranchesAsk == [k \in Keys |-> CASE k = b -> 2 [] k = c -> 1 [] OTHER -> 0]

\* The instances that neither change their graph, raise nor ferry are what FixedInv and
\* the theorems of FixedGraph_proofs are about; in the diamond the output worker comes
\* after those who ask.
ASSUME InstanceAssumption ==
  /\ Changes = {} /\ FaultyKeys = {} /\ FerryTo = NoFerry => FixedProgram
  /\ InitDeps = Diamond /\ OutputKeys = {d} => OutputLast
=============================================================================
