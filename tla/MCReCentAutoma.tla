--------------------------- MODULE MCReCentAutoma ---------------------------
(***************************************************************************)
(* An agent with two tools, one of which may raise; the model selects one, *)
(* both, none, or makes two calls with the same id.                        *)
(***************************************************************************)
EXTENDS ReCentAutoma

CONSTANTS search, write, g1

AllKeys == Steps \union {search, write, g1}
NoDeps == [k \in AllKeys |-> {}]
Nobody == [k \in AllKeys |-> {}]
Never == [k \in AllKeys |-> 0]
Selections == {<<>>, <<search>>, <<search, write>>, <<write, write>>}
OneTimeWorkers ==
  {Adding(t, {}) : t \in {search, write}}
    \union {Adding(g1, {Compress} \union S) : S \in SUBSET {search, write}}
    \union {Removing(k) : k \in {search, write, g1}}
=============================================================================
