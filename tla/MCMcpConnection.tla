-------------------------- MODULE MCMcpConnection --------------------------
(***************************************************************************)
(* Two threads with a connection each and managers of two names: the first *)
(* connects, requests and closes; the second registers or connects its     *)
(* own, looks one up or shuts managers down.                               *)
(***************************************************************************)
EXTENDS McpConnection

CONSTANTS t1, t2, c1, c2, d1, d2, d3, e1, e2, n1, n2, default, other

Owner == [c \in {c1, c2} |-> IF c = c1 THEN {t1} ELSE {t2}]
Named == [m \in {d1, d2, d3, e1, e2} |-> IF m \in {e1, e2} THEN other ELSE default]
OwnNames == [c \in {c1, c2} |-> IF c = c1 THEN n1 ELSE n2]
OneName == [c \in {c1, c2} |-> n1]

\* What the two threads do in a run: the calls of each, in their order.
Both(a, b) == [t \in {t1, t2} |-> IF t = t1 THEN a ELSE b]
Any == {"connect", "close", "request"}
Alone == Both(<<Any, Any, Any>>, <<>>)
AtOnce == Both(<<{"connect"}, {"request"}>>, <<{"connect"}>>)
Disturbed == Both(<<{"connect"}, Any>>, <<{"register", "look", "shutdown"}>>)
ShutTwice == Both(<<{"connect"}, {"connect"}>>, <<{"shutdown"}, {"shutdown"}>>)
Rehomed == Both(<<{"connect"}, {"register"}, {"close"}>>, <<{"register"}, {"shutdown"}>>)
Moved == Both(<<{"connect"}, {"close"}, {"register"}, {"connect"}>>, <<>>)
Managing == Both(<<>>, <<{"register", "shutdown"}, {"register", "shutdown"}, {"look", "connect"}>>)
Again == Both(<<{"register"}, {"register"}, {"register"}>>, <<{"shutdown"}, {"shutdown"}>>)
Plans == {Alone, AtOnce, Disturbed, ShutTwice, Rehomed, Moved, Managing}
ShutAgain == {Again}
=============================================================================
