------------------------ MODULE EpisodicMemory_proofs ------------------------
(***************************************************************************)
(* The tree of a memory is well formed for any number of callers, messages *)
(* and nodes, for tasks and threads, with failures, cancellations and      *)
(* reloads.                                                                *)
(***************************************************************************)
EXTENDS EpisodicMemory, WellFoundedInduction, TLAPS

\* What does not touch the kinds, the parts and the openness of the nodes nor
\* what is active leaves the tree well formed.
LEMMA SameShape ==
  ASSUME NEW ms \in Seq(Node), NEW ns \in Seq(Node), NEW as,
         Len(ns) = Len(ms),
         \A t \in DOMAIN ms : /\ ns[t].kind = ms[t].kind /\ ns[t].parts = ms[t].parts
                              /\ ns[t].open = ms[t].open
  PROVE  /\ IsTree(ms, as) => IsTree(ns, as)
         /\ IsForest(ms, as) => IsForest(ns, as)
         /\ ClosedBeforeTail(ms) => ClosedBeforeTail(ns)
<1>1. DOMAIN ns = DOMAIN ms
  OBVIOUS
<1>2. \A t \in DOMAIN ms : Parents(ns, t) = Parents(ms, t)
  BY <1>1 DEF Parents
<1>3. IsTree(ms, as) => IsTree(ns, as)
  BY <1>1 DEF IsTree
<1>4. IsForest(ms, as) => IsForest(ns, as)
  BY <1>1, <1>2, Zenon DEF IsForest
<1>5. ClosedBeforeTail(ms) => ClosedBeforeTail(ns)
  BY <1>1 DEF ClosedBeforeTail
<1> QED BY <1>3, <1>4, <1>5

\* The constructors make nodes.
LEMMA NewNodes ==
  /\ GoalNode \in Node
  /\ \A ms \in SUBSET Messages : LeafNode(ms) \in Node
  /\ \A ts \in SUBSET Nat : CompressionNode(ts) \in Node
BY DEF GoalNode, LeafNode, CompressionNode, Node

\* Adding a node extends the sequence by it and closes all the others.
LEMMA AddNodeShape ==
  ASSUME TypeOK, OnlyTailOpen, NEW n \in Node, AddNode(n)
  PROVE  /\ nodes' \in Seq(Node) /\ Len(nodes') = Len(nodes) + 1
         /\ DOMAIN nodes' = DOMAIN nodes \union {Len(nodes) + 1}
         /\ Len(nodes) + 1 \notin DOMAIN nodes
         /\ nodes'[Len(nodes) + 1] = n
         /\ \A t \in DOMAIN nodes : /\ nodes'[t].kind = nodes[t].kind
                                    /\ nodes'[t].parts = nodes[t].parts
                                    /\ nodes'[t].msgs = nodes[t].msgs
                                    /\ nodes'[t].summary = nodes[t].summary
                                    /\ ~ nodes'[t].open
<1> DEFINE last == Len(nodes)
           closed == IF TailIsOpen THEN [nodes EXCEPT ![last].open = FALSE] ELSE nodes
<1>1. nodes \in Seq(Node) /\ last \in Nat /\ DOMAIN nodes = 1..last
  BY DEF TypeOK, IsTree
<1>2. /\ closed \in Seq(Node) /\ Len(closed) = last
      /\ \A t \in 1..last : /\ closed[t].kind = nodes[t].kind
                            /\ closed[t].parts = nodes[t].parts
                            /\ closed[t].msgs = nodes[t].msgs
                            /\ closed[t].summary = nodes[t].summary
                            /\ ~ closed[t].open
  <2>1. CASE TailIsOpen
    <3>1. last \in 1..last
      BY <1>1, <2>1 DEF TailIsOpen
    <3>2. nodes[last] \in Node
      BY <1>1, <3>1
    <3>3. [nodes[last] EXCEPT !.open = FALSE] \in Node
      BY <3>2 DEF Node
    <3>4. closed = [nodes EXCEPT ![last] = [nodes[last] EXCEPT !.open = FALSE]]
      BY <2>1
    <3>5. closed \in Seq(Node) /\ Len(closed) = last
      BY <1>1, <3>1, <3>3, <3>4
    <3>6. \A t \in 1..last : t # last => closed[t] = nodes[t] /\ ~ nodes[t].open
      BY <1>1, <3>4 DEF OnlyTailOpen, ClosedBeforeTail
    <3>7. closed[last] = [nodes[last] EXCEPT !.open = FALSE]
      BY <1>1, <3>1, <3>4
    <3>8. /\ closed[last].kind = nodes[last].kind /\ closed[last].parts = nodes[last].parts
          /\ closed[last].msgs = nodes[last].msgs /\ closed[last].summary = nodes[last].summary
          /\ ~ closed[last].open
      BY <3>7, <3>2 DEF Node
    <3> HIDE DEF closed
    <3> QED BY <3>5, <3>6, <3>8
  <2>2. CASE ~ TailIsOpen
    <3>1. closed = nodes
      BY <2>2
    <3>2. \A t \in 1..last : ~ nodes[t].open
      <4> SUFFICES ASSUME NEW t \in 1..last, nodes[t].open PROVE FALSE
        OBVIOUS
      <4>1. t = Len(nodes) /\ nodes[t].kind = "leaf"
        BY <1>1 DEF OnlyTailOpen, ClosedBeforeTail
      <4>2. Len(nodes) > 0
        BY <1>1, <4>1
      <4> QED BY <2>2, <4>1, <4>2 DEF TailIsOpen
    <3> HIDE DEF closed
    <3> QED BY <1>1, <3>1, <3>2
  <2> QED BY <2>1, <2>2
<1>3. nodes' = Append(closed, n)
  BY DEF AddNode
<1> HIDE DEF closed
<1> QED BY <1>1, <1>2, <1>3

\* A node that replaces some active nodes, and is active itself unless it is a
\* goal, leaves the tree well formed.
LEMMA AddNodeTree ==
  ASSUME TypeOK, Forest, OnlyTailOpen, NEW n \in Node, AddNode(n),
         n.parts \subseteq active, n.kind = "goal" => n.parts = {},
         n.open => n.kind = "leaf",
         active' = (active \ n.parts) \union (IF n.kind = "goal" THEN {} ELSE {Len(nodes) + 1})
  PROVE  IsTree(nodes, active)' /\ Forest' /\ OnlyTailOpen' /\ DOMAIN nodes \subseteq DOMAIN nodes'
<1> DEFINE last == Len(nodes)
<1>1. nodes \in Seq(Node) /\ last \in Nat /\ DOMAIN nodes = 1..last /\ active \subseteq 1..last
  BY DEF TypeOK, IsTree
<1>2. /\ nodes' \in Seq(Node) /\ Len(nodes') = last + 1
      /\ DOMAIN nodes' = (1..last) \union {last + 1} /\ last + 1 \notin 1..last
      /\ nodes'[last + 1] = n
      /\ \A t \in 1..last : /\ nodes'[t].kind = nodes[t].kind
                            /\ nodes'[t].parts = nodes[t].parts
                            /\ ~ nodes'[t].open
  BY <1>1, AddNodeShape
<1>3. IsTree(nodes, active)'
  BY <1>1, <1>2 DEF IsTree
<1>4. OnlyTailOpen'
  BY <1>2 DEF OnlyTailOpen, ClosedBeforeTail
<1>5. \A c \in 1..last : \A t \in nodes[c].parts : t \in 1..last /\ t < c
  BY <1>1 DEF Forest, IsForest
<1>6. \A t \in 1..last :
        Parents(nodes', t) = Parents(nodes, t) \union (IF t \in n.parts THEN {last + 1} ELSE {})
  BY <1>1, <1>2 DEF Parents
<1>7. Parents(nodes', last + 1) = {}
  BY <1>1, <1>2, <1>5 DEF Parents
<1>8. \A t \in 1..last : t \in active <=> (nodes[t].kind # "goal" /\ Parents(nodes, t) = {})
  BY <1>1 DEF Forest, IsForest
<1>9. \A c \in DOMAIN nodes' : \A t \in nodes'[c].parts : t \in DOMAIN nodes' /\ t < c
  <2>1. ASSUME NEW t \in n.parts PROVE t \in 1..last /\ t < last + 1
    <3>1. t \in 1..last
      BY <1>1
    <3> HIDE DEF last
    <3> QED BY <1>1, <3>1
  <2>2. \A c \in 1..last : \A t \in nodes'[c].parts : t \in 1..last /\ t < c
    BY <1>2, <1>5
  <2> QED BY <1>2, <2>1, <2>2
<1>10. \A t \in DOMAIN nodes' : \A c, d \in Parents(nodes', t) : c = d
  <2>1. \A t \in 1..last : \A c, d \in Parents(nodes, t) : c = d
    BY <1>1 DEF Forest, IsForest
  <2>2. \A t \in n.parts : Parents(nodes, t) = {} /\ t \in 1..last
    BY <1>1, <1>8
  <2>3. ASSUME NEW t \in 1..last, NEW c \in Parents(nodes', t), NEW d \in Parents(nodes', t) PROVE c = d
    BY <1>6, <2>1, <2>2, <2>3
  <2> QED BY <1>2, <1>7, <2>3
<1>11. \A t \in DOMAIN nodes' : t \in active' <=> (nodes'[t].kind # "goal" /\ Parents(nodes', t) = {})
  <2>1. ASSUME NEW t \in 1..last
        PROVE  t \in active' <=> (nodes'[t].kind # "goal" /\ Parents(nodes', t) = {})
    <3>1. t # last + 1
      BY <1>2
    <3>2. t \in active' <=> t \in active /\ t \notin n.parts
      BY <3>1
    <3>3. Parents(nodes', t) = {} <=> Parents(nodes, t) = {} /\ t \notin n.parts
      BY <1>6
    <3> QED BY <1>2, <1>8, <3>2, <3>3
  <2>2. last + 1 \in active' <=> n.kind # "goal"
    BY <1>1, <1>2
  <2> QED BY <1>2, <1>7, <2>1, <2>2
<1>12. \A t \in DOMAIN nodes' : nodes'[t].kind = "goal" => Parents(nodes', t) = {}
  <2>1. \A t \in 1..last : nodes[t].kind = "goal" => Parents(nodes, t) = {} /\ t \notin n.parts
    BY <1>1, <1>8 DEF Forest, IsForest
  <2> QED BY <1>2, <1>6, <1>7, <2>1
<1>13. Forest'
  BY <1>9, <1>10, <1>11, <1>12 DEF Forest, IsForest
<1> QED BY <1>1, <1>2, <1>3, <1>4, <1>13

-----------------------------------------------------------------------------
(***************************************************************************)
(* The callers keep their types as long as no node disappears.             *)
(***************************************************************************)
LEMMA CallersUnchanged ==
  ASSUME CallersTypeOK, DOMAIN nodes \subseteq DOMAIN nodes', UNCHANGED callerVars
  PROVE  CallersTypeOK'
BY DEF CallersTypeOK, Timesteps, callerVars

LEMMA ReturnType ==
  ASSUME CallersTypeOK, NEW p \in Callers, DOMAIN nodes \subseteq DOMAIN nodes', Return(p)
  PROVE  CallersTypeOK'
BY DEF CallersTypeOK, Timesteps, Return

LEMMA StartReadingType ==
  ASSUME CallersTypeOK, NEW p \in Callers, DOMAIN nodes \subseteq DOMAIN nodes',
         active \subseteq DOMAIN nodes, pushed \subseteq Messages,
         NEW activity \in {"compressing", "reading", "checking"}, StartReading(p, activity),
         at' \in [Callers -> DOMAIN nodes' \union {0}], \A q \in Callers \ {p} : at'[q] = at[q],
         activity = "compressing" => at'[p] \in DOMAIN nodes'
  PROVE  CallersTypeOK'
BY DEF CallersTypeOK, Timesteps, StartReading

-----------------------------------------------------------------------------
(***************************************************************************)
(* The actions that add a node.                                            *)
(***************************************************************************)
LEMMA AddLeafTree ==
  ASSUME TypeOK, Forest, OnlyTailOpen, NEW ms \in SUBSET Messages, AddLeaf(ms)
  PROVE  /\ IsTree(nodes, active)' /\ Forest' /\ OnlyTailOpen'
         /\ DOMAIN nodes \subseteq DOMAIN nodes' /\ lock' = lock /\ goal' = goal
<1>1. LeafNode(ms) \in Node /\ LeafNode(ms).parts = {} /\ LeafNode(ms).kind = "leaf"
  BY NewNodes DEF LeafNode
<1>2. active' = (active \ {}) \union {Len(nodes) + 1}
  BY DEF AddLeaf
<1> QED BY <1>1, <1>2, AddNodeTree DEF AddLeaf, AddNode

LEMMA CreateGoalInv == ASSUME IInv, NEW p \in Callers, CreateGoal(p) PROVE IInv'
<1>1. GoalNode \in Node /\ GoalNode.parts = {} /\ GoalNode.kind = "goal" /\ ~ GoalNode.open
  BY NewNodes DEF GoalNode
<1>2. IsTree(nodes, active)' /\ Forest' /\ OnlyTailOpen' /\ DOMAIN nodes \subseteq DOMAIN nodes'
  BY <1>1, AddNodeTree DEF IInv, CreateGoal
<1>3. goal' \in Nat /\ lock' = lock
  BY DEF CreateGoal, AddNode, IInv, TypeOK, IsTree
<1>4. CallersTypeOK'
  BY <1>2, CallersUnchanged DEF CreateGoal, IInv, TypeOK
<1> QED BY <1>2, <1>3, <1>4 DEF IInv, TypeOK, SnapshotOK, CreateGoal, processVars, histVars

LEMMA CreateLeafInv == ASSUME IInv, NEW p \in Callers, CreateLeaf(p) PROVE IInv'
<1>1. /\ IsTree(nodes, active)' /\ Forest' /\ OnlyTailOpen'
      /\ DOMAIN nodes \subseteq DOMAIN nodes' /\ lock' = lock /\ goal' = goal
  BY AddLeafTree DEF IInv, CreateLeaf
<1>2. CallersTypeOK'
  BY <1>1, CallersUnchanged DEF CreateLeaf, IInv, TypeOK
<1> QED BY <1>1, <1>2 DEF IInv, TypeOK, SnapshotOK, CreateLeaf, processVars, histVars

LEMMA PushAddsLeafInv == ASSUME IInv, NEW p \in Callers, PushAddsLeaf(p) PROVE IInv'
<1>0. message[p] \in Messages
  BY DEF PushAddsLeaf, IInv, TypeOK, CallersTypeOK
<1>1. pushed' \subseteq Messages /\ refused' \subseteq Messages
  BY <1>0 DEF PushAddsLeaf, IInv, TypeOK
<1>2. /\ IsTree(nodes, active)' /\ Forest' /\ OnlyTailOpen'
      /\ DOMAIN nodes \subseteq DOMAIN nodes' /\ lock' = lock /\ goal' = goal
  <2>1. CASE AddLeaf({message[p]})
    BY <1>0, <2>1, AddLeafTree DEF IInv
  <2>2. CASE UNCHANGED treeVars
    BY <2>2 DEF treeVars, IInv, TypeOK, Forest, OnlyTailOpen
  <2> QED BY <2>1, <2>2 DEF PushAddsLeaf
<1>3. CallersTypeOK'
  BY <1>2, ReturnType DEF PushAddsLeaf, IInv, TypeOK
<1> QED BY <1>1, <1>2, <1>3 DEF IInv, TypeOK, SnapshotOK, PushAddsLeaf, processVars

LEMMA CreateCompressionInv == ASSUME IInv, NEW p \in Callers, CreateCompression(p) PROVE IInv'
<1> DEFINE n == CompressionNode(active)
<1>1. active \subseteq DOMAIN nodes /\ DOMAIN nodes = 1..Len(nodes) /\ Len(nodes) \in Nat
  BY DEF IInv, TypeOK, IsTree
<1>2. n \in Node /\ n.parts = active /\ n.kind = "compression" /\ ~ n.open
  BY <1>1, NewNodes DEF CompressionNode
<1>3. AddNode(n) /\ active' = (active \ n.parts) \union {Len(nodes) + 1}
  BY <1>2 DEF CreateCompression
<1> HIDE DEF n
<1>4. IsTree(nodes, active)' /\ Forest' /\ OnlyTailOpen' /\ DOMAIN nodes \subseteq DOMAIN nodes'
  BY <1>2, <1>3, AddNodeTree DEF IInv
<1>5. /\ at' \in [Callers -> DOMAIN nodes' \union {0}] /\ at'[p] \in DOMAIN nodes'
      /\ \A q \in Callers \ {p} : at'[q] = at[q]
  <2>1. Len(nodes) + 1 \in DOMAIN nodes'
    BY <1>2, <1>3, AddNodeShape DEF IInv
  <2> QED BY <1>4, <2>1 DEF CreateCompression, IInv, TypeOK, CallersTypeOK, Timesteps
<1>6. CallersTypeOK'
  BY <1>1, <1>4, <1>5, StartReadingType DEF CreateCompression, IInv, TypeOK
<1> QED BY <1>3, <1>4, <1>6 DEF IInv, TypeOK, SnapshotOK, CreateCompression, StartReading, AddNode, processVars, histVars

-----------------------------------------------------------------------------
(***************************************************************************)
(* The actions that change what a node holds.                              *)
(***************************************************************************)
\* Changing the messages or the summary of one node keeps the shape.
LEMMA ChangeNodeTree ==
  ASSUME TypeOK, Forest, OnlyTailOpen, active' = active,
         nodes' \in Seq(Node), Len(nodes') = Len(nodes),
         \A t \in DOMAIN nodes : /\ nodes'[t].kind = nodes[t].kind
                                /\ nodes'[t].parts = nodes[t].parts
                                /\ nodes'[t].open = nodes[t].open
  PROVE  IsTree(nodes, active)' /\ Forest' /\ OnlyTailOpen' /\ DOMAIN nodes \subseteq DOMAIN nodes'
<1>1. nodes \in Seq(Node) /\ IsTree(nodes, active)
  BY DEF TypeOK, IsTree
<1>2. IsTree(nodes', active) /\ IsForest(nodes', active) /\ ClosedBeforeTail(nodes')
  BY <1>1, SameShape DEF Forest, OnlyTailOpen
<1>3. DOMAIN nodes = 1..Len(nodes) /\ DOMAIN nodes' = 1..Len(nodes')
  BY <1>1
<1> QED BY <1>2, <1>3 DEF Forest, OnlyTailOpen

LEMMA PushExtendsInv == ASSUME IInv, NEW p \in Callers, PushExtends(p) PROVE IInv'
<1> DEFINE t == at[p]
<1>1. message[p] \in Messages /\ t \in DOMAIN nodes /\ nodes \in Seq(Node)
  BY DEF PushExtends, IInv, TypeOK, IsTree, CallersTypeOK, Timesteps
<1>2. nodes[t] \in Node /\ [nodes[t] EXCEPT !.msgs = @ \union {message[p]}] \in Node
  <2>1. nodes[t] \in Node
    BY <1>1
  <2> QED BY <1>1, <2>1 DEF Node
<1>3. nodes' = [nodes EXCEPT ![t] = [nodes[t] EXCEPT !.msgs = @ \union {message[p]}]]
  BY DEF PushExtends
<1>4. nodes' \in Seq(Node) /\ Len(nodes') = Len(nodes)
  BY <1>1, <1>2, <1>3
<1>5. \A u \in DOMAIN nodes : /\ nodes'[u].kind = nodes[u].kind
                             /\ nodes'[u].parts = nodes[u].parts
                             /\ nodes'[u].open = nodes[u].open
  BY <1>1, <1>2, <1>3 DEF Node
<1>6. IsTree(nodes, active)' /\ Forest' /\ OnlyTailOpen' /\ DOMAIN nodes \subseteq DOMAIN nodes'
  BY <1>4, <1>5, ChangeNodeTree DEF IInv, PushExtends
<1>7. CallersTypeOK'
  BY <1>6, ReturnType DEF PushExtends, IInv, TypeOK
<1>8. pushed' \subseteq Messages
  BY <1>1 DEF PushExtends, IInv, TypeOK
<1> QED BY <1>6, <1>7, <1>8 DEF PushExtends, IInv, TypeOK, SnapshotOK, processVars

\* A summary is set, with an answer or an error, by the one that owes it.
LEMMA SetSummaryInv ==
  ASSUME IInv, NEW p \in Callers, at[p] \in DOMAIN nodes,
         NEW ms \in SUBSET Messages, SetSummary(p, ms)
  PROVE  IInv'
<1> DEFINE t == at[p]
           answered == [nodes[t] EXCEPT !.summary = "set", !.msgs = ms]
<1>1. nodes \in Seq(Node) /\ nodes[t] \in Node
  BY DEF IInv, TypeOK, IsTree
<1>2. answered \in Node /\ answered.kind = nodes[t].kind
      /\ answered.parts = nodes[t].parts /\ answered.open = nodes[t].open
  BY <1>1 DEF Node
<1>3. nodes' = nodes \/ nodes' = [nodes EXCEPT ![t] = answered]
  BY DEF SetSummary
<1> HIDE DEF answered
<1>4. nodes' \in Seq(Node) /\ Len(nodes') = Len(nodes)
  BY <1>1, <1>2, <1>3
<1>5. \A u \in DOMAIN nodes : /\ nodes'[u].kind = nodes[u].kind
                             /\ nodes'[u].parts = nodes[u].parts
                             /\ nodes'[u].open = nodes[u].open
  BY <1>1, <1>2, <1>3
<1>6. IsTree(nodes, active)' /\ Forest' /\ OnlyTailOpen' /\ DOMAIN nodes \subseteq DOMAIN nodes'
  BY <1>4, <1>5, ChangeNodeTree DEF IInv, SetSummary
<1>7. CallersTypeOK'
  BY <1>6, ReturnType DEF SetSummary, IInv, TypeOK
<1> QED BY <1>6, <1>7 DEF SetSummary, IInv, TypeOK, SnapshotOK, processVars

\* Nodes are not changed, and p is done.
LEMMA OnlyReturnInv ==
  ASSUME IInv, NEW p \in Callers, Return(p), UNCHANGED <<treeVars, processVars, pushed, refused>>
  PROVE  IInv'
<1>1. CallersTypeOK'
  BY ReturnType DEF IInv, TypeOK, treeVars
<1> QED BY <1>1 DEF IInv, TypeOK, Forest, OnlyTailOpen, SnapshotOK, treeVars, processVars

\* Who compresses knows the node whose summary it owes.
LEMMA ReadsCancelledInv == ASSUME IInv, NEW p \in Callers, ReadsCancelled(p) PROVE IInv'
<1>1. CASE Return(p) /\ UNCHANGED <<treeVars, processVars, pushed, refused>>
  BY <1>1, OnlyReturnInv
<1>2. CASE pc[p] = "compressing" /\ SetSummary(p, {})
  <2>1. at[p] \in DOMAIN nodes
    BY <1>2 DEF IInv, TypeOK, CallersTypeOK, Timesteps
  <2> QED BY <1>2, <2>1, SetSummaryInv
<1> QED BY <1>1, <1>2 DEF ReadsCancelled, histVars

LEMMA ModelAnswersInv == ASSUME IInv, NEW p \in Callers, ModelAnswers(p) \/ ModelFails(p) PROVE IInv'
<1>1. at[p] \in DOMAIN nodes /\ got[p] \in SUBSET Messages
  BY DEF ModelAnswers, ModelFails, IInv, TypeOK, CallersTypeOK, Timesteps
<1> QED BY <1>1, SetSummaryInv DEF ModelAnswers, ModelFails

LEMMA CancelInv == ASSUME IInv, NEW p \in Callers, Cancel(p) PROVE IInv'
<1>1. nodes \in Seq(Node) /\ DOMAIN nodes = 1..Len(nodes) /\ Len(nodes) \in Nat
  BY DEF IInv, TypeOK, IsTree
<1>2. nodes' = [t \in 1..Len(nodes) |-> IF t \in Awaited(p)
                  THEN [nodes[t] EXCEPT !.summary = "cancelled"] ELSE nodes[t]]
  BY <1>1 DEF Cancel
<1>3. ASSUME NEW t \in 1..Len(nodes)
      PROVE  /\ nodes'[t] \in Node /\ nodes'[t].kind = nodes[t].kind
             /\ nodes'[t].parts = nodes[t].parts /\ nodes'[t].open = nodes[t].open
  <2>1. nodes[t] \in Node
    BY <1>1
  <2>2. nodes'[t] = nodes[t] \/ nodes'[t] = [nodes[t] EXCEPT !.summary = "cancelled"]
    BY <1>2
  <2> QED BY <2>1, <2>2 DEF Node
<1>4. nodes' \in Seq(Node) /\ Len(nodes') = Len(nodes)
  BY <1>1, <1>2, <1>3
<1>5. IsTree(nodes, active)' /\ Forest' /\ OnlyTailOpen' /\ DOMAIN nodes \subseteq DOMAIN nodes'
  BY <1>1, <1>3, <1>4, ChangeNodeTree DEF IInv, Cancel
<1>6. CallersTypeOK'
  BY <1>5, ReturnType DEF Cancel, IInv, TypeOK
<1> QED BY <1>5, <1>6 DEF Cancel, IInv, TypeOK, SnapshotOK, processVars

-----------------------------------------------------------------------------
(***************************************************************************)
(* The actions that leave the tree alone.                                  *)
(***************************************************************************)
LEMMA CallersOnly ==
  ASSUME IInv, CallersTypeOK', UNCHANGED <<treeVars, processVars, pushed, refused>>
  PROVE  IInv'
BY DEF IInv, TypeOK, Forest, OnlyTailOpen, SnapshotOK, treeVars, processVars

LEMMA PushBeginsInv ==
  ASSUME IInv, NEW p \in Callers, NEW m \in Messages, PushBegins(p, m) PROVE IInv'
<1>1. TailIsOpen => Len(nodes) \in DOMAIN nodes
  BY DEF TailIsOpen, IInv, TypeOK, IsTree
<1>2. CallersTypeOK'
  BY <1>1 DEF PushBegins, Begin, treeVars, IInv, TypeOK, CallersTypeOK, Timesteps
<1> QED BY <1>2, CallersOnly DEF PushBegins, histVars

LEMMA BuildContextInv ==
  ASSUME IInv, NEW p \in Callers, BuildContext(p) \/ CheckSize(p) PROVE IInv'
<1>1. PICK activity \in {"reading", "checking"} : StartReading(p, activity)
  BY DEF BuildContext, CheckSize
<1>2. UNCHANGED <<treeVars, at>>
  BY DEF BuildContext, CheckSize
<1>3. /\ DOMAIN nodes' = DOMAIN nodes /\ active \subseteq DOMAIN nodes /\ pushed \subseteq Messages
      /\ at' = at /\ at \in [Callers -> DOMAIN nodes \union {0}]
  BY <1>2 DEF treeVars, IInv, TypeOK, IsTree, CallersTypeOK, Timesteps
<1>4. CallersTypeOK'
  BY <1>1, <1>3, StartReadingType DEF IInv, TypeOK
<1> QED BY <1>1, <1>2, <1>4, CallersOnly DEF StartReading, histVars

LEMMA ReadsNodeInv == ASSUME IInv, NEW p \in Callers, ReadsNode(p) PROVE IInv'
<1>1. PICK t \in todo[p] : /\ got' = [got EXCEPT ![p] = @ \union nodes[t].msgs]
                           /\ todo' = [todo EXCEPT ![p] = @ \ {t}]
  BY DEF ReadsNode
<1>2. nodes[t].msgs \subseteq Messages
  <2>1. t \in DOMAIN nodes /\ nodes \in Seq(Node)
    BY DEF IInv, TypeOK, IsTree, CallersTypeOK, Timesteps
  <2>2. nodes[t] \in Node
    BY <2>1
  <2> QED BY <2>2 DEF Node
<1>3. CallersTypeOK'
  BY <1>1, <1>2 DEF ReadsNode, treeVars, IInv, TypeOK, CallersTypeOK, Timesteps
<1> QED BY <1>3, CallersOnly DEF ReadsNode, histVars

LEMMA AsksModelInv == ASSUME IInv, NEW p \in Callers, AsksModel(p) PROVE IInv'
<1>1. CallersTypeOK'
  BY DEF AsksModel, treeVars, IInv, TypeOK, CallersTypeOK, Timesteps
<1> QED BY <1>1, CallersOnly DEF AsksModel, histVars

-----------------------------------------------------------------------------
(***************************************************************************)
(* Serialization keeps the shape of the tree.                              *)
(***************************************************************************)
LEMMA DumpInv == ASSUME IInv, NEW p \in Callers, Dump(p) PROVE IInv'
<1> DEFINE ns == [t \in DOMAIN nodes |-> Stored(nodes[t])]
<1>1. nodes \in Seq(Node) /\ DOMAIN nodes = 1..Len(nodes) /\ Len(nodes) \in Nat
  BY DEF IInv, TypeOK, IsTree
<1>2. \A n \in Node : /\ Stored(n) \in Node /\ Stored(n).kind = n.kind
                       /\ Stored(n).parts = n.parts /\ Stored(n).open = n.open
  BY DEF Stored, Node
<1>3. \A t \in 1..Len(nodes) : nodes[t] \in Node
  BY <1>1
<1>4. ns \in Seq(Node) /\ Len(ns) = Len(nodes)
  BY <1>1, <1>2, <1>3
<1>5. \A t \in DOMAIN nodes : /\ ns[t].kind = nodes[t].kind /\ ns[t].parts = nodes[t].parts
                             /\ ns[t].open = nodes[t].open
  BY <1>1, <1>2, <1>3
<1>6. snapshot'.nodes = ns /\ snapshot'.active = active /\ snapshot'.goal = goal
      /\ snapshot'.pushed = pushed
  BY DEF Dump
<1> HIDE DEF ns
<1>7. IsTree(ns, active) /\ IsForest(ns, active) /\ ClosedBeforeTail(ns)
  BY <1>1, <1>4, <1>5, SameShape DEF IInv, TypeOK, Forest, OnlyTailOpen
<1>8. SnapshotOK'
  BY <1>6, <1>7 DEF SnapshotOK, IInv, TypeOK
<1>9. CallersTypeOK'
  BY CallersUnchanged DEF Dump, treeVars, IInv, TypeOK
<1> QED BY <1>8, <1>9 DEF Dump, treeVars, histVars, IInv, TypeOK, Forest, OnlyTailOpen

LEMMA ReloadInv == ASSUME IInv, Reload PROVE IInv'
<1>1. CallersTypeOK'
  BY DEF Reload, CallersTypeOK, Timesteps
<1>2. IsTree(nodes, active)' /\ Forest' /\ OnlyTailOpen'
  BY DEF Reload, IInv, SnapshotOK, Forest, OnlyTailOpen
<1>3. SnapshotOK'
  BY DEF Reload, IInv, SnapshotOK
<1>4. reloads' \in Nat
  BY DEF Reload, IInv, TypeOK
<1>5. goal' \in Nat /\ pushed' \subseteq Messages /\ refused' \subseteq Messages
  BY DEF Reload, IInv, SnapshotOK
<1>6. lock' \in BOOLEAN
  BY DEF Reload
<1> QED BY <1>1, <1>2, <1>3, <1>4, <1>5, <1>6 DEF IInv, TypeOK

-----------------------------------------------------------------------------
LEMMA InitInv == Init => IInv
<1> SUFFICES ASSUME Init PROVE IInv
  OBVIOUS
<1>1. <<>> \in Seq(Node) /\ DOMAIN <<>> = {}
  OBVIOUS
<1>2. IsTree(<<>>, {}) /\ IsForest(<<>>, {}) /\ ClosedBeforeTail(<<>>)
  BY <1>1 DEF IsTree, IsForest, ClosedBeforeTail
<1>3. CallersTypeOK
  BY DEF Init, CallersTypeOK, Timesteps
<1> QED BY <1>2, <1>3 DEF Init, IInv, TypeOK, Forest, OnlyTailOpen, SnapshotOK

LEMMA StepInv == IInv /\ [Next]_vars => IInv'
<1> SUFFICES ASSUME IInv, [Next]_vars PROVE IInv'
  OBVIOUS
<1>1. CASE UNCHANGED vars
  BY <1>1, CallersUnchanged, CallersOnly
  DEF vars, treeVars, processVars, histVars, IInv, TypeOK
<1>2. CASE Reload
  BY <1>2, ReloadInv
<1>3. ASSUME NEW p \in Callers, Continue(p) PROVE IInv'
  <2>1. CASE ReadDone(p)
    BY <2>1, OnlyReturnInv DEF ReadDone, histVars
  <2> QED BY <1>3, <2>1, PushExtendsInv, PushAddsLeafInv, ReadsNodeInv, ReadsCancelledInv,
             AsksModelInv, ModelAnswersInv DEF Continue
<1>4. ASSUME NEW p \in Callers, Call(p) PROVE IInv'
  BY <1>4, CreateGoalInv, CreateLeafInv, PushBeginsInv, CreateCompressionInv,
     BuildContextInv, DumpInv, CancelInv DEF Call
<1> QED BY <1>1, <1>2, <1>3, <1>4 DEF Next

(***************************************************************************)
(* The theorems.                                                           *)
(***************************************************************************)
\* The tree, the callers and the last snapshot are well formed in every
\* reachable state, for tasks and for threads.
THEOREM MemoryInvariance == Spec => []IInv
BY InitInv, StepInv, PTL DEF Spec

\* Every variable keeps its type.
THEOREM MemoryTypeCorrect == Spec => []TypeOK
<1>1. IInv => TypeOK
  BY DEF IInv
<1> QED BY <1>1, MemoryInvariance, PTL

\* Whatever overlaps, is cancelled, fails or is reloaded, the nodes stay a
\* forest under the active ones: add_compression_node replaces what it
\* summarises exactly once.
THEOREM AlwaysForest == Spec => []Forest
<1>1. IInv => Forest
  BY DEF IInv
<1> QED BY <1>1, MemoryInvariance, PTL

\* Only the tail of the sequence can take messages: no operation leaves an open
\* leaf behind the node it adds.
THEOREM AlwaysOnlyTailOpen == Spec => []OnlyTailOpen
<1>1. IInv => OnlyTailOpen
  BY DEF IInv
<1> QED BY <1>1, MemoryInvariance, PTL

-----------------------------------------------------------------------------
(***************************************************************************)
(* Among tasks a closed leaf never grows.                                  *)
(***************************************************************************)
\* While a task pushes no other one runs: who adds a node closes nobody's leaf.
LEMMA AddingFreezes ==
  ASSUME ~ Preemptive, IInv, AtTheirNodes, NEW p \in Callers, MayRun(p), NEW n \in Node, AddNode(n),
         \A q \in Callers \ {p} : pc'[q] = pc[q] /\ at'[q] = at[q],
         pc'[p] # "pushing",
         pc'[p] \in {"compressing", "asking"} => at'[p] = Len(nodes) + 1 /\ n.kind = "compression"
  PROVE  AtTheirNodes' /\ LeavesFrozen
<1>1. /\ nodes'[Len(nodes) + 1] = n
      /\ \A t \in DOMAIN nodes : nodes'[t].kind = nodes[t].kind /\ nodes'[t].msgs = nodes[t].msgs
  BY AddNodeShape DEF IInv
<1>2. \A q \in Callers \ {p} : pc[q] # "pushing"
  BY DEF MayRun, AtAwait
<1>3. \A q \in Callers : pc[q] \in {"compressing", "asking"} => at[q] \in DOMAIN nodes
  BY DEF IInv, TypeOK, CallersTypeOK, Timesteps
<1>4. AtTheirNodes'
  BY <1>1, <1>2, <1>3 DEF AtTheirNodes
<1> QED BY <1>1, <1>4 DEF LeavesFrozen, Timesteps

\* What keeps the kinds and the openness of the nodes, and gives nobody another one.
LEMMA NodesKept ==
  ASSUME IInv, AtTheirNodes,
         \A t \in DOMAIN nodes : nodes'[t].kind = nodes[t].kind /\ nodes'[t].open = nodes[t].open,
         \A q \in Callers :
           \/ pc'[q] \notin {"pushing", "compressing", "asking"}
           \/ at'[q] = at[q] /\ (pc'[q] = pc[q] \/ (pc[q] = "compressing" /\ pc'[q] = "asking"))
           \/ pc'[q] = "pushing" /\ (at'[q] = 0 \/ (at'[q] \in DOMAIN nodes /\ nodes[at'[q]].open))
  PROVE  AtTheirNodes'
<1> SUFFICES ASSUME NEW q \in Callers
             PROVE  /\ pc'[q] = "pushing" /\ at'[q] # 0 => nodes'[at'[q]].open
                    /\ pc'[q] \in {"compressing", "asking"} => nodes'[at'[q]].kind = "compression"
  BY DEF AtTheirNodes
<1>1. at[q] \in DOMAIN nodes \union {0}
      /\ (pc[q] \in {"compressing", "asking"} => at[q] \in DOMAIN nodes)
  BY DEF IInv, TypeOK, CallersTypeOK, Timesteps
<1>2. CASE pc'[q] \notin {"pushing", "compressing", "asking"}
  BY <1>2
<1>3. CASE at'[q] = at[q] /\ pc'[q] = pc[q]
  BY <1>1, <1>3 DEF AtTheirNodes
<1>4. CASE at'[q] = at[q] /\ pc[q] = "compressing" /\ pc'[q] = "asking"
  BY <1>1, <1>4 DEF AtTheirNodes
<1>5. CASE pc'[q] = "pushing" /\ (at'[q] = 0 \/ (at'[q] \in DOMAIN nodes /\ nodes[at'[q]].open))
  BY <1>5
<1> QED BY <1>2, <1>3, <1>4, <1>5

\* Who returns is nowhere.
LEMMA ReturnKeeps ==
  ASSUME IInv, NEW p \in Callers, Return(p)
  PROVE  /\ pc'[p] = "idle" /\ \A q \in Callers \ {p} : pc'[q] = pc[q] /\ at'[q] = at[q]
BY DEF Return, IInv, TypeOK, CallersTypeOK

LEMMA SetSummaryFreezes ==
  ASSUME IInv, AtTheirNodes, NEW p \in Callers, pc[p] \in {"compressing", "asking"},
         NEW ms, SetSummary(p, ms)
  PROVE  AtTheirNodes' /\ LeavesFrozen
<1> DEFINE t == at[p]
<1>1. nodes \in Seq(Node) /\ t \in DOMAIN nodes /\ nodes[t] \in Node
  BY DEF IInv, TypeOK, IsTree, CallersTypeOK, Timesteps
<1>2. nodes[t].kind = "compression"
  BY DEF AtTheirNodes
<1>3. nodes' = nodes \/ nodes' = [nodes EXCEPT ![t] = [nodes[t] EXCEPT !.summary = "set", !.msgs = ms]]
  BY DEF SetSummary
<1>4. \A u \in DOMAIN nodes : nodes'[u].kind = nodes[u].kind /\ nodes'[u].open = nodes[u].open
  BY <1>1, <1>3 DEF Node
<1>5. \A u \in DOMAIN nodes : u # t => nodes'[u] = nodes[u]
  BY <1>1, <1>3
<1>6. Return(p)
  BY DEF SetSummary
<1>7. AtTheirNodes'
  BY <1>4, <1>6, ReturnKeeps, NodesKept
<1> QED BY <1>2, <1>5, <1>7 DEF LeavesFrozen, Timesteps

\* No step of a task touches a closed leaf.
LEMMA StepFreezes ==
  ASSUME ~ Preemptive, IInv, AtTheirNodes, [Next]_vars
  PROVE  AtTheirNodes' /\ (reloads' = reloads => LeavesFrozen)
<1> USE DEF IInv, TypeOK
<1>1. ASSUME UNCHANGED nodes,
             \A q \in Callers :
               \/ pc'[q] \notin {"pushing", "compressing", "asking"}
               \/ at'[q] = at[q] /\ (pc'[q] = pc[q] \/ (pc[q] = "compressing" /\ pc'[q] = "asking"))
               \/ pc'[q] = "pushing" /\ (at'[q] = 0 \/ (at'[q] \in DOMAIN nodes /\ nodes[at'[q]].open))
      PROVE  AtTheirNodes' /\ LeavesFrozen
  BY <1>1, NodesKept DEF LeavesFrozen, Timesteps
<1>2. CASE UNCHANGED vars
  BY <1>1, <1>2 DEF vars, treeVars, callerVars
<1>3. CASE Reload
  <2>1. reloads \in Nat /\ reloads' = reloads + 1
    BY <1>3 DEF Reload
  <2> QED BY <1>3, <2>1 DEF Reload, AtTheirNodes
<1>4. ASSUME NEW p \in Callers, CreateGoal(p) PROVE AtTheirNodes' /\ LeavesFrozen
  BY <1>4, NewNodes, AddingFreezes DEF CreateGoal, Begin, callerVars
<1>5. ASSUME NEW p \in Callers, CreateLeaf(p) PROVE AtTheirNodes' /\ LeavesFrozen
  BY <1>5, NewNodes, AddingFreezes DEF CreateLeaf, AddLeaf, Begin, callerVars
<1>6. ASSUME NEW p \in Callers, CreateCompression(p) PROVE AtTheirNodes' /\ LeavesFrozen
  <2>1. active \in SUBSET Nat
    BY DEF IsTree
  <2>2. CompressionNode(active) \in Node /\ CompressionNode(active).kind = "compression"
    BY <2>1, NewNodes DEF CompressionNode
  <2>3. pc'[p] = "compressing" /\ at'[p] = Len(nodes) + 1
        /\ \A q \in Callers \ {p} : pc'[q] = pc[q] /\ at'[q] = at[q]
    BY <1>6 DEF CreateCompression, StartReading, CallersTypeOK
  <2> QED BY <1>6, <2>2, <2>3, AddingFreezes DEF CreateCompression, Begin
<1>7. ASSUME NEW p \in Callers, PushAddsLeaf(p) PROVE AtTheirNodes' /\ LeavesFrozen
  <2>1. message[p] \in Messages
    BY <1>7 DEF PushAddsLeaf, CallersTypeOK
  <2>2. Return(p) /\ MayRun(p)
    BY <1>7 DEF PushAddsLeaf
  <2>3. CASE AddLeaf({message[p]})
    BY <2>1, <2>2, <2>3, NewNodes, ReturnKeeps, AddingFreezes DEF AddLeaf
  <2>4. CASE UNCHANGED treeVars
    BY <1>1, <2>2, <2>4, ReturnKeeps DEF treeVars
  <2> QED BY <1>7, <2>3, <2>4 DEF PushAddsLeaf
<1>8. ASSUME NEW p \in Callers, PushExtends(p) PROVE AtTheirNodes' /\ LeavesFrozen
  <2> DEFINE t == at[p]
  <2>1. t \in DOMAIN nodes /\ nodes \in Seq(Node) /\ nodes[t] \in Node /\ nodes[t].open
    BY <1>8 DEF PushExtends, IsTree, CallersTypeOK, Timesteps, AtTheirNodes
  <2>2. nodes' = [nodes EXCEPT ![t] = [nodes[t] EXCEPT !.msgs = @ \union {message[p]}]]
    BY <1>8 DEF PushExtends
  <2>3. \A u \in DOMAIN nodes : nodes'[u].kind = nodes[u].kind /\ nodes'[u].open = nodes[u].open
    BY <2>1, <2>2 DEF Node
  <2>4. \A u \in DOMAIN nodes : u # t => nodes'[u] = nodes[u]
    BY <2>1, <2>2
  <2>5. AtTheirNodes'
    BY <1>8, <2>3, ReturnKeeps, NodesKept DEF PushExtends
  <2> QED BY <2>1, <2>4, <2>5 DEF LeavesFrozen, Timesteps
<1>9. ASSUME NEW p \in Callers, Cancel(p) PROVE AtTheirNodes' /\ LeavesFrozen
  <2>1. nodes \in Seq(Node) /\ \A t \in DOMAIN nodes : nodes[t] \in Node
    BY DEF IsTree
  <2>2. nodes' = [t \in DOMAIN nodes |-> IF t \in Awaited(p)
                    THEN [nodes[t] EXCEPT !.summary = "cancelled"] ELSE nodes[t]]
    BY <1>9 DEF Cancel
  <2>3. \A t \in DOMAIN nodes : /\ nodes'[t].kind = nodes[t].kind /\ nodes'[t].open = nodes[t].open
                                /\ nodes'[t].msgs = nodes[t].msgs
    BY <2>1, <2>2 DEF Node
  <2>4. AtTheirNodes'
    BY <1>9, <2>3, ReturnKeeps, NodesKept DEF Cancel
  <2> QED BY <2>3, <2>4 DEF LeavesFrozen, Timesteps
<1>10. ASSUME NEW p \in Callers, NEW m \in Messages, PushBegins(p, m) PROVE AtTheirNodes' /\ LeavesFrozen
  <2>1. /\ \A q \in Callers \ {p} : pc'[q] = pc[q] /\ at'[q] = at[q]
        /\ pc'[p] = "pushing" /\ at'[p] = IF TailIsOpen THEN Len(nodes) ELSE 0
    BY <1>10 DEF PushBegins, CallersTypeOK
  <2>2. TailIsOpen => Len(nodes) \in DOMAIN nodes /\ nodes[Len(nodes)].open
    BY DEF TailIsOpen, IsTree
  <2> QED BY <1>1, <1>10, <2>1, <2>2 DEF PushBegins, treeVars
<1>11. ASSUME NEW p \in Callers, BuildContext(p) \/ CheckSize(p) PROVE AtTheirNodes' /\ LeavesFrozen
  <2>1. UNCHANGED <<nodes, at>> /\ pc'[p] \in {"reading", "checking"}
        /\ \A q \in Callers \ {p} : pc'[q] = pc[q]
    BY <1>11 DEF BuildContext, CheckSize, StartReading, treeVars, CallersTypeOK
  <2> QED BY <1>1, <2>1
<1>12. ASSUME NEW p \in Callers, Dump(p) \/ ReadsNode(p) PROVE AtTheirNodes' /\ LeavesFrozen
  BY <1>1, <1>12 DEF Dump, ReadsNode, treeVars, callerVars
<1>13. ASSUME NEW p \in Callers, AsksModel(p) PROVE AtTheirNodes' /\ LeavesFrozen
  <2>1. UNCHANGED <<nodes, at>> /\ pc[p] = "compressing" /\ pc'[p] = "asking"
        /\ \A q \in Callers \ {p} : pc'[q] = pc[q]
    BY <1>13 DEF AsksModel, treeVars, CallersTypeOK
  <2> QED BY <1>1, <2>1
<1>14. ASSUME NEW p \in Callers, ReadDone(p) PROVE AtTheirNodes' /\ LeavesFrozen
  BY <1>1, <1>14, ReturnKeeps DEF ReadDone, treeVars
<1>15. ASSUME NEW p \in Callers, ModelAnswers(p) \/ ModelFails(p) PROVE AtTheirNodes' /\ LeavesFrozen
  BY <1>15, SetSummaryFreezes DEF ModelAnswers, ModelFails
<1>16. ASSUME NEW p \in Callers, ReadsCancelled(p) PROVE AtTheirNodes' /\ LeavesFrozen
  <2>1. CASE Return(p) /\ UNCHANGED treeVars
    BY <1>1, <2>1, ReturnKeeps DEF treeVars
  <2>2. CASE pc[p] = "compressing" /\ SetSummary(p, {})
    BY <2>2, SetSummaryFreezes
  <2> QED BY <1>16, <2>1, <2>2 DEF ReadsCancelled
<1> QED BY <1>2, <1>3, <1>4, <1>5, <1>6, <1>7, <1>8, <1>9, <1>10, <1>11, <1>12, <1>13, <1>14, <1>15,
           <1>16 DEF Next, Continue, Call

\* Among the tasks of one loop a leaf that was closed never changes again while the
\* process lives, whatever is compressed, cancelled or fails beside the push: that
\* push_messages looks for its leaf outside of the lock does no harm there.
THEOREM ClosedStaysFrozen == ~ Preemptive => (Spec => ClosedLeafFrozen)
<1>1. Init => AtTheirNodes
  BY DEF Init, AtTheirNodes
<1>2. ~ Preemptive => (IInv /\ AtTheirNodes /\ [Next]_vars => AtTheirNodes')
  BY StepFreezes
<1>3. ~ Preemptive => (IInv /\ AtTheirNodes /\ [Next]_vars
                         => [reloads' = reloads => LeavesFrozen]_vars)
  BY StepFreezes
<1> SUFFICES ASSUME ~ Preemptive PROVE Spec => ClosedLeafFrozen
  OBVIOUS
<1>4. IInv /\ AtTheirNodes /\ [Next]_vars => AtTheirNodes'
  BY <1>2
<1>5. IInv /\ AtTheirNodes /\ [Next]_vars => [reloads' = reloads => LeavesFrozen]_vars
  BY <1>3
<1> QED BY <1>1, <1>4, <1>5, MemoryInvariance, PTL DEF Spec, ClosedLeafFrozen

-----------------------------------------------------------------------------
(***************************************************************************)
(* What a node holds: the recursive function of the module is defined, as  *)
(* every compression reads older nodes only.                               *)
(***************************************************************************)
\* Every set of numbers has a least one.
LEMMA Least ==
  ASSUME NEW S \in SUBSET Nat, S # {}
  PROVE  \E m \in S : \A n \in S : m <= n
<1>1. PICK m \in S : \A n \in S : ~ (<<n, m>> \in OpToRel(<, Nat))
  BY WFMin, NatLessThanWellFounded
<1>2. \A n \in S : ~ (n < m)
  BY <1>1 DEF OpToRel
<1> QED BY <1>2

\* What node t holds, if the others hold what h says.
HoldsIf(h, t) ==
  IF nodes[t].summary = "pending"
  THEN UNION {got[p] \union UNION {h[u] : u \in todo[p]} : p \in Owners(t)}
  ELSE nodes[t].msgs

\* It depends on older nodes only.
LEMMA HoldsOlder ==
  ASSUME ReadsOlder, NEW t, NEW g, NEW h,
         \A p \in Owners(t) : \A u \in todo[p] : u < t => g[u] = h[u]
  PROVE  HoldsIf(g, t) = HoldsIf(h, t)
<1>1. \A p \in Owners(t) : \A u \in todo[p] : g[u] = h[u]
  BY DEF ReadsOlder, Owners
<1>2. \A p \in Owners(t) : UNION {g[u] : u \in todo[p]} = UNION {h[u] : u \in todo[p]}
  BY <1>1
<1>3. {got[p] \union UNION {g[u] : u \in todo[p]} : p \in Owners(t)}
        = {got[p] \union UNION {h[u] : u \in todo[p]} : p \in Owners(t)}
  BY <1>2
<1> QED BY <1>3 DEF HoldsIf

\* So Holds says of each node what it holds.
LEMMA HoldsEquation ==
  TypeOK /\ ReadsOlder => \A t \in DOMAIN nodes : Holds[t] = HoldsIf(Holds, t)
<1> SUFFICES ASSUME TypeOK, ReadsOlder
             PROVE  \A t \in DOMAIN nodes : Holds[t] = HoldsIf(Holds, t)
  OBVIOUS
<1>1. /\ Len(nodes) \in Nat /\ DOMAIN nodes = 1..Len(nodes)
      /\ \A p \in Callers : todo[p] \subseteq 1..Len(nodes)
  BY DEF TypeOK, IsTree, CallersTypeOK, Timesteps
<1> DEFINE Fits(h, n) == h = [t \in 1..n |-> HoldsIf(h, t)]
           Bad == {n \in 0..Len(nodes) : ~ \E h : Fits(h, n)}
<1>2. Bad = {}
  <2> SUFFICES ASSUME Bad # {} PROVE FALSE
    OBVIOUS
  <2>1. Bad \in SUBSET Nat
    BY <1>1
  <2>2. PICK n \in Bad : \A k \in Bad : n <= k
    <3> HIDE DEF Bad
    <3> QED BY <2>1, Least
  <2>3. n # 0
    <3>1. Fits(<<>>, 0)
      OBVIOUS
    <3> QED BY <3>1
  <2>4. n \in 1..Len(nodes) /\ n - 1 \in 0..Len(nodes) /\ n - 1 \notin Bad
    BY <1>1, <2>2, <2>3
  <2>5. PICK g : Fits(g, n - 1)
    BY <2>4
  <2>6. \A t \in 1..(n - 1) : g[t] = HoldsIf(g, t)
    BY <2>5
  <2> DEFINE h == [t \in 1..n |-> IF t < n THEN g[t] ELSE HoldsIf(g, n)]
  <2>7. \A t \in 1..n : h[t] = HoldsIf(h, t)
    <3> SUFFICES ASSUME NEW t \in 1..n PROVE h[t] = HoldsIf(h, t)
      OBVIOUS
    <3>1. \A u \in 1..n : u < t => h[u] = g[u]
      BY <2>4
    <3>2. \A p \in Owners(t) : \A u \in todo[p] : u < t => g[u] = h[u]
      <4>1. \A p \in Owners(t) : todo[p] \subseteq 1..Len(nodes)
        BY <1>1 DEF Owners
      <4> HIDE DEF h
      <4> QED BY <2>4, <3>1, <4>1
    <3>3. HoldsIf(g, t) = HoldsIf(h, t)
      <4> HIDE DEF h
      <4> QED BY <3>2, HoldsOlder
    <3>4. h[t] = IF t < n THEN g[t] ELSE HoldsIf(g, n)
      OBVIOUS
    <3>5. CASE t < n
      BY <2>4, <2>6, <3>3, <3>4, <3>5
    <3>6. CASE t = n
      <4>1. ~ (t < n)
        BY <2>4, <3>6
      <4>2. h[t] = HoldsIf(g, n)
        BY <3>4, <4>1
      <4> HIDE DEF h
      <4> QED BY <3>3, <3>6, <4>2
    <3> QED BY <2>4, <3>5, <3>6
  <2>8. Fits(h, n)
    <3>1. h = [t \in 1..n |-> h[t]]
      OBVIOUS
    <3> HIDE DEF h
    <3> QED BY <2>7, <3>1
  <2> QED BY <2>2, <2>8
<1>3. \E h : Fits(h, Len(nodes))
  BY <1>1, <1>2
<1>4. Holds = CHOOSE h : Fits(h, Len(nodes))
  BY <1>1 DEF Holds, HoldsIf
<1>5. Fits(Holds, Len(nodes))
  <2> HIDE DEF Fits
  <2> QED BY <1>3, <1>4
<1> QED BY <1>1, <1>5

LEMMA HoldsEquationNext ==
  (TypeOK /\ ReadsOlder)' => \A t \in DOMAIN nodes' : Holds'[t] = HoldsIf(Holds, t)'
<1>1. (TypeOK /\ ReadsOlder => \A t \in DOMAIN nodes : Holds[t] = HoldsIf(Holds, t))'
  BY HoldsEquation, PTL
<1> QED BY <1>1

-----------------------------------------------------------------------------
(***************************************************************************)
(* What a step does to what the nodes hold.                                *)
(***************************************************************************)
\* A step is one of a single caller.
OthersKept(p) ==
  \A q \in Callers \ {p} : /\ pc'[q] = pc[q] /\ at'[q] = at[q] /\ todo'[q] = todo[q]
                           /\ got'[q] = got[q] /\ before'[q] = before[q]

LEMMA StepOthers ==
  ASSUME TypeOK, NEW p \in Callers, Continue(p) \/ Call(p)
  PROVE  OthersKept(p) /\ pc'[p] \in {"idle", "pushing", "compressing", "reading", "checking", "asking"}
<1> USE DEF TypeOK, CallersTypeOK, OthersKept, callerVars
<1>1. ASSUME Return(p) PROVE OthersKept(p) /\ pc'[p] = "idle"
  BY <1>1 DEF Return
<1>2. ASSUME NEW activity, StartReading(p, activity), UNCHANGED at \/ at' = [at EXCEPT ![p] = Len(nodes) + 1]
      PROVE  OthersKept(p) /\ pc'[p] = activity
  BY <1>2 DEF StartReading
<1>3. CASE PushExtends(p) \/ PushAddsLeaf(p) \/ ReadDone(p) \/ Cancel(p)
  BY <1>1, <1>3 DEF PushExtends, PushAddsLeaf, ReadDone, Cancel
<1>4. CASE ReadsCancelled(p) \/ ModelAnswers(p) \/ ModelFails(p)
  BY <1>1, <1>4 DEF ReadsCancelled, ModelAnswers, ModelFails, SetSummary
<1>5. CASE CreateCompression(p) \/ BuildContext(p) \/ CheckSize(p)
  BY <1>2, <1>5 DEF CreateCompression, BuildContext, CheckSize
<1>6. CASE CreateGoal(p) \/ CreateLeaf(p) \/ Dump(p)
  BY <1>6 DEF CreateGoal, CreateLeaf, Dump
<1>7. CASE ReadsNode(p) \/ AsksModel(p)
  BY <1>7 DEF ReadsNode, AsksModel
<1>8. CASE \E m \in Messages : PushBegins(p, m)
  BY <1>8 DEF PushBegins
<1> QED BY <1>3, <1>4, <1>5, <1>6, <1>7, <1>8 DEF Continue, Call

\* What a node held it still holds, or it was forgotten: if a summary that was pending
\* is set with it, or if whoever owes the summary has read or will read the same.
Grown == \A t \in DOMAIN nodes : Holds[t] \subseteq Holds'[t] \union forgotten'

LEMMA HoldsGrows ==
  ASSUME TypeOK /\ ReadsOlder, (TypeOK /\ ReadsOlder)', NEW p \in Callers, OthersKept(p),
         DOMAIN nodes \subseteq DOMAIN nodes',
         \A t \in DOMAIN nodes :
           \/ Holds[t] \subseteq forgotten'
           \/ nodes'[t].summary # "pending" /\ Holds[t] \subseteq nodes'[t].msgs \union forgotten'
           \/ nodes[t].summary = "pending" /\ nodes'[t].summary = "pending"
              /\ (p \in Owners(t) =>
                    /\ p \in Owners(t)' /\ got[p] \subseteq got'[p]
                    /\ \A u \in todo[p] : u \in todo'[p] \/ Holds[u] \subseteq got'[p])
  PROVE  Grown
<1>1. /\ Len(nodes) \in Nat /\ DOMAIN nodes = 1..Len(nodes)
      /\ \A q \in Callers : todo[q] \subseteq 1..Len(nodes)
  BY DEF TypeOK, IsTree, CallersTypeOK, Timesteps
<1> DEFINE Bad == {t \in DOMAIN nodes : ~ (Holds[t] \subseteq Holds'[t] \union forgotten')}
<1> SUFFICES ASSUME Bad # {} PROVE FALSE
  BY DEF Grown
<1>2. Bad \in SUBSET Nat
  BY <1>1
<1>3. PICK t \in Bad : \A k \in Bad : t <= k
  <2> HIDE DEF Bad
  <2> QED BY <1>2, Least
<1>4. t \in DOMAIN nodes /\ ~ (Holds[t] \subseteq Holds'[t] \union forgotten')
  OBVIOUS
<1>5. \A u \in DOMAIN nodes : u < t => Holds[u] \subseteq Holds'[u] \union forgotten'
  <2> SUFFICES ASSUME NEW u \in DOMAIN nodes, u < t, u \in Bad PROVE FALSE
    OBVIOUS
  <2>1. t <= u /\ t \in Nat /\ u \in Nat
    BY <1>1, <1>3, <1>4
  <2> QED BY <2>1
<1> HIDE DEF Bad
<1>6. Holds[t] = HoldsIf(Holds, t) /\ Holds'[t] = HoldsIf(Holds, t)'
  BY <1>4, HoldsEquation, HoldsEquationNext
<1>7. nodes[t].summary = "pending" /\ nodes'[t].summary = "pending"
      /\ (p \in Owners(t) =>
            /\ p \in Owners(t)' /\ got[p] \subseteq got'[p]
            /\ \A u \in todo[p] : u \in todo'[p] \/ Holds[u] \subseteq got'[p])
  <2>1. CASE nodes'[t].summary # "pending" /\ Holds[t] \subseteq nodes'[t].msgs \union forgotten'
    <3>1. Holds'[t] = nodes'[t].msgs
      BY <1>6, <2>1 DEF HoldsIf
    <3> QED BY <1>4, <2>1, <3>1
  <2> QED BY <1>4, <2>1
<1>8. ASSUME NEW q \in Owners(t)
      PROVE  q \in Owners(t)' /\ got[q] \subseteq got'[q]
             /\ \A u \in todo[q] : u \in todo'[q] \/ Holds[u] \subseteq got'[q]
  BY <1>7 DEF OthersKept, Owners
<1>9. ASSUME NEW q \in Owners(t)
      PROVE  got[q] \union (UNION {Holds[u] : u \in todo[q]}) \subseteq Holds'[t] \union forgotten'
  <2>1. Holds'[t] = UNION {got'[r] \union UNION {Holds'[u] : u \in todo'[r]} : r \in Owners(t)'}
    BY <1>6, <1>7 DEF HoldsIf
  <2>2. got'[q] \union UNION {Holds'[u] : u \in todo'[q]} \subseteq Holds'[t]
    BY <1>8, <2>1
  <2>3. got[q] \subseteq Holds'[t]
    BY <1>8, <2>2
  <2>4. ASSUME NEW u \in todo[q] PROVE Holds[u] \subseteq Holds'[t] \union forgotten'
    <3>1. u \in DOMAIN nodes /\ u < t
      BY <1>1 DEF Owners, ReadsOlder
    <3>2. Holds[u] \subseteq Holds'[u] \union forgotten'
      BY <1>5, <3>1
    <3>3. CASE u \in todo'[q]
      BY <2>2, <3>2, <3>3
    <3>4. CASE Holds[u] \subseteq got'[q]
      BY <2>2, <3>4
    <3> QED BY <1>8, <3>3, <3>4
  <2> QED BY <2>3, <2>4
<1>10. Holds[t] = UNION {got[q] \union UNION {Holds[u] : u \in todo[q]} : q \in Owners(t)}
  BY <1>6, <1>7 DEF HoldsIf
<1> QED BY <1>4, <1>9, <1>10

-----------------------------------------------------------------------------
(***************************************************************************)
(* Nobody waits for a newer node, and only compressions have summaries.    *)
(***************************************************************************)
Owes(p) == pc[p] \in {"compressing", "asking"}

LEMMA OlderKept ==
  ASSUME ReadsOlder, NEW p \in Callers, OthersKept(p),
         Owes(p)' => \/ Owes(p) /\ at'[p] = at[p] /\ todo'[p] \subseteq todo[p]
                     \/ \A u \in todo'[p] : u < at'[p]
  PROVE  ReadsOlder'
BY DEF ReadsOlder, Owes, OthersKept

\* Who returns owes nothing.
LEMMA ReturnOlder == ASSUME TypeOK, ReadsOlder, NEW p \in Callers, OthersKept(p), Return(p) PROVE ReadsOlder'
<1>1. ~ Owes(p)'
  BY DEF Return, Owes, TypeOK, CallersTypeOK
<1> QED BY <1>1, OlderKept

LEMMA StepOlder == ASSUME TaskInv, NEW p \in Callers, Continue(p) \/ Call(p) PROVE ReadsOlder'
<1> USE DEF TaskInv, IInv, TypeOK
<1>1. OthersKept(p)
  BY StepOthers
<1>2. ASSUME Return(p) PROVE ReadsOlder'
  BY <1>1, <1>2, ReturnOlder
<1>3. CASE PushExtends(p) \/ PushAddsLeaf(p) \/ ReadDone(p) \/ Cancel(p)
  BY <1>2, <1>3 DEF PushExtends, PushAddsLeaf, ReadDone, Cancel
<1>4. CASE ReadsCancelled(p) \/ ModelAnswers(p) \/ ModelFails(p)
  BY <1>2, <1>4 DEF ReadsCancelled, ModelAnswers, ModelFails, SetSummary
<1>5. CASE CreateCompression(p)
  <2>1. todo'[p] = active /\ at'[p] = Len(nodes) + 1
    BY <1>5 DEF CreateCompression, StartReading, CallersTypeOK
  <2>2. PICK last : last = Len(nodes) /\ active \subseteq 1..last /\ last \in Nat
    BY DEF IsTree
  <2>3. \A u \in active : u < last + 1
    <3> HIDE DEF TaskInv, IInv, TypeOK
    <3> QED BY <2>2
  <2>4. \A u \in todo'[p] : u < at'[p]
    BY <2>1, <2>2, <2>3
  <2> QED BY <1>1, <2>4, OlderKept
<1>6. CASE BuildContext(p) \/ CheckSize(p) \/ \E m \in Messages : PushBegins(p, m)
  <2>1. ~ Owes(p)'
    BY <1>6 DEF BuildContext, CheckSize, StartReading, PushBegins, Owes, CallersTypeOK
  <2> QED BY <1>1, <2>1, OlderKept
<1>7. CASE CreateGoal(p) \/ CreateLeaf(p) \/ Dump(p)
  <2>1. UNCHANGED <<pc, at, todo>>
    BY <1>7 DEF CreateGoal, CreateLeaf, Dump, callerVars
  <2> QED BY <2>1 DEF ReadsOlder
<1>8. CASE ReadsNode(p) \/ AsksModel(p)
  <2>1. at'[p] = at[p] /\ todo'[p] \subseteq todo[p] /\ (Owes(p)' => Owes(p))
    BY <1>8 DEF ReadsNode, AsksModel, Owes, CallersTypeOK
  <2> QED BY <1>1, <2>1, OlderKept
<1> QED BY <1>3, <1>4, <1>5, <1>6, <1>7, <1>8 DEF Continue, Call

\* A node that is added waits only if it is a compression.
LEMMA AddedWaits ==
  ASSUME TypeOK, OnlyTailOpen, OnlyCompressionsWait(nodes), NEW n \in Node, AddNode(n),
         n.summary # "none" => n.kind = "compression"
  PROVE  OnlyCompressionsWait(nodes')
BY AddNodeShape DEF OnlyCompressionsWait

LEMMA SetSummaryWaits ==
  ASSUME TaskInv, NEW p \in Callers, Owes(p), NEW ms, SetSummary(p, ms)
  PROVE  OnlyCompressionsWait(nodes')
<1>1. nodes \in Seq(Node) /\ at[p] \in DOMAIN nodes /\ nodes[at[p]] \in Node
  BY DEF TaskInv, IInv, TypeOK, IsTree, CallersTypeOK, Timesteps, Owes
<1>2. nodes[at[p]].kind = "compression"
  BY DEF TaskInv, AtTheirNodes, Owes
<1>3. nodes' = nodes \/ nodes' = [nodes EXCEPT ![at[p]] = [nodes[at[p]] EXCEPT !.summary = "set", !.msgs = ms]]
  BY DEF SetSummary
<1> QED BY <1>1, <1>2, <1>3 DEF TaskInv, OnlyCompressionsWait, Node

LEMMA StepWaits ==
  ASSUME TaskInv, NEW p \in Callers, Continue(p) \/ Call(p)
  PROVE  OnlyCompressionsWait(nodes')
<1> USE DEF TaskInv, IInv, TypeOK
<1>0. nodes \in Seq(Node) /\ \A t \in DOMAIN nodes : nodes[t] \in Node
  BY DEF IsTree
<1>1. CASE CreateGoal(p)
  BY <1>1, NewNodes, AddedWaits DEF CreateGoal, GoalNode
<1>2. ASSUME NEW ms \in SUBSET Messages, AddLeaf(ms) PROVE OnlyCompressionsWait(nodes')
  BY <1>2, NewNodes, AddedWaits DEF AddLeaf, LeafNode
<1>3. CASE CreateLeaf(p)
  BY <1>2, <1>3 DEF CreateLeaf
<1>4. CASE PushAddsLeaf(p)
  <2>1. message[p] \in Messages
    BY <1>4 DEF PushAddsLeaf, CallersTypeOK
  <2>2. AddLeaf({message[p]}) \/ nodes' = nodes
    BY <1>4 DEF PushAddsLeaf, treeVars
  <2> QED BY <1>2, <2>1, <2>2
<1>5. CASE CreateCompression(p)
  <2>1. active \in SUBSET Nat
    BY DEF IsTree
  <2>2. CompressionNode(active) \in Node /\ CompressionNode(active).kind = "compression"
    BY <2>1, NewNodes DEF CompressionNode
  <2> QED BY <1>5, <2>2, AddedWaits DEF CreateCompression
<1>6. CASE PushExtends(p)
  <2>1. at[p] \in DOMAIN nodes
    BY <1>6 DEF PushExtends, CallersTypeOK, Timesteps
  <2>2. nodes' = [nodes EXCEPT ![at[p]] = [nodes[at[p]] EXCEPT !.msgs = @ \union {message[p]}]]
    BY <1>6 DEF PushExtends
  <2> QED BY <1>0, <2>1, <2>2 DEF OnlyCompressionsWait, Node
<1>7. CASE Cancel(p)
  <2>1. nodes' = [t \in DOMAIN nodes |-> IF t \in Awaited(p)
                    THEN [nodes[t] EXCEPT !.summary = "cancelled"] ELSE nodes[t]]
    BY <1>7 DEF Cancel
  <2>2. \A t \in DOMAIN nodes : /\ nodes'[t].kind = nodes[t].kind
                                /\ nodes'[t].summary # "none" => nodes[t].summary # "none"
    BY <1>0, <2>1 DEF Node, Awaited
  <2>3. DOMAIN nodes' = DOMAIN nodes
    BY <2>1
  <2> QED BY <2>2, <2>3 DEF OnlyCompressionsWait
<1>8. CASE ModelAnswers(p) \/ ModelFails(p)
  BY <1>8, SetSummaryWaits DEF ModelAnswers, ModelFails, Owes
<1>9. CASE ReadsCancelled(p)
  BY <1>9, SetSummaryWaits DEF ReadsCancelled, treeVars, Owes
<1>10. CASE \/ BuildContext(p) \/ CheckSize(p) \/ Dump(p) \/ ReadsNode(p) \/ ReadDone(p) \/ AsksModel(p)
            \/ \E m \in Messages : PushBegins(p, m)
  <2>1. nodes' = nodes
    BY <1>10 DEF BuildContext, CheckSize, Dump, ReadsNode, ReadDone, AsksModel, PushBegins, treeVars
  <2> QED BY <2>1
<1> QED BY <1>1, <1>3, <1>4, <1>5, <1>6, <1>7, <1>8, <1>9, <1>10 DEF Continue, Call

-----------------------------------------------------------------------------
(***************************************************************************)
(* What a node held is never lost, except with a summary that fails.       *)
(***************************************************************************)
\* Of a node that is not pending, what it holds is what it says.
LEMMA HoldsPlain ==
  ASSUME TypeOK, ReadsOlder
  PROVE  \A t \in DOMAIN nodes : nodes[t].summary # "pending" => Holds[t] = nodes[t].msgs
BY HoldsEquation DEF HoldsIf

LEMMA HoldsPlainNext ==
  ASSUME (TypeOK /\ ReadsOlder)'
  PROVE  \A t \in DOMAIN nodes' : nodes'[t].summary # "pending" => Holds'[t] = nodes'[t].msgs
BY HoldsEquationNext DEF HoldsIf

\* Nodes that keep their messages and summaries, when p owes no summary, or goes on with its own.
LEMMA GrownNodesKept ==
  ASSUME TypeOK /\ ReadsOlder, (TypeOK /\ ReadsOlder)', NEW p \in Callers, OthersKept(p),
         DOMAIN nodes \subseteq DOMAIN nodes',
         \A t \in DOMAIN nodes : /\ nodes'[t].summary = nodes[t].summary
                                 /\ nodes[t].msgs \subseteq nodes'[t].msgs,
         Owes(p) => /\ Owes(p)' /\ at'[p] = at[p] /\ got[p] \subseteq got'[p]
                    /\ \A u \in todo[p] : u \in todo'[p] \/ Holds[u] \subseteq got'[p]
  PROVE  Grown
<1> SUFFICES ASSUME NEW t \in DOMAIN nodes
             PROVE  \/ Holds[t] \subseteq forgotten'
                    \/ nodes'[t].summary # "pending" /\ Holds[t] \subseteq nodes'[t].msgs \union forgotten'
                    \/ nodes[t].summary = "pending" /\ nodes'[t].summary = "pending"
                       /\ (p \in Owners(t) =>
                             /\ p \in Owners(t)' /\ got[p] \subseteq got'[p]
                             /\ \A u \in todo[p] : u \in todo'[p] \/ Holds[u] \subseteq got'[p])
  BY HoldsGrows
<1>1. CASE nodes[t].summary # "pending"
  BY <1>1, HoldsPlain
<1>2. CASE nodes[t].summary = "pending"
  BY <1>2 DEF Owners, Owes
<1> QED BY <1>1, <1>2

\* A caller that gives up its summary: whatever it stood for is forgotten, and summaries
\* it cancels go with what they stood for.
LEMMA GrownGivingUp ==
  ASSUME TypeOK /\ ReadsOlder, (TypeOK /\ ReadsOlder)', NEW p \in Callers, OthersKept(p),
         DOMAIN nodes \subseteq DOMAIN nodes',
         NEW Lost, \A t \in DOMAIN nodes \cap Lost : Holds[t] \subseteq forgotten',
         \A t \in DOMAIN nodes \ Lost : nodes'[t] = nodes[t],
         Owes(p) => at[p] \in Lost
  PROVE  Grown
<1> SUFFICES ASSUME NEW t \in DOMAIN nodes
             PROVE  \/ Holds[t] \subseteq forgotten'
                    \/ nodes'[t].summary # "pending" /\ Holds[t] \subseteq nodes'[t].msgs \union forgotten'
                    \/ nodes[t].summary = "pending" /\ nodes'[t].summary = "pending"
                       /\ (p \in Owners(t) =>
                             /\ p \in Owners(t)' /\ got[p] \subseteq got'[p]
                             /\ \A u \in todo[p] : u \in todo'[p] \/ Holds[u] \subseteq got'[p])
  BY HoldsGrows
<1>1. CASE t \in Lost
  BY <1>1
<1>2. CASE t \notin Lost
  <2>1. nodes'[t] = nodes[t] /\ p \notin Owners(t)
    BY <1>2 DEF Owners, Owes
  <2> QED BY <2>1, HoldsPlain
<1> QED BY <1>1, <1>2

LEMMA GrownSummary ==
  ASSUME TaskInv, (TypeOK /\ ReadsOlder)', NEW p \in Callers, Owes(p), NEW ms, SetSummary(p, ms)
  PROVE  Grown
<1> DEFINE s == at[p]
<1>0. TypeOK /\ ReadsOlder /\ OthersKept(p)
  BY DEF TaskInv, IInv, SetSummary, Return, OthersKept, TypeOK, CallersTypeOK
<1>1. nodes \in Seq(Node) /\ s \in DOMAIN nodes /\ nodes[s] \in Node
  BY DEF TaskInv, IInv, TypeOK, IsTree, CallersTypeOK, Timesteps, Owes
<1>2. CASE nodes[s].summary # "pending"
  <2>1. nodes' = nodes /\ Holds[s] = nodes[s].msgs
    BY <1>0, <1>1, <1>2, HoldsPlain DEF SetSummary
  <2>2. ASSUME NEW t \in DOMAIN nodes
        PROVE  \/ nodes'[t].summary # "pending" /\ Holds[t] \subseteq nodes'[t].msgs \union forgotten'
               \/ nodes[t].summary = "pending" /\ nodes'[t].summary = "pending" /\ p \notin Owners(t)
    BY <1>0, <1>2, <2>1, HoldsPlain DEF Owners
  <2> QED BY <1>0, <2>1, <2>2, HoldsGrows
<1>3. CASE nodes[s].summary = "pending"
  <2>1. nodes' = [nodes EXCEPT ![s] = [nodes[s] EXCEPT !.summary = "set", !.msgs = ms]]
    BY <1>3 DEF SetSummary
  <2>2. nodes'[s].summary = "set" /\ nodes'[s].msgs = ms /\ DOMAIN nodes' = DOMAIN nodes
        /\ \A t \in DOMAIN nodes : t # s => nodes'[t] = nodes[t]
    BY <1>1, <2>1 DEF Node
  <2>3. Holds[s] \subseteq ms \union forgotten'
    BY DEF SetSummary
  <2>4. ASSUME NEW t \in DOMAIN nodes
        PROVE  \/ nodes'[t].summary # "pending" /\ Holds[t] \subseteq nodes'[t].msgs \union forgotten'
               \/ nodes[t].summary = "pending" /\ nodes'[t].summary = "pending" /\ p \notin Owners(t)
    <3>1. CASE t = s
      BY <2>2, <2>3, <3>1
    <3>2. CASE t # s
      BY <1>0, <2>2, <3>2, HoldsPlain DEF Owners
    <3> QED BY <3>1, <3>2
  <2> QED BY <1>0, <2>2, <2>4, HoldsGrows
<1> QED BY <1>2, <1>3

\* What a node that is added leaves of the others, and takes from nobody.
LEMMA GrownAdded ==
  ASSUME TaskInv, (TypeOK /\ ReadsOlder)', NEW p \in Callers, OthersKept(p), ~ Owes(p),
         NEW n \in Node, AddNode(n)
  PROVE  Grown
<1>1. TypeOK /\ ReadsOlder /\ OnlyTailOpen
  BY DEF TaskInv, IInv
<1>2. DOMAIN nodes \subseteq DOMAIN nodes'
      /\ \A t \in DOMAIN nodes : nodes'[t].summary = nodes[t].summary /\ nodes'[t].msgs = nodes[t].msgs
  BY <1>1, AddNodeShape
<1> QED BY <1>1, <1>2, GrownNodesKept

\* No step but a reload makes a node hold less than it held.
LEMMA StepGrows ==
  ASSUME TaskInv, (TypeOK /\ ReadsOlder)', NEW p \in Callers, Continue(p) \/ Call(p)
  PROVE  Grown
<1> USE DEF TaskInv, IInv
<1>0. OthersKept(p) /\ nodes \in Seq(Node) /\ \A t \in DOMAIN nodes : nodes[t] \in Node
  BY StepOthers DEF TypeOK, IsTree
<1>1. CASE CreateGoal(p)
  BY <1>0, <1>1, NewNodes, GrownAdded DEF CreateGoal, Begin, Owes
<1>2. CASE CreateLeaf(p)
  BY <1>0, <1>2, NewNodes, GrownAdded DEF CreateLeaf, AddLeaf, Begin, Owes
<1>3. CASE CreateCompression(p)
  <2>1. CompressionNode(active) \in Node
    BY NewNodes DEF TypeOK, IsTree
  <2> QED BY <1>0, <1>3, <2>1, GrownAdded DEF CreateCompression, Begin, Owes
<1>4. CASE PushAddsLeaf(p)
  <2>1. LeafNode({message[p]}) \in Node
    BY <1>4, NewNodes DEF PushAddsLeaf, TypeOK, CallersTypeOK
  <2>2. CASE AddLeaf({message[p]})
    BY <1>0, <1>4, <2>1, <2>2, GrownAdded DEF PushAddsLeaf, AddLeaf, Owes
  <2>3. CASE UNCHANGED treeVars
    BY <1>0, <1>4, <2>3, GrownNodesKept DEF PushAddsLeaf, treeVars, Owes
  <2> QED BY <1>4, <2>2, <2>3 DEF PushAddsLeaf
<1>5. CASE PushExtends(p)
  <2>1. at[p] \in DOMAIN nodes
    BY <1>5 DEF PushExtends, TypeOK, CallersTypeOK, Timesteps
  <2>2. nodes' = [nodes EXCEPT ![at[p]] = [nodes[at[p]] EXCEPT !.msgs = @ \union {message[p]}]]
    BY <1>5 DEF PushExtends
  <2>3. DOMAIN nodes' = DOMAIN nodes
        /\ \A t \in DOMAIN nodes : /\ nodes'[t].summary = nodes[t].summary
                                   /\ nodes[t].msgs \subseteq nodes'[t].msgs
    BY <1>0, <2>1, <2>2 DEF Node
  <2> QED BY <1>0, <1>5, <2>3, GrownNodesKept DEF PushExtends, Owes
<1>6. CASE \/ BuildContext(p) \/ CheckSize(p) \/ ReadDone(p) \/ Dump(p)
           \/ \E m \in Messages : PushBegins(p, m)
  <2>1. nodes' = nodes /\ ~ Owes(p)
    BY <1>6 DEF BuildContext, CheckSize, ReadDone, Dump, PushBegins, Begin, treeVars, Owes
  <2> QED BY <1>0, <2>1, GrownNodesKept
<1>7. CASE AsksModel(p)
  <2>1. nodes' = nodes /\ Owes(p)' /\ at' = at /\ got' = got /\ todo' = todo
    BY <1>7 DEF AsksModel, treeVars, Owes, TypeOK, CallersTypeOK
  <2> QED BY <1>0, <2>1, GrownNodesKept
<1>8. CASE ReadsNode(p)
  <2>1. PICK t \in todo[p] : /\ nodes[t].summary \in {"none", "set"}
                             /\ got' = [got EXCEPT ![p] = @ \union nodes[t].msgs]
                             /\ todo' = [todo EXCEPT ![p] = @ \ {t}]
    BY <1>8 DEF ReadsNode
  <2>2. nodes' = nodes /\ pc' = pc /\ at' = at
    BY <1>8 DEF ReadsNode, treeVars
  <2>3. got'[p] = got[p] \union nodes[t].msgs /\ todo'[p] = todo[p] \ {t} /\ t \in DOMAIN nodes
    BY <2>1 DEF TypeOK, CallersTypeOK, Timesteps
  <2>4. Holds[t] = nodes[t].msgs
    BY <2>1, <2>3, HoldsPlain
  <2>5. \A u \in todo[p] : u \in todo'[p] \/ Holds[u] \subseteq got'[p]
    BY <2>3, <2>4
  <2> QED BY <1>0, <2>2, <2>3, <2>5, GrownNodesKept DEF Owes
<1>9. CASE ModelAnswers(p) \/ ModelFails(p)
  BY <1>9, GrownSummary DEF ModelAnswers, ModelFails, Owes
<1>10. CASE ReadsCancelled(p)
  <2>1. CASE pc[p] = "compressing" /\ SetSummary(p, {})
    BY <2>1, GrownSummary DEF Owes
  <2>2. CASE pc[p] = "compressing" /\ nodes' = nodes /\ forgotten' = forgotten \union Holds[at[p]]
    <3>1. \A t \in DOMAIN nodes \cap {at[p]} : Holds[t] \subseteq forgotten'
      BY <2>2
    <3> QED BY <1>0, <2>2, <3>1, GrownGivingUp
  <2>3. CASE pc[p] # "compressing" /\ nodes' = nodes
    <3>1. ~ Owes(p)
      BY <1>10, <2>3 DEF ReadsCancelled, Reading, Owes
    <3> QED BY <1>0, <2>3, <3>1, GrownNodesKept
  <2> QED BY <1>10, <2>1, <2>2, <2>3 DEF ReadsCancelled, treeVars
<1>11. CASE Cancel(p)
  <2> DEFINE Lost == Awaited(p) \union Owed(p)
  <2>1. nodes' = [t \in DOMAIN nodes |-> IF t \in Awaited(p)
                    THEN [nodes[t] EXCEPT !.summary = "cancelled"] ELSE nodes[t]]
        /\ forgotten' = forgotten \union UNION {Holds[t] : t \in Lost}
    BY <1>11 DEF Cancel
  <2>2. \A t \in DOMAIN nodes \cap Lost : Holds[t] \subseteq forgotten'
    BY <2>1
  <2>3. DOMAIN nodes' = DOMAIN nodes /\ \A t \in DOMAIN nodes \ Lost : nodes'[t] = nodes[t]
    BY <2>1
  <2>4. Owes(p) => at[p] \in Lost
    BY DEF Owes, Owed
  <2> HIDE DEF Lost
  <2> QED BY <1>0, <2>2, <2>3, <2>4, GrownGivingUp
<1> QED BY <1>1, <1>2, <1>3, <1>4, <1>5, <1>6, <1>7, <1>8, <1>9, <1>10, <1>11 DEF Continue, Call

-----------------------------------------------------------------------------
(***************************************************************************)
(* Nothing that was pushed is lost.                                        *)
(***************************************************************************)
\* A step that forgets nothing forgotten, keeps each active node or replaces it by one
\* that holds as much, and shows what it pushes.
LEMMA LostKept ==
  ASSUME NoMessageLost, Grown, forgotten \subseteq forgotten', active \subseteq DOMAIN nodes,
         \A t \in active : t \in active' \/ \E u \in active' : Holds'[t] \subseteq Holds'[u],
         pushed' \subseteq pushed \union UNION {Holds'[t] : t \in active'}
  PROVE  NoMessageLost'
<1> DEFINE now == UNION {Holds'[u] : u \in active'}
<1>1. ASSUME NEW t \in active PROVE Holds[t] \subseteq now \union forgotten'
  <2>1. Holds[t] \subseteq Holds'[t] \union forgotten'
    BY DEF Grown
  <2>2. Holds'[t] \subseteq now
    OBVIOUS
  <2> HIDE DEF now
  <2> QED BY <2>1, <2>2
<1>2. \A m \in pushed : m \in forgotten \/ \E t \in active : m \in Holds[t]
  BY DEF NoMessageLost
<1>3. pushed \subseteq now \union forgotten'
  <2> HIDE DEF now
  <2> QED BY <1>1, <1>2
<1>4. pushed' \subseteq now \union forgotten'
  <2>1. pushed' \subseteq pushed \union now
    OBVIOUS
  <2> HIDE DEF now
  <2> QED BY <1>3, <2>1
<1> QED BY <1>4 DEF NoMessageLost

Reads(p) == pc[p] \in {"reading", "checking", "compressing", "asking"}

\* Who reads goes on reading the same, or begins with all active nodes.
LEMMA FillUpKept ==
  ASSUME TypeOK, ContextsFillUp, NoMessageLost, Grown, forgotten \subseteq forgotten',
         NEW p \in Callers, OthersKept(p),
         Reads(p)' =>
           \/ /\ Reads(p) /\ before'[p] = before[p] /\ got[p] \subseteq got'[p]
              /\ \A u \in todo[p] : u \in todo'[p] \/ Holds[u] \subseteq got'[p]
           \/ before'[p] = pushed /\ todo'[p] = active
  PROVE  ContextsFillUp'
<1> SUFFICES ASSUME NEW q \in Callers, Reads(q)'
             PROVE  before'[q] \subseteq got'[q] \union (UNION {Holds'[u] : u \in todo'[q]}) \union forgotten'
  BY DEF ContextsFillUp, Reads
<1> DEFINE Rest == UNION {Holds'[u] : u \in todo'[q]}
<1>1. todo[q] \subseteq DOMAIN nodes /\ active \subseteq DOMAIN nodes
  BY DEF TypeOK, IsTree, CallersTypeOK, Timesteps
<1>2. ASSUME Reads(q), before'[q] = before[q], got[q] \subseteq got'[q],
             \A u \in todo[q] : u \in todo'[q] \/ Holds[u] \subseteq got'[q]
      PROVE  before'[q] \subseteq got'[q] \union Rest \union forgotten'
  <2>1. \A m \in before[q] : m \in got[q] \/ m \in forgotten \/ \E u \in todo[q] : m \in Holds[u]
    <3>1. before[q] \subseteq got[q] \union (UNION {Holds[u] : u \in todo[q]}) \union forgotten
      BY <1>2 DEF ContextsFillUp, Reads
    <3> QED BY <3>1
  <2>2. ASSUME NEW u \in todo[q] PROVE Holds[u] \subseteq got'[q] \union Rest \union forgotten'
    <3>1. Holds[u] \subseteq Holds'[u] \union forgotten'
      BY <1>1 DEF Grown
    <3>2. CASE u \in todo'[q]
      <4>1. Holds'[u] \subseteq Rest
        BY <3>2
      <4> HIDE DEF Rest
      <4> QED BY <3>1, <4>1
    <3>3. CASE Holds[u] \subseteq got'[q]
      BY <3>3
    <3> QED BY <1>2, <3>2, <3>3
  <2> HIDE DEF Rest
  <2> QED BY <1>2, <2>1, <2>2
<1>3. ASSUME before'[q] = pushed, todo'[q] = active
      PROVE  before'[q] \subseteq got'[q] \union Rest \union forgotten'
  <2>1. \A m \in pushed : m \in forgotten \/ \E u \in active : m \in Holds[u]
    BY DEF NoMessageLost
  <2>2. ASSUME NEW u \in active PROVE Holds[u] \subseteq Rest \union forgotten'
    <3>1. Holds[u] \subseteq Holds'[u] \union forgotten'
      BY <1>1 DEF Grown
    <3>2. Holds'[u] \subseteq Rest
      BY <1>3
    <3> HIDE DEF Rest
    <3> QED BY <3>1, <3>2
  <2> HIDE DEF Rest
  <2> QED BY <1>3, <2>1, <2>2
<1>4. CASE q = p
  BY <1>2, <1>3, <1>4
<1>5. CASE q # p
  <2>1. /\ pc'[q] = pc[q] /\ at'[q] = at[q] /\ todo'[q] = todo[q]
        /\ got'[q] = got[q] /\ before'[q] = before[q]
    BY <1>5 DEF OthersKept
  <2>2. Reads(q)
    BY <2>1 DEF Reads
  <2> QED BY <1>2, <2>1, <2>2
<1> QED BY <1>4, <1>5

\* What is forgotten stays so.
LEMMA StepForgets ==
  ASSUME NEW p \in Callers, Continue(p) \/ Call(p) PROVE forgotten \subseteq forgotten'
<1>1. CASE \/ CreateGoal(p) \/ CreateLeaf(p) \/ CreateCompression(p) \/ BuildContext(p) \/ CheckSize(p)
           \/ Dump(p) \/ Cancel(p) \/ \E m \in Messages : PushBegins(p, m)
  BY <1>1 DEF CreateGoal, CreateLeaf, CreateCompression, BuildContext, CheckSize, StartReading, Dump,
              Cancel, PushBegins, histVars
<1>2. CASE \/ PushExtends(p) \/ PushAddsLeaf(p) \/ ReadsNode(p) \/ ReadDone(p) \/ AsksModel(p)
           \/ ModelAnswers(p) \/ ModelFails(p) \/ ReadsCancelled(p)
  BY <1>2 DEF PushExtends, PushAddsLeaf, ReadsNode, ReadDone, AsksModel, ModelAnswers, ModelFails,
              ReadsCancelled, SetSummary, histVars
<1> QED BY <1>1, <1>2 DEF Continue, Call

\* A compression holds what was active, as soon as it is created.
LEMMA CompressionHolds ==
  ASSUME TaskInv, (TypeOK /\ ReadsOlder)', NEW p \in Callers, CreateCompression(p)
  PROVE  active' = {Len(nodes) + 1} /\ \A t \in active : Holds'[t] \subseteq Holds'[Len(nodes) + 1]
<1> PICK n : n = Len(nodes) + 1
  OBVIOUS
<1>1. active' = {n} /\ todo'[p] = active /\ at'[p] = n /\ pc'[p] = "compressing"
  BY DEF CreateCompression, StartReading, TaskInv, IInv, TypeOK, CallersTypeOK
<1>2. nodes'[n].summary = "pending" /\ n \in DOMAIN nodes'
  <2>1. CompressionNode(active) \in Node /\ CompressionNode(active).summary = "pending"
    BY NewNodes DEF TaskInv, IInv, TypeOK, IsTree, CompressionNode
  <2>2. nodes'[n] = CompressionNode(active) /\ n \in DOMAIN nodes'
    BY <2>1, AddNodeShape DEF TaskInv, IInv, CreateCompression
  <2> QED BY <2>1, <2>2
<1>3. p \in Owners(n)'
  BY <1>1 DEF Owners
<1>4. Holds'[n] = UNION {got'[q] \union UNION {Holds'[u] : u \in todo'[q]} : q \in Owners(n)'}
  <2>1. Holds'[n] = HoldsIf(Holds, n)'
    BY <1>2, HoldsEquationNext
  <2> QED BY <1>2, <2>1 DEF HoldsIf
<1>5. UNION {Holds'[u] : u \in todo'[p]} \subseteq Holds'[n]
  BY <1>3, <1>4
<1> QED BY <1>1, <1>5

\* A push returns with its message in an active leaf: the tail that it extends is active,
\* for nothing newer could have replaced it.
LEMMA PushShows ==
  ASSUME TaskInv, (TypeOK /\ ReadsOlder)', NEW p \in Callers, PushExtends(p) \/ PushAddsLeaf(p)
  PROVE  active \subseteq active' /\ pushed' \subseteq pushed \union UNION {Holds'[t] : t \in active'}
<1> USE DEF TaskInv, IInv
<1>0. nodes \in Seq(Node) /\ (\A t \in DOMAIN nodes : nodes[t] \in Node)
      /\ message[p] \in Messages /\ DOMAIN nodes = 1..Len(nodes) /\ Len(nodes) \in Nat
  BY DEF PushExtends, PushAddsLeaf, TypeOK, IsTree, CallersTypeOK
<1>1. CASE PushExtends(p)
  <2> DEFINE t == at[p]
  <2>1. t \in DOMAIN nodes /\ nodes[t].open /\ active' = active /\ pushed' = pushed \union {message[p]}
    BY <1>1 DEF PushExtends, TypeOK, CallersTypeOK, Timesteps, AtTheirNodes
  <2>2. t = Len(nodes) /\ nodes[t].kind = "leaf"
    BY <2>1 DEF OnlyTailOpen, ClosedBeforeTail
  <2>3. nodes[t].summary = "none"
    BY <1>0, <2>1, <2>2 DEF OnlyCompressionsWait, Node
  <2>4. Parents(nodes, t) = {}
    <3> SUFFICES ASSUME NEW c \in DOMAIN nodes, t \in nodes[c].parts PROVE FALSE
      BY DEF Parents
    <3>1. t < c
      BY DEF Forest, IsForest
    <3>2. c \in 1..Len(nodes)
      BY <1>0
    <3> HIDE DEF TaskInv, IInv
    <3> QED BY <1>0, <2>2, <3>1, <3>2
  <2>5. t \in active
    BY <2>1, <2>2, <2>4 DEF Forest, IsForest
  <2>6. nodes' = [nodes EXCEPT ![t] = [nodes[t] EXCEPT !.msgs = @ \union {message[p]}]]
    BY <1>1 DEF PushExtends
  <2>7. nodes'[t].summary = "none" /\ message[p] \in nodes'[t].msgs /\ t \in DOMAIN nodes'
    BY <1>0, <2>1, <2>3, <2>6 DEF Node
  <2>8. message[p] \in Holds'[t]
    BY <2>7, HoldsPlainNext
  <2> QED BY <2>1, <2>5, <2>8
<1>2. CASE PushAddsLeaf(p) /\ AddLeaf({message[p]}) /\ pushed' = pushed \union {message[p]}
  <2> DEFINE n == Len(nodes) + 1
  <2>1. LeafNode({message[p]}) \in Node
    BY <1>0, NewNodes
  <2>2. nodes'[n] = LeafNode({message[p]}) /\ n \in DOMAIN nodes' /\ active' = active \union {n}
    BY <1>2, <2>1, AddNodeShape DEF AddLeaf
  <2>3. Holds'[n] = {message[p]}
    BY <2>2, HoldsPlainNext DEF LeafNode
  <2> HIDE DEF n
  <2> QED BY <1>2, <2>2, <2>3
<1>3. CASE UNCHANGED <<treeVars, pushed>>
  BY <1>3 DEF treeVars
<1> QED BY <1>1, <1>2, <1>3 DEF PushAddsLeaf

LEMMA StepLosesNothing ==
  ASSUME TaskInv, (TypeOK /\ ReadsOlder)', NEW p \in Callers, Continue(p) \/ Call(p)
  PROVE  NoMessageLost'
<1>1. Grown /\ forgotten \subseteq forgotten' /\ NoMessageLost /\ active \subseteq DOMAIN nodes
  BY StepGrows, StepForgets DEF TaskInv, IInv, TypeOK, IsTree
<1>2. ASSUME active \subseteq active', pushed' = pushed PROVE NoMessageLost'
  BY <1>1, <1>2, LostKept
<1>3. CASE PushExtends(p) \/ PushAddsLeaf(p)
  <2>1. active \subseteq active' /\ pushed' \subseteq pushed \union UNION {Holds'[t] : t \in active'}
    BY <1>3, PushShows
  <2> QED BY <1>1, <2>1, LostKept
<1>4. CASE CreateCompression(p)
  <2>1. active' = {Len(nodes) + 1} /\ \A t \in active : Holds'[t] \subseteq Holds'[Len(nodes) + 1]
    BY <1>4, CompressionHolds
  <2>2. pushed' = pushed
    BY <1>4 DEF CreateCompression, StartReading, histVars
  <2> QED BY <1>1, <2>1, <2>2, LostKept
<1>5. CASE \/ CreateGoal(p) \/ CreateLeaf(p) \/ BuildContext(p) \/ CheckSize(p) \/ Dump(p) \/ Cancel(p)
           \/ \E m \in Messages : PushBegins(p, m)
  BY <1>2, <1>5 DEF CreateGoal, CreateLeaf, AddLeaf, BuildContext, CheckSize, StartReading, Dump, Cancel,
                    PushBegins, treeVars, histVars
<1>6. CASE \/ ReadsNode(p) \/ ReadDone(p) \/ AsksModel(p) \/ ModelAnswers(p) \/ ModelFails(p)
           \/ ReadsCancelled(p)
  BY <1>2, <1>6 DEF ReadsNode, ReadDone, AsksModel, ModelAnswers, ModelFails, ReadsCancelled, SetSummary,
                    treeVars, histVars
<1> QED BY <1>3, <1>4, <1>5, <1>6 DEF Continue, Call

\* Whoever reads will have everything that was pushed before it began.
LEMMA StepFillsUp ==
  ASSUME TaskInv, (TypeOK /\ ReadsOlder)', NEW p \in Callers, Continue(p) \/ Call(p)
  PROVE  ContextsFillUp'
<1> USE DEF TaskInv, IInv
<1>1. /\ TypeOK /\ ContextsFillUp /\ NoMessageLost /\ Grown /\ forgotten \subseteq forgotten'
      /\ OthersKept(p)
  BY StepGrows, StepForgets, StepOthers
<1>2. ASSUME ~ Reads(p)' PROVE ContextsFillUp'
  BY <1>1, <1>2, FillUpKept
<1>3. CASE PushExtends(p) \/ PushAddsLeaf(p) \/ ReadDone(p) \/ Cancel(p)
  BY <1>2, <1>3 DEF PushExtends, PushAddsLeaf, ReadDone, Cancel, Return, Reads, TypeOK, CallersTypeOK
<1>4. CASE ReadsCancelled(p) \/ ModelAnswers(p) \/ ModelFails(p)
  <2>1. Return(p)
    BY <1>4 DEF ReadsCancelled, ModelAnswers, ModelFails, SetSummary
  <2> QED BY <1>2, <2>1 DEF Return, Reads, TypeOK, CallersTypeOK
<1>5. CASE \E m \in Messages : PushBegins(p, m)
  BY <1>2, <1>5 DEF PushBegins, Reads, TypeOK, CallersTypeOK
<1>6. CASE CreateGoal(p) \/ CreateLeaf(p) \/ Dump(p)
  <2>1. UNCHANGED callerVars
    BY <1>6 DEF CreateGoal, CreateLeaf, Dump
  <2> QED BY <1>1, <2>1, FillUpKept DEF callerVars, Reads
<1>7. CASE CreateCompression(p) \/ BuildContext(p) \/ CheckSize(p)
  <2>1. before'[p] = pushed /\ todo'[p] = active
    BY <1>7 DEF CreateCompression, BuildContext, CheckSize, StartReading, TypeOK, CallersTypeOK
  <2> QED BY <1>1, <2>1, FillUpKept
<1>8. CASE AsksModel(p)
  <2>1. Reads(p) /\ UNCHANGED <<before, got, todo>>
    BY <1>8 DEF AsksModel, Reads
  <2> QED BY <1>1, <2>1, FillUpKept
<1>9. CASE ReadsNode(p)
  <2>1. PICK t \in todo[p] : /\ nodes[t].summary \in {"none", "set"}
                             /\ got' = [got EXCEPT ![p] = @ \union nodes[t].msgs]
                             /\ todo' = [todo EXCEPT ![p] = @ \ {t}]
    BY <1>9 DEF ReadsNode
  <2>2. Reads(p) /\ before' = before
    BY <1>9 DEF ReadsNode, Reading, Reads
  <2>3. got'[p] = got[p] \union nodes[t].msgs /\ todo'[p] = todo[p] \ {t} /\ t \in DOMAIN nodes
    BY <2>1 DEF TypeOK, CallersTypeOK, Timesteps
  <2>4. Holds[t] = nodes[t].msgs
    BY <2>1, <2>3, HoldsPlain
  <2>5. \A u \in todo[p] : u \in todo'[p] \/ Holds[u] \subseteq got'[p]
    BY <2>3, <2>4
  <2> QED BY <1>1, <2>2, <2>3, <2>5, FillUpKept
<1> QED BY <1>3, <1>4, <1>5, <1>6, <1>7, <1>8, <1>9 DEF Continue, Call

-----------------------------------------------------------------------------
(***************************************************************************)
(* The invariant of the tasks of one loop.                                 *)
(***************************************************************************)
\* A snapshot holds what the memory holds, less the summaries that are pending.
LEMMA DumpComplete == ASSUME TaskInv, NEW p \in Callers, Dump(p) PROVE SnapshotComplete'
<1> USE DEF TaskInv, IInv
<1> DEFINE ns == [t \in DOMAIN nodes |-> Stored(nodes[t])]
           lost == UNION {Holds[t] : t \in {u \in active : nodes[u].summary = "pending"}}
<1>1. /\ snapshot'.nodes = ns /\ snapshot'.active = active /\ snapshot'.pushed = pushed
      /\ snapshot'.forgotten = forgotten \union lost
  BY DEF Dump
<1>2. \A t \in DOMAIN nodes : nodes[t] \in Node
  BY DEF TypeOK, IsTree
<1>3. /\ DOMAIN ns = DOMAIN nodes
      /\ \A t \in DOMAIN nodes : /\ ns[t].kind = nodes[t].kind /\ ns[t].msgs = nodes[t].msgs
                                 /\ ns[t].summary = IF nodes[t].kind = "compression" THEN "set" ELSE "none"
  BY <1>2 DEF Stored, Node
<1>4. ASSUME NEW t \in active PROVE Holds[t] \subseteq lost \/ Holds[t] \subseteq ns[t].msgs
  <2>1. CASE nodes[t].summary = "pending"
    BY <2>1
  <2>2. CASE nodes[t].summary # "pending"
    <3>1. t \in DOMAIN nodes
      BY DEF TypeOK, IsTree
    <3>2. Holds[t] = nodes[t].msgs /\ ns[t].msgs = nodes[t].msgs
      BY <1>3, <2>2, <3>1, HoldsPlain
    <3> QED BY <3>2
  <2> QED BY <2>1, <2>2
<1> HIDE DEF ns, lost
<1>5. \A m \in pushed : m \in forgotten \/ \E t \in active : m \in Holds[t]
  BY DEF NoMessageLost
<1>6. pushed \subseteq (UNION {ns[t].msgs : t \in active}) \union (forgotten \union lost)
  BY <1>4, <1>5
<1>7. OnlyCompressionsWait(ns) /\ \A t \in DOMAIN ns : ns[t].summary # "pending"
  BY <1>3 DEF OnlyCompressionsWait
<1> QED BY <1>1, <1>6, <1>7 DEF SnapshotComplete

LEMMA StepSnapshot ==
  ASSUME TaskInv, NEW p \in Callers, Continue(p) \/ Call(p) PROVE SnapshotComplete'
<1>1. CASE Dump(p)
  BY <1>1, DumpComplete
<1>2. ASSUME UNCHANGED snapshot PROVE SnapshotComplete'
  BY <1>2 DEF TaskInv, SnapshotComplete
<1>3. CASE \/ CreateGoal(p) \/ CreateLeaf(p) \/ CreateCompression(p) \/ BuildContext(p) \/ CheckSize(p)
           \/ Cancel(p) \/ \E m \in Messages : PushBegins(p, m)
  BY <1>2, <1>3 DEF CreateGoal, CreateLeaf, CreateCompression, BuildContext, CheckSize, StartReading,
                    Cancel, PushBegins, processVars
<1>4. CASE \/ PushExtends(p) \/ PushAddsLeaf(p) \/ ReadsNode(p) \/ ReadDone(p) \/ AsksModel(p)
           \/ ModelAnswers(p) \/ ModelFails(p) \/ ReadsCancelled(p)
  BY <1>2, <1>4 DEF PushExtends, PushAddsLeaf, ReadsNode, ReadDone, AsksModel, ModelAnswers, ModelFails,
                    ReadsCancelled, SetSummary, processVars
<1> QED BY <1>1, <1>3, <1>4 DEF Continue, Call

\* A memory that is loaded has no pending summary, and nobody reads it yet.
LEMMA ReloadComplete ==
  ASSUME TaskInv, Reload
  PROVE  ReadsOlder' /\ OnlyCompressionsWait(nodes') /\ NoMessageLost' /\ ContextsFillUp' /\ SnapshotComplete'
<1> USE DEF TaskInv
<1>1. \A p \in Callers : pc'[p] = "idle"
  BY DEF Reload
<1>2. ReadsOlder' /\ ContextsFillUp'
  BY <1>1 DEF ReadsOlder, ContextsFillUp
<1>3. OnlyCompressionsWait(nodes') /\ SnapshotComplete'
  BY DEF Reload, SnapshotComplete
<1>4. TypeOK'
  BY ReloadInv DEF IInv
<1>5. \A t \in active' : Holds'[t] = nodes'[t].msgs
  <2>1. \A t \in DOMAIN nodes' : nodes'[t].summary # "pending"
    BY DEF Reload, SnapshotComplete
  <2>2. active' \subseteq DOMAIN nodes'
    BY <1>4 DEF TypeOK, IsTree
  <2> QED BY <1>2, <1>4, <2>1, <2>2, HoldsPlainNext
<1>6. pushed' \subseteq (UNION {nodes'[t].msgs : t \in active'}) \union forgotten'
  BY DEF Reload, SnapshotComplete
<1>7. \A m \in pushed' : m \in forgotten' \/ \E t \in active' : m \in Holds'[t]
  <2>1. \A m \in pushed' : m \in forgotten' \/ \E t \in active' : m \in nodes'[t].msgs
    BY <1>6
  <2> QED BY <1>5, <2>1
<1>8. NoMessageLost'
  BY <1>7 DEF NoMessageLost
<1> QED BY <1>2, <1>3, <1>8

LEMMA StepTask == ASSUME ~ Preemptive, TaskInv, [Next]_vars PROVE TaskInv'
<1>1. IInv' /\ AtTheirNodes'
  BY StepInv, StepFreezes DEF TaskInv
<1>2. CASE UNCHANGED vars
  <2> USE DEF TaskInv, vars, treeVars, callerVars, processVars, histVars
  <2>1. ReadsOlder' /\ OnlyCompressionsWait(nodes') /\ SnapshotComplete'
    BY <1>2 DEF ReadsOlder, SnapshotComplete
  <2>2. Holds' = Holds
    BY <1>2 DEF Holds, Owners
  <2>3. NoMessageLost' /\ ContextsFillUp'
    BY <1>2, <2>2 DEF NoMessageLost, ContextsFillUp
  <2> QED BY <1>1, <2>1, <2>3
<1>3. CASE Reload
  BY <1>1, <1>3, ReloadComplete DEF TaskInv
<1>4. ASSUME NEW p \in Callers, Continue(p) \/ Call(p) PROVE TaskInv'
  <2>1. ReadsOlder' /\ OnlyCompressionsWait(nodes') /\ SnapshotComplete'
    BY <1>4, StepOlder, StepWaits, StepSnapshot
  <2>2. (TypeOK /\ ReadsOlder)'
    BY <1>1, <2>1 DEF IInv
  <2>3. NoMessageLost' /\ ContextsFillUp'
    BY <1>4, <2>2, StepLosesNothing, StepFillsUp
  <2> QED BY <1>1, <2>1, <2>3 DEF TaskInv
<1> QED BY <1>2, <1>3, <1>4 DEF Next

LEMMA InitTask == Init => TaskInv
<1> SUFFICES ASSUME Init PROVE TaskInv
  OBVIOUS
<1>1. IInv
  BY InitInv
<1>2. NoMessageLost /\ SnapshotComplete /\ OnlyCompressionsWait(nodes)
  BY DEF Init, NoMessageLost, SnapshotComplete, OnlyCompressionsWait
<1>3. AtTheirNodes /\ ReadsOlder /\ ContextsFillUp
  BY DEF Init, AtTheirNodes, ReadsOlder, ContextsFillUp
<1> QED BY <1>1, <1>2, <1>3 DEF TaskInv

\* The invariant of tasks holds in every reachable state, with any number of overlapping
\* compressions, reads and pushes, with failures, cancellations and reloads.
THEOREM TaskInvariance == ~ Preemptive => (Spec => []TaskInv)
<1> SUFFICES ASSUME ~ Preemptive PROVE Spec => []TaskInv
  OBVIOUS
<1>1. TaskInv /\ [Next]_vars => TaskInv'
  BY StepTask
<1> QED BY <1>1, InitTask, PTL DEF Spec

\* What push_messages returned for is in an active node, or is on its way into a
\* pending summary through whoever owes it, however long the chain of pending
\* summaries; it can go only with a summary that failed or was given up.
THEOREM AlwaysNoMessageLost == ~ Preemptive => (Spec => []NoMessageLost)
<1>1. TaskInv => NoMessageLost
  BY DEF TaskInv
<1> QED BY <1>1, TaskInvariance, PTL

\* A context that is built, and what the model is asked to summarise, has everything
\* that was pushed before its construction began, although the nodes it set out to
\* read may be compressed and their summaries set or given up while it reads.
THEOREM AlwaysContextComplete == ~ Preemptive => (Spec => []ContextComplete)
<1>1. TaskInv => ContextComplete
  <2> SUFFICES ASSUME TaskInv, NEW p \in Callers, pc[p] \in {"reading", "compressing"}, todo[p] = {}
               PROVE  before[p] \subseteq got[p] \union forgotten
    BY DEF ContextComplete
  <2>1. before[p] \subseteq got[p] \union (UNION {Holds[u] : u \in todo[p]}) \union forgotten
    BY DEF TaskInv, ContextsFillUp
  <2> QED BY <2>1
<1> QED BY <1>1, TaskInvariance, PTL
=============================================================================
