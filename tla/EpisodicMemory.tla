---------------------------- MODULE EpisodicMemory ----------------------------
(***************************************************************************)
(* The memory of a ReCENT agent: an append-only sequence of goal, leaf and *)
(* compression nodes.  A compression node stands for the nodes it replaces *)
(* among the active ones; its summary is a future that the caller which    *)
(* created the node completes after it collected what it summarises and    *)
(* asked the model.  Callers push messages, compress and build contexts;   *)
(* they are tasks of one event loop, or threads.                           *)
(*                                                                         *)
(* A message is a value and a summary is the set of the messages it stands *)
(* for.  Timesteps start at 1; 0 stands for "none" (-1 or None).           *)
(***************************************************************************)
EXTENDS Naturals, FiniteSets, Sequences

CONSTANTS
  Callers,      \* the tasks or threads that share the memory
  Messages,     \* the messages they push
  NoMessage,    \* the message of a caller that pushes none
  Checkers,     \* callers that evaluate should_trigger_compression
  Preemptive,   \* are callers threads? tasks switch only where they await
  MayFail,      \* may the model fail to answer?
  MayCancel,    \* may a task be cancelled while it awaits?
  MaxNodes,     \* bound on the nodes
  MaxReloads    \* bound on the reloads from a snapshot

ASSUME MemoryAssumption ==
  /\ Checkers \subseteq Callers /\ NoMessage \notin Messages
  /\ {Preemptive, MayFail, MayCancel} \subseteq BOOLEAN
  /\ {MaxNodes, MaxReloads} \subseteq Nat

VARIABLES
  \* --- the tree
  nodes,        \* _node_sequence
  goal,         \* _goal_node_timestep
  active,       \* _non_goal_node_timesteps
  lock,         \* does the tree have its _lock?
  \* --- the callers
  pc, at,       \* what each one is doing, and at which node
  message,      \* the message it pushes
  todo, got,    \* the nodes it has still to read, the messages it has read
  before,       \* history: the messages pushed when it began to read
  \* --- the process
  snapshot, reloads,
  \* --- history, read by properties only
  pushed,       \* the messages whose push returned
  refused,      \* the messages whose push raised
  forgotten     \* those that went with a summary that failed or was never set

treeVars    == <<nodes, goal, active, lock>>
callerVars  == <<pc, at, message, todo, got, before>>
processVars == <<snapshot, reloads>>
histVars    == <<pushed, refused, forgotten>>
vars == <<treeVars, callerVars, processVars, histVars>>

Node == [kind : {"goal", "leaf", "compression"}, msgs : SUBSET Messages, open : BOOLEAN,
         parts : SUBSET Nat, summary : {"none", "pending", "set", "cancelled"}]

GoalNode == [kind |-> "goal", msgs |-> {}, open |-> FALSE, parts |-> {},
             summary |-> "none"]
LeafNode(ms) == [kind |-> "leaf", msgs |-> ms, open |-> TRUE, parts |-> {},
                 summary |-> "none"]
CompressionNode(ts) == [kind |-> "compression", msgs |-> {}, open |-> FALSE, parts |-> ts,
                        summary |-> "pending"]

Init ==
  /\ nodes = <<>> /\ goal = 0 /\ active = {} /\ lock = TRUE
  /\ pc = [p \in Callers |-> "idle"] /\ at = [p \in Callers |-> 0]
  /\ message = [p \in Callers |-> NoMessage]
  /\ todo = [p \in Callers |-> {}] /\ got = [p \in Callers |-> {}]
  /\ snapshot = [taken |-> FALSE, nodes |-> <<>>, goal |-> 0, active |-> {},
                  pushed |-> {}, forgotten |-> {}]
  /\ reloads = 0
  /\ before = [p \in Callers |-> {}]
  /\ pushed = {} /\ refused = {} /\ forgotten = {}

-----------------------------------------------------------------------------
(***************************************************************************)
(* Who may run.  A task of the event loop runs until it awaits a summary   *)
(* or the model; a thread may be preempted anywhere.  The check whether to *)
(* compress waits for summaries without awaiting: it blocks its loop.      *)
(***************************************************************************)
Oldest(p, t) == t \in todo[p] /\ \A u \in todo[p] : t <= u

\* Mutant: push_messages awaits between its look-up and its extension.
AtAwaitOfPush(p) ==
  \/ pc[p] \in {"idle", "asking", "pushing"}
  \/ /\ pc[p] \in {"compressing", "reading"}
     /\ \E t \in todo[p] : Oldest(p, t) /\ nodes[t].kind = "compression"

AtAwait(p) ==
  \/ pc[p] \in {"idle", "asking"}
  \/ /\ pc[p] \in {"compressing", "reading"}
     /\ \E t \in todo[p] : Oldest(p, t) /\ nodes[t].kind = "compression"

MayRun(p) == Preemptive \/ \A q \in Callers \ {p} : AtAwait(q)

Begin(p) == pc[p] = "idle" /\ MayRun(p)

Return(p) ==
  /\ pc' = [pc EXCEPT ![p] = "idle"] /\ at' = [at EXCEPT ![p] = 0]
  /\ message' = [message EXCEPT ![p] = NoMessage]
  /\ todo' = [todo EXCEPT ![p] = {}] /\ got' = [got EXCEPT ![p] = {}]
  /\ before' = [before EXCEPT ![p] = {}]

-----------------------------------------------------------------------------
(***************************************************************************)
(* Adding nodes, under the lock: the open leaf at the tail is closed.      *)
(***************************************************************************)
TailIsOpen == Len(nodes) > 0 /\ nodes[Len(nodes)].kind = "leaf" /\ nodes[Len(nodes)].open

AddNode(n) ==
  /\ lock /\ Len(nodes) < MaxNodes
  /\ nodes' = Append(IF TailIsOpen THEN [nodes EXCEPT ![Len(nodes)].open = FALSE] ELSE nodes, n)
  /\ UNCHANGED lock

AddLeaf(ms) ==
  /\ AddNode(LeafNode(ms))
  /\ active' = active \union {Len(nodes) + 1}
  /\ UNCHANGED goal

CreateGoal(p) ==
  /\ Begin(p)
  /\ AddNode(GoalNode)
  /\ goal' = Len(nodes) + 1
  /\ UNCHANGED <<active, callerVars, processVars, histVars>>

CreateLeaf(p) ==
  /\ Begin(p)
  /\ AddLeaf({})
  /\ UNCHANGED <<callerVars, processVars, histVars>>

-----------------------------------------------------------------------------
(***************************************************************************)
(* push_messages: look for an open leaf at the tail, without the lock;     *)
(* extend it, or add a new one.                                            *)
(***************************************************************************)
Unused == Messages \ (pushed \union refused \union {message[p] : p \in Callers})

PushBegins(p, m) ==
  /\ Begin(p) /\ m \in Unused /\ (TailIsOpen \/ Len(nodes) < MaxNodes)
  /\ pc' = [pc EXCEPT ![p] = "pushing"]
  /\ at' = [at EXCEPT ![p] = IF TailIsOpen THEN Len(nodes) ELSE 0]
  /\ message' = [message EXCEPT ![p] = m]
  /\ UNCHANGED <<treeVars, todo, got, before, processVars, histVars>>

PushExtends(p) ==
  /\ pc[p] = "pushing" /\ MayRun(p) /\ at[p] # 0
  /\ nodes' = [nodes EXCEPT ![at[p]].msgs = @ \union {message[p]}]
  /\ pushed' = pushed \union {message[p]}
  /\ Return(p)
  /\ UNCHANGED <<goal, active, lock, processVars, refused, forgotten>>

PushAddsLeaf(p) ==
  /\ pc[p] = "pushing" /\ MayRun(p) /\ at[p] = 0
  /\ \/ /\ AddLeaf({message[p]})
        /\ pushed' = pushed \union {message[p]} /\ UNCHANGED refused
     \/ /\ ~ lock /\ UNCHANGED <<treeVars, pushed>>
        /\ refused' = refused \union {message[p]}
  /\ Return(p)
  /\ UNCHANGED <<processVars, forgotten>>

-----------------------------------------------------------------------------
(***************************************************************************)
(* create_compression and acreate_compression: replace all active nodes by *)
(* a new one, read them in the order of their timesteps, ask the model and *)
(* complete the summary.                                                   *)
(***************************************************************************)
StartReading(p, activity) ==
  /\ pc' = [pc EXCEPT ![p] = activity]
  /\ todo' = [todo EXCEPT ![p] = active]
  /\ before' = [before EXCEPT ![p] = pushed]
  /\ UNCHANGED <<message, got, processVars, histVars>>

\* Mutant: the nodes to compress are those read, but only the oldest is replaced.
CompressOldestOnly(p) ==
  /\ Begin(p) /\ active # {}
  /\ AddNode(CompressionNode(active))
  /\ active' = {t \in active : \E u \in active : u < t} \union {Len(nodes) + 1}
  /\ at' = [at EXCEPT ![p] = Len(nodes) + 1]
  /\ StartReading(p, "compressing")
  /\ UNCHANGED goal

\* Mutant: the nodes to read are looked up after the new one replaced them.
CompressReadsItself(p) ==
  /\ Begin(p) /\ active # {}
  /\ AddNode(CompressionNode(active))
  /\ active' = {Len(nodes) + 1}
  /\ at' = [at EXCEPT ![p] = Len(nodes) + 1]
  /\ pc' = [pc EXCEPT ![p] = "compressing"]
  /\ todo' = [todo EXCEPT ![p] = active']
  /\ before' = [before EXCEPT ![p] = pushed]
  /\ UNCHANGED <<goal, message, got, processVars, histVars>>

CreateCompression(p) ==
  /\ Begin(p) /\ active # {}
  /\ AddNode(CompressionNode(active))
  /\ active' = {Len(nodes) + 1}
  /\ at' = [at EXCEPT ![p] = Len(nodes) + 1]
  /\ StartReading(p, "compressing")
  /\ UNCHANGED goal

\* build_context and abuild_context, and the check whether to compress.
BuildContext(p) == Begin(p) /\ StartReading(p, "reading") /\ UNCHANGED <<treeVars, at>>

CheckSize(p) ==
  /\ Begin(p) /\ p \in Checkers
  /\ StartReading(p, "checking") /\ UNCHANGED <<treeVars, at>>

Reading(p) == pc[p] \in {"compressing", "reading", "checking"} /\ MayRun(p)

\* Mutant: a summary that is not there yet is skipped.
ReadsNodeWithoutWaiting(p) ==
  /\ Reading(p)
  /\ \E t \in todo[p] :
       /\ Oldest(p, t) /\ nodes[t].summary # "cancelled"
       /\ got' = [got EXCEPT ![p] = @ \union nodes[t].msgs]
       /\ todo' = [todo EXCEPT ![p] = @ \ {t}]
  /\ UNCHANGED <<treeVars, pc, at, message, before, processVars, histVars>>

ReadsNode(p) ==
  /\ Reading(p)
  /\ \E t \in todo[p] :
       /\ Oldest(p, t) /\ nodes[t].summary \in {"none", "set"}
       /\ got' = [got EXCEPT ![p] = @ \union nodes[t].msgs]
       /\ todo' = [todo EXCEPT ![p] = @ \ {t}]
  /\ UNCHANGED <<treeVars, pc, at, message, before, processVars, histVars>>

ReadDone(p) ==
  /\ pc[p] \in {"reading", "checking"} /\ MayRun(p) /\ todo[p] = {}
  /\ Return(p)
  /\ UNCHANGED <<treeVars, processVars, histVars>>

AsksModel(p) ==
  /\ pc[p] = "compressing" /\ MayRun(p) /\ todo[p] = {}
  /\ pc' = [pc EXCEPT ![p] = "asking"]
  /\ UNCHANGED <<treeVars, at, message, todo, got, before, processVars, histVars>>

(***************************************************************************)
(* The messages an active node stands for, or will once its summary is set.*)
(***************************************************************************)
Owners(t) == {p \in Callers : pc[p] \in {"compressing", "asking"} /\ at[p] = t}

Holds ==
  LET h[t \in DOMAIN nodes] ==
        IF nodes[t].summary = "pending"
        THEN UNION {got[p] \union UNION {h[u] : u \in todo[p]} : p \in Owners(t)}
        ELSE nodes[t].msgs
  IN  h

\* summary.set_result(text); it raises if the future was cancelled meanwhile.
SetSummary(p, ms) ==
  /\ nodes' = IF nodes[at[p]].summary = "pending"
              THEN [nodes EXCEPT ![at[p]].summary = "set", ![at[p]].msgs = ms] ELSE nodes
  /\ forgotten' = forgotten \union (Holds[at[p]] \ ms)
  /\ Return(p)
  /\ UNCHANGED <<goal, active, lock, processVars, pushed, refused>>

ModelAnswers(p) == pc[p] = "asking" /\ MayRun(p) /\ SetSummary(p, got[p])

\* Mutant: a failure leaves the summary unset.
FailureIgnored(p) ==
  /\ MayFail /\ pc[p] = "asking" /\ MayRun(p)
  /\ forgotten' = forgotten \union Holds[at[p]]
  /\ Return(p)
  /\ UNCHANGED <<treeVars, processVars, pushed, refused>>

\* The summary is the text of the exception.
ModelFails(p) == MayFail /\ pc[p] = "asking" /\ MayRun(p) /\ SetSummary(p, {})

(***************************************************************************)
(* A task is cancelled where it awaits.  `except Exception` does not catch *)
(* that, so the summary it owes is never set; and the summary it waits for *)
(* is cancelled with it (asyncio.wrap_future).                             *)
(***************************************************************************)
Awaited(p) == {t \in todo[p] : Oldest(p, t) /\ nodes[t].summary = "pending"}

Owed(p) == IF pc[p] \in {"compressing", "asking"} THEN {at[p]} ELSE {}

Cancel(p) ==
  /\ MayCancel /\ MayRun(p) /\ AtAwait(p) /\ pc[p] # "idle"
  /\ nodes' = [t \in DOMAIN nodes |-> IF t \in Awaited(p)
                 THEN [nodes[t] EXCEPT !.summary = "cancelled"] ELSE nodes[t]]
  /\ forgotten' = forgotten \union UNION {Holds[t] : t \in Awaited(p) \union Owed(p)}
  /\ Return(p)
  /\ UNCHANGED <<goal, active, lock, processVars, pushed, refused>>

(***************************************************************************)
(* A cancelled summary raises in whoever reads it.  acreate_compression    *)
(* gives up, create_compression stores the exception's text.               *)
(***************************************************************************)
ReadsCancelled(p) ==
  /\ Reading(p)
  /\ \E t \in todo[p] : Oldest(p, t) /\ nodes[t].summary = "cancelled"
  /\ IF pc[p] # "compressing"
     THEN Return(p) /\ UNCHANGED <<treeVars, processVars, histVars>>
     ELSE \/ SetSummary(p, {})
          \/ /\ Return(p)
             /\ forgotten' = forgotten \union Holds[at[p]]
             /\ UNCHANGED <<treeVars, processVars, pushed, refused>>

-----------------------------------------------------------------------------
(***************************************************************************)
(* Serialization.  A pending summary is stored empty; a tree that is       *)
(* loaded has no lock.                                                     *)
(***************************************************************************)
\* Mutant: leaves are loaded as __init__ makes them, open.
StoredReopened(n) == [n EXCEPT !.summary = IF n.kind = "compression" THEN "set" ELSE "none",
                               !.open = n.kind = "leaf"]

Stored(n) == [n EXCEPT !.summary = IF n.kind = "compression" THEN "set" ELSE "none"]

Dump(p) ==
  /\ Begin(p) /\ reloads < MaxReloads
  /\ snapshot' = [taken |-> TRUE, nodes |-> [t \in DOMAIN nodes |-> Stored(nodes[t])],
                  goal |-> goal, active |-> active, pushed |-> pushed,
                  forgotten |-> forgotten \union
                    UNION {Holds[t] : t \in {u \in active : nodes[u].summary = "pending"}}]
  /\ UNCHANGED <<treeVars, callerVars, reloads, histVars>>

Reload ==
  /\ snapshot.taken /\ reloads < MaxReloads
  /\ reloads' = reloads + 1
  /\ nodes' = snapshot.nodes /\ goal' = snapshot.goal /\ active' = snapshot.active
  /\ lock' = FALSE
  /\ pc' = [p \in Callers |-> "idle"] /\ at' = [p \in Callers |-> 0]
  /\ message' = [p \in Callers |-> NoMessage]
  /\ todo' = [p \in Callers |-> {}] /\ got' = [p \in Callers |-> {}]
  /\ pushed' = snapshot.pushed /\ refused' = {} /\ forgotten' = snapshot.forgotten
  /\ before' = [p \in Callers |-> {}]
  /\ UNCHANGED snapshot

-----------------------------------------------------------------------------
Continue(p) ==
  \/ PushExtends(p) \/ PushAddsLeaf(p) \/ ReadsNode(p) \/ ReadDone(p) \/ ReadsCancelled(p)
  \/ AsksModel(p) \/ ModelAnswers(p) \/ ModelFails(p)

Call(p) ==
  \/ CreateGoal(p) \/ CreateLeaf(p) \/ (\E m \in Messages : PushBegins(p, m))
  \/ CreateCompression(p) \/ BuildContext(p) \/ CheckSize(p) \/ Dump(p) \/ Cancel(p)

Next == (\E p \in Callers : Continue(p) \/ Call(p)) \/ Reload

Spec == Init /\ [][Next]_vars

\* Whoever can go on does so at last: the event loop runs ready tasks in turn,
\* threads are scheduled, and the model answers or fails.
FairSpec == Spec /\ \A p \in Callers : SF_vars(Continue(p))

-----------------------------------------------------------------------------
(***************************************************************************)
(* Properties.                                                             *)
(***************************************************************************)
Timesteps == DOMAIN nodes

\* A tree: a sequence of nodes, some of which are active.
IsTree(ns, as) == ns \in Seq(Node) /\ as \subseteq DOMAIN ns

CallersTypeOK ==
  /\ pc \in [Callers -> {"idle", "pushing", "compressing", "reading", "checking", "asking"}]
  /\ at \in [Callers -> Timesteps \union {0}]
  /\ \A p \in Callers : pc[p] \in {"compressing", "asking"} => at[p] \in Timesteps
  /\ message \in [Callers -> Messages \union {NoMessage}]
  /\ \A p \in Callers : pc[p] = "pushing" => message[p] \in Messages
  /\ todo \in [Callers -> SUBSET Timesteps]
  /\ got \in [Callers -> SUBSET Messages] /\ before \in [Callers -> SUBSET Messages]

\* Every variable has its type; what is active, read or compressed is a node.
TypeOK ==
  /\ IsTree(nodes, active) /\ goal \in Nat /\ lock \in BOOLEAN
  /\ CallersTypeOK
  /\ reloads \in Nat /\ pushed \subseteq Messages /\ refused \subseteq Messages

\* The nodes are a forest whose roots are the active ones: each node but the
\* goals is active, or was replaced by exactly one compression, a newer one.
\* So a context shows nothing twice, and summaries wait only for older ones.
Parents(ns, t) == {c \in DOMAIN ns : t \in ns[c].parts}

IsForest(ns, as) ==
  /\ \A c \in DOMAIN ns : \A t \in ns[c].parts : t \in DOMAIN ns /\ t < c
  /\ \A t \in DOMAIN ns : \A c, d \in Parents(ns, t) : c = d
  /\ \A t \in DOMAIN ns : t \in as <=> (ns[t].kind # "goal" /\ Parents(ns, t) = {})
  /\ \A t \in DOMAIN ns : ns[t].kind = "goal" => Parents(ns, t) = {}

Forest == IsForest(nodes, active)

\* Only the newest node can be open, if it is a leaf: messages go where the
\* conversation is, and what is older keeps its place in the order.
ClosedBeforeTail(ns) == \A t \in DOMAIN ns : ns[t].open => ns[t].kind = "leaf" /\ t = Len(ns)

OnlyTailOpen == ClosedBeforeTail(nodes)

\* The same of the last snapshot, which may come back at any time.
SnapshotOK ==
  /\ IsTree(snapshot.nodes, snapshot.active)
  /\ IsForest(snapshot.nodes, snapshot.active) /\ ClosedBeforeTail(snapshot.nodes)
  /\ snapshot.goal \in Nat /\ snapshot.pushed \subseteq Messages

\* The inductive invariant: whatever callers, threads, failures, cancellations
\* and reloads do, the tree is well formed.
IInv == TypeOK /\ Forest /\ OnlyTailOpen /\ SnapshotOK

\* A closed leaf never changes again while the process lives: the summary made
\* of it has all it will ever hold.
LeavesFrozen ==
  \A t \in Timesteps : nodes[t].kind = "leaf" /\ ~ nodes[t].open
                         => nodes'[t].msgs = nodes[t].msgs
ClosedLeafFrozen == [][reloads' = reloads => LeavesFrozen]_vars

\* Why that holds for tasks: who extends a leaf is at one that is still open, and who
\* sets a summary is at a compression.
AtTheirNodes ==
  \A p \in Callers :
    /\ pc[p] = "pushing" /\ at[p] # 0 => nodes[at[p]].open
    /\ pc[p] \in {"compressing", "asking"} => nodes[at[p]].kind = "compression"

\* What was pushed is in the context, or will be when the pending summaries are
\* set, unless it went with a summary that failed or was never set.
NoMessageLost == pushed \subseteq (UNION {Holds[t] : t \in active}) \union forgotten

\* A context, and what the model is asked to summarise, holds everything pushed
\* before its construction began, whatever is compressed meanwhile: except what went
\* with a summary that failed or was never set.
ContextComplete ==
  \A p \in Callers : pc[p] \in {"reading", "compressing"} /\ todo[p] = {}
                       => before[p] \subseteq got[p] \union forgotten

\* Who reads will have the rest when it has read the nodes still to read.
ContextsFillUp ==
  \A p \in Callers : pc[p] \in {"reading", "checking", "compressing", "asking"} =>
    before[p] \subseteq got[p] \union (UNION {Holds[u] : u \in todo[p]}) \union forgotten

\* A compression waits for older nodes only, and nobody but a compression has a summary.
ReadsOlder ==
  \A p \in Callers : pc[p] \in {"compressing", "asking"} => \A u \in todo[p] : u < at[p]
OnlyCompressionsWait(ns) == \A t \in DOMAIN ns : ns[t].summary # "none" => ns[t].kind = "compression"

\* The last snapshot waits for no summary, and has lost nothing either.
SnapshotComplete ==
  /\ OnlyCompressionsWait(snapshot.nodes)
  /\ \A t \in DOMAIN snapshot.nodes : snapshot.nodes[t].summary # "pending"
  /\ snapshot.pushed \subseteq (UNION {snapshot.nodes[t].msgs : t \in snapshot.active})
                               \union snapshot.forgotten

\* The inductive invariant of callers that are tasks of one loop.
TaskInv ==
  /\ IInv /\ AtTheirNodes /\ ReadsOlder /\ OnlyCompressionsWait(nodes)
  /\ NoMessageLost /\ ContextsFillUp /\ SnapshotComplete

\* No push is turned away.
NothingRefused == refused = {}

\* Every summary that is owed is set at last, with an answer or an error.
EverySummarySet ==
  \A t \in 1..MaxNodes :
    (t \in Timesteps /\ nodes[t].summary = "pending")
      ~> (t \notin Timesteps \/ nodes[t].summary # "pending")

\* Building a context, and the check whether to compress, come to an end.
ReadsEnd ==
  \A p \in Callers : \A doing \in {"reading", "checking"} : (pc[p] = doing) ~> (pc[p] # doing)
=============================================================================
