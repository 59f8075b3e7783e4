----------------------------- MODULE McpManager -----------------------------
(***************************************************************************)
(* The managers of MCP connections (_mcp_server_connection_manager.py):    *)
(* the class-level registries and, for each manager, an event loop in a    *)
(* thread of its own.  A call is made by a thread and takes several steps, *)
(* one for each access to what threads share; between two of them the      *)
(* other threads and the loops run.                                        *)
(***************************************************************************)
EXTENDS Naturals, Sequences, FiniteSets

CONSTANTS Threads,      \* the application's threads
          Managers,     \* manager objects, in the order of their creation
          Names,        \* names of managers
          NameOf,       \* manager -> its name
          Default,      \* "default-mcp-manager"
          Conns,        \* connection objects
          ConnNames,    \* names of connections
          ConnName,     \* connection -> its name
          NoOne         \* None

ASSUME ManagerAssumption ==
  /\ NameOf \in [Managers -> Names] /\ Default \in Names
  /\ ConnName \in [Conns -> ConnNames]
  /\ NoOne \notin Managers \union Names \union Conns \union ConnNames
  /\ IsFiniteSet(Managers) /\ IsFiniteSet(Conns)

VARIABLES
  made,        \* the manager objects constructed so far
  instances,   \* McpServerConnectionManager._instances
  mapping,     \* McpServerConnectionManager._connection_to_manager
  conns,       \* manager -> its _connections, by name
  managerOf,   \* connection -> its _manager
  shut,        \* the managers whose _shutdown is set
  again,       \* history: the managers shutdown() was called on more than once
  loopOf,      \* manager -> its _loop, 0 for None
  loops,       \* every loop ever made: how far its thread is
  readers,     \* manager -> loop threads that have not read _loop yet
  pc,          \* thread -> where its call is
  want,        \* thread -> the manager name it looks for
  via,         \* thread -> the manager it has
  doomed       \* thread -> conn_names_to_remove, in shutdown()

registryVars == <<made, instances, mapping, conns, managerOf, shut, again>>
loopVars == <<loopOf, loops, readers>>

Places == {"idle", "finding", "creating", "assigning", "fetching", "found",
           "writing", "listing", "owning", "asking", "taking",
           "loop", "starting", "submit", "sending", "waiting",
           "stopping", "telling", "joining", "popping", "sifting", "dropping"}

ManagerTypeOK ==
  /\ made \subseteq Managers /\ shut \subseteq made /\ again \subseteq shut
  /\ instances \in [Names -> Managers \union {NoOne}]
  /\ mapping \in [ConnNames -> Names \union {NoOne}]
  /\ conns \in [Managers -> [ConnNames -> Conns \union {NoOne}]]
  /\ managerOf \in [Conns -> Managers \union {NoOne}]
  /\ loopOf \in [Managers -> Nat] /\ readers \in [Managers -> Nat]
  /\ loops \in Seq({"created", "booting", "running", "stopping", "stopped"})
  /\ \A m \in Managers : loopOf[m] \in 0..Len(loops)
  /\ pc \in [Threads -> Places] /\ want \in [Threads -> Names]
  /\ via \in [Threads -> Managers \union {NoOne}]
  /\ doomed \in [Threads -> SUBSET ConnNames]

ManagerInit ==
  /\ made = {} /\ shut = {} /\ again = {}
  /\ instances = [n \in Names |-> NoOne] /\ mapping = [n \in ConnNames |-> NoOne]
  /\ conns = [m \in Managers |-> [n \in ConnNames |-> NoOne]]
  /\ managerOf = [c \in Conns |-> NoOne]
  /\ loopOf = [m \in Managers |-> 0] /\ loops = <<>> /\ readers = [m \in Managers |-> 0]
  /\ pc = [t \in Threads |-> "idle"] /\ want = [t \in Threads |-> Default]
  /\ via = [t \in Threads |-> NoOne] /\ doomed = [t \in Threads |-> {}]

GoOn(t, place) == pc' = [pc EXCEPT ![t] = place]
Has(t, m) == via' = [via EXCEPT ![t] = m]
Stay(t, place) == GoOn(t, place) /\ UNCHANGED via
Leave(t) == GoOn(t, "idle") /\ Has(t, NoOne)
\* A thread holds the lock of a manager's table and loop for more than a step.
Starting(m) == \E u \in Threads : pc[u] = "starting" /\ via[u] = m
Runs(l) == l # 0 /\ loops[l] \in {"running", "stopping"}

-----------------------------------------------------------------------------
(***************************************************************************)
(* get_instance: look, construct, store, read again, without a lock around *)
(* them; the constructor registers under the lock and raises for a taken   *)
(* name, the last read raises for a name that is gone again.               *)
(***************************************************************************)
Find(t) ==
  /\ pc[t] = "finding"
  /\ IF instances[want[t]] = NoOne THEN Stay(t, "creating") ELSE Stay(t, "fetching")
  /\ UNCHANGED <<registryVars, loopVars, want, doomed>>

\* The object made next; which of the unused ones it is makes no difference.
Fresh(name) ==
  LET unused == {m \in Managers \ made : NameOf[m] = name}
  IN  IF unused = {} THEN {} ELSE {CHOOSE m \in unused : TRUE}

\* Mutant: the constructor does not look at the registry.
ConstructBlindly(t) ==
  /\ pc[t] = "creating"
  /\ \E m \in Fresh(want[t]) :
       /\ made' = made \union {m}
       /\ instances' = [instances EXCEPT ![want[t]] = m]
       /\ Has(t, m) /\ GoOn(t, "assigning")
  /\ UNCHANGED <<mapping, conns, managerOf, shut, again, loopVars, want, doomed>>

Construct(t) ==
  /\ pc[t] = "creating"
  /\ \/ /\ instances[want[t]] # NoOne
        /\ Leave(t) /\ UNCHANGED <<made, instances>>
     \/ /\ instances[want[t]] = NoOne
        /\ \E m \in Fresh(want[t]) :
             /\ made' = made \union {m}
             /\ instances' = [instances EXCEPT ![want[t]] = m]
             /\ Has(t, m) /\ GoOn(t, "assigning")
  /\ UNCHANGED <<mapping, conns, managerOf, shut, again, loopVars, want, doomed>>

\* get_instance stores what the constructor has registered a second time.
Assign(t) ==
  /\ pc[t] = "assigning"
  /\ instances' = [instances EXCEPT ![want[t]] = via[t]]
  /\ Stay(t, "fetching")
  /\ UNCHANGED <<made, mapping, conns, managerOf, shut, again, loopVars, want, doomed>>

Fetch(t) ==
  /\ pc[t] = "fetching"
  /\ IF instances[want[t]] = NoOne
     THEN Leave(t)
     ELSE Has(t, instances[want[t]]) /\ GoOn(t, "found")
  /\ UNCHANGED <<registryVars, loopVars, want, doomed>>

(***************************************************************************)
(* register_connection: the name is looked up before any lock is taken,    *)
(* then the mapping, the manager's table and the connection are written    *)
(* one after the other.  A refusal raises.                                 *)
(***************************************************************************)
\* Mutant: a name that is taken is not refused.
RegisterUnchecked(t, c) ==
  /\ pc[t] = "found" /\ Stay(t, "writing")
  /\ UNCHANGED <<registryVars, loopVars, want, doomed>>

RegisterCheck(t, c) ==
  /\ pc[t] = "found"
  /\ IF mapping[ConnName[c]] = NoOne THEN Stay(t, "writing") ELSE Leave(t)
  /\ UNCHANGED <<registryVars, loopVars, want, doomed>>

RegisterName(t, c) ==
  /\ pc[t] = "writing" /\ Stay(t, "listing")
  /\ mapping' = [mapping EXCEPT ![ConnName[c]] = NameOf[via[t]]]
  /\ UNCHANGED <<made, instances, conns, managerOf, shut, again, loopVars, want, doomed>>

RegisterEntry(t, c) ==
  /\ pc[t] = "listing" /\ ~ Starting(via[t]) /\ Stay(t, "owning")
  /\ conns' = [conns EXCEPT ![via[t]][ConnName[c]] = c]
  /\ UNCHANGED <<made, instances, mapping, managerOf, shut, again, loopVars, want, doomed>>

\* Where the thread goes on from here depends on its call.
RegisterOwner(t, c) ==
  /\ pc[t] = "owning"
  /\ managerOf' = [managerOf EXCEPT ![c] = via[t]]
  /\ UNCHANGED <<made, instances, mapping, conns, shut, again, loopVars, want, doomed>>

\* unregister_connection undoes the three, in a loop's thread.
UnregisterEntry(c, m) ==
  /\ ~ Starting(m)
  /\ conns' = [conns EXCEPT ![m][ConnName[c]] = NoOne]
  /\ UNCHANGED <<made, instances, mapping, managerOf, shut, again>>

\* Mutant: the name stays in the class-level mapping.
UnregisterNoName(c) == UNCHANGED registryVars

UnregisterName(c) ==
  /\ mapping' = [mapping EXCEPT ![ConnName[c]] = NoOne]
  /\ UNCHANGED <<made, instances, conns, managerOf, shut, again>>

UnregisterOwner(c) ==
  /\ managerOf' = [managerOf EXCEPT ![c] = NoOne]
  /\ UNCHANGED <<made, instances, mapping, conns, shut, again>>

-----------------------------------------------------------------------------
(***************************************************************************)
(* _ensure_loop_running, under the manager's lock, which the loop's own    *)
(* thread and shutdown() do not take.  A loop that does not run YET is     *)
(* replaced; each thread started reads _loop when it begins, and a loop    *)
(* runs in one thread only.                                                *)
(***************************************************************************)
\* Mutant: a loop is made for every call.
EnsureNewLoop(t) ==
  /\ pc[t] = "loop" /\ ~ Starting(via[t])
  /\ IF via[t] \in shut THEN Leave(t) ELSE Stay(t, "starting")
  /\ UNCHANGED <<registryVars, loopVars, want, doomed>>

EnsureLoop(t) ==
  /\ pc[t] = "loop" /\ ~ Starting(via[t])
  /\ \/ Runs(loopOf[via[t]]) /\ Stay(t, "submit")
     \/ ~ Runs(loopOf[via[t]]) /\ via[t] \in shut /\ Leave(t)
     \/ ~ Runs(loopOf[via[t]]) /\ via[t] \notin shut /\ Stay(t, "starting")
  /\ UNCHANGED <<registryVars, loopVars, want, doomed>>

StartLoop(t) ==
  /\ pc[t] = "starting" /\ Stay(t, "submit")
  /\ loops' = Append(loops, "created")
  /\ loopOf' = [loopOf EXCEPT ![via[t]] = Len(loops')]
  /\ readers' = [readers EXCEPT ![via[t]] = @ + 1]
  /\ UNCHANGED <<registryVars, want, doomed>>

ThreadReads(m) ==
  /\ readers[m] > 0
  /\ readers' = [readers EXCEPT ![m] = @ - 1]
  /\ loops' = IF loopOf[m] # 0 /\ loops[loopOf[m]] = "created"
              THEN [loops EXCEPT ![loopOf[m]] = "booting"] ELSE loops
  /\ UNCHANGED <<registryVars, loopOf, pc, want, via, doomed>>

Becomes(l, from, to) ==
  /\ loops[l] = from /\ loops' = [loops EXCEPT ![l] = to]
  /\ UNCHANGED <<registryVars, loopOf, readers, pc, want, via, doomed>>

LoopRuns(l) == Becomes(l, "booting", "running")
LoopStops(l) == Becomes(l, "stopping", "stopped")

-----------------------------------------------------------------------------
(***************************************************************************)
(* shutdown, of any manager and any number of times: tell a loop that runs *)
(* to stop, join its thread (for five seconds, in vain when it was not     *)
(* told to stop), drop the loop, the instance of this NAME and all         *)
(* mappings to this name.                                                  *)
(***************************************************************************)
ShutdownBegins(t, m) ==
  /\ pc[t] = "idle" /\ m \in made
  /\ shut' = shut \union {m}
  /\ again' = IF m \in shut THEN again \union {m} ELSE again
  /\ Has(t, m) /\ GoOn(t, "stopping")
  /\ UNCHANGED <<made, instances, mapping, conns, managerOf, loopVars, want, doomed>>

StopsLoop(t) ==
  /\ pc[t] = "stopping"
  /\ IF Runs(loopOf[via[t]]) THEN Stay(t, "telling") ELSE Stay(t, "joining")
  /\ UNCHANGED <<registryVars, loopVars, want, doomed>>

\* Another shutdown may have been faster: telling a loop that is closed, or None, raises.
\* A loop that does not run yet when it is told will stop in its first turn.
Tell(t) ==
  /\ pc[t] = "telling"
  /\ IF loopOf[via[t]] = 0 \/ loops[loopOf[via[t]]] = "stopped"
     THEN Leave(t) /\ UNCHANGED loops
     ELSE Stay(t, "joining") /\ loops' = [loops EXCEPT ![loopOf[via[t]]] = "stopping"]
  /\ UNCHANGED <<registryVars, loopOf, readers, want, doomed>>

Joined(t) ==
  /\ pc[t] = "joining" /\ (loopOf[via[t]] # 0 => loops[loopOf[via[t]]] # "stopping")
  /\ loopOf' = [loopOf EXCEPT ![via[t]] = 0]
  /\ Stay(t, "popping")
  /\ UNCHANGED <<registryVars, loops, readers, want, doomed>>

Pop(t) ==
  /\ pc[t] = "popping" /\ Stay(t, "sifting")
  /\ instances' = [instances EXCEPT ![NameOf[via[t]]] = NoOne]
  /\ UNCHANGED <<made, mapping, conns, managerOf, shut, again, loopVars, want, doomed>>

\* The names are listed without the lock; a mapping that grows or shrinks meanwhile
\* makes the iteration raise.
Sift(t) ==
  /\ pc[t] = "sifting" /\ Stay(t, "dropping")
  /\ doomed' = [doomed EXCEPT ![t] = {n \in ConnNames : mapping[n] = NameOf[via[t]]}]
  /\ UNCHANGED <<registryVars, loopVars, want>>

SiftRaises(t) ==
  /\ pc[t] = "sifting" /\ Leave(t)
  /\ UNCHANGED <<registryVars, loopVars, want, doomed>>

\* What was listed is dropped, whoever it belongs to by now.
Drop(t) ==
  /\ pc[t] = "dropping" /\ Leave(t)
  /\ mapping' = [n \in ConnNames |-> IF n \in doomed[t] THEN NoOne ELSE mapping[n]]
  /\ doomed' = [doomed EXCEPT ![t] = {}]
  /\ UNCHANGED <<made, instances, conns, managerOf, shut, again, loopVars, want>>

-----------------------------------------------------------------------------
\* Two threads that ask for one manager at the same time do not end up with two: of the
\* managers of one name, at most one is not shut down.  A second shutdown() of a manager
\* takes the name from its successor, so names with one are exempt.
ShutOnce(name) == \A m \in again : NameOf[m] # name

OneManagerPerName ==
  \A m, n \in made \ shut : NameOf[m] = NameOf[n] /\ ShutOnce(NameOf[m]) => m = n

\* get_instance creates a manager "if it doesn't exist"
\* (_mcp_server_connection_manager.py:52).
NeverTwoManagers == \A m, n \in made \ shut : NameOf[m] = NameOf[n] => m = n

\* A manager is registered until the thread that shuts it down has removed it.
Removal == {"stopping", "telling", "joining", "popping"}
Removing(t) == pc[t] \in Removal
Registered(m) == m \in shut => \E t \in Threads : Removing(t) /\ via[t] = m

\* Where a call has no manager in hand, or may have none.
NoneYet == {"idle", "finding", "creating", "fetching", "asking", "taking"}

\* Why: what is stored under a name bears it, there is one registered manager of a name
\* and its name is taken, and only one thread shuts it down.
RegistryInv ==
  /\ made \subseteq Managers /\ shut \subseteq made /\ again \subseteq shut
  /\ instances \in [Names -> made \union {NoOne}]
  /\ mapping \in [ConnNames -> Names \union {NoOne}]
  /\ managerOf \in [Conns -> made \union {NoOne}]
  /\ pc \in [Threads -> Places] /\ want \in [Threads -> Names]
  /\ via \in [Threads -> made \union {NoOne}]
  /\ \A t \in Threads : pc[t] \notin NoneYet => via[t] # NoOne
  /\ \A n \in Names : instances[n] # NoOne => NameOf[instances[n]] = n
  /\ \A t \in Threads : pc[t] = "assigning" => NameOf[via[t]] = want[t]
  /\ \A t \in Threads : Removing(t) => via[t] \in shut
  /\ \A t, u \in Threads :
       Removing(t) /\ Removing(u) /\ via[t] = via[u] /\ via[t] \notin again => t = u
  /\ \A m, n \in made :
       Registered(m) /\ Registered(n) /\ NameOf[m] = NameOf[n] /\ ShutOnce(NameOf[m]) => m = n
  /\ \A m \in made : Registered(m) /\ ShutOnce(NameOf[m]) => instances[NameOf[m]] # NoOne

\* No two managers have one loop, and only a shutdown stops a manager's loop.
LoopsApart ==
  /\ \A m, n \in Managers : loopOf[m] # 0 /\ loopOf[m] = loopOf[n] => m = n
  /\ \A m \in Managers \ shut : loopOf[m] # 0 => loops[loopOf[m]] \notin {"stopping", "stopped"}

\* register_connection "Raises ... If a connection with the same name is already
\* registered" (_mcp_server_connection_manager.py:112-115).
NameTakenOnce ==
  \A c, d \in Conns :
    managerOf[c] # NoOne /\ managerOf[d] # NoOne /\ ConnName[c] = ConnName[d] => c = d
=============================================================================
