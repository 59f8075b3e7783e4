--------------------------- MODULE McpConnection ---------------------------
(***************************************************************************)
(* MCP connections (_mcp_server_connection.py) on top of their managers: a *)
(* connection lives in a task of the manager's loop, the lifecycle task,   *)
(* that enters the exit stack, waits for the stop event and closes what it *)
(* finds in the exit stack.  connect(), close() and the requests submit a  *)
(* coroutine to the loop and wait for it, until request_timeout + 1.       *)
(***************************************************************************)
EXTENDS McpManager

CONSTANTS Users,        \* connection -> the threads that call it
          Scripts,      \* bound: what each thread may call, one call after the other
          MayTimeout    \* do calls time out?

Calls == {"register", "look", "connect", "close", "request", "shutdown"}

ASSUME ConnectionAssumption ==
  /\ Conns # {} /\ Users \in [Conns -> SUBSET Threads]
  /\ Scripts \subseteq [Threads -> Seq(SUBSET Calls)] /\ MayTimeout \in BOOLEAN

VARIABLES
  connected,   \* is_connected
  session,     \* _session: the lifecycle task that made it, 0 for None
  stack,       \* _exit_stack: the lifecycle task that made it, 0 for None
  lifeTask,    \* _lifecycle_task, 0 for None
  stop,        \* is _connection_stop_event set?
  error,       \* is _connection_error set?
  boundReady, boundStop,  \* the loop an event belongs to since it was first awaited
  tasks,       \* every task made: its coroutine, its connection, its loop
  at,          \* task -> how far it is
  joins,       \* task -> the task it awaits
  owner,       \* task -> the manager it takes its connection from
  op, on, awaits, calls,  \* thread -> call, its connection, its task; calls left
  trouble      \* history: connection -> what has gone wrong with it

connVars == <<connected, session, stack, lifeTask, stop, error, boundReady, boundStop>>
taskVars == <<tasks, at, joins, owner>>
callVars == <<op, on, awaits, calls>>
managerVars == <<registryVars, loopVars, pc, want, via, doomed>>
vars == <<managerVars, connVars, taskVars, callVars, trouble>>

Task == [kind : {"setup", "stop", "request", "life"}, conn : Conns, loop : Nat]
Over == {"done", "raised"}
Unregistering == {"unlisting", "unmapping", "disowning"}
Spots == {"ready", "onReady", "woken", "connecting", "holding", "closing", "joining", "calling"}
         \union Unregistering \union Over
Troubles == {"failed", "unclosed", "gaveUp", "lateClose", "moved", "left",
             "shutDown", "unlisted", "rehomed", "raced"}

TypeOK ==
  /\ ManagerTypeOK
  /\ connected \in [Conns -> BOOLEAN] /\ stop \in [Conns -> BOOLEAN]
  /\ error \in [Conns -> BOOLEAN]
  /\ session \in [Conns -> 0..Len(tasks)] /\ stack \in [Conns -> 0..Len(tasks)]
  /\ lifeTask \in [Conns -> 0..Len(tasks)]
  /\ boundReady \in [Conns -> 0..Len(loops)] /\ boundStop \in [Conns -> 0..Len(loops)]
  /\ tasks \in Seq(Task) /\ joins \in [DOMAIN tasks -> 0..Len(tasks)]
  /\ at \in [DOMAIN tasks -> Spots]
  /\ owner \in [DOMAIN tasks -> Managers \union {NoOne}]
  /\ op \in [Threads -> Calls]
  /\ on \in [Threads -> Conns] /\ awaits \in [Threads -> 0..Len(tasks)]
  /\ calls \in [Threads -> Seq(SUBSET Calls)]
  /\ trouble \in [Conns -> SUBSET Troubles]

Init ==
  /\ ManagerInit
  /\ connected = [c \in Conns |-> FALSE] /\ stop = connected /\ error = connected
  /\ session = [c \in Conns |-> 0] /\ stack = session /\ lifeTask = session
  /\ boundReady = session /\ boundStop = session
  /\ tasks = <<>> /\ at = <<>> /\ joins = <<>> /\ owner = <<>>
  /\ op = [t \in Threads |-> "look"] /\ on \in [Threads -> {CHOOSE c \in Conns : TRUE}]
  /\ awaits = [t \in Threads |-> 0] /\ calls \in Scripts
  /\ trouble = [c \in Conns |-> {}]

-----------------------------------------------------------------------------
(***************************************************************************)
(* What a thread calls.  connect() returns at once when is_connected,      *)
(* close() when not.  _get_manager reads _manager, registers a connection  *)
(* that has none with the default manager, and reads _manager again.       *)
(* get_connection looks its manager up and may create it.                  *)
(***************************************************************************)
Call(t, what) ==
  /\ pc[t] = "idle" /\ calls[t] # <<>> /\ what \in Head(calls[t])
  /\ calls' = [calls EXCEPT ![t] = Tail(@)]
  /\ op' = [op EXCEPT ![t] = what]
  /\ UNCHANGED <<connVars, taskVars, awaits>>

CallOn(t, c, what) ==
  /\ t \in Users[c] /\ Call(t, what) /\ on' = [on EXCEPT ![t] = c]
  /\ UNCHANGED <<registryVars, loopVars, doomed, trouble>>

Register(t, c, name) ==
  /\ CallOn(t, c, "register")
  /\ want' = [want EXCEPT ![t] = name] /\ Stay(t, "finding")

LookUp(t, c) ==
  /\ mapping[ConnName[c]] # NoOne /\ Call(t, "look")
  /\ want' = [want EXCEPT ![t] = mapping[ConnName[c]]] /\ Stay(t, "finding")
  /\ UNCHANGED <<registryVars, loopVars, doomed, on, trouble>>

Use(t, c, what) ==
  /\ what \in {"connect", "close", "request"} /\ CallOn(t, c, what)
  /\ what = "connect" => ~ connected[c]
  /\ what = "close" => connected[c]
  /\ Stay(t, "asking") /\ UNCHANGED want

Shutdown(t, m) ==
  /\ Call(t, "shutdown") /\ ShutdownBegins(t, m)
  /\ trouble' = [c \in Conns |-> IF managerOf[c] = m THEN trouble[c] \union {"shutDown"}
                                 ELSE trouble[c]]
  /\ UNCHANGED on

\* The mappings that go are those of a successor of the same name, too.
Drops(t) ==
  /\ Drop(t)
  /\ trouble' = [c \in Conns |-> IF ConnName[c] \in doomed[t] /\ mapping[ConnName[c]] # NoOne
                                 THEN trouble[c] \union {"unlisted"} ELSE trouble[c]]
  /\ UNCHANGED <<connVars, taskVars, callVars>>

\* The mapping changes while its items are read.
Shifts(t) ==
  /\ SiftRaises(t)
  /\ \/ \E u \in Threads : pc[u] = "writing" \/ (u # t /\ pc[u] = "dropping")
     \/ \E i \in DOMAIN tasks : at[i] = "unmapping"
  /\ UNCHANGED <<connVars, taskVars, callVars, trouble>>

\* A connection may be given to a manager that was shut down, or taken from another.
Owns(t) ==
  LET c == on[t]
      dead == IF via[t] \in shut THEN {"shutDown"} ELSE {}
      changed == IF managerOf[c] \in {NoOne, via[t]} THEN {} ELSE {"rehomed"}
  IN  /\ RegisterOwner(t, c)
      /\ IF op[t] = "register" THEN Leave(t) ELSE Stay(t, "taking")
      /\ trouble' = [trouble EXCEPT ![c] = @ \union dead \union changed]
      /\ UNCHANGED <<connVars, taskVars, callVars>>

Registers(t) ==
  /\ \/ op[t] # "look" /\ RegisterCheck(t, on[t])
     \/ RegisterName(t, on[t]) \/ RegisterEntry(t, on[t])
     \/ /\ op[t] = "look" /\ pc[t] = "found" /\ Leave(t)
        /\ UNCHANGED <<registryVars, loopVars, want, doomed>>
  /\ UNCHANGED <<connVars, taskVars, callVars, trouble>>

Ask(t) ==
  /\ pc[t] = "asking"
  /\ IF managerOf[on[t]] # NoOne
     THEN Stay(t, "taking") /\ UNCHANGED want
     ELSE Stay(t, "finding") /\ want' = [want EXCEPT ![t] = Default]
  /\ UNCHANGED <<registryVars, loopVars, doomed, connVars, taskVars, callVars, trouble>>

\* _manager is None again, or not the one it was registered with: None has no run_sync,
\* and the assertion fails.
Take(t) ==
  /\ pc[t] = "taking"
  /\ LET m == managerOf[on[t]]
     IN  IF m = NoOne \/ (via[t] # NoOne /\ via[t] # m)
         THEN Leave(t) ELSE Has(t, m) /\ GoOn(t, "loop")
  /\ UNCHANGED <<registryVars, loopVars, want, doomed, connVars, taskVars, callVars, trouble>>

NewTask(kind, c, l) ==
  /\ tasks' = Append(tasks, [kind |-> kind, conn |-> c, loop |-> l])
  /\ at' = Append(at, "ready") /\ joins' = Append(joins, 0) /\ owner' = Append(owner, NoOne)

KindOf(what) == CASE what = "connect" -> "setup" [] what = "close" -> "stop"
                  [] what = "request" -> "request"

\* run_sync: raise because the loop does not run (yet, or any more) ...
Check(t) ==
  /\ pc[t] = "submit"
  /\ IF Runs(loopOf[via[t]]) THEN Stay(t, "sending") ELSE Leave(t)
  /\ UNCHANGED <<registryVars, loopVars, want, doomed, connVars, taskVars, callVars, trouble>>

\* ... or submit to the loop there is now, which may be another one, None or closed.
Races(t) == Starting(via[t]) \/ ~ Runs(loopOf[via[t]])

Send(t) ==
  /\ pc[t] = "sending"
  /\ IF loopOf[via[t]] = 0 \/ loops[loopOf[via[t]]] = "stopped"
     THEN Leave(t) /\ UNCHANGED <<taskVars, awaits, trouble>>
     ELSE /\ NewTask(KindOf(op[t]), on[t], loopOf[via[t]])
          /\ awaits' = [awaits EXCEPT ![t] = Len(tasks')]
          /\ Stay(t, "waiting")
          /\ trouble' = IF Races(t) THEN [trouble EXCEPT ![on[t]] = @ \union {"raced"}]
                        ELSE trouble
  /\ UNCHANGED <<registryVars, loopVars, want, doomed, connVars, op, on, calls>>

Ends(t) ==
  /\ Leave(t) /\ awaits' = [awaits EXCEPT ![t] = 0]
  /\ UNCHANGED <<registryVars, loopVars, want, doomed, connVars, taskVars, op, on, calls>>

Returns(t) ==
  /\ pc[t] = "waiting" /\ at[awaits[t]] \in Over
  /\ Ends(t) /\ UNCHANGED trouble

\* What lasts longer than a turn of a loop: the server, closing a transport, and
\* whatever waits in a loop that does not run.
Slow(i) == at[i] \notin Over /\ (at[i] \in {"onReady", "joining", "calling"}
                                 \/ ~ Runs(tasks[i].loop))

\* Mutant: no time limit for closing.
TimesOutUnlessClosing(t) ==
  /\ MayTimeout /\ pc[t] = "waiting" /\ Slow(awaits[t]) /\ op[t] # "close"
  /\ trouble' = [trouble EXCEPT ![on[t]] = @ \union {"gaveUp"}]
  /\ Ends(t)

\* The caller gives up; the coroutine goes on in the loop.
TimesOut(t) ==
  /\ MayTimeout /\ pc[t] = "waiting" /\ Slow(awaits[t])
  /\ LET late == IF op[t] = "close" THEN {"lateClose"} ELSE {}
     IN  trouble' = [trouble EXCEPT ![on[t]] = @ \union {"gaveUp"} \union late]
  /\ Ends(t)

-----------------------------------------------------------------------------
(***************************************************************************)
(* What the tasks do in their loop, from one await to the next.            *)
(***************************************************************************)
\* The thread of a loop is in unregister_connection, where others may interfere.
Busy(l) == \E i \in DOMAIN tasks : tasks[i].loop = l /\ at[i] \in Unregistering

Turn(i, kind, place) ==
  /\ i \in DOMAIN tasks /\ tasks[i].kind = kind /\ at[i] = place
  /\ Runs(tasks[i].loop) /\ (Busy(tasks[i].loop) => place \in Unregistering)

\* Every waiter of an event is woken when it is set, even if it is cleared before
\* the waiter runs; awaiting it in another loop than the first time raises, and so does
\* setting it for a waiter whose loop is closed.
Waiting(j, c, kind, place) == tasks[j].conn = c /\ tasks[j].kind = kind /\ at[j] = place
Wakes(c, kind, place) ==
  [j \in DOMAIN tasks |-> IF Waiting(j, c, kind, place) THEN "woken" ELSE at[j]]
ForeignTo(bound, i) == bound[tasks[i].conn] \notin {0, tasks[i].loop}
Deaf(c, kind, place) ==
  \E j \in DOMAIN tasks : Waiting(j, c, kind, place) /\ loops[tasks[j].loop] = "stopped"

\* setup_and_wait: reset the events, start the lifecycle task, wait for it.
SetupStarts(i) ==
  /\ Turn(i, "setup", "ready")
  /\ LET c == tasks[i].conn
         now == IF ForeignTo(boundReady, i) THEN "raised" ELSE "onReady"
     IN  /\ stop' = [stop EXCEPT ![c] = FALSE] /\ error' = [error EXCEPT ![c] = FALSE]
         /\ tasks' = Append(tasks, [kind |-> "life", conn |-> c, loop |-> tasks[i].loop])
         /\ at' = Append([at EXCEPT ![i] = now], "ready")
         /\ joins' = Append(joins, 0) /\ owner' = Append(owner, NoOne)
         /\ lifeTask' = [lifeTask EXCEPT ![c] = Len(tasks')]
         /\ IF now = "raised"
            THEN trouble' = [trouble EXCEPT ![c] = @ \union {"moved"}] /\ UNCHANGED boundReady
            ELSE boundReady' = [boundReady EXCEPT ![c] = tasks[i].loop] /\ UNCHANGED trouble
  /\ UNCHANGED <<managerVars, connected, session, stack, boundStop, callVars>>

SetupEnds(i) ==
  /\ Turn(i, "setup", "woken")
  /\ at' = [at EXCEPT ![i] = IF error[tasks[i].conn] THEN "raised" ELSE "done"]
  /\ UNCHANGED <<managerVars, connVars, tasks, joins, owner, callVars, trouble>>

\* _lifecycle_task_coro: open an exit stack, connect, tell setup_and_wait.
LifeStarts(i) ==
  /\ Turn(i, "life", "ready")
  /\ stack' = [stack EXCEPT ![tasks[i].conn] = i]
  /\ at' = [at EXCEPT ![i] = "connecting"]
  /\ UNCHANGED <<managerVars, connected, session, lifeTask, stop, error, boundReady, boundStop,
                 tasks, joins, owner, callVars, trouble>>

\* Where the task is once it has told setup_and_wait and awaits the stop event.
AfterReady(i) ==
  LET c == tasks[i].conn
  IN  IF stop[c] \/ ForeignTo(boundStop, i) \/ Deaf(c, "setup", "onReady")
      THEN IF stack[c] = 0 THEN "done" ELSE "closing"
      ELSE "holding"

\* The server answers (works) or refuses; a failed attempt awaits the stop event too.
Connects(i, works) ==
  /\ Turn(i, "life", "connecting")
  /\ LET c == tasks[i].conn
         now == AfterReady(i)
     IN  /\ session' = [session EXCEPT ![c] = IF works /\ now # "done" THEN i ELSE 0]
         /\ connected' = [connected EXCEPT ![c] = works /\ now # "done"]
         /\ error' = [error EXCEPT ![c] = @ \/ ~ works]
         /\ at' = [Wakes(c, "setup", "onReady") EXCEPT ![i] = now]
         /\ boundStop' = IF now = "holding" THEN [boundStop EXCEPT ![c] = tasks[i].loop]
                         ELSE boundStop
         /\ trouble' = IF works THEN trouble ELSE [trouble EXCEPT ![c] = @ \union {"failed"}]
  /\ UNCHANGED <<managerVars, stack, lifeTask, stop, boundReady, tasks, joins, owner, callVars>>

\* Mutant: the connection still says it is connected.
LifeEndsConnected(i) ==
  LET c == tasks[i].conn
  IN  /\ session' = [session EXCEPT ![c] = 0]
      /\ at' = [at EXCEPT ![i] = "done"] /\ UNCHANGED connected

\* The `finally` of a task that was woken: close the exit stack, if there is one.
LifeEnds(i) ==
  LET c == tasks[i].conn
  IN  /\ session' = [session EXCEPT ![c] = 0]
      /\ connected' = [connected EXCEPT ![c] = FALSE]
      /\ at' = [at EXCEPT ![i] = "done"]

LifeWoken(i) ==
  /\ Turn(i, "life", "woken")
  /\ IF stack[tasks[i].conn] # 0
     THEN at' = [at EXCEPT ![i] = "closing"] /\ UNCHANGED <<session, connected>>
     ELSE LifeEnds(i)
  /\ UNCHANGED <<managerVars, stack, lifeTask, stop, error, boundReady, boundStop,
                 tasks, joins, owner, callVars, trouble>>

LifeCloses(i) ==
  /\ Turn(i, "life", "closing")
  /\ stack' = [stack EXCEPT ![tasks[i].conn] = 0]
  /\ LifeEnds(i)
  /\ UNCHANGED <<managerVars, lifeTask, stop, error, boundReady, boundStop,
                 tasks, joins, owner, callVars, trouble>>

\* aclose() raises what a transport raised, and nothing is reset.
LifeFails(i) ==
  /\ Turn(i, "life", "closing")
  /\ at' = [at EXCEPT ![i] = "raised"]
  /\ trouble' = [trouble EXCEPT ![tasks[i].conn] = @ \union {"unclosed"}]
  /\ UNCHANGED <<managerVars, connVars, tasks, joins, owner, callVars>>

\* Mutant: stop_and_wait does not wait for the lifecycle task.
StopWithoutWaiting(i) ==
  /\ Turn(i, "stop", "joining")
  /\ LET c == tasks[i].conn
     IN  /\ connected' = [connected EXCEPT ![c] = FALSE]
         /\ lifeTask' = [lifeTask EXCEPT ![c] = 0]
         /\ at' = [at EXCEPT ![i] = IF managerOf[c] = NoOne THEN "raised" ELSE "unlisting"]
         /\ owner' = [owner EXCEPT ![i] = managerOf[c]]
  /\ UNCHANGED <<managerVars, session, stack, stop, error, boundReady, boundStop,
                 tasks, joins, callVars, trouble>>

\* stop_and_wait: set the event, await the lifecycle task if there is one.
StopStarts(i) ==
  /\ Turn(i, "stop", "ready")
  /\ LET c == tasks[i].conn
         now == IF Deaf(c, "life", "holding") THEN "raised"
                ELSE IF lifeTask[c] = 0 THEN "done" ELSE "joining"
     IN  /\ stop' = [stop EXCEPT ![c] = TRUE]
         /\ at' = [Wakes(c, "life", "holding") EXCEPT ![i] = now]
         /\ joins' = [joins EXCEPT ![i] = lifeTask[c]]
  /\ UNCHANGED <<managerVars, connected, session, stack, lifeTask, error, boundReady, boundStop,
                 tasks, owner, callVars, trouble>>

\* A task of another loop cannot be awaited: that raises, is caught, and the connection
\* is unregistered although the task is not over.
StopEnds(i) ==
  /\ Turn(i, "stop", "joining")
  /\ at[joins[i]] \in Over \/ tasks[joins[i]].loop # tasks[i].loop
  /\ LET c == tasks[i].conn
     IN  /\ connected' = [connected EXCEPT ![c] = FALSE]
         /\ lifeTask' = [lifeTask EXCEPT ![c] = 0]
         /\ at' = [at EXCEPT ![i] = IF managerOf[c] = NoOne THEN "raised" ELSE "unlisting"]
         /\ owner' = [owner EXCEPT ![i] = managerOf[c]]
         /\ trouble' = IF at[joins[i]] \in Over THEN trouble
                       ELSE [trouble EXCEPT ![c] = @ \union {"left"}]
  /\ UNCHANGED <<managerVars, session, stack, stop, error, boundReady, boundStop,
                 tasks, joins, callVars>>

\* unregister_connection, one write after the other.
Unregisters(i) ==
  LET c == tasks[i].conn
  IN  /\ \/ /\ Turn(i, "stop", "unlisting") /\ UnregisterEntry(c, owner[i])
            /\ at' = [at EXCEPT ![i] = "unmapping"] /\ UNCHANGED owner
         \/ /\ Turn(i, "stop", "unmapping") /\ UnregisterName(c)
            /\ at' = [at EXCEPT ![i] = "disowning"] /\ UNCHANGED owner
         \/ /\ Turn(i, "stop", "disowning") /\ UnregisterOwner(c)
            /\ at' = [at EXCEPT ![i] = "done"] /\ owner' = [owner EXCEPT ![i] = NoOne]
      /\ UNCHANGED <<loopVars, pc, want, via, doomed, connVars, tasks, joins, callVars, trouble>>

\* The requests use the session in the loop they were submitted to.
Requests(i) ==
  /\ \/ /\ Turn(i, "request", "ready")
        /\ LET c == tasks[i].conn
           IN at' = [at EXCEPT ![i] = IF connected[c] /\ session[c] # 0 THEN "calling" ELSE "raised"]
     \/ Turn(i, "request", "calling") /\ at' = [at EXCEPT ![i] = "done"]
  /\ UNCHANGED <<managerVars, connVars, tasks, joins, owner, callVars, trouble>>

-----------------------------------------------------------------------------
Rest == UNCHANGED <<connVars, taskVars, callVars, trouble>>

ThreadStep(t) ==
  \/ /\ \/ Find(t) \/ Construct(t) \/ Assign(t) \/ Fetch(t)
        \/ EnsureLoop(t) \/ StartLoop(t)
        \/ StopsLoop(t) \/ Tell(t) \/ Joined(t) \/ Pop(t) \/ Sift(t)
     /\ Rest
  \/ Shifts(t) \/ Drops(t) \/ Registers(t) \/ Owns(t) \/ Ask(t) \/ Take(t)
  \/ Check(t) \/ Send(t) \/ Returns(t) \/ TimesOut(t)

Application(t) ==
  \/ \E c \in Conns : \/ \E n \in Names : Register(t, c, n)
                      \/ LookUp(t, c)
                      \/ \E what \in {"connect", "close", "request"} : Use(t, c, what)
  \/ \E m \in Managers : Shutdown(t, m)

LoopThreads ==
  /\ \/ \E m \in Managers : ThreadReads(m)
     \/ \E l \in DOMAIN loops : LoopRuns(l) \/ (~ Busy(l) /\ LoopStops(l))
  /\ Rest

TaskStep(i) ==
  \/ SetupStarts(i) \/ SetupEnds(i) \/ LifeStarts(i) \/ LifeWoken(i)
  \/ LifeCloses(i) \/ LifeFails(i)
  \/ StopStarts(i) \/ StopEnds(i) \/ Unregisters(i) \/ Requests(i)

Server == \E i \in DOMAIN tasks : Connects(i, TRUE) \/ Connects(i, FALSE)

Next ==
  \/ \E t \in Threads : ThreadStep(t) \/ Application(t)
  \/ LoopThreads \/ Server \/ \E i \in DOMAIN tasks : TaskStep(i)

Spec == Init /\ [][Next]_vars

\* Threads and loops run.  Nothing is promised of a server or the application,
\* whose calls are bounded: every run is finite, so one condition is enough.
Runtime ==
  \/ LoopThreads
  \/ \E t \in Threads : ThreadStep(t)
  \/ \E i \in DOMAIN tasks : TaskStep(i)

FairSpec == Spec /\ WF_vars(Runtime)

-----------------------------------------------------------------------------
\* "This ensures that the connection is created and closed within the same
\* Task" (_mcp_server_connection.py:199).
ClosedByOwner ==
  \A i \in DOMAIN tasks : tasks[i].kind = "life" /\ at[i] = "closing" => stack[tasks[i].conn] = i

\* ... which holds while no attempt to connect failed, none was made in another loop
\* than the first, no call timed out and no close() left a task of another loop behind: a
\* lifecycle task that is not over owns the exit stack.
Calm(c) == trouble[c] \intersect {"failed", "moved", "gaveUp", "left"} = {}

OwnStack ==
  \A i \in DOMAIN tasks : LET c == tasks[i].conn IN
    tasks[i].kind = "life" /\ at[i] \in {"connecting", "holding", "woken", "closing"}
      /\ Calm(c) => stack[c] = i

\* A session is used in the loop that made it, by connections one thread calls at a
\* time, of which no call timed out or met a loop just being replaced, none connected in
\* another loop before or was given to another manager, and no manager was shut down.
AtHome(c) == trouble[c] \subseteq {"failed", "unlisted", "unclosed"}

SessionInItsLoop ==
  \A i \in DOMAIN tasks : LET c == tasks[i].conn IN
    tasks[i].kind = "request" /\ at[i] = "ready" /\ connected[c] /\ session[c] # 0
      /\ AtHome(c) => tasks[session[c]].loop = tasks[i].loop

\* The session of a connection that says it is connected has a lifecycle task that is not
\* over and runs, in the loop of the manager the connection is registered with.
ConnectedIsAlive ==
  \A c \in Conns :
    connected[c] /\ trouble[c] \subseteq {"failed", "unlisted"} =>
      LET i == session[c]
          m == managerOf[c]
      IN  /\ i # 0 /\ tasks[i].kind = "life" /\ tasks[i].conn = c /\ at[i] \notin Over
          /\ m # NoOne /\ loopOf[m] = tasks[i].loop /\ loops[loopOf[m]] = "running"

\* The three registries agree on every connection nobody is just registering or taking
\* out, as long as no shutdown dropped its name and no close() of it timed out: one
\* without a manager is in none of them, the others are where their manager's name says.
Settled(c) ==
  /\ trouble[c] \intersect {"unlisted", "lateClose"} = {}
  /\ \A t \in Threads : on[t] = c => pc[t] \notin {"listing", "owning"}
  /\ \A i \in DOMAIN tasks : tasks[i].conn = c => at[i] \notin {"unmapping", "disowning"}

Lists(m, c) == conns[m][ConnName[c]] = c

RegistriesAgree ==
  \A c \in Conns : Settled(c) =>
    /\ mapping[ConnName[c]] = IF managerOf[c] = NoOne THEN NoOne ELSE NameOf[managerOf[c]]
    /\ \A m \in Managers : Lists(m, c) <=> m = managerOf[c]

\* "All registrations could not be changed later" (_mcp_server_connection.py:107): a
\* connection goes from one manager to another only after a shutdown dropped its name or
\* a close() of it timed out.
RegistrationStays ==
  \A c \in Conns : "rehomed" \in trouble[c] =>
    trouble[c] \intersect {"unlisted", "lateClose"} # {}

\* Every call ends, whatever the server, a shutdown or another call does.
CallsEnd == \A t \in Threads : (pc[t] # "idle") ~> (pc[t] = "idle")

-----------------------------------------------------------------------------
\* What a call does fits where it is: only connect, close and the requests get to the
\* loop.  A task runs in a loop that was made.
Looking == {"finding", "creating", "assigning", "fetching", "found"}
Writing == {"writing", "listing", "owning"}
Using == {"asking", "taking", "loop", "starting", "submit", "sending", "waiting"}
Underway == Looking \union Writing \union Using

CallsFit ==
  \A t \in Threads :
    /\ pc[t] \in Looking => op[t] # "shutdown"
    /\ pc[t] \in Writing => op[t] \notin {"shutdown", "look"}
    /\ pc[t] \in Using => op[t] \in {"connect", "close", "request"}

LoopsExist == \A i \in DOMAIN tasks : tasks[i].loop \in 1..Len(loops)

\* The inductive invariant: types, one manager per name, calls and tasks in their place.
IInv == TypeOK /\ RegistryInv /\ CallsFit /\ LoopsExist

\* Nobody else calls a connection, and no two have one name.
OneUser == \A c \in Conns : \A t, u \in Users[c] : t = u
DistinctNames == \A c, d \in Conns : ConnName[c] = ConnName[d] => c = d

\* A thread calls its own connections and waits for a task of its call; a coroutine that
\* is not over is waited for, unless its caller gave up.
CallersKnown ==
  \A t \in Threads :
    /\ pc[t] \in Underway /\ op[t] # "look" => t \in Users[on[t]]
    /\ pc[t] = "waiting" => LET i == awaits[t] IN
         i \in DOMAIN tasks /\ tasks[i].conn = on[t] /\ tasks[i].kind = KindOf(op[t])

Expected(i) ==
  LET c == tasks[i].conn
  IN  /\ tasks[i].kind # "life" /\ at[i] \notin Over
      /\ "gaveUp" \notin trouble[c] \/ (tasks[i].kind = "stop" /\ "lateClose" \notin trouble[c])

Attended ==
  \A i \in DOMAIN tasks : LET c == tasks[i].conn IN
    Expected(i) => \E t \in Users[c] : pc[t] = "waiting" /\ awaits[t] = i

\* Attempts to connect that are not answered yet: at most one, and it is waited for.
Living(c) == {i \in DOMAIN tasks : tasks[i].kind = "life" /\ tasks[i].conn = c /\ at[i] \notin Over}
Fetching(c) == {i \in Living(c) : at[i] \in {"ready", "connecting"}}

OneAttempt ==
  \A c \in Conns : trouble[c] \intersect {"moved", "gaveUp"} = {} =>
    /\ \A i, j \in Fetching(c) : i = j
    /\ Fetching(c) # {} =>
         \E j \in DOMAIN tasks : tasks[j].kind = "setup" /\ tasks[j].conn = c /\ at[j] = "onReady"

\* Who connects finds no lifecycle task that is not over; who closes waits for the one
\* there is, which owns the exit stack.
Attempting(t, c) ==
  /\ op[t] = "connect" /\ on[t] = c
  /\ pc[t] \in Underway \ {"waiting"} \/ (pc[t] = "waiting" /\ at[awaits[t]] = "ready")

OneLife ==
  \A c \in Conns : Calm(c) =>
    /\ \A i \in Living(c) : /\ lifeTask[c] = i
                            /\ at[i] # "ready" => stack[c] = i
                            /\ at[i] \notin {"ready", "connecting"} => connected[c]
    /\ \A t \in Users[c] : Attempting(t, c) => Living(c) = {}
    /\ \A k \in DOMAIN tasks : tasks[k].kind = "stop" /\ tasks[k].conn = c =>
         /\ at[k] = "joining" => Living(c) \subseteq {joins[k]}
         /\ at[k] \in Unregistering => Living(c) = {}

\* The session is that of a lifecycle task, and of one that is not over while the
\* connection says it is connected, unless closing it raised.
SessionsKnown ==
  \A c \in Conns :
    /\ session[c] # 0 => tasks[session[c]].kind = "life" /\ tasks[session[c]].conn = c
    /\ connected[c] => session[c] # 0
    /\ connected[c] /\ "unclosed" \notin trouble[c] => at[session[c]] \notin Over

\* A connection stays with its manager, and that with the loop of the first attempt, as
\* long as it is connected.
Serves(m, l) == loopOf[m] = l /\ loops[l] = "running" /\ ~ Starting(m)

InOneLoop ==
  \A c \in Conns : AtHome(c) =>
    /\ managerOf[c] \notin shut
    /\ \A t \in Users[c] : on[t] = c =>
         /\ pc[t] \in {"loop", "starting", "submit", "sending"} => managerOf[c] = via[t]
         /\ pc[t] = "waiting" /\ at[awaits[t]] \notin Over =>
              managerOf[c] = via[t] /\ Serves(via[t], tasks[awaits[t]].loop)
    /\ \A i \in DOMAIN tasks : tasks[i].conn = c =>
         /\ tasks[i].kind = "life" \/ (tasks[i].kind = "setup" /\ at[i] = "onReady")
              => tasks[i].loop = boundReady[c]
         /\ tasks[i].kind = "stop" /\ at[i] \in Unregistering => ~ connected[c]
    /\ connected[c] => managerOf[c] # NoOne /\ Serves(managerOf[c], boundReady[c])

\* The inductive invariant of connections that one thread each calls.
ConnInv ==
  /\ IInv /\ LoopsApart
  /\ CallersKnown /\ Attended /\ OneAttempt /\ OneLife
  /\ SessionsKnown /\ InOneLoop

\* How far a connection is in the registries, by the step of who writes them.
Apart(c) == managerOf[c] = NoOne /\ \A m \in Managers : ~ Lists(m, c)

RegistriesInv ==
  \A c \in Conns : trouble[c] \intersect {"unlisted", "lateClose"} = {} =>
    /\ \A t \in Users[c] : on[t] = c =>
         /\ pc[t] = "writing" => Apart(c) /\ mapping[ConnName[c]] = NoOne
         /\ pc[t] = "listing" => Apart(c) /\ mapping[ConnName[c]] = NameOf[via[t]]
         /\ pc[t] = "owning" => /\ managerOf[c] = NoOne /\ mapping[ConnName[c]] = NameOf[via[t]]
                                /\ \A m \in Managers : Lists(m, c) <=> m = via[t]
    /\ \A i \in DOMAIN tasks : tasks[i].conn = c =>
         /\ at[i] \in Unregistering => /\ tasks[i].kind = "stop"
                                       /\ owner[i] # NoOne /\ managerOf[c] = owner[i]
         /\ at[i] \in {"unmapping", "disowning"} => \A m \in Managers : ~ Lists(m, c)
         /\ at[i] = "unmapping" => mapping[ConnName[c]] = NameOf[owner[i]]
         /\ at[i] = "disowning" => mapping[ConnName[c]] = NoOne
=============================================================================
