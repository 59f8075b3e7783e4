------------------------ MODULE McpConnection_proofs ------------------------
(***************************************************************************)
(* MCP connections and their managers, for every number of threads,        *)
(* managers, connections and calls.  First RegistryInv (one manager per    *)
(* name), then the types and places of IInv, then the parts of ConnInv:    *)
(* who waits for which coroutine, that attempts to connect come one at a   *)
(* time, who owns the exit stack, in which loop a session is used; last    *)
(* RegistriesInv, that the three registries agree.                         *)
(***************************************************************************)
EXTENDS McpConnection, TLAPS

-----------------------------------------------------------------------------
(***************************************************************************)
(* One manager per name: RegistryInv.                                      *)
(***************************************************************************)
\* A thread goes on from place to place: none of these steps makes or registers a
\* manager, and only a thread that removes one goes on removing it.
LEMMA QuietStep ==
  ASSUME RegistryInv, NEW t \in Threads, NEW place \in Places \ {"assigning"},
         NEW m \in made \union {NoOne},
         place \notin NoneYet => m # NoOne,
         place \in Removal => Removing(t) /\ m = via[t],
         GoOn(t, place), Has(t, m), UNCHANGED <<made, instances, shut, again>>,
         want' \in [Threads -> Names], \A u \in Threads : u # t => want'[u] = want[u],
         mapping' \in [ConnNames -> Names \union {NoOne}],
         managerOf' \in [Conns -> made \union {NoOne}]
  PROVE  RegistryInv'
<1> USE DEF NoneYet, Removal
<1>1. /\ pc' \in [Threads -> Places] /\ via' \in [Threads -> made' \union {NoOne}]
      /\ pc'[t] = place /\ via'[t] = m
      /\ \A u \in Threads : u # t => pc'[u] = pc[u] /\ via'[u] = via[u]
  BY DEF RegistryInv, GoOn, Has
<1>2. \A u \in Threads : Removing(u)' => Removing(u) /\ via'[u] = via[u]
  BY <1>1 DEF Removing, Removal
<1>3. \A n \in made : Registered(n)' => Registered(n)
  BY <1>2 DEF Registered
<1>4. \A n \in Names : ShutOnce(n)' <=> ShutOnce(n)
  BY DEF ShutOnce
<1>5. \A u \in Threads : pc'[u] \notin NoneYet => via'[u] # NoOne
  BY <1>1 DEF RegistryInv
<1>6. \A u \in Threads : pc'[u] = "assigning" => NameOf[via'[u]] = want'[u]
  BY <1>1 DEF RegistryInv
<1>7. /\ \A u \in Threads : Removing(u)' => via'[u] \in shut'
      /\ \A u, v \in Threads :
           Removing(u)' /\ Removing(v)' /\ via'[u] = via'[v] /\ via'[u] \notin again' => u = v
  BY <1>2 DEF RegistryInv
<1>8. \A x \in made : NameOf[x] \in Names
  BY ManagerAssumption DEF RegistryInv
<1>9. \A x, y \in made' :
        Registered(x)' /\ Registered(y)' /\ NameOf[x] = NameOf[y] /\ ShutOnce(NameOf[x])' => x = y
  BY <1>3, <1>4, <1>8 DEF RegistryInv
<1>10. \A x \in made' : Registered(x)' /\ ShutOnce(NameOf[x])' => instances'[NameOf[x]] # NoOne
  BY <1>3, <1>4, <1>8 DEF RegistryInv
<1> HIDE DEF Removal
<1> QED BY <1>1, <1>5, <1>6, <1>7, <1>9, <1>10 DEF RegistryInv

\* The steps of the tasks and loops: no thread of the application moves.
LEMMA LoopStep ==
  ASSUME RegistryInv, UNCHANGED <<made, instances, shut, again, pc, want, via>>,
         mapping' \in [ConnNames -> Names \union {NoOne}],
         managerOf' \in [Conns -> made \union {NoOne}]
  PROVE  RegistryInv'
<1>1. \A t \in Threads : Removing(t)' <=> Removing(t)
  BY DEF Removing, Removal
<1>2. \A m \in made : Registered(m)' <=> Registered(m)
  BY DEF Registered, Removing
<1>3. \A m \in made : ShutOnce(NameOf[m])' <=> ShutOnce(NameOf[m])
  BY DEF ShutOnce
<1> QED BY <1>1, <1>2, <1>3 DEF RegistryInv

\* The constructor finds the name free, so no manager registered has it.
LEMMA ConstructKeeps ==
  ASSUME RegistryInv, NEW t \in Threads, Construct(t)
  PROVE  RegistryInv'
<1> USE ManagerAssumption DEF NoneYet
<1>1. pc[t] = "creating" /\ ~ Removing(t) /\ want[t] \in Names
  BY DEF Construct, Removing, Removal, RegistryInv
<1>2. CASE Leave(t) /\ UNCHANGED <<made, instances>>
  <2>1. /\ GoOn(t, "idle") /\ Has(t, NoOne)
        /\ UNCHANGED <<made, instances, shut, again, mapping, managerOf, want>>
    BY <1>2 DEF Construct, Leave
  <2>2. "idle" \in Places \ {"assigning"} /\ "idle" \in NoneYet /\ "idle" \notin Removal
    BY DEF Places, NoneYet, Removal
  <2> QED BY <2>1, <2>2, QuietStep DEF RegistryInv
<1>3. CASE instances[want[t]] = NoOne /\ ~ (Leave(t) /\ UNCHANGED <<made, instances>>)
  <2>1. PICK m \in Fresh(want[t]) :
          /\ made' = made \union {m}
          /\ instances' = [instances EXCEPT ![want[t]] = m]
          /\ Has(t, m) /\ GoOn(t, "assigning")
    BY <1>3 DEF Construct
  <2>2. m \in Managers /\ m \notin made /\ NameOf[m] = want[t] /\ m # NoOne
    BY <2>1 DEF Fresh
  <2>3. UNCHANGED <<mapping, managerOf, shut, again, want>>
    BY DEF Construct
  <2>4. /\ pc'[t] = "assigning" /\ via'[t] = m
        /\ \A u \in Threads : u # t => pc'[u] = pc[u] /\ via'[u] = via[u]
        /\ pc' \in [Threads -> Places] /\ via' \in [Threads -> made' \union {NoOne}]
    BY <2>1 DEF RegistryInv, GoOn, Has, Places
  <2>5. \A u \in Threads : Removing(u)' <=> Removing(u) /\ u # t
    BY <1>1, <2>4 DEF Removing, Removal
  <2>6. \A n \in made : Registered(n)' <=> Registered(n)
    BY <1>1, <2>3, <2>4, <2>5 DEF Registered
  <2>7. \A n \in Names : ShutOnce(n)' <=> ShutOnce(n)
    BY <2>3 DEF ShutOnce
  <2>8. \A n \in made : Registered(n) /\ ShutOnce(NameOf[n]) => NameOf[n] # want[t]
    BY <1>3 DEF RegistryInv
  <2>9. /\ made' \subseteq Managers /\ shut' \subseteq made' /\ again' \subseteq shut'
        /\ instances' \in [Names -> made' \union {NoOne}]
        /\ mapping' \in [ConnNames -> Names \union {NoOne}]
        /\ managerOf' \in [Conns -> made' \union {NoOne}]
        /\ want' \in [Threads -> Names]
    BY <2>1, <2>2, <2>3 DEF RegistryInv
  <2>10. /\ \A u \in Threads :
              pc'[u] \notin NoneYet => via'[u] # NoOne
         /\ \A n \in Names : instances'[n] # NoOne => NameOf[instances'[n]] = n
         /\ \A u \in Threads : pc'[u] = "assigning" => NameOf[via'[u]] = want'[u]
    BY <1>1, <2>1, <2>2, <2>3, <2>4 DEF RegistryInv
  <2>11. /\ \A u \in Threads : Removing(u)' => via'[u] \in shut'
         /\ \A u, v \in Threads :
              Removing(u)' /\ Removing(v)' /\ via'[u] = via'[v] /\ via'[u] \notin again' => u = v
    BY <2>3, <2>4, <2>5 DEF RegistryInv
  <2>12. \A x \in made' : NameOf[x] \in Names
    BY <2>9
  <2>13. \A x, y \in made' :
           Registered(x)' /\ Registered(y)' /\ NameOf[x] = NameOf[y] /\ ShutOnce(NameOf[x])' => x = y
    BY <2>1, <2>2, <2>6, <2>7, <2>8, <2>12 DEF RegistryInv
  <2>14. \A x \in made' : Registered(x)' /\ ShutOnce(NameOf[x])' => instances'[NameOf[x]] # NoOne
    BY <1>1, <2>1, <2>2, <2>6, <2>7, <2>12 DEF RegistryInv
  <2> QED BY <2>4, <2>9, <2>10, <2>11, <2>13, <2>14 DEF RegistryInv
<1> QED BY <1>2, <1>3 DEF Construct

\* Storing a manager once more only ever fills a place of the registry.
LEMMA AssignKeeps ==
  ASSUME RegistryInv, NEW t \in Threads, Assign(t)
  PROVE  RegistryInv'
<1>1. pc[t] = "assigning" /\ via[t] \in made /\ want[t] \in Names /\ NameOf[via[t]] = want[t]
  BY DEF Assign, RegistryInv, NoneYet
<1>2. UNCHANGED <<made, mapping, managerOf, shut, again, want, via>>
  BY DEF Assign, Stay
<1>3. instances' = [instances EXCEPT ![want[t]] = via[t]] /\ via[t] # NoOne
  BY <1>1 DEF Assign, RegistryInv, NoneYet
<1>4. /\ pc'[t] = "fetching" /\ pc' \in [Threads -> Places]
      /\ \A u \in Threads : u # t => pc'[u] = pc[u]
  BY DEF Assign, Stay, GoOn, RegistryInv, Places
<1>5. \A u \in Threads : Removing(u)' <=> Removing(u)
  BY <1>1, <1>4 DEF Removing, Removal
<1>6. \A m \in made : /\ Registered(m)' <=> Registered(m)
                      /\ ShutOnce(NameOf[m])' <=> ShutOnce(NameOf[m])
  BY <1>2, <1>5 DEF Registered, ShutOnce
<1>7. /\ instances' \in [Names -> made' \union {NoOne}]
      /\ \A n \in Names : instances'[n] # NoOne => NameOf[instances'[n]] = n
  BY <1>1, <1>2, <1>3 DEF RegistryInv
<1>8. /\ \A u \in Threads :
           pc'[u] \notin NoneYet => via'[u] # NoOne
      /\ \A u \in Threads : pc'[u] = "assigning" => NameOf[via'[u]] = want'[u]
  BY <1>2, <1>4 DEF RegistryInv, NoneYet
<1>9. \A x \in made' : Registered(x)' /\ ShutOnce(NameOf[x])' => instances'[NameOf[x]] # NoOne
  BY <1>2, <1>3, <1>6, ManagerAssumption DEF RegistryInv
<1> QED BY <1>2, <1>4, <1>5, <1>6, <1>7, <1>8, <1>9 DEF RegistryInv

\* The thread that shuts a manager down becomes one that removes it: the only one, or
\* the manager is shut down again.
LEMMA ShutdownKeeps ==
  ASSUME RegistryInv, NEW t \in Threads, NEW m \in Managers, ShutdownBegins(t, m)
  PROVE  RegistryInv'
<1> USE ManagerAssumption DEF NoneYet
<1>1. pc[t] = "idle" /\ ~ Removing(t) /\ m \in made /\ m # NoOne
  BY DEF ShutdownBegins, Removing, Removal
<1>2. /\ UNCHANGED <<made, instances, mapping, managerOf, want>> /\ shut' = shut \union {m}
      /\ again' = IF m \in shut THEN again \union {m} ELSE again
  BY DEF ShutdownBegins
<1>3. /\ pc'[t] = "stopping" /\ via'[t] = m
      /\ pc' \in [Threads -> Places] /\ via' \in [Threads -> made' \union {NoOne}]
      /\ \A u \in Threads : u # t => pc'[u] = pc[u] /\ via'[u] = via[u]
  BY <1>1, <1>2 DEF ShutdownBegins, GoOn, Has, RegistryInv, Places
<1>4. \A u \in Threads : Removing(u)' <=> Removing(u) \/ u = t
  BY <1>3 DEF Removing, Removal
<1>5. \A u \in Threads : Removing(u) => via[u] \in shut /\ u # t
  BY <1>1 DEF RegistryInv
<1>6. \A n \in made : ShutOnce(NameOf[n])' => ShutOnce(NameOf[n])
  BY <1>2 DEF ShutOnce
<1>7. \A n \in made : Registered(n)' /\ ShutOnce(NameOf[n])' => Registered(n)
  <2> SUFFICES ASSUME NEW n \in made, Registered(n)', ShutOnce(NameOf[n])', n \in shut
               PROVE  \E u \in Threads : Removing(u) /\ via[u] = n
    BY DEF Registered
  <2>1. PICK u \in Threads : Removing(u)' /\ via'[u] = n
    BY <1>2 DEF Registered
  <2>2. n # m
    BY <1>2 DEF ShutOnce
  <2> QED BY <1>3, <1>4, <2>1, <2>2
<1>8. \A u \in Threads :
        pc'[u] \notin NoneYet => via'[u] # NoOne
  BY <1>1, <1>3 DEF RegistryInv
<1>9. /\ \A u \in Threads : Removing(u)' => via'[u] \in shut'
      /\ \A u \in Threads : pc'[u] = "assigning" => NameOf[via'[u]] = want'[u]
  BY <1>2, <1>3, <1>4, <1>5 DEF RegistryInv
<1>10. \A u, v \in Threads :
         Removing(u)' /\ Removing(v)' /\ via'[u] = via'[v] /\ via'[u] \notin again' => u = v
  <2> SUFFICES ASSUME NEW u \in Threads, NEW v \in Threads,
                      Removing(u)', Removing(v)', via'[u] = via'[v], via'[u] \notin again', u # v
               PROVE  FALSE
    OBVIOUS
  <2>1. again \subseteq again' /\ (m \in shut => m \in again')
    BY <1>2
  <2> QED BY <1>3, <1>4, <1>5, <2>1 DEF RegistryInv
<1>11. made' \subseteq Managers /\ shut' \subseteq made' /\ again' \subseteq shut'
  BY <1>1, <1>2 DEF RegistryInv
<1>12. \A x, y \in made' :
         Registered(x)' /\ Registered(y)' /\ NameOf[x] = NameOf[y] /\ ShutOnce(NameOf[x])' => x = y
  BY <1>2, <1>6, <1>7 DEF RegistryInv
<1>13. \A x \in made' : Registered(x)' /\ ShutOnce(NameOf[x])' => instances'[NameOf[x]] # NoOne
  BY <1>2, <1>6, <1>7 DEF RegistryInv
<1> QED BY <1>2, <1>3, <1>8, <1>9, <1>10, <1>11, <1>12, <1>13 DEF RegistryInv

\* Popped: it was the only registered manager of its name, unless one was shut down again.
LEMMA PopKeeps ==
  ASSUME RegistryInv, NEW t \in Threads, Pop(t)
  PROVE  RegistryInv'
<1> DEFINE m == via[t]
<1>1. pc[t] = "popping" /\ Removing(t)
  BY DEF Pop, Removing, Removal
<1>2. m \in made /\ m \in shut /\ Registered(m)
  BY <1>1 DEF RegistryInv, Registered
<1>3. /\ UNCHANGED <<made, mapping, managerOf, shut, again, want, via>>
      /\ instances' = [instances EXCEPT ![NameOf[m]] = NoOne]
  BY DEF Pop, Stay
<1>4. /\ pc'[t] = "sifting" /\ pc' \in [Threads -> Places]
      /\ \A u \in Threads : u # t => pc'[u] = pc[u]
  BY DEF Pop, Stay, GoOn, RegistryInv, Places
<1>5. \A u \in Threads : Removing(u)' <=> Removing(u) /\ u # t
  BY <1>4 DEF Removing, Removal
<1>6. \A n \in made : ShutOnce(NameOf[n])' <=> ShutOnce(NameOf[n])
  BY <1>3 DEF ShutOnce
<1>7. ShutOnce(NameOf[m]) => ~ Registered(m)'
  <2> SUFFICES ASSUME ShutOnce(NameOf[m]), Registered(m)' PROVE FALSE
    OBVIOUS
  <2>1. m \notin again
    BY DEF ShutOnce
  <2>2. PICK u \in Threads : Removing(u)' /\ via'[u] = m
    BY <1>2, <1>3 DEF Registered
  <2> QED BY <1>1, <1>3, <1>5, <2>1, <2>2 DEF RegistryInv
<1>8. \A n \in made : Registered(n)' => Registered(n)
  BY <1>3, <1>5 DEF Registered
<1>9. \A n \in made : Registered(n)' /\ ShutOnce(NameOf[n]) => NameOf[n] # NameOf[m]
  BY <1>2, <1>3, <1>7, <1>8 DEF RegistryInv
<1>10. /\ instances' \in [Names -> made' \union {NoOne}]
       /\ \A n \in Names : instances'[n] # NoOne => NameOf[instances'[n]] = n
  BY <1>3 DEF RegistryInv
<1>11. \A n \in made' : Registered(n)' /\ ShutOnce(NameOf[n])' => instances'[NameOf[n]] # NoOne
  BY <1>3, <1>6, <1>8, <1>9, ManagerAssumption DEF RegistryInv
<1>12. /\ \A u \in Threads :
            pc'[u] \notin NoneYet => via'[u] # NoOne
       /\ \A u \in Threads : pc'[u] = "assigning" => NameOf[via'[u]] = want'[u]
  BY <1>1, <1>3, <1>4 DEF RegistryInv, NoneYet
<1> QED BY <1>3, <1>4, <1>5, <1>6, <1>8, <1>10, <1>11, <1>12 DEF RegistryInv

-----------------------------------------------------------------------------
\* The quiet steps, one lemma for the threads and one for the tasks.
LEMMA StaysOrLeaves ==
  ASSUME RegistryInv, NEW t \in Threads, NEW place \in Places \ {"assigning"},
         Leave(t) \/ Stay(t, place),
         place \notin NoneYet => pc[t] \notin NoneYet, place \in Removal => Removing(t),
         UNCHANGED <<made, instances, shut, again, want>>,
         mapping' \in [ConnNames -> Names \union {NoOne}],
         managerOf' \in [Conns -> made \union {NoOne}]
  PROVE  RegistryInv'
<1>1. via[t] \in made \union {NoOne} /\ want' \in [Threads -> Names]
  BY DEF RegistryInv
<1>2. CASE Leave(t)
  <2>1. "idle" \in Places \ {"assigning"} /\ "idle" \in NoneYet /\ "idle" \notin Removal
    BY DEF Places, NoneYet, Removal
  <2> QED BY <1>1, <1>2, <2>1, QuietStep DEF Leave
<1>3. CASE Stay(t, place)
  <2>1. GoOn(t, place) /\ Has(t, via[t])
    BY <1>3 DEF Stay, Has, RegistryInv
  <2>2. place \notin NoneYet => via[t] # NoOne
    BY DEF RegistryInv
  <2> QED BY <1>1, <2>1, <2>2, QuietStep
<1> QED BY <1>2, <1>3

LEMMA ThreadKeeps ==
  ASSUME RegistryInv, on \in [Threads -> Conns], NEW t \in Threads, ThreadStep(t)
  PROVE  RegistryInv'
<1> USE ManagerAssumption
<1> DEFINE Same == UNCHANGED <<made, instances, shut, again, mapping, managerOf, want>>
<1>1. ASSUME NEW p \in Places \ {"assigning"}, Leave(t) \/ Stay(t, p),
             p \notin NoneYet => pc[t] \notin NoneYet, p \in Removal => Removing(t), Same
      PROVE  RegistryInv'
  BY <1>1, StaysOrLeaves DEF RegistryInv
<1> USE DEF NoneYet, Removal, Removing, Places, registryVars
<1>2. CASE Find(t)
  BY <1>1, <1>2 DEF Find
<1>3. CASE Fetch(t)
  <2>1. Same /\ pc[t] = "fetching"
    BY <1>3 DEF Fetch
  <2>2. CASE Leave(t)
    BY <1>1, <2>1, <2>2
  <2>3. CASE instances[want[t]] # NoOne /\ Has(t, instances[want[t]]) /\ GoOn(t, "found")
    <3>1. instances[want[t]] \in made \union {NoOne}
      BY DEF RegistryInv
    <3> QED BY <2>1, <2>3, <3>1, QuietStep DEF RegistryInv
  <2> QED BY <1>3, <2>2, <2>3 DEF Fetch
<1>4. CASE EnsureLoop(t)
  BY <1>1, <1>4 DEF EnsureLoop
<1>5. CASE StartLoop(t) \/ StopsLoop(t) \/ Joined(t) \/ Sift(t) \/ Shifts(t)
  BY <1>1, <1>5 DEF StartLoop, StopsLoop, Joined, Sift, Shifts, SiftRaises
<1>6. CASE Tell(t)
  BY <1>1, <1>6 DEF Tell
<1>7. CASE Drops(t)
  <2>1. Leave(t) /\ UNCHANGED <<made, instances, shut, again, managerOf, want>> /\ pc[t] = "dropping"
    BY <1>7 DEF Drops, Drop
  <2>2. mapping' \in [ConnNames -> Names \union {NoOne}] /\ managerOf' \in [Conns -> made \union {NoOne}]
    BY <1>7 DEF Drops, Drop, RegistryInv
  <2> QED BY <2>1, <2>2, StaysOrLeaves
<1>8. CASE Registers(t)
  <2>1. CASE RegisterCheck(t, on[t]) \/ RegisterEntry(t, on[t])
    BY <1>1, <2>1 DEF RegisterCheck, RegisterEntry
  <2>2. CASE RegisterName(t, on[t])
    <3>1. Stay(t, "listing") /\ pc[t] = "writing" /\ UNCHANGED <<made, instances, shut, again, managerOf, want>>
      BY <2>2 DEF RegisterName
    <3>2. NameOf[via[t]] \in Names
      BY <3>1 DEF RegistryInv
    <3>3. mapping' \in [ConnNames -> Names \union {NoOne}] /\ managerOf' \in [Conns -> made \union {NoOne}]
      BY <2>2, <3>1, <3>2 DEF RegisterName, RegistryInv
    <3> QED BY <3>1, <3>3, StaysOrLeaves
  <2>3. CASE pc[t] = "found" /\ Leave(t) /\ UNCHANGED <<registryVars, loopVars, want, doomed>>
    BY <1>1, <2>3
  <2> QED BY <1>8, <2>1, <2>2, <2>3 DEF Registers
<1>9. CASE Owns(t)
  <2>1. /\ Leave(t) \/ Stay(t, "taking") 
        /\ pc[t] = "owning" /\ UNCHANGED <<made, instances, shut, again, mapping, want>>
        /\ managerOf' = [managerOf EXCEPT ![on[t]] = via[t]]
    BY <1>9 DEF Owns, RegisterOwner
  <2>2. mapping' \in [ConnNames -> Names \union {NoOne}] /\ managerOf' \in [Conns -> made \union {NoOne}]
    BY <2>1 DEF RegistryInv
  <2> QED BY <2>1, <2>2, StaysOrLeaves
<1>10. CASE Ask(t)
  <2>1. /\ Stay(t, "taking") \/ Stay(t, "finding")
        /\ pc[t] = "asking" /\ UNCHANGED <<made, instances, shut, again, mapping, managerOf>>
        /\ want' = want \/ want' = [want EXCEPT ![t] = Default]
    BY <1>10 DEF Ask
  <2>2. want' \in [Threads -> Names] /\ \A u \in Threads : u # t => want'[u] = want[u]
    BY <2>1 DEF RegistryInv
  <2>3. Has(t, via[t]) /\ via[t] \in made \union {NoOne}
    BY <2>1 DEF Stay, Has, RegistryInv
  <2>4. GoOn(t, "taking") \/ GoOn(t, "finding")
    BY <2>1 DEF Stay
  <2> QED BY <2>1, <2>2, <2>3, <2>4, QuietStep DEF RegistryInv
<1>11. CASE Take(t)
  <2>1. Same /\ pc[t] = "taking"
    BY <1>11 DEF Take
  <2>2. CASE Leave(t)
    BY <1>1, <2>1, <2>2
  <2>3. CASE managerOf[on[t]] # NoOne /\ Has(t, managerOf[on[t]]) /\ GoOn(t, "loop")
    <3>1. managerOf[on[t]] \in made \union {NoOne}
      BY DEF RegistryInv
    <3> QED BY <2>1, <2>3, <3>1, QuietStep DEF RegistryInv
  <2> QED BY <1>11, <2>2, <2>3 DEF Take
<1>12. CASE Check(t) \/ Send(t)
  BY <1>1, <1>12 DEF Check, Send
<1>13. CASE Returns(t) \/ TimesOut(t)
  BY <1>1, <1>13 DEF Returns, TimesOut, Ends
<1> QED BY <1>2, <1>3, <1>4, <1>5, <1>6, <1>7, <1>8, <1>9, <1>10, <1>11, <1>12, <1>13,
           ConstructKeeps, AssignKeeps, PopKeeps DEF ThreadStep

\* What the application calls.
LEMMA ApplicationKeeps ==
  ASSUME RegistryInv, NEW t \in Threads, Application(t)
  PROVE  RegistryInv'
<1> USE ManagerAssumption
<1>1. ASSUME Stay(t, "finding") \/ Stay(t, "asking"), pc[t] = "idle", NEW n \in Names,
             want' \in {want, [want EXCEPT ![t] = n]},
             UNCHANGED <<made, instances, shut, again, mapping, managerOf>>
      PROVE  RegistryInv'
  <2>1. via[t] \in made \union {NoOne} /\ Has(t, via[t]) /\ (GoOn(t, "finding") \/ GoOn(t, "asking"))
    BY <1>1 DEF Stay, Has, RegistryInv
  <2>2. want' \in [Threads -> Names] /\ \A u \in Threads : u # t => want'[u] = want[u]
    BY <1>1 DEF RegistryInv
  <2>3. \A p \in {"finding", "asking"} : p \in Places \ {"assigning"} /\ p \in NoneYet /\ p \notin Removal
    BY DEF Places, NoneYet, Removal
  <2> QED BY <1>1, <2>1, <2>2, <2>3, QuietStep DEF RegistryInv
<1>2. CASE \E c \in Conns : \E n \in Names : Register(t, c, n)
  BY <1>1, <1>2 DEF Register, CallOn, Call, registryVars
<1>3. CASE \E c \in Conns : LookUp(t, c)
  <2>1. PICK c \in Conns : LookUp(t, c)
    BY <1>3
  <2>2. mapping[ConnName[c]] \in Names
    BY <2>1 DEF LookUp, RegistryInv
  <2> QED BY <1>1, <2>1, <2>2 DEF LookUp, Call, registryVars
<1>4. CASE \E c \in Conns : \E what \in {"connect", "close", "request"} : Use(t, c, what)
  BY <1>1, <1>4 DEF Use, CallOn, Call, registryVars
<1>5. CASE \E m \in Managers : Shutdown(t, m)
  BY <1>5, ShutdownKeeps DEF Shutdown
<1> QED BY <1>2, <1>3, <1>4, <1>5 DEF Application

\* The loops' threads, the tasks and the server: only stop_and_wait touches the
\* registries, to unregister its connection.
LEMMA LoopsKeep ==
  ASSUME RegistryInv, LoopThreads \/ Server \/ \E i \in DOMAIN tasks : TaskStep(i)
  PROVE  RegistryInv'
<1>1. CASE LoopThreads
  BY <1>1, LoopStep DEF LoopThreads, ThreadReads, LoopRuns, LoopStops, Becomes, registryVars,
                        RegistryInv
<1>2. CASE Server
  BY <1>2, LoopStep DEF Server, Connects, managerVars, registryVars, RegistryInv
<1>3. CASE \E i \in DOMAIN tasks : TaskStep(i)
  <2>1. PICK i \in DOMAIN tasks : TaskStep(i)
    BY <1>3
  <2>2. CASE ~ Unregisters(i)
    <3>1. UNCHANGED managerVars
      BY <2>1, <2>2 DEF TaskStep, SetupStarts, SetupEnds, LifeStarts, LifeWoken, LifeCloses,
                        LifeFails, StopStarts, StopEnds, Requests
    <3> QED BY <3>1, LoopStep DEF managerVars, registryVars, RegistryInv
  <2>3. CASE Unregisters(i)
    <3>1. UNCHANGED <<made, instances, shut, again, pc, want, via>>
      BY <2>3 DEF Unregisters, UnregisterEntry, UnregisterName, UnregisterOwner
    <3>2. /\ mapping' \in [ConnNames -> Names \union {NoOne}]
          /\ managerOf' \in [Conns -> made \union {NoOne}]
      BY <2>3 DEF Unregisters, UnregisterEntry, UnregisterName, UnregisterOwner, RegistryInv
    <3> QED BY <3>1, <3>2, LoopStep
  <2> QED BY <2>2, <2>3
<1> QED BY <1>1, <1>2, <1>3

\* A thread calls a connection there is.
LEMMA OnKeeps ==
  ASSUME on \in [Threads -> Conns], [Next]_vars
  PROVE  on' \in [Threads -> Conns]
<1>1. UNCHANGED on \/ \E t \in Threads, c \in Conns : on' = [on EXCEPT ![t] = c]
  <2>1. ASSUME NEW t \in Threads, ThreadStep(t) PROVE UNCHANGED on
    BY <2>1 DEF ThreadStep, Rest, callVars, Shifts, Drops, Registers, Owns, Ask, Take, Check, Send,
                Returns, TimesOut, Ends
  <2>2. ASSUME NEW t \in Threads, Application(t)
        PROVE  UNCHANGED on \/ \E c \in Conns : on' = [on EXCEPT ![t] = c]
    BY <2>2 DEF Application, Register, LookUp, Use, Shutdown, CallOn
  <2>3. LoopThreads \/ Server => UNCHANGED on
    BY DEF LoopThreads, Rest, callVars, Server, Connects
  <2>4. ASSUME NEW i \in DOMAIN tasks, TaskStep(i) PROVE UNCHANGED on
    BY <2>4 DEF TaskStep, SetupStarts, SetupEnds, LifeStarts, LifeWoken, LifeCloses, LifeFails,
                StopStarts, StopEnds, Unregisters, Requests, callVars
  <2>5. UNCHANGED vars => UNCHANGED on
    BY DEF vars, callVars
  <2> QED BY <2>1, <2>2, <2>3, <2>4, <2>5 DEF Next
<1> QED BY <1>1

\* Every step keeps the registries' invariant.
LEMMA RegistryKeeps ==
  ASSUME RegistryInv, on \in [Threads -> Conns], [Next]_vars
  PROVE  RegistryInv'
<1>1. CASE Next
  BY <1>1, ThreadKeeps, ApplicationKeeps, LoopsKeep DEF Next
<1>2. CASE UNCHANGED vars
  BY <1>2, LoopStep DEF vars, managerVars, registryVars, RegistryInv
<1> QED BY <1>1, <1>2

\* RegistryInv holds for every number of threads, managers and connections: what
\* _mcp_server_connection_manager.py does with its registries without a common lock.
\* What is stored under a name bears it, and of the managers of a name that nobody shut
\* down twice only one is registered.
THEOREM RegistryInvariance == Spec => []RegistryInv
<1>1. Init => RegistryInv /\ on \in [Threads -> Conns]
  BY ManagerAssumption, ConnectionAssumption
     DEF Init, ManagerInit, RegistryInv, Removing, Removal, NoneYet, Registered, ShutOnce, Places
<1>2. RegistryInv /\ on \in [Threads -> Conns] /\ [Next]_vars => (RegistryInv /\ on \in [Threads -> Conns])'
  BY RegistryKeeps, OnKeeps
<1> QED BY <1>1, <1>2, PTL DEF Spec

\* Two threads that ask for one manager at the same time do not end up with two: of
\* the managers of a name none of which shutdown() was called on twice, at most one is not
\* shut down (get_instance and the constructor's check, _mcp_server_connection_manager.py).
THEOREM AlwaysOneManagerPerName == Spec => []OneManagerPerName
<1>1. RegistryInv => OneManagerPerName
  BY DEF RegistryInv, OneManagerPerName, Registered
<1> QED BY <1>1, RegistryInvariance, PTL

-----------------------------------------------------------------------------
(***************************************************************************)
(* The types, and what the loops and tasks need of each other: IInv.       *)
(***************************************************************************)
LoopStates == {"created", "booting", "running", "stopping", "stopped"}

LoopsTyped ==
  /\ conns \in [Managers -> [ConnNames -> Conns \union {NoOne}]]
  /\ loopOf \in [Managers -> Nat] /\ readers \in [Managers -> Nat]
  /\ loops \in Seq(LoopStates)
  /\ \A m \in Managers : loopOf[m] \in 0..Len(loops)
  /\ doomed \in [Threads -> SUBSET ConnNames]

TasksTyped ==
  /\ tasks \in Seq(Task) /\ joins \in [DOMAIN tasks -> 0..Len(tasks)]
  /\ at \in [DOMAIN tasks -> Spots] /\ owner \in [DOMAIN tasks -> Managers \union {NoOne}]

RefsTyped ==
  /\ connected \in [Conns -> BOOLEAN] /\ stop \in [Conns -> BOOLEAN]
  /\ error \in [Conns -> BOOLEAN]
  /\ session \in [Conns -> 0..Len(tasks)] /\ stack \in [Conns -> 0..Len(tasks)]
  /\ lifeTask \in [Conns -> 0..Len(tasks)]
  /\ boundReady \in [Conns -> 0..Len(loops)] /\ boundStop \in [Conns -> 0..Len(loops)]
  /\ trouble \in [Conns -> SUBSET Troubles]

CallsTyped ==
  /\ op \in [Threads -> Calls] /\ on \in [Threads -> Conns]
  /\ awaits \in [Threads -> 0..Len(tasks)] /\ calls \in [Threads -> Seq(SUBSET Calls)]

\* The parts of the invariant.
LEMMA Parts ==
  RegistryInv => (TypeOK <=> LoopsTyped /\ TasksTyped /\ RefsTyped /\ CallsTyped)
<1> SUFFICES ASSUME RegistryInv
             PROVE  TypeOK <=> LoopsTyped /\ TasksTyped /\ RefsTyped /\ CallsTyped
  OBVIOUS
<1>1. ManagerTypeOK <=> LoopsTyped
  BY DEF RegistryInv, ManagerTypeOK, LoopsTyped, LoopStates
<1> QED BY <1>1 DEF TypeOK, TasksTyped, RefsTyped, CallsTyped

\* A loop more, or one that goes on.
LEMMA LoopsGrow ==
  ASSUME RegistryInv, LoopsTyped, on \in [Threads -> Conns], [Next]_vars
  PROVE  LoopsTyped' /\ Len(loops) \in Nat /\ Len(loops') \in Nat /\ Len(loops) <= Len(loops')
<1> DEFINE Goal == LoopsTyped' /\ Len(loops') \in Nat /\ Len(loops) <= Len(loops')
<1>0. Len(loops) \in Nat
  BY DEF LoopsTyped
<1>1. ASSUME UNCHANGED <<loopVars, doomed>>, conns' \in [Managers -> [ConnNames -> Conns \union {NoOne}]]
      PROVE  Goal
  BY <1>0, <1>1 DEF LoopsTyped, loopVars
<1>2. ASSUME UNCHANGED <<conns, loopVars>>, doomed' \in [Threads -> SUBSET ConnNames] PROVE Goal
  BY <1>0, <1>2 DEF LoopsTyped, loopVars
<1>3. ASSUME NEW l \in DOMAIN loops, NEW state \in LoopStates,
             loops' = [loops EXCEPT ![l] = state], UNCHANGED <<conns, loopOf, doomed>>,
             readers' \in [Managers -> Nat]
      PROVE  Goal
  <2>1. loops' \in Seq(LoopStates) /\ Len(loops') = Len(loops)
    BY <1>3 DEF LoopsTyped
  <2> QED BY <1>0, <1>3, <2>1 DEF LoopsTyped
<1>4. \A m \in Managers : loopOf[m] # 0 => loopOf[m] \in DOMAIN loops
  BY <1>0 DEF LoopsTyped
<1>5. {"created", "booting", "running", "stopping", "stopped"} = LoopStates /\ doomed \in [Threads -> SUBSET ConnNames]
  BY DEF LoopStates, LoopsTyped
<1>6. ASSUME NEW t \in Threads, ThreadStep(t) PROVE Goal
  <2>1. CASE StartLoop(t)
    <3>1. /\ via[t] \in Managers
          /\ loops' = Append(loops, "created") /\ UNCHANGED <<conns, doomed>>
          /\ loopOf' = [loopOf EXCEPT ![via[t]] = Len(loops')]
          /\ readers' = [readers EXCEPT ![via[t]] = @ + 1]
      BY <2>1 DEF StartLoop, RegistryInv, NoneYet, registryVars
    <3>2. loops' \in Seq(LoopStates) /\ Len(loops') = Len(loops) + 1
      BY <1>5, <3>1 DEF LoopsTyped
    <3>3. loopOf' \in [Managers -> Nat] /\ readers' \in [Managers -> Nat]
      BY <1>0, <3>1, <3>2 DEF LoopsTyped
    <3>4. \A m \in Managers : loopOf'[m] \in 0..Len(loops')
      BY <1>0, <3>1, <3>2 DEF LoopsTyped
    <3> QED BY <1>0, <3>1, <3>2, <3>3, <3>4 DEF LoopsTyped
  <2>2. CASE Joined(t)
    <3>1. /\ loopOf' = [loopOf EXCEPT ![via[t]] = 0] /\ UNCHANGED <<conns, loops, readers, doomed>>
          /\ via[t] \in Managers
      BY <2>2 DEF Joined, registryVars, RegistryInv, NoneYet
    <3> QED BY <1>0, <3>1 DEF LoopsTyped
  <2>3. CASE Tell(t)
    <3>1. via[t] \in Managers /\ UNCHANGED <<conns, loopOf, readers, doomed>> /\ readers \in [Managers -> Nat]
      BY <2>3 DEF Tell, registryVars, RegistryInv, NoneYet, LoopsTyped
    <3>2. CASE UNCHANGED loops
      BY <1>0, <3>1, <3>2 DEF LoopsTyped
    <3>3. CASE loopOf[via[t]] # 0 /\ loops' = [loops EXCEPT ![loopOf[via[t]]] = "stopping"]
      BY <1>3, <1>4, <1>5, <3>1, <3>3
    <3> QED BY <2>3, <3>2, <3>3 DEF Tell
  <2>4. CASE RegisterEntry(t, on[t])
    <3>1. /\ via[t] \in Managers /\ on[t] \in Conns /\ ConnName[on[t]] \in ConnNames
      BY <2>4, ManagerAssumption DEF RegisterEntry, RegistryInv, NoneYet
    <3>2. conns' = [conns EXCEPT ![via[t]][ConnName[on[t]]] = on[t]] /\ UNCHANGED <<loopVars, doomed>>
      BY <2>4 DEF RegisterEntry
    <3>3. conns' \in [Managers -> [ConnNames -> Conns \union {NoOne}]]
      BY <3>1, <3>2 DEF LoopsTyped
    <3> QED BY <1>1, <3>2, <3>3
  <2>5. CASE Drops(t)
    BY <1>2, <1>5, <2>5 DEF Drops, Drop
  <2>6. CASE Sift(t)
    BY <1>2, <1>5, <2>6 DEF Sift, registryVars
  <2>7. CASE Find(t) \/ Construct(t) \/ Assign(t) \/ Fetch(t) \/ EnsureLoop(t) \/ StopsLoop(t)
             \/ Pop(t) \/ Shifts(t)
    BY <1>2, <1>5, <2>7 DEF Find, Construct, Assign, Fetch, EnsureLoop, StopsLoop, Pop, Shifts,
                            SiftRaises, registryVars
  <2>8. CASE Registers(t) /\ ~ RegisterEntry(t, on[t])
    BY <1>2, <1>5, <2>8 DEF Registers, RegisterCheck, RegisterName, registryVars
  <2>9. CASE Owns(t) \/ Ask(t) \/ Take(t) \/ Check(t) \/ Send(t) \/ Returns(t) \/ TimesOut(t)
    BY <1>2, <1>5, <2>9 DEF Owns, RegisterOwner, Ask, Take, Check, Send, Returns, TimesOut, Ends,
                            registryVars
  <2> QED BY <1>6, <2>1, <2>2, <2>3, <2>4, <2>5, <2>6, <2>7, <2>8, <2>9 DEF ThreadStep
<1>7. ASSUME NEW t \in Threads, Application(t) PROVE Goal
  <2>1. UNCHANGED <<conns, loopVars, doomed>>
    <3>1. CASE \E m \in Managers : Shutdown(t, m)
      BY <3>1 DEF Shutdown, ShutdownBegins
    <3>2. CASE \E c \in Conns : LookUp(t, c)
      BY <3>2 DEF LookUp, registryVars
    <3>3. CASE \E c \in Conns, what \in Calls : CallOn(t, c, what)
      BY <3>3 DEF CallOn, registryVars
    <3> QED BY <1>7, <3>1, <3>2, <3>3 DEF Application, Register, Use, Calls
  <2> QED BY <1>2, <1>5, <2>1
<1>8. CASE LoopThreads
  <2>1. CASE \E m \in Managers : ThreadReads(m)
    <3>1. PICK m \in Managers : ThreadReads(m)
      BY <2>1
    <3>2. readers' \in [Managers -> Nat] /\ UNCHANGED <<conns, loopOf, doomed>>
      BY <3>1 DEF ThreadReads, LoopsTyped, registryVars
    <3>3. CASE loops' = loops
      BY <1>0, <3>2, <3>3 DEF LoopsTyped
    <3>4. CASE loopOf[m] # 0 /\ loops' = [loops EXCEPT ![loopOf[m]] = "booting"]
      <4>1. loopOf[m] \in DOMAIN loops /\ "booting" \in LoopStates
        BY <1>4, <3>4 DEF LoopStates
      <4> QED BY <1>0, <1>3, <3>2, <3>4, <4>1
    <3> QED BY <3>1, <3>3, <3>4 DEF ThreadReads
  <2>2. CASE \E l \in DOMAIN loops : LoopRuns(l) \/ LoopStops(l)
    <3>1. PICK l \in DOMAIN loops : LoopRuns(l) \/ LoopStops(l)
      BY <2>2
    <3>2. UNCHANGED <<conns, loopOf, doomed>> /\ readers' \in [Managers -> Nat]
      BY <3>1 DEF LoopRuns, LoopStops, Becomes, registryVars, LoopsTyped
    <3>3. PICK state \in {"running", "stopped"} : loops' = [loops EXCEPT ![l] = state]
      BY <3>1 DEF LoopRuns, LoopStops, Becomes
    <3>4. state \in LoopStates
      BY DEF LoopStates
    <3> QED BY <1>0, <1>3, <3>2, <3>3, <3>4
  <2> QED BY <1>8, <2>1, <2>2 DEF LoopThreads
<1>9. CASE Server
  BY <1>2, <1>5, <1>9 DEF Server, Connects, managerVars, registryVars
<1>10. ASSUME NEW i \in DOMAIN tasks, TaskStep(i) PROVE Goal
  <2>1. CASE Unregisters(i)
    <3>1. UNCHANGED <<loopVars, doomed>>
      BY <2>1 DEF Unregisters
    <3>2. conns' = conns \/ conns' = [conns EXCEPT ![owner[i]][ConnName[tasks[i].conn]] = NoOne]
      BY <2>1 DEF Unregisters, UnregisterEntry, UnregisterName, UnregisterOwner
    <3>3. conns \in [Managers -> [ConnNames -> Conns \union {NoOne}]]
      BY DEF LoopsTyped
    <3>4. conns' \in [Managers -> [ConnNames -> Conns \union {NoOne}]]
      <4> DEFINE S == Conns \union {NoOne}
                 m == owner[i]
                 k == ConnName[tasks[i].conn]
      <4>1. \A row \in [ConnNames -> S] : [row EXCEPT ![k] = NoOne] \in [ConnNames -> S]
        OBVIOUS
      <4>2. CASE conns' = [conns EXCEPT ![m][k] = NoOne]
        <5>1. conns \in [Managers -> [ConnNames -> S]]
          BY <3>3
        <5> HIDE DEF S, m, k
        <5>2. conns' = [conns EXCEPT ![m] = [conns[m] EXCEPT ![k] = NoOne]]
          BY <4>2
        <5>3. conns' \in [Managers -> [ConnNames -> S]]
          BY <4>1, <5>1, <5>2
        <5> QED BY <5>3 DEF S
      <4> QED BY <3>2, <3>3, <4>2
    <3> QED BY <1>1, <3>1, <3>4
  <2>2. CASE ~ Unregisters(i)
    <3>1. UNCHANGED managerVars
      BY <1>10, <2>2 DEF TaskStep, SetupStarts, SetupEnds, LifeStarts, LifeWoken, LifeCloses,
                         LifeFails, StopStarts, StopEnds, Requests
    <3> QED BY <1>2, <1>5, <3>1 DEF managerVars, registryVars
  <2> QED BY <2>1, <2>2
<1>11. CASE UNCHANGED vars
  BY <1>2, <1>5, <1>11 DEF vars, managerVars, registryVars
<1> QED BY <1>0, <1>6, <1>7, <1>8, <1>9, <1>10, <1>11 DEF Next

\* A function on 1..n is a sequence of length n.
LEMMA FunctionIsSeq ==
  ASSUME NEW S, NEW n \in Nat, NEW f \in [1..n -> S]
  PROVE  f \in Seq(S) /\ Len(f) = n
OBVIOUS

LEMMA SeqIsFunction ==
  ASSUME NEW S, NEW s \in Seq(S)
  PROVE  s \in [1..Len(s) -> S]
OBVIOUS

\* One task more.
LEMMA NewTaskTyped ==
  ASSUME TasksTyped, NEW k \in Task, NEW now \in [DOMAIN tasks -> Spots],
         tasks' = Append(tasks, k), at' = Append(now, "ready"), joins' = Append(joins, 0),
         owner' = Append(owner, NoOne)
  PROVE  /\ TasksTyped'
         /\ Len(tasks) \in Nat /\ Len(tasks') = Len(tasks) + 1
         /\ DOMAIN tasks' = DOMAIN tasks \union {Len(tasks) + 1}
         /\ \A i \in DOMAIN tasks : /\ tasks'[i] = tasks[i] /\ at'[i] = now[i]
                                    /\ joins'[i] = joins[i] /\ owner'[i] = owner[i]
         /\ tasks'[Len(tasks) + 1] = k /\ at'[Len(tasks) + 1] = "ready"
<1> DEFINE n == Len(tasks)
<1>1. n \in Nat /\ DOMAIN tasks = 1..n /\ tasks \in Seq(Task)
  BY DEF TasksTyped
<1>2. tasks' \in Seq(Task) /\ Len(tasks') = n + 1 /\ DOMAIN tasks' = 1..(n + 1)
  BY <1>1
<1>3. tasks'[n + 1] = k /\ \A i \in 1..n : tasks'[i] = tasks[i]
  BY <1>1
<1>4. "ready" \in Spots
  BY DEF Spots
<1>5. /\ at' \in [1..(n + 1) -> Spots] /\ at'[n + 1] = "ready"
      /\ \A i \in 1..n : at'[i] = now[i]
  <2>1. now \in Seq(Spots) /\ Len(now) = n
    BY <1>1, FunctionIsSeq
  <2>2. /\ at' \in Seq(Spots) /\ Len(at') = n + 1 /\ at'[n + 1] = "ready"
        /\ \A i \in 1..n : at'[i] = now[i]
    BY <1>1, <1>4, <2>1
  <2> QED BY <2>2, SeqIsFunction
<1>6. joins' \in [1..(n + 1) -> 0..(n + 1)] /\ \A i \in 1..n : joins'[i] = joins[i]
  <2>1. joins \in [1..n -> 0..n]
    BY <1>1 DEF TasksTyped
  <2>2. joins \in Seq(0..n) /\ Len(joins) = n
    BY <1>1, <2>1, FunctionIsSeq
  <2>3. joins \in Seq(0..(n + 1)) /\ 0 \in 0..(n + 1)
    BY <1>1, <2>1, <2>2
  <2>4. joins' \in Seq(0..(n + 1)) /\ Len(joins') = n + 1 /\ \A i \in 1..n : joins'[i] = joins[i]
    BY <1>1, <2>2, <2>3
  <2> QED BY <2>4, SeqIsFunction
<1>7. /\ owner' \in [1..(n + 1) -> Managers \union {NoOne}]
      /\ \A i \in 1..n : owner'[i] = owner[i]
  <2> DEFINE S == Managers \union {NoOne}
  <2>1. owner \in [1..n -> S] /\ NoOne \in S
    BY <1>1 DEF TasksTyped
  <2> HIDE DEF S
  <2>2. owner \in Seq(S) /\ Len(owner) = n
    BY <1>1, <2>1, FunctionIsSeq
  <2>3. owner' \in Seq(S) /\ Len(owner') = n + 1 /\ \A i \in 1..n : owner'[i] = owner[i]
    BY <1>1, <2>1, <2>2
  <2>4. owner' \in [1..(n + 1) -> S]
    BY <2>3, SeqIsFunction
  <2> QED BY <2>3, <2>4 DEF S
<1>8. DOMAIN tasks' = DOMAIN tasks \union {n + 1}
  BY <1>1, <1>2
<1>9. TasksTyped'
  BY <1>2, <1>5, <1>6, <1>7 DEF TasksTyped
<1> QED BY <1>1, <1>2, <1>3, <1>5, <1>6, <1>7, <1>8, <1>9

\* A call is made by an idle thread; shutdown() is the only one that does not look for
\* its manager first.
LEMMA CallShape ==
  ASSUME NEW t \in Threads, Application(t)
  PROVE  /\ pc[t] = "idle" /\ UNCHANGED <<connVars, taskVars, awaits>>
         /\ \E what \in Calls :
              /\ Call(t, what) /\ op' = [op EXCEPT ![t] = what]
              /\ calls[t] # <<>> /\ calls' = [calls EXCEPT ![t] = Tail(@)]
              /\ \/ what = "look" /\ UNCHANGED on /\ Stay(t, "finding")
                 \/ what = "shutdown" /\ UNCHANGED on /\ GoOn(t, "stopping")
                 \/ \E c \in Conns : /\ t \in Users[c] /\ on' = [on EXCEPT ![t] = c]
                                     /\ \/ what = "register" /\ Stay(t, "finding")
                                        \/ /\ what \in {"connect", "close", "request"}
                                           /\ what = "connect" => ~ connected[c]
                                           /\ Stay(t, "asking")
<1>1. CASE \E m \in Managers : Shutdown(t, m)
  <2>1. "shutdown" \in Calls
    BY DEF Calls
  <2> QED BY <1>1, <2>1 DEF Shutdown, Call, ShutdownBegins
<1>2. CASE \E c \in Conns : LookUp(t, c)
  <2>1. "look" \in Calls
    BY DEF Calls
  <2> QED BY <1>2, <2>1 DEF LookUp, Call
<1>3. CASE \E c \in Conns : \E n \in Names : Register(t, c, n)
  <2>1. PICK c \in Conns : \E n \in Names : Register(t, c, n)
    BY <1>3
  <2>2. "register" \in Calls
    BY DEF Calls
  <2>3. /\ Call(t, "register") /\ t \in Users[c] /\ on' = [on EXCEPT ![t] = c] /\ Stay(t, "finding")
    BY <2>1 DEF Register, CallOn
  <2> QED BY <2>2, <2>3 DEF Call
<1>4. CASE \E c \in Conns : \E what \in {"connect", "close", "request"} : Use(t, c, what)
  <2>1. PICK c \in Conns, what \in {"connect", "close", "request"} : Use(t, c, what)
    BY <1>4
  <2>2. what \in Calls
    BY DEF Calls
  <2>3. /\ Call(t, what) /\ t \in Users[c] /\ on' = [on EXCEPT ![t] = c] /\ Stay(t, "asking")
        /\ what = "connect" => ~ connected[c]
    BY <2>1 DEF Use, CallOn
  <2> QED BY <2>2, <2>3 DEF Call
<1> QED BY <1>1, <1>2, <1>3, <1>4 DEF Application

\* Calls are made by idle threads; on the way to the loop they stay what they are.
LEMMA CallsKeep ==
  ASSUME RegistryInv, CallsTyped, CallsFit, [Next]_vars
  PROVE  /\ op' \in [Threads -> Calls] /\ on' \in [Threads -> Conns]
         /\ calls' \in [Threads -> Seq(SUBSET Calls)] /\ CallsFit'
<1> DEFINE Goal == /\ op' \in [Threads -> Calls] /\ on' \in [Threads -> Conns]
                   /\ calls' \in [Threads -> Seq(SUBSET Calls)] /\ CallsFit'
<1> USE DEF CallsTyped, Looking, Writing, Using
<1>1. ASSUME UNCHANGED <<op, on, calls, pc>> PROVE Goal
  BY <1>1 DEF CallsFit
<1>2. ASSUME NEW t \in Threads, NEW place, GoOn(t, place), UNCHANGED <<op, on, calls>>,
             place \in Looking => pc[t] \in Looking \union Using,
             place \in Writing => pc[t] \in Writing \/ (pc[t] \in Looking /\ op[t] # "look"),
             place \in Using => pc[t] \in Using \/ (pc[t] \in Writing /\ op[t] # "register")
      PROVE  Goal
  <2>1. pc' = [pc EXCEPT ![t] = place] /\ pc \in [Threads -> Places]
    BY <1>2 DEF GoOn, RegistryInv
  <2>2. op[t] \in Calls
    OBVIOUS
  <2>3. place \in Looking => op[t] # "shutdown"
    BY <1>2 DEF CallsFit
  <2>4. place \in Writing => op[t] \notin {"shutdown", "look"}
    BY <1>2 DEF CallsFit
  <2>5. place \in Using => op[t] \in {"connect", "close", "request"}
    BY <1>2, <2>2 DEF CallsFit, Calls
  <2>6. CallsFit'
    <3> HIDE DEF CallsTyped, Looking, Writing, Using
    <3> QED BY <1>2, <2>1, <2>3, <2>4, <2>5 DEF CallsFit, Looking, Writing, Using
  <2> QED BY <1>2, <2>6
<1>3. ASSUME NEW t \in Threads, GoOn(t, "idle"), UNCHANGED <<op, on, calls>> PROVE Goal
  BY <1>2, <1>3
<1>4. ASSUME NEW t \in Threads, NEW place \in Removal \union {"sifting", "dropping"},
             GoOn(t, place), UNCHANGED <<op, on, calls>>
      PROVE  Goal
  BY <1>2, <1>4 DEF Removal
<1>5. ASSUME NEW t \in Threads, ThreadStep(t) PROVE Goal
  <2>0. UNCHANGED <<op, on, calls>>
    <3>1. CASE Rest
      BY <3>1 DEF Rest, callVars
    <3>2. CASE Shifts(t) \/ Drops(t) \/ Registers(t) \/ Owns(t) \/ Ask(t) \/ Take(t) \/ Check(t)
      BY <3>2 DEF Shifts, Drops, Registers, Owns, Ask, Take, Check, callVars
    <3>3. CASE Send(t) \/ Returns(t) \/ TimesOut(t)
      BY <3>3 DEF Send, Returns, TimesOut, Ends
    <3> QED BY <1>5, <3>1, <3>2, <3>3 DEF ThreadStep
  <2>1. CASE Find(t) \/ Construct(t) \/ Assign(t) \/ Fetch(t)
    <3>1. pc[t] \in Looking
      BY <2>1 DEF Find, Construct, Assign, Fetch
    <3>2. \E place \in Looking \union {"idle"} : GoOn(t, place)
      BY <2>1 DEF Find, Construct, Assign, Fetch, Stay, Leave
    <3> QED BY <1>2, <2>0, <3>1, <3>2
  <2>2. CASE EnsureLoop(t) \/ StartLoop(t) \/ Take(t) \/ Check(t) \/ Send(t)
    <3>1. pc[t] \in Using
      BY <2>2 DEF EnsureLoop, StartLoop, Take, Check, Send
    <3>2. \E place \in Using \union {"idle"} : GoOn(t, place)
      BY <2>2 DEF EnsureLoop, StartLoop, Take, Check, Send, Stay, Leave
    <3> QED BY <1>2, <2>0, <3>1, <3>2
  <2>3. CASE Ask(t)
    <3>1. GoOn(t, "taking") \/ GoOn(t, "finding")
      BY <2>3 DEF Ask, Stay
    <3>2. pc[t] \in Using
      BY <2>3 DEF Ask
    <3> QED BY <1>2, <2>0, <3>1, <3>2
  <2>4. CASE StopsLoop(t) \/ Tell(t) \/ Joined(t) \/ Pop(t) \/ Sift(t)
    <3>1. \E place \in Removal \union {"sifting", "dropping", "idle"} : GoOn(t, place)
      BY <2>4 DEF StopsLoop, Tell, Joined, Pop, Sift, Stay, Leave, Removal
    <3> QED BY <1>3, <1>4, <2>0, <3>1
  <2>5. CASE Shifts(t) \/ Drops(t) \/ Returns(t) \/ TimesOut(t)
    <3>1. GoOn(t, "idle")
      BY <2>5 DEF Shifts, SiftRaises, Drops, Drop, Returns, TimesOut, Ends, Leave
    <3> QED BY <1>3, <2>0, <3>1
  <2>6. CASE Registers(t)
    <3>1. CASE op[t] # "look" /\ RegisterCheck(t, on[t])
      <4>1. pc[t] \in Looking /\ op[t] # "look" /\ (GoOn(t, "idle") \/ GoOn(t, "writing"))
        BY <3>1 DEF RegisterCheck, Leave, Stay
      <4> QED BY <1>2, <2>0, <4>1
    <3>2. CASE RegisterName(t, on[t]) \/ RegisterEntry(t, on[t])
      <4>1. pc[t] \in Writing /\ (GoOn(t, "listing") \/ GoOn(t, "owning"))
        BY <3>2 DEF RegisterName, RegisterEntry, Stay
      <4> QED BY <1>2, <2>0, <4>1
    <3>3. CASE Leave(t)
      BY <1>3, <2>0, <3>3 DEF Leave
    <3> QED BY <2>6, <3>1, <3>2, <3>3 DEF Registers
  <2>7. CASE Owns(t)
    <3>1. pc[t] \in Writing
      BY <2>7 DEF Owns, RegisterOwner
    <3>2. CASE op[t] = "register"
      BY <1>3, <2>0, <2>7, <3>2 DEF Owns, Leave
    <3>3. CASE op[t] # "register"
      <4>1. GoOn(t, "taking")
        BY <2>7, <3>3 DEF Owns, Stay
      <4> QED BY <1>2, <2>0, <3>1, <3>3, <4>1
    <3> QED BY <3>2, <3>3
  <2> QED BY <1>5, <2>1, <2>2, <2>3, <2>4, <2>5, <2>6, <2>7 DEF ThreadStep
<1>6. ASSUME NEW t \in Threads, Application(t) PROVE Goal
  <2>1. PICK what \in Calls :
          /\ Call(t, what) /\ op' = [op EXCEPT ![t] = what]
          /\ calls[t] # <<>> /\ calls' = [calls EXCEPT ![t] = Tail(@)]
          /\ \/ what = "look" /\ UNCHANGED on /\ Stay(t, "finding")
             \/ what = "shutdown" /\ UNCHANGED on /\ GoOn(t, "stopping")
             \/ \E c \in Conns : /\ t \in Users[c] /\ on' = [on EXCEPT ![t] = c]
                                 /\ \/ what = "register" /\ Stay(t, "finding")
                                    \/ /\ what \in {"connect", "close", "request"}
                                       /\ what = "connect" => ~ connected[c]
                                       /\ Stay(t, "asking")
    BY <1>6, CallShape
  <2>2. op' \in [Threads -> Calls] /\ on' \in [Threads -> Conns]
    BY <2>1
  <2>3. calls' \in [Threads -> Seq(SUBSET Calls)]
    <3> DEFINE S == SUBSET Calls
    <3>1. calls \in [Threads -> Seq(S)] /\ calls[t] # <<>> /\ calls' = [calls EXCEPT ![t] = Tail(@)]
      BY <2>1
    <3> HIDE DEF S
    <3>2. calls[t] \in Seq(S)
      BY <3>1
    <3>3. Tail(calls[t]) \in Seq(S)
      BY <3>1, <3>2
    <3>4. calls' \in [Threads -> Seq(S)]
      BY <3>1, <3>3
    <3> QED BY <3>4 DEF S
  <2>4. \E place \in {"finding", "asking", "stopping"} :
          /\ pc' = [pc EXCEPT ![t] = place]
          /\ place = "finding" => what # "shutdown"
          /\ place = "asking" => what \in {"connect", "close", "request"}
    BY <2>1 DEF Stay, GoOn
  <2>5. pc \in [Threads -> Places]
    BY DEF RegistryInv
  <2>6. CallsFit'
    BY <2>1, <2>4, <2>5 DEF CallsFit
  <2> QED BY <2>2, <2>3, <2>6
<1>7. CASE LoopThreads
  BY <1>1, <1>7 DEF LoopThreads, Rest, callVars, ThreadReads, LoopRuns, LoopStops, Becomes
<1>8. CASE Server
  BY <1>1, <1>8 DEF Server, Connects, callVars, managerVars
<1>9. ASSUME NEW i \in DOMAIN tasks, TaskStep(i) PROVE Goal
  <2>1. UNCHANGED <<callVars, pc>>
    BY <1>9 DEF TaskStep, SetupStarts, SetupEnds, LifeStarts, LifeWoken, LifeCloses, LifeFails,
                StopStarts, StopEnds, Unregisters, Requests, managerVars
  <2> QED BY <1>1, <2>1 DEF callVars
<1>10. CASE UNCHANGED vars
  BY <1>1, <1>10 DEF vars, managerVars, callVars
<1> QED BY <1>5, <1>6, <1>7, <1>8, <1>9, <1>10 DEF Next

-----------------------------------------------------------------------------
(***************************************************************************)
(* What every step does to the tasks.                                      *)
(***************************************************************************)
IParts == /\ RegistryInv /\ LoopsTyped /\ TasksTyped /\ RefsTyped /\ CallsTyped /\ CallsFit
          /\ LoopsExist

LEMMA TaskFields ==
  ASSUME IParts
  PROVE  /\ Len(tasks) \in Nat /\ DOMAIN tasks = 1..Len(tasks) /\ Len(tasks) + 1 \notin DOMAIN tasks
         /\ at \in [DOMAIN tasks -> Spots] /\ owner \in [DOMAIN tasks -> Managers \union {NoOne}]
         /\ trouble \in [Conns -> SUBSET Troubles] /\ on \in [Threads -> Conns]
         /\ pc \in [Threads -> Places] /\ awaits \in [Threads -> 0..Len(tasks)]
         /\ managerOf \in [Conns -> made \union {NoOne}] /\ made \subseteq Managers
         /\ \A i \in DOMAIN tasks : /\ tasks[i].conn \in Conns /\ tasks[i].loop \in 1..Len(loops)
                                    /\ tasks[i].loop \in Nat /\ tasks[i].loop # 0
                                    /\ tasks[i] \in Task
<1>1. tasks \in Seq(Task)
  BY DEF IParts, TasksTyped
<1>2. \A i \in DOMAIN tasks : tasks[i] \in Task
  BY <1>1
<1>3. \A i \in DOMAIN tasks : tasks[i].conn \in Conns /\ tasks[i].loop \in Nat
  BY <1>2 DEF Task
<1>4. \A i \in DOMAIN tasks : tasks[i].loop \in 1..Len(loops)
  BY DEF IParts, LoopsExist
<1>5. \A i \in DOMAIN tasks : tasks[i].loop # 0
  BY <1>3, <1>4
<1> QED BY <1>1, <1>2, <1>3, <1>4, <1>5 DEF IParts, TasksTyped, RefsTyped, CallsTyped, RegistryInv

\* Beyond the look-up, a call has a manager.
LEMMA HasManager ==
  ASSUME IParts, NEW t \in Threads, pc[t] \notin NoneYet
  PROVE  via[t] \in made /\ via[t] \in Managers /\ via[t] # NoOne
<1>1. via \in [Threads -> made \union {NoOne}] /\ made \subseteq Managers /\ via[t] # NoOne
  BY DEF IParts, RegistryInv
<1> QED BY <1>1

\* A call is submitted: one task more, the one its thread waits for.
Submits(t) == Send(t) /\ loopOf[via[t]] # 0 /\ loops[loopOf[via[t]]] # "stopped"

LEMMA SubmitShape ==
  ASSUME IParts, NEW t \in Threads, Submits(t)
  PROVE  LET n == Len(tasks) IN
         /\ DOMAIN tasks' = DOMAIN tasks \union {n + 1} /\ Len(tasks') = n + 1
         /\ \A i \in DOMAIN tasks : /\ tasks'[i] = tasks[i] /\ at'[i] = at[i]
                                    /\ joins'[i] = joins[i] /\ owner'[i] = owner[i]
         /\ tasks'[n + 1] = [kind |-> KindOf(op[t]), conn |-> on[t], loop |-> loopOf[via[t]]]
         /\ at'[n + 1] = "ready" /\ pc[t] = "sending"
         /\ pc' = [pc EXCEPT ![t] = "waiting"] /\ awaits' = [awaits EXCEPT ![t] = n + 1]
         /\ trouble' = IF Races(t) THEN [trouble EXCEPT ![on[t]] = @ \union {"raced"}] ELSE trouble
         /\ op[t] \in {"connect", "close", "request"} /\ KindOf(op[t]) \in {"setup", "stop", "request"}
         /\ loopOf[via[t]] \in 1..Len(loops) /\ via[t] \in Managers
         /\ TasksTyped' /\ LoopsExist'
         /\ UNCHANGED <<registryVars, loopVars, want, via, doomed, connVars, op, on, calls>>
<1> DEFINE n == Len(tasks)
           k == [kind |-> KindOf(op[t]), conn |-> on[t], loop |-> loopOf[via[t]]]
<1>0. /\ n \in Nat /\ TasksTyped /\ at \in [DOMAIN tasks -> Spots] /\ LoopsExist /\ DOMAIN tasks = 1..n
  BY TaskFields DEF IParts
<1>1. /\ pc[t] = "sending" /\ tasks' = Append(tasks, k) /\ at' = Append(at, "ready")
      /\ joins' = Append(joins, 0) /\ owner' = Append(owner, NoOne)
      /\ awaits' = [awaits EXCEPT ![t] = Len(tasks')] /\ GoOn(t, "waiting") /\ via' = via
      /\ trouble' = IF Races(t) THEN [trouble EXCEPT ![on[t]] = @ \union {"raced"}] ELSE trouble
      /\ UNCHANGED <<registryVars, loopVars, want, doomed, connVars, op, on, calls>>
  BY DEF Submits, Send, NewTask, Stay
<1>2. op[t] \in {"connect", "close", "request"} /\ via[t] \in Managers /\ on[t] \in Conns
  <2>1. via[t] \in Managers
    BY <1>1, HasManager DEF NoneYet
  <2>2. op[t] \in {"connect", "close", "request"} /\ on[t] \in Conns
    BY <1>1 DEF IParts, CallsFit, CallsTyped, Using
  <2> QED BY <2>1, <2>2
<1>3. KindOf(op[t]) \in {"setup", "stop", "request"}
  BY <1>2 DEF KindOf
<1>4. loopOf[via[t]] \in 1..Len(loops)
  <2>1. loopOf[via[t]] \in 0..Len(loops) /\ loopOf[via[t]] # 0 /\ Len(loops) \in Nat
    BY <1>2 DEF IParts, LoopsTyped, Submits
  <2> QED BY <2>1
<1>5. k \in Task
  <2>1. loopOf[via[t]] \in Nat
    BY <1>2 DEF IParts, LoopsTyped
  <2> QED BY <1>2, <1>3, <2>1 DEF Task
<1>6. k.loop = loopOf[via[t]]
  OBVIOUS
<1> HIDE DEF k
<1>7. /\ TasksTyped' /\ Len(tasks') = n + 1 /\ DOMAIN tasks' = DOMAIN tasks \union {n + 1}
      /\ \A i \in DOMAIN tasks : /\ tasks'[i] = tasks[i] /\ at'[i] = at[i]
                                 /\ joins'[i] = joins[i] /\ owner'[i] = owner[i]
      /\ tasks'[n + 1] = k /\ at'[n + 1] = "ready"
  <2>1. TasksTyped /\ at \in [DOMAIN tasks -> Spots]
    BY <1>0
  <2>2. /\ tasks' = Append(tasks, k) /\ at' = Append(at, "ready")
        /\ joins' = Append(joins, 0) /\ owner' = Append(owner, NoOne)
    BY <1>1
  <2> QED BY <1>5, <2>1, <2>2, NewTaskTyped
<1>8. LoopsExist'
  BY <1>0, <1>1, <1>4, <1>6, <1>7 DEF LoopsExist, loopVars
<1> QED BY <1>1, <1>2, <1>3, <1>4, <1>7, <1>8 DEF GoOn, k

\* A lifecycle task is made.
LEMMA SetupShape ==
  ASSUME IParts, NEW i \in DOMAIN tasks, SetupStarts(i)
  PROVE  LET n == Len(tasks)
             c == tasks[i].conn
             now == IF ForeignTo(boundReady, i) THEN "raised" ELSE "onReady"
         IN
         /\ DOMAIN tasks' = DOMAIN tasks \union {n + 1} /\ Len(tasks') = n + 1
         /\ \A j \in DOMAIN tasks : /\ tasks'[j] = tasks[j] /\ joins'[j] = joins[j]
                                    /\ owner'[j] = owner[j]
                                    /\ at'[j] = IF j = i THEN now ELSE at[j]
         /\ tasks'[n + 1] = [kind |-> "life", conn |-> c, loop |-> tasks[i].loop]
         /\ at'[n + 1] = "ready" /\ at[i] = "ready" /\ tasks[i].kind = "setup"
         /\ lifeTask' = [lifeTask EXCEPT ![c] = n + 1]
         /\ \/ /\ now = "raised" /\ trouble' = [trouble EXCEPT ![c] = @ \union {"moved"}]
               /\ boundReady' = boundReady
            \/ /\ now = "onReady" /\ trouble' = trouble
               /\ boundReady' = [boundReady EXCEPT ![c] = tasks[i].loop]
         /\ stop' = [stop EXCEPT ![c] = FALSE] /\ error' = [error EXCEPT ![c] = FALSE]
         /\ TasksTyped' /\ LoopsExist' /\ Runs(tasks[i].loop) /\ ~ Busy(tasks[i].loop)
         /\ UNCHANGED <<managerVars, connected, session, stack, boundStop, callVars>>
<1> DEFINE n == Len(tasks)
           c == tasks[i].conn
           now == IF ForeignTo(boundReady, i) THEN "raised" ELSE "onReady"
           place == [at EXCEPT ![i] = now]
           k == [kind |-> "life", conn |-> c, loop |-> tasks[i].loop]
<1>0. /\ n \in Nat /\ at \in [DOMAIN tasks -> Spots] /\ TasksTyped /\ LoopsExist
      /\ tasks[i] \in Task /\ c \in Conns /\ tasks[i].loop \in Nat /\ DOMAIN tasks = 1..n
      /\ tasks[i].loop \in 1..Len(loops)
  BY TaskFields DEF IParts
<1>1. /\ tasks' = Append(tasks, k) /\ at' = Append(place, "ready") /\ joins' = Append(joins, 0)
      /\ owner' = Append(owner, NoOne)
      /\ lifeTask' = [lifeTask EXCEPT ![c] = Len(tasks')]
      /\ IF now = "raised"
         THEN trouble' = [trouble EXCEPT ![c] = @ \union {"moved"}] /\ UNCHANGED boundReady
         ELSE boundReady' = [boundReady EXCEPT ![c] = tasks[i].loop] /\ UNCHANGED trouble
      /\ at[i] = "ready" /\ tasks[i].kind = "setup"
      /\ stop' = [stop EXCEPT ![c] = FALSE] /\ error' = [error EXCEPT ![c] = FALSE]
      /\ UNCHANGED <<managerVars, connected, session, stack, boundStop, callVars>>
  BY DEF SetupStarts, Turn
<1>2. Runs(tasks[i].loop) /\ ~ Busy(tasks[i].loop)
  BY DEF SetupStarts, Turn, Unregistering
<1>3. place \in [DOMAIN tasks -> Spots]
  BY <1>0 DEF Spots, Over
<1>4. k \in Task /\ k.loop = tasks[i].loop
  BY <1>0 DEF Task
<1>5. \A j \in DOMAIN tasks : place[j] = IF j = i THEN now ELSE at[j]
  BY <1>0
<1> HIDE DEF k, place
<1>6. /\ TasksTyped' /\ Len(tasks') = n + 1 /\ DOMAIN tasks' = DOMAIN tasks \union {n + 1}
      /\ \A j \in DOMAIN tasks : /\ tasks'[j] = tasks[j] /\ at'[j] = place[j]
                                 /\ joins'[j] = joins[j] /\ owner'[j] = owner[j]
      /\ tasks'[n + 1] = k /\ at'[n + 1] = "ready"
  BY <1>0, <1>1, <1>3, <1>4, NewTaskTyped
<1>7. now \in {"raised", "onReady"}
  OBVIOUS
<1>8. LoopsExist'
  BY <1>0, <1>1, <1>4, <1>6 DEF LoopsExist, loopVars, managerVars
<1> QED BY <1>1, <1>2, <1>5, <1>6, <1>7, <1>8 DEF k

\* The same, as the steps below use it: one task more, and the setup task waits for it
\* unless its event belongs to another loop.
LEMMA SetupMoves ==
  ASSUME IParts, NEW i \in DOMAIN tasks, SetupStarts(i)
  PROVE  LET n == Len(tasks) IN
         /\ DOMAIN tasks' = DOMAIN tasks \union {n + 1}
         /\ \A j \in DOMAIN tasks : tasks'[j] = tasks[j] /\ joins'[j] = joins[j] /\ (j # i => at'[j] = at[j])
         /\ tasks'[n + 1] = [kind |-> "life", conn |-> tasks[i].conn, loop |-> tasks[i].loop]
         /\ at'[n + 1] = "ready" /\ at[i] = "ready" /\ tasks[i].kind = "setup"
         /\ at'[i] \in {"onReady", "raised"}
         /\ at'[i] = "onReady" \/ "moved" \in trouble'[tasks[i].conn]
         /\ lifeTask' = [lifeTask EXCEPT ![tasks[i].conn] = n + 1]
         /\ UNCHANGED <<connected, stack, pc, op, on, awaits>>
<1> DEFINE n == Len(tasks)
           c == tasks[i].conn
           now == IF ForeignTo(boundReady, i) THEN "raised" ELSE "onReady"
<1>1. /\ DOMAIN tasks' = DOMAIN tasks \union {n + 1}
      /\ \A j \in DOMAIN tasks : /\ tasks'[j] = tasks[j] /\ joins'[j] = joins[j]
                                 /\ at'[j] = IF j = i THEN now ELSE at[j]
      /\ tasks'[n + 1] = [kind |-> "life", conn |-> c, loop |-> tasks[i].loop]
      /\ at'[n + 1] = "ready" /\ at[i] = "ready" /\ tasks[i].kind = "setup"
      /\ lifeTask' = [lifeTask EXCEPT ![c] = n + 1]
      /\ UNCHANGED <<managerVars, connected, session, stack, boundStop, callVars>>
  BY SetupShape
<1>2. \/ now = "raised" /\ trouble' = [trouble EXCEPT ![c] = @ \union {"moved"}]
      \/ now = "onReady"
  BY SetupShape
<1>3. trouble \in [Conns -> SUBSET Troubles] /\ c \in Conns
  BY TaskFields DEF IParts, RefsTyped
<1>4. now = "onReady" \/ "moved" \in trouble'[c]
  BY <1>2, <1>3
<1>5. now \in {"raised", "onReady"}
  BY <1>2
<1> HIDE DEF now
<1>6. at'[i] = now /\ \A j \in DOMAIN tasks : j # i => at'[j] = at[j]
  BY <1>1
<1> QED BY <1>1, <1>4, <1>5, <1>6 DEF managerVars, callVars

\* What Connects does to the tasks.
LEMMA ConnectsShape ==
  ASSUME IParts, NEW i \in DOMAIN tasks, NEW works \in BOOLEAN, Connects(i, works)
  PROVE  LET c == tasks[i].conn
             now == AfterReady(i)
         IN
         /\ tasks' = tasks /\ tasks[i].kind = "life" /\ at[i] = "connecting" /\ c \in Conns
         /\ at' \in [DOMAIN tasks -> Spots]
         /\ \A j \in DOMAIN tasks :
              at'[j] = IF j = i THEN now
                       ELSE IF tasks[j].conn = c /\ tasks[j].kind = "setup" /\ at[j] = "onReady"
                            THEN "woken" ELSE at[j]
         /\ now \in {"done", "closing", "holding"}
         /\ session' = [session EXCEPT ![c] = IF works /\ now # "done" THEN i ELSE 0]
         /\ connected' = [connected EXCEPT ![c] = works /\ now # "done"]
         /\ error' = [error EXCEPT ![c] = @ \/ ~ works]
         /\ boundStop' = IF now = "holding" THEN [boundStop EXCEPT ![c] = tasks[i].loop]
                         ELSE boundStop
         /\ trouble' = IF works THEN trouble ELSE [trouble EXCEPT ![c] = @ \union {"failed"}]
         /\ ~ works => "failed" \in trouble'[c]
         /\ \A d \in Conns : /\ trouble[d] \subseteq trouble'[d]
                             /\ trouble'[d] \subseteq trouble[d] \union {"failed"}
         /\ Runs(tasks[i].loop) /\ ~ Busy(tasks[i].loop)
         /\ UNCHANGED <<managerVars, stack, lifeTask, stop, boundReady, joins, owner, callVars>>
<1> DEFINE c == tasks[i].conn
           now == AfterReady(i)
<1>0. at \in [DOMAIN tasks -> Spots] /\ c \in Conns /\ trouble \in [Conns -> SUBSET Troubles]
  BY TaskFields
<1>1. now \in {"done", "closing", "holding"}
  BY DEF AfterReady
<1>2. at' = [Wakes(c, "setup", "onReady") EXCEPT ![i] = now]
  BY DEF Connects
<1>3. /\ at' \in [DOMAIN tasks -> Spots]
      /\ \A j \in DOMAIN tasks :
           at'[j] = IF j = i THEN now
                    ELSE IF tasks[j].conn = c /\ tasks[j].kind = "setup" /\ at[j] = "onReady"
                         THEN "woken" ELSE at[j]
  BY <1>0, <1>1, <1>2 DEF Wakes, Waiting, Spots, Over
<1>4. /\ tasks' = tasks /\ tasks[i].kind = "life" /\ at[i] = "connecting"
      /\ session' = [session EXCEPT ![c] = IF works /\ now # "done" THEN i ELSE 0]
      /\ connected' = [connected EXCEPT ![c] = works /\ now # "done"]
      /\ error' = [error EXCEPT ![c] = @ \/ ~ works]
      /\ boundStop' = IF now = "holding" THEN [boundStop EXCEPT ![c] = tasks[i].loop] ELSE boundStop
      /\ trouble' = IF works THEN trouble ELSE [trouble EXCEPT ![c] = @ \union {"failed"}]
      /\ UNCHANGED <<managerVars, stack, lifeTask, stop, boundReady, joins, owner, callVars>>
  BY DEF Connects, Turn
<1>5. Runs(tasks[i].loop) /\ ~ Busy(tasks[i].loop)
  BY DEF Connects, Turn, Unregistering
<1>6. /\ ~ works => "failed" \in trouble'[c]
      /\ \A d \in Conns : /\ trouble[d] \subseteq trouble'[d]
                          /\ trouble'[d] \subseteq trouble[d] \union {"failed"}
  BY <1>0, <1>4
<1> QED BY <1>0, <1>1, <1>3, <1>4, <1>5, <1>6

\* What StopStarts does to the tasks.
LEMMA StopShape ==
  ASSUME IParts, NEW i \in DOMAIN tasks, StopStarts(i)
  PROVE  LET c == tasks[i].conn IN
         /\ tasks' = tasks /\ tasks[i].kind = "stop" /\ at[i] = "ready" /\ c \in Conns
         /\ at' \in [DOMAIN tasks -> Spots]
         /\ \A j \in DOMAIN tasks \ {i} :
              at'[j] = IF tasks[j].conn = c /\ tasks[j].kind = "life" /\ at[j] = "holding"
                       THEN "woken" ELSE at[j]
         /\ at'[i] \in {"raised", "done", "joining"} /\ (lifeTask[c] = 0 => at'[i] # "joining")
         /\ joins' = [joins EXCEPT ![i] = lifeTask[c]] /\ stop' = [stop EXCEPT ![c] = TRUE]
         /\ Runs(tasks[i].loop) /\ ~ Busy(tasks[i].loop)
         /\ UNCHANGED <<managerVars, connected, session, stack, lifeTask, error, boundReady,
                        boundStop, owner, callVars, trouble>>
<1> DEFINE c == tasks[i].conn
           now == IF Deaf(c, "life", "holding") THEN "raised"
                  ELSE IF lifeTask[c] = 0 THEN "done" ELSE "joining"
<1>0. at \in [DOMAIN tasks -> Spots] /\ c \in Conns
  BY TaskFields
<1>1. /\ tasks' = tasks /\ tasks[i].kind = "stop" /\ at[i] = "ready"
      /\ at' = [Wakes(c, "life", "holding") EXCEPT ![i] = now]
      /\ joins' = [joins EXCEPT ![i] = lifeTask[c]] /\ stop' = [stop EXCEPT ![c] = TRUE]
      /\ UNCHANGED <<managerVars, connected, session, stack, lifeTask, error, boundReady,
                     boundStop, owner, callVars, trouble>>
  BY DEF StopStarts, Turn
<1>2. Runs(tasks[i].loop) /\ ~ Busy(tasks[i].loop)
  BY DEF StopStarts, Turn, Unregistering
<1>3. now \in {"raised", "done", "joining"} /\ (lifeTask[c] = 0 => now # "joining")
  OBVIOUS
<1> HIDE DEF now
<1>4. /\ at' \in [DOMAIN tasks -> Spots] /\ at'[i] = now
      /\ \A j \in DOMAIN tasks \ {i} :
           at'[j] = IF tasks[j].conn = c /\ tasks[j].kind = "life" /\ at[j] = "holding"
                    THEN "woken" ELSE at[j]
  BY <1>0, <1>1, <1>3 DEF Wakes, Waiting, Spots, Over
<1> QED BY <1>0, <1>1, <1>2, <1>3, <1>4

\* Tasks are only added, in loops that exist, and what refers to a task or loop does
\* so to one that was made.
LEMMA TasksKeep ==
  ASSUME IParts, [Next]_vars
  PROVE  TasksTyped' /\ RefsTyped' /\ LoopsExist' /\ awaits' \in [Threads -> 0..Len(tasks')]
<1> DEFINE Goal == TasksTyped' /\ RefsTyped' /\ LoopsExist' /\ awaits' \in [Threads -> 0..Len(tasks')]
           n == Len(tasks)
           Refs == /\ connected' \in [Conns -> BOOLEAN] /\ stop' \in [Conns -> BOOLEAN]
                   /\ error' \in [Conns -> BOOLEAN]
                   /\ session' \in [Conns -> 0..n] /\ stack' \in [Conns -> 0..n]
                   /\ lifeTask' \in [Conns -> 0..n]
                   /\ boundReady' \in [Conns -> 0..Len(loops)] /\ boundStop' \in [Conns -> 0..Len(loops)]
                   /\ trouble' \in [Conns -> SUBSET Troubles]
<1>0. /\ n \in Nat /\ DOMAIN tasks = 1..n
      /\ Len(loops) \in Nat /\ Len(loops') \in Nat /\ Len(loops) <= Len(loops')
      /\ awaits \in [Threads -> 0..n] /\ on \in [Threads -> Conns]
      /\ TasksTyped /\ RefsTyped /\ LoopsExist /\ CallsTyped
  BY LoopsGrow, TaskFields DEF IParts
<1>1. ASSUME UNCHANGED <<tasks, joins>>, at' \in [DOMAIN tasks -> Spots], Refs,
             owner' \in [DOMAIN tasks -> Managers \union {NoOne}],
             awaits' \in [Threads -> 0..n]
      PROVE  Goal
  <2>1. tasks' = tasks /\ joins' = joins /\ n \in Nat /\ Len(loops) \in Nat /\ Len(loops') \in Nat
        /\ Len(loops) <= Len(loops')
    BY <1>0, <1>1
  <2>2. 0..Len(loops) \subseteq 0..Len(loops') /\ 1..Len(loops) \subseteq 1..Len(loops')
    BY <2>1
  <2>3. TasksTyped
    BY <1>0
  <2>4. TasksTyped'
    BY <1>1, <2>1, <2>3 DEF TasksTyped
  <2>5. boundReady' \in [Conns -> 0..Len(loops')] /\ boundStop' \in [Conns -> 0..Len(loops')]
    <3>1. boundReady' \in [Conns -> 0..Len(loops)] /\ boundStop' \in [Conns -> 0..Len(loops)]
      BY <1>1
    <3> QED BY <2>2, <3>1
  <2>6. RefsTyped'
    BY <1>1, <2>1, <2>5 DEF RefsTyped
  <2>7. LoopsExist
    BY <1>0
  <2>8. LoopsExist'
    BY <2>1, <2>2, <2>7 DEF LoopsExist
  <2> QED BY <1>1, <2>1, <2>4, <2>6, <2>8
<1>2. ASSUME UNCHANGED <<connVars, taskVars>>,
             trouble' \in [Conns -> SUBSET Troubles],
             awaits' \in [Threads -> 0..n]
      PROVE  Goal
  <2>1. Refs /\ at' \in [DOMAIN tasks -> Spots]
    BY <1>0, <1>2 DEF RefsTyped, TasksTyped, connVars, taskVars
  <2>2. owner' \in [DOMAIN tasks -> Managers \union {NoOne}] /\ UNCHANGED <<tasks, joins>>
    BY <1>0, <1>2 DEF TasksTyped, taskVars
  <2> QED BY <1>1, <1>2, <2>1, <2>2
<1>4. ASSUME NEW i \in DOMAIN tasks
      PROVE  /\ tasks[i].conn \in Conns /\ tasks[i].loop \in 1..Len(loops) /\ i \in 0..n /\ 0 \in 0..n
  BY <1>0, TaskFields
<1>3. ASSUME NEW c, NEW new \in SUBSET Troubles, trouble' = [trouble EXCEPT ![c] = @ \union new]
      PROVE  trouble' \in [Conns -> SUBSET Troubles]
  <2>1. trouble \in [Conns -> SUBSET Troubles]
    BY <1>0 DEF RefsTyped
  <2> HIDE <1>0
  <2> QED BY <1>3, <2>1
<1>11. ASSUME UNCHANGED trouble PROVE trouble' \in [Conns -> SUBSET Troubles]
  BY <1>0, <1>11 DEF RefsTyped
<1>5. ASSUME NEW t \in Threads, ThreadStep(t) PROVE Goal
  <2>1. CASE Rest
    BY <1>0, <1>2, <1>11, <2>1 DEF Rest, callVars
  <2>2. CASE Registers(t) \/ Shifts(t) \/ Ask(t) \/ Take(t) \/ Check(t)
    BY <1>0, <1>2, <1>11, <2>2 DEF Registers, Shifts, Ask, Take, Check, callVars
  <2>3. CASE Send(t) /\ ~ Submits(t)
    BY <1>0, <1>2, <1>11, <2>3 DEF Send, Submits
  <2>4. CASE Submits(t)
    <3>1. /\ Len(tasks') = n + 1 /\ awaits' = [awaits EXCEPT ![t] = n + 1]
          /\ trouble' = IF Races(t) THEN [trouble EXCEPT ![on[t]] = @ \union {"raced"}] ELSE trouble
          /\ TasksTyped' /\ LoopsExist' /\ UNCHANGED <<connVars, loopVars>>
      BY <2>4, SubmitShape
    <3>2. trouble' \in [Conns -> SUBSET Troubles]
      <4>1. {"raced"} \in SUBSET Troubles
        BY DEF Troubles
      <4> QED BY <1>3, <1>11, <3>1, <4>1
    <3>3. RefsTyped'
      <4>1. RefsTyped /\ n \in Nat /\ 0..n \subseteq 0..n + 1
        BY <1>0
      <4>2. UNCHANGED <<connected, stop, error, session, stack, lifeTask, boundReady, boundStop, loops>>
        BY <3>1 DEF connVars, loopVars
      <4>3. Len(tasks') = n + 1
        BY <3>1
      <4> HIDE <1>0
      <4> HIDE DEF n
      <4> QED BY <3>2, <4>1, <4>2, <4>3 DEF RefsTyped, n
    <3>4. awaits' \in [Threads -> 0..Len(tasks')]
      BY <1>0, <3>1
    <3> QED BY <3>1, <3>3, <3>4
  <2>5. CASE Drops(t)
    <3>1. UNCHANGED <<connVars, taskVars, callVars>> /\ trouble' \in [Conns -> SUBSET Troubles]
      BY <1>0, <2>5 DEF Drops, RefsTyped, Troubles
    <3> QED BY <1>0, <1>2, <3>1 DEF callVars
  <2>6. CASE Owns(t)
    <3>1. UNCHANGED <<connVars, taskVars, callVars>>
      BY <2>6 DEF Owns
    <3> DEFINE dead == IF via[t] \in shut THEN {"shutDown"} ELSE {}
               changed == IF managerOf[on[t]] \in {NoOne, via[t]} THEN {} ELSE {"rehomed"}
    <3>2. trouble' = [trouble EXCEPT ![on[t]] = @ \union (dead \union changed)]
      BY <2>6 DEF Owns
    <3>3. dead \union changed \in SUBSET Troubles
      BY DEF Troubles
    <3> HIDE DEF dead, changed
    <3>4. trouble' \in [Conns -> SUBSET Troubles]
      BY <1>3, <3>2, <3>3
    <3> QED BY <1>0, <1>2, <3>1, <3>4 DEF callVars
  <2>7. CASE Returns(t) \/ TimesOut(t)
    <3>1. awaits' \in [Threads -> 0..n] /\ UNCHANGED <<connVars, taskVars>>
      BY <1>0, <2>7 DEF Returns, TimesOut, Ends
    <3>2. trouble' \in [Conns -> SUBSET Troubles]
      <4>1. CASE UNCHANGED trouble
        BY <1>11, <4>1
      <4>2. CASE TimesOut(t)
        <5> DEFINE late == IF op[t] = "close" THEN {"lateClose"} ELSE {}
        <5>1. trouble' = [trouble EXCEPT ![on[t]] = @ \union ({"gaveUp"} \union late)]
          BY <4>2 DEF TimesOut
        <5>2. {"gaveUp"} \union late \in SUBSET Troubles
          BY DEF Troubles
        <5> HIDE DEF late
        <5> QED BY <1>3, <5>1, <5>2
      <4> QED BY <2>7, <4>1, <4>2 DEF Returns
    <3> QED BY <1>2, <3>1, <3>2
  <2> QED BY <1>5, <2>1, <2>2, <2>3, <2>4, <2>5, <2>6, <2>7 DEF ThreadStep
<1>6. ASSUME NEW t \in Threads, Application(t) PROVE Goal
  <2>1. UNCHANGED <<connVars, taskVars, awaits>>
    BY <1>6, CallShape
  <2>2. trouble' \in [Conns -> SUBSET Troubles]
    <3>1. CASE UNCHANGED trouble
      BY <1>11, <3>1
    <3>2. CASE \E m \in Managers : Shutdown(t, m)
      BY <1>0, <3>2 DEF Shutdown, RefsTyped, Troubles
    <3>3. CASE \E c \in Conns : LookUp(t, c)
      BY <1>11, <3>3 DEF LookUp
    <3>4. CASE \E c \in Conns, what \in Calls : CallOn(t, c, what)
      BY <1>11, <3>4 DEF CallOn
    <3> QED BY <1>6, <3>1, <3>2, <3>3, <3>4 DEF Application, Register, Use, Calls
  <2> QED BY <1>0, <1>2, <2>1, <2>2
<1>7. CASE LoopThreads
  BY <1>0, <1>2, <1>11, <1>7 DEF LoopThreads, Rest, callVars
<1>8. CASE Server
  <2>1. PICK i \in DOMAIN tasks : Connects(i, TRUE) \/ Connects(i, FALSE)
    BY <1>8 DEF Server
  <2>2. PICK works \in BOOLEAN : Connects(i, works)
    BY <2>1
  <2> DEFINE c == tasks[i].conn
             now == AfterReady(i)
  <2>4. /\ session' = [session EXCEPT ![c] = IF works /\ now # "done" THEN i ELSE 0]
        /\ connected' = [connected EXCEPT ![c] = works /\ now # "done"]
        /\ error' = [error EXCEPT ![c] = @ \/ ~ works]
        /\ boundStop' = IF now = "holding" THEN [boundStop EXCEPT ![c] = tasks[i].loop]
                        ELSE boundStop
        /\ trouble' = IF works THEN trouble ELSE [trouble EXCEPT ![c] = @ \union {"failed"}]
        /\ UNCHANGED <<stack, lifeTask, stop, boundReady, tasks, joins, owner, callVars>>
        /\ at' \in [DOMAIN tasks -> Spots]
    BY <2>2, ConnectsShape
  <2>6. Refs
    <3>1. c \in Conns /\ tasks[i].loop \in 1..Len(loops) /\ i \in 0..n /\ 0 \in 0..n
      BY <1>4
    <3>2. session' \in [Conns -> 0..n]
      BY <1>0, <2>4, <3>1 DEF RefsTyped
    <3>3. boundStop' \in [Conns -> 0..Len(loops)]
      BY <1>0, <2>4, <3>1 DEF RefsTyped
    <3>4. connected' \in [Conns -> BOOLEAN]
      BY <1>0, <2>4, <3>1 DEF RefsTyped
    <3>5. error' \in [Conns -> BOOLEAN]
      BY <1>0, <2>4, <3>1 DEF RefsTyped
    <3>6. trouble' \in [Conns -> SUBSET Troubles]
      <4>1. {"failed"} \in SUBSET Troubles
        BY DEF Troubles
      <4> QED BY <1>3, <1>11, <2>4, <4>1
    <3> QED BY <1>0, <2>4, <3>2, <3>3, <3>4, <3>5, <3>6 DEF RefsTyped
  <2>7. owner' \in [DOMAIN tasks -> Managers \union {NoOne}]
    BY <1>0, <2>4 DEF TasksTyped
  <2> QED BY <1>0, <1>1, <2>4, <2>6, <2>7 DEF callVars
<1>9. ASSUME NEW i \in DOMAIN tasks, TaskStep(i) PROVE Goal
  <2> DEFINE c == tasks[i].conn
  <2>0. /\ c \in Conns /\ tasks[i].loop \in 1..Len(loops) /\ i \in 0..n /\ 0 \in 0..n
        /\ at \in [DOMAIN tasks -> Spots] /\ owner \in [DOMAIN tasks -> Managers \union {NoOne}]
    BY <1>4, TaskFields
  <2>1. CASE SetupStarts(i)
    <3>1. /\ stop' = [stop EXCEPT ![c] = FALSE] /\ error' = [error EXCEPT ![c] = FALSE]
          /\ Len(tasks') = n + 1 /\ lifeTask' = [lifeTask EXCEPT ![c] = n + 1]
          /\ \/ trouble' = [trouble EXCEPT ![c] = @ \union {"moved"}] /\ boundReady' = boundReady
             \/ trouble' = trouble /\ boundReady' = [boundReady EXCEPT ![c] = tasks[i].loop]
          /\ TasksTyped' /\ LoopsExist'
          /\ UNCHANGED <<managerVars, connected, session, stack, boundStop, callVars>>
      BY <2>1, SetupShape
    <3>2. UNCHANGED loops
      BY <3>1 DEF managerVars, loopVars
    <3>4. lifeTask' \in [Conns -> 0..Len(tasks')]
      <4>1. lifeTask \in [Conns -> 0..n]
        BY <1>0 DEF RefsTyped
      <4>2. 0..n \subseteq 0..(n + 1) /\ n + 1 \in 0..(n + 1)
        BY <1>0
      <4>3. lifeTask' \in [Conns -> 0..(n + 1)]
        <5> HIDE DEF n, c
        <5> QED BY <3>1, <4>1, <4>2
      <4> QED BY <3>1, <4>3
    <3>5. boundReady' \in [Conns -> 0..Len(loops')] /\ boundStop' \in [Conns -> 0..Len(loops')]
      <4>1. /\ boundReady \in [Conns -> 0..Len(loops)] /\ boundStop \in [Conns -> 0..Len(loops)]
            /\ boundStop' = boundStop
        BY <1>0, <3>1 DEF RefsTyped
      <4>2. boundReady' \in [Conns -> 0..Len(loops)]
        BY <2>0, <3>1, <4>1
      <4> QED BY <3>2, <4>1, <4>2
    <3>6. session' \in [Conns -> 0..Len(tasks')] /\ stack' \in [Conns -> 0..Len(tasks')]
      <4>1. /\ session \in [Conns -> 0..n] /\ stack \in [Conns -> 0..n]
            /\ session' = session /\ stack' = stack
        BY <1>0, <3>1 DEF RefsTyped
      <4>2. 0..n \subseteq 0..Len(tasks')
        BY <1>0, <3>1
      <4> QED BY <4>1, <4>2
    <3>7. trouble' \in [Conns -> SUBSET Troubles]
      <4>1. {"moved"} \in SUBSET Troubles
        BY DEF Troubles
      <4> QED BY <1>3, <1>11, <3>1, <4>1
    <3>8. RefsTyped'
      BY <1>0, <3>1, <3>4, <3>5, <3>6, <3>7 DEF RefsTyped
    <3>9. awaits' \in [Threads -> 0..Len(tasks')]
      BY <1>0, <3>1 DEF callVars
    <3> QED BY <3>1, <3>8, <3>9
  <2>2. CASE SetupEnds(i) \/ Requests(i)
    <3>1. at' \in [DOMAIN tasks -> Spots]
      BY <2>0, <2>2 DEF SetupEnds, Requests, Spots, Over
    <3>2. UNCHANGED <<connVars, tasks, joins, owner, callVars, trouble>>
      BY <2>2 DEF SetupEnds, Requests
    <3>3. Refs
      BY <1>0, <3>2 DEF connVars, RefsTyped
    <3> QED BY <1>0, <1>1, <2>0, <3>1, <3>2, <3>3 DEF callVars
  <2>3. CASE LifeStarts(i) \/ LifeWoken(i) \/ LifeCloses(i)
    <3>1. at' \in [DOMAIN tasks -> Spots]
      BY <2>0, <2>3 DEF LifeStarts, LifeWoken, LifeCloses, LifeEnds, Spots, Over
    <3>2. UNCHANGED <<lifeTask, stop, error, boundReady, boundStop, tasks, joins, owner, callVars, trouble>>
      BY <2>3 DEF LifeStarts, LifeWoken, LifeCloses
    <3>3. stack' \in [Conns -> 0..n]
      BY <1>0, <2>0, <2>3 DEF LifeStarts, LifeWoken, LifeCloses, RefsTyped
    <3>4. session' \in [Conns -> 0..n] /\ connected' \in [Conns -> BOOLEAN]
      <4>1. session \in [Conns -> 0..n] /\ connected \in [Conns -> BOOLEAN]
        BY <1>0 DEF RefsTyped
      <4>2. CASE UNCHANGED <<session, connected>>
        BY <4>1, <4>2
      <4>3. CASE session' = [session EXCEPT ![c] = 0] /\ connected' = [connected EXCEPT ![c] = FALSE]
        BY <2>0, <4>1, <4>3
      <4> QED BY <2>3, <4>2, <4>3 DEF LifeStarts, LifeWoken, LifeCloses, LifeEnds
    <3>5. Refs
      BY <1>0, <3>2, <3>3, <3>4 DEF RefsTyped
    <3> QED BY <1>0, <1>1, <2>0, <3>1, <3>2, <3>5 DEF callVars
  <2>4. CASE LifeFails(i)
    <3>1. /\ at' = [at EXCEPT ![i] = "raised"] /\ trouble' = [trouble EXCEPT ![c] = @ \union {"unclosed"}]
          /\ UNCHANGED <<connVars, tasks, joins, owner, callVars>>
      BY <2>4 DEF LifeFails
    <3>2. at' \in [DOMAIN tasks -> Spots] /\ {"unclosed"} \in SUBSET Troubles
      BY <2>0, <3>1 DEF Spots, Over, Troubles
    <3>3. trouble' \in [Conns -> SUBSET Troubles]
      BY <1>3, <3>1, <3>2
    <3>4. Refs
      BY <1>0, <3>1, <3>3 DEF connVars, RefsTyped
    <3> QED BY <1>0, <1>1, <2>0, <3>1, <3>2, <3>4 DEF callVars
  <2>5. CASE StopStarts(i)
    <3>1. /\ at' \in [DOMAIN tasks -> Spots] /\ tasks' = tasks
          /\ joins' = [joins EXCEPT ![i] = lifeTask[c]] /\ stop' = [stop EXCEPT ![c] = TRUE]
          /\ UNCHANGED <<managerVars, connected, session, stack, lifeTask, error, boundReady,
                         boundStop, owner, callVars, trouble>>
      BY <2>5, StopShape
    <3>2. UNCHANGED loops
      BY <3>1 DEF managerVars, loopVars
    <3>3. joins' \in [DOMAIN tasks -> 0..n]
      BY <1>0, <2>0, <3>1 DEF RefsTyped, TasksTyped
    <3>4. RefsTyped'
      BY <1>0, <3>1, <3>2 DEF RefsTyped
    <3> QED BY <1>0, <2>0, <3>1, <3>2, <3>3, <3>4 DEF TasksTyped, LoopsExist, callVars
  <2>6. CASE StopEnds(i)
    <3>1. /\ connected' = [connected EXCEPT ![c] = FALSE]
          /\ lifeTask' = [lifeTask EXCEPT ![c] = 0]
          /\ at' = [at EXCEPT ![i] = "raised"] \/ at' = [at EXCEPT ![i] = "unlisting"]
          /\ owner' = [owner EXCEPT ![i] = managerOf[c]]
          /\ trouble' = trouble \/ trouble' = [trouble EXCEPT ![c] = @ \union {"left"}]
          /\ UNCHANGED <<session, stack, stop, error, boundReady, boundStop, tasks, joins, callVars>>
      BY <2>6 DEF StopEnds
    <3>2. at' \in [DOMAIN tasks -> Spots]
      BY <2>0, <3>1 DEF Spots, Over, Unregistering
    <3>3. owner' \in [DOMAIN tasks -> Managers \union {NoOne}]
      <4>1. managerOf[c] \in Managers \union {NoOne}
        BY <2>0, TaskFields
      <4> QED BY <2>0, <3>1, <4>1
    <3>4. trouble' \in [Conns -> SUBSET Troubles]
      <4>1. {"left"} \in SUBSET Troubles
        BY DEF Troubles
      <4> QED BY <1>3, <1>11, <3>1, <4>1
    <3>5. Refs
      BY <1>0, <2>0, <3>1, <3>4 DEF RefsTyped
    <3> QED BY <1>0, <1>1, <3>1, <3>2, <3>3, <3>5 DEF callVars
  <2>7. CASE Unregisters(i)
    <3>1. /\ at' = [at EXCEPT ![i] = "unmapping"] \/ at' = [at EXCEPT ![i] = "disowning"]
             \/ at' = [at EXCEPT ![i] = "done"]
          /\ owner' = owner \/ owner' = [owner EXCEPT ![i] = NoOne]
          /\ UNCHANGED <<connVars, tasks, joins, callVars, trouble>>
      BY <2>7 DEF Unregisters
    <3>2. at' \in [DOMAIN tasks -> Spots]
      BY <2>0, <3>1 DEF Spots, Over, Unregistering
    <3>3. owner' \in [DOMAIN tasks -> Managers \union {NoOne}]
      BY <2>0, <3>1
    <3>4. Refs
      BY <1>0, <3>1 DEF connVars, RefsTyped
    <3> QED BY <1>0, <1>1, <3>1, <3>2, <3>3, <3>4 DEF callVars
  <2> QED BY <1>9, <2>1, <2>2, <2>3, <2>4, <2>5, <2>6, <2>7 DEF TaskStep
<1>10. CASE UNCHANGED vars
  BY <1>0, <1>2, <1>11, <1>10 DEF vars, callVars
<1> QED BY <1>5, <1>6, <1>7, <1>8, <1>9, <1>10 DEF Next

LEMMA IsParts == IInv <=> IParts
<1>1. IInv => IParts
  BY Parts DEF IInv, IParts
<1>2. IParts => IInv
  BY Parts DEF IInv, IParts
<1> QED BY <1>1, <1>2

\* Every step keeps it.
LEMMA ConnectionKeeps ==
  ASSUME IInv, [Next]_vars
  PROVE  IInv'
<1>1. IParts /\ RegistryInv /\ LoopsTyped /\ CallsTyped /\ CallsFit /\ on \in [Threads -> Conns]
  BY IsParts DEF IParts, CallsTyped
<1>2. RegistryInv'
  BY <1>1, RegistryKeeps
<1>3. LoopsTyped'
  BY <1>1, LoopsGrow
<1>4. TasksTyped' /\ RefsTyped' /\ LoopsExist' /\ awaits' \in [Threads -> 0..Len(tasks')]
  BY <1>1, TasksKeep
<1>5. /\ op' \in [Threads -> Calls] /\ on' \in [Threads -> Conns]
      /\ calls' \in [Threads -> Seq(SUBSET Calls)] /\ CallsFit'
  BY <1>1, CallsKeep
<1>6. CallsTyped'
  BY <1>4, <1>5 DEF CallsTyped
<1>7. TypeOK'
  <2>1. ManagerTypeOK' <=> LoopsTyped'
    BY <1>2 DEF RegistryInv, ManagerTypeOK, LoopsTyped, LoopStates
  <2> QED BY <1>3, <1>4, <1>6, <2>1 DEF TypeOK, TasksTyped, RefsTyped, CallsTyped
<1> QED BY <1>2, <1>4, <1>5, <1>7 DEF IInv

\* The types, the registries, the calls and the loops of the tasks, for every number of
\* threads, managers, connections and calls.
THEOREM ConnectionInvariance == Spec => []IInv
<1>1. Init => IInv
  <2> SUFFICES ASSUME Init PROVE IInv
    OBVIOUS
  <2>1. RegistryInv
    BY ManagerAssumption DEF Init, ManagerInit, RegistryInv, Removing, Removal, Registered, Places, NoneYet
  <2>2. LoopsTyped
    BY DEF Init, ManagerInit, LoopsTyped
  <2>3. TasksTyped /\ Len(tasks) = 0 /\ Len(loops) = 0
    BY DEF Init, ManagerInit, TasksTyped
  <2>4. RefsTyped
    BY <2>3 DEF Init, RefsTyped
  <2>5. (CHOOSE c \in Conns : TRUE) \in Conns
    BY ConnectionAssumption
  <2>6. CallsTyped
    BY <2>3, <2>5, ConnectionAssumption DEF Init, CallsTyped, Calls
  <2>7. CallsFit /\ LoopsExist
    BY DEF Init, ManagerInit, CallsFit, LoopsExist, Looking, Writing, Using
  <2> QED BY <2>1, <2>2, <2>3, <2>4, <2>6, <2>7, IsParts DEF IParts
<1> QED BY <1>1, ConnectionKeeps, PTL DEF Spec

-----------------------------------------------------------------------------
(***************************************************************************)
(* What every step does to the tasks there are, and to a thread that makes *)
(* calls.                                                                  *)
(***************************************************************************)
\* Tasks stay what they are, one that is over stays where it is, none starts twice, and
\* trouble is not forgotten.
TasksGoOn ==
  /\ \A c \in Conns : trouble[c] \subseteq trouble'[c]
  /\ \A i \in DOMAIN tasks :
       /\ i \in DOMAIN tasks' /\ tasks'[i] = tasks[i]
       /\ at[i] \in Over => at'[i] = at[i]
       /\ at'[i] = "ready" => at[i] = "ready"

\* Only submitting a call makes a thread add a task.
LEMMA ThreadTasks ==
  ASSUME NEW t \in Threads, ThreadStep(t), ~ Submits(t)
  PROVE  UNCHANGED taskVars
<1>1. CASE Rest
  BY <1>1 DEF Rest
<1>2. CASE Shifts(t) \/ Drops(t) \/ Registers(t) \/ Owns(t) \/ Ask(t) \/ Take(t) \/ Check(t)
  BY <1>2 DEF Shifts, Drops, Registers, Owns, Ask, Take, Check
<1>3. CASE Send(t) \/ Returns(t) \/ TimesOut(t)
  BY <1>3 DEF Send, Submits, Returns, TimesOut, Ends
<1> QED BY <1>1, <1>2, <1>3 DEF ThreadStep

LEMMA TroubleGrows ==
  ASSUME IParts, NEW t \in Threads, ThreadStep(t) \/ Application(t), NEW c \in Conns
  PROVE  trouble[c] \subseteq trouble'[c]
<1>0. trouble \in [Conns -> SUBSET Troubles]
  BY TaskFields
<1>1. ASSUME NEW d, NEW new, trouble' = [trouble EXCEPT ![d] = @ \union new]
      PROVE  trouble[c] \subseteq trouble'[c]
  BY <1>0, <1>1
<1>2. CASE UNCHANGED trouble
  BY <1>2
<1>3. CASE Send(t)
  BY <1>1, <1>2, <1>3 DEF Send
<1>4. CASE Owns(t)
  <2> DEFINE dead == IF via[t] \in shut THEN {"shutDown"} ELSE {}
             changed == IF managerOf[on[t]] \in {NoOne, via[t]} THEN {} ELSE {"rehomed"}
  <2>1. trouble' = [trouble EXCEPT ![on[t]] = @ \union (dead \union changed)]
    BY <1>4 DEF Owns
  <2> QED BY <1>1, <2>1
<1>5. CASE TimesOut(t)
  <2> DEFINE late == IF op[t] = "close" THEN {"lateClose"} ELSE {}
  <2>1. trouble' = [trouble EXCEPT ![on[t]] = @ \union ({"gaveUp"} \union late)]
    BY <1>5 DEF TimesOut
  <2> QED BY <1>1, <2>1
<1>6. CASE Drops(t)
  BY <1>6 DEF Drops
<1>7. CASE Rest \/ Shifts(t) \/ Registers(t) \/ Ask(t) \/ Take(t) \/ Check(t) \/ Returns(t)
  BY <1>7 DEF Rest, Shifts, Registers, Ask, Take, Check, Returns
<1>8. CASE \E m \in Managers : Shutdown(t, m)
  BY <1>8 DEF Shutdown
<1>9. CASE \E d \in Conns : LookUp(t, d)
  BY <1>9 DEF LookUp
<1>10. CASE \E d \in Conns, what \in Calls : CallOn(t, d, what)
  BY <1>10 DEF CallOn
<1>11. CASE ThreadStep(t)
  BY <1>3, <1>4, <1>5, <1>6, <1>7, <1>11 DEF ThreadStep
<1>12. CASE Application(t)
  BY <1>8, <1>9, <1>10, <1>12 DEF Application, Register, Use, Calls
<1> QED BY <1>11, <1>12

LEMMA StepShape ==
  ASSUME IParts, [Next]_vars
  PROVE  TasksGoOn
<1>0. at \in [DOMAIN tasks -> Spots] /\ trouble \in [Conns -> SUBSET Troubles]
  BY TaskFields
<1>1. ASSUME NEW t \in Threads, ThreadStep(t) \/ Application(t) PROVE TasksGoOn
  <2>1. \A c \in Conns : trouble[c] \subseteq trouble'[c]
    BY <1>1, TroubleGrows
  <2>2. CASE Submits(t)
    BY <2>1, <2>2, SubmitShape DEF TasksGoOn
  <2>3. CASE UNCHANGED taskVars
    BY <2>1, <2>3 DEF taskVars, TasksGoOn
  <2> QED BY <1>1, <2>2, <2>3, ThreadTasks, CallShape
<1>3. CASE LoopThreads \/ UNCHANGED vars
  <2>1. UNCHANGED <<tasks, at, trouble>>
    BY <1>3 DEF LoopThreads, Rest, vars, taskVars
  <2> QED BY <2>1 DEF TasksGoOn
<1>4. CASE Server
  <2>1. PICK i \in DOMAIN tasks, works \in BOOLEAN : Connects(i, works)
    BY <1>4 DEF Server
  <2> QED BY <2>1, ConnectsShape DEF TasksGoOn, Over
<1>5. ASSUME NEW i \in DOMAIN tasks, TaskStep(i) PROVE TasksGoOn
  <2> USE <1>0 DEF TasksGoOn
  <2>1. CASE SetupStarts(i)
    <3>1. /\ \A j \in DOMAIN tasks : /\ j \in DOMAIN tasks' /\ tasks'[j] = tasks[j]
                                     /\ at'[j] = at[j] \/ (j = i /\ at'[j] \in {"raised", "onReady"})
          /\ at[i] = "ready"
          /\ \/ trouble' = [trouble EXCEPT ![tasks[i].conn] = @ \union {"moved"}]
             \/ trouble' = trouble
      BY <2>1, SetupShape
    <3>2. \A c \in Conns : trouble[c] \subseteq trouble'[c]
      BY <3>1
    <3> QED BY <3>1, <3>2 DEF Over
  <2>2. CASE SetupEnds(i)
    BY <2>2 DEF SetupEnds, Turn, Over
  <2>3. CASE LifeStarts(i)
    BY <2>3 DEF LifeStarts, Turn, Over
  <2>4. CASE LifeWoken(i) \/ LifeCloses(i)
    BY <2>4 DEF LifeWoken, LifeCloses, LifeEnds, Turn, Over
  <2>5. CASE LifeFails(i)
    BY <2>5 DEF LifeFails, Turn, Over
  <2>6. CASE StopStarts(i)
    BY <2>6, StopShape DEF Over
  <2>7. CASE StopEnds(i)
    <3>1. /\ tasks' = tasks /\ at[i] = "joining"
          /\ at' = [at EXCEPT ![i] = "raised"] \/ at' = [at EXCEPT ![i] = "unlisting"]
          /\ trouble' = trouble \/ trouble' = [trouble EXCEPT ![tasks[i].conn] = @ \union {"left"}]
      BY <2>7 DEF StopEnds, Turn
    <3> QED BY <3>1 DEF Over
  <2>8. CASE Unregisters(i)
    <3>1. /\ tasks' = tasks /\ trouble' = trouble /\ at[i] \in Unregistering
          /\ \/ at' = [at EXCEPT ![i] = "unmapping"] \/ at' = [at EXCEPT ![i] = "disowning"]
             \/ at' = [at EXCEPT ![i] = "done"]
      BY <2>8 DEF Unregisters, Turn, Unregistering
    <3> QED BY <3>1 DEF Over, Unregistering
  <2>9. CASE Requests(i)
    BY <2>9 DEF Requests, Turn, Over
  <2> QED BY <1>5, <2>1, <2>2, <2>3, <2>4, <2>5, <2>6, <2>7, <2>8, <2>9 DEF TaskStep
<1> QED BY <1>1, <1>3, <1>4, <1>5 DEF Next

\* A thread rests, begins a call, goes on with it, submits it, or is done with it.
Rests(t) ==
  /\ pc'[t] = pc[t] /\ op'[t] = op[t] /\ on'[t] = on[t] /\ awaits'[t] = awaits[t]
  /\ via'[t] = via[t]

Begins(t) ==
  /\ pc[t] = "idle" /\ awaits'[t] = awaits[t] /\ UNCHANGED <<connVars, taskVars>>
  /\ \/ op'[t] = "shutdown" /\ pc'[t] = "stopping"
     \/ op'[t] = "look" /\ pc'[t] = "finding"
     \/ /\ op'[t] \in {"register", "connect", "close", "request"} /\ t \in Users[on'[t]]
        /\ op'[t] = "connect" => ~ connected[on'[t]]
        /\ pc'[t] \in {"finding", "asking"}

SameCall(t) == op'[t] = op[t] /\ on'[t] = on[t] /\ awaits'[t] = awaits[t]

Moves(t) ==
  /\ SameCall(t) /\ pc[t] \in Underway \ {"waiting"}
  /\ pc'[t] \in (Underway \ {"waiting"}) \union {"idle"}
  /\ pc'[t] = "loop" => via'[t] = managerOf[on[t]] /\ UNCHANGED managerOf
  /\ pc'[t] \in {"starting", "submit", "sending"} =>
       pc[t] \in {"loop", "starting", "submit"} /\ via'[t] = via[t]

Removes(t) ==
  /\ SameCall(t) /\ pc[t] \in Removal \union {"sifting", "dropping"}
  /\ pc'[t] \in Removal \union {"sifting", "dropping", "idle"}

Finishes(t) ==
  /\ pc[t] = "waiting" /\ pc'[t] = "idle" /\ op'[t] = op[t] /\ on'[t] = on[t]
  /\ \/ at[awaits[t]] \in Over
     \/ "gaveUp" \in trouble'[on[t]] /\ (op[t] = "close" => "lateClose" \in trouble'[on[t]])

\* A step of one thread leaves the others where they are.
LEMMA OthersRest ==
  ASSUME IParts, NEW t \in Threads, ThreadStep(t) \/ Application(t)
  PROVE  \A u \in Threads \ {t} : Rests(u)
<1>0. /\ pc \in [Threads -> Places] /\ via \in [Threads -> made \union {NoOne}]
      /\ op \in [Threads -> Calls] /\ on \in [Threads -> Conns] /\ DOMAIN awaits = Threads
  BY TaskFields DEF IParts, RegistryInv, CallsTyped
<1>1. ASSUME NEW p, GoOn(t, p), via' = via \/ \E m : Has(t, m),
             op' = op \/ \E what : op' = [op EXCEPT ![t] = what],
             on' = on \/ \E c : on' = [on EXCEPT ![t] = c],
             awaits' = awaits \/ \E i : awaits' = [awaits EXCEPT ![t] = i]
      PROVE  \A u \in Threads \ {t} : Rests(u)
  <2> SUFFICES ASSUME NEW u \in Threads \ {t} PROVE Rests(u)
    OBVIOUS
  <2>1. pc'[u] = pc[u] /\ via'[u] = via[u]
    BY <1>0, <1>1 DEF GoOn, Has
  <2>2. op'[u] = op[u] /\ on'[u] = on[u]
    BY <1>0, <1>1
  <2>3. awaits'[u] = awaits[u]
    BY <1>0, <1>1
  <2> QED BY <2>1, <2>2, <2>3 DEF Rests
<1>2. ASSUME UNCHANGED <<op, on, awaits>>, \E p : GoOn(t, p), via' = via \/ \E m : Has(t, m)
      PROVE  \A u \in Threads \ {t} : Rests(u)
  BY <1>1, <1>2
<1>3. CASE Application(t)
  <2>1. /\ awaits' = awaits /\ \E what : op' = [op EXCEPT ![t] = what]
        /\ on' = on \/ \E c : on' = [on EXCEPT ![t] = c]
        /\ \/ \E p : Stay(t, p)
           \/ \E m : GoOn(t, "stopping")
    BY <1>3, CallShape
  <2>2. via' = via \/ \E m : Has(t, m)
    BY <1>3 DEF Application, Register, LookUp, Use, Shutdown, ShutdownBegins, Stay
  <2> QED BY <1>1, <2>1, <2>2 DEF Stay
<1>4. CASE ThreadStep(t)
  <2>1. CASE Rest
    <3>1. UNCHANGED <<op, on, awaits>>
      BY <2>1 DEF Rest, callVars
    <3>2. ASSUME Find(t) \/ Construct(t) \/ Assign(t) \/ Fetch(t)
          PROVE  (\E p : GoOn(t, p)) /\ (via' = via \/ \E m : Has(t, m))
      BY <3>2 DEF Find, Construct, Assign, Fetch, Stay, Leave
    <3>3. ASSUME EnsureLoop(t) \/ StartLoop(t) \/ StopsLoop(t) \/ Tell(t)
                 \/ Joined(t) \/ Pop(t) \/ Sift(t)
          PROVE  (\E p : GoOn(t, p)) /\ (via' = via \/ \E m : Has(t, m))
      BY <3>3 DEF EnsureLoop, StartLoop, StopsLoop, Tell, Joined, Pop, Sift, Stay, Leave
    <3>4. ASSUME Shifts(t) \/ Drops(t) \/ Registers(t) \/ Owns(t) \/ Ask(t) \/ Take(t) \/ Check(t)
          PROVE  (\E p : GoOn(t, p)) /\ (via' = via \/ \E m : Has(t, m))
      BY <3>4 DEF Shifts, SiftRaises, Drops, Drop, Registers, RegisterCheck, RegisterName,
                  RegisterEntry, Owns, RegisterOwner, Ask, Take, Check, Stay, Leave
    <3>5. ASSUME Send(t) \/ Returns(t) \/ TimesOut(t)
          PROVE  (\E p : GoOn(t, p)) /\ (via' = via \/ \E m : Has(t, m))
      BY <3>5 DEF Send, Returns, TimesOut, Ends, Stay, Leave
    <3> QED BY <1>2, <1>4, <3>1, <3>2, <3>3, <3>4, <3>5 DEF ThreadStep
  <2>2. CASE Shifts(t) \/ Drops(t) \/ Registers(t) \/ Owns(t) \/ Ask(t) \/ Take(t) \/ Check(t)
    <3>1. UNCHANGED <<op, on, awaits>>
      BY <2>2 DEF Shifts, Drops, Registers, Owns, Ask, Take, Check, callVars
    <3>2. (\E p : GoOn(t, p)) /\ (via' = via \/ \E m : Has(t, m))
      BY <2>2 DEF Shifts, SiftRaises, Drops, Drop, Registers, RegisterCheck, RegisterName,
                  RegisterEntry, Owns, RegisterOwner, Ask, Take, Check, Stay, Leave
    <3> QED BY <1>2, <3>1, <3>2
  <2>3. CASE Send(t) \/ Returns(t) \/ TimesOut(t)
    <3>1. UNCHANGED <<op, on>> /\ (awaits' = awaits \/ \E i : awaits' = [awaits EXCEPT ![t] = i])
      BY <2>3 DEF Send, Returns, TimesOut, Ends
    <3>2. (\E p : GoOn(t, p)) /\ (via' = via \/ \E m : Has(t, m))
      BY <2>3 DEF Send, Returns, TimesOut, Ends, Stay, Leave
    <3> QED BY <1>1, <3>1, <3>2
  <2> QED BY <1>4, <2>1, <2>2, <2>3 DEF ThreadStep
<1> QED BY <1>3, <1>4

\* What a step of a thread does to itself.
LEMMA ThreadMoves ==
  ASSUME IParts, NEW t \in Threads, ThreadStep(t), ~ Submits(t)
  PROVE  Moves(t) \/ Removes(t) \/ Finishes(t)
<1>0. /\ pc \in [Threads -> Places] /\ via \in [Threads -> made \union {NoOne}]
      /\ op \in [Threads -> Calls] /\ on \in [Threads -> Conns] /\ DOMAIN awaits = Threads
      /\ trouble \in [Conns -> SUBSET Troubles]
  BY TaskFields DEF IParts, RegistryInv, CallsTyped
<1>1. ASSUME NEW p, GoOn(t, p) PROVE pc'[t] = p
  BY <1>0, <1>1 DEF GoOn
<1>2. ASSUME UNCHANGED callVars PROVE SameCall(t)
  BY <1>2 DEF SameCall, callVars
<1>3. ASSUME SameCall(t), pc[t] \in Underway \ {"waiting"},
             pc'[t] \in (Underway \ {"waiting", "loop", "starting", "submit", "sending"}) \union {"idle"}
      PROVE  Moves(t)
  BY <1>3 DEF Moves, Underway, Looking, Writing, Using
<1>4. ASSUME SameCall(t), pc[t] \in {"loop", "starting", "submit"}, via' = via,
             pc'[t] \in {"starting", "submit", "sending"}
      PROVE  Moves(t)
  BY <1>4 DEF Moves, Underway, Looking, Writing, Using
<1>5. CASE Rest /\ (Find(t) \/ Construct(t) \/ Assign(t) \/ Fetch(t))
  <2>1. pc[t] \in Looking /\ \E p \in Looking \union {"idle"} : GoOn(t, p)
    BY <1>5 DEF Find, Construct, Assign, Fetch, Stay, Leave, Looking
  <2>2. SameCall(t)
    BY <1>2, <1>5 DEF Rest
  <2> QED BY <1>1, <1>3, <2>1, <2>2 DEF Underway, Looking
<1>6. CASE Rest /\ (EnsureLoop(t) \/ StartLoop(t))
  <2>1. /\ pc[t] \in {"loop", "starting"}
        /\ GoOn(t, "idle") \/ Stay(t, "starting") \/ Stay(t, "submit")
    BY <1>6 DEF EnsureLoop, StartLoop, Leave
  <2>2. SameCall(t)
    BY <1>2, <1>6 DEF Rest
  <2>3. pc[t] \in Underway \ {"waiting"}
    BY <2>1 DEF Underway, Using
  <2> QED BY <1>1, <1>3, <1>4, <2>1, <2>2, <2>3 DEF Stay
<1>7. CASE (Rest /\ (StopsLoop(t) \/ Tell(t) \/ Joined(t) \/ Pop(t) \/ Sift(t)))
           \/ Shifts(t) \/ Drops(t)
  <2>1. /\ pc[t] \in Removal \union {"sifting", "dropping"}
        /\ \E p \in Removal \union {"sifting", "dropping", "idle"} : GoOn(t, p)
    BY <1>7 DEF StopsLoop, Tell, Joined, Pop, Sift, Shifts, SiftRaises, Drops, Drop, Stay, Leave, Removal
  <2>2. SameCall(t)
    BY <1>2, <1>7 DEF Rest, Shifts, Drops
  <2> QED BY <1>1, <2>1, <2>2 DEF Removes
<1>8. CASE Registers(t) \/ Owns(t) \/ Ask(t)
  <2>1. SameCall(t)
    BY <1>2, <1>8 DEF Registers, Owns, Ask
  <2>2. /\ pc[t] \in {"found", "writing", "listing", "owning", "asking"}
        /\ \E p \in {"idle", "writing", "listing", "owning", "taking", "finding"} : GoOn(t, p)
    BY <1>8 DEF Registers, RegisterCheck, RegisterName, RegisterEntry, Owns, RegisterOwner, Ask,
                Stay, Leave
  <2> QED BY <1>1, <1>3, <2>1, <2>2 DEF Underway, Looking, Writing, Using
<1>9. CASE Take(t)
  <2>1. SameCall(t) /\ pc[t] = "taking" /\ managerOf' = managerOf
    BY <1>2, <1>9 DEF Take, registryVars
  <2>2. GoOn(t, "idle") \/ (Has(t, managerOf[on[t]]) /\ GoOn(t, "loop"))
    BY <1>9 DEF Take, Leave
  <2>3. CASE GoOn(t, "idle")
    BY <1>1, <1>3, <2>1, <2>3 DEF Underway, Using
  <2>4. CASE Has(t, managerOf[on[t]]) /\ GoOn(t, "loop")
    <3>1. pc'[t] = "loop" /\ via'[t] = managerOf[on[t]]
      BY <1>0, <1>1, <2>4 DEF Has
    <3> QED BY <2>1, <3>1 DEF Moves, Underway, Using
  <2> QED BY <2>2, <2>3, <2>4
<1>10. CASE Check(t)
  <2>1. /\ SameCall(t) /\ pc[t] = "submit"
        /\ GoOn(t, "idle") \/ Stay(t, "sending")
    BY <1>2, <1>10 DEF Check, Leave
  <2>2. pc[t] \in Underway \ {"waiting"}
    BY <2>1 DEF Underway, Using
  <2> QED BY <1>1, <1>3, <1>4, <2>1, <2>2 DEF Stay
<1>11. CASE Send(t)
  <2>1. UNCHANGED <<op, on, awaits>> /\ pc[t] = "sending" /\ GoOn(t, "idle")
    BY <1>11 DEF Send, Submits, Leave
  <2> QED BY <1>1, <1>3, <2>1 DEF SameCall, Underway, Using
<1>12. CASE Returns(t) \/ TimesOut(t)
  <2>1. /\ pc[t] = "waiting" /\ GoOn(t, "idle") /\ UNCHANGED <<op, on>>
    BY <1>12 DEF Returns, TimesOut, Ends, Leave
  <2>2. \/ at[awaits[t]] \in Over
        \/ "gaveUp" \in trouble'[on[t]] /\ (op[t] = "close" => "lateClose" \in trouble'[on[t]])
    BY <1>0, <1>12 DEF Returns, TimesOut
  <2> QED BY <1>1, <2>1, <2>2 DEF Finishes
<1> QED BY <1>5, <1>6, <1>7, <1>8, <1>9, <1>10, <1>11, <1>12 DEF ThreadStep

LEMMA ThreadShape ==
  ASSUME IParts, [Next]_vars, NEW t \in Threads
  PROVE  Rests(t) \/ Begins(t) \/ Moves(t) \/ Removes(t) \/ Finishes(t) \/ Submits(t)
<1>1. ASSUME NEW u \in Threads, ThreadStep(u)
      PROVE  Rests(t) \/ Moves(t) \/ Removes(t) \/ Finishes(t) \/ Submits(t)
  BY <1>1, OthersRest, ThreadMoves
<1>2. ASSUME NEW u \in Threads, Application(u) PROVE Rests(t) \/ Begins(t)
  <2>1. CASE u # t
    BY <1>2, <2>1, OthersRest
  <2>2. CASE u = t
    <3>0. /\ op \in [Threads -> Calls] /\ on \in [Threads -> Conns] /\ pc \in [Threads -> Places]
      BY TaskFields DEF IParts, CallsTyped
    <3>1. PICK what \in Calls :
            /\ op' = [op EXCEPT ![t] = what]
            /\ \/ what = "look" /\ UNCHANGED on /\ Stay(t, "finding")
               \/ what = "shutdown" /\ UNCHANGED on /\ GoOn(t, "stopping")
               \/ \E c \in Conns : /\ t \in Users[c] /\ on' = [on EXCEPT ![t] = c]
                                   /\ \/ what = "register" /\ Stay(t, "finding")
                                      \/ /\ what \in {"connect", "close", "request"}
                                         /\ what = "connect" => ~ connected[c]
                                         /\ Stay(t, "asking")
      BY <1>2, <2>2, CallShape
    <3>2. pc[t] = "idle" /\ UNCHANGED <<connVars, taskVars, awaits>>
      BY <1>2, <2>2, CallShape
    <3>3. op'[t] = what
      BY <3>0, <3>1
    <3>4. \A p : GoOn(t, p) => pc'[t] = p
      BY <3>0 DEF GoOn
    <3>5. \A c : on' = [on EXCEPT ![t] = c] => on'[t] = c
      BY <3>0
    <3> QED BY <3>1, <3>2, <3>3, <3>4, <3>5 DEF Begins, Stay
  <2> QED BY <2>1, <2>2
<1>3. CASE LoopThreads \/ UNCHANGED vars
  <2>1. UNCHANGED <<pc, op, on, awaits, via>>
    BY <1>3 DEF LoopThreads, ThreadReads, LoopRuns, LoopStops, Becomes, Rest, callVars, vars, managerVars
  <2> QED BY <2>1 DEF Rests
<1>4. CASE Server
  <2>1. UNCHANGED <<pc, op, on, awaits, via>>
    BY <1>4 DEF Server, Connects, managerVars, callVars
  <2> QED BY <2>1 DEF Rests
<1>5. ASSUME NEW i \in DOMAIN tasks, TaskStep(i) PROVE Rests(t)
  <2>1. UNCHANGED <<pc, op, on, awaits, via>>
    BY <1>5 DEF TaskStep, SetupStarts, SetupEnds, LifeStarts, LifeWoken, LifeCloses, LifeFails,
                StopStarts, StopEnds, Unregisters, Requests, managerVars, callVars
  <2> QED BY <2>1 DEF Rests
<1> QED BY <1>1, <1>2, <1>3, <1>4, <1>5 DEF Next

-----------------------------------------------------------------------------
(***************************************************************************)
(* Who calls and who waits: as long as no call timed out, a coroutine that *)
(* is not over has the one thread of its connection waiting for it, so two *)
(* of them never run for one connection.                                   *)
(***************************************************************************)
LEMMA CallersKeep ==
  ASSUME IParts, CallersKnown, [Next]_vars
  PROVE  CallersKnown'
<1> SUFFICES ASSUME NEW t \in Threads
             PROVE  /\ pc'[t] \in Underway /\ op'[t] # "look" => t \in Users[on'[t]]
                    /\ pc'[t] = "waiting" =>
                         /\ awaits'[t] \in DOMAIN tasks' /\ tasks'[awaits'[t]].conn = on'[t]
                         /\ tasks'[awaits'[t]].kind = KindOf(op'[t])
  BY DEF CallersKnown, Underway, Looking, Writing, Using
<1>0. /\ TasksGoOn
      /\ pc[t] \in Underway /\ op[t] # "look" => t \in Users[on[t]]
      /\ pc[t] = "waiting" => /\ awaits[t] \in DOMAIN tasks /\ tasks[awaits[t]].conn = on[t]
                              /\ tasks[awaits[t]].kind = KindOf(op[t])
  BY StepShape DEF CallersKnown
<1>1. CASE Rests(t)
  BY <1>0, <1>1 DEF Rests, TasksGoOn
<1>2. CASE Begins(t) \/ Moves(t) \/ Removes(t) \/ Finishes(t)
  BY <1>0, <1>2 DEF Begins, Moves, Removes, Finishes, SameCall, Underway, Looking, Writing, Using,
                    Removal
<1>3. CASE Submits(t)
  <2>1. /\ DOMAIN tasks' = DOMAIN tasks \union {Len(tasks) + 1}
        /\ tasks'[Len(tasks) + 1] = [kind |-> KindOf(op[t]), conn |-> on[t], loop |-> loopOf[via[t]]]
        /\ pc[t] = "sending" /\ awaits' = [awaits EXCEPT ![t] = Len(tasks) + 1]
        /\ UNCHANGED <<op, on>>
    BY <1>3, SubmitShape
  <2>2. awaits'[t] = Len(tasks) + 1
    BY <2>1, TaskFields
  <2> QED BY <1>0, <2>1, <2>2 DEF Underway, Using
<1> QED BY <1>1, <1>2, <1>3, ThreadShape

\* A task that is added is a lifecycle task or one that a thread submitted just now.
LEMMA NewTasks ==
  ASSUME IParts, [Next]_vars, NEW i \in DOMAIN tasks' \ DOMAIN tasks
  PROVE  /\ at'[i] = "ready"
         /\ \/ \E j \in DOMAIN tasks : SetupStarts(j) /\ i = Len(tasks) + 1
            \/ \E t \in Threads : Submits(t) /\ i = Len(tasks) + 1
<1>1. ASSUME UNCHANGED taskVars PROVE FALSE
  BY <1>1 DEF taskVars
<1>2. ASSUME tasks' = tasks PROVE FALSE
  BY <1>2
<1>3. ASSUME NEW t \in Threads, ThreadStep(t) PROVE Submits(t)
  BY <1>1, <1>3, ThreadTasks
<1>4. ASSUME NEW t \in Threads, Application(t) PROVE FALSE
  BY <1>1, <1>4, CallShape
<1>5. CASE LoopThreads \/ UNCHANGED vars
  BY <1>1, <1>5 DEF LoopThreads, Rest, vars
<1>6. CASE Server
  BY <1>2, <1>6 DEF Server, Connects
<1>7. ASSUME NEW j \in DOMAIN tasks, TaskStep(j) PROVE SetupStarts(j)
  BY <1>2, <1>7 DEF TaskStep, SetupEnds, LifeStarts, LifeWoken, LifeCloses, LifeFails,
                    StopStarts, StopEnds, Unregisters, Requests
<1>8. CASE \E t \in Threads : ThreadStep(t)
  <2>1. PICK t \in Threads : Submits(t)
    BY <1>3, <1>8
  <2>2. DOMAIN tasks' = DOMAIN tasks \union {Len(tasks) + 1} /\ at'[Len(tasks) + 1] = "ready"
    BY <2>1, SubmitShape
  <2> QED BY <2>1, <2>2
<1>9. CASE \E j \in DOMAIN tasks : TaskStep(j)
  <2>1. PICK j \in DOMAIN tasks : SetupStarts(j)
    BY <1>7, <1>9
  <2>2. DOMAIN tasks' = DOMAIN tasks \union {Len(tasks) + 1} /\ at'[Len(tasks) + 1] = "ready"
    BY <2>1, SetupShape
  <2> QED BY <2>1, <2>2
<1> QED BY <1>4, <1>5, <1>6, <1>8, <1>9 DEF Next

\* Who waits for a task of what kind.
LEMMA Kinds ==
  ASSUME IParts, CallersKnown, NEW t \in Threads, pc[t] = "waiting"
  PROVE  /\ awaits[t] \in DOMAIN tasks /\ tasks[awaits[t]].conn = on[t] /\ t \in Users[on[t]]
         /\ \/ op[t] = "connect" /\ tasks[awaits[t]].kind = "setup"
            \/ op[t] = "close" /\ tasks[awaits[t]].kind = "stop"
            \/ op[t] = "request" /\ tasks[awaits[t]].kind = "request"
<1>1. op[t] \in {"connect", "close", "request"}
  BY DEF IParts, CallsFit, Using
<1>2. /\ awaits[t] \in DOMAIN tasks /\ tasks[awaits[t]].conn = on[t]
      /\ tasks[awaits[t]].kind = KindOf(op[t]) /\ t \in Users[on[t]]
  BY <1>1 DEF CallersKnown, Underway, Using
<1>3. CASE op[t] = "connect"
  BY <1>2, <1>3 DEF KindOf
<1>4. CASE op[t] = "close"
  BY <1>2, <1>4 DEF KindOf
<1>5. CASE op[t] = "request"
  BY <1>2, <1>5 DEF KindOf
<1> QED BY <1>1, <1>2, <1>3, <1>4, <1>5

LEMMA AttendedKeep ==
  ASSUME IParts, CallersKnown, Attended, [Next]_vars
  PROVE  Attended'
<1> SUFFICES ASSUME NEW i \in DOMAIN tasks', Expected(i)'
             PROVE  \E t \in Users[tasks'[i].conn] : pc'[t] = "waiting" /\ awaits'[t] = i
  BY DEF Attended
<1>0. TasksGoOn /\ \A j \in DOMAIN tasks : tasks[j].conn \in Conns
  BY StepShape, TaskFields
<1>1. \A c \in Conns : Users[c] \subseteq Threads
  BY ConnectionAssumption
<1>2. CASE i \in DOMAIN tasks
  <2>1. tasks'[i] = tasks[i] /\ tasks[i].conn \in Conns /\ Expected(i) /\ at[i] \notin Over
    BY <1>0, <1>2 DEF TasksGoOn, Expected
  <2>2. PICK t \in Users[tasks[i].conn] : pc[t] = "waiting" /\ awaits[t] = i
    BY <1>2, <2>1 DEF Attended
  <2>3. t \in Threads /\ on[t] = tasks[i].conn /\ (tasks[i].kind = "stop" => op[t] = "close")
    BY <1>1, <2>1, <2>2, Kinds
  <2>4. Rests(t) \/ Finishes(t)
    BY <2>2, <2>3, ThreadShape DEF Begins, Moves, Removes, Underway, Removal, Submits, Send
  <2>5. ~ Finishes(t)
    BY <2>1, <2>2, <2>3 DEF Finishes, Expected
  <2> QED BY <2>1, <2>2, <2>4, <2>5 DEF Rests
<1>3. CASE i \notin DOMAIN tasks
  <2>1. CASE \E j \in DOMAIN tasks : SetupStarts(j) /\ i = Len(tasks) + 1
    <3>1. PICK j \in DOMAIN tasks : SetupStarts(j) /\ i = Len(tasks) + 1
      BY <2>1
    <3>2. tasks'[i] = [kind |-> "life", conn |-> tasks[j].conn, loop |-> tasks[j].loop]
      BY <3>1, SetupShape
    <3> QED BY <3>2 DEF Expected
  <2>2. CASE \E t \in Threads : Submits(t) /\ i = Len(tasks) + 1
    <3>1. PICK t \in Threads : Submits(t) /\ i = Len(tasks) + 1
      BY <2>2
    <3>2. /\ tasks'[i] = [kind |-> KindOf(op[t]), conn |-> on[t], loop |-> loopOf[via[t]]]
          /\ pc[t] = "sending" /\ pc' = [pc EXCEPT ![t] = "waiting"]
          /\ awaits' = [awaits EXCEPT ![t] = i] /\ op[t] \in {"connect", "close", "request"}
      BY <3>1, SubmitShape
    <3>3. pc'[t] = "waiting" /\ awaits'[t] = i
      BY <3>2, TaskFields
    <3>4. t \in Users[on[t]]
      BY <3>2 DEF CallersKnown, Underway, Using
    <3> QED BY <3>2, <3>3, <3>4
  <2> QED BY <1>3, <2>1, <2>2, NewTasks
<1> QED BY <1>2, <1>3

\* One coroutine at a time.
LEMMA OneAtATime ==
  ASSUME OneUser, IParts, CallersKnown, Attended, NEW c \in Conns,
         NEW i \in DOMAIN tasks, tasks[i].conn = c, Expected(i)
  PROVE  \E t \in Users[c] :
           /\ pc[t] = "waiting" /\ awaits[t] = i /\ on[t] = c /\ t \in Threads
           /\ tasks[i].kind = "setup" => op[t] = "connect"
           /\ \A u \in Users[c] : u = t
           /\ \A j \in DOMAIN tasks : tasks[j].conn = c /\ Expected(j) => j = i
<1>1. PICK t \in Users[c] : pc[t] = "waiting" /\ awaits[t] = i
  BY DEF Attended
<1>2. t \in Threads
  BY ConnectionAssumption
<1>3. on[t] = c /\ (tasks[i].kind = "setup" => op[t] = "connect")
  BY <1>1, <1>2, Kinds
<1>4. \A u \in Users[c] : u = t
  BY DEF OneUser
<1>5. \A j \in DOMAIN tasks : tasks[j].conn = c /\ Expected(j) => j = i
  BY <1>1, <1>4 DEF Attended
<1> QED BY <1>1, <1>2, <1>3, <1>4, <1>5

LEMMA ReallyExpected ==
  ASSUME NEW i, tasks[i].kind # "life", at[i] \notin Over, "gaveUp" \notin trouble[tasks[i].conn]
  PROVE  Expected(i)
BY DEF Expected

\* Attempts begin one at a time.
LEMMA OneAttemptKeep ==
  ASSUME OneUser, IParts, CallersKnown, Attended, OneAttempt, [Next]_vars
  PROVE  OneAttempt'
<1> SUFFICES ASSUME NEW c \in Conns, trouble'[c] \intersect {"moved", "gaveUp"} = {}
             PROVE  /\ \A i, j \in Fetching(c)' : i = j
                    /\ Fetching(c)' # {} =>
                         \E j \in DOMAIN tasks' : tasks'[j].kind = "setup" /\ tasks'[j].conn = c /\ at'[j] = "onReady"
  BY DEF OneAttempt
<1> DEFINE Awaiting(j) == tasks[j].kind = "setup" /\ tasks[j].conn = c /\ at[j] = "onReady"
           Goal == /\ \A i, j \in Fetching(c)' : i = j
                   /\ Fetching(c)' # {} =>
                        \E j \in DOMAIN tasks' : tasks'[j].kind = "setup" /\ tasks'[j].conn = c /\ at'[j] = "onReady"
<1>0. TasksGoOn /\ \A j \in DOMAIN tasks : tasks[j].conn \in Conns
  BY StepShape, TaskFields
<1>1. /\ "gaveUp" \notin trouble[c] /\ "moved" \notin trouble[c] /\ "moved" \notin trouble'[c]
      /\ \A i, j \in Fetching(c) : i = j
      /\ Fetching(c) # {} => \E j \in DOMAIN tasks : Awaiting(j)
  BY <1>0 DEF OneAttempt, TasksGoOn
<1>2. ASSUME \A i \in Fetching(c)' : i \in Fetching(c),
             \A j \in DOMAIN tasks : Awaiting(j) => at'[j] = "onReady"
      PROVE  Goal
  <2>1. Fetching(c)' # {} => Fetching(c) # {}
    BY <1>2
  <2> HIDE DEF Fetching
  <2> QED BY <1>0, <1>1, <1>2, <2>1 DEF TasksGoOn
<1>3. ASSUME tasks' = tasks,
             \A j \in DOMAIN tasks :
               /\ at'[j] \in {"ready", "connecting"} => at[j] \in {"ready", "connecting"}
               /\ at[j] = "onReady" => at'[j] = "onReady"
      PROVE  Goal
  BY <1>2, <1>3 DEF Fetching, Living, Over
<1>4. ASSUME UNCHANGED taskVars PROVE Goal
  BY <1>3, <1>4 DEF taskVars
<1>5. ASSUME NEW t \in Threads, ThreadStep(t) PROVE Goal
  <2>1. CASE Submits(t)
    <3>1. /\ DOMAIN tasks' = DOMAIN tasks \union {Len(tasks) + 1}
          /\ \A i \in DOMAIN tasks : tasks'[i] = tasks[i] /\ at'[i] = at[i]
          /\ tasks'[Len(tasks) + 1] = [kind |-> KindOf(op[t]), conn |-> on[t], loop |-> loopOf[via[t]]]
          /\ KindOf(op[t]) \in {"setup", "stop", "request"}
      BY <2>1, SubmitShape
    <3>2. \A i \in Fetching(c)' : i \in Fetching(c)
      BY <3>1 DEF Fetching, Living
    <3> QED BY <1>2, <3>1, <3>2
  <2> QED BY <1>4, <1>5, <2>1, ThreadTasks
<1>6. ASSUME NEW t \in Threads, Application(t) PROVE Goal
  BY <1>4, <1>6, CallShape
<1>7. CASE LoopThreads \/ UNCHANGED vars
  BY <1>4, <1>7 DEF LoopThreads, Rest, vars
<1>8. CASE Server
  <2>1. PICK i \in DOMAIN tasks, works \in BOOLEAN : Connects(i, works)
    BY <1>8 DEF Server
  <2>2. /\ tasks' = tasks /\ tasks[i].kind = "life" /\ at[i] = "connecting"
        /\ AfterReady(i) \in {"done", "closing", "holding"}
        /\ \A j \in DOMAIN tasks :
             at'[j] = IF j = i THEN AfterReady(i)
                      ELSE IF tasks[j].conn = tasks[i].conn /\ tasks[j].kind = "setup" /\ at[j] = "onReady"
                           THEN "woken" ELSE at[j]
    BY <2>1, ConnectsShape
  <2>3. \A j \in Fetching(c)' : j \in Fetching(c) /\ j # i
    BY <2>2 DEF Fetching, Living, Over
  <2>4. CASE tasks[i].conn = c
    <3>1. i \in Fetching(c)
      BY <2>2, <2>4 DEF Fetching, Living, Over
    <3>2. Fetching(c)' = {}
      BY <1>1, <2>3, <3>1
    <3> QED BY <3>2
  <2>5. CASE tasks[i].conn # c
    <3>1. \A j \in DOMAIN tasks : Awaiting(j) => at'[j] = "onReady"
      BY <2>2, <2>5
    <3> QED BY <1>2, <2>3, <3>1
  <2> QED BY <2>4, <2>5
<1>9. ASSUME NEW i \in DOMAIN tasks, TaskStep(i) PROVE Goal
  <2>0. at \in [DOMAIN tasks -> Spots] /\ trouble \in [Conns -> SUBSET Troubles]
    BY TaskFields
  <2>1. CASE SetupStarts(i)
    <3> DEFINE n == Len(tasks)
    <3>1. /\ DOMAIN tasks' = DOMAIN tasks \union {n + 1}
          /\ \A j \in DOMAIN tasks : tasks'[j] = tasks[j] /\ (j # i => at'[j] = at[j])
          /\ tasks'[n + 1] = [kind |-> "life", conn |-> tasks[i].conn, loop |-> tasks[i].loop]
          /\ at[i] = "ready" /\ tasks[i].kind = "setup"
          /\ at'[i] = "onReady" \/ "moved" \in trouble'[tasks[i].conn]
      BY <1>0, <2>1, SetupMoves
    <3>2. CASE tasks[i].conn # c
      <4>1. \A j \in Fetching(c)' : j \in Fetching(c)
        BY <3>1, <3>2 DEF Fetching, Living
      <4>2. \A j \in DOMAIN tasks : Awaiting(j) => at'[j] = "onReady"
        BY <3>1, <3>2
      <4> QED BY <1>2, <4>1, <4>2
    <3>3. CASE tasks[i].conn = c
      <4>1. \A j \in DOMAIN tasks : tasks[j].conn = c /\ tasks[j].kind # "life" /\ at[j] \notin Over => j = i
        BY <1>1, <3>1, <3>3, OneAtATime DEF Over, Expected
      <4>2. Fetching(c) = {}
        <5>1. i \in DOMAIN tasks /\ at[i] = "ready"
          BY <3>1
        <5>2. ~ \E j \in DOMAIN tasks : Awaiting(j)
          BY <4>1, <5>1 DEF Over
        <5> QED BY <1>1, <5>2
      <4>3. \A j \in Fetching(c)' : j = n + 1
        BY <3>1, <4>2 DEF Fetching, Living
      <4>4. at'[i] = "onReady" /\ tasks'[i] = tasks[i] /\ i \in DOMAIN tasks'
        BY <1>1, <3>1, <3>3
      <4> QED BY <3>1, <3>3, <4>3, <4>4
    <3> QED BY <3>2, <3>3
  <2>2. CASE SetupEnds(i) \/ LifeWoken(i) \/ LifeCloses(i) \/ LifeFails(i) \/ StopEnds(i)
             \/ Unregisters(i) \/ Requests(i)
    <3>1. /\ tasks' = tasks /\ at[i] # "onReady"
          /\ \E p \in {"closing", "done", "calling", "raised", "unlisting", "unmapping", "disowning"} :
               at' = [at EXCEPT ![i] = p]
      <4>1. CASE SetupEnds(i) \/ LifeWoken(i) \/ LifeCloses(i) \/ LifeFails(i)
        BY <4>1 DEF SetupEnds, LifeWoken, LifeCloses, LifeFails, LifeEnds, Turn
      <4>2. CASE StopEnds(i) \/ Unregisters(i) \/ Requests(i)
        BY <4>2 DEF StopEnds, Unregisters, Requests, Turn
      <4> QED BY <2>2, <4>1, <4>2
    <3> QED BY <1>3, <2>0, <3>1
  <2>3. CASE LifeStarts(i)
    BY <1>3, <2>0, <2>3 DEF LifeStarts, Turn
  <2>4. CASE StopStarts(i)
    <3>1. /\ tasks' = tasks /\ at[i] = "ready" /\ at'[i] \in {"raised", "done", "joining"}
          /\ \A j \in DOMAIN tasks : j = i \/ at'[j] = at[j] \/ (at[j] = "holding" /\ at'[j] = "woken")
      BY <2>4, StopShape
    <3> QED BY <1>3, <3>1
  <2> QED BY <1>9, <2>1, <2>2, <2>3, <2>4 DEF TaskStep
<1> QED BY <1>5, <1>6, <1>7, <1>8, <1>9 DEF Next

\* The user of a connection somebody is just connecting waits for that.
LEMMA WhoFetches ==
  ASSUME OneUser, IParts, CallersKnown, Attended, OneAttempt, NEW c \in Conns,
         trouble[c] \intersect {"moved", "gaveUp"} = {}, Fetching(c) # {}
  PROVE  \E t \in Users[c], k \in DOMAIN tasks :
           /\ pc[t] = "waiting" /\ awaits[t] = k /\ on[t] = c /\ t \in Threads /\ op[t] = "connect"
           /\ tasks[k].kind = "setup" /\ tasks[k].conn = c /\ at[k] = "onReady"
           /\ \A u \in Users[c] : u = t
           /\ \A j \in DOMAIN tasks : tasks[j].conn = c /\ Expected(j) => j = k
<1>1. PICK k \in DOMAIN tasks : tasks[k].kind = "setup" /\ tasks[k].conn = c /\ at[k] = "onReady"
  BY DEF OneAttempt
<1>2. Expected(k)
  BY <1>1 DEF Expected, Over
<1> QED BY <1>1, <1>2, OneAtATime

\* What OneLife says of one connection.
LifeOf(c) ==
  /\ \A i \in Living(c) : /\ lifeTask[c] = i
                          /\ at[i] # "ready" => stack[c] = i
                          /\ at[i] \notin {"ready", "connecting"} => connected[c]
  /\ \A t \in Users[c] : Attempting(t, c) => Living(c) = {}
  /\ \A k \in DOMAIN tasks : tasks[k].kind = "stop" /\ tasks[k].conn = c =>
       /\ at[k] = "joining" => Living(c) \subseteq {joins[k]}
       /\ at[k] \in Unregistering => Living(c) = {}

LEMMA OneLifeParts == OneLife <=> \A c \in Conns : Calm(c) => LifeOf(c)
BY DEF OneLife, LifeOf

\* A coroutine of close() waits, or unregisters, only if it did before.
StopsAsBefore(k) ==
  /\ k \in DOMAIN tasks /\ tasks'[k] = tasks[k]
  /\ at'[k] = "joining" => at[k] = "joining" /\ joins'[k] = joins[k]
  /\ at'[k] \in Unregistering => at[k] \in Unregistering

\* No lifecycle task is made, the ones there are keep their place, and no attempt begins.
LEMMA LifeFrame ==
  ASSUME NEW c \in Conns, LifeOf(c),
         \A i \in Living(c)' :
           /\ i \in Living(c) /\ lifeTask'[c] = lifeTask[c]
           /\ at'[i] = "ready" => at[i] = "ready"
           /\ at'[i] # "ready" => stack'[c] = i
           /\ at'[i] \notin {"ready", "connecting"} => connected'[c],
         \A t \in Users[c] : Attempting(t, c)' => Attempting(t, c) \/ Living(c)' = {},
         \A k \in DOMAIN tasks' : tasks'[k].kind = "stop" /\ tasks'[k].conn = c =>
           \/ StopsAsBefore(k) \/ at'[k] = "ready" \/ Living(c)' = {}
           \/ at'[k] \notin Unregistering /\ Living(c)' \subseteq {joins'[k]}
  PROVE  LifeOf(c)'
<1>1. Living(c)' \subseteq Living(c)
  OBVIOUS
<1> HIDE DEF Living, Attempting
<1>2. \A i \in Living(c)' : /\ lifeTask'[c] = i /\ (at'[i] # "ready" => stack'[c] = i)
                            /\ at'[i] \notin {"ready", "connecting"} => connected'[c]
  BY DEF LifeOf
<1>3. \A t \in Users[c] : Attempting(t, c)' => Living(c)' = {}
  BY <1>1 DEF LifeOf
<1>4. \A k \in DOMAIN tasks' : tasks'[k].kind = "stop" /\ tasks'[k].conn = c =>
        /\ at'[k] = "joining" => Living(c)' \subseteq {joins'[k]}
        /\ at'[k] \in Unregistering => Living(c)' = {}
  BY <1>1 DEF LifeOf, StopsAsBefore, Unregistering
<1> QED BY <1>2, <1>3, <1>4 DEF LifeOf

\* A thread that is about to connect was so before, or finds the connection not connected.
LEMMA AttemptFrame ==
  ASSUME IParts, CallersKnown, [Next]_vars, NEW t \in Threads, NEW c \in Conns, Attempting(t, c)'
  PROVE  \/ Attempting(t, c)
         \/ /\ Begins(t) /\ op'[t] = "connect" /\ on'[t] = c /\ t \in Users[c] /\ ~ connected[c]
            /\ pc[t] = "idle"
<1>0. TasksGoOn /\ (pc[t] = "waiting" => awaits[t] \in DOMAIN tasks)
  BY StepShape DEF CallersKnown
<1>1. /\ op'[t] = "connect" /\ on'[t] = c
      /\ pc'[t] \in Underway \ {"waiting"} \/ (pc'[t] = "waiting" /\ at'[awaits'[t]] = "ready")
  BY DEF Attempting, Underway
<1>2. CASE Rests(t)
  BY <1>0, <1>1, <1>2 DEF Rests, Attempting, TasksGoOn
<1>3. CASE Begins(t)
  BY <1>1, <1>3 DEF Begins
<1>4. CASE Moves(t)
  BY <1>1, <1>4 DEF Moves, SameCall, Attempting
<1>5. CASE Removes(t) \/ Finishes(t)
  BY <1>1, <1>5 DEF Removes, Finishes, SameCall, Underway, Looking, Writing, Using, Removal
<1>6. CASE Submits(t)
  <2>1. pc[t] = "sending" /\ UNCHANGED <<op, on>>
    BY <1>6, SubmitShape
  <2> QED BY <1>1, <2>1 DEF Attempting, Underway, Using
<1> QED BY <1>2, <1>3, <1>4, <1>5, <1>6, ThreadShape

\* A lifecycle task that is not over, of a connection that is not connected, is an
\* attempt somebody waits for: who is idle has none.
LEMMA IdleHasNoLife ==
  ASSUME OneUser, IParts, CallersKnown, Attended, OneAttempt, NEW c \in Conns, Calm(c), LifeOf(c),
         NEW t \in Users[c], pc[t] = "idle", ~ connected[c]
  PROVE  Living(c) = {}
<1> SUFFICES ASSUME Living(c) # {} PROVE FALSE
  OBVIOUS
<1>1. PICK i \in Living(c) : at[i] \in {"ready", "connecting"}
  BY DEF LifeOf
<1>2. Fetching(c) # {} /\ trouble[c] \intersect {"moved", "gaveUp"} = {}
  BY <1>1 DEF Fetching, Calm
<1>3. PICK u \in Users[c] : pc[u] = "waiting" /\ \A v \in Users[c] : v = u
  BY <1>2, WhoFetches
<1> QED BY <1>3

\* One lifecycle task of a connection at a time, which owns the exit stack.
LEMMA OneLifeKeep ==
  ASSUME OneUser, IParts, CallersKnown, Attended, OneAttempt, OneLife, [Next]_vars
  PROVE  OneLife'
<1> SUFFICES ASSUME NEW c \in Conns, Calm(c)' PROVE LifeOf(c)'
  BY DEF OneLife, LifeOf
<1>0. /\ TasksGoOn /\ at \in [DOMAIN tasks -> Spots]
      /\ \A j \in DOMAIN tasks : tasks[j].conn \in Conns
      /\ connected \in [Conns -> BOOLEAN] /\ DOMAIN stack = Conns /\ DOMAIN lifeTask = Conns
      /\ DOMAIN joins = DOMAIN tasks
  BY StepShape, TaskFields DEF IParts, RefsTyped, TasksTyped
<1>1. /\ Calm(c) /\ LifeOf(c) /\ trouble'[c] \intersect {"failed", "moved", "gaveUp", "left"} = {}
      /\ "gaveUp" \notin trouble[c] /\ trouble[c] \intersect {"moved", "gaveUp"} = {}
  <2>1. trouble'[c] \intersect {"failed", "moved", "gaveUp", "left"} = {}
    BY DEF Calm
  <2>2. Calm(c) /\ trouble[c] \intersect {"moved", "gaveUp"} = {}
    BY <1>0, <2>1 DEF Calm, TasksGoOn
  <2> QED BY <2>1, <2>2, OneLifeParts
<1>2. \A i \in Living(c) : /\ lifeTask[c] = i /\ (at[i] # "ready" => stack[c] = i)
                           /\ at[i] \notin {"ready", "connecting"} => connected[c]
  BY <1>1 DEF LifeOf
<1>3. \A t \in Users[c] : Attempting(t, c)' => Attempting(t, c) \/ Living(c) = {}
  <2> SUFFICES ASSUME NEW t \in Users[c], Attempting(t, c)', ~ Attempting(t, c)
               PROVE  Living(c) = {}
    OBVIOUS
  <2>1. t \in Threads
    BY ConnectionAssumption
  <2>2. ~ connected[c] /\ pc[t] = "idle"
    BY <2>1, AttemptFrame
  <2> QED BY <1>1, <2>2, IdleHasNoLife
<1>4. ASSUME \A i \in Living(c)' :
               /\ i \in Living(c) /\ lifeTask'[c] = lifeTask[c]
               /\ at'[i] = "ready" => at[i] = "ready"
               /\ at'[i] # "ready" => stack'[c] = i
               /\ at'[i] \notin {"ready", "connecting"} => connected'[c],
             \A k \in DOMAIN tasks' : tasks'[k].kind = "stop" /\ tasks'[k].conn = c =>
               \/ StopsAsBefore(k) \/ at'[k] = "ready" \/ Living(c)' = {}
               \/ at'[k] \notin Unregistering /\ Living(c)' \subseteq {joins'[k]}
      PROVE  LifeOf(c)'
  <2>1. \A t \in Users[c] : Attempting(t, c)' => Attempting(t, c) \/ Living(c)' = {}
    <3>1. Living(c) = {} => Living(c)' = {}
      BY <1>4
    <3> HIDE DEF Living, Attempting
    <3> QED BY <1>3, <3>1
  <2> QED BY <1>1, <1>4, <2>1, LifeFrame
<1>5. ASSUME UNCHANGED <<tasks, at, joins, connected, stack, lifeTask>> PROVE LifeOf(c)'
  <2>1. \A i \in Living(c)' : i \in Living(c)
    BY <1>5 DEF Living
  <2>2. \A k \in DOMAIN tasks' : StopsAsBefore(k)
    BY <1>5 DEF StopsAsBefore
  <2> HIDE DEF Living
  <2> QED BY <1>2, <1>4, <1>5, <2>1, <2>2
<1>6. ASSUME NEW t \in Threads, ThreadStep(t) PROVE LifeOf(c)'
  <2>1. CASE Submits(t)
    <3> DEFINE n == Len(tasks)
    <3>1. /\ DOMAIN tasks' = DOMAIN tasks \union {n + 1}
          /\ \A i \in DOMAIN tasks : tasks'[i] = tasks[i] /\ at'[i] = at[i] /\ joins'[i] = joins[i]
          /\ tasks'[n + 1] = [kind |-> KindOf(op[t]), conn |-> on[t], loop |-> loopOf[via[t]]]
          /\ at'[n + 1] = "ready" /\ KindOf(op[t]) \in {"setup", "stop", "request"}
          /\ UNCHANGED <<connected, stack, lifeTask>>
      BY <2>1, SubmitShape DEF connVars
    <3>2. \A i \in Living(c)' : i \in Living(c) /\ at'[i] = at[i]
      BY <3>1 DEF Living
    <3>3. \A k \in DOMAIN tasks' : StopsAsBefore(k) \/ at'[k] = "ready"
      BY <3>1 DEF StopsAsBefore
    <3> HIDE DEF Living
    <3> QED BY <1>2, <1>4, <3>1, <3>2, <3>3
  <2>2. CASE ~ Submits(t)
    <3>1. UNCHANGED taskVars
      BY <1>6, <2>2, ThreadTasks
    <3>2. UNCHANGED connVars
      BY <1>6 DEF ThreadStep, Rest, Shifts, Drops, Registers, Owns, Ask, Take, Check, Send, Returns,
                  TimesOut, Ends
    <3> QED BY <1>5, <3>1, <3>2 DEF taskVars, connVars
  <2> QED BY <2>1, <2>2
<1>7. ASSUME NEW t \in Threads, Application(t) PROVE LifeOf(c)'
  <2>1. UNCHANGED <<connVars, taskVars>>
    BY <1>7, CallShape
  <2> QED BY <1>5, <2>1 DEF taskVars, connVars
<1>8. CASE LoopThreads \/ UNCHANGED vars
  BY <1>5, <1>8 DEF LoopThreads, Rest, vars, taskVars, connVars
<1>9. CASE Server
  <2>1. PICK i \in DOMAIN tasks, works \in BOOLEAN : Connects(i, works)
    BY <1>9 DEF Server
  <2> DEFINE now == AfterReady(i)
  <2>2. /\ tasks' = tasks /\ tasks[i].kind = "life" /\ at[i] = "connecting"
        /\ now \in {"done", "closing", "holding"}
        /\ \A j \in DOMAIN tasks :
             at'[j] = IF j = i THEN now
                      ELSE IF tasks[j].conn = tasks[i].conn /\ tasks[j].kind = "setup" /\ at[j] = "onReady"
                           THEN "woken" ELSE at[j]
        /\ connected' = [connected EXCEPT ![tasks[i].conn] = works /\ now # "done"]
        /\ ~ works => "failed" \in trouble'[tasks[i].conn]
        /\ UNCHANGED <<stack, lifeTask, joins>>
    BY <2>1, ConnectsShape
  <2>3. \A j \in Living(c)' : j \in Living(c) /\ (j # i => at'[j] = at[j])
    BY <2>2 DEF Living, Over
  <2>4. \A k \in DOMAIN tasks' : tasks'[k].kind = "stop" => StopsAsBefore(k)
    BY <2>2 DEF StopsAsBefore
  <2>5. CASE tasks[i].conn # c
    <3>1. \A j \in Living(c)' : j # i
      BY <2>2, <2>5 DEF Living
    <3>2. connected'[c] = connected[c]
      BY <1>0, <2>2, <2>5
    <3> QED BY <1>2, <1>4, <2>2, <2>3, <2>4, <3>1, <3>2
  <2>6. CASE tasks[i].conn = c
    <3>1. i \in Living(c)
      BY <2>2, <2>6 DEF Living, Over
    <3>2. \A j \in Living(c)' : j = i
      BY <1>2, <2>3, <3>1
    <3>3. works /\ stack[c] = i
      BY <1>1, <1>2, <2>2, <2>6, <3>1
    <3>4. i \in Living(c)' => connected'[c] /\ at'[i] \in {"closing", "holding"}
      BY <1>0, <2>2, <2>6, <3>3 DEF Living, Over
    <3>5. at'[i] # "ready"
      BY <2>2
    <3> HIDE DEF Living, now
    <3> QED BY <1>4, <2>2, <2>3, <2>4, <3>2, <3>3, <3>4, <3>5
  <2> QED BY <2>5, <2>6
<1>10. ASSUME NEW i \in DOMAIN tasks, SetupStarts(i) PROVE LifeOf(c)'
  <2> DEFINE n == Len(tasks)
  <2>1. /\ DOMAIN tasks' = DOMAIN tasks \union {n + 1}
        /\ \A j \in DOMAIN tasks : tasks'[j] = tasks[j] /\ joins'[j] = joins[j] /\ (j # i => at'[j] = at[j])
        /\ tasks'[n + 1] = [kind |-> "life", conn |-> tasks[i].conn, loop |-> tasks[i].loop]
        /\ at'[n + 1] = "ready" /\ at[i] = "ready" /\ tasks[i].kind = "setup"
        /\ at'[i] \in {"onReady", "raised"}
        /\ at'[i] = "onReady" \/ "moved" \in trouble'[tasks[i].conn]
        /\ lifeTask' = [lifeTask EXCEPT ![tasks[i].conn] = n + 1]
        /\ UNCHANGED <<connected, stack, pc, op, on, awaits>>
    BY <1>0, <1>10, SetupMoves
  <2>2. CASE tasks[i].conn # c
    <3>1. \A j \in Living(c)' : j \in Living(c) /\ at'[j] = at[j]
      BY <2>1, <2>2 DEF Living
    <3>2. lifeTask'[c] = lifeTask[c]
      BY <1>0, <2>1, <2>2
    <3>3. \A k \in DOMAIN tasks' : tasks'[k].kind = "stop" => StopsAsBefore(k)
      BY <2>1 DEF StopsAsBefore
    <3> QED BY <1>2, <1>4, <2>1, <3>1, <3>2, <3>3
  <2>3. CASE tasks[i].conn = c
    <3>1. PICK t \in Users[c] :
            /\ pc[t] = "waiting" /\ awaits[t] = i /\ on[t] = c /\ t \in Threads
            /\ op[t] = "connect" /\ \A u \in Users[c] : u = t
            /\ \A j \in DOMAIN tasks : tasks[j].conn = c /\ Expected(j) => j = i
      <4>1. Expected(i)
        BY <1>1, <2>1, <2>3 DEF Expected, Over
      <4> QED BY <2>1, <2>3, <4>1, OneAtATime
    <3>2. \A j \in DOMAIN tasks : tasks[j].conn = c /\ tasks[j].kind # "life" /\ at[j] \notin Over
            => j = i
      BY <1>1, <3>1 DEF Expected
    <3>3. Living(c) = {}
      BY <1>1, <2>1, <3>1 DEF LifeOf, Attempting
    <3>4. \A j \in Living(c)' : j = n + 1
      BY <2>1, <3>3 DEF Living
    <3>5. lifeTask'[c] = n + 1
      BY <1>0, <2>1, <2>3
    <3>6. \A u \in Users[c] : ~ Attempting(u, c)'
      BY <2>1, <3>1 DEF Attempting
    <3>7. \A k \in DOMAIN tasks' : tasks'[k].kind = "stop" /\ tasks'[k].conn = c =>
            at'[k] # "joining" /\ at'[k] \notin Unregistering
      BY <2>1, <3>2 DEF Over, Unregistering
    <3> HIDE DEF Living, Attempting
    <3> QED BY <2>1, <3>4, <3>5, <3>6, <3>7 DEF LifeOf
  <2> QED BY <2>2, <2>3
<1>11. ASSUME NEW i \in DOMAIN tasks, TaskStep(i), ~ SetupStarts(i) PROVE LifeOf(c)'
  <2> DEFINE d == tasks[i].conn
  <2>1. CASE SetupEnds(i) \/ Requests(i)
    <3>1. /\ tasks' = tasks /\ tasks[i].kind \notin {"life", "stop"}
          /\ UNCHANGED <<connected, stack, lifeTask, joins>>
          /\ \A j \in DOMAIN tasks : j # i => at'[j] = at[j]
      BY <1>0, <2>1 DEF SetupEnds, Requests, Turn, connVars
    <3>2. \A j \in Living(c)' : j \in Living(c) /\ at'[j] = at[j]
      BY <3>1 DEF Living
    <3>3. \A k \in DOMAIN tasks' : tasks'[k].kind = "stop" => StopsAsBefore(k)
      BY <3>1 DEF StopsAsBefore
    <3> HIDE DEF Living
    <3> QED BY <1>2, <1>4, <3>1, <3>2, <3>3
  <2>2. CASE LifeStarts(i)
    <3>1. /\ tasks' = tasks /\ tasks[i].kind = "life" /\ at[i] = "ready"
          /\ at' = [at EXCEPT ![i] = "connecting"] /\ stack' = [stack EXCEPT ![d] = i]
          /\ UNCHANGED <<connected, lifeTask, joins>>
      BY <2>2 DEF LifeStarts, Turn
    <3>2. \A j \in Living(c)' : /\ j \in Living(c) /\ (j # i => at'[j] = at[j])
                                /\ j = i => at'[j] = "connecting"
      BY <1>0, <3>1 DEF Living, Over
    <3>3. d = c => i \in Living(c)
      BY <3>1 DEF Living, Over
    <3>4. stack'[c] = IF d = c THEN i ELSE stack[c]
      BY <1>0, <3>1
    <3>5. \A j \in Living(c)' : /\ at'[j] # "ready" => stack'[c] = j
                                /\ at'[j] \notin {"ready", "connecting"} => connected'[c]
                                /\ at'[j] = "ready" => at[j] = "ready"
      <4> SUFFICES ASSUME NEW j \in Living(c)'
                   PROVE  /\ at'[j] # "ready" => stack'[c] = j
                          /\ at'[j] \notin {"ready", "connecting"} => connected'[c]
                          /\ at'[j] = "ready" => at[j] = "ready"
        OBVIOUS
      <4>1. j \in Living(c) /\ (j = i => d = c)
        BY <3>1, <3>2 DEF Living
      <4>2. d = c => j = i
        BY <1>2, <3>3, <4>1
      <4> HIDE DEF Living
      <4> QED BY <1>2, <3>1, <3>2, <3>4, <4>1, <4>2
    <3>6. \A k \in DOMAIN tasks' : tasks'[k].kind = "stop" => StopsAsBefore(k)
      BY <1>0, <3>1 DEF StopsAsBefore, Unregistering
    <3> HIDE DEF Living
    <3> QED BY <1>4, <3>1, <3>2, <3>5, <3>6
  <2>3. CASE LifeWoken(i) \/ LifeCloses(i)
    <3>1. /\ tasks' = tasks /\ tasks[i].kind = "life" /\ at[i] \in {"woken", "closing"}
          /\ UNCHANGED <<lifeTask, joins>>
          /\ \/ at' = [at EXCEPT ![i] = "closing"] /\ UNCHANGED <<stack, connected>>
             \/ /\ at' = [at EXCEPT ![i] = "done"]
                /\ connected' = [connected EXCEPT ![d] = FALSE]
                /\ stack' = stack \/ stack' = [stack EXCEPT ![d] = 0]
      BY <2>3 DEF LifeWoken, LifeCloses, LifeEnds, Turn
    <3>2. \A j \in Living(c)' : j \in Living(c) /\ (j # i => at'[j] = at[j])
      BY <1>0, <3>1 DEF Living, Over
    <3>3. d = c => i \in Living(c)
      BY <3>1 DEF Living, Over
    <3>4. \A j \in Living(c)' : j = i => d = c /\ at'[i] = "closing" /\ UNCHANGED <<stack, connected>>
      BY <1>0, <3>1 DEF Living, Over
    <3>5. d # c => stack'[c] = stack[c] /\ connected'[c] = connected[c]
      BY <1>0, <3>1
    <3>6. \A j \in Living(c)' : /\ at'[j] # "ready" => stack'[c] = j
                                /\ at'[j] \notin {"ready", "connecting"} => connected'[c]
                                /\ at'[j] = "ready" => at[j] = "ready"
      <4> SUFFICES ASSUME NEW j \in Living(c)'
                   PROVE  /\ at'[j] # "ready" => stack'[c] = j
                          /\ at'[j] \notin {"ready", "connecting"} => connected'[c]
                          /\ at'[j] = "ready" => at[j] = "ready"
        OBVIOUS
      <4>1. d = c => j = i
        BY <1>2, <3>2, <3>3
      <4> HIDE DEF Living
      <4> QED BY <1>2, <3>1, <3>2, <3>3, <3>4, <3>5, <4>1
    <3>7. \A k \in DOMAIN tasks' : tasks'[k].kind = "stop" => StopsAsBefore(k)
      BY <1>0, <3>1 DEF StopsAsBefore, Unregistering
    <3> HIDE DEF Living
    <3> QED BY <1>4, <3>1, <3>2, <3>6, <3>7
  <2>4. CASE StopStarts(i)
    <3>1. /\ tasks' = tasks /\ tasks[i].kind = "stop" /\ at[i] = "ready"
          /\ \A j \in DOMAIN tasks \ {i} :
               at'[j] = IF tasks[j].conn = d /\ tasks[j].kind = "life" /\ at[j] = "holding"
                        THEN "woken" ELSE at[j]
          /\ at'[i] \in {"raised", "done", "joining"} /\ joins' = [joins EXCEPT ![i] = lifeTask[d]]
          /\ UNCHANGED <<connected, stack, lifeTask>>
      BY <2>4, StopShape
    <3>2. \A j \in Living(c)' : /\ j \in Living(c) /\ lifeTask[c] = j
                                /\ at'[j] = at[j] \/ (at[j] = "holding" /\ at'[j] = "woken")
      <4>1. \A j \in Living(c)' : /\ j \in Living(c)
                                  /\ at'[j] = at[j] \/ (at[j] = "holding" /\ at'[j] = "woken")
        BY <3>1 DEF Living, Over
      <4> QED BY <1>2, <4>1
    <3>3. \A k \in DOMAIN tasks' : tasks'[k].kind = "stop" /\ tasks'[k].conn = c =>
            \/ StopsAsBefore(k)
            \/ at'[k] \notin Unregistering /\ Living(c)' \subseteq {joins'[k]}
      <4> SUFFICES ASSUME NEW k \in DOMAIN tasks, tasks[k].kind = "stop", tasks[k].conn = c
                   PROVE  \/ StopsAsBefore(k)
                          \/ at'[k] \notin Unregistering /\ Living(c)' \subseteq {joins'[k]}
        BY <3>1
      <4>1. CASE k = i
        <5>1. joins'[i] = lifeTask[c] /\ at'[i] \notin Unregistering
          BY <1>0, <3>1, <4>1 DEF Unregistering
        <5> HIDE DEF Living
        <5> QED BY <3>2, <4>1, <5>1
      <4>2. CASE k # i
        BY <1>0, <3>1, <4>2 DEF StopsAsBefore
      <4> QED BY <4>1, <4>2
    <3> HIDE DEF Living
    <3> QED BY <1>2, <1>4, <3>1, <3>2, <3>3
  <2>5. CASE StopEnds(i)
    <3>1. /\ tasks' = tasks /\ tasks[i].kind = "stop" /\ at[i] = "joining"
          /\ at' = [at EXCEPT ![i] = "raised"] \/ at' = [at EXCEPT ![i] = "unlisting"]
          /\ connected' = [connected EXCEPT ![d] = FALSE] /\ lifeTask' = [lifeTask EXCEPT ![d] = 0]
          /\ trouble' = IF at[joins[i]] \in Over THEN trouble
                        ELSE [trouble EXCEPT ![d] = @ \union {"left"}]
          /\ UNCHANGED <<stack, joins>>
      BY <2>5 DEF StopEnds, Turn
    <3>2. \A j \in Living(c)' : j \in Living(c) /\ at'[j] = at[j]
      BY <1>0, <3>1 DEF Living, Over
    <3>3. d = c => Living(c) = {}
      <4> SUFFICES ASSUME d = c PROVE Living(c) = {}
        OBVIOUS
      <4>1. Living(c) \subseteq {joins[i]}
        BY <1>1, <3>1 DEF LifeOf
      <4>2. joins[i] \notin Living(c)
        <5>1. trouble \in [Conns -> SUBSET Troubles]
          BY TaskFields
        <5>2. at[joins[i]] \in Over
          BY <1>1, <3>1, <5>1
        <5> QED BY <5>2 DEF Living
      <4> QED BY <4>1, <4>2
    <3>4. d # c => lifeTask'[c] = lifeTask[c] /\ connected'[c] = connected[c]
      BY <1>0, <3>1
    <3>5. \A k \in DOMAIN tasks' : StopsAsBefore(k) \/ (k = i /\ tasks'[k] = tasks[i])
      BY <1>0, <3>1 DEF StopsAsBefore
    <3> HIDE DEF Living
    <3> QED BY <1>2, <1>4, <3>1, <3>2, <3>3, <3>4, <3>5
  <2>6. CASE LifeFails(i)
    <3>1. /\ tasks' = tasks /\ tasks[i].kind = "life" /\ at[i] = "closing"
          /\ at' = [at EXCEPT ![i] = "raised"] /\ UNCHANGED <<connected, stack, lifeTask, joins>>
      BY <2>6 DEF LifeFails, Turn, connVars
    <3>2. \A j \in Living(c)' : j \in Living(c) /\ at'[j] = at[j]
      BY <1>0, <3>1 DEF Living, Over
    <3>3. \A k \in DOMAIN tasks' : tasks'[k].kind = "stop" => StopsAsBefore(k)
      BY <1>0, <3>1 DEF StopsAsBefore, Unregistering
    <3> HIDE DEF Living
    <3> QED BY <1>2, <1>4, <3>1, <3>2, <3>3
  <2>7. CASE Unregisters(i)
    <3>1. /\ tasks' = tasks /\ tasks[i].kind = "stop" /\ at[i] \in Unregistering
          /\ \/ at' = [at EXCEPT ![i] = "unmapping"] \/ at' = [at EXCEPT ![i] = "disowning"]
             \/ at' = [at EXCEPT ![i] = "done"]
          /\ UNCHANGED <<connected, stack, lifeTask, joins>>
      BY <2>7 DEF Unregisters, Turn, Unregistering, connVars
    <3>2. \A j \in Living(c)' : j \in Living(c) /\ at'[j] = at[j]
      BY <1>0, <3>1 DEF Living, Over
    <3>3. \A k \in DOMAIN tasks' : StopsAsBefore(k)
      BY <1>0, <3>1 DEF StopsAsBefore, Unregistering
    <3> HIDE DEF Living
    <3> QED BY <1>2, <1>4, <3>1, <3>2, <3>3
  <2> QED BY <1>11, <2>1, <2>2, <2>3, <2>4, <2>5, <2>6, <2>7 DEF TaskStep
<1> QED BY <1>6, <1>7, <1>8, <1>9, <1>10, <1>11 DEF Next

\* A lifecycle task that is not over owns its connection's exit stack, and there is one at
\* most, as long as one thread calls the connection, none of its calls timed out, no attempt
\* to connect failed, none was made in another loop and no close() met a lifecycle task of
\* another loop: for any number of threads, connections, managers and calls
\* (_lifecycle_task_coro closes what it finds there).
THEOREM AlwaysOwnStack == OneUser => (Spec => []OwnStack)
<1> SUFFICES ASSUME OneUser PROVE Spec => []OwnStack
  OBVIOUS
<1> DEFINE Inv == CallersKnown /\ Attended /\ OneAttempt /\ OneLife
<1>1. Init => Inv
  <2> SUFFICES ASSUME Init PROVE Inv
    OBVIOUS
  <2>1. DOMAIN tasks = {} /\ \A t \in Threads : pc[t] = "idle"
    BY DEF Init, ManagerInit
  <2>2. CallersKnown /\ Attended
    BY <2>1 DEF CallersKnown, Attended, Underway, Looking, Writing, Using
  <2>3. \A c \in Conns : Living(c) = {} /\ Fetching(c) = {}
    BY <2>1 DEF Living, Fetching
  <2>4. OneAttempt /\ OneLife
    BY <2>1, <2>3 DEF OneAttempt, OneLife
  <2> QED BY <2>2, <2>4
<1>2. IInv /\ Inv /\ [Next]_vars => Inv'
  BY IsParts, CallersKeep, AttendedKeep, OneAttemptKeep, OneLifeKeep
<1>3. IInv /\ Inv => OwnStack
  <2> SUFFICES ASSUME IInv, OneLife, NEW i \in DOMAIN tasks, tasks[i].kind = "life",
                      at[i] \in {"connecting", "holding", "woken", "closing"}, Calm(tasks[i].conn)
               PROVE  stack[tasks[i].conn] = i
    BY DEF OwnStack
  <2>1. tasks[i].conn \in Conns
    BY IsParts, TaskFields
  <2>2. i \in Living(tasks[i].conn)
    BY DEF Living, Over
  <2> QED BY <2>1, <2>2 DEF OneLife
<1> QED BY <1>1, <1>2, <1>3, ConnectionInvariance, PTL DEF Spec

-----------------------------------------------------------------------------
(***************************************************************************)
(* A session is used in the loop that made it: managers do not share       *)
(* loops, a manager that is not shut down keeps a loop that runs, and a    *)
(* connection keeps its manager while it is connected.                     *)
(***************************************************************************)
\* What a thread does to the loops.
LEMMA ThreadLoops ==
  ASSUME IParts, NEW t \in Threads, ThreadStep(t)
  PROVE  /\ shut' = shut
         /\ \/ UNCHANGED <<loopOf, loops>>
            \/ \E m \in Managers : /\ Starting(m) /\ loops' = Append(loops, "created")
                                   /\ loopOf' = [loopOf EXCEPT ![m] = Len(loops) + 1]
            \/ \E m \in shut : loops' = loops /\ loopOf' = [loopOf EXCEPT ![m] = 0]
            \/ \E m \in shut : /\ loopOf' = loopOf /\ loopOf[m] # 0
                               /\ loops' = [loops EXCEPT ![loopOf[m]] = "stopping"]
<1>1. CASE StartLoop(t)
  <2>1. /\ pc[t] = "starting" /\ loops' = Append(loops, "created") /\ shut' = shut
        /\ loopOf' = [loopOf EXCEPT ![via[t]] = Len(loops')]
    BY <1>1 DEF StartLoop, registryVars
  <2>2. via[t] \in Managers /\ Starting(via[t])
    BY <2>1, HasManager DEF NoneYet, Starting
  <2>3. Len(loops') = Len(loops) + 1
    BY <2>1 DEF IParts, LoopsTyped
  <2> QED BY <2>1, <2>2, <2>3
<1>2. CASE Joined(t) \/ Tell(t)
  <2>1. via[t] \in shut
    BY <1>2 DEF Joined, Tell, IParts, RegistryInv, Removing, Removal
  <2> QED BY <1>2, <2>1 DEF Joined, Tell, registryVars
<1>3. CASE Find(t) \/ Construct(t) \/ Assign(t) \/ Fetch(t) \/ EnsureLoop(t) \/ StopsLoop(t)
           \/ Pop(t) \/ Sift(t)
  BY <1>3 DEF Find, Construct, Assign, Fetch, EnsureLoop, StopsLoop, Pop, Sift, registryVars, loopVars
<1>4. CASE Shifts(t) \/ Drops(t) \/ Registers(t) \/ Owns(t) \/ Ask(t) \/ Take(t)
  BY <1>4 DEF Shifts, SiftRaises, Drops, Drop, Registers, RegisterCheck, RegisterName, RegisterEntry,
              Owns, RegisterOwner, Ask, Take, registryVars, loopVars
<1>5. CASE Check(t) \/ Send(t) \/ Returns(t) \/ TimesOut(t)
  BY <1>5 DEF Check, Send, Returns, TimesOut, Ends, registryVars, loopVars
<1> QED BY <1>1, <1>2, <1>3, <1>4, <1>5 DEF ThreadStep

\* What every step does to the loops: one is made for a manager that starts one, one is
\* told to stop or dropped by who shuts its manager down, or one goes on by itself.
LEMMA LoopShape ==
  ASSUME IParts, [Next]_vars
  PROVE  /\ shut \subseteq shut'
         /\ \/ UNCHANGED <<loopOf, loops>>
            \/ \E m \in Managers : /\ Starting(m) /\ loops' = Append(loops, "created")
                                   /\ loopOf' = [loopOf EXCEPT ![m] = Len(loops) + 1]
            \/ \E m \in shut : loops' = loops /\ loopOf' = [loopOf EXCEPT ![m] = 0]
            \/ \E m \in shut : /\ loopOf' = loopOf /\ loopOf[m] # 0
                               /\ loops' = [loops EXCEPT ![loopOf[m]] = "stopping"]
            \/ /\ loopOf' = loopOf
               /\ \E l \in DOMAIN loops :
                    \/ loops[l] = "created" /\ loops' = [loops EXCEPT ![l] = "booting"]
                    \/ loops[l] = "booting" /\ loops' = [loops EXCEPT ![l] = "running"]
                    \/ loops[l] = "stopping" /\ loops' = [loops EXCEPT ![l] = "stopped"]
<1>1. CASE \E t \in Threads : ThreadStep(t)
  BY <1>1, ThreadLoops
<1>2. CASE \E t \in Threads : Application(t)
  <2>1. UNCHANGED loopVars /\ shut \subseteq shut'
    BY <1>2 DEF Application, Register, LookUp, Use, CallOn, Shutdown, ShutdownBegins, registryVars
  <2> QED BY <2>1 DEF loopVars
<1>3. CASE LoopThreads
  <2>0. \A m \in Managers : loopOf[m] # 0 => loopOf[m] \in DOMAIN loops
    BY DEF IParts, LoopsTyped
  <2>1. CASE \E m \in Managers : ThreadReads(m)
    BY <2>0, <2>1 DEF ThreadReads, registryVars
  <2>2. CASE \E l \in DOMAIN loops : LoopRuns(l) \/ LoopStops(l)
    BY <2>2 DEF LoopRuns, LoopStops, Becomes, registryVars
  <2> QED BY <1>3, <2>1, <2>2 DEF LoopThreads
<1>4. CASE Server \/ UNCHANGED vars
  BY <1>4 DEF Server, Connects, vars, managerVars, registryVars, loopVars
<1>5. CASE \E i \in DOMAIN tasks : TaskStep(i)
  BY <1>5 DEF TaskStep, SetupStarts, SetupEnds, LifeStarts, LifeWoken, LifeCloses, LifeFails,
              StopStarts, StopEnds, Unregisters, UnregisterEntry, UnregisterName, UnregisterOwner,
              Requests, managerVars, registryVars, loopVars
<1> QED BY <1>1, <1>2, <1>3, <1>4, <1>5 DEF Next

\* A thread starts a loop only for a manager whose loop does not run.
LEMMA StartingShape ==
  ASSUME IParts, [Next]_vars, NEW m \in Managers, Starting(m)'
  PROVE  Starting(m) \/ ~ Runs(loopOf[m])
<1>1. PICK t \in Threads : pc'[t] = "starting" /\ via'[t] = m
  BY DEF Starting
<1>2. CASE Rests(t)
  BY <1>1, <1>2 DEF Rests, Starting
<1>3. CASE ThreadStep(t)
  <2>0. pc \in [Threads -> Places] /\ via \in [Threads -> made \union {NoOne}]
    BY DEF IParts, RegistryInv
  <2>1. CASE EnsureLoop(t)
    BY <1>1, <2>0, <2>1 DEF EnsureLoop, Stay, Leave, GoOn, Has
  <2>2. ASSUME NEW p, p # "starting", GoOn(t, p) PROVE FALSE
    BY <1>1, <2>0, <2>2 DEF GoOn
  <2>3. CASE Find(t) \/ Construct(t) \/ Assign(t) \/ Fetch(t)
    BY <2>2, <2>3 DEF Find, Construct, Assign, Fetch, Stay, Leave
  <2>4. CASE StartLoop(t) \/ StopsLoop(t) \/ Tell(t) \/ Joined(t) \/ Pop(t) \/ Sift(t)
    BY <2>2, <2>4 DEF StartLoop, StopsLoop, Tell, Joined, Pop, Sift, Stay, Leave
  <2>5. CASE Shifts(t) \/ Drops(t) \/ Registers(t) \/ Owns(t) \/ Ask(t) \/ Take(t) \/ Check(t)
    BY <2>2, <2>5 DEF Shifts, SiftRaises, Drops, Drop, Registers, RegisterCheck, RegisterName,
                      RegisterEntry, Owns, RegisterOwner, Ask, Take, Check, Stay, Leave
  <2>6. CASE Send(t) \/ Returns(t) \/ TimesOut(t)
    BY <2>2, <2>6 DEF Send, Returns, TimesOut, Ends, Stay, Leave
  <2> QED BY <1>3, <2>1, <2>3, <2>4, <2>5, <2>6 DEF ThreadStep
<1>4. CASE Application(t)
  <2>0. pc \in [Threads -> Places]
    BY DEF IParts, RegistryInv
  <2>1. \E p \in {"stopping", "finding", "asking"} : GoOn(t, p)
    BY <1>4, CallShape DEF Stay
  <2> QED BY <1>1, <2>0, <2>1 DEF GoOn
<1>5. ASSUME ~ Rests(t) PROVE ThreadStep(t) \/ Application(t)
  <2>1. ASSUME NEW u \in Threads, ThreadStep(u) \/ Application(u)
        PROVE  ThreadStep(t) \/ Application(t)
    BY <1>5, <2>1, OthersRest
  <2>2. ASSUME UNCHANGED <<pc, op, on, awaits, via>> PROVE FALSE
    BY <1>5, <2>2 DEF Rests
  <2>3. CASE LoopThreads \/ UNCHANGED vars
    BY <2>2, <2>3 DEF LoopThreads, ThreadReads, LoopRuns, LoopStops, Becomes, Rest, callVars, vars,
                      managerVars
  <2>4. CASE Server
    BY <2>2, <2>4 DEF Server, Connects, managerVars, callVars
  <2>5. CASE \E i \in DOMAIN tasks : TaskStep(i)
    BY <2>2, <2>5 DEF TaskStep, SetupStarts, SetupEnds, LifeStarts, LifeWoken, LifeCloses, LifeFails,
                      StopStarts, StopEnds, Unregisters, Requests, managerVars, callVars
  <2> QED BY <2>1, <2>3, <2>4, <2>5 DEF Next
<1> QED BY <1>2, <1>3, <1>4, <1>5

LEMMA LoopsApartKeep ==
  ASSUME IParts, LoopsApart, [Next]_vars
  PROVE  LoopsApart'
<1>0. /\ LoopsTyped /\ Len(loops) \in Nat /\ shut \subseteq Managers /\ shut \subseteq shut'
      /\ \A m \in Managers : loopOf[m] \in 0..Len(loops)
  BY LoopShape DEF IParts, LoopsTyped, RegistryInv
<1>1. CASE UNCHANGED <<loopOf, loops>>
  BY <1>0, <1>1 DEF LoopsApart
<1>2. ASSUME NEW m \in Managers, loops' = Append(loops, "created"),
             loopOf' = [loopOf EXCEPT ![m] = Len(loops) + 1]
      PROVE  LoopsApart'
  <2>1. /\ \A n \in Managers : loopOf'[n] = IF n = m THEN Len(loops) + 1 ELSE loopOf[n]
        /\ \A l \in 1..Len(loops) : loops'[l] = loops[l]
        /\ loops'[Len(loops) + 1] = "created"
    BY <1>0, <1>2 DEF LoopsTyped
  <2>2. \A n, k \in Managers : loopOf'[n] # 0 /\ loopOf'[n] = loopOf'[k] => n = k
    BY <1>0, <2>1 DEF LoopsApart
  <2>3. \A n \in Managers \ shut' : loopOf'[n] # 0 => loops'[loopOf'[n]] \notin {"stopping", "stopped"}
    BY <1>0, <1>2, <2>1 DEF LoopsApart
  <2> QED BY <2>2, <2>3 DEF LoopsApart
<1>3. ASSUME loops' = loops, NEW m \in shut, loopOf' = [loopOf EXCEPT ![m] = 0]
      PROVE  LoopsApart'
  <2>1. \A n \in Managers : loopOf'[n] = IF n = m THEN 0 ELSE loopOf[n]
    BY <1>0, <1>3 DEF LoopsTyped
  <2> QED BY <1>0, <1>3, <2>1 DEF LoopsApart
<1>4. ASSUME loopOf' = loopOf, NEW m \in shut, loopOf[m] # 0,
             loops' = [loops EXCEPT ![loopOf[m]] = "stopping"]
      PROVE  LoopsApart'
  <2>1. \A l : l # loopOf[m] => loops'[l] = loops[l]
    BY <1>4
  <2>2. \A n \in Managers \ shut' : n # m /\ n \notin shut /\ loopOf[n] # loopOf[m]
    BY <1>0, <1>4 DEF LoopsApart
  <2> QED BY <1>4, <2>1, <2>2 DEF LoopsApart
<1>5. ASSUME loopOf' = loopOf, NEW l \in DOMAIN loops,
             \/ loops[l] = "created" /\ loops' = [loops EXCEPT ![l] = "booting"]
             \/ loops[l] = "booting" /\ loops' = [loops EXCEPT ![l] = "running"]
             \/ loops[l] = "stopping" /\ loops' = [loops EXCEPT ![l] = "stopped"]
      PROVE  LoopsApart'
  <2>1. \A k \in DOMAIN loops : loops'[k] \in {"stopping", "stopped"} => loops[k] \in {"stopping", "stopped"}
    BY <1>5
  <2>2. \A m \in Managers : loopOf[m] # 0 => loopOf[m] \in DOMAIN loops
    BY <1>0 DEF LoopsTyped
  <2> QED BY <1>0, <1>5, <2>1, <2>2 DEF LoopsApart
<1> QED BY <1>1, <1>2, <1>3, <1>4, <1>5, LoopShape

\* A manager that is not shut down goes on serving a loop.
LEMMA ServesKeep ==
  ASSUME IParts, LoopsApart, [Next]_vars, NEW m \in Managers \ shut, NEW l \in 1..Len(loops),
         Serves(m, l)
  PROVE  Serves(m, l)'
<1>0. /\ LoopsTyped /\ Len(loops) \in Nat /\ shut \subseteq Managers
      /\ l \in DOMAIN loops /\ l # 0 /\ loopOf[m] = l /\ loops[l] = "running" /\ ~ Starting(m)
  BY DEF IParts, LoopsTyped, RegistryInv, Serves
<1>1. ~ Starting(m)'
  BY <1>0, StartingShape DEF Runs
<1>2. CASE UNCHANGED <<loopOf, loops>>
  BY <1>0, <1>1, <1>2 DEF Serves
<1>3. ASSUME NEW n \in Managers, Starting(n), loops' = Append(loops, "created"),
             loopOf' = [loopOf EXCEPT ![n] = Len(loops) + 1]
      PROVE  Serves(m, l)'
  <2>1. n # m
    BY <1>0, <1>3
  <2>2. loopOf'[m] = loopOf[m] /\ loops'[l] = loops[l]
    BY <1>0, <1>3, <2>1 DEF LoopsTyped
  <2> QED BY <1>0, <1>1, <2>2 DEF Serves
<1>4. ASSUME loops' = loops, NEW n \in shut, loopOf' = [loopOf EXCEPT ![n] = 0]
      PROVE  Serves(m, l)'
  <2>1. loopOf'[m] = loopOf[m]
    BY <1>0, <1>4 DEF LoopsTyped
  <2> QED BY <1>0, <1>1, <1>4, <2>1 DEF Serves
<1>5. ASSUME loopOf' = loopOf, NEW n \in shut, loopOf[n] # 0,
             loops' = [loops EXCEPT ![loopOf[n]] = "stopping"]
      PROVE  Serves(m, l)'
  <2>1. loopOf[n] # l
    BY <1>0, <1>5 DEF LoopsApart
  <2>2. loops'[l] = loops[l]
    BY <1>0, <1>5, <2>1
  <2> QED BY <1>0, <1>1, <1>5, <2>2 DEF Serves
<1>6. ASSUME loopOf' = loopOf, NEW k \in DOMAIN loops,
             \/ loops[k] = "created" /\ loops' = [loops EXCEPT ![k] = "booting"]
             \/ loops[k] = "booting" /\ loops' = [loops EXCEPT ![k] = "running"]
             \/ loops[k] = "stopping" /\ loops' = [loops EXCEPT ![k] = "stopped"]
      PROVE  Serves(m, l)'
  <2>1. loops'[l] = "running"
    BY <1>0, <1>6
  <2> QED BY <1>0, <1>1, <1>6, <2>1 DEF Serves
<1> QED BY <1>2, <1>3, <1>4, <1>5, <1>6, LoopShape

\* What changes a connection's session, or that it is connected.
LEMMA SessionShape ==
  ASSUME IParts, [Next]_vars, NEW c \in Conns
  PROVE  \/ session'[c] = session[c] /\ (connected'[c] => connected[c])
         \/ session'[c] = 0 /\ ~ connected'[c]
         \/ \E i \in DOMAIN tasks : /\ Connects(i, TRUE) /\ tasks[i].conn = c /\ session'[c] = i
                                    /\ at'[i] \in {"closing", "holding"} /\ tasks[i].kind = "life"
                                    /\ i # 0
<1>0. /\ session \in [Conns -> 0..Len(tasks)] /\ connected \in [Conns -> BOOLEAN]
      /\ \A i \in DOMAIN tasks : tasks[i].conn \in Conns /\ i # 0
  BY TaskFields DEF IParts, RefsTyped
<1>1. ASSUME NEW t \in Threads, ThreadStep(t) \/ Application(t) PROVE UNCHANGED connVars
  <2>1. ThreadStep(t) => UNCHANGED connVars
    BY DEF ThreadStep, Rest, Shifts, Drops, Registers, Owns, Ask, Take, Check, Send, Returns,
           TimesOut, Ends
  <2> QED BY <1>1, <2>1, CallShape
<1>2. CASE LoopThreads \/ UNCHANGED vars
  BY <1>2 DEF LoopThreads, Rest, vars, connVars
<1>3. CASE Server
  <2>1. PICK i \in DOMAIN tasks, works \in BOOLEAN : Connects(i, works)
    BY <1>3 DEF Server
  <2>2. /\ session' = [session EXCEPT ![tasks[i].conn] = IF works /\ AfterReady(i) # "done" THEN i ELSE 0]
        /\ connected' = [connected EXCEPT ![tasks[i].conn] = works /\ AfterReady(i) # "done"]
        /\ AfterReady(i) \in {"done", "closing", "holding"} /\ at'[i] = AfterReady(i)
        /\ tasks[i].kind = "life"
    BY <2>1, ConnectsShape
  <2>3. CASE tasks[i].conn # c
    BY <1>0, <2>2, <2>3
  <2>4. CASE tasks[i].conn = c /\ works /\ AfterReady(i) # "done"
    BY <1>0, <2>1, <2>2, <2>4
  <2>5. CASE tasks[i].conn = c /\ ~ (works /\ AfterReady(i) # "done")
    BY <1>0, <2>2, <2>5
  <2> QED BY <2>3, <2>4, <2>5
<1>4. ASSUME NEW i \in DOMAIN tasks, TaskStep(i)
      PROVE  \/ session'[c] = session[c] /\ (connected'[c] => connected[c])
             \/ session'[c] = 0 /\ ~ connected'[c]
  <2>1. \/ UNCHANGED <<connected, session>>
        \/ connected' = [connected EXCEPT ![tasks[i].conn] = FALSE] /\ session' = session
        \/ /\ connected' = [connected EXCEPT ![tasks[i].conn] = FALSE]
           /\ session' = [session EXCEPT ![tasks[i].conn] = 0]
    BY <1>4 DEF TaskStep, SetupStarts, SetupEnds, LifeStarts, LifeWoken, LifeCloses, LifeFails,
                LifeEnds, StopStarts, StopEnds, Unregisters, Requests, connVars
  <2> QED BY <1>0, <2>1
<1> QED BY <1>1, <1>2, <1>3, <1>4 DEF Next, connVars

\* The end of a session's task ends the connection, unless closing it raised.
LEMMA LifeOver ==
  ASSUME IParts, [Next]_vars, NEW i \in DOMAIN tasks, tasks[i].kind = "life", at[i] \notin Over,
         at'[i] \in Over
  PROVE  ~ connected'[tasks[i].conn] \/ "unclosed" \in trouble'[tasks[i].conn]
<1>0. /\ connected \in [Conns -> BOOLEAN] /\ at \in [DOMAIN tasks -> Spots]
      /\ trouble \in [Conns -> SUBSET Troubles] /\ tasks[i].conn \in Conns
  BY TaskFields DEF IParts, RefsTyped
<1>1. ASSUME NEW t \in Threads, ThreadStep(t) \/ Application(t) PROVE FALSE
  <2>1. CASE Submits(t)
    BY <2>1, SubmitShape
  <2>2. CASE UNCHANGED taskVars
    BY <2>2 DEF taskVars
  <2> QED BY <1>1, <2>1, <2>2, ThreadTasks, CallShape
<1>2. CASE LoopThreads \/ UNCHANGED vars
  BY <1>2 DEF LoopThreads, Rest, vars, taskVars
<1>3. CASE Server
  <2>1. PICK j \in DOMAIN tasks, works \in BOOLEAN : Connects(j, works)
    BY <1>3 DEF Server
  <2>2. i = j /\ AfterReady(i) = "done"
    BY <2>1, ConnectsShape DEF Over
  <2>3. connected' = [connected EXCEPT ![tasks[i].conn] = works /\ AfterReady(i) # "done"]
    BY <2>1, <2>2, ConnectsShape
  <2> QED BY <1>0, <2>2, <2>3
<1>4. ASSUME NEW j \in DOMAIN tasks, TaskStep(j)
      PROVE  ~ connected'[tasks[i].conn] \/ "unclosed" \in trouble'[tasks[i].conn]
  <2>1. CASE SetupStarts(j)
    BY <2>1, SetupShape
  <2>2. CASE StopStarts(j)
    BY <2>2, StopShape DEF Over
  <2>3. CASE SetupEnds(j) \/ StopEnds(j) \/ Unregisters(j) \/ Requests(j)
    <3>1. tasks[j].kind # "life" /\ \E p : at' = [at EXCEPT ![j] = p]
      <4>1. CASE SetupEnds(j)
        BY <4>1 DEF SetupEnds, Turn
      <4>2. CASE StopEnds(j)
        BY <4>2 DEF StopEnds, Turn
      <4>3. CASE Unregisters(j)
        BY <4>3 DEF Unregisters, Turn
      <4>4. CASE Requests(j)
        BY <4>4 DEF Requests, Turn
      <4> QED BY <2>3, <4>1, <4>2, <4>3, <4>4
    <3> QED BY <1>0, <3>1
  <2>4. CASE LifeStarts(j)
    BY <1>0, <2>4 DEF LifeStarts, Over
  <2>5. CASE LifeWoken(j) \/ LifeCloses(j)
    <3>1. \/ at' = [at EXCEPT ![j] = "closing"]
          \/ /\ at' = [at EXCEPT ![j] = "done"]
             /\ connected' = [connected EXCEPT ![tasks[j].conn] = FALSE]
      BY <2>5 DEF LifeWoken, LifeCloses, LifeEnds
    <3> QED BY <1>0, <3>1 DEF Over
  <2>6. CASE LifeFails(j)
    BY <1>0, <2>6 DEF LifeFails, Over
  <2> QED BY <1>4, <2>1, <2>2, <2>3, <2>4, <2>5, <2>6 DEF TaskStep
<1> QED BY <1>1, <1>2, <1>3, <1>4 DEF Next

LEMMA SessionsKeep ==
  ASSUME IParts, SessionsKnown, [Next]_vars
  PROVE  SessionsKnown'
<1> SUFFICES ASSUME NEW c \in Conns
             PROVE  /\ session'[c] # 0 => tasks'[session'[c]].kind = "life" /\ tasks'[session'[c]].conn = c
                    /\ connected'[c] => session'[c] # 0
                    /\ connected'[c] /\ "unclosed" \notin trouble'[c] => at'[session'[c]] \notin Over
  BY DEF SessionsKnown, Over
<1>0. /\ TasksGoOn /\ (session[c] # 0 => session[c] \in DOMAIN tasks)
      /\ session[c] # 0 => tasks[session[c]].kind = "life" /\ tasks[session[c]].conn = c
      /\ connected[c] => session[c] # 0
      /\ connected[c] /\ "unclosed" \notin trouble[c] => at[session[c]] \notin Over
  BY StepShape, TaskFields DEF IParts, RefsTyped, SessionsKnown
<1>1. CASE session'[c] = session[c] /\ (connected'[c] => connected[c])
  <2>1. ASSUME connected'[c], "unclosed" \notin trouble'[c] PROVE at'[session[c]] \notin Over
    BY <1>0, <1>1, <2>1, LifeOver DEF TasksGoOn
  <2> QED BY <1>0, <1>1, <2>1 DEF TasksGoOn
<1>2. CASE session'[c] = 0 /\ ~ connected'[c]
  BY <1>2
<1>3. ASSUME NEW i \in DOMAIN tasks, tasks[i].conn = c, session'[c] = i, tasks[i].kind = "life",
             at'[i] \in {"closing", "holding"}, i # 0
      PROVE  /\ session'[c] # 0 => tasks'[session'[c]].kind = "life" /\ tasks'[session'[c]].conn = c
             /\ connected'[c] => session'[c] # 0
             /\ connected'[c] /\ "unclosed" \notin trouble'[c] => at'[session'[c]] \notin Over
  BY <1>0, <1>3 DEF TasksGoOn, Over
<1> QED BY <1>1, <1>2, <1>3, SessionShape

\* What InOneLoop says of one connection.
CalledIn(c) ==
  \A t \in Users[c] : on[t] = c =>
    /\ pc[t] \in {"loop", "starting", "submit", "sending"} => managerOf[c] = via[t]
    /\ pc[t] = "waiting" /\ at[awaits[t]] \notin Over =>
         managerOf[c] = via[t] /\ Serves(via[t], tasks[awaits[t]].loop)

BoundTo(c) ==
  \A i \in DOMAIN tasks :
    tasks[i].conn = c /\ (tasks[i].kind = "life" \/ (tasks[i].kind = "setup" /\ at[i] = "onReady"))
      => tasks[i].loop = boundReady[c]

Cut(c) ==
  \A i \in DOMAIN tasks :
    tasks[i].conn = c /\ tasks[i].kind = "stop" /\ at[i] \in Unregistering => ~ connected[c]

Served(c) == connected[c] => managerOf[c] # NoOne /\ Serves(managerOf[c], boundReady[c])

OneLoopOf(c) == managerOf[c] \notin shut /\ CalledIn(c) /\ BoundTo(c) /\ Cut(c) /\ Served(c)

LEMMA InOneLoopParts == InOneLoop <=> \A c \in Conns : AtHome(c) => OneLoopOf(c)
BY DEF InOneLoop, OneLoopOf, CalledIn, BoundTo, Cut, Served

\* Who gives a connection another manager: its user, or who unregisters it.
LEMMA ManagerShape ==
  ASSUME IParts, [Next]_vars, NEW c \in Conns, managerOf'[c] # managerOf[c]
  PROVE  \/ \E t \in Threads : Owns(t) /\ on[t] = c /\ managerOf'[c] = via[t]
         \/ \E i \in DOMAIN tasks : /\ tasks[i].kind = "stop" /\ tasks[i].conn = c
                                    /\ at[i] = "disowning" /\ at'[i] = "done"
                                    /\ managerOf'[c] = NoOne /\ UNCHANGED shut
<1>0. /\ managerOf \in [Conns -> made \union {NoOne}] /\ at \in [DOMAIN tasks -> Spots]
      /\ on \in [Threads -> Conns]
  BY TaskFields
<1>1. ASSUME NEW t \in Threads, ThreadStep(t)
      PROVE  Owns(t) /\ on[t] = c /\ managerOf'[c] = via[t]
  <2>1. CASE Owns(t)
    BY <1>0, <2>1 DEF Owns, RegisterOwner
  <2>2. CASE Find(t) \/ Construct(t) \/ Assign(t) \/ Fetch(t) \/ EnsureLoop(t) \/ StartLoop(t)
             \/ StopsLoop(t) \/ Tell(t) \/ Joined(t) \/ Pop(t) \/ Sift(t)
    BY <2>2 DEF Find, Construct, Assign, Fetch, EnsureLoop, StartLoop, StopsLoop, Tell, Joined, Pop,
                Sift, registryVars
  <2>3. CASE Shifts(t) \/ Drops(t) \/ Registers(t) \/ Ask(t) \/ Take(t)
    BY <2>3 DEF Shifts, SiftRaises, Drops, Drop, Registers, RegisterCheck, RegisterName,
                RegisterEntry, Ask, Take, registryVars
  <2>4. CASE Check(t) \/ Send(t) \/ Returns(t) \/ TimesOut(t)
    BY <2>4 DEF Check, Send, Returns, TimesOut, Ends, registryVars
  <2> QED BY <1>1, <2>1, <2>2, <2>3, <2>4 DEF ThreadStep
<1>2. ASSUME NEW t \in Threads, Application(t) PROVE FALSE
  BY <1>2 DEF Application, Register, LookUp, Use, CallOn, Shutdown, ShutdownBegins, registryVars
<1>3. CASE LoopThreads \/ UNCHANGED vars
  BY <1>3 DEF LoopThreads, ThreadReads, LoopRuns, LoopStops, Becomes, vars, managerVars, registryVars
<1>4. CASE Server
  BY <1>4 DEF Server, Connects, managerVars, registryVars
<1>5. ASSUME NEW i \in DOMAIN tasks, TaskStep(i)
      PROVE  /\ tasks[i].kind = "stop" /\ tasks[i].conn = c
             /\ at[i] = "disowning" /\ at'[i] = "done"
             /\ managerOf'[c] = NoOne /\ UNCHANGED shut
  <2>1. CASE Unregisters(i)
    <3>1. /\ Turn(i, "stop", "disowning") /\ UnregisterOwner(tasks[i].conn)
          /\ at' = [at EXCEPT ![i] = "done"]
      BY <2>1 DEF Unregisters, UnregisterEntry, UnregisterName
    <3> QED BY <1>0, <3>1 DEF Turn, UnregisterOwner
  <2>2. CASE ~ Unregisters(i)
    BY <1>5, <2>2 DEF TaskStep, SetupStarts, SetupEnds, LifeStarts, LifeWoken, LifeCloses, LifeFails,
                      StopStarts, StopEnds, Requests, managerVars, registryVars
  <2> QED BY <2>1, <2>2
<1> QED BY <1>1, <1>2, <1>3, <1>4, <1>5 DEF Next

\* Who shuts a manager down, and that the connections it has are in trouble then.
LEMMA ShutShape ==
  ASSUME IParts, [Next]_vars, NEW m \in shut' \ shut
  PROVE  /\ UNCHANGED managerOf
         /\ \A c \in Conns : managerOf[c] = m => "shutDown" \in trouble'[c]
<1>1. ASSUME NEW t \in Threads, ThreadStep(t) PROVE FALSE
  BY <1>1, ThreadLoops
<1>2. ASSUME NEW t \in Threads, Application(t)
      PROVE  /\ UNCHANGED managerOf
             /\ \A c \in Conns : managerOf[c] = m => "shutDown" \in trouble'[c]
  <2>1. CASE \E n \in Managers : Shutdown(t, n)
    BY <2>1 DEF Shutdown, ShutdownBegins
  <2>2. CASE ~ \E n \in Managers : Shutdown(t, n)
    BY <1>2, <2>2 DEF Application, Register, LookUp, Use, CallOn, registryVars
  <2> QED BY <2>1, <2>2
<1>3. ASSUME LoopThreads \/ Server \/ (\E i \in DOMAIN tasks : TaskStep(i)) \/ UNCHANGED vars
      PROVE  FALSE
  <2>1. CASE LoopThreads \/ UNCHANGED vars
    BY <2>1 DEF LoopThreads, ThreadReads, LoopRuns, LoopStops, Becomes, vars, managerVars, registryVars
  <2>2. CASE Server
    BY <2>2 DEF Server, Connects, managerVars, registryVars
  <2>3. CASE \E i \in DOMAIN tasks : TaskStep(i)
    BY <2>3 DEF TaskStep, SetupStarts, SetupEnds, LifeStarts, LifeWoken, LifeCloses, LifeFails,
                StopStarts, StopEnds, Unregisters, UnregisterEntry, UnregisterName, UnregisterOwner,
                Requests, managerVars, registryVars
  <2> QED BY <1>3, <2>1, <2>2, <2>3
<1> QED BY <1>1, <1>2, <1>3 DEF Next

\* Nothing has gone wrong yet if nothing has after the step.
LEMMA StillHome ==
  ASSUME IParts, [Next]_vars, NEW c \in Conns, AtHome(c)'
  PROVE  /\ AtHome(c) /\ trouble[c] \intersect {"moved", "gaveUp"} = {} /\ "gaveUp" \notin trouble[c]
         /\ \A what \in {"gaveUp", "moved", "shutDown", "rehomed", "raced", "lateClose", "left"} :
              what \notin trouble'[c]
<1>1. trouble[c] \subseteq trouble'[c]
  BY StepShape DEF TasksGoOn
<1> QED BY <1>1 DEF AtHome

\* A connection that is disowned has its user wait for that.
LEMMA UserWaits ==
  ASSUME OneUser, IParts, CallersKnown, Attended, NEW c \in Conns, "gaveUp" \notin trouble[c],
         NEW i \in DOMAIN tasks, tasks[i].kind = "stop", tasks[i].conn = c, at[i] \notin Over,
         NEW t \in Users[c]
  PROVE  pc[t] = "waiting" /\ awaits[t] = i
<1>1. Expected(i)
  BY DEF Expected
<1> QED BY <1>1, OneAtATime

\* Who owns the connection is its user.
LEMMA UserOwns ==
  ASSUME OneUser, IParts, CallersKnown, NEW t \in Threads, Owns(t), NEW u \in Users[on[t]]
  PROVE  u = t
<1>1. pc[t] = "owning" /\ on[t] \in Conns
  BY TaskFields DEF Owns, RegisterOwner
<1>2. op[t] # "look" /\ pc[t] \in Underway
  BY <1>1 DEF IParts, CallsFit, Writing, Underway
<1> QED BY <1>1, <1>2 DEF CallersKnown, OneUser

LEMMA UnshutKeep ==
  ASSUME IParts, [Next]_vars, NEW c \in Conns, AtHome(c)', managerOf[c] \notin shut
  PROVE  managerOf'[c] \notin shut'
<1>0. "shutDown" \notin trouble'[c] /\ NoOne \notin shut /\ trouble \in [Conns -> SUBSET Troubles]
  BY StillHome, TaskFields, ManagerAssumption DEF IParts, RegistryInv
<1>1. CASE managerOf'[c] = managerOf[c]
  BY <1>0, <1>1, ShutShape
<1>2. ASSUME NEW t \in Threads, Owns(t), on[t] = c, managerOf'[c] = via[t]
      PROVE  managerOf'[c] \notin shut'
  <2>1. via[t] \in shut => "shutDown" \in trouble'[c]
    <3> DEFINE dead == IF via[t] \in shut THEN {"shutDown"} ELSE {}
               changed == IF managerOf[c] \in {NoOne, via[t]} THEN {} ELSE {"rehomed"}
    <3>1. trouble' = [trouble EXCEPT ![c] = @ \union dead \union changed]
      BY <1>2 DEF Owns
    <3>2. dead \subseteq trouble'[c]
      BY <1>0, <3>1
    <3> QED BY <3>2
  <2>2. shut' = shut
    BY <1>2 DEF Owns, RegisterOwner
  <2> QED BY <1>0, <1>2, <2>1, <2>2
<1> QED BY <1>0, <1>1, <1>2, ManagerShape

\* The manager a thread has in hand, and that serves it, stays.
LEMMA CalledInKeep ==
  ASSUME OneUser, IParts, CallersKnown, Attended, LoopsApart, [Next]_vars,
         NEW c \in Conns, AtHome(c)', OneLoopOf(c)
  PROVE  CalledIn(c)'
<1> SUFFICES ASSUME NEW t \in Users[c], on'[t] = c
             PROVE  /\ pc'[t] \in {"loop", "starting", "submit", "sending"} => managerOf'[c] = via'[t]
                    /\ pc'[t] = "waiting" /\ at'[awaits'[t]] \notin Over =>
                         managerOf'[c] = via'[t] /\ Serves(via[t], tasks[awaits[t]].loop)'
  BY DEF CalledIn, Over
<1>0. /\ TasksGoOn /\ t \in Threads /\ "gaveUp" \notin trouble[c] /\ "raced" \notin trouble'[c]
      /\ \A i \in DOMAIN tasks : tasks[i].loop \in 1..Len(loops)
      /\ managerOf[c] \notin shut /\ CalledIn(c)
  BY StepShape, TaskFields, StillHome, ConnectionAssumption DEF OneLoopOf
<1>1. ASSUME on[t] = c, pc[t] \in {"loop", "starting", "submit", "sending"}
      PROVE  managerOf'[c] = managerOf[c]
  <2>1. ASSUME NEW u \in Threads, Owns(u), on[u] = c PROVE FALSE
    <3>1. t = u
      BY <2>1, UserOwns
    <3> QED BY <1>1, <2>1, <3>1 DEF Owns, RegisterOwner
  <2>2. ASSUME NEW i \in DOMAIN tasks, tasks[i].kind = "stop", tasks[i].conn = c, at[i] = "disowning"
        PROVE  FALSE
    <3>1. pc[t] = "waiting"
      BY <1>0, <2>2, UserWaits DEF Over
    <3> QED BY <1>1, <3>1
  <2> QED BY <2>1, <2>2, ManagerShape
<1>2. ASSUME on[t] = c, pc[t] = "waiting", at'[awaits[t]] \notin Over
      PROVE  managerOf'[c] = managerOf[c]
  <2>1. ASSUME NEW u \in Threads, Owns(u), on[u] = c PROVE FALSE
    <3>1. t = u
      BY <2>1, UserOwns
    <3> QED BY <1>2, <2>1, <3>1 DEF Owns, RegisterOwner
  <2>2. ASSUME NEW i \in DOMAIN tasks, tasks[i].kind = "stop", tasks[i].conn = c, at[i] = "disowning",
               at'[i] = "done"
        PROVE  FALSE
    <3>1. awaits[t] = i
      BY <1>0, <2>2, UserWaits DEF Over
    <3> QED BY <1>2, <2>2, <3>1 DEF Over
  <2> QED BY <2>1, <2>2, ManagerShape
<1>3. CASE Rests(t)
  <2>1. on[t] = c /\ pc'[t] = pc[t] /\ via'[t] = via[t] /\ awaits'[t] = awaits[t]
    BY <1>3 DEF Rests
  <2>2. ASSUME pc[t] = "waiting", at'[awaits[t]] \notin Over
        PROVE  managerOf'[c] = via'[t] /\ Serves(via[t], tasks[awaits[t]].loop)'
    <3>1. awaits[t] \in DOMAIN tasks
      BY <1>0, <2>2 DEF CallersKnown
    <3>2. at[awaits[t]] \notin Over /\ tasks'[awaits[t]] = tasks[awaits[t]]
      BY <1>0, <2>2, <3>1 DEF TasksGoOn
    <3>3. managerOf[c] = via[t] /\ Serves(via[t], tasks[awaits[t]].loop)
      BY <1>0, <2>1, <2>2, <3>2 DEF CalledIn
    <3>4. via[t] \in Managers \ shut
      BY <1>0, <2>2, <3>3, HasManager DEF NoneYet
    <3>5. PICK m \in Managers \ shut, l \in 1..Len(loops) : m = via[t] /\ l = tasks[awaits[t]].loop
      BY <1>0, <3>1, <3>4
    <3>6. Serves(m, l)'
      BY <3>3, <3>5, ServesKeep
    <3>7. m = via'[t] /\ l = tasks'[awaits'[t]].loop
      BY <2>1, <3>2, <3>5
    <3> QED BY <1>2, <2>1, <2>2, <3>3, <3>5, <3>6, <3>7 DEF Serves, Starting
  <2>3. pc[t] \in {"loop", "starting", "submit", "sending"} => managerOf'[c] = via[t]
    BY <1>0, <1>1, <2>1 DEF CalledIn
  <2> QED BY <2>1, <2>2, <2>3
<1>4. CASE Begins(t) \/ Removes(t) \/ Finishes(t)
  BY <1>4 DEF Begins, Removes, Finishes, Removal
<1>5. CASE Moves(t)
  <2>1. on[t] = c /\ pc'[t] # "waiting"
    BY <1>5 DEF Moves, SameCall, Underway, Looking, Writing, Using
  <2>2. pc'[t] = "loop" => managerOf'[c] = via'[t]
    BY <1>5, <2>1 DEF Moves
  <2>3. pc'[t] \in {"starting", "submit", "sending"} => managerOf'[c] = via'[t]
    BY <1>0, <1>1, <1>5, <2>1 DEF Moves, CalledIn
  <2> QED BY <2>1, <2>2, <2>3
<1>6. CASE Submits(t)
  <2> DEFINE n == Len(tasks)
  <2>1. /\ tasks'[n + 1] = [kind |-> KindOf(op[t]), conn |-> on[t], loop |-> loopOf[via[t]]]
        /\ pc[t] = "sending" /\ pc' = [pc EXCEPT ![t] = "waiting"]
        /\ awaits' = [awaits EXCEPT ![t] = n + 1]
        /\ loopOf[via[t]] \in 1..Len(loops) /\ via[t] \in Managers
        /\ trouble' = IF Races(t) THEN [trouble EXCEPT ![on[t]] = @ \union {"raced"}] ELSE trouble
        /\ UNCHANGED <<registryVars, loopVars, via, on>>
    BY <1>0, <1>6, SubmitShape
  <2>2. UNCHANGED <<managerOf, loopOf, loops, via>> /\ on[t] = c
    BY <2>1 DEF registryVars, loopVars
  <2>3. managerOf[c] = via[t]
    BY <1>0, <2>1, <2>2 DEF CalledIn
  <2>4. ~ Starting(via[t]) /\ Runs(loopOf[via[t]])
    BY <1>0, <2>1, <2>2, TaskFields DEF Races
  <2>5. loops[loopOf[via[t]]] = "running"
    BY <1>0, <2>1, <2>3, <2>4 DEF Runs, LoopsApart
  <2>6. ~ Starting(via[t])'
    <3>1. PICK m \in Managers : m = via[t]
      BY <2>1
    <3>2. ~ Starting(m)'
      BY <2>4, <3>1, StartingShape
    <3> QED BY <2>2, <3>1, <3>2 DEF Starting
  <2>7. pc'[t] = "waiting" /\ awaits'[t] = n + 1
    BY <1>0, <2>1, TaskFields
  <2> QED BY <2>1, <2>2, <2>3, <2>5, <2>6, <2>7 DEF Serves
<1> QED BY <1>0, <1>3, <1>4, <1>5, <1>6, ThreadShape

\* The lifecycle tasks of a connection, and who waits for one, are in one loop.
LEMMA BoundToKeep ==
  ASSUME IParts, [Next]_vars, NEW c \in Conns, AtHome(c)', BoundTo(c)
  PROVE  /\ BoundTo(c)'
         /\ boundReady'[c] = boundReady[c]
            \/ ~ \E i \in DOMAIN tasks : tasks[i].kind = "life" /\ tasks[i].conn = c
<1>0. /\ TasksGoOn /\ "moved" \notin trouble'[c] /\ trouble \in [Conns -> SUBSET Troubles]
      /\ boundReady \in [Conns -> 0..Len(loops)]
      /\ \A i \in DOMAIN tasks : tasks[i].loop # 0 /\ tasks[i].conn \in Conns
      /\ at \in [DOMAIN tasks -> Spots]
  BY StepShape, StillHome, TaskFields DEF IParts, RefsTyped
<1>1. ASSUME boundReady'[c] = boundReady[c],
             \A i \in DOMAIN tasks : tasks[i].conn = c /\ at'[i] = "onReady" => at[i] = "onReady",
             \A i \in DOMAIN tasks' \ DOMAIN tasks : tasks'[i].conn # c \/ tasks'[i].kind # "life"
      PROVE  BoundTo(c)'
  <2> SUFFICES ASSUME NEW i \in DOMAIN tasks', tasks'[i].conn = c,
                      tasks'[i].kind = "life" \/ (tasks'[i].kind = "setup" /\ at'[i] = "onReady")
               PROVE  tasks'[i].loop = boundReady'[c]
    BY DEF BoundTo
  <2>1. i \in DOMAIN tasks
    BY <1>1, NewTasks
  <2> QED BY <1>0, <1>1, <2>1 DEF TasksGoOn, BoundTo
<1>2. ASSUME UNCHANGED <<boundReady, taskVars>> PROVE BoundTo(c)'
  BY <1>1, <1>2 DEF taskVars
<1>3. ASSUME NEW t \in Threads, ThreadStep(t) \/ Application(t)
      PROVE  BoundTo(c)' /\ boundReady' = boundReady
  <2>1. UNCHANGED boundReady
    <3>1. ThreadStep(t) => UNCHANGED boundReady
      BY DEF ThreadStep, Rest, Shifts, Drops, Registers, Owns, Ask, Take, Check, Send, Returns,
             TimesOut, Ends, connVars
    <3> QED BY <1>3, <3>1, CallShape DEF connVars
  <2>2. CASE Submits(t)
    <3>1. /\ DOMAIN tasks' = DOMAIN tasks \union {Len(tasks) + 1}
          /\ \A i \in DOMAIN tasks : at'[i] = at[i]
          /\ tasks'[Len(tasks) + 1] = [kind |-> KindOf(op[t]), conn |-> on[t], loop |-> loopOf[via[t]]]
          /\ KindOf(op[t]) \in {"setup", "stop", "request"}
      BY <2>2, SubmitShape
    <3> QED BY <1>1, <2>1, <3>1
  <2> QED BY <1>2, <1>3, <2>1, <2>2, ThreadTasks, CallShape
<1>4. CASE LoopThreads \/ UNCHANGED vars
  BY <1>2, <1>4 DEF LoopThreads, Rest, vars, connVars
<1>5. CASE Server
  <2>1. PICK i \in DOMAIN tasks, works \in BOOLEAN : Connects(i, works)
    BY <1>5 DEF Server
  <2>2. /\ tasks' = tasks /\ UNCHANGED boundReady
        /\ AfterReady(i) \in {"done", "closing", "holding"}
        /\ \A j \in DOMAIN tasks : at'[j] \in {AfterReady(i), "woken", at[j]}
    BY <2>1, ConnectsShape
  <2> QED BY <1>1, <2>2
<1>6. ASSUME NEW i \in DOMAIN tasks, SetupStarts(i)
      PROVE  /\ BoundTo(c)'
             /\ boundReady'[c] = boundReady[c]
                \/ ~ \E j \in DOMAIN tasks : tasks[j].kind = "life" /\ tasks[j].conn = c
  <2> DEFINE n == Len(tasks)
  <2>1. /\ DOMAIN tasks' = DOMAIN tasks \union {n + 1}
        /\ \A j \in DOMAIN tasks : tasks'[j] = tasks[j] /\ (j # i => at'[j] = at[j])
        /\ tasks'[n + 1] = [kind |-> "life", conn |-> tasks[i].conn, loop |-> tasks[i].loop]
        /\ \/ ForeignTo(boundReady, i) /\ trouble' = [trouble EXCEPT ![tasks[i].conn] = @ \union {"moved"}]
              /\ boundReady' = boundReady
           \/ ~ ForeignTo(boundReady, i)
              /\ boundReady' = [boundReady EXCEPT ![tasks[i].conn] = tasks[i].loop]
    BY <1>6, SetupShape
  <2>2. CASE tasks[i].conn # c
    <3>1. boundReady'[c] = boundReady[c]
      BY <1>0, <2>1, <2>2
    <3> QED BY <1>1, <2>1, <2>2, <3>1
  <2>3. CASE tasks[i].conn = c
    <3>1. boundReady[c] \in {0, tasks[i].loop} /\ boundReady'[c] = tasks[i].loop
      BY <1>0, <2>1, <2>3 DEF ForeignTo
    <3>2. \A j \in DOMAIN tasks : tasks[j].conn = c /\ tasks[j].kind = "life" => tasks[j].loop = boundReady[c]
      BY DEF BoundTo
    <3>3. \A j \in DOMAIN tasks : tasks[j].conn = c /\ tasks[j].kind = "life" => boundReady'[c] = boundReady[c]
      BY <1>0, <3>1, <3>2
    <3>4. BoundTo(c)'
      <4> SUFFICES ASSUME NEW j \in DOMAIN tasks', tasks'[j].conn = c,
                          tasks'[j].kind = "life" \/ (tasks'[j].kind = "setup" /\ at'[j] = "onReady")
                   PROVE  tasks'[j].loop = boundReady'[c]
        BY DEF BoundTo
      <4>1. CASE j \in DOMAIN tasks /\ j # i
        <5>1. tasks[j].loop = boundReady[c] /\ tasks[j].loop # 0
          BY <1>0, <2>1, <4>1 DEF BoundTo
        <5> QED BY <2>1, <3>1, <4>1, <5>1
      <4>2. CASE j = i
        BY <2>1, <3>1, <4>2
      <4>3. CASE j = n + 1
        BY <2>1, <3>1, <4>3
      <4> QED BY <2>1, <4>1, <4>2, <4>3
    <3> QED BY <3>3, <3>4
  <2> QED BY <2>2, <2>3
<1>7. ASSUME NEW i \in DOMAIN tasks, TaskStep(i), ~ SetupStarts(i)
      PROVE  BoundTo(c)' /\ boundReady' = boundReady
  <2>1. tasks' = tasks /\ UNCHANGED boundReady
    BY <1>7 DEF TaskStep, SetupEnds, LifeStarts, LifeWoken, LifeCloses, LifeFails, StopStarts,
                StopEnds, Unregisters, Requests, connVars
  <2>2. CASE StopStarts(i)
    <3>1. \A j \in DOMAIN tasks : at'[j] = "onReady" => at[j] = "onReady"
      BY <2>2, StopShape
    <3> QED BY <1>1, <2>1, <3>1
  <2>3. CASE ~ StopStarts(i)
    <3>1. \E p \in Spots \ {"onReady"} : at' = [at EXCEPT ![i] = p]
      BY <1>7, <2>3 DEF TaskStep, SetupEnds, LifeStarts, LifeWoken, LifeCloses, LifeEnds, LifeFails,
                  StopEnds, Unregisters, Requests, Spots, Unregistering, Over
    <3>2. \A j \in DOMAIN tasks : at'[j] = "onReady" => at[j] = "onReady"
      BY <1>0, <3>1
    <3> QED BY <1>1, <2>1, <3>2
  <2> QED BY <2>2, <2>3
<1>8. CASE \E i \in DOMAIN tasks : TaskStep(i)
  <2>1. PICK i \in DOMAIN tasks : TaskStep(i)
    BY <1>8
  <2>2. CASE SetupStarts(i)
    BY <1>6, <2>2
  <2>3. CASE ~ SetupStarts(i)
    BY <1>7, <2>1, <2>3
  <2> QED BY <2>2, <2>3
<1>9. CASE LoopThreads \/ Server \/ UNCHANGED vars
  <2>1. boundReady' = boundReady
    BY <1>9 DEF LoopThreads, Rest, Server, Connects, vars, connVars
  <2> QED BY <1>4, <1>5, <1>9, <2>1
<1> QED BY <1>3, <1>8, <1>9 DEF Next

\* An attempt is not answered while the connection is closed.
LEMMA Answered ==
  ASSUME OneUser, IParts, CallersKnown, Attended, OneAttempt, NEW c \in Conns,
         trouble[c] \intersect {"moved", "gaveUp"} = {}, NEW i \in DOMAIN tasks,
         tasks[i].kind = "life", at[i] = "connecting", tasks[i].conn = c
  PROVE  \E t \in Users[c], k \in DOMAIN tasks :
           /\ pc[t] = "waiting" /\ awaits[t] = k /\ on[t] = c /\ t \in Threads
           /\ tasks[k].kind = "setup" /\ tasks[k].conn = c /\ at[k] = "onReady"
           /\ \A j \in DOMAIN tasks : tasks[j].conn = c /\ Expected(j) => j = k
<1>1. i \in Fetching(c)
  BY DEF Fetching, Living, Over
<1> QED BY <1>1, WhoFetches

LEMMA CutKeep ==
  ASSUME OneUser, IParts, CallersKnown, Attended, OneAttempt, [Next]_vars,
         NEW c \in Conns, AtHome(c)', Cut(c)
  PROVE  Cut(c)'
<1> SUFFICES ASSUME NEW i \in DOMAIN tasks', tasks'[i].conn = c, tasks'[i].kind = "stop",
                    at'[i] \in Unregistering, connected'[c]
             PROVE  FALSE
  BY DEF Cut, Unregistering
<1>0. /\ TasksGoOn /\ trouble[c] \intersect {"moved", "gaveUp"} = {} /\ "gaveUp" \notin trouble[c]
      /\ at \in [DOMAIN tasks -> Spots] /\ connected \in [Conns -> BOOLEAN]
  BY StepShape, StillHome, TaskFields DEF IParts, RefsTyped
<1>1. i \in DOMAIN tasks
  BY NewTasks DEF Unregistering
<1>2. tasks[i].conn = c /\ tasks[i].kind = "stop"
  BY <1>0, <1>1 DEF TasksGoOn
<1>3. CASE at[i] \in Unregistering
  <2>1. ~ connected[c]
    BY <1>1, <1>2, <1>3 DEF Cut
  <2>2. PICK j \in DOMAIN tasks : tasks[j].kind = "life" /\ at[j] = "connecting" /\ tasks[j].conn = c
    BY <2>1, SessionShape DEF Connects, Turn
  <2>3. PICK k \in DOMAIN tasks :
          /\ tasks[k].kind = "setup"
          /\ \A n \in DOMAIN tasks : tasks[n].conn = c /\ Expected(n) => n = k
    BY <1>0, <2>2, Answered
  <2>4. Expected(i)
    BY <1>0, <1>2, <1>3 DEF Expected, Unregistering, Over
  <2> QED BY <1>1, <1>2, <2>3, <2>4
<1>4. CASE at[i] \notin Unregistering
  <2>1. at'[i] # at[i]
    BY <1>4
  <2>2. ASSUME NEW t \in Threads, ThreadStep(t) \/ Application(t) PROVE FALSE
    <3>1. CASE Submits(t)
      BY <1>1, <2>1, <3>1, SubmitShape
    <3>2. CASE UNCHANGED taskVars
      BY <2>1, <3>2 DEF taskVars
    <3> QED BY <2>2, <3>1, <3>2, ThreadTasks, CallShape
  <2>3. CASE LoopThreads \/ UNCHANGED vars
    BY <2>1, <2>3 DEF LoopThreads, Rest, vars, taskVars
  <2>4. CASE Server
    <3>1. PICK j \in DOMAIN tasks, works \in BOOLEAN : Connects(j, works)
      BY <2>4 DEF Server
    <3>2. at'[i] \in {AfterReady(j), "woken", at[i]} /\ AfterReady(j) \in {"done", "closing", "holding"}
      BY <1>1, <3>1, ConnectsShape
    <3> QED BY <2>1, <3>2 DEF Unregistering
  <2>5. ASSUME NEW j \in DOMAIN tasks, TaskStep(j) PROVE FALSE
    <3>1. CASE StopEnds(j)
      <4>1. /\ connected' = [connected EXCEPT ![tasks[j].conn] = FALSE]
            /\ \E p : at' = [at EXCEPT ![j] = p]
        BY <3>1 DEF StopEnds
      <4>2. i = j
        BY <1>0, <1>1, <2>1, <4>1
      <4> QED BY <1>0, <1>2, <4>1, <4>2
    <3>2. CASE SetupStarts(j)
      BY <1>1, <2>1, <3>2, SetupShape DEF Unregistering
    <3>3. CASE StopStarts(j)
      BY <1>1, <2>1, <3>3, StopShape DEF Unregistering
    <3>4. CASE Unregisters(j)
      <4>1. at[j] \in Unregistering /\ \E p : at' = [at EXCEPT ![j] = p]
        BY <3>4 DEF Unregisters, Turn, Unregistering
      <4> QED BY <1>0, <1>1, <1>4, <2>1, <4>1
    <3>5. CASE SetupEnds(j) \/ LifeStarts(j) \/ LifeWoken(j) \/ LifeCloses(j) \/ LifeFails(j) \/ Requests(j)
      <4>1. \E p \in Spots \ Unregistering : at' = [at EXCEPT ![j] = p]
        BY <3>5 DEF SetupEnds, LifeStarts, LifeWoken, LifeCloses, LifeEnds, LifeFails, Requests, Spots,
                    Unregistering, Over
      <4> QED BY <1>0, <1>1, <2>1, <4>1
    <3> QED BY <2>5, <3>1, <3>2, <3>3, <3>4, <3>5 DEF TaskStep
  <2> QED BY <2>2, <2>3, <2>4, <2>5 DEF Next
<1> QED BY <1>3, <1>4

\* A connected connection has a manager, which serves the loop of the first attempt.
LEMMA ServedKeep ==
  ASSUME OneUser, IParts, CallersKnown, Attended, OneAttempt, LoopsApart, SessionsKnown, [Next]_vars,
         NEW c \in Conns, AtHome(c)', OneLoopOf(c)
  PROVE  Served(c)'
<1> SUFFICES ASSUME connected'[c]
             PROVE  managerOf'[c] # NoOne /\ Serves(managerOf[c], boundReady[c])'
  BY DEF Served
<1>0. /\ trouble[c] \intersect {"moved", "gaveUp"} = {} /\ "rehomed" \notin trouble'[c]
      /\ managerOf[c] \notin shut /\ CalledIn(c) /\ BoundTo(c) /\ Cut(c) /\ Served(c)
      /\ made \subseteq Managers /\ managerOf \in [Conns -> made \union {NoOne}]
      /\ trouble \in [Conns -> SUBSET Troubles]
  BY StillHome, TaskFields DEF OneLoopOf
<1>1. CASE connected[c]
  <2>1. managerOf[c] # NoOne /\ Serves(managerOf[c], boundReady[c])
    BY <1>0, <1>1 DEF Served
  <2>2. /\ session[c] \in DOMAIN tasks /\ tasks[session[c]].kind = "life"
        /\ tasks[session[c]].conn = c
    BY <1>1, TaskFields DEF SessionsKnown, IParts, RefsTyped
  <2>3. boundReady[c] \in 1..Len(loops)
    BY <1>0, <2>2, TaskFields DEF BoundTo
  <2>4. boundReady'[c] = boundReady[c]
    BY <1>0, <2>2, BoundToKeep
  <2>5. managerOf'[c] = managerOf[c]
    <3>1. ASSUME NEW t \in Threads, Owns(t), on[t] = c, managerOf'[c] = via[t]
          PROVE  managerOf'[c] = managerOf[c]
      <4> DEFINE dead == IF via[t] \in shut THEN {"shutDown"} ELSE {}
                 changed == IF managerOf[c] \in {NoOne, via[t]} THEN {} ELSE {"rehomed"}
      <4>1. trouble' = [trouble EXCEPT ![c] = @ \union dead \union changed]
        BY <3>1 DEF Owns
      <4>2. changed \subseteq trouble'[c]
        BY <1>0, <4>1
      <4>3. managerOf[c] \in {NoOne, via[t]}
        BY <1>0, <4>2
      <4> QED BY <2>1, <3>1, <4>3
    <3>2. ASSUME NEW i \in DOMAIN tasks, tasks[i].kind = "stop", tasks[i].conn = c,
                 at[i] = "disowning"
          PROVE  FALSE
      BY <1>0, <1>1, <3>2 DEF Cut, Unregistering
    <3> QED BY <3>1, <3>2, ManagerShape
  <2>6. PICK m \in Managers \ shut, l \in 1..Len(loops) : m = managerOf[c] /\ l = boundReady[c]
    BY <1>0, <2>1, <2>3
  <2>7. Serves(m, l)'
    BY <2>1, <2>6, ServesKeep
  <2>8. m = managerOf'[c] /\ l = boundReady'[c]
    BY <2>4, <2>5, <2>6
  <2> QED BY <2>1, <2>5, <2>7, <2>8 DEF Serves, Starting
<1>2. CASE ~ connected[c]
  <2>1. PICK i \in DOMAIN tasks : Connects(i, TRUE) /\ tasks[i].conn = c
    BY <1>2, SessionShape
  <2>2. PICK t \in Users[c], k \in DOMAIN tasks :
          /\ pc[t] = "waiting" /\ awaits[t] = k /\ on[t] = c /\ t \in Threads
          /\ tasks[k].kind = "setup" /\ tasks[k].conn = c /\ at[k] = "onReady"
    <3>1. tasks[i].kind = "life" /\ at[i] = "connecting"
      BY <2>1 DEF Connects, Turn
    <3> QED BY <1>0, <2>1, <3>1, Answered
  <2>3. managerOf[c] = via[t] /\ Serves(via[t], tasks[k].loop) /\ tasks[k].loop = boundReady[c]
    BY <1>0, <2>2 DEF CalledIn, BoundTo, Over
  <2>4. via[t] # NoOne
    BY <2>2, HasManager DEF NoneYet
  <2>5. UNCHANGED <<managerOf, loopOf, loops, pc, via, boundReady>>
    BY <2>1 DEF Connects, managerVars, registryVars, loopVars
  <2> QED BY <2>3, <2>4, <2>5 DEF Serves, Starting
<1> QED BY <1>1, <1>2

LEMMA InOneLoopKeep ==
  ASSUME OneUser, IParts, CallersKnown, Attended, OneAttempt, LoopsApart, SessionsKnown, InOneLoop,
         [Next]_vars
  PROVE  InOneLoop'
<1> SUFFICES ASSUME NEW c \in Conns, AtHome(c)' PROVE OneLoopOf(c)'
  BY DEF InOneLoop, OneLoopOf, CalledIn, BoundTo, Cut, Served
<1>1. OneLoopOf(c)
  BY StillHome, InOneLoopParts
<1>2. managerOf[c] \notin shut /\ CalledIn(c) /\ BoundTo(c) /\ Cut(c) /\ Served(c)
  BY <1>1 DEF OneLoopOf
<1>3. managerOf'[c] \notin shut' /\ CalledIn(c)' /\ Served(c)'
  BY <1>1, <1>2, UnshutKeep, CalledInKeep, ServedKeep
<1>4. BoundTo(c)' /\ Cut(c)'
  BY <1>2, BoundToKeep, CutKeep
<1> QED BY <1>3, <1>4 DEF OneLoopOf

\* The invariant of connections that one thread each calls is inductive: what a call
\* knows of its connection when it gets the lock of the loop, waits in it, or is answered
\* (run_sync, connect, close, setup_and_wait, _lifecycle_task_coro, stop_and_wait).
THEOREM ConnectionsInvariance == OneUser => (Spec => []ConnInv)
<1> SUFFICES ASSUME OneUser PROVE Spec => []ConnInv
  OBVIOUS
<1> DEFINE Inv == /\ LoopsApart /\ CallersKnown /\ Attended /\ OneAttempt /\ OneLife
                  /\ SessionsKnown /\ InOneLoop
<1>1. Init => Inv
  <2> SUFFICES ASSUME Init PROVE Inv
    OBVIOUS
  <2>1. /\ DOMAIN tasks = {} /\ \A t \in Threads : pc[t] = "idle"
        /\ \A m \in Managers : loopOf[m] = 0
        /\ \A c \in Conns : ~ connected[c] /\ session[c] = 0 /\ managerOf[c] = NoOne
        /\ shut = {}
    BY DEF Init, ManagerInit
  <2>2. CallersKnown /\ Attended
    BY <2>1 DEF CallersKnown, Attended, Underway, Looking, Writing, Using
  <2>3. \A c \in Conns : Living(c) = {} /\ Fetching(c) = {}
    BY <2>1 DEF Living, Fetching
  <2>4. OneAttempt /\ OneLife
    BY <2>1, <2>3 DEF OneAttempt, OneLife
  <2>5. LoopsApart /\ SessionsKnown
    BY <2>1 DEF LoopsApart, SessionsKnown
  <2>6. \A c \in Conns : \A t \in Users[c] : pc[t] = "idle"
    BY <2>1, ConnectionAssumption
  <2>7. InOneLoop
    BY <2>1, <2>6 DEF InOneLoop
  <2> QED BY <2>2, <2>4, <2>5, <2>7
<1>2. IInv /\ Inv /\ [Next]_vars => Inv'
  BY IsParts, LoopsApartKeep, CallersKeep, AttendedKeep, OneAttemptKeep, OneLifeKeep, SessionsKeep,
     InOneLoopKeep
<1>3. IInv /\ Inv => ConnInv
  BY DEF ConnInv
<1> QED BY <1>1, <1>2, <1>3, ConnectionInvariance, PTL DEF Spec

\* A request uses the session in the loop that made it, for connections with one user each
\* and none of the troubles AtHome excludes: call_tool and the other requests check
\* is_connected and the session in the loop they were submitted to.
THEOREM AlwaysSessionInItsLoop == OneUser => (Spec => []SessionInItsLoop)
<1> SUFFICES ASSUME OneUser PROVE Spec => []SessionInItsLoop
  OBVIOUS
<1>1. ConnInv => SessionInItsLoop
  <2> SUFFICES ASSUME ConnInv, NEW i \in DOMAIN tasks, NEW c, c = tasks[i].conn,
                      tasks[i].kind = "request", at[i] = "ready", connected[c], session[c] # 0,
                      AtHome(c)
               PROVE  tasks[session[c]].loop = tasks[i].loop
    BY DEF SessionInItsLoop
  <2>1. IParts /\ CallersKnown /\ Attended /\ SessionsKnown
    BY IsParts DEF ConnInv
  <2>0. c \in Conns
    BY <2>1, TaskFields
  <2>2. OneLoopOf(c)
    <3>1. InOneLoop
      BY DEF ConnInv
    <3>2. \A d \in Conns : AtHome(d) => OneLoopOf(d)
      BY <3>1, InOneLoopParts
    <3> QED BY <2>0, <3>2
  <2>3. Expected(i)
    BY DEF Expected, Over, AtHome
  <2>4. PICK t \in Users[c] : pc[t] = "waiting" /\ awaits[t] = i /\ on[t] = c
    BY <2>0, <2>1, <2>3, OneAtATime
  <2>5. managerOf[c] = via[t] /\ Serves(via[t], tasks[i].loop)
    BY <2>2, <2>4 DEF OneLoopOf, CalledIn, Over
  <2>6. Serves(managerOf[c], boundReady[c])
    BY <2>2 DEF OneLoopOf, Served
  <2>7. tasks[session[c]].loop = boundReady[c]
    <3>1. session \in [Conns -> 0..Len(tasks)] /\ DOMAIN tasks = 1..Len(tasks) /\ Len(tasks) \in Nat
      BY <2>1, TaskFields DEF IParts, RefsTyped
    <3>2. session[c] \in DOMAIN tasks
      BY <2>0, <3>1
    <3>3. tasks[session[c]].kind = "life" /\ tasks[session[c]].conn = c
      BY <2>0, <2>1 DEF SessionsKnown
    <3>4. BoundTo(c)
      BY <2>2 DEF OneLoopOf
    <3> QED BY <3>2, <3>3, <3>4 DEF BoundTo
  <2> QED BY <2>5, <2>6, <2>7 DEF Serves
<1> QED BY <1>1, ConnectionsInvariance, PTL

\* A connection that says it is connected has a session, whose lifecycle task is not over
\* and runs in the running loop of the connection's manager: for connections with one user
\* each, of which closing did not raise, no call timed out or met a loop just being
\* replaced, none was connected in another loop or given to another manager, and no manager
\* was shut down (_lifecycle_task_coro).
THEOREM AlwaysConnectedIsAlive == OneUser => (Spec => []ConnectedIsAlive)
<1> SUFFICES ASSUME OneUser PROVE Spec => []ConnectedIsAlive
  OBVIOUS
<1>1. ConnInv => ConnectedIsAlive
  <2> SUFFICES ASSUME ConnInv, NEW c \in Conns, connected[c],
                      trouble[c] \subseteq {"failed", "unlisted"}
               PROVE  LET i == session[c]
                          m == managerOf[c]
                      IN  /\ i # 0 /\ tasks[i].kind = "life" /\ tasks[i].conn = c /\ at[i] \notin Over
                          /\ m # NoOne /\ loopOf[m] = tasks[i].loop /\ loops[loopOf[m]] = "running"
    BY DEF ConnectedIsAlive
  <2>1. IParts /\ SessionsKnown
    BY IsParts DEF ConnInv
  <2>2. OneLoopOf(c)
    <3>1. AtHome(c)
      BY DEF AtHome
    <3>2. InOneLoop
      BY DEF ConnInv
    <3>3. \A d \in Conns : AtHome(d) => OneLoopOf(d)
      BY <3>2, InOneLoopParts
    <3> QED BY <3>1, <3>3
  <2>3. /\ session[c] # 0 /\ session[c] \in DOMAIN tasks
        /\ tasks[session[c]].kind = "life" /\ tasks[session[c]].conn = c
        /\ at[session[c]] \notin Over
    <3>1. session \in [Conns -> 0..Len(tasks)] /\ DOMAIN tasks = 1..Len(tasks) /\ Len(tasks) \in Nat
      BY <2>1, TaskFields DEF IParts, RefsTyped
    <3>2. /\ session[c] # 0 /\ tasks[session[c]].kind = "life" /\ tasks[session[c]].conn = c
          /\ at[session[c]] \notin Over
      BY <2>1 DEF SessionsKnown
    <3> QED BY <3>1, <3>2
  <2>4. tasks[session[c]].loop = boundReady[c]
    BY <2>2, <2>3 DEF OneLoopOf, BoundTo
  <2>5. managerOf[c] # NoOne /\ Serves(managerOf[c], boundReady[c])
    BY <2>2 DEF OneLoopOf, Served
  <2> QED BY <2>3, <2>4, <2>5 DEF Serves
<1> QED BY <1>1, ConnectionsInvariance, PTL

-----------------------------------------------------------------------------
(***************************************************************************)
(* The registries, for connections one thread each calls and that do not   *)
(* share a name: RegistriesInv, with what it is for.                       *)
(***************************************************************************)
Clean(c) == trouble[c] \intersect {"unlisted", "lateClose"} = {}

Written(c) ==
  \A t \in Users[c] : on[t] = c =>
    /\ pc[t] = "writing" => Apart(c) /\ mapping[ConnName[c]] = NoOne
    /\ pc[t] = "listing" => Apart(c) /\ mapping[ConnName[c]] = NameOf[via[t]]
    /\ pc[t] = "owning" => /\ managerOf[c] = NoOne /\ mapping[ConnName[c]] = NameOf[via[t]]
                           /\ \A m \in Managers : Lists(m, c) <=> m = via[t]

TakenOut(c) ==
  \A i \in DOMAIN tasks : tasks[i].conn = c =>
    /\ at[i] \in Unregistering => /\ tasks[i].kind = "stop"
                                  /\ owner[i] # NoOne /\ managerOf[c] = owner[i]
    /\ at[i] \in {"unmapping", "disowning"} => \A m \in Managers : ~ Lists(m, c)
    /\ at[i] = "unmapping" => mapping[ConnName[c]] = NameOf[owner[i]]
    /\ at[i] = "disowning" => mapping[ConnName[c]] = NoOne

RowAgrees(c) ==
  /\ mapping[ConnName[c]] = IF managerOf[c] = NoOne THEN NoOne ELSE NameOf[managerOf[c]]
  /\ \A m \in Managers : Lists(m, c) <=> m = managerOf[c]

RegistryOf(c) ==
  /\ Written(c) /\ TakenOut(c) /\ (Settled(c) => RowAgrees(c)) /\ "rehomed" \notin trouble[c]

LEMMA RowParts ==
  RegistriesInv /\ RegistriesAgree /\ RegistrationStays
    <=> \A c \in Conns : Clean(c) => RegistryOf(c)
<1>1. RegistriesInv <=> \A c \in Conns : Clean(c) => Written(c) /\ TakenOut(c)
  BY DEF RegistriesInv, Clean, Written, TakenOut
<1>2. RegistriesAgree <=> \A c \in Conns : Clean(c) => (Settled(c) => RowAgrees(c))
  BY DEF RegistriesAgree, Clean, Settled, RowAgrees
<1>3. RegistrationStays <=> \A c \in Conns : Clean(c) => "rehomed" \notin trouble[c]
  BY DEF RegistrationStays, Clean
<1> QED BY <1>1, <1>2, <1>3 DEF RegistryOf

\* The types of the registries.
LEMMA RowFields ==
  ASSUME IParts
  PROVE  /\ mapping \in [ConnNames -> Names \union {NoOne}]
         /\ conns \in [Managers -> [ConnNames -> Conns \union {NoOne}]]
         /\ managerOf \in [Conns -> Managers \union {NoOne}]
         /\ ConnName \in [Conns -> ConnNames] /\ NameOf \in [Managers -> Names]
         /\ NoOne \notin Managers /\ NoOne \notin Names /\ NoOne \notin Conns
BY ManagerAssumption DEF IParts, RegistryInv, LoopsTyped

\* Who writes the row of a connection in the registries: a thread that registers it, or a
\* coroutine that unregisters it.  A shutdown drops no name without a trace.
SameRow(c) ==
  /\ mapping'[ConnName[c]] = mapping[ConnName[c]] /\ managerOf'[c] = managerOf[c]
  /\ \A m \in Managers : conns'[m][ConnName[c]] = conns[m][ConnName[c]]

Writes(t, c) ==
  /\ on[t] = c /\ UNCHANGED <<connVars, taskVars, callVars>>
  /\ \/ RegisterName(t, c) /\ UNCHANGED trouble
     \/ RegisterEntry(t, c) /\ UNCHANGED trouble
     \/ Owns(t)

LEMMA RowShape ==
  ASSUME IParts, DistinctNames, [Next]_vars, NEW c \in Conns, Clean(c)'
  PROVE  \/ SameRow(c)
         \/ \E t \in Threads : Writes(t, c)
         \/ \E i \in DOMAIN tasks : tasks[i].conn = c /\ Unregisters(i)
<1>0. /\ mapping \in [ConnNames -> Names \union {NoOne}]
      /\ conns \in [Managers -> [ConnNames -> Conns \union {NoOne}]]
      /\ managerOf \in [Conns -> Managers \union {NoOne}] /\ ConnName \in [Conns -> ConnNames]
      /\ on \in [Threads -> Conns] /\ trouble \in [Conns -> SUBSET Troubles]
  BY RowFields, TaskFields
<1>1. UNCHANGED <<mapping, conns, managerOf>> => SameRow(c)
  BY DEF SameRow
<1>2. ASSUME NEW t \in Threads, ThreadStep(t) PROVE SameRow(c) \/ Writes(t, c)
  <2>1. CASE Drops(t)
    <3>1. /\ UNCHANGED <<conns, managerOf>>
          /\ mapping' = [n \in ConnNames |-> IF n \in doomed[t] THEN NoOne ELSE mapping[n]]
          /\ trouble' = [d \in Conns |-> IF ConnName[d] \in doomed[t] /\ mapping[ConnName[d]] # NoOne
                                         THEN trouble[d] \union {"unlisted"} ELSE trouble[d]]
      BY <2>1 DEF Drops, Drop
    <3>2. "unlisted" \notin trouble'[c]
      BY DEF Clean
    <3>3. mapping'[ConnName[c]] = mapping[ConnName[c]]
      BY <1>0, <3>1, <3>2
    <3> QED BY <3>1, <3>3 DEF SameRow
  <2>2. CASE Owns(t)
    <3>1. CASE on[t] = c
      BY <2>2, <3>1 DEF Owns, Writes
    <3>2. CASE on[t] # c
      BY <1>0, <2>2, <3>2 DEF Owns, RegisterOwner, SameRow
    <3> QED BY <3>1, <3>2
  <2>3. CASE Registers(t)
    <3>1. CASE RegisterName(t, on[t])
      <4>1. CASE on[t] = c
        BY <2>3, <3>1, <4>1 DEF Registers, Writes
      <4>2. CASE on[t] # c
        <5>1. ConnName[on[t]] # ConnName[c] /\ ConnName[c] \in ConnNames
          BY <1>0, <4>2 DEF DistinctNames
        <5> QED BY <1>0, <3>1, <5>1 DEF RegisterName, SameRow
      <4> QED BY <4>1, <4>2
    <3>2. CASE RegisterEntry(t, on[t])
      <4>1. CASE on[t] = c
        BY <2>3, <3>2, <4>1 DEF Registers, Writes
      <4>2. CASE on[t] # c
        <5>1. ConnName[on[t]] # ConnName[c] /\ ConnName[c] \in ConnNames
          BY <1>0, <4>2 DEF DistinctNames
        <5> QED BY <1>0, <3>2, <5>1 DEF RegisterEntry, SameRow
      <4> QED BY <4>1, <4>2
    <3>3. CASE ~ RegisterName(t, on[t]) /\ ~ RegisterEntry(t, on[t])
      BY <1>1, <2>3, <3>3 DEF Registers, RegisterCheck, registryVars
    <3> QED BY <3>1, <3>2, <3>3
  <2>4. CASE Find(t) \/ Construct(t) \/ Assign(t) \/ Fetch(t) \/ EnsureLoop(t) \/ StartLoop(t)
             \/ StopsLoop(t) \/ Tell(t) \/ Joined(t) \/ Pop(t) \/ Sift(t)
    BY <1>1, <2>4 DEF Find, Construct, Assign, Fetch, EnsureLoop, StartLoop, StopsLoop, Tell, Joined,
                      Pop, Sift, registryVars
  <2>5. CASE Shifts(t) \/ Ask(t) \/ Take(t) \/ Check(t) \/ Send(t) \/ Returns(t) \/ TimesOut(t)
    BY <1>1, <2>5 DEF Shifts, SiftRaises, Ask, Take, Check, Send, Returns, TimesOut, Ends,
                      registryVars
  <2> QED BY <1>2, <2>1, <2>2, <2>3, <2>4, <2>5 DEF ThreadStep
<1>3. ASSUME NEW t \in Threads, Application(t) PROVE SameRow(c)
  BY <1>1, <1>3 DEF Application, Register, LookUp, Use, CallOn, Shutdown, ShutdownBegins, registryVars
<1>4. CASE LoopThreads \/ UNCHANGED vars
  BY <1>1, <1>4 DEF LoopThreads, ThreadReads, LoopRuns, LoopStops, Becomes, vars, managerVars,
                    registryVars
<1>5. CASE Server
  BY <1>1, <1>5 DEF Server, Connects, managerVars, registryVars
<1>6. ASSUME NEW i \in DOMAIN tasks, TaskStep(i)
      PROVE  SameRow(c) \/ (tasks[i].conn = c /\ Unregisters(i))
  <2>1. CASE Unregisters(i) /\ tasks[i].conn # c
    <3>1. ConnName[tasks[i].conn] # ConnName[c] /\ ConnName[c] \in ConnNames /\ tasks[i].conn \in Conns
      BY <1>0, <2>1, TaskFields DEF DistinctNames
    <3>2. CASE UnregisterEntry(tasks[i].conn, owner[i])
      BY <1>0, <3>1, <3>2 DEF UnregisterEntry, SameRow
    <3>3. CASE UnregisterName(tasks[i].conn)
      BY <1>0, <3>1, <3>3 DEF UnregisterName, SameRow
    <3>4. CASE UnregisterOwner(tasks[i].conn)
      BY <1>0, <2>1, <3>1, <3>4 DEF UnregisterOwner, SameRow
    <3> QED BY <2>1, <3>2, <3>3, <3>4 DEF Unregisters
  <2>2. CASE ~ Unregisters(i)
    BY <1>1, <1>6, <2>2 DEF TaskStep, SetupStarts, SetupEnds, LifeStarts, LifeWoken, LifeCloses,
                            LifeFails, StopStarts, StopEnds, Requests, managerVars, registryVars
  <2> QED BY <1>6, <2>1, <2>2
<1> QED BY <1>2, <1>3, <1>4, <1>5, <1>6 DEF Next

\* Otherwise a thread in register_connection stays where it is, and one gets there only by
\* the look-up.
KeepsWriting(t) ==
  /\ pc[t] \in Writing => on'[t] = on[t] /\ pc'[t] = pc[t]
  /\ pc'[t] \in Writing =>
       /\ on'[t] = on[t] /\ via'[t] = via[t]
       /\ \/ pc'[t] = pc[t]
          \/ pc[t] = "found" /\ pc'[t] = "writing" /\ mapping[ConnName[on[t]]] = NoOne
             /\ op[t] # "look"

LEMMA WriterShape ==
  ASSUME IParts, [Next]_vars, NEW t \in Threads
  PROVE  KeepsWriting(t) \/ Writes(t, on[t])
<1>0. pc \in [Threads -> Places]
  BY TaskFields
<1>1. CASE Rests(t)
  BY <1>1 DEF Rests, KeepsWriting
<1>2. ASSUME pc[t] \notin Writing, NEW p, GoOn(t, p), p \notin Writing PROVE KeepsWriting(t)
  <2>1. pc'[t] = p
    BY <1>0, <1>2 DEF GoOn
  <2> QED BY <1>2, <2>1 DEF KeepsWriting
<1>3. CASE ThreadStep(t)
  <2>1. CASE Owns(t)
    BY <2>1 DEF Owns, Writes
  <2>2. CASE Registers(t)
    <3>1. CASE RegisterName(t, on[t]) \/ RegisterEntry(t, on[t])
      BY <2>2, <3>1 DEF Registers, Writes
    <3>2. CASE op[t] # "look" /\ RegisterCheck(t, on[t])
      <4>1. CASE mapping[ConnName[on[t]]] = NoOne
        <5>1. pc'[t] = "writing" /\ pc[t] = "found" /\ via' = via /\ on' = on
          BY <1>0, <2>2, <3>2, <4>1 DEF RegisterCheck, Registers, callVars, Stay, GoOn
        <5> QED BY <3>2, <4>1, <5>1 DEF KeepsWriting, Writing
      <4>2. CASE mapping[ConnName[on[t]]] # NoOne
        <5>1. pc[t] = "found" /\ GoOn(t, "idle")
          BY <3>2, <4>2 DEF RegisterCheck, Leave
        <5> QED BY <1>2, <5>1 DEF Writing
      <4> QED BY <4>1, <4>2
    <3>3. CASE pc[t] = "found" /\ Leave(t)
      BY <1>2, <3>3 DEF Leave, Writing
    <3> QED BY <2>2, <3>1, <3>2, <3>3 DEF Registers
  <2>3. CASE Find(t) \/ Construct(t) \/ Assign(t) \/ Fetch(t)
    <3>1. pc[t] \notin Writing
      BY <2>3 DEF Find, Construct, Assign, Fetch, Writing
    <3>2. \E p : GoOn(t, p) /\ p \notin Writing
      BY <2>3 DEF Find, Construct, Assign, Fetch, Stay, Leave, Writing
    <3> QED BY <1>2, <3>1, <3>2
  <2>4. CASE EnsureLoop(t) \/ StartLoop(t) \/ StopsLoop(t) \/ Tell(t) \/ Joined(t) \/ Pop(t)
             \/ Sift(t) \/ Shifts(t) \/ Drops(t)
    <3>1. pc[t] \notin Writing
      BY <2>4 DEF EnsureLoop, StartLoop, StopsLoop, Tell, Joined, Pop, Sift, Shifts, SiftRaises, Drops,
                  Drop, Writing
    <3>2. \E p : GoOn(t, p) /\ p \notin Writing
      BY <2>4 DEF EnsureLoop, StartLoop, StopsLoop, Tell, Joined, Pop, Sift, Shifts, SiftRaises, Drops,
                  Drop, Stay, Leave, Writing
    <3> QED BY <1>2, <3>1, <3>2
  <2>5. CASE Ask(t) \/ Take(t) \/ Check(t) \/ Send(t) \/ Returns(t) \/ TimesOut(t)
    <3>1. pc[t] \notin Writing
      BY <2>5 DEF Ask, Take, Check, Send, Returns, TimesOut, Writing
    <3>2. \E p : GoOn(t, p) /\ p \notin Writing
      BY <2>5 DEF Ask, Take, Check, Send, Returns, TimesOut, Ends, Stay, Leave, Writing
    <3> QED BY <1>2, <3>1, <3>2
  <2> QED BY <1>3, <2>1, <2>2, <2>3, <2>4, <2>5 DEF ThreadStep
<1>4. CASE Application(t)
  <2>1. pc[t] = "idle" /\ \E p \in {"finding", "stopping", "asking"} : GoOn(t, p)
    BY <1>4, CallShape DEF Stay
  <2> QED BY <1>2, <2>1 DEF Writing
<1>5. ASSUME NEW u \in Threads \ {t}, ThreadStep(u) \/ Application(u) PROVE Rests(t)
  BY <1>5, OthersRest
<1>6. CASE LoopThreads \/ Server \/ (\E i \in DOMAIN tasks : TaskStep(i)) \/ UNCHANGED vars
  <2>1. UNCHANGED <<pc, via, callVars>>
    <3>1. CASE LoopThreads \/ UNCHANGED vars
      BY <3>1 DEF LoopThreads, ThreadReads, LoopRuns, LoopStops, Becomes, vars, managerVars, Rest
    <3>2. CASE Server
      BY <3>2 DEF Server, Connects, managerVars
    <3>3. CASE \E i \in DOMAIN tasks : TaskStep(i)
      BY <3>3 DEF TaskStep, SetupStarts, SetupEnds, LifeStarts, LifeWoken, LifeCloses, LifeFails,
                  StopStarts, StopEnds, Unregisters, Requests, managerVars
    <3> QED BY <1>6, <3>1, <3>2, <3>3
  <2> QED BY <2>1 DEF KeepsWriting, callVars
<1> QED BY <1>1, <1>3, <1>4, <1>5, <1>6 DEF Next

\* A coroutine unregisters a connection from the manager it had after the waiting.
KeepsUnregistering(i) ==
  /\ at'[i] \in Unregistering =>
       /\ i \in DOMAIN tasks /\ tasks'[i] = tasks[i]
       /\ \/ at'[i] = at[i] /\ owner'[i] = owner[i]
          \/ /\ tasks[i].kind = "stop" /\ at'[i] = "unlisting"
             /\ owner'[i] = managerOf[tasks[i].conn] /\ owner'[i] # NoOne
  /\ i \in DOMAIN tasks /\ at[i] \in Unregistering => at'[i] = at[i]

LEMMA RemoverShape ==
  ASSUME IParts, [Next]_vars, NEW i \in DOMAIN tasks'
  PROVE  KeepsUnregistering(i) \/ (i \in DOMAIN tasks /\ Unregisters(i))
<1>0. /\ at \in [DOMAIN tasks -> Spots] /\ owner \in [DOMAIN tasks -> Managers \union {NoOne}]
      /\ TasksGoOn
  BY TaskFields, StepShape
<1>1. CASE i \notin DOMAIN tasks
  <2>1. at'[i] = "ready"
    BY <1>1, NewTasks
  <2> QED BY <1>1, <2>1 DEF KeepsUnregistering, Unregistering
<1> SUFFICES ASSUME i \in DOMAIN tasks PROVE KeepsUnregistering(i) \/ Unregisters(i)
  BY <1>1
<1>2. ASSUME at'[i] = at[i], owner'[i] = owner[i] PROVE KeepsUnregistering(i)
  BY <1>0, <1>2 DEF KeepsUnregistering, TasksGoOn
<1>3. ASSUME at[i] \notin Unregistering, at'[i] \notin Unregistering PROVE KeepsUnregistering(i)
  BY <1>3 DEF KeepsUnregistering
<1>4. ASSUME NEW t \in Threads, Submits(t) PROVE KeepsUnregistering(i)
  BY <1>2, <1>4, SubmitShape
<1>5. ASSUME UNCHANGED taskVars PROVE KeepsUnregistering(i)
  BY <1>2, <1>5 DEF taskVars
<1>6. ASSUME NEW t \in Threads, ThreadStep(t) \/ Application(t) PROVE KeepsUnregistering(i)
  BY <1>4, <1>5, <1>6, ThreadTasks, CallShape
<1>7. CASE LoopThreads \/ UNCHANGED vars
  BY <1>5, <1>7 DEF LoopThreads, Rest, vars
<1>8. ASSUME NEW j \in DOMAIN tasks, NEW works \in BOOLEAN, Connects(j, works)
      PROVE  KeepsUnregistering(i)
  <2>1. /\ owner' = owner /\ at[j] = "connecting" /\ at'[j] \in {"done", "closing", "holding"}
        /\ i # j => at'[i] = at[i] \/ (at[i] = "onReady" /\ at'[i] = "woken")
    BY <1>8, ConnectsShape
  <2> QED BY <1>2, <1>3, <2>1 DEF Unregistering
<1>9. ASSUME NEW j \in DOMAIN tasks, TaskStep(j) PROVE KeepsUnregistering(i) \/ Unregisters(i)
  <2>1. CASE SetupStarts(j)
    <3>1. /\ owner'[i] = owner[i] /\ at[j] = "ready" /\ at'[j] \in {"raised", "onReady"}
          /\ i # j => at'[i] = at[i]
      BY <2>1, SetupShape
    <3> QED BY <1>2, <1>3, <3>1 DEF Unregistering
  <2>2. CASE StopStarts(j)
    <3>1. /\ owner' = owner /\ at[j] = "ready" /\ at'[j] \in {"raised", "done", "joining"}
          /\ i # j => at'[i] = at[i] \/ (at[i] = "holding" /\ at'[i] = "woken")
      BY <2>2, StopShape
    <3> QED BY <1>2, <1>3, <3>1 DEF Unregistering
  <2>3. CASE StopEnds(j)
    <3> DEFINE c == tasks[j].conn
    <3>1. /\ at[j] = "joining" /\ tasks[j].kind = "stop" /\ tasks' = tasks
          /\ at' = [at EXCEPT ![j] = IF managerOf[c] = NoOne THEN "raised" ELSE "unlisting"]
          /\ owner' = [owner EXCEPT ![j] = managerOf[c]]
      BY <2>3 DEF StopEnds, Turn
    <3>2. CASE i # j
      BY <1>0, <1>2, <3>1, <3>2
    <3>3. CASE i = j
      BY <1>0, <3>1, <3>3 DEF KeepsUnregistering, Unregistering
    <3> QED BY <3>2, <3>3
  <2>4. CASE Unregisters(j)
    <3>1. CASE i # j
      <4>1. at'[i] = at[i] /\ owner'[i] = owner[i]
        BY <1>0, <2>4, <3>1 DEF Unregisters
      <4> QED BY <1>2, <4>1
    <3> QED BY <2>4, <3>1
  <2>5. CASE SetupEnds(j) \/ LifeStarts(j) \/ LifeWoken(j) \/ LifeCloses(j) \/ LifeFails(j)
             \/ Requests(j)
    <3>1. at[j] \notin Unregistering /\ owner' = owner
      BY <2>5 DEF SetupEnds, LifeStarts, LifeWoken, LifeCloses, LifeFails, Requests, Turn, Unregistering
    <3>2. \E s : at' = [at EXCEPT ![j] = s] /\ s \notin Unregistering
      BY <2>5 DEF SetupEnds, LifeStarts, LifeWoken, LifeCloses, LifeFails, LifeEnds, Requests,
                  Unregistering
    <3> QED BY <1>0, <1>2, <1>3, <3>1, <3>2
  <2> QED BY <1>9, <2>1, <2>2, <2>3, <2>4, <2>5 DEF TaskStep
<1> QED BY <1>6, <1>7, <1>8, <1>9 DEF Next, Server

\* Who registers a connection is its only user, whose call is not close().
LEMMA WriterAlone ==
  ASSUME OneUser, IParts, CallersKnown, NEW t \in Threads, pc[t] \in Writing
  PROVE  /\ t \in Users[on[t]] /\ on[t] \in Conns /\ via[t] \in Managers
         /\ \A u \in Users[on[t]] : u = t
<1>1. on[t] \in Conns /\ via[t] \in Managers
  BY TaskFields, HasManager DEF Writing, NoneYet
<1>2. op[t] # "look" /\ pc[t] \in Underway
  BY DEF IParts, CallsFit, Underway
<1> QED BY <1>1, <1>2 DEF CallersKnown, OneUser

\* While a connection is unregistered its user waits for that.
LEMMA RemoverAlone ==
  ASSUME OneUser, IParts, CallersKnown, Attended, NEW c \in Conns, Clean(c), TakenOut(c),
         NEW i \in DOMAIN tasks, tasks[i].conn = c, at[i] \in Unregistering
  PROVE  /\ \A t \in Threads : on[t] = c => pc[t] \notin Writing
         /\ \A t \in Users[c] : pc[t] \notin Writing \union {"found"}
         /\ \A j \in DOMAIN tasks : tasks[j].conn = c /\ at[j] \in Unregistering => j = i
<1>1. \A j \in DOMAIN tasks : tasks[j].conn = c /\ at[j] \in Unregistering => Expected(j)
  BY DEF TakenOut, Clean, Expected, Unregistering, Over
<1>2. PICK t \in Users[c] : /\ pc[t] = "waiting" /\ \A u \in Users[c] : u = t
                            /\ \A j \in DOMAIN tasks : tasks[j].conn = c /\ Expected(j) => j = i
  BY <1>1, OneAtATime
<1>3. \A u \in Threads : on[u] = c /\ pc[u] \in Writing => u \in Users[c]
  BY WriterAlone
<1> QED BY <1>1, <1>2, <1>3 DEF Writing

\* Registering: the three writes.
LEMMA WriteKeeps ==
  ASSUME OneUser, IParts, CallersKnown, Attended, NEW c \in Conns, Clean(c), RegistryOf(c),
         NEW t \in Threads, Writes(t, c)
  PROVE  RegistryOf(c)'
<1>0. /\ mapping \in [ConnNames -> Names \union {NoOne}]
      /\ conns \in [Managers -> [ConnNames -> Conns \union {NoOne}]]
      /\ managerOf \in [Conns -> Managers \union {NoOne}] /\ ConnName[c] \in ConnNames
      /\ NoOne \notin Managers /\ NoOne \notin Conns
      /\ on[t] = c /\ on' = on /\ UNCHANGED <<tasks, at, owner>> /\ pc \in [Threads -> Places]
      /\ trouble \in [Conns -> SUBSET Troubles] /\ c # NoOne
  BY RowFields, TaskFields DEF Writes, callVars, taskVars
<1>1. pc[t] \in {"writing", "listing", "owning"} /\ pc[t] \in Writing
  BY DEF Writes, RegisterName, RegisterEntry, Owns, RegisterOwner, Writing
<1>2. t \in Users[c] /\ via[t] \in Managers /\ \A u \in Users[c] : u = t
  BY <1>0, <1>1, WriterAlone
<1>3. \A i \in DOMAIN tasks : tasks[i].conn = c => at[i] \notin Unregistering
  BY <1>1, <1>2, <1>0, RemoverAlone DEF RegistryOf
<1>4. TakenOut(c)'
  BY <1>0, <1>3 DEF TakenOut, Unregistering
<1>5. CASE RegisterName(t, c) /\ UNCHANGED trouble
  <2>1. /\ pc[t] = "writing" /\ pc'[t] = "listing" /\ via' = via /\ UNCHANGED <<conns, managerOf>>
        /\ mapping'[ConnName[c]] = NameOf[via[t]]
    BY <1>0, <1>5 DEF RegisterName, Stay, GoOn
  <2>2. Apart(c)'
    BY <1>0, <1>2, <2>1 DEF RegistryOf, Written, Apart, Lists
  <2>3. Written(c)'
    BY <1>2, <2>1, <2>2 DEF Written
  <2>4. ~ Settled(c)'
    BY <1>0, <2>1 DEF Settled
  <2> QED BY <1>4, <1>5, <2>3, <2>4 DEF RegistryOf
<1>6. CASE RegisterEntry(t, c) /\ UNCHANGED trouble
  <2>1. /\ pc[t] = "listing" /\ pc'[t] = "owning" /\ via' = via /\ UNCHANGED <<mapping, managerOf>>
        /\ conns' = [conns EXCEPT ![via[t]][ConnName[c]] = c]
    BY <1>0, <1>6 DEF RegisterEntry, Stay, GoOn
  <2>2. Apart(c) /\ mapping[ConnName[c]] = NameOf[via[t]]
    BY <1>0, <1>2, <2>1 DEF RegistryOf, Written
  <2>3. \A m \in Managers : conns'[m][ConnName[c]] = IF m = via[t] THEN c ELSE conns[m][ConnName[c]]
    BY <1>0, <1>2, <2>1
  <2>4. \A m \in Managers : Lists(m, c)' <=> m = via[t]
    BY <2>2, <2>3 DEF Apart, Lists
  <2>5. Written(c)'
    BY <1>2, <2>1, <2>2, <2>4 DEF Written, Apart
  <2>6. ~ Settled(c)'
    BY <1>0, <2>1 DEF Settled
  <2> QED BY <1>4, <1>6, <2>5, <2>6 DEF RegistryOf
<1>7. CASE Owns(t)
  <2>1. /\ pc[t] = "owning" /\ pc'[t] \in {"idle", "taking"} /\ UNCHANGED <<mapping, conns>>
        /\ managerOf'[c] = via[t]
    BY <1>0, <1>7 DEF Owns, RegisterOwner, Stay, Leave, GoOn
  <2>2. /\ managerOf[c] = NoOne /\ mapping[ConnName[c]] = NameOf[via[t]]
        /\ \A m \in Managers : Lists(m, c) <=> m = via[t]
    BY <1>0, <1>2, <2>1 DEF RegistryOf, Written
  <2>3. Written(c)'
    BY <1>2, <2>1 DEF Written
  <2>4. RowAgrees(c)'
    BY <1>0, <1>2, <2>1, <2>2 DEF RowAgrees, Lists
  <2>5. "rehomed" \notin trouble'[c]
    <3> DEFINE dead == IF via[t] \in shut THEN {"shutDown"} ELSE {}
               changed == IF managerOf[c] \in {NoOne, via[t]} THEN {} ELSE {"rehomed"}
    <3>1. trouble' = [trouble EXCEPT ![c] = @ \union dead \union changed]
      BY <1>0, <1>7 DEF Owns
    <3>2. "rehomed" \notin dead /\ changed = {}
      BY <2>2
    <3>3. trouble'[c] = trouble[c] \union dead \union changed
      BY <1>0, <3>1
    <3> HIDE DEF dead, changed
    <3> QED BY <3>2, <3>3 DEF RegistryOf
  <2> QED BY <1>4, <2>3, <2>4, <2>5 DEF RegistryOf
<1> QED BY <1>5, <1>6, <1>7 DEF Writes

\* Unregistering undoes them, in the same order.
LEMMA RemoveKeeps ==
  ASSUME OneUser, IParts, CallersKnown, Attended, NEW c \in Conns, Clean(c), RegistryOf(c),
         NEW i \in DOMAIN tasks, tasks[i].conn = c, Unregisters(i)
  PROVE  RegistryOf(c)'
<1>0. /\ mapping \in [ConnNames -> Names \union {NoOne}]
      /\ conns \in [Managers -> [ConnNames -> Conns \union {NoOne}]]
      /\ managerOf \in [Conns -> Managers \union {NoOne}] /\ ConnName[c] \in ConnNames
      /\ NoOne \notin Managers /\ NoOne \notin Conns /\ c # NoOne
      /\ UNCHANGED <<on, tasks, pc, via, trouble>> /\ at \in [DOMAIN tasks -> Spots]
      /\ owner \in [DOMAIN tasks -> Managers \union {NoOne}] /\ Threads = DOMAIN pc
  BY RowFields, TaskFields DEF Unregisters, callVars
<1>1. at[i] \in {"unlisting", "unmapping", "disowning"} /\ at[i] \in Unregistering
  BY DEF Unregisters, Turn, Unregistering
<1>2. /\ \A t \in Threads : on[t] = c => pc[t] \notin Writing
      /\ \A t \in Users[c] : pc[t] \notin Writing
      /\ \A j \in DOMAIN tasks : tasks[j].conn = c /\ at[j] \in Unregistering => j = i
  BY <1>1, RemoverAlone DEF RegistryOf
<1>3. tasks[i].kind = "stop" /\ owner[i] \in Managers /\ managerOf[c] = owner[i]
  BY <1>0, <1>1 DEF RegistryOf, TakenOut
<1>4. Written(c)'
  BY <1>0, <1>2 DEF Written, Writing
<1>5. CASE at[i] = "unlisting"
  <2>1. UnregisterEntry(c, owner[i]) /\ at' = [at EXCEPT ![i] = "unmapping"] /\ UNCHANGED owner
    BY <1>5 DEF Unregisters, Turn
  <2>2. /\ UNCHANGED <<mapping, managerOf>> /\ conns' = [conns EXCEPT ![owner[i]][ConnName[c]] = NoOne]
        /\ \A j \in DOMAIN tasks : at'[j] = IF j = i THEN "unmapping" ELSE at[j]
    BY <1>0, <2>1 DEF UnregisterEntry
  <2>3. Settled(c)
    BY <1>0, <1>2, <1>5 DEF Settled, Writing, Unregistering, Clean
  <2>4. RowAgrees(c)
    BY <2>3 DEF RegistryOf
  <2>5. \A m \in Managers : ~ Lists(m, c)'
    BY <1>0, <1>3, <2>2, <2>4 DEF RowAgrees, Lists
  <2>6. TakenOut(c)'
    <3> SUFFICES ASSUME NEW j \in DOMAIN tasks, tasks[j].conn = c
                 PROVE  /\ at'[j] \in Unregistering => /\ tasks[j].kind = "stop" /\ owner[j] # NoOne
                                                       /\ managerOf[c] = owner[j]
                        /\ at'[j] = "unmapping" => mapping[ConnName[c]] = NameOf[owner[j]]
                        /\ at'[j] # "disowning"
      BY <1>0, <2>1, <2>2, <2>5 DEF TakenOut
    <3>1. CASE j = i
      BY <1>0, <1>3, <2>2, <2>4, <3>1 DEF RowAgrees
    <3>2. CASE j # i
      BY <1>2, <2>2, <3>2 DEF Unregistering
    <3> QED BY <3>1, <3>2
  <2>7. ~ Settled(c)'
    BY <1>0, <2>2 DEF Settled
  <2> QED BY <1>0, <1>4, <2>6, <2>7 DEF RegistryOf
<1>6. CASE at[i] = "unmapping"
  <2>1. UnregisterName(c) /\ at' = [at EXCEPT ![i] = "disowning"] /\ UNCHANGED owner
    BY <1>6 DEF Unregisters, Turn
  <2>2. /\ UNCHANGED <<conns, managerOf>> /\ mapping'[ConnName[c]] = NoOne
        /\ \A j \in DOMAIN tasks : at'[j] = IF j = i THEN "disowning" ELSE at[j]
    BY <1>0, <2>1 DEF UnregisterName
  <2>3. \A m \in Managers : ~ Lists(m, c)'
    BY <1>6, <2>2 DEF RegistryOf, TakenOut, Lists
  <2>6. TakenOut(c)'
    <3> SUFFICES ASSUME NEW j \in DOMAIN tasks, tasks[j].conn = c
                 PROVE  /\ at'[j] \in Unregistering => /\ tasks[j].kind = "stop" /\ owner[j] # NoOne
                                                       /\ managerOf[c] = owner[j]
                        /\ at'[j] # "unmapping"
      BY <1>0, <2>1, <2>2, <2>3 DEF TakenOut
    <3>1. CASE j = i
      BY <1>0, <1>3, <2>2, <3>1
    <3>2. CASE j # i
      BY <1>2, <2>2, <3>2 DEF Unregistering
    <3> QED BY <3>1, <3>2
  <2>7. ~ Settled(c)'
    BY <1>0, <2>2 DEF Settled
  <2> QED BY <1>0, <1>4, <2>6, <2>7 DEF RegistryOf
<1>7. CASE at[i] = "disowning"
  <2>1. UnregisterOwner(c) /\ at' = [at EXCEPT ![i] = "done"]
    BY <1>7 DEF Unregisters, Turn
  <2>2. /\ UNCHANGED <<conns, mapping>> /\ managerOf'[c] = NoOne
        /\ \A j \in DOMAIN tasks : at'[j] = IF j = i THEN "done" ELSE at[j]
    BY <1>0, <2>1 DEF UnregisterOwner
  <2>3. mapping[ConnName[c]] = NoOne /\ \A m \in Managers : ~ Lists(m, c)
    BY <1>7 DEF RegistryOf, TakenOut
  <2>4. RowAgrees(c)'
    BY <1>0, <2>2, <2>3 DEF RowAgrees, Lists
  <2>5. \A j \in DOMAIN tasks : tasks[j].conn = c => at'[j] \notin Unregistering
    BY <1>2, <2>2 DEF Unregistering
  <2>6. TakenOut(c)'
    BY <1>0, <2>5 DEF TakenOut, Unregistering
  <2> QED BY <1>0, <1>4, <2>4, <2>6 DEF RegistryOf
<1> QED BY <1>1, <1>5, <1>6, <1>7

\* Only who registers a connection gives it another manager.
LEMMA RehomedShape ==
  ASSUME IParts, [Next]_vars, NEW c \in Conns, "rehomed" \notin trouble[c],
         \A t \in Threads : ~ Writes(t, c)
  PROVE  "rehomed" \notin trouble'[c]
<1>0. trouble \in [Conns -> SUBSET Troubles]
  BY TaskFields
<1>1. ASSUME NEW d, NEW new, trouble' = [trouble EXCEPT ![d] = @ \union new], "rehomed" \notin new
      PROVE  "rehomed" \notin trouble'[c]
  BY <1>0, <1>1
<1>2. CASE UNCHANGED trouble
  BY <1>2
<1>3. ASSUME NEW t \in Threads, ThreadStep(t) PROVE "rehomed" \notin trouble'[c]
  <2>1. CASE Owns(t)
    <3> DEFINE dead == IF via[t] \in shut THEN {"shutDown"} ELSE {}
               changed == IF managerOf[on[t]] \in {NoOne, via[t]} THEN {} ELSE {"rehomed"}
    <3>1. trouble' = [trouble EXCEPT ![on[t]] = @ \union dead \union changed] /\ on[t] # c
      BY <2>1 DEF Owns, Writes
    <3> QED BY <1>0, <3>1
  <2>2. CASE Send(t)
    BY <1>1, <1>2, <2>2 DEF Send
  <2>3. CASE TimesOut(t)
    <3> DEFINE late == IF op[t] = "close" THEN {"lateClose"} ELSE {}
    <3>1. trouble' = [trouble EXCEPT ![on[t]] = @ \union ({"gaveUp"} \union late)]
      BY <2>3 DEF TimesOut
    <3> QED BY <1>1, <3>1
  <2>4. CASE Drops(t)
    BY <2>4 DEF Drops
  <2>5. CASE Rest \/ Shifts(t) \/ Registers(t) \/ Ask(t) \/ Take(t) \/ Check(t) \/ Returns(t)
    BY <1>2, <2>5 DEF Rest, Shifts, Registers, Ask, Take, Check, Returns
  <2> QED BY <1>3, <2>1, <2>2, <2>3, <2>4, <2>5 DEF ThreadStep
<1>4. ASSUME NEW t \in Threads, Application(t) PROVE "rehomed" \notin trouble'[c]
  <2>1. CASE \E m \in Managers : Shutdown(t, m)
    BY <2>1 DEF Shutdown
  <2>2. CASE ~ \E m \in Managers : Shutdown(t, m)
    BY <1>2, <1>4, <2>2 DEF Application, Register, LookUp, Use, CallOn
  <2> QED BY <2>1, <2>2
<1>5. CASE LoopThreads \/ UNCHANGED vars
  BY <1>2, <1>5 DEF LoopThreads, Rest, vars
<1>6. ASSUME NEW i \in DOMAIN tasks, NEW works \in BOOLEAN, Connects(i, works)
      PROVE  "rehomed" \notin trouble'[c]
  <2>1. trouble'[c] \subseteq trouble[c] \union {"failed"}
    BY <1>6, ConnectsShape
  <2> QED BY <2>1
<1>7. ASSUME NEW i \in DOMAIN tasks, TaskStep(i) PROVE "rehomed" \notin trouble'[c]
  <2>1. CASE SetupStarts(i)
    <3>1. \/ trouble' = trouble
          \/ trouble' = [trouble EXCEPT ![tasks[i].conn] = @ \union {"moved"}]
      BY <2>1, SetupShape
    <3> QED BY <1>1, <3>1
  <2>2. CASE StopEnds(i) \/ LifeFails(i)
    BY <1>1, <1>2, <2>2 DEF StopEnds, LifeFails
  <2>3. CASE SetupEnds(i) \/ LifeStarts(i) \/ LifeWoken(i) \/ LifeCloses(i) \/ StopStarts(i)
             \/ Unregisters(i) \/ Requests(i)
    BY <1>2, <2>3 DEF SetupEnds, LifeStarts, LifeWoken, LifeCloses, StopStarts, Unregisters, Requests
  <2> QED BY <1>7, <2>1, <2>2, <2>3 DEF TaskStep
<1> QED BY <1>3, <1>4, <1>5, <1>6, <1>7 DEF Next, Server

\* A connection whose row is not written keeps it, and who looks its name up finds it free
\* only when the connection is in none of the registries.
LEMMA QuietKeeps ==
  ASSUME OneUser, IParts, CallersKnown, Attended, [Next]_vars, NEW c \in Conns, Clean(c),
         RegistryOf(c), SameRow(c), \A t \in Threads : ~ Writes(t, c),
         \A i \in DOMAIN tasks : tasks[i].conn = c => ~ Unregisters(i)
  PROVE  RegistryOf(c)'
<1>0. /\ managerOf \in [Conns -> Managers \union {NoOne}] /\ NameOf \in [Managers -> Names]
      /\ NoOne \notin Managers /\ NoOne \notin Names /\ TasksGoOn /\ Users[c] \subseteq Threads
  BY RowFields, StepShape, ConnectionAssumption
<1>1. /\ mapping'[ConnName[c]] = mapping[ConnName[c]] /\ managerOf'[c] = managerOf[c]
      /\ \A m \in Managers : Lists(m, c)' <=> Lists(m, c)
      /\ Apart(c)' <=> Apart(c)
  BY DEF SameRow, Lists, Apart
<1>2. ASSUME NEW t \in Threads, on'[t] = c, pc'[t] \in Writing
      PROVE  /\ on[t] = c /\ via'[t] = via[t]
             /\ \/ pc'[t] = pc[t]
                \/ pc[t] = "found" /\ pc'[t] = "writing" /\ mapping[ConnName[c]] = NoOne
  <2>1. CASE KeepsWriting(t)
    BY <1>2, <2>1 DEF KeepsWriting
  <2>2. CASE Writes(t, on[t])
    <3>1. on' = on
      BY <2>2 DEF Writes, callVars
    <3> QED BY <1>2, <2>2, <3>1
  <2> QED BY <2>1, <2>2, WriterShape
<1>3. ASSUME NEW t \in Threads, on[t] = c, pc[t] \in Writing
      PROVE  on'[t] = c /\ pc'[t] = pc[t]
  BY <1>3, WriterShape DEF KeepsWriting
<1>4. ASSUME NEW i \in DOMAIN tasks', tasks'[i].conn = c, at'[i] \in Unregistering
      PROVE  /\ i \in DOMAIN tasks /\ tasks'[i] = tasks[i] /\ tasks[i].conn = c
             /\ \/ at'[i] = at[i] /\ owner'[i] = owner[i]
                \/ /\ tasks[i].kind = "stop" /\ at'[i] = "unlisting"
                   /\ owner'[i] = managerOf[c] /\ owner'[i] # NoOne
  <2>1. i \in DOMAIN tasks => tasks'[i] = tasks[i]
    BY <1>0 DEF TasksGoOn
  <2>2. KeepsUnregistering(i)
    BY <1>4, <2>1, RemoverShape
  <2> QED BY <1>4, <2>1, <2>2 DEF KeepsUnregistering
<1>5. ASSUME NEW i \in DOMAIN tasks, tasks[i].conn = c, at[i] \in Unregistering
      PROVE  i \in DOMAIN tasks' /\ tasks'[i].conn = c /\ at'[i] = at[i]
  <2>1. i \in DOMAIN tasks' /\ tasks'[i] = tasks[i]
    BY <1>0 DEF TasksGoOn
  <2>2. KeepsUnregistering(i)
    BY <1>5, <2>1, RemoverShape
  <2> QED BY <1>5, <2>1, <2>2 DEF KeepsUnregistering
<1>6. Settled(c)' => RowAgrees(c)'
  <2>1. Settled(c)' => Settled(c)
    BY <1>3, <1>5 DEF Settled, Clean, Writing, Unregistering
  <2> QED BY <1>1, <2>1 DEF RegistryOf, RowAgrees
<1>7. Written(c)'
  <2> SUFFICES ASSUME NEW t \in Users[c], on'[t] = c, pc'[t] \in Writing
               PROVE  /\ pc'[t] = "writing" => Apart(c) /\ mapping[ConnName[c]] = NoOne
                      /\ pc'[t] = "listing" => Apart(c) /\ mapping[ConnName[c]] = NameOf[via'[t]]
                      /\ pc'[t] = "owning" => /\ managerOf[c] = NoOne
                                              /\ mapping[ConnName[c]] = NameOf[via'[t]]
                                              /\ \A m \in Managers : Lists(m, c) <=> m = via'[t]
    BY <1>1 DEF Written, Writing
  <2>1. t \in Threads /\ on[t] = c /\ via'[t] = via[t]
    BY <1>0, <1>2
  <2>2. CASE pc'[t] = pc[t]
    BY <2>1, <2>2 DEF RegistryOf, Written
  <2>3. CASE pc[t] = "found" /\ pc'[t] = "writing" /\ mapping[ConnName[c]] = NoOne
    <3>1. \A u \in Threads : on[u] = c => pc[u] \notin Writing
      <4> SUFFICES ASSUME NEW u \in Threads, on[u] = c, pc[u] \in Writing PROVE FALSE
        OBVIOUS
      <4>1. t = u
        BY WriterAlone
      <4> QED BY <2>3, <4>1 DEF Writing
    <3>2. \A i \in DOMAIN tasks : tasks[i].conn = c => at[i] \notin Unregistering
      BY <2>3, RemoverAlone DEF RegistryOf
    <3>3. Settled(c)
      BY <3>1, <3>2 DEF Settled, Clean, Writing, Unregistering
    <3>4. RowAgrees(c)
      BY <3>3 DEF RegistryOf
    <3>5. managerOf[c] = NoOne
      BY <1>0, <2>3, <3>4 DEF RowAgrees
    <3> QED BY <1>0, <2>3, <3>4, <3>5 DEF RowAgrees, Apart
  <2> QED BY <1>2, <2>1, <2>2, <2>3
<1>8. TakenOut(c)'
  <2> SUFFICES ASSUME NEW i \in DOMAIN tasks', tasks'[i].conn = c, at'[i] \in Unregistering
               PROVE  /\ tasks'[i].kind = "stop" /\ owner'[i] # NoOne /\ managerOf[c] = owner'[i]
                      /\ at'[i] \in {"unmapping", "disowning"} => \A m \in Managers : ~ Lists(m, c)
                      /\ at'[i] = "unmapping" => mapping[ConnName[c]] = NameOf[owner'[i]]
                      /\ at'[i] = "disowning" => mapping[ConnName[c]] = NoOne
    BY <1>1 DEF TakenOut, Unregistering
  <2>1. i \in DOMAIN tasks /\ tasks'[i] = tasks[i] /\ tasks[i].conn = c
    BY <1>4
  <2>2. CASE at'[i] = at[i] /\ owner'[i] = owner[i]
    BY <2>1, <2>2 DEF RegistryOf, TakenOut
  <2>3. CASE /\ tasks[i].kind = "stop" /\ at'[i] = "unlisting"
             /\ owner'[i] = managerOf[c] /\ owner'[i] # NoOne
    BY <2>1, <2>3
  <2> QED BY <1>4, <2>2, <2>3
<1>9. "rehomed" \notin trouble'[c]
  BY RehomedShape DEF RegistryOf
<1> QED BY <1>6, <1>7, <1>8, <1>9 DEF RegistryOf

\* RegistriesInv holds, and with it that the registries agree and that a registration is
\* not changed: for connections with one user each and a name of their own.
THEOREM RegistriesInvariance ==
  OneUser /\ DistinctNames => (Spec => [](RegistriesInv /\ RegistriesAgree /\ RegistrationStays))
<1> SUFFICES ASSUME OneUser, DistinctNames
             PROVE  Spec => [](RegistriesInv /\ RegistriesAgree /\ RegistrationStays)
  OBVIOUS
<1> DEFINE Inv == \A c \in Conns : Clean(c) => RegistryOf(c)
<1>1. Init => Inv
  <2> SUFFICES ASSUME Init, NEW c \in Conns PROVE RegistryOf(c)
    OBVIOUS
  <2>1. /\ tasks = <<>> /\ trouble[c] = {} /\ \A t \in Threads : pc[t] = "idle"
        /\ managerOf[c] = NoOne /\ mapping[ConnName[c]] = NoOne
        /\ \A m \in Managers : conns[m][ConnName[c]] = NoOne
        /\ NoOne \notin Managers /\ c # NoOne /\ Users[c] \subseteq Threads
    BY ManagerAssumption, ConnectionAssumption DEF Init, ManagerInit
  <2>2. Written(c) /\ TakenOut(c)
    BY <2>1 DEF Written, TakenOut
  <2>3. RowAgrees(c)
    BY <2>1 DEF RowAgrees, Lists
  <2> QED BY <2>1, <2>2, <2>3 DEF RegistryOf
<1>2. ConnInv /\ Inv /\ [Next]_vars => Inv'
  <2> SUFFICES ASSUME ConnInv, Inv, [Next]_vars, NEW c \in Conns, Clean(c)' PROVE RegistryOf(c)'
    OBVIOUS
  <2>1. IParts /\ CallersKnown /\ Attended
    BY IsParts DEF ConnInv
  <2>2. Clean(c) /\ RegistryOf(c)
    BY <2>1, StepShape DEF TasksGoOn, Clean
  <2>3. CASE \E t \in Threads : Writes(t, c)
    BY <2>1, <2>2, <2>3, WriteKeeps
  <2>4. CASE \E i \in DOMAIN tasks : tasks[i].conn = c /\ Unregisters(i)
    BY <2>1, <2>2, <2>4, RemoveKeeps
  <2>5. CASE /\ \A t \in Threads : ~ Writes(t, c)
             /\ \A i \in DOMAIN tasks : tasks[i].conn = c => ~ Unregisters(i)
    <3>1. SameRow(c)
      BY <2>1, <2>5, RowShape
    <3> QED BY <2>1, <2>2, <2>5, <3>1, QuietKeeps
  <2> QED BY <2>3, <2>4, <2>5
<1>3. Inv <=> RegistriesInv /\ RegistriesAgree /\ RegistrationStays
  BY RowParts
<1>4. Spec => []ConnInv
  BY ConnectionsInvariance
<1>5. Spec => []Inv
  BY <1>1, <1>2, <1>4, PTL DEF Spec
<1> QED BY <1>3, <1>5, PTL

\* The class-level mapping, the managers' tables and the connections' own references say
\* the same of every connection nobody is just registering or unregistering, unless a
\* shutdown dropped its name or a close() of it timed out: for connections with one user
\* each and a name of their own (register_connection, unregister_connection).
THEOREM AlwaysRegistriesAgree == OneUser /\ DistinctNames => (Spec => []RegistriesAgree)
BY RegistriesInvariance, PTL

\* No connection gets another manager while it has one, under the same conditions: the
\* look-up that register_connection makes before it takes any lock is enough.
THEOREM AlwaysRegistrationStays == OneUser /\ DistinctNames => (Spec => []RegistrationStays)
BY RegistriesInvariance, PTL
=============================================================================
