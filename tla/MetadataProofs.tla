--------------------------- MODULE MetadataProofs ---------------------------
(***************************************************************************)
(* Proofs about the replicas of the metadata state machine and about the   *)
(* services over them, for every command, bound and number of nodes.       *)
(***************************************************************************)
EXTENDS MetadataService, FiniteSetTheorems, SequenceTheorems, TLAPS

----------------------------------------------------------------------------
\* The store registry.

\* Ids and addresses name the stores they should.
RegistryFits(reg) ==
    /\ reg = [stores |-> reg.stores, index |-> reg.index]
    /\ IsFiniteSet(DOMAIN reg.stores)
    /\ reg.stores \in [DOMAIN reg.stores -> StoreInfo]
    /\ \A s \in DOMAIN reg.stores : reg.stores[s].id = s
    /\ DOMAIN reg.index = {reg.stores[s].address : s \in DOMAIN reg.stores}
    /\ reg.index = [a \in DOMAIN reg.index |-> reg.index[a]]
    /\ \A s \in DOMAIN reg.stores : reg.index[reg.stores[s].address] = s

\* Two nodes know the same of a store, but for its heartbeats.
SameStore(i, j) ==
    /\ i.id = j.id /\ i.address = j.address
    /\ i.state = j.state /\ i.generation = j.generation

SameRegistry(g, k) ==
    /\ g.index = k.index /\ DOMAIN g.stores = DOMAIN k.stores
    /\ \A s \in DOMAIN g.stores : SameStore(g.stores[s], k.stores[s])

SameInfo(i, j) ==
    \/ i = NoInfo /\ j = NoInfo
    \/ i \in StoreInfo /\ j \in StoreInfo /\ SameStore(i, j)

LEMMA StoreShape ==
  ASSUME NEW i \in StoreInfo
  PROVE  /\ i = [id |-> i.id, address |-> i.address, state |-> i.state,
                  generation |-> i.generation, heartbeat |-> i.heartbeat]
         /\ i.id \in Store /\ i.address \in Address /\ i.state \in {"RUNNING", "STOPPED"}
         /\ i.generation \in Nat /\ i.heartbeat \in {0} \cup Heartbeats
  BY DEF StoreInfo

LEMMA EmptyRegistryFits == RegistryFits(EmptyRegistry)
<1>1. IsFiniteSet({})
  BY FS_EmptySet
<1>2. QED BY <1>1 DEF RegistryFits, EmptyRegistry

LEMMA RegisterStoreFits ==
  ASSUME NEW g, RegistryFits(g), NEW s \in Store, NEW a \in Address
  PROVE  RegistryFits(RegisterStore(g, s, a).state)
<1> DEFINE info == [id |-> s, address |-> a, state |-> "RUNNING",
                    generation |-> 1, heartbeat |-> 0]
           k == [stores |-> With(g.stores, s, info), index |-> With(g.index, a, s)]
<1>1. CASE s \in DOMAIN g.stores \/ a \in DOMAIN g.index
  BY <1>1 DEF RegisterStore, StoreRefused
<1>2. CASE ~(s \in DOMAIN g.stores \/ a \in DOMAIN g.index)
  <2>1. RegisterStore(g, s, a).state = k
    BY <1>2 DEF RegisterStore, StoreDone
  <2>2. info \in StoreInfo
    BY DEF StoreInfo
  <2> HIDE DEF info
  <2>3. /\ DOMAIN k.stores = {s} \cup DOMAIN g.stores
        /\ k.stores[s] = info
        /\ \A x \in DOMAIN g.stores : k.stores[x] = g.stores[x] /\ x # s
        /\ k.stores = [x \in DOMAIN k.stores |-> k.stores[x]]
    BY <1>2 DEF With
  <2>4. /\ DOMAIN k.index = {a} \cup DOMAIN g.index
        /\ k.index[a] = s
        /\ \A x \in DOMAIN g.index : k.index[x] = g.index[x] /\ x # a
        /\ k.index = [x \in DOMAIN k.index |-> k.index[x]]
    BY <1>2 DEF With
  <2>5. k = [stores |-> k.stores, index |-> k.index]
    OBVIOUS
  <2> HIDE DEF k
  <2>6. IsFiniteSet(DOMAIN k.stores)
    BY <2>3, FS_AddElement DEF RegistryFits
  <2>7. k.stores \in [DOMAIN k.stores -> StoreInfo]
    BY <2>2, <2>3 DEF RegistryFits
  <2>8. info.id = s /\ info.address = a
    BY DEF info
  <2>9. \A x \in DOMAIN k.stores : k.stores[x].id = x
    BY <2>3, <2>8 DEF RegistryFits
  <2>10. DOMAIN k.index = {k.stores[x].address : x \in DOMAIN k.stores}
    BY <2>3, <2>4, <2>8 DEF RegistryFits
  <2>11. ASSUME NEW x \in DOMAIN k.stores PROVE k.index[k.stores[x].address] = x
    <3>1. CASE x = s
      BY <2>3, <2>4, <2>8, <3>1
    <3>2. CASE x # s
      <4>1. x \in DOMAIN g.stores /\ k.stores[x] = g.stores[x]
        BY <2>3, <3>2
      <4>2. g.stores[x].address \in DOMAIN g.index /\ g.index[g.stores[x].address] = x
        BY <4>1 DEF RegistryFits
      <4>3. QED BY <2>4, <4>1, <4>2
    <3>3. QED BY <3>1, <3>2
  <2>12. QED BY <2>1, <2>4, <2>5, <2>6, <2>7, <2>9, <2>10, <2>11 DEF RegistryFits
<1>3. QED BY <1>1, <1>2

\* The state of store i after a command has stopped it.
Stopped(i) ==
    [id |-> i.id, address |-> i.address, state |-> "STOPPED",
     generation |-> i.generation + 1, heartbeat |-> i.heartbeat]

LEMMA StoppedStore ==
  ASSUME NEW i \in StoreInfo
  PROVE  /\ Stopped(i) \in StoreInfo
         /\ Stopped(i) = [i EXCEPT !.state = "STOPPED", !.generation = i.generation + 1]
<1>1. i = [id |-> i.id, address |-> i.address, state |-> i.state,
           generation |-> i.generation, heartbeat |-> i.heartbeat]
  BY StoreShape
<1>2. i.generation + 1 \in Nat
  BY StoreShape
<1>3. Stopped(i) \in StoreInfo
  BY <1>2, StoreShape DEF Stopped, StoreInfo
<1>4. Stopped(i) = [i EXCEPT !.state = "STOPPED", !.generation = i.generation + 1]
  <2> DEFINE k == [i EXCEPT !.state = "STOPPED", !.generation = i.generation + 1]
  <2>1. k = [i EXCEPT !.state = "STOPPED", !.generation = i.generation + 1]
    OBVIOUS
  <2> HIDE DEF k
  <2>2. k = Stopped(i)
    BY <1>1, <2>1 DEF Stopped
  <2>3. QED BY <2>2 DEF k
<1>5. QED BY <1>3, <1>4

StopOutcome(g, s, generation, r) ==
    IF s \in DOMAIN g.stores /\ g.stores[s].generation = generation
    THEN /\ r.ok = TRUE /\ r.store = Stopped(g.stores[s]) /\ r.store \in StoreInfo
         /\ r.state = [stores |-> [g.stores EXCEPT ![s] = Stopped(g.stores[s])],
                       index  |-> g.index]
    ELSE r = StoreRefused(g)

LEMMA UpdateStoreFacts ==
  ASSUME NEW g, RegistryFits(g), NEW s, NEW generation
  PROVE  StopOutcome(g, s, generation, UpdateStore(g, s, generation, "STOPPED"))
<1> DEFINE r == UpdateStore(g, s, generation, "STOPPED")
           accepted == s \in DOMAIN g.stores /\ g.stores[s].generation = generation
           info == Stopped(g.stores[s])
<1>1. CASE accepted
  <2>1. g.stores[s] \in StoreInfo
    BY <1>1 DEF RegistryFits
  <2>2. /\ info \in StoreInfo
        /\ info = [g.stores[s] EXCEPT !.state = "STOPPED",
                                      !.generation = g.stores[s].generation + 1]
    BY <2>1, StoppedStore
  <2> HIDE DEF info
  <2>3. r = StoreDone([g EXCEPT !.stores = [g.stores EXCEPT ![s] = info]], info)
    BY <1>1, <2>2 DEF UpdateStore
  <2>4. [g EXCEPT !.stores = [g.stores EXCEPT ![s] = info]]
          = [stores |-> [g.stores EXCEPT ![s] = info], index |-> g.index]
    BY DEF RegistryFits
  <2> HIDE DEF r
  <2>5. /\ r.ok = TRUE /\ r.store = info /\ info \in StoreInfo
        /\ r.state = [stores |-> [g.stores EXCEPT ![s] = info], index |-> g.index]
    BY <2>2, <2>3, <2>4 DEF StoreDone
  <2>6. QED BY <1>1, <2>5 DEF StopOutcome, info, r
<1>2. CASE ~accepted
  BY <1>2 DEF UpdateStore, StopOutcome
<1>3. QED BY <1>1, <1>2

LEMMA UpdateStoreFits ==
  ASSUME NEW g, RegistryFits(g), NEW s, NEW generation
  PROVE  RegistryFits(UpdateStore(g, s, generation, "STOPPED").state)
<1> DEFINE r == UpdateStore(g, s, generation, "STOPPED")
           accepted == s \in DOMAIN g.stores /\ g.stores[s].generation = generation
           info == Stopped(g.stores[s])
           k == r.state
<1>1. CASE accepted
  <2>1. /\ k = [stores |-> [g.stores EXCEPT ![s] = info], index |-> g.index]
        /\ info \in StoreInfo
    <3>1. StopOutcome(g, s, generation, r)
      BY UpdateStoreFacts
    <3>2. QED BY <1>1, <3>1 DEF StopOutcome
  <2>2. info.id = s /\ info.address = g.stores[s].address
    BY <1>1 DEF Stopped, RegistryFits
  <2> HIDE DEF info, k
  <2>3. k.stores = [g.stores EXCEPT ![s] = info] /\ k.index = g.index
    BY <2>1
  <2>4. /\ DOMAIN k.stores = DOMAIN g.stores
        /\ \A x \in DOMAIN g.stores : k.stores[x] = IF x = s THEN info ELSE g.stores[x]
        /\ k.stores \in [DOMAIN k.stores -> StoreInfo]
    BY <1>1, <2>1, <2>3 DEF RegistryFits
  <2>5. \A x \in DOMAIN g.stores : /\ k.stores[x].id = x
                                   /\ k.stores[x].address = g.stores[x].address
    BY <2>2, <2>4 DEF RegistryFits
  <2>6. RegistryFits(k)
    BY <2>1, <2>3, <2>4, <2>5 DEF RegistryFits
  <2>7. QED BY <2>6 DEF k
<1>2. CASE ~accepted
  <2>1. r = StoreRefused(g)
    <3>1. StopOutcome(g, s, generation, r)
      BY UpdateStoreFacts
    <3>2. QED BY <1>2, <3>1 DEF StopOutcome
  <2>2. QED BY <2>1 DEF StoreRefused
<1>3. QED BY <1>1, <1>2

LEMMA RemoveStoreFits ==
  ASSUME NEW g, RegistryFits(g), NEW s \in DOMAIN g.stores
  PROVE  RegistryFits(RemoveStore(g, s))
<1> DEFINE a == g.stores[s].address
           k == RemoveStore(g, s)
<1>1. /\ k.stores = [x \in DOMAIN g.stores \ {s} |-> g.stores[x]]
      /\ k.index = [x \in DOMAIN g.index \ {a} |-> g.index[x]]
      /\ k = [stores |-> k.stores, index |-> k.index]
  BY DEF RemoveStore, Without
<1> HIDE DEF k
<1>2. \A x \in DOMAIN k.stores : x \in DOMAIN g.stores /\ x # s /\ k.stores[x] = g.stores[x]
  BY <1>1
<1>3. \A x \in DOMAIN k.stores : g.stores[x].address # a
  BY <1>2 DEF RegistryFits
<1>4. IsFiniteSet(DOMAIN k.stores)
  BY <1>1, FS_Subset DEF RegistryFits
<1>5. k.stores \in [DOMAIN k.stores -> StoreInfo]
  BY <1>1 DEF RegistryFits
<1>6. DOMAIN k.index = {k.stores[x].address : x \in DOMAIN k.stores}
  <2>1. ASSUME NEW b \in DOMAIN k.index
        PROVE  \E x \in DOMAIN k.stores : b = k.stores[x].address
    BY <1>1 DEF RegistryFits
  <2>2. ASSUME NEW x \in DOMAIN k.stores PROVE k.stores[x].address \in DOMAIN k.index
    <3>1. x \in DOMAIN g.stores /\ k.stores[x] = g.stores[x] /\ g.stores[x].address # a
      BY <1>2, <1>3, <2>2
    <3>2. g.stores[x].address \in DOMAIN g.index
      BY <3>1 DEF RegistryFits
    <3>3. QED BY <1>1, <3>1, <3>2
  <2>3. QED BY <2>1, <2>2
<1>7. ASSUME NEW x \in DOMAIN k.stores
      PROVE  k.stores[x].id = x /\ k.index[k.stores[x].address] = x
  <2>1. x \in DOMAIN g.stores /\ k.stores[x] = g.stores[x] /\ g.stores[x].address # a
    BY <1>2, <1>3
  <2>2. /\ g.stores[x].id = x /\ g.stores[x].address \in DOMAIN g.index
        /\ g.index[g.stores[x].address] = x
    BY <2>1 DEF RegistryFits
  <2>3. QED BY <1>1, <2>1, <2>2
<1>8. QED BY <1>1, <1>4, <1>5, <1>6, <1>7 DEF RegistryFits, k

LEMMA UpdateHeartbeatFits ==
  ASSUME NEW g, RegistryFits(g), NEW s \in DOMAIN g.stores, NEW b \in Heartbeats
  PROVE  LET k == UpdateHeartbeat(g, s, b)
         IN  RegistryFits(k) /\ SameRegistry(g, k)
<1> DEFINE k == UpdateHeartbeat(g, s, b)
           info == [g.stores[s] EXCEPT !.heartbeat = b]
<1>1. info \in StoreInfo /\ SameStore(g.stores[s], info)
  BY DEF StoreInfo, RegistryFits, SameStore
<1>2. k = [stores |-> [g.stores EXCEPT ![s] = info], index |-> g.index]
  <2>1. k = [g EXCEPT !.stores = [g.stores EXCEPT ![s] = info]]
    BY DEF UpdateHeartbeat
  <2> HIDE DEF k, info
  <2>2. QED BY <2>1 DEF RegistryFits
<1> HIDE DEF info
<1>3. k.stores = [g.stores EXCEPT ![s] = info] /\ k.index = g.index
  BY <1>2
<1> HIDE DEF k
<1>4. /\ DOMAIN k.stores = DOMAIN g.stores
      /\ \A x \in DOMAIN g.stores : k.stores[x] = IF x = s THEN info ELSE g.stores[x]
      /\ k.stores \in [DOMAIN k.stores -> StoreInfo]
  BY <1>1, <1>3 DEF RegistryFits
<1>5. \A x \in DOMAIN g.stores : SameStore(g.stores[x], k.stores[x])
  BY <1>1, <1>4 DEF SameStore
<1>6. RegistryFits(k)
  BY <1>2, <1>3, <1>4, <1>5 DEF RegistryFits, SameStore
<1>7. QED BY <1>3, <1>4, <1>5, <1>6 DEF SameRegistry, k
\* What a store command does to the registry.
StoreKinds == {"REGISTER_STORE", "UPDATE_STORE_STATE", "REMOVE_STORE"}

StoreOp(g, cmd) ==
    CASE cmd.kind = "REGISTER_STORE" -> RegisterStore(g, cmd.store, cmd.address)
      [] cmd.kind = "UPDATE_STORE_STATE" ->
            UpdateStore(g, cmd.store, cmd.generation, "STOPPED")
      [] cmd.kind = "REMOVE_STORE" ->
            IF cmd.store \in DOMAIN g.stores
               /\ g.stores[cmd.store].generation = cmd.generation
            THEN StoreDone(RemoveStore(g, cmd.store), g.stores[cmd.store])
            ELSE StoreRefused(g)

StoreOpShape(g, r) ==
    /\ r.ok \in BOOLEAN
    /\ RegistryFits(r.state)
    /\ r.store \in StoreInfo \cup {NoInfo}

LEMMA StoreOpFits ==
  ASSUME NEW g, RegistryFits(g), NEW cmd, ValidCommand(cmd), cmd.kind \in StoreKinds
  PROVE  StoreOpShape(g, StoreOp(g, cmd))
<1>1. StoreOpShape(g, StoreRefused(g))
  BY DEF StoreOpShape, StoreRefused
<1>2. CASE cmd.kind = "REGISTER_STORE"
  <2>1. cmd.store \in Store /\ cmd.address \in Address
    BY <1>2 DEF ValidCommand
  <2> DEFINE r == RegisterStore(g, cmd.store, cmd.address)
             info == [id |-> cmd.store, address |-> cmd.address, state |-> "RUNNING",
                      generation |-> 1, heartbeat |-> 0]
  <2>2. info \in StoreInfo
    BY <2>1 DEF StoreInfo
  <2>3. RegistryFits(r.state)
    BY <2>1, RegisterStoreFits
  <2>4. r.ok \in BOOLEAN /\ r.store \in {info, NoInfo}
    BY DEF RegisterStore, StoreDone, StoreRefused
  <2> HIDE DEF r, info
  <2>5. StoreOpShape(g, r)
    BY <2>2, <2>3, <2>4 DEF StoreOpShape
  <2>6. StoreOp(g, cmd) = r
    BY <1>2 DEF StoreOp, r
  <2>7. QED BY <2>5, <2>6
<1>3. CASE cmd.kind = "UPDATE_STORE_STATE"
  <2> DEFINE s == cmd.store
             r == UpdateStore(g, s, cmd.generation, "STOPPED")
  <2>1. RegistryFits(r.state)
    BY UpdateStoreFits
  <2> StopOutcome(g, s, cmd.generation, r)
    BY UpdateStoreFacts
  <2>2. CASE s \in DOMAIN g.stores /\ g.stores[s].generation = cmd.generation
    <3>1. r.ok = TRUE /\ r.store \in StoreInfo
      BY <2>2 DEF StopOutcome
    <3>2. QED BY <1>3, <2>1, <3>1 DEF StoreOp, StoreOpShape
  <2>3. CASE ~(s \in DOMAIN g.stores /\ g.stores[s].generation = cmd.generation)
    <3>1. r = StoreRefused(g)
      BY <2>3 DEF StopOutcome
    <3>2. QED BY <1>1, <1>3, <3>1 DEF StoreOp
  <2>4. QED BY <2>2, <2>3
<1>4. CASE cmd.kind = "REMOVE_STORE"
  <2> DEFINE s == cmd.store
  <2>1. CASE s \in DOMAIN g.stores /\ g.stores[s].generation = cmd.generation
    <3>1. StoreOp(g, cmd) = StoreDone(RemoveStore(g, s), g.stores[s])
      BY <1>4, <2>1 DEF StoreOp
    <3>2. RegistryFits(RemoveStore(g, s))
      BY <2>1, RemoveStoreFits
    <3>3. g.stores[s] \in StoreInfo
      BY <2>1 DEF RegistryFits
    <3>4. QED BY <3>1, <3>2, <3>3 DEF StoreOpShape, StoreDone
  <2>2. CASE ~(s \in DOMAIN g.stores /\ g.stores[s].generation = cmd.generation)
    <3>1. StoreOp(g, cmd) = StoreRefused(g)
      BY <1>4, <2>2 DEF StoreOp
    <3>2. QED BY <1>1, <3>1
  <2>3. QED BY <2>1, <2>2
<1>5. QED BY <1>2, <1>3, <1>4 DEF StoreKinds

\* What a store command answers, and does to the registry, does not depend on the
\* heartbeats a node has heard.
LEMMA StoreOpSame ==
  ASSUME NEW g, RegistryFits(g), NEW k, RegistryFits(k), SameRegistry(g, k),
         NEW cmd, ValidCommand(cmd), cmd.kind \in StoreKinds
  PROVE  LET r == StoreOp(g, cmd)
             q == StoreOp(k, cmd)
         IN  /\ r.ok = q.ok
             /\ SameRegistry(r.state, q.state)
             /\ SameInfo(r.store, q.store)
<1> DEFINE s == cmd.store
           r == StoreOp(g, cmd)
           q == StoreOp(k, cmd)
<1>1. ASSUME r = StoreRefused(g), q = StoreRefused(k)
      PROVE  r.ok = q.ok /\ SameRegistry(r.state, q.state) /\ SameInfo(r.store, q.store)
  BY <1>1 DEF StoreRefused, SameInfo
<1>2. s \in DOMAIN g.stores <=> s \in DOMAIN k.stores
  BY DEF SameRegistry
<1>3. ASSUME s \in DOMAIN g.stores
      PROVE  /\ g.stores[s] \in StoreInfo /\ k.stores[s] \in StoreInfo
             /\ SameStore(g.stores[s], k.stores[s])
  BY <1>3 DEF SameRegistry, RegistryFits
<1>4. CASE cmd.kind = "REGISTER_STORE"
  <2> DEFINE a == cmd.address
             info == [id |-> s, address |-> a, state |-> "RUNNING",
                      generation |-> 1, heartbeat |-> 0]
             taken == s \in DOMAIN g.stores \/ a \in DOMAIN g.index
             New(f) == [stores |-> With(f.stores, s, info), index |-> With(f.index, a, s)]
  <2>1. taken <=> s \in DOMAIN k.stores \/ a \in DOMAIN k.index
    BY DEF SameRegistry
  <2>2. CASE taken
    <3>1. r = StoreRefused(g) /\ q = StoreRefused(k)
      BY <1>4, <2>1, <2>2 DEF StoreOp, RegisterStore
    <3>2. QED BY <1>1, <3>1
  <2>3. CASE ~taken
    <3>1. r = StoreDone(New(g), info) /\ q = StoreDone(New(k), info)
      BY <1>4, <2>1, <2>3 DEF StoreOp, RegisterStore
    <3>2. info \in StoreInfo
      BY <1>4 DEF StoreInfo, ValidCommand
    <3> HIDE DEF info, r, q
    <3>3. SameRegistry(New(g), New(k))
      BY DEF SameRegistry, With, SameStore
    <3>4. QED BY <3>1, <3>2, <3>3 DEF StoreDone, SameInfo, SameStore, r, q
  <2>4. QED BY <2>2, <2>3
<1>5. CASE cmd.kind = "UPDATE_STORE_STATE"
  <2> DEFINE found == s \in DOMAIN g.stores /\ g.stores[s].generation = cmd.generation
  <2>1. found <=> s \in DOMAIN k.stores /\ k.stores[s].generation = cmd.generation
    BY <1>2, <1>3 DEF SameStore
  <2>2. /\ r = UpdateStore(g, s, cmd.generation, "STOPPED")
        /\ q = UpdateStore(k, s, cmd.generation, "STOPPED")
    BY <1>5 DEF StoreOp
  <2> /\ StopOutcome(g, s, cmd.generation, r)
      /\ StopOutcome(k, s, cmd.generation, q)
    BY <2>2, UpdateStoreFacts
  <2>3. CASE ~found
    <3>1. r = StoreRefused(g) /\ q = StoreRefused(k)
      BY <2>1, <2>3 DEF StopOutcome
    <3>2. QED BY <1>1, <3>1
  <2>4. CASE found
    <3> DEFINE i == Stopped(g.stores[s])
               j == Stopped(k.stores[s])
    <3>1. /\ r.ok = TRUE /\ r.store = i /\ i \in StoreInfo
          /\ r.state = [stores |-> [g.stores EXCEPT ![s] = i], index |-> g.index]
      BY <2>4 DEF StopOutcome
    <3>2. /\ q.ok = TRUE /\ q.store = j /\ j \in StoreInfo
          /\ q.state = [stores |-> [k.stores EXCEPT ![s] = j], index |-> k.index]
      BY <2>1, <2>4 DEF StopOutcome
    <3>3. SameStore(i, j)
      BY <1>3, <2>4 DEF SameStore, Stopped
    <3> HIDE DEF r, q, i, j
    <3>4. SameRegistry(r.state, q.state)
      BY <3>1, <3>2, <3>3 DEF SameRegistry
    <3>5. QED BY <3>1, <3>2, <3>3, <3>4 DEF SameInfo, r, q
  <2>5. QED BY <2>3, <2>4
<1>6. CASE cmd.kind = "REMOVE_STORE"
  <2> DEFINE found == s \in DOMAIN g.stores /\ g.stores[s].generation = cmd.generation
  <2>1. found <=> s \in DOMAIN k.stores /\ k.stores[s].generation = cmd.generation
    BY <1>2, <1>3 DEF SameStore
  <2>2. CASE ~found
    <3>1. r = StoreRefused(g) /\ q = StoreRefused(k)
      BY <1>6, <2>1, <2>2 DEF StoreOp
    <3>2. QED BY <1>1, <3>1
  <2>3. CASE found
    <3>1. /\ r = StoreDone(RemoveStore(g, s), g.stores[s])
          /\ q = StoreDone(RemoveStore(k, s), k.stores[s])
      BY <1>6, <2>1, <2>3 DEF StoreOp
    <3> HIDE DEF r, q
    <3>2. SameRegistry(RemoveStore(g, s), RemoveStore(k, s))
      <4>1. g.stores[s].address = k.stores[s].address
        BY <1>3, <2>3 DEF SameStore
      <4>2. QED BY <4>1 DEF SameRegistry, RemoveStore, Without
    <3>3. QED BY <1>3, <2>3, <3>1, <3>2 DEF StoreDone, SameInfo, r, q
  <2>4. QED BY <2>2, <2>3
<1>7. QED BY <1>4, <1>5, <1>6 DEF StoreKinds

----------------------------------------------------------------------------
\* The tasks.

TaskFits(r, t, next) ==
    /\ r = [id |-> t, content |-> r.content, state |-> r.state, store |-> r.store,
            result |-> r.result, generation |-> r.generation, sequence |-> r.sequence]
    /\ r.state \in {"WAITING", "RUNNING", "SUCCESS", "FAILED"}
    /\ r.generation \in Nat \ {0} /\ r.sequence \in 1 .. next - 1
    /\ r.state = "WAITING" <=> r.store = NoStore
    /\ r.state \in {"WAITING", "RUNNING"} => r.result = NoPayload

\* Tasks are numbered in the order of their creation, and the last number given is
\* still that of a task.
TasksFit(tm) ==
    /\ tm = [tasks |-> tm.tasks, next |-> tm.next]
    /\ IsFiniteSet(DOMAIN tm.tasks)
    /\ tm.tasks = [t \in DOMAIN tm.tasks |-> tm.tasks[t]]
    /\ tm.next \in Nat \ {0}
    /\ \A t \in DOMAIN tm.tasks : TaskFits(tm.tasks[t], t, tm.next)
    /\ \A t, u \in DOMAIN tm.tasks : tm.tasks[t].sequence = tm.tasks[u].sequence => t = u
    /\ tm.next = 1 \/ \E t \in DOMAIN tm.tasks : tm.tasks[t].sequence = tm.next - 1

\* What may become of a task that exists: it keeps its number, is given to a store
\* once, and its result is final.
TaskMoves(old, new) ==
    /\ new.sequence = old.sequence /\ new.content = old.content
    /\ new.state = "WAITING" => old.state = "WAITING"
    /\ old.state # "WAITING" => new.store = old.store
    /\ IsTerminal(old.state) => new = old

\* The tasks that an operation with result r returns.
Returned(r) == {r.tasks[k].id : k \in DOMAIN r.tasks}

\* What an operation does to the tasks, but for the tasks that a poll takes.
TaskOpShape(tm, r) ==
    /\ r = [ok |-> r.ok, state |-> r.state, tasks |-> r.tasks]
    /\ r.ok \in BOOLEAN
    /\ TasksFit(r.state)
    /\ DOMAIN tm.tasks \subseteq DOMAIN r.state.tasks
    /\ \A t \in DOMAIN tm.tasks : TaskMoves(tm.tasks[t], r.state.tasks[t])

IsTask(r) ==
    \E t, content, state, store, result, generation, sequence :
        r = [id |-> t, content |-> content, state |-> state, store |-> store,
             result |-> result, generation |-> generation, sequence |-> sequence]

\* Task i after a change.
Task(i, state, store, result) ==
    [id |-> i.id, content |-> i.content, state |-> state, store |-> store,
     result |-> result, generation |-> i.generation + 1, sequence |-> i.sequence]

LEMMA TaskShape ==
  ASSUME NEW r, NEW t, NEW next, TaskFits(r, t, next)
  PROVE  IsTask(r)
<1>1. r = [id |-> t, content |-> r.content, state |-> r.state, store |-> r.store,
           result |-> r.result, generation |-> r.generation, sequence |-> r.sequence]
  BY DEF TaskFits
<1>2. QED BY <1>1 DEF IsTask

LEMMA ChangedTask ==
  ASSUME NEW i, IsTask(i), NEW report, NEW store
  PROVE  /\ CompleteWith(i, report) = Task(i, report.final, i.store, report.result)
         /\ AssignTo(i, store) = Task(i, "RUNNING", store, i.result)
<1>1. ASSUME NEW k, NEW g,
             k = [i EXCEPT !.state = report.final, !.result = report.result,
                           !.generation = g]
      PROVE  k = [id |-> i.id, content |-> i.content, state |-> report.final,
                  store |-> i.store, result |-> report.result, generation |-> g,
                  sequence |-> i.sequence]
  BY <1>1 DEF IsTask
<1>2. ASSUME NEW k, NEW g,
             k = [i EXCEPT !.state = "RUNNING", !.store = store, !.generation = g]
      PROVE  k = [id |-> i.id, content |-> i.content, state |-> "RUNNING", store |-> store,
                  result |-> i.result, generation |-> g, sequence |-> i.sequence]
  BY <1>2 DEF IsTask
<1>3. ASSUME NEW k, k = CompleteWith(i, report)
      PROVE  k = Task(i, report.final, i.store, report.result)
  <2>1. k = [i EXCEPT !.state = report.final, !.result = report.result,
                      !.generation = i.generation + 1]
    BY <1>3 DEF CompleteWith
  <2>2. QED BY <1>1, <2>1 DEF Task
<1>4. ASSUME NEW k, k = AssignTo(i, store)
      PROVE  k = Task(i, "RUNNING", store, i.result)
  <2>1. k = [i EXCEPT !.state = "RUNNING", !.store = store,
                      !.generation = i.generation + 1]
    BY <1>4 DEF AssignTo
  <2>2. QED BY <1>2, <2>1 DEF Task
<1>5. QED BY <1>3, <1>4

LEMMA EmptyTasksFit == TasksFit(EmptyTasks)
<1>1. IsFiniteSet({})
  BY FS_EmptySet
<1>2. DOMAIN <<>> = {} /\ <<>> = [t \in {} |-> <<>>[t]]
  OBVIOUS
<1>3. QED BY <1>1, <1>2 DEF TasksFit, EmptyTasks

LEMMA TasksUnmoved ==
  ASSUME NEW tm, TasksFit(tm), NEW ok \in BOOLEAN, NEW tasks
  PROVE  TaskOpShape(tm, [ok |-> ok, state |-> tm, tasks |-> tasks])
BY DEF TaskOpShape, TaskMoves

LEMMA CreateTaskFits ==
  ASSUME NEW tm, TasksFit(tm), NEW t, NEW content
  PROVE  TaskOpShape(tm, CreateTask(tm, t, content))
<1> DEFINE r == CreateTask(tm, t, content)
           created == NewTask(t, content, tm.next)
<1>1. CASE t \notin DOMAIN tm.tasks
  <2> DEFINE k == [tasks |-> With(tm.tasks, t, created), next |-> tm.next + 1]
  <2>1. r = [ok |-> TRUE, state |-> k, tasks |-> <<created>>]
    BY <1>1 DEF CreateTask, Accepted
  <2>2. /\ k = [tasks |-> k.tasks, next |-> k.next]
        /\ k.next = tm.next + 1
        /\ DOMAIN k.tasks = DOMAIN tm.tasks \cup {t}
        /\ k.tasks[t] = created
        /\ \A x \in DOMAIN tm.tasks : k.tasks[x] = tm.tasks[x] /\ x # t
        /\ k.tasks = [x \in DOMAIN k.tasks |-> k.tasks[x]]
    BY <1>1 DEF With
  <2> HIDE DEF k
  <2>3. TaskFits(created, t, k.next) /\ created.sequence = tm.next
    BY <2>2 DEF NewTask, TaskFits, TasksFit
  <2> HIDE DEF created
  <2>4. tm.next \in Nat \ {0}
    BY DEF TasksFit
  <2>5. ASSUME NEW x \in DOMAIN tm.tasks
        PROVE  TaskFits(k.tasks[x], x, k.next) /\ k.tasks[x].sequence \in 1 .. tm.next - 1
    <3>1. TaskFits(tm.tasks[x], x, tm.next)
      BY DEF TasksFit
    <3>2. 1 .. tm.next - 1 \subseteq 1 .. k.next - 1
      BY <2>2, <2>4
    <3>3. QED BY <2>2, <3>1, <3>2 DEF TaskFits
  <2>6. \A x \in DOMAIN k.tasks : TaskFits(k.tasks[x], x, k.next)
    BY <2>2, <2>3, <2>5
  <2>7. \A x, y \in DOMAIN k.tasks : k.tasks[x].sequence = k.tasks[y].sequence => x = y
    <3>1. \A x \in DOMAIN tm.tasks : k.tasks[x].sequence # tm.next
      BY <2>4, <2>5
    <3>2. \A x, y \in DOMAIN tm.tasks : k.tasks[x].sequence = k.tasks[y].sequence => x = y
      BY <2>2 DEF TasksFit
    <3>3. QED BY <2>2, <2>3, <3>1, <3>2
  <2>8. k.tasks[t].sequence = k.next - 1
    BY <2>2, <2>3, <2>4
  <2>9. IsFiniteSet(DOMAIN k.tasks)
    BY <2>2, FS_AddElement DEF TasksFit
  <2>10. TasksFit(k)
    BY <2>2, <2>4, <2>6, <2>7, <2>8, <2>9 DEF TasksFit
  <2>11. QED BY <2>1, <2>2, <2>10 DEF TaskOpShape, TaskMoves
<1>2. CASE t \in DOMAIN tm.tasks
  <2>1. r = Accepted(tm, <<tm.tasks[t]>>) \/ r = Rejected(tm)
    BY <1>2 DEF CreateTask
  <2>2. QED BY <2>1, TasksUnmoved DEF Accepted, Rejected
<1>3. QED BY <1>1, <1>2

LEMMA CompleteTaskFits ==
  ASSUME NEW tm, TasksFit(tm), NEW report, IsTerminal(report.final)
  PROVE  TaskOpShape(tm, CompleteTask(tm, report))
<1> DEFINE r == CompleteTask(tm, report)
           t == report.task
           old == tm.tasks[t]
           new == [id |-> t, content |-> old.content, state |-> report.final,
                   store |-> old.store, result |-> report.result,
                   generation |-> old.generation + 1, sequence |-> old.sequence]
           k == [tasks |-> [tm.tasks EXCEPT ![t] = new], next |-> tm.next]
<1>1. CASE t \in DOMAIN tm.tasks /\ r # Rejected(tm) /\ r # Accepted(tm, <<old>>)
  <2>1. TaskFits(old, t, tm.next)
    BY <1>1 DEF TasksFit
  <2>2. old.state = "RUNNING" /\ ~IsTerminal(old.state)
    BY <1>1 DEF CompleteTask, IsTerminal
  <2>3. new = CompleteWith(old, report)
    <3>1. new = Task(old, report.final, old.store, report.result)
      BY <2>1 DEF Task, TaskFits
    <3>2. QED BY <2>1, <3>1, TaskShape, ChangedTask
  <2>4. r = [ok |-> TRUE, state |-> [tm EXCEPT !.tasks = [tm.tasks EXCEPT ![t] = new]],
             tasks |-> <<new>>]
    BY <1>1, <2>2, <2>3 DEF CompleteTask, Accepted
  <2>5. new.sequence = old.sequence /\ new.content = old.content /\ new.store = old.store
    OBVIOUS
  <2>6. TaskFits(new, t, tm.next)
    BY <2>1, <2>2 DEF TaskFits, IsTerminal
  <2>7. new.state # "WAITING"
    BY DEF IsTerminal
  <2> HIDE DEF new, old, r
  <2>8. [tm EXCEPT !.tasks = [tm.tasks EXCEPT ![t] = new]] = k
    BY DEF TasksFit
  <2>9. k.tasks = [tm.tasks EXCEPT ![t] = new] /\ k.next = tm.next
    OBVIOUS
  <2>10. k = [tasks |-> k.tasks, next |-> k.next]
    OBVIOUS
  <2> HIDE DEF k
  <2>11. /\ DOMAIN k.tasks = DOMAIN tm.tasks
         /\ \A x \in DOMAIN tm.tasks :
               k.tasks[x] = IF x = t THEN new ELSE tm.tasks[x]
         /\ k.tasks = [x \in DOMAIN k.tasks |-> k.tasks[x]]
    BY <2>9 DEF TasksFit
  <2>12. \A x \in DOMAIN tm.tasks : k.tasks[x].sequence = tm.tasks[x].sequence
    BY <2>5, <2>11 DEF old
  <2>13. \A x \in DOMAIN tm.tasks : TaskFits(k.tasks[x], x, k.next)
    BY <2>6, <2>9, <2>11 DEF TasksFit
  <2>14. TasksFit(k)
    BY <2>9, <2>10, <2>11, <2>12, <2>13 DEF TasksFit
  <2>15. \A x \in DOMAIN tm.tasks : TaskMoves(tm.tasks[x], k.tasks[x])
    BY <2>2, <2>5, <2>7, <2>11 DEF TaskMoves, old
  <2>16. QED BY <2>4, <2>8, <2>11, <2>14, <2>15 DEF TaskOpShape, r
<1>2. CASE r = Rejected(tm) \/ r = Accepted(tm, <<old>>)
  BY <1>2, TasksUnmoved DEF Accepted, Rejected
<1>3. CASE t \notin DOMAIN tm.tasks
  <2>1. r = Rejected(tm)
    BY <1>3 DEF CompleteTask
  <2>2. QED BY <1>2, <2>1
<1>4. QED BY <1>1, <1>2, <1>3

\* The waiting tasks that a poll for at most max takes.
Chosen(tm, max) == {t \in Waiting(tm) : Turn(tm, t) <= max}

InTurn(tm, C) ==
    /\ IsFiniteSet(C) /\ Cardinality(C) \in Nat
    /\ \A t \in C : Turn(tm, t) \in 1 .. Cardinality(C)
    /\ \A t, u \in C : Turn(tm, t) = Turn(tm, u) => t = u
    /\ \A k \in 1 .. Cardinality(C) : \E t \in C : Turn(tm, t) = k

LEMMA ChosenInTurn ==
  ASSUME NEW tm, TasksFit(tm), NEW max \in Nat
  PROVE  InTurn(tm, Chosen(tm, max))
<1> DEFINE W == Waiting(tm)
           C == Chosen(tm, max)
           Earlier(t) == {u \in W : tm.tasks[u].sequence < tm.tasks[t].sequence}
           c == Cardinality(C)
<1>1. W \subseteq DOMAIN tm.tasks /\ C \subseteq W
  BY DEF Waiting, Chosen
<1>2. \A t \in W : tm.tasks[t].sequence \in Nat
  BY <1>1 DEF TasksFit, TaskFits
<1>3. IsFiniteSet(W) /\ IsFiniteSet(C)
  BY <1>1, FS_Subset DEF TasksFit
<1>4. c \in Nat
  BY <1>3, FS_CardinalityType
<1>5. \A t \in W : /\ IsFiniteSet(Earlier(t)) /\ Cardinality(Earlier(t)) \in Nat
                   /\ Turn(tm, t) = 1 + Cardinality(Earlier(t))
                   /\ Turn(tm, t) \in Int
  <2> TAKE t \in W
  <2>1. IsFiniteSet(Earlier(t))
    BY <1>3, FS_Subset
  <2>2. Cardinality(Earlier(t)) \in Nat
    BY <2>1, FS_CardinalityType
  <2>3. Turn(tm, t) = 1 + Cardinality(Earlier(t))
    BY DEF Turn
  <2>4. Turn(tm, t) \in Int
    <3> HIDE DEF Earlier
    <3>1. QED BY <2>2, <2>3
  <2>5. QED BY <2>1, <2>2, <2>3, <2>4
<1>6. \A t, u \in W : tm.tasks[u].sequence < tm.tasks[t].sequence
                        => Turn(tm, u) < Turn(tm, t)
  <2> SUFFICES ASSUME NEW t \in W, NEW u \in W,
                      tm.tasks[u].sequence < tm.tasks[t].sequence
               PROVE  Turn(tm, u) < Turn(tm, t)
    OBVIOUS
  <2>1. Earlier(u) \subseteq Earlier(t) /\ u \in Earlier(t) /\ u \notin Earlier(u)
    BY <1>2
  <2>2. Cardinality(Earlier(u)) <= Cardinality(Earlier(t))
        /\ Cardinality(Earlier(u)) # Cardinality(Earlier(t))
    BY <1>5, <2>1, FS_Subset
  <2> HIDE DEF Earlier, W
  <2>3. QED BY <1>5, <2>2
<1>7. \A t, u \in W : Turn(tm, t) = Turn(tm, u) => t = u
  <2> SUFFICES ASSUME NEW t \in W, NEW u \in W, Turn(tm, t) = Turn(tm, u)
               PROVE  t = u
    OBVIOUS
  <2>1. Turn(tm, t) \in Int
    BY <1>5
  <2>2. tm.tasks[t].sequence = tm.tasks[u].sequence
    BY <1>2, <1>6, <2>1
  <2>3. QED BY <1>1, <2>2 DEF TasksFit
<1>8. \A t \in C : Turn(tm, t) \in 1 .. c
  <2> TAKE t \in C
  <2>1. t \in W /\ Turn(tm, t) <= max
    BY DEF Chosen
  <2>2. Earlier(t) \subseteq C /\ t \notin Earlier(t)
    <3>1. ASSUME NEW u \in Earlier(t) PROVE u \in C
      <4>1. u \in W /\ Turn(tm, u) < Turn(tm, t)
        BY <1>6, <2>1
      <4>2. Turn(tm, u) \in Int /\ Turn(tm, t) \in Int
        BY <1>5, <2>1, <4>1
      <4>3. Turn(tm, u) <= max
        BY <2>1, <4>1, <4>2
      <4>4. QED BY <4>1, <4>3 DEF Chosen
    <3>2. QED BY <1>2, <2>1, <3>1
  <2>3. Cardinality(Earlier(t)) <= c /\ Cardinality(Earlier(t)) # c
    BY <1>3, <2>2, FS_Subset
  <2> HIDE DEF Earlier, W, C, c
  <2>4. QED BY <1>4, <1>5, <2>1, <2>3
<1> DEFINE f == [t \in C |-> Turn(tm, t)]
<1>9. f \in Injection(C, 1 .. c)
  BY <1>1, <1>7, <1>8 DEF Injection, IsInjective
<1>10. IsFiniteSet(1 .. c) /\ Cardinality(1 .. c) = c
  BY <1>4, FS_Interval
<1>11. f \in Surjection(C, 1 .. c)
  BY <1>9, <1>10, FS_Injection
<1>12. \A k \in 1 .. c : \E t \in C : Turn(tm, t) = k
  BY <1>11 DEF Surjection
<1>13. \A t, u \in C : Turn(tm, t) = Turn(tm, u) => t = u
  BY <1>1, <1>7
<1> HIDE DEF C, c
<1>14. QED BY <1>3, <1>4, <1>8, <1>12, <1>13 DEF InTurn, C, c

\* What a poll of store does: the waiting tasks it returns are the store's from now
\* on, the others stay as they are.
Polled(tm, store, r) ==
    /\ DOMAIN r.state.tasks = DOMAIN tm.tasks
    /\ Returned(r) \subseteq Waiting(tm)
    /\ \A t \in Returned(r) : /\ r.state.tasks[t].state = "RUNNING"
                              /\ r.state.tasks[t].store = store
    /\ \A t \in DOMAIN tm.tasks \ Returned(r) : r.state.tasks[t] = tm.tasks[t]

LEMMA PollFits ==
  ASSUME NEW tm, TasksFit(tm), NEW store \in Store, NEW max \in Nat
  PROVE  LET r == AssignNextWaitingTasks(tm, store, max)
         IN  TaskOpShape(tm, r) /\ Polled(tm, store, r)
<1> DEFINE r == AssignNextWaitingTasks(tm, store, max)
           C == Chosen(tm, max)
           c == Cardinality(C)
           given == [t \in DOMAIN tm.tasks |-> IF t \in C THEN AssignTo(tm.tasks[t], store)
                                                          ELSE tm.tasks[t]]
           k == [tasks |-> given, next |-> tm.next]
           answer == [i \in 1 .. c |-> given[CHOOSE t \in C : Turn(tm, t) = i]]
<1>1. r = [ok |-> TRUE, state |-> [tm EXCEPT !.tasks = given], tasks |-> answer]
  BY DEF AssignNextWaitingTasks, Accepted, Chosen
<1>2. C \subseteq DOMAIN tm.tasks /\ \A t \in C : tm.tasks[t].state = "WAITING"
  BY DEF Chosen, Waiting
<1>3. InTurn(tm, C)
  BY ChosenInTurn
<1>4. store # NoStore
  BY StoreAssumption
<1>5. ASSUME NEW t \in C
      PROVE  /\ given[t] = Task(tm.tasks[t], "RUNNING", store, tm.tasks[t].result)
             /\ TaskFits(given[t], t, tm.next)
             /\ TaskMoves(tm.tasks[t], given[t])
             /\ given[t].id = t
  <2> DEFINE old == tm.tasks[t]
             new == Task(old, "RUNNING", store, old.result)
  <2>1. TaskFits(old, t, tm.next) /\ old.state = "WAITING"
    BY <1>2 DEF TasksFit
  <2>2. given[t] = new
    BY <1>2, <2>1, TaskShape, ChangedTask
  <2> HIDE DEF old, given
  <2>3. TaskFits(new, t, tm.next)
    BY <1>4, <2>1 DEF TaskFits, Task
  <2>4. TaskMoves(old, new) /\ new.id = t
    BY <2>1 DEF TaskFits, Task, TaskMoves, IsTerminal
  <2>5. QED BY <2>2, <2>3, <2>4 DEF old
<1>6. ASSUME NEW t \in DOMAIN tm.tasks \ C
      PROVE  /\ given[t] = tm.tasks[t]
             /\ TaskFits(given[t], t, tm.next) /\ TaskMoves(tm.tasks[t], given[t])
  BY DEF TasksFit, TaskMoves
<1>7. DOMAIN given = DOMAIN tm.tasks /\ given = [t \in DOMAIN given |-> given[t]]
  OBVIOUS
<1>8. {answer[i].id : i \in 1 .. c} = C
  <2>1. ASSUME NEW i \in 1 .. c
        PROVE  /\ (CHOOSE t \in C : Turn(tm, t) = i) \in C
               /\ Turn(tm, CHOOSE t \in C : Turn(tm, t) = i) = i
               /\ answer[i].id = CHOOSE t \in C : Turn(tm, t) = i
    <3>1. \E t \in C : Turn(tm, t) = i
      BY <1>3 DEF InTurn
    <3>2. /\ (CHOOSE t \in C : Turn(tm, t) = i) \in C
          /\ Turn(tm, CHOOSE t \in C : Turn(tm, t) = i) = i
      BY <3>1
    <3>3. answer[i] = given[CHOOSE t \in C : Turn(tm, t) = i]
      OBVIOUS
    <3> HIDE DEF C, given, answer
    <3>4. QED BY <1>5, <3>2, <3>3
  <2>2. ASSUME NEW t \in C
        PROVE  \E i \in 1 .. c : answer[i].id = t
    <3>1. Turn(tm, t) \in 1 .. c
      BY <1>3 DEF InTurn
    <3> HIDE DEF answer, given
    <3>2. \A u \in C : Turn(tm, u) = Turn(tm, t) => u = t
      BY <1>3 DEF InTurn
    <3> HIDE DEF C, c
    <3>3. answer[Turn(tm, t)].id = t
      BY <2>1, <3>1, <3>2
    <3>4. QED BY <3>1, <3>3
  <2> HIDE DEF answer, C, c
  <2>3. QED BY <2>1, <2>2
<1>9. DOMAIN answer = 1 .. c
  OBVIOUS
<1> HIDE DEF C, c, given, answer, r
<1>10. [tm EXCEPT !.tasks = given] = k
  BY DEF TasksFit
<1>11. k.tasks = given /\ k.next = tm.next /\ k = [tasks |-> k.tasks, next |-> k.next]
  OBVIOUS
<1>12. \A t \in DOMAIN tm.tasks : given[t].sequence = tm.tasks[t].sequence
  BY <1>5, <1>6 DEF TaskMoves
<1>13. \A t \in DOMAIN tm.tasks : TaskFits(given[t], t, tm.next)
  BY <1>5, <1>6
<1> HIDE DEF k
<1>14. TasksFit(k)
  BY <1>7, <1>11, <1>12, <1>13 DEF TasksFit
<1>15. \A t \in DOMAIN tm.tasks : TaskMoves(tm.tasks[t], given[t])
  BY <1>5, <1>6
<1>16. /\ r.ok = TRUE /\ r.state = k /\ r.tasks = answer
       /\ r = [ok |-> r.ok, state |-> r.state, tasks |-> r.tasks]
  BY <1>1, <1>10
<1>17. TaskOpShape(tm, r)
  BY <1>7, <1>11, <1>14, <1>15, <1>16 DEF TaskOpShape
<1>18. Returned(r) = C
  BY <1>8, <1>9, <1>16 DEF Returned
<1>19. C \subseteq Waiting(tm)
  BY DEF C, Chosen
<1>20. \A t \in C : given[t].state = "RUNNING" /\ given[t].store = store
  <2> TAKE t \in C
  <2>1. given[t] = Task(tm.tasks[t], "RUNNING", store, tm.tasks[t].result)
    BY <1>5
  <2>2. QED BY <2>1 DEF Task
<1>21. Polled(tm, store, r)
  BY <1>6, <1>7, <1>11, <1>16, <1>18, <1>19, <1>20 DEF Polled
<1>22. QED BY <1>17, <1>21 DEF r

\* An operation other than a poll takes no task: those that wait go on waiting, and
\* new ones wait.
TakesNone(tm, r) ==
    /\ \A t \in DOMAIN tm.tasks : tm.tasks[t].state = "WAITING"
                                     => r.state.tasks[t] = tm.tasks[t]
    /\ \A t \in DOMAIN r.state.tasks \ DOMAIN tm.tasks :
          r.state.tasks[t].state = "WAITING"

LEMMA CreateTaskTakesNone ==
  ASSUME NEW tm, TasksFit(tm), NEW t, NEW content
  PROVE  TakesNone(tm, CreateTask(tm, t, content))
<1> DEFINE r == CreateTask(tm, t, content)
           created == NewTask(t, content, tm.next)
<1>1. CASE t \notin DOMAIN tm.tasks
  <2>1. r.state.tasks = With(tm.tasks, t, created)
    BY <1>1 DEF CreateTask, Accepted
  <2>2. created.state = "WAITING"
    BY DEF NewTask
  <2> HIDE DEF r, created
  <2>3. TakesNone(tm, r)
    BY <1>1, <2>1, <2>2 DEF TakesNone, With
  <2>4. QED BY <2>3 DEF r
<1>2. CASE t \in DOMAIN tm.tasks
  <2>1. r.state = tm
    BY <1>2 DEF CreateTask, Accepted, Rejected
  <2>2. QED BY <2>1 DEF TakesNone
<1>3. QED BY <1>1, <1>2

LEMMA CompleteTaskTakesNone ==
  ASSUME NEW tm, TasksFit(tm), NEW report, IsTerminal(report.final)
  PROVE  TakesNone(tm, CompleteTask(tm, report))
<1> DEFINE r == CompleteTask(tm, report)
           t == report.task
<1>1. CASE r.state = tm
  BY <1>1 DEF TakesNone
<1>2. CASE r.state # tm
  <2>1. /\ t \in DOMAIN tm.tasks /\ tm.tasks[t].state = "RUNNING"
        /\ r.state = [tm EXCEPT !.tasks =
              [tm.tasks EXCEPT ![t] = CompleteWith(tm.tasks[t], report)]]
    BY <1>2 DEF CompleteTask, Accepted, Rejected
  <2>2. r.state.tasks = [tm.tasks EXCEPT ![t] = CompleteWith(tm.tasks[t], report)]
    BY <2>1 DEF TasksFit
  <2> HIDE DEF r
  <2>3. TakesNone(tm, r)
    BY <2>1, <2>2 DEF TakesNone, TasksFit
  <2>4. QED BY <2>3 DEF r
<1>3. QED BY <1>1, <1>2

TaskKinds == {"CREATE_TASK", "POLL_TASKS", "REPORT_TASK_RESULT"}

\* What a command of tasks does to them.
TaskOp(tm, cmd) ==
    CASE cmd.kind = "CREATE_TASK" -> CreateTask(tm, cmd.task, cmd.content)
      [] cmd.kind = "POLL_TASKS" -> AssignNextWaitingTasks(tm, cmd.store, cmd.max)
      [] cmd.kind = "REPORT_TASK_RESULT" ->
            CompleteTask(tm, [task |-> cmd.task, store |-> cmd.store,
                              final |-> cmd.final, result |-> cmd.result])

TaskOpTakes(tm, cmd, r) ==
    IF cmd.kind = "POLL_TASKS" THEN Polled(tm, cmd.store, r) ELSE TakesNone(tm, r)

LEMMA TaskOpFits ==
  ASSUME NEW tm, TasksFit(tm), NEW cmd, ValidCommand(cmd), cmd.kind \in TaskKinds
  PROVE  LET r == TaskOp(tm, cmd) IN TaskOpShape(tm, r) /\ TaskOpTakes(tm, cmd, r)
<1>1. CASE cmd.kind = "CREATE_TASK"
  <2>1. TaskOp(tm, cmd) = CreateTask(tm, cmd.task, cmd.content)
    BY <1>1 DEF TaskOp
  <2>2. QED BY <1>1, <2>1, CreateTaskFits, CreateTaskTakesNone DEF TaskOpTakes
<1>2. CASE cmd.kind = "POLL_TASKS"
  <2>1. TaskOp(tm, cmd) = AssignNextWaitingTasks(tm, cmd.store, cmd.max)
    BY <1>2 DEF TaskOp
  <2>2. cmd.store \in Store /\ cmd.max \in Nat
    BY <1>2 DEF ValidCommand
  <2>3. QED BY <1>2, <2>1, <2>2, PollFits DEF TaskOpTakes
<1>3. CASE cmd.kind = "REPORT_TASK_RESULT"
  <2> DEFINE report == [task |-> cmd.task, store |-> cmd.store,
                        final |-> cmd.final, result |-> cmd.result]
  <2>1. TaskOp(tm, cmd) = CompleteTask(tm, report)
    BY <1>3 DEF TaskOp
  <2>2. IsTerminal(report.final)
    BY <1>3 DEF ValidCommand
  <2>3. QED BY <1>3, <2>1, <2>2, CompleteTaskFits, CompleteTaskTakesNone DEF TaskOpTakes
<1>4. QED BY <1>1, <1>2, <1>3 DEF TaskKinds

----------------------------------------------------------------------------
\* The state machine.

RecordFits(r, last) ==
    /\ r = [payload |-> r.payload, command |-> r.command, index |-> r.index,
            generation |-> r.generation]
    /\ r.generation \in Nat \ {0}
    /\ r.index \in 1 .. last

Machine(m) ==
    /\ m = [records |-> m.records, registry |-> m.registry, tasks |-> m.tasks,
            last |-> m.last]
    /\ m.last \in Nat
    /\ RegistryFits(m.registry) /\ TasksFit(m.tasks)
    /\ m.records = [x \in DOMAIN m.records |-> m.records[x]]
    /\ \A x \in DOMAIN m.records : RecordFits(m.records[x], m.last)

LEMMA EmptyMachineFits == Machine(EmptyMachine)
<1>1. /\ EmptyMachine.last = 0 /\ EmptyMachine.records = <<>>
      /\ EmptyMachine.registry = EmptyRegistry /\ EmptyMachine.tasks = EmptyTasks
      /\ EmptyMachine = [records |-> EmptyMachine.records,
                         registry |-> EmptyMachine.registry,
                         tasks |-> EmptyMachine.tasks, last |-> EmptyMachine.last]
  BY DEF EmptyMachine
<1>2. DOMAIN <<>> = {} /\ <<>> = [x \in {} |-> <<>>[x]]
  OBVIOUS
<1>3. QED BY <1>1, <1>2, EmptyRegistryFits, EmptyTasksFit DEF Machine

\* What command cmd of a store or of tasks does to the stores and tasks of m.
Effect(m, cmd) ==
    LET g == StoreOp(m.registry, cmd)
        t == TaskOp(m.tasks, cmd)
    IN  IF cmd.kind \in StoreKinds
        THEN [ok |-> g.ok, registry |-> g.state, tasks |-> m.tasks,
              answer |-> Answer(g.store, <<>>, FALSE)]
        ELSE [ok |-> t.ok, registry |-> m.registry, tasks |-> t.state,
              answer |-> Answer(NoInfo, t.tasks,
                                cmd.kind = "REPORT_TASK_RESULT" /\ t.ok
                                /\ t.state = m.tasks)]

LEMMA BusinessForm ==
  ASSUME NEW m, Machine(m), NEW cmd, cmd.kind \in StoreKinds \cup TaskKinds
  PROVE  Business(m, cmd) =
           [ok |-> Effect(m, cmd).ok,
            sm |-> [records |-> m.records, registry |-> Effect(m, cmd).registry,
                    tasks |-> Effect(m, cmd).tasks, last |-> m.last],
            answer |-> Effect(m, cmd).answer]
<1> DEFINE g == StoreOp(m.registry, cmd)
           t == TaskOp(m.tasks, cmd)
           dup == cmd.kind = "REPORT_TASK_RESULT" /\ t.ok /\ t.state = m.tasks
<1>1. \A k : [m EXCEPT !.registry = k]
               = [records |-> m.records, registry |-> k, tasks |-> m.tasks, last |-> m.last]
  BY DEF Machine
<1>2. \A k : [m EXCEPT !.tasks = k]
               = [records |-> m.records, registry |-> m.registry, tasks |-> k, last |-> m.last]
  BY DEF Machine
<1>3. CASE cmd.kind \in StoreKinds
  <2>1. Business(m, cmd) = StoreOutcome(m, g)
    <3>1. CASE cmd.kind = "REGISTER_STORE"
      BY <3>1 DEF Business, StoreOp
    <3>2. CASE cmd.kind = "UPDATE_STORE_STATE"
      BY <3>2 DEF Business, StoreOp
    <3>3. CASE cmd.kind = "REMOVE_STORE"
      BY <3>3 DEF Business, StoreOp, Remove
    <3>4. QED BY <1>3, <3>1, <3>2, <3>3 DEF StoreKinds
  <2> HIDE DEF g
  <2>2. Effect(m, cmd) = [ok |-> g.ok, registry |-> g.state, tasks |-> m.tasks,
                          answer |-> Answer(g.store, <<>>, FALSE)]
    BY <1>3 DEF Effect, g
  <2>3. Business(m, cmd) = [ok |-> g.ok, sm |-> [m EXCEPT !.registry = g.state],
                            answer |-> Answer(g.store, <<>>, FALSE)]
    BY <2>1 DEF StoreOutcome
  <2>4. [m EXCEPT !.registry = g.state]
          = [records |-> m.records, registry |-> g.state, tasks |-> m.tasks,
             last |-> m.last]
    BY <1>1
  <2>5. /\ Effect(m, cmd).ok = g.ok /\ Effect(m, cmd).registry = g.state
        /\ Effect(m, cmd).tasks = m.tasks
        /\ Effect(m, cmd).answer = Answer(g.store, <<>>, FALSE)
    BY <2>2
  <2>6. QED BY <2>3, <2>4, <2>5
<1>4. CASE cmd.kind \in TaskKinds
  <2>1. Business(m, cmd) = TaskOutcome(m, t, dup)
    <3>1. CASE cmd.kind = "CREATE_TASK"
      BY <3>1 DEF Business, TaskOp
    <3>2. CASE cmd.kind = "POLL_TASKS"
      BY <3>2 DEF Business, TaskOp
    <3>3. CASE cmd.kind = "REPORT_TASK_RESULT"
      BY <3>3 DEF Business, TaskOp, Report
    <3>4. QED BY <1>4, <3>1, <3>2, <3>3 DEF TaskKinds
  <2>2. cmd.kind \notin StoreKinds
    BY <1>4 DEF StoreKinds, TaskKinds
  <2> HIDE DEF t, dup
  <2>3. Effect(m, cmd) = [ok |-> t.ok, registry |-> m.registry, tasks |-> t.state,
                          answer |-> Answer(NoInfo, t.tasks, dup)]
    BY <2>2 DEF Effect, t, dup
  <2>4. QED BY <1>2, <2>1, <2>3 DEF TaskOutcome
<1>5. QED BY <1>3, <1>4

\* The three ways in which an entry goes through a machine.
Expected(m, cmd) ==
    \/ cmd.expected = 0
    \/ /\ cmd.target \in DOMAIN m.records
       /\ m.records[cmd.target].generation = cmd.expected

Skips(m, i, cmd) ==
    \/ i # m.last + 1
    \/ cmd.kind = "OPAQUE" /\ ~Expected(m, cmd)

Skipped(m, r) == r = [ok |-> FALSE, sm |-> m, answer |-> NoAnswer]

OpaqueApplied(m, i, cmd, r) ==
    r = [ok |-> TRUE, answer |-> NoAnswer,
         sm |-> [records |-> Written(m, i, cmd, cmd.payload), registry |-> m.registry,
                 tasks |-> m.tasks, last |-> i]]

Fits(e) == e.ok /\ Len(e.answer.tasks) <= MaxItems

StoreApplied(m, i, cmd, junk, r) ==
    LET e == Effect(m, cmd)
    IN  r = [ok |-> Fits(e), answer |-> e.answer,
             sm |-> [records |-> IF Fits(e) THEN Written(m, i, cmd, Encoded(e.answer, junk))
                                            ELSE m.records,
                     registry |-> e.registry, tasks |-> e.tasks,
                     last |-> IF Fits(e) THEN i ELSE m.last]]

ApplyOutcome(m, i, cmd, junk, r) ==
    IF Skips(m, i, cmd) THEN Skipped(m, r)
    ELSE IF cmd.kind = "OPAQUE" THEN OpaqueApplied(m, i, cmd, r)
    ELSE StoreApplied(m, i, cmd, junk, r)

LEMMA ApplyForm ==
  ASSUME NEW m, Machine(m), NEW i, NEW cmd, ValidCommand(cmd), NEW junk
  PROVE  ApplyOutcome(m, i, cmd, junk, Apply(m, i, cmd, junk))
<1> DEFINE r == Apply(m, i, cmd, junk)
<1>1. CASE i # m.last + 1
  <2>1. r = [ok |-> FALSE, sm |-> m, answer |-> NoAnswer]
    BY <1>1 DEF Apply
  <2>2. Skips(m, i, cmd)
    BY <1>1 DEF Skips
  <2>3. QED BY <2>1, <2>2 DEF ApplyOutcome, Skipped
<1>2. CASE i = m.last + 1 /\ cmd.kind = "OPAQUE"
  <2> DEFINE a == ApplyOpaqueCommand(m, i, cmd)
             w == Written(m, i, cmd, cmd.payload)
  <2>1. r = IF a.ok THEN [a EXCEPT !.sm.last = i] ELSE a
    BY <1>2 DEF Apply
  <2>2. CASE ~Expected(m, cmd)
    <3>1. Skipped(m, a)
      BY <2>2 DEF ApplyOpaqueCommand, Expected, Skipped
    <3> HIDE DEF a, r
    <3>2. Skipped(m, r)
      BY <2>1, <3>1 DEF Skipped
    <3>3. QED BY <1>2, <2>2, <3>2 DEF ApplyOutcome, Skips, r
  <2>3. CASE Expected(m, cmd)
    <3>1. a = [ok |-> TRUE, answer |-> NoAnswer, sm |-> [m EXCEPT !.records = w]]
      BY <2>3 DEF ApplyOpaqueCommand, Expected
    <3> HIDE DEF w, a, r
    <3>2. a = [ok |-> TRUE, answer |-> NoAnswer,
               sm |-> [records |-> w, registry |-> m.registry, tasks |-> m.tasks,
                       last |-> m.last]]
      BY <3>1 DEF Machine
    <3>3. r = [a EXCEPT !.sm = [a.sm EXCEPT !.last = i]]
      BY <2>1, <3>2
    <3>4. r = [ok |-> TRUE, answer |-> NoAnswer,
               sm |-> [records |-> w, registry |-> m.registry, tasks |-> m.tasks,
                       last |-> i]]
      BY <3>2, <3>3
    <3>5. QED BY <1>2, <2>3, <3>4 DEF ApplyOutcome, Skips, OpaqueApplied, r, w
  <2>4. QED BY <2>2, <2>3
<1>3. CASE i = m.last + 1 /\ cmd.kind # "OPAQUE"
  <2> DEFINE e == Effect(m, cmd)
             b == Business(m, cmd)
             a == ApplyStoreCommand(m, i, cmd, junk)
             w == Written(m, i, cmd, Encoded(e.answer, junk))
  <2>1. cmd.kind \in StoreKinds \cup TaskKinds
    BY <1>3 DEF ValidCommand, StoreKinds, TaskKinds
  <2>2. b = [ok |-> e.ok, answer |-> e.answer,
             sm |-> [records |-> m.records, registry |-> e.registry, tasks |-> e.tasks,
                     last |-> m.last]]
    BY <2>1, BusinessForm
  <2>3. b.answer = e.answer /\ b.ok = e.ok
    BY <2>2
  <2>4. a = IF Fits(e) THEN [b EXCEPT !.sm.records = w] ELSE [b EXCEPT !.ok = FALSE]
    BY <2>3 DEF ApplyStoreCommand, Fits
  <2>5. r = IF a.ok THEN [a EXCEPT !.sm.last = i] ELSE a
    BY <1>3 DEF Apply
  <2> HIDE DEF e, b, a, r, w
  <2>6. CASE Fits(e)
    <3>1. a = [b EXCEPT !.sm = [b.sm EXCEPT !.records = w]]
      BY <2>4, <2>6
    <3>2. a = [ok |-> e.ok, answer |-> e.answer,
               sm |-> [records |-> w, registry |-> e.registry, tasks |-> e.tasks,
                       last |-> m.last]]
      BY <2>2, <3>1
    <3>3. r = [a EXCEPT !.sm = [a.sm EXCEPT !.last = i]]
      BY <2>5, <2>6, <3>2 DEF Fits
    <3>4. r = [ok |-> e.ok, answer |-> e.answer,
               sm |-> [records |-> w, registry |-> e.registry, tasks |-> e.tasks,
                       last |-> i]]
      BY <3>2, <3>3
    <3>5. QED BY <1>3, <2>6, <3>4 DEF ApplyOutcome, Skips, StoreApplied, Fits, e, r, w
  <2>7. CASE ~Fits(e)
    <3>1. a = [b EXCEPT !.ok = FALSE]
      BY <2>4, <2>7
    <3>2. a = [ok |-> FALSE, answer |-> e.answer,
               sm |-> [records |-> m.records, registry |-> e.registry,
                       tasks |-> e.tasks, last |-> m.last]]
      BY <2>2, <3>1
    <3>3. r = a
      BY <2>5, <3>2
    <3>4. QED BY <1>3, <2>7, <3>2, <3>3 DEF ApplyOutcome, Skips, StoreApplied, Fits, e, r
  <2>8. QED BY <2>6, <2>7
<1>4. QED BY <1>1, <1>2, <1>3

\* The record of a command that is written.
NewRecord(m, i, cmd, payload, r) ==
    r = [payload |-> payload, command |-> cmd.id, index |-> i,
         generation |-> IF cmd.target \in DOMAIN m.records
                        THEN m.records[cmd.target].generation + 1 ELSE 1]

WrittenShape(m, i, cmd, payload, w) ==
    /\ w = [x \in DOMAIN w |-> w[x]]
    /\ DOMAIN w = DOMAIN m.records \cup {cmd.target}
    /\ NewRecord(m, i, cmd, payload, w[cmd.target])
    /\ \A x \in DOMAIN m.records \ {cmd.target} : w[x] = m.records[x]

LEMMA WrittenForm ==
  ASSUME NEW m, NEW i, NEW cmd, NEW payload
  PROVE  WrittenShape(m, i, cmd, payload, Written(m, i, cmd, payload))
<1> DEFINE w == Written(m, i, cmd, payload)
           r == [payload |-> payload, command |-> cmd.id, index |-> i,
                 generation |-> IF cmd.target \in DOMAIN m.records
                                THEN m.records[cmd.target].generation + 1 ELSE 1]
<1>1. w = With(m.records, cmd.target, r)
  BY DEF Written
<1> HIDE DEF w, r
<1>2. /\ w = [x \in DOMAIN w |-> w[x]]
      /\ DOMAIN w = DOMAIN m.records \cup {cmd.target}
      /\ w[cmd.target] = r
      /\ \A x \in DOMAIN m.records \ {cmd.target} : w[x] = m.records[x]
  BY <1>1 DEF With
<1>3. NewRecord(m, i, cmd, payload, r)
  BY DEF NewRecord, r
<1>4. QED BY <1>2, <1>3 DEF WrittenShape, w

LEMMA WrittenFits ==
  ASSUME NEW m, Machine(m), NEW cmd, NEW payload,
         NEW w, WrittenShape(m, m.last + 1, cmd, payload, w)
  PROVE  \A x \in DOMAIN w : RecordFits(w[x], m.last + 1)
<1> DEFINE t == cmd.target
<1>1. m.last \in Nat
  BY DEF Machine
<1>2. ASSUME NEW x \in DOMAIN m.records
      PROVE  RecordFits(m.records[x], m.last) /\ RecordFits(m.records[x], m.last + 1)
  <2>1. RecordFits(m.records[x], m.last)
    BY DEF Machine
  <2>2. 1 .. m.last \subseteq 1 .. m.last + 1
    BY <1>1
  <2>3. QED BY <2>1, <2>2 DEF RecordFits
<1>3. RecordFits(w[t], m.last + 1)
  <2>1. NewRecord(m, m.last + 1, cmd, payload, w[t])
    BY DEF WrittenShape
  <2>2. t \in DOMAIN m.records => m.records[t].generation \in Nat
    BY <1>2 DEF RecordFits
  <2>3. w[t].generation \in Nat \ {0} /\ w[t].index \in 1 .. m.last + 1
    BY <1>1, <2>1, <2>2 DEF NewRecord
  <2>4. w[t] = [payload |-> w[t].payload, command |-> w[t].command, index |-> w[t].index,
                generation |-> w[t].generation]
    BY <2>1 DEF NewRecord
  <2>5. QED BY <2>3, <2>4 DEF RecordFits
<1>4. QED BY <1>2, <1>3 DEF WrittenShape

\* What an entry with index i may do to a machine.
ApplyShape(m, i, r) ==
    /\ r = [ok |-> r.ok, sm |-> r.sm, answer |-> r.answer]
    /\ r.ok \in BOOLEAN
    /\ Machine(r.sm)
    /\ r.ok => i = m.last + 1 /\ r.sm.last = i
    /\ ~r.ok => r.sm.last = m.last /\ r.sm.records = m.records
    /\ DOMAIN m.tasks.tasks \subseteq DOMAIN r.sm.tasks.tasks
    /\ \A t \in DOMAIN m.tasks.tasks : TaskMoves(m.tasks.tasks[t], r.sm.tasks.tasks[t])

LEMMA ApplyFits ==
  ASSUME NEW m, Machine(m), NEW i, NEW cmd, ValidCommand(cmd), NEW junk
  PROVE  ApplyShape(m, i, Apply(m, i, cmd, junk))
<1> DEFINE r == Apply(m, i, cmd, junk)
<1>1. ApplyOutcome(m, i, cmd, junk, r)
  BY ApplyForm
<1> HIDE DEF r
<1>2. m.last \in Nat /\ m.last + 1 \in Nat
  BY DEF Machine
<1>3. CASE Skips(m, i, cmd)
  <2>1. r = [ok |-> FALSE, sm |-> m, answer |-> NoAnswer]
    BY <1>1, <1>3 DEF ApplyOutcome, Skipped
  <2>2. QED BY <2>1 DEF ApplyShape, TaskMoves, r
<1>4. CASE ~Skips(m, i, cmd) /\ cmd.kind = "OPAQUE"
  <2> DEFINE w == Written(m, i, cmd, cmd.payload)
             k == [records |-> w, registry |-> m.registry, tasks |-> m.tasks, last |-> i]
  <2>1. i = m.last + 1
    BY <1>4 DEF Skips
  <2>2. r = [ok |-> TRUE, answer |-> NoAnswer, sm |-> k]
    BY <1>1, <1>4 DEF ApplyOutcome, OpaqueApplied
  <2>3. WrittenShape(m, i, cmd, cmd.payload, w)
    BY WrittenForm
  <2> HIDE DEF w
  <2>4. \A x \in DOMAIN w : RecordFits(w[x], i)
    BY <2>1, <2>3, WrittenFits
  <2>5. /\ k.records = w /\ k.registry = m.registry /\ k.tasks = m.tasks /\ k.last = i
        /\ k = [records |-> k.records, registry |-> k.registry, tasks |-> k.tasks,
                last |-> k.last]
    OBVIOUS
  <2> HIDE DEF k
  <2>6. Machine(k)
    BY <1>2, <2>1, <2>3, <2>4, <2>5 DEF Machine, WrittenShape
  <2>7. /\ r.ok = TRUE /\ r.sm = k
        /\ r = [ok |-> r.ok, sm |-> r.sm, answer |-> r.answer]
    BY <2>2
  <2>8. \A t \in DOMAIN m.tasks.tasks : TaskMoves(m.tasks.tasks[t], k.tasks.tasks[t])
    BY <2>5 DEF TaskMoves
  <2>9. ApplyShape(m, i, r)
    BY <2>1, <2>5, <2>6, <2>7, <2>8 DEF ApplyShape
  <2>10. QED BY <2>9 DEF r
<1>5. CASE ~Skips(m, i, cmd) /\ cmd.kind # "OPAQUE"
  <2> DEFINE e == Effect(m, cmd)
             w == Written(m, i, cmd, Encoded(e.answer, junk))
             k == [records |-> IF Fits(e) THEN w ELSE m.records,
                   registry |-> e.registry, tasks |-> e.tasks,
                   last |-> IF Fits(e) THEN i ELSE m.last]
  <2>1. i = m.last + 1
    BY <1>5 DEF Skips
  <2>2. r = [ok |-> Fits(e), answer |-> e.answer, sm |-> k]
    BY <1>1, <1>5 DEF ApplyOutcome, StoreApplied
  <2>3. WrittenShape(m, i, cmd, Encoded(e.answer, junk), w)
    BY WrittenForm
  <2>4. /\ RegistryFits(e.registry) /\ TasksFit(e.tasks) /\ e.ok \in BOOLEAN
        /\ DOMAIN m.tasks.tasks \subseteq DOMAIN e.tasks.tasks
        /\ \A t \in DOMAIN m.tasks.tasks :
              TaskMoves(m.tasks.tasks[t], e.tasks.tasks[t])
    <3>1. RegistryFits(m.registry) /\ TasksFit(m.tasks)
      BY DEF Machine
    <3>2. CASE cmd.kind \in StoreKinds
      <4> DEFINE g == StoreOp(m.registry, cmd)
      <4>1. StoreOpShape(m.registry, g)
        BY <3>1, <3>2, StoreOpFits
      <4> HIDE DEF g
      <4>2. e = [ok |-> g.ok, registry |-> g.state, tasks |-> m.tasks,
                 answer |-> Answer(g.store, <<>>, FALSE)]
        BY <3>2 DEF Effect, g
      <4>3. QED BY <3>1, <4>1, <4>2 DEF StoreOpShape, TaskMoves
    <3>3. CASE cmd.kind \notin StoreKinds
      <4> DEFINE t == TaskOp(m.tasks, cmd)
      <4>1. cmd.kind \in TaskKinds
        BY <1>5, <3>3 DEF ValidCommand, StoreKinds, TaskKinds
      <4>2. TaskOpShape(m.tasks, t)
        BY <3>1, <4>1, TaskOpFits
      <4> HIDE DEF t
      <4>3. e.ok = t.ok /\ e.registry = m.registry /\ e.tasks = t.state
        BY <3>3 DEF Effect, t
      <4>4. QED BY <3>1, <4>2, <4>3 DEF TaskOpShape
    <3>4. QED BY <3>2, <3>3
  <2>5. \A x \in DOMAIN w : RecordFits(w[x], i)
    <3> HIDE DEF w
    <3>1. QED BY <2>1, <2>3, WrittenFits
  <2> HIDE DEF w, e
  <2>6. /\ k.registry = e.registry /\ k.tasks = e.tasks
        /\ k.records = IF Fits(e) THEN w ELSE m.records
        /\ k.last = IF Fits(e) THEN i ELSE m.last
        /\ k = [records |-> k.records, registry |-> k.registry, tasks |-> k.tasks,
                last |-> k.last]
    OBVIOUS
  <2> HIDE DEF k
  <2>7. Machine(k)
    BY <1>2, <2>1, <2>3, <2>4, <2>5, <2>6 DEF Machine, WrittenShape
  <2>8. Fits(e) \in BOOLEAN
    BY <2>4 DEF Fits
  <2>9. QED BY <2>1, <2>2, <2>4, <2>6, <2>7, <2>8 DEF ApplyShape, r
<1>6. QED BY <1>3, <1>4, <1>5

----------------------------------------------------------------------------
\* Two replicas to which the same entries were passed.

SamePayload(p, q) ==
    \/ p = q
    \/ \E i, j \in Junk : \E tasks, duplicate :
          p = Answer(i, tasks, duplicate) /\ q = Answer(j, tasks, duplicate)

SameRecord(r, q) ==
    /\ r.command = q.command /\ r.index = q.index /\ r.generation = q.generation
    /\ SamePayload(r.payload, q.payload)

Same(a, b) ==
    /\ a.last = b.last /\ a.tasks = b.tasks
    /\ SameRegistry(a.registry, b.registry)
    /\ DOMAIN a.records = DOMAIN b.records
    /\ \A x \in DOMAIN a.records : SameRecord(a.records[x], b.records[x])

IsAnswer(p) == p = Answer(p.store, p.tasks, p.duplicate)

SameAnswer(p, q) ==
    /\ IsAnswer(p) /\ IsAnswer(q)
    /\ p.tasks = q.tasks /\ p.duplicate = q.duplicate
    /\ SameInfo(p.store, q.store)

LEMMA SameItself ==
  ASSUME NEW m, Machine(m)
  PROVE  Same(m, m)
BY DEF Same, SameRecord, SamePayload, SameRegistry, SameStore

\* A store as a snapshot and an answer have it.
Persistent(i) ==
    [id |-> i.id, address |-> i.address, state |-> i.state,
     generation |-> i.generation, heartbeat |-> 0]

LEMMA PersistentForm ==
  ASSUME NEW i \in StoreInfo
  PROVE  FromPersistent(i) = Persistent(i)
<1> DEFINE k == FromPersistent(i)
<1>1. k = [i EXCEPT !.heartbeat = 0]
  BY DEF FromPersistent
<1>2. i = [id |-> i.id, address |-> i.address, state |-> i.state,
           generation |-> i.generation, heartbeat |-> i.heartbeat]
  BY StoreShape
<1> HIDE DEF k
<1>3. k = Persistent(i)
  BY <1>1, <1>2 DEF Persistent
<1>4. QED BY <1>3 DEF k

LEMMA SamePersistent ==
  ASSUME NEW i \in StoreInfo, NEW j \in StoreInfo, SameStore(i, j)
  PROVE  FromPersistent(i) = FromPersistent(j)
<1>1. Persistent(i) = Persistent(j)
  BY DEF SameStore, Persistent
<1>2. QED BY <1>1, PersistentForm

LEMMA EncodedForm ==
  ASSUME NEW p, IsAnswer(p), NEW junk
  PROVE  Encoded(p, junk) =
           Answer(IF p.store = NoInfo THEN junk ELSE FromPersistent(p.store),
                  p.tasks, p.duplicate)
<1> DEFINE s == IF p.store = NoInfo THEN junk ELSE FromPersistent(p.store)
           k == Encoded(p, junk)
<1>1. k = [p EXCEPT !.store = s]
  BY DEF Encoded
<1> HIDE DEF s, k
<1>2. p = [store |-> p.store, tasks |-> p.tasks, duplicate |-> p.duplicate]
  BY DEF IsAnswer, Answer
<1>3. k = [store |-> s, tasks |-> p.tasks, duplicate |-> p.duplicate]
  BY <1>1, <1>2
<1>4. QED BY <1>3 DEF Answer, s, k

LEMMA EncodedSame ==
  ASSUME NEW p, NEW q, SameAnswer(p, q), NEW i \in Junk, NEW j \in Junk
  PROVE  SamePayload(Encoded(p, i), Encoded(q, j))
<1>1. CASE p.store = NoInfo /\ q.store = NoInfo
  <2>1. Encoded(p, i) = Answer(i, p.tasks, p.duplicate)
    BY <1>1, EncodedForm DEF SameAnswer
  <2>2. Encoded(q, j) = Answer(j, p.tasks, p.duplicate)
    BY <1>1, EncodedForm DEF SameAnswer
  <2>3. QED BY <2>1, <2>2 DEF SamePayload
<1>2. CASE p.store \in StoreInfo /\ q.store \in StoreInfo /\ SameStore(p.store, q.store)
  <2>1. p.store # NoInfo /\ q.store # NoInfo
    BY <1>2, ReplicaAssumption
  <2>2. Encoded(p, i) = Answer(FromPersistent(p.store), p.tasks, p.duplicate)
    BY <2>1, EncodedForm DEF SameAnswer
  <2>3. Encoded(q, j) = Answer(FromPersistent(q.store), p.tasks, p.duplicate)
    BY <2>1, EncodedForm DEF SameAnswer
  <2>4. QED BY <1>2, <2>2, <2>3, SamePersistent DEF SamePayload
<1>3. QED BY <1>1, <1>2 DEF SameAnswer, SameInfo

LEMMA WrittenSame ==
  ASSUME NEW a, NEW b, Same(a, b), NEW i, NEW cmd, NEW p, NEW q, SamePayload(p, q),
         NEW w, WrittenShape(a, i, cmd, p, w), NEW v, WrittenShape(b, i, cmd, q, v)
  PROVE  DOMAIN w = DOMAIN v /\ \A x \in DOMAIN w : SameRecord(w[x], v[x])
<1> DEFINE t == cmd.target
<1>1. DOMAIN a.records = DOMAIN b.records
  BY DEF Same
<1>2. DOMAIN w = DOMAIN v
  BY <1>1 DEF WrittenShape
<1>3. SameRecord(w[t], v[t])
  <2>1. t \in DOMAIN a.records => a.records[t].generation = b.records[t].generation
    BY DEF Same, SameRecord
  <2>2. NewRecord(a, i, cmd, p, w[t]) /\ NewRecord(b, i, cmd, q, v[t])
    BY DEF WrittenShape
  <2>3. w[t].generation = v[t].generation
    BY <1>1, <2>1, <2>2 DEF NewRecord
  <2>4. /\ w[t].command = v[t].command /\ w[t].index = v[t].index
        /\ w[t].payload = p /\ v[t].payload = q
    BY <2>2 DEF NewRecord
  <2>5. QED BY <2>3, <2>4 DEF SameRecord
<1>4. ASSUME NEW x \in DOMAIN a.records \ {t}
      PROVE  SameRecord(w[x], v[x])
  BY <1>1 DEF WrittenShape, Same
<1>5. QED BY <1>2, <1>3, <1>4 DEF WrittenShape

LEMMA EffectSame ==
  ASSUME NEW a, Machine(a), NEW b, Machine(b), Same(a, b),
         NEW cmd, ValidCommand(cmd), cmd.kind # "OPAQUE"
  PROVE  LET e == Effect(a, cmd)
             f == Effect(b, cmd)
         IN  /\ e.ok = f.ok /\ e.tasks = f.tasks
             /\ SameRegistry(e.registry, f.registry)
             /\ SameAnswer(e.answer, f.answer)
<1> DEFINE e == Effect(a, cmd)
           f == Effect(b, cmd)
<1>1. CASE cmd.kind \in StoreKinds
  <2> DEFINE g == StoreOp(a.registry, cmd)
             k == StoreOp(b.registry, cmd)
  <2>1. g.ok = k.ok /\ SameRegistry(g.state, k.state) /\ SameInfo(g.store, k.store)
    BY <1>1, StoreOpSame DEF Machine, Same
  <2>2. /\ e.ok = g.ok /\ e.registry = g.state /\ e.tasks = a.tasks
        /\ e.answer = Answer(g.store, <<>>, FALSE)
    BY <1>1 DEF Effect
  <2>3. /\ f.ok = k.ok /\ f.registry = k.state /\ f.tasks = b.tasks
        /\ f.answer = Answer(k.store, <<>>, FALSE)
    BY <1>1 DEF Effect
  <2> HIDE DEF e, f, g, k
  <2>4. SameAnswer(e.answer, f.answer)
    BY <2>1, <2>2, <2>3 DEF SameAnswer, IsAnswer, Answer
  <2>5. QED BY <2>1, <2>2, <2>3, <2>4 DEF Same, e, f
<1>2. CASE cmd.kind \notin StoreKinds
  <2> DEFINE t == TaskOp(a.tasks, cmd)
             dup == cmd.kind = "REPORT_TASK_RESULT" /\ t.ok /\ t.state = a.tasks
  <2>1. a.tasks = b.tasks /\ SameRegistry(a.registry, b.registry)
    BY DEF Same
  <2>2. /\ e.ok = t.ok /\ e.registry = a.registry /\ e.tasks = t.state
        /\ e.answer = Answer(NoInfo, t.tasks, dup)
    BY <1>2 DEF Effect
  <2>3. /\ f.ok = t.ok /\ f.registry = b.registry /\ f.tasks = t.state
        /\ f.answer = Answer(NoInfo, t.tasks, dup)
    BY <1>2, <2>1 DEF Effect
  <2> HIDE DEF e, f, t, dup
  <2>4. SameAnswer(e.answer, f.answer)
    BY <2>2, <2>3 DEF SameAnswer, IsAnswer, Answer, SameInfo
  <2>5. QED BY <2>1, <2>2, <2>3, <2>4 DEF e, f
<1>3. QED BY <1>1, <1>2

SameOutcome(r, q) ==
    /\ r.ok = q.ok
    /\ Same(r.sm, q.sm)
    /\ SameAnswer(r.answer, q.answer)

\* An entry does the same to machines that are the same, and is answered alike.
LEMMA ApplySame ==
  ASSUME NEW a, Machine(a), NEW b, Machine(b), Same(a, b), NEW n,
         NEW cmd, ValidCommand(cmd), NEW i \in Junk, NEW j \in Junk
  PROVE  SameOutcome(Apply(a, n, cmd, i), Apply(b, n, cmd, j))
<1> DEFINE r == Apply(a, n, cmd, i)
           q == Apply(b, n, cmd, j)
<1>1. ApplyOutcome(a, n, cmd, i, r) /\ ApplyOutcome(b, n, cmd, j, q)
  BY ApplyForm
<1> HIDE DEF r, q
<1>2. Skips(a, n, cmd) <=> Skips(b, n, cmd)
  <2>1. a.last = b.last /\ DOMAIN a.records = DOMAIN b.records
    BY DEF Same
  <2>2. \A x \in DOMAIN a.records : a.records[x].generation = b.records[x].generation
    BY DEF Same, SameRecord
  <2>3. Expected(a, cmd) <=> Expected(b, cmd)
    BY <2>1, <2>2 DEF Expected
  <2>4. QED BY <2>1, <2>3 DEF Skips
<1>3. SameAnswer(NoAnswer, NoAnswer)
  BY DEF SameAnswer, IsAnswer, NoAnswer, Answer, SameInfo
<1>4. CASE Skips(a, n, cmd)
  <2>1. r.ok = FALSE /\ r.sm = a /\ r.answer = NoAnswer
    BY <1>1, <1>4 DEF ApplyOutcome, Skipped
  <2>2. q.ok = FALSE /\ q.sm = b /\ q.answer = NoAnswer
    BY <1>1, <1>2, <1>4 DEF ApplyOutcome, Skipped
  <2>3. QED BY <1>3, <2>1, <2>2 DEF SameOutcome, r, q
<1>5. CASE ~Skips(a, n, cmd) /\ cmd.kind = "OPAQUE"
  <2> DEFINE w == Written(a, n, cmd, cmd.payload)
             v == Written(b, n, cmd, cmd.payload)
  <2>1. /\ r.ok = TRUE /\ r.answer = NoAnswer
        /\ r.sm = [records |-> w, registry |-> a.registry, tasks |-> a.tasks, last |-> n]
    BY <1>1, <1>5 DEF ApplyOutcome, OpaqueApplied
  <2>2. /\ q.ok = TRUE /\ q.answer = NoAnswer
        /\ q.sm = [records |-> v, registry |-> b.registry, tasks |-> b.tasks, last |-> n]
    BY <1>1, <1>2, <1>5 DEF ApplyOutcome, OpaqueApplied
  <2>3. /\ WrittenShape(a, n, cmd, cmd.payload, w)
        /\ WrittenShape(b, n, cmd, cmd.payload, v)
    BY WrittenForm
  <2> HIDE DEF w, v
  <2>4. DOMAIN w = DOMAIN v /\ \A x \in DOMAIN w : SameRecord(w[x], v[x])
    <3>1. SamePayload(cmd.payload, cmd.payload)
      BY DEF SamePayload
    <3>2. QED BY <2>3, <3>1, WrittenSame
  <2>5. Same(r.sm, q.sm)
    BY <2>1, <2>2, <2>4 DEF Same
  <2>6. QED BY <1>3, <2>1, <2>2, <2>5 DEF SameOutcome, r, q
<1>6. CASE ~Skips(a, n, cmd) /\ cmd.kind # "OPAQUE"
  <2> DEFINE e == Effect(a, cmd)
             f == Effect(b, cmd)
             w == Written(a, n, cmd, Encoded(e.answer, i))
             v == Written(b, n, cmd, Encoded(f.answer, j))
  <2>1. /\ r.ok = Fits(e) /\ r.answer = e.answer
        /\ r.sm = [records |-> IF Fits(e) THEN w ELSE a.records,
                   registry |-> e.registry, tasks |-> e.tasks,
                   last |-> IF Fits(e) THEN n ELSE a.last]
    BY <1>1, <1>6 DEF ApplyOutcome, StoreApplied
  <2>2. /\ q.ok = Fits(f) /\ q.answer = f.answer
        /\ q.sm = [records |-> IF Fits(f) THEN v ELSE b.records,
                   registry |-> f.registry, tasks |-> f.tasks,
                   last |-> IF Fits(f) THEN n ELSE b.last]
    BY <1>1, <1>2, <1>6 DEF ApplyOutcome, StoreApplied
  <2>3. /\ e.ok = f.ok /\ e.tasks = f.tasks /\ SameRegistry(e.registry, f.registry)
        /\ SameAnswer(e.answer, f.answer)
    BY <1>6, EffectSame
  <2>4. /\ WrittenShape(a, n, cmd, Encoded(e.answer, i), w)
        /\ WrittenShape(b, n, cmd, Encoded(f.answer, j), v)
    BY WrittenForm
  <2> HIDE DEF w, v, e, f
  <2>5. DOMAIN w = DOMAIN v /\ \A x \in DOMAIN w : SameRecord(w[x], v[x])
    <3>1. SamePayload(Encoded(e.answer, i), Encoded(f.answer, j))
      BY <2>3, EncodedSame
    <3>2. QED BY <2>4, <3>1, WrittenSame
  <2>6. Fits(e) = Fits(f)
    BY <2>3 DEF Fits, SameAnswer
  <2>7. Same(r.sm, q.sm)
    BY <2>1, <2>2, <2>3, <2>5, <2>6 DEF Same
  <2>8. QED BY <2>1, <2>2, <2>3, <2>6, <2>7 DEF SameOutcome, r, q
<1>7. QED BY <1>4, <1>5, <1>6

----------------------------------------------------------------------------
\* What the first i entries of log L, answered by O, have done to machine m.

Refusals(m, i, O) ==
    /\ m.last \in 0 .. i
    /\ \A k \in 1 .. i : O[k].ok <=> k <= m.last

Takes(L, O, k, t) ==
    /\ L[k].cmd.kind = "POLL_TASKS"
    /\ \E x \in DOMAIN O[k].answer.tasks : O[k].answer.tasks[x].id = t

PollsTo(i, t, L, O) == {k \in 1 .. i : Takes(L, O, k, t)}

TakenOnce(m, i, L, O) ==
    \A t : IF t \notin DOMAIN m.tasks.tasks \/ m.tasks.tasks[t].state = "WAITING"
           THEN PollsTo(i, t, L, O) = {}
           ELSE \E k : /\ PollsTo(i, t, L, O) = {k}
                       /\ L[k].cmd.store = m.tasks.tasks[t].store

\* What applying entry k has left in the record of its target.
Said(L, O, k) == IF L[k].cmd.kind = "OPAQUE" THEN L[k].cmd.payload ELSE O[k].answer

\* A record is the last one written to its target, and holds what that command
\* has left there.
RecordTrue(m, x, L, O) ==
    LET k == m.records[x].index
    IN  /\ k \in 1 .. m.last
        /\ L[k].cmd.target = x
        /\ \A j \in 1 .. m.last : L[j].cmd.target = x => j <= k
        /\ m.records[x].payload.tasks = Said(L, O, k).tasks
        /\ m.records[x].payload.duplicate = Said(L, O, k).duplicate

RecordsTrue(m, L, O) ==
    /\ \A x \in DOMAIN m.records : RecordTrue(m, x, L, O)
    /\ \A j \in 1 .. m.last : L[j].cmd.target \in DOMAIN m.records

Upto(m, i, L, O) ==
    /\ Machine(m)
    /\ Refusals(m, i, O) /\ TakenOnce(m, i, L, O) /\ RecordsTrue(m, L, O)

Agree(i, K, P, L, O) == \A k \in 1 .. i : K[k] = L[k] /\ P[k] = O[k]

LEMMA UptoStays ==
  ASSUME NEW m, NEW i \in Nat, NEW K, NEW P, NEW L, NEW O,
         Upto(m, i, K, P), Agree(i, K, P, L, O)
  PROVE  Upto(m, i, L, O)
<1>1. m.last \in 0 .. i
  BY DEF Upto, Refusals
<1>2. \A k \in 1 .. m.last : k \in 1 .. i
  BY <1>1
<1>3. Refusals(m, i, O)
  BY DEF Upto, Refusals, Agree
<1>4. \A t : PollsTo(i, t, K, P) = PollsTo(i, t, L, O)
  BY DEF PollsTo, Takes, Agree
<1>5. TakenOnce(m, i, L, O)
  <2> SUFFICES ASSUME NEW t,
                      ~(t \notin DOMAIN m.tasks.tasks \/ m.tasks.tasks[t].state = "WAITING")
               PROVE  \E k : /\ PollsTo(i, t, L, O) = {k}
                             /\ L[k].cmd.store = m.tasks.tasks[t].store
    BY <1>4 DEF Upto, TakenOnce
  <2>1. PICK k : /\ PollsTo(i, t, K, P) = {k}
                 /\ K[k].cmd.store = m.tasks.tasks[t].store
    BY DEF Upto, TakenOnce
  <2>2. k \in 1 .. i
    BY <2>1 DEF PollsTo
  <2>3. QED BY <1>4, <2>1, <2>2 DEF Agree
<1>6. RecordsTrue(m, L, O)
  <2>1. ASSUME NEW x \in DOMAIN m.records PROVE RecordTrue(m, x, L, O)
    <3>1. RecordTrue(m, x, K, P)
      BY DEF Upto, RecordsTrue
    <3>2. m.records[x].index \in 1 .. i
      BY <1>2, <3>1 DEF RecordTrue
    <3>3. Said(K, P, m.records[x].index) = Said(L, O, m.records[x].index)
      BY <3>2 DEF Said, Agree
    <3>4. QED BY <1>2, <3>1, <3>3 DEF RecordTrue, Agree
  <2>2. \A j \in 1 .. m.last : L[j].cmd.target \in DOMAIN m.records
    BY <1>2 DEF Upto, RecordsTrue, Agree
  <2>3. QED BY <2>1, <2>2 DEF RecordsTrue
<1>7. QED BY <1>3, <1>5, <1>6 DEF Upto

LEMMA UptoNone ==
  ASSUME NEW L, NEW O
  PROVE  Upto(EmptyMachine, 0, L, O)
<1>1. /\ EmptyMachine.last = 0 /\ DOMAIN EmptyMachine.records = {}
      /\ DOMAIN EmptyMachine.tasks.tasks = {}
  BY DEF EmptyMachine, EmptyTasks
<1>2. \A t : PollsTo(0, t, L, O) = {}
  BY DEF PollsTo
<1>3. Refusals(EmptyMachine, 0, O)
  BY <1>1 DEF Refusals
<1>4. TakenOnce(EmptyMachine, 0, L, O)
  BY <1>1, <1>2 DEF TakenOnce
<1>5. RecordsTrue(EmptyMachine, L, O)
  BY <1>1 DEF RecordsTrue
<1>6. QED BY <1>3, <1>4, <1>5, EmptyMachineFits DEF Upto

\* Outcome o is what r says.
Answers(o, r) == o.ok = r.ok /\ SameAnswer(o.answer, r.answer)

LEMMA RefusalsNext ==
  ASSUME NEW m, NEW i \in Nat \ {0}, NEW O, Refusals(m, i - 1, O),
         NEW r, ApplyShape(m, i, r), O[i].ok = r.ok
  PROVE  Refusals(r.sm, i, O)
<1>1. m.last \in 0 .. i - 1
  BY DEF Refusals
<1>2. CASE r.ok
  <2>1. m.last = i - 1 /\ r.sm.last = i
    BY <1>1, <1>2 DEF ApplyShape
  <2>2. \A k \in 1 .. i : k = i \/ k \in 1 .. i - 1
    OBVIOUS
  <2>3. \A k \in 1 .. i - 1 : O[k].ok
    BY <2>1 DEF Refusals
  <2>4. O[i].ok
    BY <1>2
  <2>5. \A k \in 1 .. i : O[k].ok
    BY <2>2, <2>3, <2>4
  <2>6. QED BY <2>1, <2>5 DEF Refusals
<1>3. CASE ~r.ok
  <2>1. r.sm.last = m.last
    BY <1>3 DEF ApplyShape
  <2>2. \A k \in 1 .. i : k = i \/ k \in 1 .. i - 1
    OBVIOUS
  <2>3. \A k \in 1 .. i - 1 : O[k].ok <=> k <= r.sm.last
    BY <2>1 DEF Refusals
  <2>4. ~(i <= r.sm.last)
    BY <1>1, <2>1
  <2>5. QED BY <1>1, <1>3, <2>1, <2>2, <2>3, <2>4 DEF Refusals
<1>4. QED BY <1>2, <1>3

LEMMA PollsNext ==
  ASSUME NEW i \in Nat \ {0}, NEW L, NEW O, NEW t
  PROVE  PollsTo(i, t, L, O) = IF Takes(L, O, i, t)
                               THEN PollsTo(i - 1, t, L, O) \cup {i}
                               ELSE PollsTo(i - 1, t, L, O)
<1>1. 1 .. i = (1 .. i - 1) \cup {i}
  OBVIOUS
<1>2. QED BY <1>1 DEF PollsTo

LEMMA TakenByNone ==
  ASSUME NEW m, NEW k, NEW i \in Nat \ {0}, NEW L, NEW O, TakenOnce(m, i - 1, L, O),
         DOMAIN m.tasks.tasks \subseteq DOMAIN k.tasks.tasks,
         \A t \in DOMAIN m.tasks.tasks :
            TaskMoves(m.tasks.tasks[t], k.tasks.tasks[t]),
         TakesNone(m.tasks, [state |-> k.tasks]),
         \A t : ~Takes(L, O, i, t)
  PROVE  TakenOnce(k, i, L, O)
<1> DEFINE old(t) == m.tasks.tasks[t]
           new(t) == k.tasks.tasks[t]
<1> SUFFICES ASSUME NEW t
             PROVE  IF t \notin DOMAIN k.tasks.tasks \/ new(t).state = "WAITING"
                    THEN PollsTo(i, t, L, O) = {}
                    ELSE \E j : PollsTo(i, t, L, O) = {j} /\ L[j].cmd.store = new(t).store
  BY DEF TakenOnce
<1>1. PollsTo(i, t, L, O) = PollsTo(i - 1, t, L, O)
  BY PollsNext
<1>2. CASE t \notin DOMAIN m.tasks.tasks
  <2>1. PollsTo(i, t, L, O) = {}
    BY <1>1, <1>2 DEF TakenOnce
  <2>2. t \in DOMAIN k.tasks.tasks => new(t).state = "WAITING"
    BY <1>2 DEF TakesNone
  <2>3. QED BY <2>1, <2>2
<1>3. CASE t \in DOMAIN m.tasks.tasks /\ old(t).state = "WAITING"
  <2>1. PollsTo(i, t, L, O) = {}
    BY <1>1, <1>3 DEF TakenOnce
  <2>2. new(t).state = "WAITING"
    BY <1>3 DEF TakesNone
  <2>3. QED BY <2>1, <2>2
<1>4. CASE t \in DOMAIN m.tasks.tasks /\ old(t).state # "WAITING"
  <2>1. t \in DOMAIN k.tasks.tasks /\ new(t).state # "WAITING" /\ new(t).store = old(t).store
    BY <1>4 DEF TaskMoves
  <2>2. \E j : PollsTo(i, t, L, O) = {j} /\ L[j].cmd.store = old(t).store
    BY <1>1, <1>4 DEF TakenOnce
  <2>3. QED BY <2>1, <2>2
<1>5. QED BY <1>2, <1>3, <1>4

LEMMA TakenByPoll ==
  ASSUME NEW m, NEW k, NEW i \in Nat \ {0}, NEW L, NEW O, TakenOnce(m, i - 1, L, O),
         NEW r, Polled(m.tasks, L[i].cmd.store, r), r.state = k.tasks,
         \A t : Takes(L, O, i, t) <=> t \in Returned(r)
  PROVE  TakenOnce(k, i, L, O)
<1> DEFINE old(t) == m.tasks.tasks[t]
           new(t) == k.tasks.tasks[t]
<1> SUFFICES ASSUME NEW t
             PROVE  IF t \notin DOMAIN k.tasks.tasks \/ new(t).state = "WAITING"
                    THEN PollsTo(i, t, L, O) = {}
                    ELSE \E j : PollsTo(i, t, L, O) = {j} /\ L[j].cmd.store = new(t).store
  BY DEF TakenOnce
<1>1. DOMAIN k.tasks.tasks = DOMAIN m.tasks.tasks
  BY DEF Polled
<1>2. CASE t \in Returned(r)
  <2>1. t \in DOMAIN m.tasks.tasks /\ old(t).state = "WAITING"
    BY <1>2 DEF Polled, Waiting
  <2>2. PollsTo(i - 1, t, L, O) = {}
    BY <2>1 DEF TakenOnce
  <2>3. PollsTo(i, t, L, O) = {i}
    BY <1>2, <2>2, PollsNext
  <2>4. new(t).state = "RUNNING" /\ new(t).store = L[i].cmd.store
    BY <1>2 DEF Polled
  <2>5. QED BY <1>1, <2>1, <2>3, <2>4
<1>3. CASE t \notin Returned(r)
  <2>1. PollsTo(i, t, L, O) = PollsTo(i - 1, t, L, O)
    BY <1>3, PollsNext
  <2>2. t \in DOMAIN m.tasks.tasks => new(t) = old(t)
    BY <1>3 DEF Polled
  <2>3. QED BY <1>1, <2>1, <2>2 DEF TakenOnce
<1>4. QED BY <1>2, <1>3

LEMMA TakenNext ==
  ASSUME NEW m, Machine(m), NEW i \in Nat \ {0}, NEW L, NEW O, TakenOnce(m, i - 1, L, O),
         NEW cmd, cmd = L[i].cmd, ValidCommand(cmd), NEW junk,
         NEW r, r = Apply(m, i, cmd, junk), O[i].answer.tasks = r.answer.tasks
  PROVE  TakenOnce(r.sm, i, L, O)
<1>1. ApplyOutcome(m, i, cmd, junk, r) /\ ApplyShape(m, i, r)
  BY ApplyForm, ApplyFits
<1>2. /\ DOMAIN m.tasks.tasks \subseteq DOMAIN r.sm.tasks.tasks
      /\ \A t \in DOMAIN m.tasks.tasks :
            TaskMoves(m.tasks.tasks[t], r.sm.tasks.tasks[t])
  BY <1>1 DEF ApplyShape
<1>3. ASSUME r.answer.tasks = <<>>, r.sm.tasks = m.tasks
      PROVE  TakenOnce(r.sm, i, L, O)
  <2>1. \A t : ~Takes(L, O, i, t)
    BY <1>3 DEF Takes
  <2>2. TakesNone(m.tasks, [state |-> r.sm.tasks])
    BY <1>3 DEF TakesNone
  <2>3. QED BY <1>2, <2>1, <2>2, TakenByNone
<1>4. CASE Skips(m, i, cmd)
  <2>1. r.sm = m /\ r.answer = NoAnswer
    BY <1>1, <1>4 DEF ApplyOutcome, Skipped
  <2>2. QED BY <1>3, <2>1 DEF NoAnswer, Answer
<1>5. CASE ~Skips(m, i, cmd) /\ cmd.kind = "OPAQUE"
  <2>1. r.sm.tasks = m.tasks /\ r.answer = NoAnswer
    BY <1>1, <1>5 DEF ApplyOutcome, OpaqueApplied
  <2>2. QED BY <1>3, <2>1 DEF NoAnswer, Answer
<1>6. CASE ~Skips(m, i, cmd) /\ cmd.kind \in StoreKinds
  <2>1. r.sm.tasks = Effect(m, cmd).tasks /\ r.answer = Effect(m, cmd).answer
    BY <1>1, <1>6 DEF ApplyOutcome, StoreApplied, StoreKinds
  <2>2. /\ Effect(m, cmd).tasks = m.tasks
        /\ Effect(m, cmd).answer = Answer(StoreOp(m.registry, cmd).store, <<>>, FALSE)
    BY <1>6 DEF Effect
  <2>3. QED BY <1>3, <2>1, <2>2 DEF Answer
<1>7. CASE ~Skips(m, i, cmd) /\ cmd.kind \in TaskKinds
  <2> DEFINE t == TaskOp(m.tasks, cmd)
  <2>1. r.sm.tasks = Effect(m, cmd).tasks /\ r.answer = Effect(m, cmd).answer
    BY <1>1, <1>7 DEF ApplyOutcome, StoreApplied, TaskKinds
  <2>2. Effect(m, cmd).tasks = t.state /\ Effect(m, cmd).answer.tasks = t.tasks
    BY <1>7 DEF Effect, Answer, TaskKinds, StoreKinds
  <2>3. TaskOpTakes(m.tasks, cmd, t)
    BY <1>7, TaskOpFits DEF Machine
  <2> HIDE DEF t
  <2>4. r.sm.tasks = t.state /\ O[i].answer.tasks = t.tasks
    BY <2>1, <2>2
  <2>5. CASE cmd.kind = "POLL_TASKS"
    <3>1. Polled(m.tasks, cmd.store, t)
      BY <2>3, <2>5 DEF TaskOpTakes
    <3>2. \A x : Takes(L, O, i, x) <=> x \in Returned(t)
      BY <2>4, <2>5 DEF Takes, Returned
    <3>3. QED BY <2>4, <3>1, <3>2, TakenByPoll
  <2>6. CASE cmd.kind # "POLL_TASKS"
    <3>1. TakesNone(m.tasks, [state |-> r.sm.tasks])
      BY <2>3, <2>4, <2>6 DEF TaskOpTakes, TakesNone
    <3>2. \A x : ~Takes(L, O, i, x)
      BY <2>6 DEF Takes
    <3>3. QED BY <1>2, <3>1, <3>2, TakenByNone
  <2>7. QED BY <2>5, <2>6
<1>8. QED BY <1>4, <1>5, <1>6, <1>7 DEF ValidCommand, StoreKinds, TaskKinds

LEMMA RecordsWritten ==
  ASSUME NEW m, Machine(m), NEW k, NEW i, i = m.last + 1, NEW L, NEW O,
         RecordsTrue(m, L, O), NEW payload,
         WrittenShape(m, i, L[i].cmd, payload, k.records), k.last = i,
         payload.tasks = Said(L, O, i).tasks,
         payload.duplicate = Said(L, O, i).duplicate
  PROVE  RecordsTrue(k, L, O)
<1> DEFINE t == L[i].cmd.target
           w == k.records
<1>1. m.last \in Nat
  BY DEF Machine
<1>2. 1 .. i = (1 .. m.last) \cup {i} /\ i \in 1 .. i
  BY <1>1
<1>3. DOMAIN w = DOMAIN m.records \cup {t}
  BY DEF WrittenShape
<1>4. RecordTrue(k, t, L, O)
  <2>1. w[t].index = i /\ w[t].payload = payload
    BY DEF WrittenShape, NewRecord
  <2>2. \A j \in 1 .. i : j <= i
    BY <1>1
  <2>3. QED BY <1>2, <2>1, <2>2 DEF RecordTrue
<1>5. ASSUME NEW x \in DOMAIN m.records \ {t}
      PROVE  RecordTrue(k, x, L, O)
  <2>1. w[x] = m.records[x]
    BY DEF WrittenShape
  <2>2. RecordTrue(m, x, L, O)
    BY DEF RecordsTrue
  <2>3. L[i].cmd.target # x
    OBVIOUS
  <2> HIDE DEF t
  <2>4. QED BY <1>2, <2>1, <2>2, <2>3 DEF RecordTrue
<1>6. \A j \in 1 .. i : L[j].cmd.target \in DOMAIN w
  BY <1>2, <1>3 DEF RecordsTrue
<1>7. QED BY <1>3, <1>4, <1>5, <1>6 DEF RecordsTrue

LEMMA RecordsNext ==
  ASSUME NEW m, Machine(m), NEW i, NEW L, NEW O, RecordsTrue(m, L, O),
         NEW cmd, cmd = L[i].cmd, ValidCommand(cmd), NEW junk,
         NEW r, r = Apply(m, i, cmd, junk), SameAnswer(O[i].answer, r.answer)
  PROVE  RecordsTrue(r.sm, L, O)
<1>1. ApplyOutcome(m, i, cmd, junk, r) /\ ApplyShape(m, i, r)
  BY ApplyForm, ApplyFits
<1>2. CASE ~r.ok
  <2>1. r.sm.last = m.last /\ r.sm.records = m.records
    BY <1>1, <1>2 DEF ApplyShape
  <2>2. ASSUME NEW x \in DOMAIN m.records PROVE RecordTrue(r.sm, x, L, O)
    <3>1. RecordTrue(m, x, L, O)
      BY DEF RecordsTrue
    <3>2. QED BY <2>1, <3>1 DEF RecordTrue
  <2>3. QED BY <2>1, <2>2 DEF RecordsTrue
<1>3. CASE r.ok
  <2>1. i = m.last + 1 /\ r.sm.last = i
    BY <1>1, <1>3 DEF ApplyShape
  <2>2. ~Skips(m, i, cmd)
    <3>1. Skips(m, i, cmd) => r.ok = FALSE
      BY <1>1 DEF ApplyOutcome, Skipped
    <3>2. QED BY <1>3, <3>1
  <2>3. CASE cmd.kind = "OPAQUE"
    <3>1. r.sm.records = Written(m, i, cmd, cmd.payload)
      BY <1>1, <2>2, <2>3 DEF ApplyOutcome, OpaqueApplied
    <3>2. WrittenShape(m, i, cmd, cmd.payload, r.sm.records)
      BY <3>1, WrittenForm
    <3>3. cmd.payload = Said(L, O, i)
      BY <2>3 DEF Said
    <3>4. QED BY <2>1, <3>2, <3>3, RecordsWritten
  <2>4. CASE cmd.kind # "OPAQUE"
    <3> DEFINE e == Effect(m, cmd)
               p == Encoded(e.answer, junk)
    <3>1. /\ r.ok = Fits(e) /\ r.answer = e.answer
          /\ r.sm.records = IF Fits(e) THEN Written(m, i, cmd, p) ELSE m.records
      BY <1>1, <2>2, <2>4 DEF ApplyOutcome, StoreApplied
    <3> HIDE DEF e
    <3>2. r.sm.records = Written(m, i, cmd, p)
      BY <1>3, <3>1
    <3>3. p.tasks = e.answer.tasks /\ p.duplicate = e.answer.duplicate
      BY <3>1, EncodedForm DEF SameAnswer, Answer
    <3> HIDE DEF p
    <3>4. WrittenShape(m, i, cmd, p, r.sm.records)
      BY <3>2, WrittenForm
    <3>5. p.tasks = Said(L, O, i).tasks /\ p.duplicate = Said(L, O, i).duplicate
      BY <2>4, <3>1, <3>3 DEF SameAnswer, Said
    <3>6. QED BY <2>1, <3>4, <3>5, RecordsWritten
  <2>5. QED BY <2>3, <2>4
<1>4. QED BY <1>2, <1>3

LEMMA UptoNext ==
  ASSUME NEW m, NEW i \in Nat \ {0}, NEW L, NEW O, Upto(m, i - 1, L, O),
         ValidCommand(L[i].cmd), NEW junk,
         NEW r, r = Apply(m, i, L[i].cmd, junk), Answers(O[i], r)
  PROVE  Upto(r.sm, i, L, O)
<1>1. Machine(m) /\ ApplyShape(m, i, r)
  BY ApplyFits DEF Upto
<1>2. Machine(r.sm)
  BY <1>1 DEF ApplyShape
<1>3. Refusals(r.sm, i, O)
  BY <1>1, RefusalsNext DEF Upto, Answers
<1>4. TakenOnce(r.sm, i, L, O)
  BY <1>1, TakenNext DEF Upto, Answers, SameAnswer
<1>5. RecordsTrue(r.sm, L, O)
  BY <1>1, RecordsNext DEF Upto, Answers
<1>6. QED BY <1>2, <1>3, <1>4, <1>5 DEF Upto

----------------------------------------------------------------------------
\* The replicas follow one history.

IsSequence(s) == \E S : s \in Seq(S)

SomeJunk == CHOOSE junk \in Junk : TRUE

\* h[i] is the machine after the first i entries of L, which are answered by O.
HistoryOf(h, L, O) ==
    /\ \A i \in 0 .. Len(O) : Upto(h[i], i, L, O)
    /\ \A i \in 1 .. Len(O) :
          LET r == Apply(h[i - 1], i, L[i].cmd, SomeJunk)
          IN  h[i] = r.sm /\ Answers(O[i], r)

ReplicasFit ==
    /\ IsSequence(log) /\ IsSequence(outcome) /\ Len(outcome) <= Len(log)
    /\ \A i \in DOMAIN log : ValidCommand(log[i].cmd)
    /\ DOMAIN sm = Node /\ DOMAIN tried = Node
    /\ \A n \in Node : tried[n] \in 0 .. Len(outcome) /\ Machine(sm[n])
    /\ \E h : /\ HistoryOf(h, log, outcome)
              /\ \A n \in Node : Same(sm[n], h[tried[n]])

LEMMA SequenceFacts ==
  ASSUME NEW s, IsSequence(s), NEW e
  PROVE  /\ Len(s) \in Nat /\ DOMAIN s = 1 .. Len(s)
         /\ IsSequence(Append(s, e)) /\ Len(Append(s, e)) = Len(s) + 1
         /\ \A i \in 1 .. Len(s) : Append(s, e)[i] = s[i]
         /\ Append(s, e)[Len(s) + 1] = e
<1>1. PICK S : s \in Seq(S)
  BY DEF IsSequence
<1>2. s \in Seq(S \cup {e}) /\ e \in S \cup {e}
  BY <1>1
<1>3. Append(s, e) \in Seq(S \cup {e})
  BY <1>2
<1>4. QED BY <1>2, <1>3 DEF IsSequence

LEMMA HistoryStays ==
  ASSUME NEW L, NEW O, IsSequence(L), IsSequence(O), Len(O) <= Len(L), NEW e,
         NEW h, HistoryOf(h, L, O)
  PROVE  HistoryOf(h, Append(L, e), O)
<1> DEFINE K == Append(L, e)
<1>1. /\ Len(L) \in Nat /\ Len(O) \in Nat
      /\ \A k \in 1 .. Len(L) : K[k] = L[k]
  BY SequenceFacts
<1> HIDE DEF K
<1>2. \A k \in 1 .. Len(O) : K[k] = L[k]
  BY <1>1
<1>3. ASSUME NEW i \in 0 .. Len(O) PROVE Upto(h[i], i, K, O)
  <2>1. Upto(h[i], i, L, O)
    BY DEF HistoryOf
  <2>2. i \in Nat /\ \A k \in 1 .. i : k \in 1 .. Len(O)
    BY <1>1
  <2>3. Agree(i, L, O, K, O)
    BY <1>2, <2>2 DEF Agree
  <2>4. QED BY <2>1, <2>2, <2>3, UptoStays
<1>4. QED BY <1>2, <1>3 DEF HistoryOf, K

LEMMA HistoryGrows ==
  ASSUME NEW L, NEW O, IsSequence(L), IsSequence(O), NEW h, HistoryOf(h, L, O),
         NEW i, i = Len(O) + 1, ValidCommand(L[i].cmd),
         NEW r, r = Apply(h[i - 1], i, L[i].cmd, SomeJunk),
         NEW o, Answers(o, r)
  PROVE  \E g : /\ HistoryOf(g, L, Append(O, o))
                /\ \A k \in 0 .. Len(O) : g[k] = h[k]
                /\ g[i] = r.sm
<1> DEFINE P == Append(O, o)
           g == [k \in 0 .. i |-> IF k = i THEN r.sm ELSE h[k]]
<1>1. /\ Len(O) \in Nat /\ Len(P) = i /\ P[i] = o
      /\ \A k \in 1 .. Len(O) : P[k] = O[k]
  BY SequenceFacts
<1> HIDE DEF P
<1>2. /\ i \in Nat \ {0} /\ i - 1 = Len(O) /\ i - 1 \in 0 .. Len(O)
      /\ 0 .. i = (0 .. Len(O)) \cup {i} /\ 1 .. i = (1 .. Len(O)) \cup {i}
      /\ i \notin 0 .. Len(O)
  BY <1>1
<1>3. (\A k \in 0 .. Len(O) : g[k] = h[k]) /\ g[i] = r.sm
  BY <1>2
<1> HIDE DEF g
<1>4. ASSUME NEW k \in 0 .. Len(O) PROVE Upto(g[k], k, L, P)
  <2>1. Upto(h[k], k, L, O)
    BY DEF HistoryOf
  <2>2. k \in Nat /\ \A j \in 1 .. k : j \in 1 .. Len(O)
    BY <1>1
  <2>3. Agree(k, L, O, L, P)
    BY <1>1, <2>2 DEF Agree
  <2>4. QED BY <1>3, <2>1, <2>2, <2>3, UptoStays
<1>5. Upto(g[i], i, L, P)
  <2>1. Upto(h[i - 1], i - 1, L, P)
    BY <1>2, <1>3, <1>4
  <2>2. Answers(P[i], r)
    BY <1>1
  <2>3. Upto(r.sm, i, L, P)
    BY <1>2, <2>1, <2>2, UptoNext
  <2>4. QED BY <1>3, <2>3
<1>6. ASSUME NEW k \in 1 .. Len(O)
      PROVE  LET q == Apply(g[k - 1], k, L[k].cmd, SomeJunk)
             IN  g[k] = q.sm /\ Answers(P[k], q)
  <2>1. k \in 0 .. Len(O) /\ k - 1 \in 0 .. Len(O)
    BY <1>1
  <2>2. QED BY <1>1, <1>3, <2>1 DEF HistoryOf
<1>7. LET q == Apply(g[i - 1], i, L[i].cmd, SomeJunk)
      IN  g[i] = q.sm /\ Answers(P[i], q)
  BY <1>1, <1>2, <1>3
<1>8. HistoryOf(g, L, P)
  BY <1>1, <1>2, <1>4, <1>5, <1>6, <1>7 DEF HistoryOf
<1>9. QED BY <1>3, <1>8 DEF P

LEMMA ReplicasStart ==
  ASSUME ReplicaInit
  PROVE  ReplicasFit
<1> DEFINE h == [i \in {0} |-> EmptyMachine]
<1>1. /\ log = <<>> /\ outcome = <<>>
      /\ sm = [n \in Node |-> EmptyMachine] /\ tried = [n \in Node |-> 0]
  BY DEF ReplicaInit
<1>2. IsSequence(<<>>)
  BY DEF IsSequence
<1>3. HistoryOf(h, log, outcome)
  <2>1. Upto(h[0], 0, log, outcome)
    BY UptoNone
  <2>2. Len(outcome) = 0
    BY <1>1
  <2> HIDE DEF h
  <2>3. QED BY <2>1, <2>2 DEF HistoryOf
<1>4. Same(EmptyMachine, EmptyMachine)
  BY EmptyMachineFits, SameItself
<1>5. ASSUME NEW n \in Node
      PROVE  tried[n] = 0 /\ sm[n] = EmptyMachine /\ Same(sm[n], h[tried[n]])
  BY <1>1, <1>4
<1>6. Len(log) = 0 /\ Len(outcome) = 0 /\ DOMAIN log = {}
  BY <1>1
<1>7. DOMAIN sm = Node /\ DOMAIN tried = Node
  BY <1>1
<1> HIDE DEF h
<1>8. QED BY <1>1, <1>2, <1>3, <1>5, <1>6, <1>7, EmptyMachineFits DEF ReplicasFit

LEMMA CommitKeepsReplicas ==
  ASSUME ReplicasFit, NEW entry, ValidCommand(entry.cmd), Append_(entry),
         UNCHANGED <<sm, tried, outcome>>
  PROVE  ReplicasFit'
<1>1. log' = Append(log, entry)
  BY DEF Append_
<1>2. PICK h : /\ HistoryOf(h, log, outcome)
               /\ \A n \in Node : Same(sm[n], h[tried[n]])
  BY DEF ReplicasFit
<1>3. IsSequence(log) /\ IsSequence(outcome) /\ Len(outcome) <= Len(log)
  BY DEF ReplicasFit
<1>4. /\ IsSequence(log') /\ Len(log') = Len(log) + 1 /\ log'[Len(log) + 1] = entry
      /\ \A i \in 1 .. Len(log) : log'[i] = log[i]
      /\ Len(log) \in Nat /\ DOMAIN log = 1 .. Len(log) /\ DOMAIN log' = 1 .. Len(log')
      /\ Len(outcome) \in Nat
  BY <1>1, <1>3, SequenceFacts
<1>5. HistoryOf(h, log', outcome)
  BY <1>1, <1>2, <1>3, HistoryStays
<1>6. \A i \in DOMAIN log' : ValidCommand(log'[i].cmd)
  BY <1>4 DEF ReplicasFit
<1>7. Len(outcome) <= Len(log')
  BY <1>3, <1>4
<1>8. QED BY <1>2, <1>3, <1>4, <1>5, <1>6, <1>7 DEF ReplicasFit

LEMMA HeartbeatKeepsReplicas ==
  ASSUME ReplicasFit, NEW n \in Node, NEW s, NEW b \in Heartbeats, Heartbeat(n, s, b)
  PROVE  ReplicasFit'
<1> DEFINE g == sm[n].registry
           k == UpdateHeartbeat(g, s, b)
           m == [sm[n] EXCEPT !.registry = k]
<1>1. s \in DOMAIN g.stores /\ sm' = [sm EXCEPT ![n] = m]
  BY DEF Heartbeat
<1>2. UNCHANGED <<log, tried, outcome>>
  BY DEF Heartbeat
<1>3. Machine(sm[n]) /\ DOMAIN sm = Node
  BY DEF ReplicasFit
<1>4. RegistryFits(g)
  BY <1>3 DEF Machine
<1>5. RegistryFits(k) /\ SameRegistry(g, k)
  BY <1>1, <1>4, UpdateHeartbeatFits
<1> HIDE DEF k
<1>6. m = [records |-> sm[n].records, registry |-> k, tasks |-> sm[n].tasks,
           last |-> sm[n].last]
  BY <1>3 DEF Machine
<1> HIDE DEF m
<1>7. Machine(m)
  BY <1>3, <1>5, <1>6 DEF Machine
<1>8. PICK h : /\ HistoryOf(h, log, outcome)
               /\ \A x \in Node : Same(sm[x], h[tried[x]])
  BY DEF ReplicasFit
<1>9. Same(m, h[tried[n]])
  <2>1. SameRegistry(k, h[tried[n]].registry)
    BY <1>5, <1>8 DEF Same, SameRegistry, SameStore
  <2>2. QED BY <1>6, <1>8, <2>1 DEF Same
<1>10. \A x \in Node : Machine(sm'[x]) /\ Same(sm'[x], h[tried[x]])
  BY <1>1, <1>3, <1>7, <1>8, <1>9 DEF ReplicasFit
<1>11. DOMAIN sm' = Node
  BY <1>1, <1>3
<1>12. QED BY <1>2, <1>8, <1>10, <1>11 DEF ReplicasFit

\* What an apply thread does when it passes entry i of the log to machine m.
PassedOn(n, i, junk, r, ok) ==
    /\ i = tried[n] + 1 /\ i <= Len(log)
    /\ r = Apply(sm[n], i, log[i].cmd, junk) /\ ok = r.ok
    /\ sm' = [sm EXCEPT ![n] = r.sm]
    /\ outcome' = IF i > Len(outcome)
                  THEN Append(outcome, [ok |-> r.ok, answer |-> r.answer])
                  ELSE outcome
    /\ tried' = [tried EXCEPT ![n] = i]
    /\ UNCHANGED log

LEMMA PassForm ==
  ASSUME NEW n, NEW ok, PassNext(n, ok)
  PROVE  \E i, r : \E junk \in Junk : PassedOn(n, i, junk, r, ok)
BY DEF PassNext, PassedOn

\* What that leaves: the entry has one answer, whichever replica was first.
Passed(n, ok) ==
    /\ ReplicasFit'
    /\ tried' = [tried EXCEPT ![n] = tried[n] + 1] /\ UNCHANGED log
    /\ tried[n] \in 0 .. Len(outcome) /\ tried[n] + 1 <= Len(log)
    /\ Len(outcome) <= Len(outcome') /\ Len(outcome') \in Nat
    /\ \A k \in 1 .. Len(outcome) : outcome'[k] = outcome[k]
    /\ outcome'[tried[n] + 1].ok = ok
    /\ \A m \in Node \ {n} : sm'[m] = sm[m]
    /\ \A t \in DOMAIN sm[n].tasks.tasks :
          /\ t \in DOMAIN sm'[n].tasks.tasks
          /\ TaskMoves(sm[n].tasks.tasks[t], sm'[n].tasks.tasks[t])
    /\ sm[n].last <= sm'[n].last

LEMMA PassKeepsReplicas ==
  ASSUME ReplicasFit, NEW n \in Node, NEW ok, PassNext(n, ok)
  PROVE  Passed(n, ok)
<1>1. PICK i, r : \E junk \in Junk : PassedOn(n, i, junk, r, ok)
  BY PassForm
<1>2. PICK junk \in Junk : PassedOn(n, i, junk, r, ok)
  BY <1>1
<1>3. PICK h : /\ HistoryOf(h, log, outcome)
               /\ \A x \in Node : Same(sm[x], h[tried[x]])
  BY DEF ReplicasFit
<1>4. /\ i = tried[n] + 1 /\ i <= Len(log) /\ ok = r.ok /\ log' = log
      /\ sm' = [sm EXCEPT ![n] = r.sm] /\ tried' = [tried EXCEPT ![n] = i]
      /\ r = Apply(sm[n], i, log[i].cmd, junk)
  BY <1>2 DEF PassedOn
<1>5. /\ IsSequence(log) /\ IsSequence(outcome) /\ Len(outcome) <= Len(log)
      /\ DOMAIN sm = Node /\ DOMAIN tried = Node
      /\ \A x \in Node : tried[x] \in 0 .. Len(outcome) /\ Machine(sm[x])
      /\ \A k \in DOMAIN log : ValidCommand(log[k].cmd)
  BY DEF ReplicasFit
<1>6. Len(log) \in Nat /\ DOMAIN log = 1 .. Len(log) /\ Len(outcome) \in Nat
  BY <1>5, SequenceFacts
<1>7. /\ i \in Nat \ {0} /\ i - 1 = tried[n] /\ tried[n] \in 0 .. Len(outcome)
      /\ i \in DOMAIN log
  BY <1>4, <1>5, <1>6
<1>8. ValidCommand(log[i].cmd) /\ Machine(sm[n])
  BY <1>5, <1>7
<1>9. ApplyShape(sm[n], i, r)
  BY <1>4, <1>8, ApplyFits
<1> DEFINE q == Apply(h[i - 1], i, log[i].cmd, SomeJunk)
<1>10. Machine(h[i - 1]) /\ Same(sm[n], h[i - 1])
  BY <1>3, <1>7 DEF HistoryOf, Upto
<1>11. SomeJunk \in Junk
  BY <1>2 DEF SomeJunk
<1>12. SameOutcome(r, q)
  BY <1>4, <1>8, <1>10, <1>11, ApplySame
<1> DEFINE o == [ok |-> r.ok, answer |-> r.answer]
<1>13. Answers(o, q)
  BY <1>12 DEF SameOutcome, Answers
<1> HIDE DEF q
<1>14. \E g : /\ HistoryOf(g, log, outcome')
              /\ \A k \in 0 .. Len(outcome) : g[k] = h[k]
              /\ g[i] = q.sm
  <2>1. CASE i > Len(outcome)
    <3>1. i = Len(outcome) + 1
      BY <1>6, <1>7, <2>1
    <3>2. outcome' = Append(outcome, o)
      BY <1>2, <2>1 DEF PassedOn
    <3> HIDE DEF o
    <3>3. q = Apply(h[i - 1], i, log[i].cmd, SomeJunk)
      BY DEF q
    <3>4. \E g : /\ HistoryOf(g, log, Append(outcome, o))
                 /\ \A k \in 0 .. Len(outcome) : g[k] = h[k]
                 /\ g[i] = q.sm
      BY <1>3, <1>5, <1>8, <1>13, <3>1, <3>3, HistoryGrows
    <3>5. QED BY <3>2, <3>4
  <2>2. CASE ~(i > Len(outcome))
    <3>1. outcome' = outcome
      BY <1>2, <2>2 DEF PassedOn
    <3>2. i \in 1 .. Len(outcome)
      BY <1>6, <1>7, <2>2
    <3>3. h[i] = q.sm
      BY <1>3, <3>2 DEF HistoryOf, q
    <3>4. QED BY <1>3, <3>1, <3>3
  <2>3. QED BY <2>1, <2>2
<1>15. PICK g : /\ HistoryOf(g, log, outcome')
                /\ \A k \in 0 .. Len(outcome) : g[k] = h[k]
                /\ g[i] = q.sm
  BY <1>14
<1>16. /\ IsSequence(outcome') /\ Len(outcome') \in Nat /\ Len(outcome') <= Len(log)
       /\ Len(outcome) <= Len(outcome') /\ i <= Len(outcome')
       /\ \A k \in 1 .. Len(outcome) : outcome'[k] = outcome[k]
  <2>1. CASE i > Len(outcome)
    <3>1. outcome' = Append(outcome, o)
      BY <1>2, <2>1 DEF PassedOn
    <3> HIDE DEF o
    <3>2. /\ IsSequence(outcome') /\ Len(outcome') = Len(outcome) + 1
          /\ \A k \in 1 .. Len(outcome) : outcome'[k] = outcome[k]
      BY <1>5, <3>1, SequenceFacts
    <3>3. QED BY <1>4, <1>6, <1>7, <2>1, <3>2
  <2>2. CASE ~(i > Len(outcome))
    <3>1. outcome' = outcome
      BY <1>2, <2>2 DEF PassedOn
    <3>2. QED BY <1>5, <1>6, <1>7, <2>2, <3>1
  <2>3. QED BY <2>1, <2>2
<1>17. outcome'[i].ok = ok
  <2>1. g[i - 1] = h[i - 1] /\ i \in 1 .. Len(outcome')
    BY <1>7, <1>15, <1>16
  <2>2. Answers(outcome'[i], Apply(g[i - 1], i, log[i].cmd, SomeJunk))
    BY <1>15, <2>1 DEF HistoryOf
  <2>3. Answers(outcome'[i], q)
    BY <2>1, <2>2 DEF q
  <2>4. QED BY <1>4, <1>12, <2>3 DEF Answers, SameOutcome
<1>18. ASSUME NEW x \in Node
       PROVE  /\ tried'[x] \in 0 .. Len(outcome') /\ Machine(sm'[x])
              /\ Same(sm'[x], g[tried'[x]])
  <2>1. CASE x = n
    <3>1. tried'[x] = i /\ sm'[x] = r.sm
      BY <1>4, <1>5, <2>1
    <3>2. Machine(r.sm) /\ Same(r.sm, q.sm)
      BY <1>9, <1>12 DEF ApplyShape, SameOutcome
    <3>3. i \in 0 .. Len(outcome')
      BY <1>7, <1>16
    <3>4. QED BY <1>15, <3>1, <3>2, <3>3
  <2>2. CASE x # n
    <3>1. tried'[x] = tried[x] /\ sm'[x] = sm[x]
      BY <1>4, <1>5, <2>2
    <3>2. tried[x] \in 0 .. Len(outcome) /\ Machine(sm[x])
      BY <1>5
    <3>3. g[tried[x]] = h[tried[x]] /\ tried[x] \in 0 .. Len(outcome')
      BY <1>6, <1>15, <1>16, <3>2
    <3>4. QED BY <1>3, <3>1, <3>2, <3>3
  <2>3. QED BY <2>1, <2>2
<1>19. ReplicasFit'
  <2>1. DOMAIN sm' = Node /\ DOMAIN tried' = Node
    BY <1>4, <1>5
  <2>2. HistoryOf(g, log', outcome')
    BY <1>4, <1>15
  <2>3. IsSequence(log') /\ Len(outcome') <= Len(log')
    BY <1>4, <1>5, <1>16
  <2>4. \A k \in DOMAIN log' : ValidCommand(log'[k].cmd)
    BY <1>4, <1>5
  <2>5. QED BY <1>16, <1>18, <2>1, <2>2, <2>3, <2>4 DEF ReplicasFit
<1>20. sm'[n] = r.sm /\ \A m \in Node \ {n} : sm'[m] = sm[m]
  BY <1>4, <1>5
<1>21. \A t \in DOMAIN sm[n].tasks.tasks :
         /\ t \in DOMAIN sm'[n].tasks.tasks
         /\ TaskMoves(sm[n].tasks.tasks[t], sm'[n].tasks.tasks[t])
  BY <1>9, <1>20 DEF ApplyShape
<1>22. sm[n].last <= sm'[n].last
  <2>1. sm[n].last \in Nat
    BY <1>8 DEF Machine
  <2>2. r.sm.last = sm[n].last \/ (r.sm.last = i /\ i = sm[n].last + 1)
    BY <1>9 DEF ApplyShape
  <2>3. QED BY <1>20, <2>1, <2>2
<1>23. QED BY <1>4, <1>7, <1>16, <1>17, <1>19, <1>20, <1>21, <1>22 DEF Passed

----------------------------------------------------------------------------
\* What the replicas guarantee.

LEMMA ReplicaFacts ==
  ASSUME ReplicasFit, NEW n \in Node
  PROVE  /\ Machine(sm[n]) /\ tried[n] \in 0 .. Len(outcome)
         /\ \E m : Same(sm[n], m) /\ Upto(m, tried[n], log, outcome)
<1>1. PICK h : /\ HistoryOf(h, log, outcome)
               /\ \A x \in Node : Same(sm[x], h[tried[x]])
  BY DEF ReplicasFit
<1>2. tried[n] \in 0 .. Len(outcome) /\ Machine(sm[n])
  BY DEF ReplicasFit
<1>3. QED BY <1>1, <1>2 DEF HistoryOf

LEMMA StopsFollows == ReplicasFit => StopsAtFirstRefusal
<1> SUFFICES ASSUME ReplicasFit, NEW n \in Node, NEW i \in 1 .. tried[n]
             PROVE  outcome[i].ok <=> i <= sm[n].last
  BY DEF StopsAtFirstRefusal
<1>1. PICK m : Same(sm[n], m) /\ Upto(m, tried[n], log, outcome)
  BY ReplicaFacts
<1>2. sm[n].last = m.last
  BY <1>1 DEF Same
<1>3. outcome[i].ok <=> i <= m.last
  BY <1>1 DEF Upto, Refusals
<1>4. QED BY <1>2, <1>3

LEMMA HandedOutFollows == ReplicasFit => HandedOutOnce
<1> SUFFICES ASSUME ReplicasFit, NEW n \in Node, NEW t \in DOMAIN sm[n].tasks.tasks
             PROVE  IF sm[n].tasks.tasks[t].state = "WAITING" THEN Polls(n, t) = {}
                    ELSE /\ Cardinality(Polls(n, t)) = 1
                         /\ \A i \in Polls(n, t) :
                               log[i].cmd.store = sm[n].tasks.tasks[t].store
  BY DEF HandedOutOnce
<1>1. PICK m : Same(sm[n], m) /\ Upto(m, tried[n], log, outcome)
  BY ReplicaFacts
<1>2. sm[n].tasks = m.tasks
  BY <1>1 DEF Same
<1>3. Polls(n, t) = PollsTo(tried[n], t, log, outcome)
  BY DEF Polls, PollsTo, Takes
<1>4. CASE m.tasks.tasks[t].state = "WAITING"
  BY <1>1, <1>2, <1>3, <1>4 DEF Upto, TakenOnce
<1>5. CASE m.tasks.tasks[t].state # "WAITING"
  <2>1. PICK k : /\ PollsTo(tried[n], t, log, outcome) = {k}
                 /\ log[k].cmd.store = m.tasks.tasks[t].store
    BY <1>1, <1>2, <1>5 DEF Upto, TakenOnce
  <2>2. Cardinality({k}) = 1
    BY FS_Singleton
  <2>3. QED BY <1>2, <1>3, <1>5, <2>1, <2>2
<1>6. QED BY <1>4, <1>5

\* Records without the store of answers about tasks.
Cleared(w) ==
    [x \in DOMAIN w |-> IF w[x].payload.store \in Junk
                        THEN [w[x] EXCEPT !.payload.store = NoInfo] ELSE w[x]]

LEMMA DeterminedForm ==
  ASSUME NEW m, Machine(m)
  PROVE  Determined(m) =
           [records |-> Cleared(m.records),
            registry |-> [stores |-> ExportStores(m.registry), index |-> m.registry.index],
            tasks |-> m.tasks, last |-> m.last]
<1> DEFINE d == Determined(m)
           e == ExportStores(m.registry)
           w == Cleared(m.records)
<1>1. d = [m EXCEPT !.registry = [m.registry EXCEPT !.stores = e], !.records = w]
  BY DEF Determined, Cleared
<1>2. m = [records |-> m.records, registry |-> m.registry, tasks |-> m.tasks,
           last |-> m.last]
  BY DEF Machine
<1>3. m.registry = [stores |-> m.registry.stores, index |-> m.registry.index]
  BY DEF Machine, RegistryFits
<1> HIDE DEF d, e, w
<1>4. [m.registry EXCEPT !.stores = e] = [stores |-> e, index |-> m.registry.index]
  BY <1>3
<1>5. d = [records |-> w, registry |-> [stores |-> e, index |-> m.registry.index],
           tasks |-> m.tasks, last |-> m.last]
  BY <1>1, <1>2, <1>4
<1>6. QED BY <1>5 DEF d, e, w

LEMMA ExportSame ==
  ASSUME NEW g, RegistryFits(g), NEW k, RegistryFits(k), SameRegistry(g, k)
  PROVE  ExportStores(g) = ExportStores(k)
<1>1. DOMAIN g.stores = DOMAIN k.stores
  BY DEF SameRegistry
<1>2. ASSUME NEW s \in DOMAIN g.stores
      PROVE  FromPersistent(g.stores[s]) = FromPersistent(k.stores[s])
  <2>1. /\ g.stores[s] \in StoreInfo /\ k.stores[s] \in StoreInfo
        /\ SameStore(g.stores[s], k.stores[s])
    BY <1>1 DEF RegistryFits, SameRegistry
  <2>2. QED BY <2>1, SamePersistent
<1>3. QED BY <1>1, <1>2 DEF ExportStores

LEMMA ClearedSame ==
  ASSUME NEW a, Machine(a), NEW b, Machine(b), Same(a, b)
  PROVE  Cleared(a.records) = Cleared(b.records)
<1>1. DOMAIN a.records = DOMAIN b.records
  BY DEF Same
<1>2. ASSUME NEW x \in DOMAIN a.records
      PROVE  Cleared(a.records)[x] = Cleared(b.records)[x]
  <2> DEFINE r == a.records[x]
             q == b.records[x]
             rc == [r EXCEPT !.payload.store = NoInfo]
             qc == [q EXCEPT !.payload.store = NoInfo]
  <2>1. /\ Cleared(a.records)[x] = IF r.payload.store \in Junk THEN rc ELSE r
        /\ Cleared(b.records)[x] = IF q.payload.store \in Junk THEN qc ELSE q
    BY <1>1, <1>2 DEF Cleared
  <2>2. /\ r = [payload |-> r.payload, command |-> r.command, index |-> r.index,
                generation |-> r.generation]
        /\ q = [payload |-> q.payload, command |-> q.command, index |-> q.index,
                generation |-> q.generation]
    BY <1>1, <1>2 DEF Machine, RecordFits
  <2>3. /\ r.command = q.command /\ r.index = q.index /\ r.generation = q.generation
        /\ SamePayload(r.payload, q.payload)
    BY <1>2 DEF Same, SameRecord
  <2>4. CASE r.payload = q.payload
    BY <2>1, <2>2, <2>3, <2>4
  <2>5. CASE \E i, j \in Junk : \E tasks, duplicate :
                r.payload = Answer(i, tasks, duplicate)
                /\ q.payload = Answer(j, tasks, duplicate)
    <3>1. PICK i, j \in Junk : \E tasks, duplicate :
             r.payload = Answer(i, tasks, duplicate)
             /\ q.payload = Answer(j, tasks, duplicate)
      BY <2>5
    <3>2. PICK tasks, duplicate :
             r.payload = Answer(i, tasks, duplicate)
             /\ q.payload = Answer(j, tasks, duplicate)
      BY <3>1
    <3> HIDE DEF r, q
    <3>3. /\ rc = [payload |-> [r.payload EXCEPT !.store = NoInfo], command |-> r.command,
                   index |-> r.index, generation |-> r.generation]
          /\ qc = [payload |-> [q.payload EXCEPT !.store = NoInfo], command |-> q.command,
                   index |-> q.index, generation |-> q.generation]
      BY <2>2
    <3>4. /\ [r.payload EXCEPT !.store = NoInfo] = Answer(NoInfo, tasks, duplicate)
          /\ [q.payload EXCEPT !.store = NoInfo] = Answer(NoInfo, tasks, duplicate)
      BY <3>2 DEF Answer
    <3>5. r.payload.store \in Junk /\ q.payload.store \in Junk
      BY <3>2 DEF Answer
    <3>6. QED BY <2>1, <2>3, <3>3, <3>4, <3>5
  <2>6. QED BY <2>3, <2>4, <2>5 DEF SamePayload
<1>3. QED BY <1>1, <1>2 DEF Cleared

LEMMA DeterminedSame ==
  ASSUME NEW a, Machine(a), NEW b, Machine(b), Same(a, b)
  PROVE  Determined(a) = Determined(b)
<1>1. Cleared(a.records) = Cleared(b.records)
  BY ClearedSame
<1>2. ExportStores(a.registry) = ExportStores(b.registry)
  BY ExportSame DEF Machine, Same
<1>3. a.registry.index = b.registry.index /\ a.tasks = b.tasks /\ a.last = b.last
  BY DEF Same, SameRegistry
<1>4. QED BY <1>1, <1>2, <1>3, DeterminedForm

LEMMA AgreeFollows == ReplicasFit => ReplicasAgree
<1> SUFFICES ASSUME ReplicasFit, NEW n \in Node, NEW m \in Node, tried[n] = tried[m]
             PROVE  Determined(sm[n]) = Determined(sm[m])
  BY DEF ReplicasAgree
<1>1. PICK h : /\ HistoryOf(h, log, outcome)
               /\ \A x \in Node : Same(sm[x], h[tried[x]])
  BY DEF ReplicasFit
<1>2. tried[n] \in 0 .. Len(outcome) /\ Machine(sm[n]) /\ Machine(sm[m])
  BY DEF ReplicasFit
<1>3. Machine(h[tried[n]])
  BY <1>1, <1>2 DEF HistoryOf, Upto
<1>4. Same(sm[n], h[tried[n]]) /\ Same(sm[m], h[tried[n]])
  BY <1>1
<1>5. /\ Determined(sm[n]) = Determined(h[tried[n]])
      /\ Determined(sm[m]) = Determined(h[tried[n]])
  BY <1>2, <1>3, <1>4, DeterminedSame
<1>6. QED BY <1>5

----------------------------------------------------------------------------
\* Snapshots.

LEMMA ImageCardinality ==
  ASSUME NEW f, IsFiniteSet(DOMAIN f)
  PROVE  LET T == {f[x] : x \in DOMAIN f}
         IN  IsFiniteSet(T) /\ Cardinality(T) <= Cardinality(DOMAIN f)
<1> DEFINE T == {f[x] : x \in DOMAIN f}
           g == [x \in DOMAIN f |-> f[x]]
<1>1. g \in Surjection(DOMAIN f, T)
  BY DEF Surjection
<1>2. QED BY <1>1, FS_Surjection

\* Store s as a snapshot has it.
Exported(g, s) == FromPersistent(g.stores[s])

LEMMA ExportedFacts ==
  ASSUME NEW g, RegistryFits(g)
  PROVE  /\ \A s \in DOMAIN g.stores :
               /\ Exported(g, s) \in StoreInfo /\ Exported(g, s).id = s
               /\ Exported(g, s).address = g.stores[s].address
               /\ FromPersistent(Exported(g, s)) = Exported(g, s)
         /\ ExportStores(g) = {Exported(g, s) : s \in DOMAIN g.stores}
<1>1. ASSUME NEW s \in DOMAIN g.stores
      PROVE  /\ Exported(g, s) \in StoreInfo /\ Exported(g, s).id = s
             /\ Exported(g, s).address = g.stores[s].address
             /\ FromPersistent(Exported(g, s)) = Exported(g, s)
  <2> DEFINE i == g.stores[s]
             e == Exported(g, s)
  <2>1. i \in StoreInfo /\ i.id = s
    BY DEF RegistryFits
  <2> HIDE DEF i
  <2>2. e = Persistent(i)
    BY <2>1, PersistentForm DEF Exported, i
  <2> HIDE DEF e
  <2>3. /\ e.id = s /\ e.address = i.address /\ e.heartbeat = 0
        /\ e.state = i.state /\ e.generation = i.generation
    BY <2>1, <2>2 DEF Persistent
  <2>4. e \in StoreInfo
    BY <2>1, <2>2, StoreShape DEF Persistent, StoreInfo
  <2>5. FromPersistent(e) = e
    <3>1. Persistent(e) = Persistent(i)
      BY <2>1, <2>3 DEF Persistent
    <3>2. QED BY <2>2, <2>4, <3>1, PersistentForm
  <2>6. QED BY <2>3, <2>4, <2>5 DEF e, i
<1>2. ExportStores(g) = {Exported(g, s) : s \in DOMAIN g.stores}
  BY DEF ExportStores, Exported
<1>3. QED BY <1>1, <1>2

LEMMA StoresRestored ==
  ASSUME NEW g, RegistryFits(g)
  PROVE  LET e == ExportStores(g)
             k == RestoreStores(e)
         IN  /\ CanRestoreStores(e) /\ k.index = g.index /\ ExportStores(k) = e
             /\ Cardinality(e) <= Cardinality(DOMAIN g.stores)
<1> DEFINE D == DOMAIN g.stores
           e == ExportStores(g)
           k == RestoreStores(e)
           x == [s \in D |-> Exported(g, s)]
<1>1. /\ \A s \in D : /\ x[s].id = s /\ x[s].address = g.stores[s].address
                      /\ FromPersistent(x[s]) = x[s]
      /\ e = {x[s] : s \in D} /\ DOMAIN x = D
  <2>1. DOMAIN x = D /\ \A s \in D : x[s] = Exported(g, s)
    OBVIOUS
  <2> HIDE DEF x
  <2>2. \A s \in D : /\ x[s].id = s /\ x[s].address = g.stores[s].address
                     /\ FromPersistent(x[s]) = x[s]
    BY <2>1, ExportedFacts
  <2>3. e = {Exported(g, s) : s \in D}
    BY ExportedFacts
  <2>4. e = {x[s] : s \in D}
    BY <2>1, <2>3
  <2>5. QED BY <2>1, <2>2, <2>4
<1>2. \A s, t \in D : x[s].address = x[t].address => s = t
  BY <1>1 DEF RegistryFits
<1>3. Cardinality(e) <= Cardinality(D)
  <2>1. IsFiniteSet(DOMAIN x)
    BY <1>1 DEF RegistryFits
  <2> HIDE DEF x, e
  <2>2. QED BY <1>1, <2>1, ImageCardinality
<1> HIDE DEF x, e
<1>4. CanRestoreStores(e)
  BY <1>1, <1>2 DEF CanRestoreStores
<1>5. /\ k.stores = [s \in {i.id : i \in e} |-> CHOOSE i \in e : i.id = s]
      /\ k.index = [a \in {i.address : i \in e} |-> (CHOOSE i \in e : i.address = a).id]
  BY DEF RestoreStores
<1> HIDE DEF k
<1>6. {i.id : i \in e} = D
  BY <1>1
<1>7. \A s \in D : k.stores[s] = x[s]
  <2> SUFFICES ASSUME NEW s \in D PROVE (CHOOSE i \in e : i.id = s) = x[s]
    BY <1>5, <1>6
  <2>1. x[s] \in e /\ \A i \in e : i.id = s <=> i = x[s]
    BY <1>1
  <2>2. QED BY <2>1
<1>8. ExportStores(k) = e
  <2>1. DOMAIN k.stores = D
    BY <1>5, <1>6
  <2>2. \A s \in D : FromPersistent(k.stores[s]) = x[s]
    BY <1>1, <1>7
  <2>3. QED BY <1>1, <2>1, <2>2 DEF ExportStores
<1>9. k.index = g.index
  <2>1. {i.address : i \in e} = DOMAIN g.index
    BY <1>1 DEF RegistryFits
  <2>2. ASSUME NEW a \in DOMAIN g.index
        PROVE  (CHOOSE i \in e : i.address = a).id = g.index[a]
    <3>1. PICK s \in D : g.stores[s].address = a
      BY DEF RegistryFits
    <3>2. x[s] \in e /\ \A i \in e : i.address = a <=> i = x[s]
      BY <1>1, <1>2, <3>1
    <3>3. (CHOOSE i \in e : i.address = a) = x[s]
      BY <3>2
    <3>4. g.index[a] = s
      BY <3>1 DEF RegistryFits
    <3>5. QED BY <1>1, <3>3, <3>4
  <2>3. k.index = [a \in DOMAIN g.index |-> g.index[a]]
    BY <1>5, <2>1, <2>2
  <2>4. QED BY <2>3 DEF RegistryFits
<1>10. QED BY <1>3, <1>4, <1>8, <1>9 DEF k, e

LEMMA TasksRestored ==
  ASSUME NEW tm, TasksFit(tm)
  PROVE  LET e == ExportTasks(tm)
         IN  /\ CanRestoreTasks(e) /\ RestoreTasks(e) = tm
             /\ Cardinality(e) <= Cardinality(DOMAIN tm.tasks)
<1> DEFINE D == DOMAIN tm.tasks
           x == tm.tasks
           e == ExportTasks(tm)
<1>1. e = {x[t] : t \in D}
  BY DEF ExportTasks
<1>2. /\ IsFiniteSet(D) /\ x = [t \in D |-> x[t]] /\ tm = [tasks |-> x, next |-> tm.next]
      /\ tm.next \in Nat \ {0}
      /\ tm.next = 1 \/ \E t \in D : x[t].sequence = tm.next - 1
  BY DEF TasksFit
<1>3. ASSUME NEW t \in D
      PROVE  /\ x[t].id = t /\ x[t].sequence \in 1 .. tm.next - 1
             /\ ValidTaskRecord(x[t])
  <2>1. TaskFits(x[t], t, tm.next)
    BY DEF TasksFit
  <2>2. x[t].id = t
    BY <2>1 DEF TaskFits
  <2>3. /\ x[t].sequence \in 1 .. tm.next - 1 /\ x[t].generation \in Nat \ {0}
        /\ x[t].state = "WAITING" <=> x[t].store = NoStore
        /\ x[t].state \in {"WAITING", "RUNNING"} => x[t].result = NoPayload
    BY <2>1 DEF TaskFits
  <2> HIDE DEF x
  <2>4. QED BY <1>2, <2>2, <2>3 DEF ValidTaskRecord
<1>4. Cardinality(e) <= Cardinality(D)
  BY <1>1, <1>2, ImageCardinality
<1> HIDE DEF x, e
<1>5. CanRestoreTasks(e)
  BY <1>1, <1>3 DEF CanRestoreTasks
<1>6. [t \in {r.id : r \in e} |-> CHOOSE r \in e : r.id = t] = x
  <2>1. {r.id : r \in e} = D
    BY <1>1, <1>3
  <2>2. ASSUME NEW t \in D PROVE (CHOOSE r \in e : r.id = t) = x[t]
    <3>1. x[t] \in e /\ \A r \in e : r.id = t <=> r = x[t]
      BY <1>1, <1>3
    <3>2. QED BY <3>1
  <2>3. QED BY <1>2, <2>1, <2>2
<1>7. (CHOOSE n \in {1} \cup {r.sequence + 1 : r \in e} : \A r \in e : r.sequence < n)
        = tm.next
  <2> DEFINE N == {1} \cup {r.sequence + 1 : r \in e}
  <2>1. \A r \in e : r.sequence \in 1 .. tm.next - 1
    BY <1>1, <1>3
  <2>2. tm.next \in N /\ \A r \in e : r.sequence < tm.next
    <3>1. CASE tm.next = 1
      BY <1>2, <2>1, <3>1
    <3>2. CASE \E t \in D : x[t].sequence = tm.next - 1
      <4>1. PICK r \in e : r.sequence = tm.next - 1
        BY <1>1, <3>2
      <4>2. r.sequence + 1 = tm.next /\ r.sequence + 1 \in N
        BY <1>2, <4>1
      <4>3. QED BY <1>2, <2>1, <4>2
    <3>3. QED BY <1>2, <3>1, <3>2
  <2>3. ASSUME NEW n \in N, \A r \in e : r.sequence < n PROVE n = tm.next
    <3>1. n \in Nat \ {0} /\ n <= tm.next
      BY <1>2, <2>1
    <3>2. CASE tm.next = 1
      BY <3>1, <3>2
    <3>3. CASE \E t \in D : x[t].sequence = tm.next - 1
      <4>1. PICK r \in e : r.sequence = tm.next - 1
        BY <1>1, <3>3
      <4>2. tm.next - 1 < n
        BY <2>3, <4>1
      <4>3. QED BY <1>2, <3>1, <4>2
    <3>4. QED BY <1>2, <3>2, <3>3
  <2> HIDE DEF N
  <2>4. (CHOOSE n \in N : \A r \in e : r.sequence < n) = tm.next
    BY <2>2, <2>3
  <2>5. QED BY <2>4 DEF N
<1>8. RestoreTasks(e) = tm
  BY <1>2, <1>6, <1>7 DEF RestoreTasks
<1>9. QED BY <1>4, <1>5, <1>8 DEF e

LEMMA ExportsFinite ==
  /\ \A g : RegistryFits(g) => IsFiniteSet(ExportStores(g))
  /\ \A tm : TasksFit(tm) => IsFiniteSet(ExportTasks(tm))
<1>1. ASSUME NEW g, RegistryFits(g) PROVE IsFiniteSet(ExportStores(g))
  <2> DEFINE x == [s \in DOMAIN g.stores |-> FromPersistent(g.stores[s])]
  <2>1. /\ DOMAIN x = DOMAIN g.stores
        /\ \A s \in DOMAIN x : x[s] = FromPersistent(g.stores[s])
    OBVIOUS
  <2> HIDE DEF x
  <2>2. IsFiniteSet(DOMAIN x)
    BY <1>1, <2>1 DEF RegistryFits
  <2>3. ExportStores(g) = {x[s] : s \in DOMAIN x}
    BY <2>1 DEF ExportStores
  <2>4. QED BY <2>2, <2>3, ImageCardinality
<1>2. ASSUME NEW tm, TasksFit(tm) PROVE IsFiniteSet(ExportTasks(tm))
  BY <1>2, ImageCardinality DEF ExportTasks, TasksFit
<1>3. QED BY <1>1, <1>2

LEMMA SnapshotFollows == ReplicasFit => SnapshotFaithful
<1> SUFFICES ASSUME ReplicasFit, NEW n \in Node, CanCreateSnapshot(sm[n]),
                    Cardinality(DOMAIN sm[n].records) <= SnapshotCap
             PROVE  LET snapshot == CreateSnapshot(sm[n])
                        restored == RestoreSnapshot(snapshot)
                    IN  /\ CanRestoreSnapshot(snapshot)
                        /\ restored.records = sm[n].records
                        /\ restored.tasks = sm[n].tasks
                        /\ restored.registry.index = sm[n].registry.index
                        /\ ExportStores(restored.registry) = ExportStores(sm[n].registry)
  BY DEF SnapshotFaithful
<1> DEFINE m == sm[n]
           stores == ExportStores(m.registry)
           tasks == ExportTasks(m.tasks)
           snapshot == CreateSnapshot(m)
           restored == RestoreSnapshot(snapshot)
<1>1. Machine(m)
  BY DEF ReplicasFit
<1>2. /\ CanRestoreStores(stores) /\ RestoreStores(stores).index = m.registry.index
      /\ ExportStores(RestoreStores(stores)) = stores
      /\ Cardinality(stores) <= Cardinality(DOMAIN m.registry.stores)
  BY <1>1, StoresRestored DEF Machine
<1>3. /\ CanRestoreTasks(tasks) /\ RestoreTasks(tasks) = m.tasks
      /\ Cardinality(tasks) <= Cardinality(DOMAIN m.tasks.tasks)
  BY <1>1, TasksRestored DEF Machine
<1>4. snapshot = [last |-> m.last, records |-> m.records, stores |-> stores,
                  tasks |-> tasks]
  BY DEF CreateSnapshot
<1>5. restored = [records |-> snapshot.records, registry |-> RestoreStores(snapshot.stores),
                  tasks |-> RestoreTasks(snapshot.tasks), last |-> snapshot.last]
  BY DEF RestoreSnapshot
<1> HIDE DEF snapshot, restored, stores, tasks
<1>6. /\ snapshot.last = m.last /\ snapshot.records = m.records
      /\ snapshot.stores = stores /\ snapshot.tasks = tasks
  BY <1>4
<1>7. Cardinality(stores) <= SnapshotCap /\ Cardinality(tasks) <= SnapshotCap
  <2>1. IsFiniteSet(DOMAIN m.registry.stores) /\ IsFiniteSet(DOMAIN m.tasks.tasks)
    BY <1>1 DEF Machine, RegistryFits, TasksFit
  <2>2. IsFiniteSet(stores) /\ IsFiniteSet(tasks)
    BY <1>1, ExportsFinite DEF stores, tasks, Machine
  <2>3. /\ Cardinality(stores) \in Nat /\ Cardinality(tasks) \in Nat
        /\ Cardinality(DOMAIN m.registry.stores) \in Nat
        /\ Cardinality(DOMAIN m.tasks.tasks) \in Nat
    BY <2>1, <2>2, FS_CardinalityType
  <2>4. /\ Cardinality(DOMAIN m.registry.stores) <= SnapshotCap
        /\ Cardinality(DOMAIN m.tasks.tasks) <= SnapshotCap
    BY DEF CanCreateSnapshot
  <2>5. QED BY <1>2, <1>3, <2>3, <2>4, ReplicaAssumption
<1>8. \A x \in DOMAIN m.records :
         m.records[x].generation > 0 /\ m.records[x].index \in 1 .. m.last
  <2> SUFFICES ASSUME NEW x \in DOMAIN m.records
               PROVE  m.records[x].generation > 0 /\ m.records[x].index \in 1 .. m.last
    OBVIOUS
  <2>1. RecordFits(m.records[x], m.last)
    BY <1>1 DEF Machine
  <2>2. m.records[x].generation \in Nat \ {0} /\ m.records[x].index \in 1 .. m.last
    BY <2>1 DEF RecordFits
  <2>3. QED BY <2>2
<1>9. CanRestoreSnapshot(snapshot)
  BY <1>2, <1>3, <1>6, <1>7, <1>8 DEF CanRestoreSnapshot
<1>10. /\ restored.records = m.records /\ restored.tasks = m.tasks
       /\ restored.registry = RestoreStores(stores)
  BY <1>3, <1>5, <1>6
<1>11. QED BY <1>2, <1>9, <1>10 DEF snapshot, restored, stores

\* A step of a replica moves its tasks only as TaskMoves says.
TasksMove ==
    \A n \in Node : \A t \in DOMAIN sm[n].tasks.tasks :
        TaskMoves(sm[n].tasks.tasks[t], sm'[n].tasks.tasks[t])

LEMMA TaskStays ==
  ASSUME NEW old
  PROVE  TaskMoves(old, old)
BY DEF TaskMoves

LEMMA PassMovesTasks ==
  ASSUME ReplicasFit, NEW n \in Node, NEW ok, PassNext(n, ok)
  PROVE  TasksMove
BY PassKeepsReplicas, TaskStays DEF Passed, TasksMove

LEMMA HeartbeatMovesTasks ==
  ASSUME ReplicasFit, NEW n \in Node, NEW s, NEW b \in Heartbeats, Heartbeat(n, s, b)
  PROVE  TasksMove
<1> DEFINE k == UpdateHeartbeat(sm[n].registry, s, b)
<1>1. sm' = [sm EXCEPT ![n] = [sm[n] EXCEPT !.registry = k]]
  BY DEF Heartbeat
<1> HIDE DEF k
<1>2. DOMAIN sm = Node /\ Machine(sm[n])
  BY DEF ReplicasFit
<1>3. \A m \in Node : sm'[m].tasks = sm[m].tasks
  BY <1>1, <1>2 DEF Machine
<1>4. QED BY <1>3, TaskStays DEF TasksMove

LEMMA ReplicaStep ==
  ASSUME ReplicasFit, [ReplicaNext]_replicaVars
  PROVE  ReplicasFit' /\ TasksMove
<1>1. CASE \E entry \in Entry : Append_(entry) /\ UNCHANGED <<sm, tried, outcome>>
  <2>1. PICK entry \in Entry : Append_(entry) /\ UNCHANGED <<sm, tried, outcome>>
    BY <1>1
  <2>2. ReplicasFit'
    BY <2>1, CommitKeepsReplicas, ReplicaAssumption
  <2>3. QED BY <2>1, <2>2, TaskStays DEF TasksMove
<1>2. ASSUME NEW n \in Node, NEW ok, PassNext(n, ok)
      PROVE  ReplicasFit' /\ TasksMove
  BY <1>2, PassKeepsReplicas, PassMovesTasks DEF Passed
<1>3. ASSUME NEW n \in Node, NEW s, NEW b \in Heartbeats, Heartbeat(n, s, b)
      PROVE  ReplicasFit' /\ TasksMove
  BY <1>3, HeartbeatKeepsReplicas, HeartbeatMovesTasks
<1>4. CASE UNCHANGED replicaVars
  BY <1>4, TaskStays DEF replicaVars, ReplicasFit, TasksMove
<1>5. QED BY <1>1, <1>2, <1>3, <1>4 DEF ReplicaNext

\* Every replica holds what one history of the committed log gives, whatever
\* heartbeats its node has heard and whenever its apply thread ran.
THEOREM ReplicasFollowLog == ReplicaSpec => []ReplicasFit
<1>1. ReplicaInit => ReplicasFit
  BY ReplicasStart
<1>2. ReplicasFit /\ [ReplicaNext]_replicaVars => ReplicasFit'
  BY ReplicaStep
<1>3. QED BY <1>1, <1>2, PTL DEF ReplicaSpec

\* Two replicas that passed on the same entries hold the same.
THEOREM ReplicasAgreeAlways == ReplicaSpec => []ReplicasAgree
BY ReplicasFollowLog, AgreeFollows, PTL

\* A snapshot gives back the state it was made of.
THEOREM SnapshotsFaithful == ReplicaSpec => []SnapshotFaithful
BY ReplicasFollowLog, SnapshotFollows, PTL

\* A refused command stops every replica, at the same entry.
THEOREM RefusalsFinal == ReplicaSpec => []StopsAtFirstRefusal
BY ReplicasFollowLog, StopsFollows, PTL

\* A task is handed out by one poll, to the store that runs it.
THEOREM TasksHandedOutOnce == ReplicaSpec => []HandedOutOnce
BY ReplicasFollowLog, HandedOutFollows, PTL

\* A running task keeps its store, and a result is final.
THEOREM ResultsFinal == ReplicaSpec => ResultFinal
<1>1. ReplicasFit /\ [ReplicaNext]_replicaVars
        => [\A n \in Node : \A t \in DOMAIN sm[n].tasks.tasks :
               LET old == sm[n].tasks.tasks[t]
                   new == sm'[n].tasks.tasks[t]
               IN  /\ old.state # "WAITING" => new.store = old.store
                   /\ IsTerminal(old.state) => new = old]_replicaVars
  BY ReplicaStep DEF TasksMove, TaskMoves
<1>2. QED BY <1>1, ReplicasFollowLog, PTL DEF ReplicaSpec, ResultFinal

\* No replica is ahead of the log, and what it would export can be restored.
LEMMA TypesFollow == ReplicasFit /\ Len(log) <= MaxLog => ReplicaTypeOK
<1> SUFFICES ASSUME ReplicasFit, Len(log) <= MaxLog PROVE ReplicaTypeOK
  OBVIOUS
<1>1. Len(outcome) <= Len(log)
  BY DEF ReplicasFit
<1>2. ASSUME NEW n \in Node
      PROVE  /\ tried[n] \in 0 .. Len(outcome) /\ sm[n].last \in 0 .. tried[n]
             /\ CanRestoreStores(ExportStores(sm[n].registry))
             /\ TasksFit(sm[n].tasks) /\ CanRestoreTasks(ExportTasks(sm[n].tasks))
  <2>1. PICK m : Same(sm[n], m) /\ Upto(m, tried[n], log, outcome)
    BY ReplicaFacts
  <2>2. sm[n].last \in 0 .. tried[n]
    BY <2>1 DEF Same, Upto, Refusals
  <2>3. tried[n] \in 0 .. Len(outcome)
        /\ RegistryFits(sm[n].registry) /\ TasksFit(sm[n].tasks)
    BY ReplicaFacts DEF Machine
  <2>4. QED BY <2>2, <2>3, StoresRestored, TasksRestored
<1>3. ASSUME NEW n \in Node, NEW r \in ExportTasks(sm[n].tasks)
      PROVE  ValidTaskRecord(r) /\ r.sequence < sm[n].tasks.next
  <2>1. PICK t \in DOMAIN sm[n].tasks.tasks : r = sm[n].tasks.tasks[t]
    BY DEF ExportTasks
  <2>2. TaskFits(r, t, sm[n].tasks.next) /\ sm[n].tasks.next \in Nat
    BY <1>2, <2>1 DEF TasksFit
  <2>3. r.sequence < sm[n].tasks.next
    BY <2>2 DEF TaskFits
  <2>4. ValidTaskRecord(r)
    BY <1>2 DEF CanRestoreTasks
  <2>5. QED BY <2>3, <2>4
<1>4. QED BY <1>1, <1>2, <1>3 DEF ReplicaTypeOK

\* Every reachable replica has its type, and its export passes the checks of a restore.
THEOREM ReplicaTypesCorrect == ReplicaSpec => []ReplicaTypeOK
<1>1. ReplicaInit => Len(log) <= MaxLog
  BY ReplicaAssumption DEF ReplicaInit
<1>2. ReplicasFit /\ Len(log) <= MaxLog /\ [ReplicaNext]_replicaVars => (Len(log) <= MaxLog)'
  <2> SUFFICES ASSUME ReplicasFit, Len(log) <= MaxLog, [ReplicaNext]_replicaVars
               PROVE  Len(log') <= MaxLog
    OBVIOUS
  <2>1. ASSUME NEW entry \in Entry, Append_(entry) PROVE Len(log') <= MaxLog
    <3>1. IsSequence(log)
      BY DEF ReplicasFit
    <3>2. Len(log) \in Nat /\ Len(log') = Len(log) + 1 /\ Len(log) < MaxLog
      BY <2>1, <3>1, SequenceFacts DEF Append_
    <3>3. QED BY <3>2, ReplicaAssumption
  <2>2. CASE UNCHANGED log
    BY <2>2
  <2>3. QED BY <2>1, <2>2 DEF ReplicaNext, PassNext, Heartbeat, replicaVars
<1>3. ReplicasFit /\ Len(log) <= MaxLog => ReplicaTypeOK
  BY TypesFollow
<1>4. QED BY <1>1, <1>2, <1>3, ReplicasFollowLog, PTL DEF ReplicaSpec

----------------------------------------------------------------------------
\* The services: where a proposal is.

\* What node n holds of the committed log and of its own proposals.
Held(n) == [log |-> log, events |-> events[n], tail |-> tail[n], known |-> known[n]]

\* The target of a store command is made of its kind.
Derived(p) == p.reads => p.cmd.target[1] = p.cmd.kind

IsProposal(p, n, next) ==
    /\ p.node = n /\ p.pid \in 1 .. next - 1
    /\ ValidCommand(p.cmd) /\ Derived(p)

Queued(v, pid) == \E k \in DOMAIN v.events : v.events[k].pid = pid

\* The proposal pid of n is at index i, or will be if n gets to commit it.
Placed(v, n, pid, i) ==
    \/ \E k \in DOMAIN v.tail : v.tail[k].pid = pid /\ i = v.known + k
    \/ i \in DOMAIN v.log /\ v.log[i].node = n /\ v.log[i].pid = pid

\* Every proposal is in one place.
HeldFits(v, n, next) ==
    /\ IsSequence(v.log) /\ IsSequence(v.events) /\ IsSequence(v.tail)
    /\ v.known \in 0 .. Len(v.log) /\ next \in Nat \ {0}
    /\ \A k \in DOMAIN v.events : IsProposal(v.events[k], n, next)
    /\ \A k \in DOMAIN v.tail : IsProposal(v.tail[k], n, next)
    /\ \A i \in DOMAIN v.log : v.log[i].node = n => v.log[i].pid \in 1 .. next - 1
    /\ \A k, l \in DOMAIN v.events : v.events[k].pid = v.events[l].pid => k = l
    /\ \A pid, i : Placed(v, n, pid, i) => ~Queued(v, pid)
    /\ \A pid, i, j : Placed(v, n, pid, i) /\ Placed(v, n, pid, j) => i = j

\* A proposal that has left the queue of n does not return to it, and is placed
\* nowhere else.
Moves(v, w, n, next) ==
    \A pid \in 1 .. next - 1 :
        ~Queued(v, pid) => /\ ~Queued(w, pid)
                           /\ \A i : Placed(w, n, pid, i) => Placed(v, n, pid, i)

\* Index i is what proposal pid of n has been given.
PairFits(v, n, next, pid, i) ==
    /\ pid \in 1 .. next - 1
    /\ ~Queued(v, pid)
    /\ \A j : Placed(v, n, pid, j) => j = i

LEMMA PairStays ==
  ASSUME NEW v, NEW w, NEW n, NEW next \in Nat, NEW more \in Nat, next <= more,
         Moves(v, w, n, next), NEW pid, NEW i, PairFits(v, n, next, pid, i)
  PROVE  PairFits(w, n, more, pid, i)
BY DEF PairFits, Moves

LEMMA TailFacts ==
  ASSUME NEW s, IsSequence(s), s # <<>>
  PROVE  /\ IsSequence(Tail(s)) /\ Len(s) \in Nat \ {0} /\ Len(Tail(s)) = Len(s) - 1
         /\ DOMAIN s = 1 .. Len(s) /\ DOMAIN Tail(s) = 1 .. Len(s) - 1
         /\ Head(s) = s[1] /\ \A k \in 1 .. Len(s) - 1 : Tail(s)[k] = s[k + 1]
<1>1. PICK S : s \in Seq(S)
  BY DEF IsSequence
<1>2. Tail(s) \in Seq(S)
  BY <1>1
<1>3. QED BY <1>1, <1>2 DEF IsSequence

LEMMA NoneHeld ==
  ASSUME NEW v, NEW n,
         v = [log |-> <<>>, events |-> <<>>, tail |-> <<>>, known |-> 0]
  PROVE  HeldFits(v, n, 1)
<1>1. IsSequence(<<>>)
  BY DEF IsSequence
<1>2. v.log = <<>> /\ v.events = <<>> /\ v.tail = <<>> /\ v.known = 0
  OBVIOUS
<1>3. Len(<<>>) = 0 /\ DOMAIN <<>> = {}
  OBVIOUS
<1>4. QED BY <1>1, <1>2, <1>3 DEF HeldFits, Placed, Queued

\* A call is made.
LEMMA HeldCalls ==
  ASSUME NEW v, NEW n, NEW next, HeldFits(v, n, next), NEW p, p.pid = next,
         IsProposal(p, n, next + 1),
         NEW w, w = [log |-> v.log, events |-> Append(v.events, p), tail |-> v.tail,
                     known |-> v.known]
  PROVE  HeldFits(w, n, next + 1) /\ Moves(v, w, n, next)
<1> DEFINE e == Append(v.events, p)
<1>1. w.log = v.log /\ w.tail = v.tail /\ w.known = v.known /\ w.events = e
  OBVIOUS
<1>2. next \in Nat \ {0} /\ IsSequence(v.events)
  BY DEF HeldFits
<1>3. /\ Len(v.events) \in Nat /\ DOMAIN v.events = 1 .. Len(v.events)
      /\ IsSequence(e) /\ DOMAIN e = 1 .. Len(v.events) + 1
      /\ \A k \in 1 .. Len(v.events) : e[k] = v.events[k]
      /\ e[Len(v.events) + 1] = p
  <2>1. IsSequence(e) /\ Len(e) = Len(v.events) + 1
    BY <1>2, SequenceFacts
  <2>2. DOMAIN e = 1 .. Len(e)
    BY <2>1, SequenceFacts
  <2>3. QED BY <1>2, <2>1, <2>2, SequenceFacts
<1> HIDE DEF e
<1>4. DOMAIN e = DOMAIN v.events \cup {Len(v.events) + 1}
  BY <1>3
<1>5. \A pid, i : Placed(w, n, pid, i) <=> Placed(v, n, pid, i)
  BY <1>1 DEF Placed
<1>6. \A q : IsProposal(q, n, next) => IsProposal(q, n, next + 1) /\ q.pid # next
  BY <1>2 DEF IsProposal
<1>7. \A k \in DOMAIN v.events : v.events[k].pid # next
  BY <1>6 DEF HeldFits
<1>8. \A pid : Queued(w, pid) => Queued(v, pid) \/ pid = next
  BY <1>1, <1>3, <1>4 DEF Queued
<1>9. \A pid, i : Placed(v, n, pid, i) => pid # next
  <2> SUFFICES ASSUME NEW pid, NEW i, Placed(v, n, pid, i) PROVE pid # next
    OBVIOUS
  <2>1. CASE \E k \in DOMAIN v.tail : v.tail[k].pid = pid /\ i = v.known + k
    BY <1>6, <2>1 DEF HeldFits
  <2>2. CASE i \in DOMAIN v.log /\ v.log[i].node = n /\ v.log[i].pid = pid
    BY <1>2, <2>2 DEF HeldFits
  <2>3. QED BY <2>1, <2>2 DEF Placed
<1>10. Moves(v, w, n, next)
  <2>1. \A pid \in 1 .. next - 1 : pid # next
    BY <1>2
  <2>2. QED BY <1>5, <1>8, <2>1 DEF Moves
<1>11. \A k \in DOMAIN w.events : IsProposal(w.events[k], n, next + 1)
  BY <1>1, <1>3, <1>4, <1>6 DEF HeldFits
<1>12. \A k, l \in DOMAIN w.events : w.events[k].pid = w.events[l].pid => k = l
  BY <1>1, <1>3, <1>4, <1>7 DEF HeldFits
<1>13. \A pid, i : Placed(w, n, pid, i) => ~Queued(w, pid)
  BY <1>5, <1>8, <1>9 DEF HeldFits
<1>14. /\ \A k \in DOMAIN w.tail : IsProposal(w.tail[k], n, next + 1)
       /\ \A pid, i, j : Placed(w, n, pid, i) /\ Placed(w, n, pid, j) => i = j
  BY <1>1, <1>5, <1>6 DEF HeldFits
<1>15. \A i \in DOMAIN w.log : w.log[i].node = n => w.log[i].pid \in 1 .. (next + 1) - 1
  BY <1>1, <1>2 DEF HeldFits
<1>16. /\ IsSequence(w.log) /\ IsSequence(w.events) /\ IsSequence(w.tail)
       /\ w.known \in 0 .. Len(w.log)
  <2>1. IsSequence(v.log) /\ IsSequence(v.tail) /\ v.known \in 0 .. Len(v.log)
    BY DEF HeldFits
  <2>2. QED BY <1>1, <1>3, <2>1
<1>17. HeldFits(w, n, next + 1)
  <2> DEFINE more == next + 1
  <2>1. more \in Nat \ {0}
    BY <1>2
  <2>2. /\ \A k \in DOMAIN w.events : IsProposal(w.events[k], n, more)
        /\ \A k \in DOMAIN w.tail : IsProposal(w.tail[k], n, more)
        /\ \A i \in DOMAIN w.log : w.log[i].node = n => w.log[i].pid \in 1 .. more - 1
    BY <1>11, <1>14, <1>15
  <2> HIDE DEF more
  <2>3. HeldFits(w, n, more)
    BY <1>12, <1>13, <1>14, <1>16, <2>1, <2>2 DEF HeldFits
  <2>4. QED BY <2>3 DEF more
<1>18. QED BY <1>10, <1>17

LEMMA PlacedGiven ==
  ASSUME NEW v, NEW n, NEW next, HeldFits(v, n, next), NEW pid, NEW i,
         Placed(v, n, pid, i)
  PROVE  pid \in 1 .. next - 1
<1>1. CASE \E k \in DOMAIN v.tail : v.tail[k].pid = pid /\ i = v.known + k
  BY <1>1 DEF HeldFits, IsProposal
<1>2. CASE i \in DOMAIN v.log /\ v.log[i].node = n /\ v.log[i].pid = pid
  BY <1>2 DEF HeldFits
<1>3. QED BY <1>1, <1>2 DEF Placed

LEMMA HeldShrinks ==
  ASSUME NEW v, NEW n, NEW next, HeldFits(v, n, next), NEW w,
         IsSequence(w.log), IsSequence(w.events), IsSequence(w.tail),
         w.known \in 0 .. Len(w.log),
         \A k \in DOMAIN w.events : IsProposal(w.events[k], n, next),
         \A k \in DOMAIN w.tail : IsProposal(w.tail[k], n, next),
         \A k, l \in DOMAIN w.events : w.events[k].pid = w.events[l].pid => k = l,
         \A pid : Queued(w, pid) => Queued(v, pid),
         \A pid, i : Placed(w, n, pid, i) => Placed(v, n, pid, i)
  PROVE  HeldFits(w, n, next) /\ Moves(v, w, n, next)
<1>1. next \in Nat \ {0}
  BY DEF HeldFits
<1>2. ASSUME NEW i \in DOMAIN w.log, w.log[i].node = n
      PROVE  w.log[i].pid \in 1 .. next - 1
  <2>1. Placed(w, n, w.log[i].pid, i)
    BY <1>2 DEF Placed
  <2>2. Placed(v, n, w.log[i].pid, i)
    BY <2>1
  <2>3. QED BY <2>2, PlacedGiven
<1>3. /\ \A pid, i : Placed(v, n, pid, i) => ~Queued(v, pid)
      /\ \A pid, i, j : Placed(v, n, pid, i) /\ Placed(v, n, pid, j) => i = j
  BY DEF HeldFits
<1>4. /\ \A pid, i : Placed(w, n, pid, i) => ~Queued(w, pid)
      /\ \A pid, i, j : Placed(w, n, pid, i) /\ Placed(w, n, pid, j) => i = j
  BY <1>3
<1>5. HeldFits(w, n, next)
  BY <1>1, <1>2, <1>4 DEF HeldFits
<1>6. QED BY <1>5 DEF Moves

\* Proposal p leaves the queue.
Unqueued(v, w, n, next, p) ==
    /\ IsSequence(w.events) /\ IsProposal(p, n, next)
    /\ \A k \in DOMAIN w.events : IsProposal(w.events[k], n, next)
    /\ \A k, l \in DOMAIN w.events : w.events[k].pid = w.events[l].pid => k = l
    /\ \A pid : Queued(w, pid) => Queued(v, pid)
    /\ Queued(v, p.pid) /\ ~Queued(w, p.pid)
    /\ \A pid : Queued(v, pid) => Queued(w, pid) \/ pid = p.pid

LEMMA QueueShrinks ==
  ASSUME NEW v, NEW n, NEW next, HeldFits(v, n, next), v.events # <<>>,
         NEW w, w.events = Tail(v.events)
  PROVE  Unqueued(v, w, n, next, Head(v.events))
<1> DEFINE e == v.events
           f == w.events
<1>1. /\ IsSequence(f) /\ Len(e) \in Nat \ {0}
      /\ DOMAIN e = 1 .. Len(e) /\ DOMAIN f = 1 .. Len(e) - 1
      /\ Head(e) = e[1] /\ \A k \in 1 .. Len(e) - 1 : f[k] = e[k + 1]
  BY TailFacts DEF HeldFits
<1>2. /\ \A k \in DOMAIN e : IsProposal(e[k], n, next)
      /\ \A k, l \in DOMAIN e : e[k].pid = e[l].pid => k = l
  BY DEF HeldFits
<1>3. \A pid : (Queued(v, pid) <=> \E k \in DOMAIN e : e[k].pid = pid)
               /\ (Queued(w, pid) <=> \E k \in DOMAIN f : f[k].pid = pid)
  BY DEF Queued
<1> HIDE DEF e, f
<1>4. \A k \in DOMAIN f : k + 1 \in DOMAIN e /\ f[k] = e[k + 1] /\ k + 1 # 1 /\ k \in Nat
  BY <1>1
<1>5. 1 \in DOMAIN e /\ \A k \in DOMAIN e : k = 1 \/ (k - 1 \in DOMAIN f /\ e[k] = f[k - 1])
  BY <1>1
<1>6. \A k, l \in DOMAIN f : f[k].pid = f[l].pid => k = l
  BY <1>2, <1>4
<1>7. \A k \in DOMAIN f : IsProposal(f[k], n, next)
  BY <1>2, <1>4
<1>8. \A pid : Queued(w, pid) => Queued(v, pid)
  BY <1>3, <1>4
<1>9. Queued(v, e[1].pid) /\ ~Queued(w, e[1].pid)
  BY <1>2, <1>3, <1>4, <1>5
<1>10. \A pid : Queued(v, pid) => Queued(w, pid) \/ pid = e[1].pid
  BY <1>3, <1>5
<1>11. IsProposal(e[1], n, next)
  BY <1>2, <1>5
<1>12. IsSequence(f) /\ Head(e) = e[1]
  BY <1>1
<1>13. QED BY <1>6, <1>7, <1>8, <1>9, <1>10, <1>11, <1>12 DEF Unqueued, e, f

LEMMA HeldRefuses ==
  ASSUME NEW v, NEW n, NEW next, HeldFits(v, n, next), v.events # <<>>,
         NEW w, w = [log |-> v.log, events |-> Tail(v.events), tail |-> v.tail,
                     known |-> v.known]
  PROVE  HeldFits(w, n, next) /\ Moves(v, w, n, next)
<1>1. w.log = v.log /\ w.events = Tail(v.events) /\ w.tail = v.tail /\ w.known = v.known
  OBVIOUS
<1>2. \A pid, i : Placed(w, n, pid, i) => Placed(v, n, pid, i)
  BY <1>1 DEF Placed
<1>3. /\ IsSequence(w.log) /\ IsSequence(w.tail) /\ w.known \in 0 .. Len(w.log)
      /\ \A k \in DOMAIN w.tail : IsProposal(w.tail[k], n, next)
  BY <1>1 DEF HeldFits
<1>4. /\ IsSequence(w.events)
      /\ \A k \in DOMAIN w.events : IsProposal(w.events[k], n, next)
      /\ \A k, l \in DOMAIN w.events : w.events[k].pid = w.events[l].pid => k = l
      /\ \A pid : Queued(w, pid) => Queued(v, pid)
  <2>1. Unqueued(v, w, n, next, Head(v.events))
    BY <1>1, QueueShrinks
  <2>2. QED BY <2>1 DEF Unqueued
<1>5. QED BY <1>2, <1>3, <1>4, HeldShrinks

LEMMA HeldAccepts ==
  ASSUME NEW v, NEW n, NEW next, HeldFits(v, n, next), v.events # <<>>,
         NEW w, w = [log |-> v.log, events |-> Tail(v.events),
                     tail |-> Append(v.tail, Head(v.events)), known |-> v.known]
  PROVE  /\ HeldFits(w, n, next) /\ Moves(v, w, n, next)
         /\ PairFits(w, n, next, Head(v.events).pid, v.known + Len(v.tail) + 1)
<1> DEFINE p == Head(v.events)
           t == Append(v.tail, p)
           a == v.known + Len(v.tail) + 1
<1>1. w.log = v.log /\ w.events = Tail(v.events) /\ w.tail = t /\ w.known = v.known
  OBVIOUS
<1>2. /\ IsSequence(w.events) /\ IsProposal(p, n, next)
      /\ \A k \in DOMAIN w.events : IsProposal(w.events[k], n, next)
      /\ \A k, l \in DOMAIN w.events : w.events[k].pid = w.events[l].pid => k = l
      /\ \A pid : Queued(w, pid) => Queued(v, pid)
      /\ Queued(v, p.pid) /\ ~Queued(w, p.pid)
      /\ \A pid : Queued(v, pid) => Queued(w, pid) \/ pid = p.pid
  <2>1. Unqueued(v, w, n, next, p)
    BY <1>1, QueueShrinks
  <2> HIDE DEF p
  <2>2. QED BY <2>1 DEF Unqueued
<1>3. /\ IsSequence(v.log) /\ IsSequence(v.tail) /\ v.known \in 0 .. Len(v.log)
      /\ next \in Nat \ {0}
      /\ \A k \in DOMAIN v.tail : IsProposal(v.tail[k], n, next)
      /\ \A i \in DOMAIN v.log : v.log[i].node = n => v.log[i].pid \in 1 .. next - 1
      /\ \A pid, i : Placed(v, n, pid, i) => ~Queued(v, pid)
      /\ \A pid, i, j : Placed(v, n, pid, i) /\ Placed(v, n, pid, j) => i = j
  BY DEF HeldFits
<1> HIDE DEF p
<1>4. /\ IsSequence(t) /\ Len(t) = Len(v.tail) + 1 /\ DOMAIN t = 1 .. Len(t)
      /\ Len(v.tail) \in Nat /\ DOMAIN v.tail = 1 .. Len(v.tail)
      /\ \A k \in 1 .. Len(v.tail) : t[k] = v.tail[k]
      /\ t[Len(v.tail) + 1] = p
  BY <1>3, SequenceFacts
<1> HIDE DEF t
<1>5. DOMAIN t = DOMAIN v.tail \cup {Len(v.tail) + 1}
  BY <1>4
<1>6. \A k \in DOMAIN w.tail : IsProposal(w.tail[k], n, next)
  BY <1>1, <1>2, <1>3, <1>4, <1>5
<1>7. a = v.known + (Len(v.tail) + 1)
  BY <1>3, <1>4
<1> HIDE DEF a
<1>8. \A pid, i : Placed(w, n, pid, i) => Placed(v, n, pid, i) \/ (pid = p.pid /\ i = a)
  BY <1>1, <1>4, <1>5, <1>7 DEF Placed
<1>9. \A i : ~Placed(v, n, p.pid, i)
  BY <1>2, <1>3
<1>10. \A pid, i : Placed(w, n, pid, i) => ~Queued(w, pid)
  BY <1>2, <1>3, <1>8
<1>11. \A pid, i, j : Placed(w, n, pid, i) /\ Placed(w, n, pid, j) => i = j
  BY <1>3, <1>8, <1>9
<1>12. HeldFits(w, n, next)
  BY <1>1, <1>2, <1>3, <1>4, <1>6, <1>10, <1>11 DEF HeldFits
<1>13. Moves(v, w, n, next)
  <2> SUFFICES ASSUME NEW pid \in 1 .. next - 1, ~Queued(v, pid)
               PROVE  /\ ~Queued(w, pid)
                      /\ \A i : Placed(w, n, pid, i) => Placed(v, n, pid, i)
    BY DEF Moves
  <2>1. pid # p.pid
    BY <1>2
  <2>2. QED BY <1>2, <1>8, <2>1
<1>14. PairFits(w, n, next, p.pid, a)
  BY <1>2, <1>8, <1>9 DEF PairFits, IsProposal
<1>15. QED BY <1>12, <1>13, <1>14 DEF p, a

LEMMA HeldLearns ==
  ASSUME NEW v, NEW n, NEW next, HeldFits(v, n, next), v.known < Len(v.log),
         NEW w, w = [log |-> v.log, events |-> v.events, tail |-> <<>>,
                     known |-> v.known + 1]
  PROVE  HeldFits(w, n, next) /\ Moves(v, w, n, next)
<1>1. w.log = v.log /\ w.events = v.events /\ w.tail = <<>> /\ w.known = v.known + 1
  OBVIOUS
<1>2. IsSequence(w.tail) /\ DOMAIN w.tail = {}
  BY <1>1 DEF IsSequence
<1>3. /\ IsSequence(w.log) /\ IsSequence(w.events)
      /\ \A k \in DOMAIN w.events : IsProposal(w.events[k], n, next)
      /\ \A k, l \in DOMAIN w.events : w.events[k].pid = w.events[l].pid => k = l
  BY <1>1 DEF HeldFits
<1>4. w.known \in 0 .. Len(w.log)
  <2>1. IsSequence(v.log) /\ v.known \in 0 .. Len(v.log)
    BY DEF HeldFits
  <2>2. Len(v.log) \in Nat
    BY <2>1, SequenceFacts
  <2>3. QED BY <1>1, <2>1, <2>2
<1>5. \A pid : Queued(w, pid) => Queued(v, pid)
  BY <1>1 DEF Queued
<1>6. \A pid, i : Placed(w, n, pid, i) => Placed(v, n, pid, i)
  BY <1>1, <1>2 DEF Placed
<1>7. \A k \in DOMAIN w.tail : IsProposal(w.tail[k], n, next)
  BY <1>2
<1>8. QED BY <1>2, <1>3, <1>4, <1>5, <1>6, <1>7, HeldShrinks

\* Node n commits the first proposal it holds.
LEMMA HeldCommits ==
  ASSUME NEW v, NEW n, NEW next, HeldFits(v, n, next), v.tail # <<>>,
         v.known = Len(v.log),
         NEW w, w = [log |-> Append(v.log, Head(v.tail)), events |-> v.events,
                     tail |-> Tail(v.tail), known |-> v.known + 1]
  PROVE  HeldFits(w, n, next) /\ Moves(v, w, n, next) /\ IsProposal(Head(v.tail), n, next)
<1> DEFINE L == Append(v.log, Head(v.tail))
<1>1. /\ w.log = L /\ w.events = v.events
      /\ w.tail = Tail(v.tail) /\ w.known = v.known + 1
  OBVIOUS
<1>2. IsSequence(v.log) /\ IsSequence(v.tail) /\ v.known \in 0 .. Len(v.log)
  BY DEF HeldFits
<1>3. /\ IsSequence(L) /\ Len(L) = Len(v.log) + 1 /\ Len(v.log) \in Nat
      /\ DOMAIN L = 1 .. Len(L) /\ DOMAIN v.log = 1 .. Len(v.log)
      /\ \A i \in 1 .. Len(v.log) : L[i] = v.log[i]
      /\ L[Len(v.log) + 1] = Head(v.tail)
  BY <1>2, SequenceFacts
<1> HIDE DEF L
<1>4. /\ IsSequence(w.tail) /\ Len(v.tail) \in Nat \ {0}
      /\ DOMAIN v.tail = 1 .. Len(v.tail) /\ DOMAIN w.tail = 1 .. Len(v.tail) - 1
      /\ Head(v.tail) = v.tail[1]
      /\ \A k \in 1 .. Len(v.tail) - 1 : w.tail[k] = v.tail[k + 1]
  BY <1>1, <1>2, TailFacts
<1>5. \A k \in DOMAIN w.tail : k + 1 \in DOMAIN v.tail /\ w.tail[k] = v.tail[k + 1] /\ k \in Nat
  BY <1>4
<1>6. 1 \in DOMAIN v.tail /\ IsProposal(v.tail[1], n, next)
  BY <1>4 DEF HeldFits
<1>7. \A k \in DOMAIN w.tail : IsProposal(w.tail[k], n, next)
  BY <1>5 DEF HeldFits
<1>8. ASSUME NEW pid, NEW i, Placed(w, n, pid, i) PROVE Placed(v, n, pid, i)
  <2>1. CASE \E k \in DOMAIN w.tail : w.tail[k].pid = pid /\ i = w.known + k
    <3>1. PICK k \in DOMAIN w.tail : w.tail[k].pid = pid /\ i = w.known + k
      BY <2>1
    <3>2. k + 1 \in DOMAIN v.tail /\ v.tail[k + 1].pid = pid /\ k \in Nat
      BY <1>5, <3>1
    <3>3. i = (v.known + 1) + k /\ v.known \in Nat
      BY <1>1, <1>2, <1>3, <3>1
    <3>4. i = v.known + (k + 1)
      <4>1. \A a, b \in Nat : (a + 1) + b = a + (b + 1)
        OBVIOUS
      <4>2. QED BY <3>2, <3>3, <4>1, Zenon
    <3>5. QED BY <3>2, <3>4 DEF Placed
  <2>2. CASE i \in DOMAIN w.log /\ w.log[i].node = n /\ w.log[i].pid = pid
    <3>1. CASE i \in 1 .. Len(v.log)
      BY <1>1, <1>3, <2>2, <3>1 DEF Placed
    <3>2. CASE i = Len(v.log) + 1
      <4>1. v.tail[1].pid = pid /\ i = v.known + 1
        BY <1>1, <1>3, <1>4, <2>2, <3>2
      <4>2. QED BY <1>6, <4>1 DEF Placed
    <3>3. QED BY <1>1, <1>3, <2>2, <3>1, <3>2
  <2>3. QED BY <1>8, <2>1, <2>2 DEF Placed
<1>9. \A pid : Queued(w, pid) => Queued(v, pid)
  BY <1>1 DEF Queued
<1>10. /\ IsSequence(w.events)
       /\ \A k \in DOMAIN w.events : IsProposal(w.events[k], n, next)
       /\ \A k, l \in DOMAIN w.events : w.events[k].pid = w.events[l].pid => k = l
  BY <1>1 DEF HeldFits
<1>11. w.known \in 0 .. Len(w.log) /\ IsSequence(w.log)
  <2>1. v.known + 1 \in 0 .. Len(v.log) + 1
    BY <1>2, <1>3
  <2>2. QED BY <1>1, <1>3, <2>1
<1>12. QED BY <1>4, <1>6, <1>7, <1>8, <1>9, <1>10, <1>11, HeldShrinks

\* Another node commits one of its own.
LEMMA HeldHears ==
  ASSUME NEW v, NEW n, NEW next, HeldFits(v, n, next), NEW p, p.node # n,
         NEW w, w = [log |-> Append(v.log, p), events |-> v.events, tail |-> v.tail,
                     known |-> v.known]
  PROVE  HeldFits(w, n, next) /\ Moves(v, w, n, next)
<1> DEFINE L == Append(v.log, p)
<1>1. w.log = L /\ w.events = v.events /\ w.tail = v.tail /\ w.known = v.known
  OBVIOUS
<1>2. IsSequence(v.log) /\ v.known \in 0 .. Len(v.log)
  BY DEF HeldFits
<1>3. /\ IsSequence(L) /\ Len(L) = Len(v.log) + 1 /\ Len(v.log) \in Nat
      /\ DOMAIN L = 1 .. Len(L) /\ DOMAIN v.log = 1 .. Len(v.log)
      /\ \A i \in 1 .. Len(v.log) : L[i] = v.log[i]
      /\ L[Len(v.log) + 1] = p
  BY <1>2, SequenceFacts
<1> HIDE DEF L
<1>4. \A i \in DOMAIN L : L[i].node = n => i \in DOMAIN v.log /\ v.log[i] = L[i]
  BY <1>3
<1>5. \A pid, i : Placed(w, n, pid, i) => Placed(v, n, pid, i)
  BY <1>1, <1>4 DEF Placed
<1>6. \A pid : Queued(w, pid) => Queued(v, pid)
  BY <1>1 DEF Queued
<1>7. /\ IsSequence(w.events) /\ IsSequence(w.tail)
      /\ \A k \in DOMAIN w.events : IsProposal(w.events[k], n, next)
      /\ \A k \in DOMAIN w.tail : IsProposal(w.tail[k], n, next)
      /\ \A k, l \in DOMAIN w.events : w.events[k].pid = w.events[l].pid => k = l
  BY <1>1 DEF HeldFits
<1>8. w.known \in 0 .. Len(w.log) /\ IsSequence(w.log)
  <2>1. v.known \in 0 .. Len(v.log) + 1
    BY <1>2, <1>3
  <2>2. QED BY <1>1, <1>3, <2>1
<1>9. QED BY <1>5, <1>6, <1>7, <1>8, HeldShrinks

----------------------------------------------------------------------------
\* The services: the replicas and the proposals at every node.

Base ==
    /\ ReplicasFit
    /\ \A i \in DOMAIN log : Derived(log[i])
    /\ DOMAIN events = Node /\ DOMAIN tail = Node /\ DOMAIN known = Node
    /\ DOMAIN nextProposal = Node
    /\ \A n \in Node : HeldFits(Held(n), n, nextProposal[n]) /\ tried[n] <= known[n]

\* What no step takes back.
Carries ==
    /\ \A i \in DOMAIN log : i \in DOMAIN log' /\ log'[i] = log[i]
    /\ Len(outcome) <= Len(outcome')
    /\ \A i \in 1 .. Len(outcome) : outcome'[i] = outcome[i]
    /\ \A n \in Node : /\ Moves(Held(n), Held(n)', n, nextProposal[n])
                       /\ nextProposal[n] <= nextProposal'[n]
                       /\ tried[n] <= tried'[n] /\ sm[n].last <= sm'[n].last

LEMMA BaseFacts ==
  ASSUME Base
  PROVE  /\ IsSequence(log) /\ Len(log) \in Nat /\ DOMAIN log = 1 .. Len(log)
         /\ Len(outcome) \in Nat /\ Len(outcome) <= Len(log)
         /\ \A n \in Node : /\ tried[n] \in 0 .. Len(outcome) /\ tried[n] <= known[n]
                            /\ known[n] \in 0 .. Len(log)
                            /\ nextProposal[n] \in Nat \ {0} /\ sm[n].last \in Nat
<1>1. IsSequence(log) /\ IsSequence(outcome) /\ Len(outcome) <= Len(log)
  BY DEF Base, ReplicasFit
<1>2. Len(log) \in Nat /\ DOMAIN log = 1 .. Len(log) /\ Len(outcome) \in Nat
  BY <1>1, SequenceFacts
<1>3. ASSUME NEW n \in Node
      PROVE  /\ tried[n] \in 0 .. Len(outcome) /\ tried[n] <= known[n]
             /\ known[n] \in 0 .. Len(log)
             /\ nextProposal[n] \in Nat \ {0} /\ sm[n].last \in Nat
  <2>1. tried[n] \in 0 .. Len(outcome) /\ sm[n].last \in Nat /\ tried[n] <= known[n]
    BY DEF Base, ReplicasFit, Machine
  <2>2. HeldFits(Held(n), n, nextProposal[n])
    BY DEF Base
  <2>3. Held(n).known = known[n] /\ Held(n).log = log
    BY DEF Held
  <2>4. known[n] \in 0 .. Len(log) /\ nextProposal[n] \in Nat \ {0}
    BY <2>2, <2>3 DEF HeldFits
  <2>5. QED BY <2>1, <2>4
<1>4. QED BY <1>1, <1>2, <1>3

\* Node n holds w next, and no other node anything else.
HeldBy(n, w) ==
    /\ DOMAIN events' = Node /\ DOMAIN tail' = Node /\ DOMAIN known' = Node
    /\ Held(n)' = w /\ known'[n] = w.known
    /\ \A m \in Node \ {n} : Held(m)' = Held(m) /\ known'[m] = known[m]

\* A step of node n that concerns its proposals only.
LEMMA HeldChanges ==
  ASSUME Base, NEW n \in Node, UNCHANGED replicaVars, NEW w, HeldBy(n, w),
         DOMAIN nextProposal' = Node,
         \A m \in Node \ {n} : nextProposal'[m] = nextProposal[m],
         nextProposal[n] <= nextProposal'[n],
         HeldFits(w, n, nextProposal'[n]), Moves(Held(n), w, n, nextProposal[n]),
         tried[n] <= w.known
  PROVE  Base' /\ Carries
<1>1. log' = log /\ sm' = sm /\ tried' = tried /\ outcome' = outcome
  BY DEF replicaVars
<1>2. ReplicasFit'
  <2>1. ReplicasFit
    BY DEF Base
  <2>2. QED BY <1>1, <2>1 DEF ReplicasFit
<1>3. \A i \in DOMAIN log' : Derived(log'[i])
  BY <1>1 DEF Base
<1>4. ASSUME NEW m \in Node
      PROVE  /\ HeldFits(Held(m)', m, nextProposal'[m]) /\ tried'[m] <= known'[m]
             /\ Moves(Held(m), Held(m)', m, nextProposal[m])
             /\ nextProposal[m] <= nextProposal'[m]
  <2>1. CASE m = n
    BY <1>1, <2>1 DEF HeldBy
  <2>2. CASE m # n
    <3>1. /\ Held(m)' = Held(m) /\ nextProposal'[m] = nextProposal[m]
          /\ known'[m] = known[m]
      BY <2>2 DEF HeldBy
    <3>2. Moves(Held(m), Held(m), m, nextProposal[m])
      BY DEF Moves
    <3>3. nextProposal[m] <= nextProposal[m]
      BY BaseFacts
    <3>4. HeldFits(Held(m), m, nextProposal[m]) /\ tried[m] <= known[m]
      BY DEF Base
    <3>5. QED BY <1>1, <3>1, <3>2, <3>3, <3>4
  <2>3. QED BY <2>1, <2>2
<1>5. DOMAIN events' = Node /\ DOMAIN tail' = Node /\ DOMAIN known' = Node
  BY DEF HeldBy
<1>6. Base'
  BY <1>2, <1>3, <1>4, <1>5 DEF Base
<1>7. Len(outcome) <= Len(outcome') /\ \A m \in Node : tried[m] <= tried'[m]
                                                        /\ sm[m].last <= sm'[m].last
  BY <1>1, BaseFacts
<1>8. Carries
  BY <1>1, <1>4, <1>7 DEF Carries
<1>9. QED BY <1>6, <1>8

LEMMA BaseStays ==
  ASSUME Base, UNCHANGED <<replicaVars, events, tail, known, nextProposal>>
  PROVE  Base' /\ Carries
<1>1. /\ log' = log /\ sm' = sm /\ tried' = tried /\ outcome' = outcome
      /\ events' = events /\ tail' = tail /\ known' = known
      /\ nextProposal' = nextProposal
  BY DEF replicaVars
<1>2. \A n \in Node : Held(n)' = Held(n)
  BY <1>1 DEF Held
<1>3. ReplicasFit'
  <2>1. ReplicasFit
    BY DEF Base
  <2>2. QED BY <1>1, <2>1 DEF ReplicasFit
<1>4. Base'
  BY <1>1, <1>2, <1>3 DEF Base
<1>5. \A n \in Node : Moves(Held(n), Held(n), n, nextProposal[n])
  BY DEF Moves
<1>6. QED BY <1>1, <1>2, <1>4, <1>5, BaseFacts DEF Carries

LEMMA CommandFits ==
  ASSUME NEW n, NEW request \in Request
  PROVE  LET cmd == Command(n, request)
         IN  ValidCommand(cmd) /\ (~Direct(request) => cmd.target[1] = cmd.kind)
<1> DEFINE cmd == Command(n, request)
<1>1. /\ "kind" \in DOMAIN request /\ Arguments[request.kind] \subseteq DOMAIN request
      /\ ValidCommand(request)
  BY ServiceAssumption
<1>2. CASE Direct(request)
  BY <1>1, <1>2 DEF Command
<1>3. CASE ~Direct(request)
  <2>1. PICK id : cmd = With(With(request, "id", id), "target", <<request.kind, id>>)
    BY <1>3 DEF Command
  <2> HIDE DEF cmd
  <2>2. /\ cmd.target = <<request.kind, id>>
        /\ \A x \in DOMAIN request : x \notin {"id", "target"} => cmd[x] = request[x]
    BY <2>1 DEF With
  <2>3. cmd.kind = request.kind /\ cmd.target[1] = cmd.kind
    BY <1>1, <2>2
  <2>4. ValidCommand(cmd)
    <3>1. CASE request.kind \in {"OPAQUE", "CREATE_TASK"}
      BY <2>3, <3>1 DEF ValidCommand
    <3>2. CASE request.kind = "REGISTER_STORE"
      <4>1. "store" \in DOMAIN request /\ "address" \in DOMAIN request
        BY <1>1, <3>2 DEF Arguments
      <4>2. cmd.store = request.store /\ cmd.address = request.address
        BY <2>2, <4>1
      <4>3. QED BY <1>1, <2>3, <3>2, <4>2 DEF ValidCommand
    <3>3. CASE request.kind \in {"UPDATE_STORE_STATE", "REMOVE_STORE"}
      <4>1. "store" \in DOMAIN request
        BY <1>1, <3>3 DEF Arguments
      <4>2. cmd.store = request.store
        BY <2>2, <4>1
      <4>3. QED BY <1>1, <2>3, <3>3, <4>2 DEF ValidCommand
    <3>4. CASE request.kind = "POLL_TASKS"
      <4>1. "store" \in DOMAIN request /\ "max" \in DOMAIN request
        BY <1>1, <3>4 DEF Arguments
      <4>2. cmd.store = request.store /\ cmd.max = request.max
        BY <2>2, <4>1
      <4>3. QED BY <1>1, <2>3, <3>4, <4>2 DEF ValidCommand
    <3>5. CASE request.kind = "REPORT_TASK_RESULT"
      <4>1. "store" \in DOMAIN request /\ "final" \in DOMAIN request
        BY <1>1, <3>5 DEF Arguments
      <4>2. cmd.store = request.store /\ cmd.final = request.final
        BY <2>2, <4>1
      <4>3. QED BY <1>1, <2>3, <3>5, <4>2 DEF ValidCommand
    <3>6. QED BY <1>1, <3>1, <3>2, <3>3, <3>4, <3>5 DEF ValidCommand
  <2>5. QED BY <2>3, <2>4 DEF cmd
<1>4. QED BY <1>2, <1>3

\* The proposal that a call at n makes.
Proposal(n, request) ==
    [node |-> n, pid |-> nextProposal[n], cmd |-> Command(n, request),
     reads |-> ~Direct(request)]

LEMMA ProposalFits ==
  ASSUME NEW n, NEW request \in Request, nextProposal[n] \in Nat \ {0}
  PROVE  IsProposal(Proposal(n, request), n, nextProposal[n] + 1)
<1> DEFINE p == Proposal(n, request)
<1>1. /\ p.node = n /\ p.pid = nextProposal[n] /\ p.cmd = Command(n, request)
      /\ p.reads = ~Direct(request)
  BY DEF Proposal
<1> HIDE DEF p
<1>2. ValidCommand(p.cmd) /\ Derived(p)
  BY <1>1, CommandFits DEF Derived
<1>3. QED BY <1>1, <1>2 DEF IsProposal, p

LEMMA BaseCalls ==
  ASSUME Base, NEW c, NEW n \in Node, NEW request \in Request, StartCall(c, n, request)
  PROVE  Base' /\ Carries
<1> DEFINE p == Proposal(n, request)
           w == [log |-> log, events |-> Append(events[n], p), tail |-> tail[n],
                 known |-> known[n]]
           next == nextProposal[n]
<1>1. /\ events' = [events EXCEPT ![n] = Append(events[n], p)]
      /\ nextProposal' = [nextProposal EXCEPT ![n] = next + 1]
      /\ UNCHANGED <<replicaVars, known, tail>>
  BY DEF StartCall, Proposal
<1>2. next \in Nat \ {0} /\ tried[n] <= known[n] /\ HeldFits(Held(n), n, next)
  BY BaseFacts DEF Base
<1>3. IsProposal(p, n, next + 1) /\ p.pid = next
  BY <1>2, ProposalFits DEF Proposal
<1> HIDE DEF p
<1>4. /\ Held(n).log = log /\ Held(n).events = events[n] /\ Held(n).tail = tail[n]
      /\ Held(n).known = known[n]
  BY DEF Held
<1>5. HeldFits(w, n, next + 1) /\ Moves(Held(n), w, n, next)
  BY <1>2, <1>3, <1>4, HeldCalls
<1>6. /\ DOMAIN events = Node /\ DOMAIN tail = Node /\ DOMAIN known = Node
      /\ DOMAIN nextProposal = Node
  BY DEF Base
<1>7. HeldBy(n, w)
  BY <1>1, <1>6 DEF HeldBy, Held, replicaVars
<1>8. /\ DOMAIN nextProposal' = Node /\ nextProposal'[n] = next + 1
      /\ \A m \in Node \ {n} : nextProposal'[m] = nextProposal[m]
      /\ next <= next + 1
  BY <1>1, <1>2, <1>6
<1>9. w.known = known[n]
  OBVIOUS
<1> HIDE DEF w
<1>10. QED BY <1>1, <1>2, <1>5, <1>7, <1>8, <1>9, HeldChanges

LEMMA BaseAccepts ==
  ASSUME Base, NEW n \in Node, Accept(n)
  PROVE  /\ Base' /\ Carries
         /\ PairFits(Held(n)', n, nextProposal[n], Head(events[n]).pid,
                     known[n] + Len(tail[n]) + 1)
<1> DEFINE w == [log |-> log, events |-> Tail(events[n]),
                 tail |-> Append(tail[n], Head(events[n])), known |-> known[n]]
           next == nextProposal[n]
<1>1. /\ events[n] # <<>> /\ events' = [events EXCEPT ![n] = Tail(events[n])]
      /\ tail' = [tail EXCEPT ![n] = Append(tail[n], Head(events[n]))]
      /\ UNCHANGED <<replicaVars, known, nextProposal>>
  BY DEF Accept, counters
<1>2. next \in Nat \ {0} /\ tried[n] <= known[n] /\ HeldFits(Held(n), n, next)
  BY BaseFacts DEF Base
<1>3. /\ Held(n).log = log /\ Held(n).events = events[n] /\ Held(n).tail = tail[n]
      /\ Held(n).known = known[n]
  BY DEF Held
<1>4. /\ HeldFits(w, n, next) /\ Moves(Held(n), w, n, next)
      /\ PairFits(w, n, next, Head(events[n]).pid, known[n] + Len(tail[n]) + 1)
  BY <1>1, <1>2, <1>3, HeldAccepts
<1>5. /\ DOMAIN events = Node /\ DOMAIN tail = Node /\ DOMAIN known = Node
      /\ DOMAIN nextProposal = Node
  BY DEF Base
<1>6. HeldBy(n, w)
  BY <1>1, <1>5 DEF HeldBy, Held, replicaVars
<1>7. w.known = known[n] /\ next <= next
  BY <1>2
<1> HIDE DEF w
<1>8. Base' /\ Carries
  BY <1>1, <1>2, <1>4, <1>5, <1>6, <1>7, HeldChanges
<1>9. QED BY <1>4, <1>6, <1>8 DEF HeldBy

LEMMA BaseRefuses ==
  ASSUME Base, NEW n \in Node, Refuse(n)
  PROVE  Base' /\ Carries
<1> DEFINE w == [log |-> log, events |-> Tail(events[n]), tail |-> tail[n],
                 known |-> known[n]]
           next == nextProposal[n]
<1>1. /\ events[n] # <<>> /\ events' = [events EXCEPT ![n] = Tail(events[n])]
      /\ UNCHANGED <<replicaVars, tail, known, nextProposal>>
  BY DEF Refuse, counters
<1>2. next \in Nat \ {0} /\ tried[n] <= known[n] /\ HeldFits(Held(n), n, next)
  BY BaseFacts DEF Base
<1>3. /\ Held(n).log = log /\ Held(n).events = events[n] /\ Held(n).tail = tail[n]
      /\ Held(n).known = known[n]
  BY DEF Held
<1>4. HeldFits(w, n, next) /\ Moves(Held(n), w, n, next)
  BY <1>1, <1>2, <1>3, HeldRefuses
<1>5. /\ DOMAIN events = Node /\ DOMAIN tail = Node /\ DOMAIN known = Node
      /\ DOMAIN nextProposal = Node
  BY DEF Base
<1>6. HeldBy(n, w)
  BY <1>1, <1>5 DEF HeldBy, Held, replicaVars
<1>7. w.known = known[n] /\ next <= next
  BY <1>2
<1> HIDE DEF w
<1>8. QED BY <1>1, <1>2, <1>4, <1>5, <1>6, <1>7, HeldChanges

LEMMA BaseLearns ==
  ASSUME Base, NEW n \in Node, Learn(n)
  PROVE  Base' /\ Carries
<1> DEFINE w == [log |-> log, events |-> events[n], tail |-> <<>>,
                 known |-> known[n] + 1]
           next == nextProposal[n]
<1>1. /\ known[n] < Len(log) /\ known' = [known EXCEPT ![n] = known[n] + 1]
      /\ tail' = [tail EXCEPT ![n] = <<>>]
      /\ UNCHANGED <<replicaVars, events, nextProposal>>
  BY DEF Learn, counters
<1>2. /\ next \in Nat \ {0} /\ tried[n] <= known[n] /\ HeldFits(Held(n), n, next)
      /\ tried[n] \in Nat /\ known[n] \in Nat
  BY BaseFacts DEF Base
<1>3. /\ Held(n).log = log /\ Held(n).events = events[n] /\ Held(n).tail = tail[n]
      /\ Held(n).known = known[n]
  BY DEF Held
<1>4. HeldFits(w, n, next) /\ Moves(Held(n), w, n, next)
  BY <1>1, <1>2, <1>3, HeldLearns
<1>5. /\ DOMAIN events = Node /\ DOMAIN tail = Node /\ DOMAIN known = Node
      /\ DOMAIN nextProposal = Node
  BY DEF Base
<1>6. HeldBy(n, w)
  BY <1>1, <1>5 DEF HeldBy, Held, replicaVars
<1>7. w.known = known[n] + 1 /\ next <= next /\ tried[n] <= known[n] + 1
  BY <1>2
<1> HIDE DEF w
<1>8. QED BY <1>1, <1>2, <1>4, <1>5, <1>6, <1>7, HeldChanges

LEMMA BaseCommits ==
  ASSUME Base, NEW n \in Node, Commit(n)
  PROVE  Base' /\ Carries
<1> DEFINE p == Head(tail[n])
           w == [log |-> Append(log, p), events |-> events[n], tail |-> Tail(tail[n]),
                 known |-> known[n] + 1]
           u(m) == [log |-> Append(log, p), events |-> events[m], tail |-> tail[m],
                    known |-> known[m]]
           next == nextProposal[n]
<1>1. /\ tail[n] # <<>> /\ known[n] = Len(log) /\ log' = Append(log, p)
      /\ Append_(p)
      /\ tail' = [tail EXCEPT ![n] = Tail(tail[n])]
      /\ known' = [known EXCEPT ![n] = known[n] + 1]
      /\ UNCHANGED <<sm, tried, outcome, events, nextProposal>>
  BY DEF Commit, Append_, counters
<1>2. /\ HeldFits(Held(n), n, next) /\ tried[n] \in Nat /\ known[n] \in Nat
      /\ tried[n] <= known[n]
  BY BaseFacts DEF Base
<1>3. \A m : /\ Held(m).log = log /\ Held(m).events = events[m] /\ Held(m).tail = tail[m]
             /\ Held(m).known = known[m]
  BY DEF Held
<1>4. HeldFits(w, n, next) /\ Moves(Held(n), w, n, next) /\ IsProposal(p, n, next)
  BY <1>1, <1>2, <1>3, HeldCommits
<1>5. /\ DOMAIN events = Node /\ DOMAIN tail = Node /\ DOMAIN known = Node
      /\ DOMAIN nextProposal = Node
  BY DEF Base
<1>6. Held(n)' = w /\ known'[n] = known[n] + 1
  BY <1>1, <1>5 DEF Held
<1>7. \A m \in Node \ {n} : Held(m)' = u(m) /\ known'[m] = known[m]
  BY <1>1, <1>5 DEF Held
<1> HIDE DEF p, w
<1>8. p.node = n /\ ValidCommand(p.cmd) /\ Derived(p)
  BY <1>4 DEF IsProposal
<1>9. ASSUME NEW m \in Node \ {n}
      PROVE  HeldFits(u(m), m, nextProposal[m]) /\ Moves(Held(m), u(m), m, nextProposal[m])
  <2>1. HeldFits(Held(m), m, nextProposal[m]) /\ p.node # m
    BY <1>8 DEF Base
  <2>2. QED BY <1>3, <2>1, HeldHears
<1> HIDE DEF u
<1>10. ReplicasFit'
  <2>1. ReplicasFit
    BY DEF Base
  <2>2. QED BY <1>1, <1>8, <2>1, CommitKeepsReplicas
<1>11. /\ DOMAIN log' = DOMAIN log \cup {Len(log) + 1} /\ log'[Len(log) + 1] = p
       /\ \A i \in DOMAIN log : log'[i] = log[i]
  BY <1>1, BaseFacts, SequenceFacts
<1>12. \A i \in DOMAIN log' : Derived(log'[i])
  BY <1>8, <1>11 DEF Base
<1>13. ASSUME NEW m \in Node
       PROVE  /\ HeldFits(Held(m)', m, nextProposal'[m]) /\ tried'[m] <= known'[m]
              /\ Moves(Held(m), Held(m)', m, nextProposal[m])
  <2>1. nextProposal' = nextProposal /\ tried' = tried
    BY <1>1
  <2>2. CASE m = n
    <3>1. tried[n] <= known[n] + 1
      BY <1>2
    <3>2. QED BY <1>4, <1>6, <2>1, <2>2, <3>1
  <2>3. CASE m # n
    <3>1. tried[m] <= known[m]
      BY DEF Base
    <3>2. QED BY <1>7, <1>9, <2>1, <2>3, <3>1
  <2>4. QED BY <2>2, <2>3
<1>14. DOMAIN events' = Node /\ DOMAIN tail' = Node /\ DOMAIN known' = Node
       /\ DOMAIN nextProposal' = Node
  BY <1>1, <1>5
<1>15. Base'
  BY <1>10, <1>12, <1>13, <1>14 DEF Base
<1>16. Carries
  BY <1>1, <1>11, <1>13, BaseFacts DEF Carries
<1>17. QED BY <1>15, <1>16

LEMMA BaseApplies ==
  ASSUME Base, NEW n \in Node, NEW ok, PassNext(n, ok), tried[n] < known[n],
         UNCHANGED <<events, tail, known, nextProposal>>
  PROVE  Base' /\ Carries /\ Passed(n, ok)
<1>1. Passed(n, ok)
  BY PassKeepsReplicas DEF Base
<1>2. /\ ReplicasFit' /\ tried' = [tried EXCEPT ![n] = tried[n] + 1] /\ log' = log
      /\ Len(outcome) <= Len(outcome')
      /\ \A k \in 1 .. Len(outcome) : outcome'[k] = outcome[k]
      /\ \A m \in Node \ {n} : sm'[m] = sm[m]
      /\ sm[n].last <= sm'[n].last
  BY <1>1 DEF Passed
<1>3. \A m : Held(m)' = Held(m)
  BY <1>2 DEF Held
<1>4. DOMAIN tried = Node
  BY DEF Base, ReplicasFit
<1>5. ASSUME NEW m \in Node
      PROVE  tried'[m] <= known'[m] /\ tried[m] <= tried'[m] /\ sm[m].last <= sm'[m].last
  <2>1. /\ tried[m] \in Nat /\ known[m] \in Nat /\ tried[m] <= known[m]
        /\ sm[m].last \in Nat
    BY BaseFacts
  <2>2. CASE m = n
    BY <1>2, <1>4, <2>1, <2>2
  <2>3. CASE m # n
    BY <1>2, <1>4, <2>1, <2>3
  <2>4. QED BY <2>2, <2>3
<1>6. \A m \in Node : /\ Moves(Held(m), Held(m), m, nextProposal[m])
                      /\ nextProposal[m] <= nextProposal[m]
  BY BaseFacts DEF Moves
<1>7. Base'
  BY <1>2, <1>3, <1>5 DEF Base
<1>8. Carries
  BY <1>2, <1>3, <1>5, <1>6 DEF Carries
<1>9. QED BY <1>1, <1>7, <1>8

LEMMA BaseStep ==
  ASSUME Base, [Next]_vars
  PROVE  Base' /\ Carries
<1>1. ASSUME NEW n \in Node, Accept(n) PROVE Base' /\ Carries
  BY <1>1, BaseAccepts
<1>2. ASSUME NEW n \in Node, Refuse(n) PROVE Base' /\ Carries
  BY <1>2, BaseRefuses
<1>3. ASSUME NEW n \in Node, Commit(n) PROVE Base' /\ Carries
  BY <1>3, BaseCommits
<1>4. ASSUME NEW n \in Node, Learn(n) PROVE Base' /\ Carries
  BY <1>4, BaseLearns
<1>5. ASSUME NEW n \in Node, WriteFails(n) PROVE Base' /\ Carries
  <2>1. UNCHANGED <<replicaVars, events, tail, known, nextProposal>>
    BY <1>5 DEF WriteFails, counters
  <2>2. QED BY <2>1, BaseStays
<1>6. ASSUME NEW n \in Node, ApplyNext(n) PROVE Base' /\ Carries
  <2>1. PICK ok \in BOOLEAN : PassNext(n, ok)
    BY <1>6 DEF ApplyNext
  <2>2. QED BY <1>6, <2>1, BaseApplies DEF ApplyNext, counters
<1>7. ASSUME NEW c, NEW n \in Node, NEW request \in Request, StartCall(c, n, request)
      PROVE  Base' /\ Carries
  BY <1>7, BaseCalls
<1>8. ASSUME NEW c, TakeCached(c) \/ Collect(c) \/ Timeout(c) \/ ReadOutcome(c)
      PROVE  Base' /\ Carries
  <2>1. UNCHANGED <<replicaVars, events, tail, known, nextProposal>>
    BY <1>8 DEF TakeCached, Collect, Timeout, ReadOutcome, counters, raftVars
  <2>2. QED BY <2>1, BaseStays
<1>9. CASE UNCHANGED vars
  BY <1>9, BaseStays DEF vars, counters, raftVars
<1>10. QED BY <1>1, <1>2, <1>3, <1>4, <1>5, <1>6, <1>7, <1>8, <1>9 DEF Next

----------------------------------------------------------------------------
\* The services: results on their way.

\* Result ok at index i is due to proposal pid of n.
ResultFits(n, pid, i, ok) ==
    /\ pid \in 1 .. nextProposal[n] - 1 /\ i \in Nat
    /\ i > 0 => PairFits(Held(n), n, nextProposal[n], pid, i)
    /\ ok => i \in 1 .. tried[n] /\ outcome[i].ok

PendingFits(n, q) ==
    /\ q = [pid |-> q.pid, index |-> q.index] /\ q.index \in Nat \ {0}
    /\ PairFits(Held(n), n, nextProposal[n], q.pid, q.index)

LedgerFits ==
    /\ DOMAIN pending = Node /\ DOMAIN results = Node /\ DOMAIN cached = Node
    /\ DOMAIN abandoned = Node
    /\ \A n \in Node :
          /\ \A q \in pending[n] : PendingFits(n, q)
          /\ \A r \in results[n] \cup cached[n] : ResultFits(n, r.pid, r.index, r.ok)
          /\ \A pid \in abandoned[n] : pid \in 1 .. nextProposal[n] - 1

LEMMA GivenStays ==
  ASSUME Base, Base', Carries, NEW n \in Node, NEW pid \in 1 .. nextProposal[n] - 1
  PROVE  pid \in 1 .. nextProposal'[n] - 1
<1>1. nextProposal[n] \in Nat /\ nextProposal[n] <= nextProposal'[n]
  BY BaseFacts DEF Carries
<1>2. nextProposal'[n] \in Nat
  BY DEF Base, HeldFits
<1>3. QED BY <1>1, <1>2

LEMMA PairFitsStays ==
  ASSUME Base, Base', Carries, NEW n \in Node, NEW pid, NEW i,
         PairFits(Held(n), n, nextProposal[n], pid, i)
  PROVE  PairFits(Held(n)', n, nextProposal'[n], pid, i)
<1>1. nextProposal[n] \in Nat /\ nextProposal[n] <= nextProposal'[n]
  BY BaseFacts DEF Carries
<1>2. nextProposal'[n] \in Nat
  BY DEF Base, HeldFits
<1>3. Moves(Held(n), Held(n)', n, nextProposal[n])
  BY DEF Carries
<1>4. QED BY <1>1, <1>2, <1>3, PairStays

LEMMA OkStays ==
  ASSUME Base, Carries, NEW n \in Node, NEW i \in 1 .. tried[n], outcome[i].ok,
         tried'[n] \in Nat
  PROVE  i \in 1 .. tried'[n] /\ outcome'[i].ok
<1>1. tried[n] \in 0 .. Len(outcome) /\ Len(outcome) \in Nat
  BY BaseFacts
<1>2. i \in 1 .. Len(outcome) /\ i \in Nat
  BY <1>1
<1>3. tried[n] <= tried'[n] /\ outcome'[i] = outcome[i]
  BY <1>2 DEF Carries
<1>4. QED BY <1>1, <1>3

LEMMA ResultStays ==
  ASSUME Base, Base', Carries, NEW n \in Node, NEW pid, NEW i, NEW ok,
         ResultFits(n, pid, i, ok)
  PROVE  ResultFits(n, pid, i, ok)'
<1>1. tried'[n] \in Nat
  BY DEF Base, ReplicasFit
<1>2. ok => i \in 1 .. tried'[n] /\ outcome'[i].ok
  BY <1>1, OkStays DEF ResultFits
<1>3. i > 0 => PairFits(Held(n)', n, nextProposal'[n], pid, i)
  BY PairFitsStays DEF ResultFits
<1>4. pid \in 1 .. nextProposal'[n] - 1 /\ i \in Nat
  BY GivenStays DEF ResultFits
<1>5. QED BY <1>2, <1>3, <1>4 DEF ResultFits

\* What a step adds to the ledger is due.
NewPending(n, q) == q \in pending'[n] => q \in pending[n] \/ PendingFits(n, q)'

NewResult(n, r) ==
    r \in results'[n] \cup cached'[n] => \/ r \in results[n] \cup cached[n]
                                       \/ ResultFits(n, r.pid, r.index, r.ok)'

LedgerAdds ==
    /\ DOMAIN pending' = Node /\ DOMAIN results' = Node /\ DOMAIN cached' = Node
    /\ DOMAIN abandoned' = Node
    /\ \A n \in Node :
          /\ \A q : NewPending(n, q)
          /\ \A r : NewResult(n, r)
          /\ \A pid \in abandoned'[n] :
                pid \in abandoned[n] \/ pid \in 1 .. nextProposal[n] - 1

LEMMA LedgerKeeps ==
  ASSUME Base, Base', Carries, LedgerFits, LedgerAdds
  PROVE  LedgerFits'
<1>1. ASSUME NEW n \in Node, NEW q \in pending'[n] PROVE PendingFits(n, q)'
  <2>1. CASE q \in pending[n]
    <3>1. PendingFits(n, q)
      BY <2>1 DEF LedgerFits
    <3>2. PairFits(Held(n)', n, nextProposal'[n], q.pid, q.index)
      BY <3>1, PairFitsStays DEF PendingFits
    <3>3. QED BY <3>1, <3>2 DEF PendingFits
  <2>2. QED BY <1>1, <2>1 DEF LedgerAdds, NewPending
<1>2. ASSUME NEW n \in Node, NEW r \in results'[n] \cup cached'[n]
      PROVE  ResultFits(n, r.pid, r.index, r.ok)'
  <2>1. CASE r \in results[n] \cup cached[n]
    BY <2>1, ResultStays DEF LedgerFits
  <2>2. QED BY <1>2, <2>1 DEF LedgerAdds, NewResult
<1>3. ASSUME NEW n \in Node, NEW pid \in abandoned'[n]
      PROVE  pid \in 1 .. nextProposal'[n] - 1
  <2>1. pid \in 1 .. nextProposal[n] - 1
    BY <1>3 DEF LedgerAdds, LedgerFits
  <2>2. QED BY <2>1, GivenStays
<1>4. QED BY <1>1, <1>2, <1>3 DEF LedgerFits, LedgerAdds

LEMMA TrimKeepsWithin ==
  /\ \A pids : TrimIds(pids) \subseteq pids
  /\ \A rs : TrimResults(rs) \subseteq rs
BY DEF TrimIds, TrimResults

LEMMA LedgerCalls ==
  ASSUME Base, LedgerFits, NEW c, NEW n \in Node, NEW request \in Request,
         StartCall(c, n, request)
  PROVE  LedgerFits'
<1>1. Base' /\ Carries
  BY BaseCalls
<1>2. UNCHANGED <<pending, results, cached, abandoned>>
  BY DEF StartCall, cacheVars
<1>3. LedgerAdds
  BY <1>2 DEF LedgerFits, LedgerAdds, NewPending, NewResult
<1>4. QED BY <1>1, <1>3, LedgerKeeps

LEMMA LedgerAccepts ==
  ASSUME Base, LedgerFits, NEW n \in Node, Accept(n)
  PROVE  LedgerFits'
<1>1. PICK i : i = known[n] + Len(tail[n]) + 1
  OBVIOUS
<1>2. PICK q : q = [pid |-> Head(events[n]).pid, index |-> i]
  OBVIOUS
<1>3. q.pid = Head(events[n]).pid /\ q.index = i /\ q = [pid |-> q.pid, index |-> q.index]
  BY <1>2
<1>4. /\ Base' /\ Carries
      /\ PairFits(Held(n)', n, nextProposal[n], q.pid, q.index)
  BY <1>1, <1>3, BaseAccepts
<1>5. /\ pending' = [pending EXCEPT ![n] = pending[n] \cup {q}]
      /\ UNCHANGED <<results, cached, abandoned, nextProposal>>
  BY <1>1, <1>2 DEF Accept, cacheVars, counters
<1>6. i \in Nat \ {0}
  <2>1. known[n] \in Nat
    BY BaseFacts
  <2>2. IsSequence(Held(n).tail) /\ Held(n).tail = tail[n]
    BY DEF Base, HeldFits, Held
  <2>3. Len(tail[n]) \in Nat
    BY <2>2, SequenceFacts
  <2>4. QED BY <1>1, <2>1, <2>3
<1>7. PendingFits(n, q)'
  BY <1>3, <1>4, <1>5, <1>6 DEF PendingFits
<1>8. \A m \in Node : \A x \in pending'[m] : x \in pending[m] \/ (m = n /\ x = q)
  BY <1>5 DEF LedgerFits
<1>9. \A m \in Node : \A x : NewPending(m, x)
  BY <1>7, <1>8 DEF NewPending
<1>10. LedgerAdds
  BY <1>5, <1>9 DEF LedgerFits, LedgerAdds, NewResult
<1>11. QED BY <1>4, <1>10, LedgerKeeps

LEMMA LedgerRefuses ==
  ASSUME Base, LedgerFits, NEW n \in Node, Refuse(n)
  PROVE  LedgerFits'
<1>1. PICK r : r = Result(Head(events[n]).pid, 0, FALSE)
  OBVIOUS
<1>2. r.pid = Head(events[n]).pid /\ r.index = 0 /\ r.ok = FALSE
  BY <1>1 DEF Result
<1>3. Base' /\ Carries
  BY BaseRefuses
<1>4. /\ results' = [results EXCEPT ![n] = results[n] \cup {r}]
      /\ events[n] # <<>>
      /\ UNCHANGED <<pending, cached, abandoned, nextProposal>>
  BY <1>1 DEF Refuse, Emit, cacheVars, counters
<1>5. r.pid \in 1 .. nextProposal[n] - 1
  <2>1. HeldFits(Held(n), n, nextProposal[n]) /\ Held(n).events = events[n]
    BY DEF Base, Held
  <2> DEFINE w == [events |-> Tail(events[n])]
  <2>2. Unqueued(Held(n), w, n, nextProposal[n], Head(events[n]))
    BY <1>4, <2>1, QueueShrinks
  <2>3. QED BY <1>2, <2>2 DEF Unqueued, IsProposal
<1>6. ResultFits(n, r.pid, r.index, r.ok)'
  <2>1. nextProposal' = nextProposal /\ r.index \in Nat /\ ~(r.index > 0) /\ ~r.ok
    BY <1>2, <1>4
  <2>2. QED BY <1>5, <2>1 DEF ResultFits
<1>7. \A m \in Node : \A x \in results'[m] : x \in results[m] \/ (m = n /\ x = r)
  BY <1>4 DEF LedgerFits
<1>8. \A m \in Node : \A x : NewResult(m, x)
  BY <1>4, <1>6, <1>7 DEF NewResult
<1>9. LedgerAdds
  BY <1>4, <1>8 DEF LedgerFits, LedgerAdds, NewPending
<1>10. QED BY <1>3, <1>9, LedgerKeeps

\* A write fails of what is pending in A.
FailsAt(n, A) ==
    /\ A \subseteq pending[n]
    /\ pending' = [pending EXCEPT ![n] = pending[n] \ A]
    /\ results' = [results EXCEPT ![n] = results[n] \cup
                      {Result(q.pid, q.index, FALSE) : q \in A}]
    /\ UNCHANGED <<replicaVars, events, tail, known, nextProposal, cached, abandoned, caller>>

LEMMA FailsForm ==
  ASSUME NEW n, WriteFails(n)
  PROVE  \E A : FailsAt(n, A)
<1>1. PICK i \in {q.index : q \in pending[n]} :
         LET failed == {q \in pending[n] : q.index <= i}
         IN  /\ pending' = [pending EXCEPT ![n] = @ \ failed]
             /\ results' = [results EXCEPT ![n] = @ \cup
                    {Result(q.pid, q.index, FALSE) : q \in failed}]
             /\ UNCHANGED <<replicaVars, events, known, tail, cacheVars, counters, caller>>
  BY DEF WriteFails
<1>2. PICK A : A = {q \in pending[n] : q.index <= i}
  OBVIOUS
<1>3. /\ pending' = [pending EXCEPT ![n] = pending[n] \ A]
      /\ results' = [results EXCEPT ![n] = results[n] \cup
             {Result(q.pid, q.index, FALSE) : q \in A}]
  BY <1>1, <1>2
<1>4. UNCHANGED <<replicaVars, events, tail, known, nextProposal, cached, abandoned, caller>>
  BY <1>1 DEF cacheVars, counters
<1>5. FailsAt(n, A)
  BY <1>2, <1>3, <1>4 DEF FailsAt
<1>6. QED BY <1>5

LEMMA LedgerFails ==
  ASSUME Base, LedgerFits, NEW n \in Node, NEW failed, FailsAt(n, failed)
  PROVE  LedgerFits'
<1>1. Base' /\ Carries
  BY BaseStays DEF FailsAt
<1>2. /\ failed \subseteq pending[n]
      /\ pending' = [pending EXCEPT ![n] = pending[n] \ failed]
      /\ results' = [results EXCEPT ![n] = results[n] \cup
             {Result(q.pid, q.index, FALSE) : q \in failed}]
      /\ UNCHANGED <<cached, abandoned>>
  BY DEF FailsAt
<1>3. ASSUME NEW q \in failed, NEW r, r = Result(q.pid, q.index, FALSE)
      PROVE  ResultFits(n, r.pid, r.index, r.ok)'
  <2>1. PendingFits(n, q)
    BY <1>2 DEF LedgerFits
  <2>2. r.pid = q.pid /\ r.index = q.index /\ ~r.ok
    BY <1>3 DEF Result
  <2>3. /\ PairFits(Held(n), n, nextProposal[n], r.pid, r.index) /\ r.index \in Nat
        /\ r.pid \in 1 .. nextProposal[n] - 1
    BY <2>1, <2>2 DEF PendingFits, PairFits
  <2>4. ResultFits(n, r.pid, r.index, r.ok)
    BY <2>2, <2>3 DEF ResultFits
  <2>5. QED BY <1>1, <2>4, ResultStays
<1>4. \A m \in Node : \A x \in results'[m] :
         x \in results[m] \/ (m = n /\ \E q \in failed : x = Result(q.pid, q.index, FALSE))
  BY <1>2 DEF LedgerFits
<1>5. \A m \in Node : \A x : NewResult(m, x)
  BY <1>2, <1>3, <1>4 DEF NewResult
<1>6. \A m \in Node : \A q \in pending'[m] : q \in pending[m]
  BY <1>2 DEF LedgerFits
<1>7. LedgerAdds
  BY <1>2, <1>5, <1>6 DEF LedgerFits, LedgerAdds, NewPending
<1>8. QED BY <1>1, <1>7, LedgerKeeps

\* The entry at index i is applied at n, and answers what waits for it.
AnswersAt(n, i, ok, A) ==
    /\ A \subseteq pending[n] /\ \A q \in A : q.index = i
    /\ results' = [results EXCEPT ![n] = results[n] \cup
                      {Result(q.pid, i, ok) : q \in A}]
    /\ pending' = [pending EXCEPT ![n] = pending[n] \ A]
    /\ UNCHANGED <<cached, abandoned, events, nextProposal, caller>>
    /\ Base' /\ Carries
    /\ i \in Nat \ {0} /\ tried'[n] = i /\ outcome'[i].ok = ok

LEMMA ApplyAnswers ==
  ASSUME Base, NEW n \in Node, ApplyNext(n)
  PROVE  \E i, ok, A : AnswersAt(n, i, ok, A)
<1>1. PICK i : i = tried[n] + 1
  OBVIOUS
<1>2. PICK A : A = AnsweredBy(n, i)
  OBVIOUS
<1>3. PICK ok \in BOOLEAN :
         /\ PassNext(n, ok)
         /\ results' = [results EXCEPT ![n] = results[n] \cup
                {Result(q.pid, i, ok) : q \in A}]
  <2>1. PICK ok \in BOOLEAN :
           /\ PassNext(n, ok)
           /\ results' = [results EXCEPT ![n] = results[n] \cup
                  {Result(q.pid, tried[n] + 1, ok) : q \in AnsweredBy(n, tried[n] + 1)}]
    BY DEF ApplyNext
  <2>2. {Result(q.pid, tried[n] + 1, ok) : q \in AnsweredBy(n, tried[n] + 1)}
          = {Result(q.pid, i, ok) : q \in A}
    BY <1>1, <1>2
  <2>3. QED BY <2>1, <2>2
<1>4. /\ pending' = [pending EXCEPT ![n] = pending[n] \ A]
      /\ UNCHANGED <<cached, abandoned, events, nextProposal, caller>>
  BY <1>1, <1>2 DEF ApplyNext, cacheVars, counters
<1>5. Base' /\ Carries /\ Passed(n, ok)
  BY <1>3, BaseApplies DEF ApplyNext, counters
<1>6. A \subseteq pending[n] /\ \A q \in A : q.index = i
  BY <1>2 DEF AnsweredBy
<1>7. i \in Nat \ {0} /\ tried'[n] = i /\ outcome'[i].ok = ok
  <2>1. tried[n] \in Nat /\ DOMAIN tried = Node
    BY BaseFacts DEF Base, ReplicasFit
  <2>2. tried' = [tried EXCEPT ![n] = tried[n] + 1] /\ outcome'[tried[n] + 1].ok = ok
    BY <1>5 DEF Passed
  <2>3. QED BY <1>1, <2>1, <2>2
<1>8. AnswersAt(n, i, ok, A)
  BY <1>3, <1>4, <1>5, <1>6, <1>7 DEF AnswersAt
<1>9. QED BY <1>8

LEMMA LedgerApplies ==
  ASSUME Base, LedgerFits, NEW n \in Node, NEW i, NEW ok, NEW A, AnswersAt(n, i, ok, A)
  PROVE  LedgerFits'
<1>1. ASSUME NEW q \in A, NEW r, r = Result(q.pid, i, ok)
      PROVE  ResultFits(n, r.pid, r.index, r.ok)'
  <2>1. PendingFits(n, q) /\ q.index = i
    BY DEF LedgerFits, AnswersAt
  <2>2. r.pid = q.pid /\ r.index = i /\ r.ok = ok
    BY <1>1 DEF Result
  <2>3. PairFits(Held(n)', n, nextProposal'[n], r.pid, r.index)
    BY <2>1, <2>2, PairFitsStays DEF PendingFits, AnswersAt
  <2>4. r.index \in Nat \ {0} /\ tried'[n] = r.index /\ outcome'[r.index].ok = r.ok
    BY <2>2 DEF AnswersAt
  <2>5. r.index \in 1 .. tried'[n]
    BY <2>4
  <2>6. r.pid \in 1 .. nextProposal'[n] - 1
    BY <2>3 DEF PairFits
  <2>7. QED BY <2>3, <2>4, <2>5, <2>6 DEF ResultFits
<1>2. \A m \in Node : \A x \in results'[m] :
         x \in results[m] \/ (m = n /\ \E q \in A : x = Result(q.pid, i, ok))
  BY DEF LedgerFits, AnswersAt
<1>3. \A m \in Node : \A x : NewResult(m, x)
  BY <1>1, <1>2 DEF NewResult, AnswersAt
<1>4. \A m \in Node : \A q \in pending'[m] : q \in pending[m]
  BY DEF LedgerFits, AnswersAt
<1>5. DOMAIN pending' = Node /\ DOMAIN results' = Node
  BY DEF LedgerFits, AnswersAt
<1>6. LedgerAdds
  BY <1>3, <1>4, <1>5 DEF LedgerFits, LedgerAdds, NewPending, AnswersAt
<1>7. QED BY <1>6, LedgerKeeps DEF AnswersAt

LEMMA LedgerStays ==
  ASSUME Base, Base', Carries, LedgerFits,
         UNCHANGED <<pending, results, cached, abandoned>>
  PROVE  LedgerFits'
<1>1. LedgerAdds
  BY DEF LedgerFits, LedgerAdds, NewPending, NewResult
<1>2. QED BY <1>1, LedgerKeeps

----------------------------------------------------------------------------
\* The services: the callers.

Pended(n, pid) == \E q \in pending[n] : q.pid = pid

Reported(n, pid) == \E r \in results[n] \cup cached[n] : r.pid = pid

\* The proposal, or its result, is where it can still reach its caller.
Kept(n, pid) ==
    Queued(Held(n), pid) \/ Pended(n, pid) \/ Reported(n, pid) \/ Forgotten(n, pid)

WaitFits(c) ==
    LET p == caller[c].proposal
    IN  /\ caller[c] = [phase |-> "waiting", proposal |-> p]
        /\ p.node \in Node /\ IsProposal(p, p.node, nextProposal[p.node])
        /\ p.pid \notin abandoned[p.node] /\ Kept(p.node, p.pid)

AnswerFits(told) ==
    LET p == told.proposal
    IN  \E i \in 1 .. sm[p.node].last :
           /\ log[i].cmd.target = p.cmd.target
           /\ log[i].reads => log[i].cmd.kind = p.cmd.kind
           /\ log[told.index] = p => i >= told.index
           /\ told.answer.tasks = Left(i).tasks
           /\ told.answer.duplicate = Left(i).duplicate

\* What a caller has been told.
ToldFits(told) ==
    LET p == told.proposal
    IN  /\ told = [phase |-> told.phase, proposal |-> p, status |-> told.status,
                   index |-> told.index, answer |-> told.answer]
        /\ p.node \in Node /\ Derived(p)
        /\ \/ told.status = "RETRY_LATER" /\ told.phase = "answered"
           \/ ResultFits(p.node, p.pid, told.index, told.status # "REFUSED")
        /\ \/ told.phase = "querying" /\ told.status = "OK" /\ p.reads
           \/ /\ told.phase = "answered"
              /\ told.status = "OK" /\ p.reads => AnswerFits(told)

CallerFits(c) == caller[c].phase = "idle" \/ WaitFits(c) \/ ToldFits(caller[c])

Apart(c, d) ==
    Waits(c) /\ Waits(d) /\ NodeOf(c) = NodeOf(d)
    /\ caller[c].proposal.pid = caller[d].proposal.pid => c = d

CallersFit ==
    /\ DOMAIN caller = Caller
    /\ \A c \in Caller : CallerFits(c)
    /\ \A c, d \in Caller : Apart(c, d)

LEMMA LastTried ==
  ASSUME Base, NEW n \in Node
  PROVE  sm[n].last \in 0 .. tried[n]
<1>1. PICK m : Same(sm[n], m) /\ Upto(m, tried[n], log, outcome)
  BY ReplicaFacts DEF Base
<1>2. QED BY <1>1 DEF Same, Upto, Refusals

LEMMA AnswerStays ==
  ASSUME Base, Base', Carries, NEW told, told.proposal.node \in Node,
         ResultFits(told.proposal.node, told.proposal.pid, told.index, TRUE),
         AnswerFits(told)
  PROVE  AnswerFits(told)'
<1>1. PICK p : p = told.proposal
  OBVIOUS
<1>2. PICK i \in 1 .. sm[p.node].last :
           /\ log[i].cmd.target = p.cmd.target
           /\ log[i].reads => log[i].cmd.kind = p.cmd.kind
           /\ log[told.index] = p => i >= told.index
           /\ told.answer.tasks = Left(i).tasks
           /\ told.answer.duplicate = Left(i).duplicate
  BY <1>1 DEF AnswerFits
<1>3. /\ tried[p.node] \in 0 .. Len(outcome) /\ Len(outcome) \in Nat
      /\ Len(outcome) <= Len(log) /\ Len(log) \in Nat /\ DOMAIN log = 1 .. Len(log)
      /\ sm[p.node].last \in 0 .. tried[p.node]
  BY <1>1, BaseFacts, LastTried
<1>4. told.index \in 1 .. tried[p.node]
  BY <1>1 DEF ResultFits
<1>5. i \in 1 .. Len(outcome) /\ i \in DOMAIN log /\ told.index \in DOMAIN log
  BY <1>2, <1>3, <1>4
<1>6. /\ log'[i] = log[i] /\ log'[told.index] = log[told.index]
      /\ Left(i)' = Left(i)
  BY <1>5 DEF Carries, Left
<1>7. i \in 1 .. sm'[p.node].last
  <2>1. sm[p.node].last <= sm'[p.node].last
    BY <1>1 DEF Carries
  <2>2. sm'[p.node].last \in Nat
    BY <1>1 DEF Base, ReplicasFit, Machine
  <2>3. QED BY <1>2, <1>3, <2>1, <2>2
<1>8. QED BY <1>1, <1>2, <1>6, <1>7 DEF AnswerFits

LEMMA ToldStays ==
  ASSUME Base, Base', Carries, NEW told, ToldFits(told)
  PROVE  ToldFits(told)'
<1>1. PICK p : p = told.proposal
  OBVIOUS
<1>2. /\ told = [phase |-> told.phase, proposal |-> p, status |-> told.status,
                 index |-> told.index, answer |-> told.answer]
      /\ p.node \in Node /\ Derived(p)
      /\ \/ told.status = "RETRY_LATER" /\ told.phase = "answered"
         \/ ResultFits(p.node, p.pid, told.index, told.status # "REFUSED")
      /\ \/ told.phase = "querying" /\ told.status = "OK" /\ p.reads
         \/ /\ told.phase = "answered"
            /\ told.status = "OK" /\ p.reads => AnswerFits(told)
  BY <1>1 DEF ToldFits
<1>3. \/ told.status = "RETRY_LATER" /\ told.phase = "answered"
      \/ ResultFits(p.node, p.pid, told.index, told.status # "REFUSED")'
  BY <1>2, ResultStays
<1>4. told.status = "OK" /\ AnswerFits(told) => AnswerFits(told)'
  <2> SUFFICES ASSUME told.status = "OK", AnswerFits(told) PROVE AnswerFits(told)'
    OBVIOUS
  <2>1. ResultFits(p.node, p.pid, told.index, told.status # "REFUSED")
    BY <1>2
  <2>2. ResultFits(p.node, p.pid, told.index, TRUE)
    BY <2>1 DEF ResultFits
  <2>3. QED BY <1>1, <1>2, <2>2, AnswerStays
<1>5. QED BY <1>1, <1>2, <1>3, <1>4 DEF ToldFits

\* A step that leaves caller c alone keeps what c waits for.
CallerSame(c) ==
    /\ caller'[c] = caller[c]
    /\ \A p : p = caller[c].proposal /\ WaitFits(c)
             => p.pid \notin abandoned'[p.node] /\ Kept(p.node, p.pid)'

NowTold(c) == \E told : told = caller'[c] /\ ToldFits(told)'

LEMMA SameCallerFits ==
  ASSUME Base, Base', Carries, NEW c, CallerFits(c), CallerSame(c)
  PROVE  CallerFits(c)'
<1>1. CASE caller[c].phase = "idle"
  BY <1>1 DEF CallerFits, CallerSame
<1>2. CASE WaitFits(c)
  <2>1. PICK p : p = caller[c].proposal
    OBVIOUS
  <2>2. /\ caller[c] = [phase |-> "waiting", proposal |-> p]
        /\ p.node \in Node /\ IsProposal(p, p.node, nextProposal[p.node])
    BY <1>2, <2>1 DEF WaitFits
  <2>3. p.pid \notin abandoned'[p.node] /\ Kept(p.node, p.pid)'
    BY <1>2, <2>1 DEF CallerSame
  <2>4. IsProposal(p, p.node, nextProposal'[p.node])
    <3>1. p.pid \in 1 .. nextProposal[p.node] - 1
      BY <2>2 DEF IsProposal
    <3>2. p.pid \in 1 .. nextProposal'[p.node] - 1
      BY <2>2, <3>1, GivenStays
    <3>3. QED BY <2>2, <3>2 DEF IsProposal
  <2>5. caller'[c] = caller[c]
    BY DEF CallerSame
  <2>6. WaitFits(c)'
    BY <2>1, <2>2, <2>3, <2>4, <2>5 DEF WaitFits
  <2>7. QED BY <2>6 DEF CallerFits
<1>3. CASE ToldFits(caller[c])
  <2>1. PICK told : told = caller[c]
    OBVIOUS
  <2>2. ToldFits(told)' /\ told = caller'[c]
    BY <1>3, <2>1, ToldStays DEF CallerSame
  <2>3. QED BY <2>2 DEF CallerFits
<1>4. QED BY <1>1, <1>2, <1>3 DEF CallerFits

LEMMA ToldPhase ==
  ASSUME NEW told, ToldFits(told)
  PROVE  told.phase # "waiting"
BY DEF ToldFits

LEMMA CallersKeep ==
  ASSUME Base, Base', Carries, CallersFit, DOMAIN caller' = Caller,
         \A c \in Caller : CallerSame(c) \/ NowTold(c)
  PROVE  CallersFit'
<1>1. ASSUME NEW c \in Caller PROVE CallerFits(c)'
  <2>1. CASE CallerSame(c)
    BY <2>1, SameCallerFits DEF CallersFit
  <2>2. CASE NowTold(c)
    <3>1. PICK told : told = caller'[c] /\ ToldFits(told)'
      BY <2>2 DEF NowTold
    <3>2. QED BY <3>1 DEF CallerFits
  <2>3. QED BY <2>1, <2>2
<1>2. ASSUME NEW c \in Caller, caller'[c].phase = "waiting"
      PROVE  caller'[c] = caller[c]
  <2>1. CASE CallerSame(c)
    BY <2>1 DEF CallerSame
  <2>2. CASE NowTold(c)
    <3>1. PICK told : told = caller'[c] /\ ToldFits(told)'
      BY <2>2 DEF NowTold
    <3>2. told.phase # "waiting"
      BY <3>1 DEF ToldFits
    <3>3. QED BY <1>2, <3>1, <3>2
  <2>3. QED BY <2>1, <2>2
<1>3. ASSUME NEW c \in Caller, NEW d \in Caller PROVE Apart(c, d)'
  <2>1. Apart(c, d)
    BY DEF CallersFit
  <2>2. QED BY <1>2, <2>1 DEF Apart, Waits, NodeOf
<1>4. QED BY <1>1, <1>3 DEF CallersFit

LEMMA ForgottenStays ==
  ASSUME Base, Base', Carries, NEW n \in Node, NEW pid \in 1 .. nextProposal[n] - 1,
         Forgotten(n, pid)
  PROVE  Forgotten(n, pid)'
<1>1. nextProposal[n] \in Nat /\ nextProposal[n] <= nextProposal'[n] /\ ResultCap \in Nat
  BY BaseFacts, ServiceAssumption DEF Carries
<1>2. nextProposal'[n] \in Nat
  BY DEF Base, HeldFits
<1>3. QED BY <1>1, <1>2 DEF Forgotten

\* A proposal that is kept at m stays so if each of the four cases does.
LEMMA KeptStays ==
  ASSUME Base, Base', Carries, NEW m \in Node, NEW pid \in 1 .. nextProposal[m] - 1,
         Kept(m, pid),
         Queued(Held(m), pid)
             => Queued(Held(m)', pid) \/ Pended(m, pid)' \/ Reported(m, pid)',
         Pended(m, pid) => Pended(m, pid)' \/ Reported(m, pid)',
         Reported(m, pid) => Reported(m, pid)' \/ Forgotten(m, pid)'
  PROVE  Kept(m, pid)'
BY ForgottenStays DEF Kept

\* A step that leaves all callers, the caches and what is abandoned alone.
LEMMA CallersStay ==
  ASSUME Base, Base', Carries, CallersFit, UNCHANGED <<caller, abandoned>>,
         \A m \in Node : \A pid \in 1 .. nextProposal[m] - 1 :
             Kept(m, pid) => Kept(m, pid)'
  PROVE  CallersFit'
<1>1. ASSUME NEW c \in Caller PROVE CallerSame(c)
  <2>1. ASSUME NEW p, p = caller[c].proposal, WaitFits(c)
        PROVE  p.pid \notin abandoned'[p.node] /\ Kept(p.node, p.pid)'
    <3>1. /\ p.node \in Node /\ IsProposal(p, p.node, nextProposal[p.node])
          /\ p.pid \notin abandoned[p.node] /\ Kept(p.node, p.pid)
      BY <2>1 DEF WaitFits
    <3>2. p.pid \in 1 .. nextProposal[p.node] - 1
      BY <3>1 DEF IsProposal
    <3>3. Kept(p.node, p.pid)'
      BY <3>1, <3>2
    <3>4. QED BY <3>1, <3>3
  <2>2. QED BY <2>1 DEF CallerSame
<1>2. QED BY <1>1, CallersKeep DEF CallersFit

LEMMA QueuedSame ==
  ASSUME NEW m, events'[m] = events[m], NEW pid, Queued(Held(m), pid)
  PROVE  Queued(Held(m)', pid)
BY DEF Queued, Held

LEMMA HeadLeaves ==
  ASSUME Base, NEW n \in Node, events[n] # <<>>, events'[n] = Tail(events[n]),
         NEW pid, Queued(Held(n), pid)
  PROVE  Queued(Held(n)', pid) \/ pid = Head(events[n]).pid
<1>1. HeldFits(Held(n), n, nextProposal[n]) /\ Held(n).events = events[n]
  BY DEF Base, Held
<1>2. Held(n)'.events = Tail(events[n])
  BY DEF Held
<1>3. Unqueued(Held(n), Held(n)', n, nextProposal[n], Head(events[n]))
  BY <1>1, <1>2, QueueShrinks
<1>4. QED BY <1>3 DEF Unqueued

LEMMA CallersAccept ==
  ASSUME Base, LedgerFits, CallersFit, NEW n \in Node, Accept(n)
  PROVE  CallersFit'
<1>1. Base' /\ Carries
  BY BaseAccepts
<1>2. PICK q : q = [pid |-> Head(events[n]).pid, index |-> known[n] + Len(tail[n]) + 1]
  OBVIOUS
<1>3. /\ events[n] # <<>> /\ events' = [events EXCEPT ![n] = Tail(events[n])]
      /\ pending' = [pending EXCEPT ![n] = pending[n] \cup {q}]
      /\ UNCHANGED <<results, cached, abandoned, caller>>
  BY <1>2 DEF Accept, cacheVars
<1>4. DOMAIN events = Node /\ DOMAIN pending = Node
  BY DEF Base, LedgerFits
<1>5. ASSUME NEW m \in Node, NEW pid \in 1 .. nextProposal[m] - 1, Kept(m, pid)
      PROVE  Kept(m, pid)'
  <2>1. Pended(m, pid) => Pended(m, pid)'
    BY <1>3, <1>4 DEF Pended
  <2>2. Reported(m, pid) => Reported(m, pid)'
    BY <1>3 DEF Reported
  <2>3. ASSUME Queued(Held(m), pid)
        PROVE  Queued(Held(m)', pid) \/ Pended(m, pid)' \/ Reported(m, pid)'
    <3>1. CASE m # n
      BY <1>3, <1>4, <2>3, <3>1, QueuedSame
    <3>2. CASE m = n
      <4>1. events'[n] = Tail(events[n]) /\ q \in pending'[n]
        BY <1>3, <1>4
      <4>2. Queued(Held(n)', pid) \/ pid = Head(events[n]).pid
        BY <1>3, <2>3, <3>2, <4>1, HeadLeaves
      <4>3. pid = Head(events[n]).pid => Pended(n, pid)'
        BY <1>2, <4>1 DEF Pended
      <4>4. QED BY <3>2, <4>2, <4>3
    <3>3. QED BY <3>1, <3>2
  <2>4. QED BY <1>1, <1>5, <2>1, <2>2, <2>3, KeptStays
<1>6. QED BY <1>1, <1>3, <1>5, CallersStay

LEMMA CallersRefuse ==
  ASSUME Base, LedgerFits, CallersFit, NEW n \in Node, Refuse(n)
  PROVE  CallersFit'
<1>1. Base' /\ Carries
  BY BaseRefuses
<1>2. PICK r : r = Result(Head(events[n]).pid, 0, FALSE)
  OBVIOUS
<1>3. /\ events[n] # <<>> /\ events' = [events EXCEPT ![n] = Tail(events[n])]
      /\ results' = [results EXCEPT ![n] = results[n] \cup {r}]
      /\ UNCHANGED <<pending, cached, abandoned, caller>>
  BY <1>2 DEF Refuse, Emit, cacheVars
<1>4. DOMAIN events = Node /\ DOMAIN results = Node
  BY DEF Base, LedgerFits
<1>5. ASSUME NEW m \in Node, NEW pid \in 1 .. nextProposal[m] - 1, Kept(m, pid)
      PROVE  Kept(m, pid)'
  <2>1. Pended(m, pid) => Pended(m, pid)'
    BY <1>3 DEF Pended
  <2>2. Reported(m, pid) => Reported(m, pid)'
    BY <1>3, <1>4 DEF Reported
  <2>3. ASSUME Queued(Held(m), pid)
        PROVE  Queued(Held(m)', pid) \/ Pended(m, pid)' \/ Reported(m, pid)'
    <3>1. CASE m # n
      BY <1>3, <1>4, <2>3, <3>1, QueuedSame
    <3>2. CASE m = n
      <4>1. events'[n] = Tail(events[n]) /\ r \in results'[n]
        BY <1>3, <1>4
      <4>2. Queued(Held(n)', pid) \/ pid = Head(events[n]).pid
        BY <1>3, <2>3, <3>2, <4>1, HeadLeaves
      <4>3. pid = Head(events[n]).pid => Reported(n, pid)'
        BY <1>2, <4>1 DEF Reported, Result
      <4>4. QED BY <3>2, <4>2, <4>3
    <3>3. QED BY <3>1, <3>2
  <2>4. QED BY <1>1, <1>5, <2>1, <2>2, <2>3, KeptStays
<1>6. QED BY <1>1, <1>3, <1>5, CallersStay

\* Each of A leaves pending, and becomes one of the new results B.
Become(n, A, B) ==
    /\ \A q \in A : \E r \in B : r.pid = q.pid
    /\ pending' = [pending EXCEPT ![n] = pending[n] \ A]
    /\ results' = [results EXCEPT ![n] = results[n] \cup B]

LEMMA CallersAnswered ==
  ASSUME Base, Base', Carries, LedgerFits, CallersFit, NEW n \in Node,
         UNCHANGED <<events, cached, abandoned, caller>>, NEW A, NEW B,
         Become(n, A, B)
  PROVE  CallersFit'
<1>1. /\ DOMAIN pending = Node /\ DOMAIN results = Node
      /\ pending' = [pending EXCEPT ![n] = pending[n] \ A]
      /\ results' = [results EXCEPT ![n] = results[n] \cup B]
      /\ \A q \in A : \E r \in B : r.pid = q.pid
  BY DEF LedgerFits, Become
<1>2. ASSUME NEW m \in Node, NEW pid \in 1 .. nextProposal[m] - 1, Kept(m, pid)
      PROVE  Kept(m, pid)'
  <2>1. ASSUME Pended(m, pid)
        PROVE  Pended(m, pid)' \/ Reported(m, pid)'
    <3>1. PICK q \in pending[m] : q.pid = pid
      BY <2>1 DEF Pended
    <3>2. CASE q \in pending'[m]
      BY <3>1, <3>2 DEF Pended
    <3>3. CASE q \notin pending'[m]
      <4>1. m = n /\ q \in A
        BY <1>1, <3>1, <3>3
      <4>2. PICK r \in B : r.pid = pid
        BY <1>1, <3>1, <4>1
      <4>3. r \in results'[m]
        BY <1>1, <4>1, <4>2
      <4>4. QED BY <4>2, <4>3 DEF Reported
    <3>4. QED BY <3>2, <3>3
  <2>2. Reported(m, pid) => Reported(m, pid)'
    BY <1>1 DEF Reported
  <2>3. Queued(Held(m), pid) => Queued(Held(m)', pid)
    BY QueuedSame
  <2>4. QED BY <1>2, <2>1, <2>2, <2>3, KeptStays
<1>3. QED BY <1>2, CallersStay

LEMMA CallersFails ==
  ASSUME Base, LedgerFits, CallersFit, NEW n \in Node, NEW A, FailsAt(n, A)
  PROVE  CallersFit'
<1>1. Base' /\ Carries
  BY BaseStays DEF FailsAt
<1>2. /\ pending' = [pending EXCEPT ![n] = pending[n] \ A]
      /\ results' = [results EXCEPT ![n] = results[n] \cup
             {Result(q.pid, q.index, FALSE) : q \in A}]
      /\ UNCHANGED <<events, cached, abandoned, caller>>
  BY DEF FailsAt
<1>3. PICK B : B = {Result(q.pid, q.index, FALSE) : q \in A}
  OBVIOUS
<1>4. ASSUME NEW q \in A PROVE \E r \in B : r.pid = q.pid
  <2>1. Result(q.pid, q.index, FALSE) \in B
    BY <1>3
  <2>2. Result(q.pid, q.index, FALSE).pid = q.pid
    BY DEF Result
  <2>3. QED BY <2>1, <2>2
<1>5. results' = [results EXCEPT ![n] = results[n] \cup B]
  BY <1>2, <1>3
<1>6. Become(n, A, B)
  BY <1>2, <1>4, <1>5 DEF Become
<1>7. QED BY <1>1, <1>2, <1>6, CallersAnswered

LEMMA CallersApplies ==
  ASSUME Base, LedgerFits, CallersFit, NEW n \in Node, NEW i, NEW ok, NEW A,
         AnswersAt(n, i, ok, A)
  PROVE  CallersFit'
<1>1. PICK B : B = {Result(q.pid, i, ok) : q \in A}
  OBVIOUS
<1>2. ASSUME NEW q \in A PROVE \E r \in B : r.pid = q.pid
  <2>1. Result(q.pid, i, ok) \in B
    BY <1>1
  <2>2. Result(q.pid, i, ok).pid = q.pid
    BY DEF Result
  <2>3. QED BY <2>1, <2>2
<1>3. /\ results' = [results EXCEPT ![n] = results[n] \cup B]
      /\ pending' = [pending EXCEPT ![n] = pending[n] \ A]
      /\ UNCHANGED <<events, cached, abandoned, caller>> /\ Base' /\ Carries
  BY <1>1 DEF AnswersAt
<1>4. Become(n, A, B)
  BY <1>2, <1>3 DEF Become
<1>5. QED BY <1>3, <1>4, CallersAnswered

\* A step that leaves alone where the proposals and results of n are.
LEMMA CallersIdle ==
  ASSUME Base, Base', Carries, CallersFit,
         UNCHANGED <<events, pending, results, cached, abandoned, caller>>
  PROVE  CallersFit'
<1>1. ASSUME NEW m \in Node, NEW pid \in 1 .. nextProposal[m] - 1, Kept(m, pid)
      PROVE  Kept(m, pid)'
  <2>1. Queued(Held(m), pid) => Queued(Held(m)', pid)
    BY QueuedSame
  <2>2. Pended(m, pid) => Pended(m, pid)'
    BY DEF Pended
  <2>3. Reported(m, pid) => Reported(m, pid)'
    BY DEF Reported
  <2>4. QED BY <1>1, <2>1, <2>2, <2>3, KeptStays
<1>2. QED BY <1>1, CallersStay

LEMMA WaitingFits ==
  ASSUME CallersFit, NEW c \in Caller, Waits(c)
  PROVE  \E p : /\ p = caller[c].proposal /\ WaitFits(c)
                /\ caller[c] = [phase |-> "waiting", proposal |-> p]
                /\ p.node \in Node /\ IsProposal(p, p.node, nextProposal[p.node])
                /\ p.pid \in 1 .. nextProposal[p.node] - 1
                /\ p.pid \notin abandoned[p.node] /\ Kept(p.node, p.pid)
<1>1. CallerFits(c) /\ caller[c].phase = "waiting"
  BY DEF CallersFit, Waits
<1>2. ~ToldFits(caller[c])
  <2>1. PICK told : told = caller[c]
    OBVIOUS
  <2>2. ~ToldFits(told)
    BY <1>1, <2>1, ToldPhase
  <2>3. QED BY <2>1, <2>2
<1>3. WaitFits(c)
  BY <1>1, <1>2 DEF CallerFits
<1>4. PICK p : p = caller[c].proposal
  OBVIOUS
<1>5. /\ caller[c] = [phase |-> "waiting", proposal |-> p]
      /\ p.node \in Node /\ IsProposal(p, p.node, nextProposal[p.node])
      /\ p.pid \notin abandoned[p.node] /\ Kept(p.node, p.pid)
  BY <1>3, <1>4 DEF WaitFits
<1>6. p.pid \in 1 .. nextProposal[p.node] - 1
  BY <1>5 DEF IsProposal
<1>7. QED BY <1>3, <1>4, <1>5, <1>6

LEMMA CallersCalls ==
  ASSUME Base, LedgerFits, CallersFit, NEW c \in Caller, NEW n \in Node,
         NEW request \in Request, StartCall(c, n, request)
  PROVE  CallersFit'
<1>1. PICK p : p = Proposal(n, request)
  OBVIOUS
<1>2. PICK next : next = nextProposal[n]
  OBVIOUS
<1>3. Base' /\ Carries
  BY BaseCalls
<1>4. /\ events' = [events EXCEPT ![n] = Append(events[n], p)]
      /\ caller' = [caller EXCEPT ![c] = [phase |-> "waiting", proposal |-> p]]
      /\ nextProposal' = [nextProposal EXCEPT ![n] = next + 1]
      /\ UNCHANGED <<pending, results, cached, abandoned>>
  BY <1>1, <1>2 DEF StartCall, Proposal, cacheVars
<1>5. /\ DOMAIN events = Node /\ DOMAIN nextProposal = Node /\ DOMAIN caller = Caller
      /\ next \in Nat \ {0} /\ IsSequence(events[n])
  <2>1. HeldFits(Held(n), n, nextProposal[n]) /\ Held(n).events = events[n]
    BY DEF Base, Held
  <2>2. QED BY <1>2, <2>1, BaseFacts DEF Base, CallersFit, HeldFits
<1>6. p.node = n /\ p.pid = next /\ IsProposal(p, n, next + 1)
  BY <1>1, <1>2, <1>5, ProposalFits DEF Proposal
<1>7. /\ events'[n] = Append(events[n], p) /\ nextProposal'[n] = next + 1
      /\ \A m \in Node \ {n} : events'[m] = events[m]
      /\ caller'[c] = [phase |-> "waiting", proposal |-> p]
      /\ \A d \in Caller \ {c} : caller'[d] = caller[d]
      /\ DOMAIN caller' = Caller
  BY <1>4, <1>5
<1>8. /\ Len(events[n]) \in Nat /\ DOMAIN events[n] = 1 .. Len(events[n])
      /\ DOMAIN events'[n] = 1 .. Len(events[n]) + 1
      /\ events'[n][Len(events[n]) + 1] = p
      /\ \A k \in 1 .. Len(events[n]) : events'[n][k] = events[n][k]
  <2>1. IsSequence(events'[n]) /\ Len(events'[n]) = Len(events[n]) + 1
    BY <1>5, <1>7, SequenceFacts
  <2>2. QED BY <1>5, <1>7, <2>1, SequenceFacts
<1>9. ASSUME NEW m \in Node, NEW pid, Queued(Held(m), pid)
      PROVE  Queued(Held(m)', pid)
  <2>1. CASE m # n
    BY <1>7, <1>9, <2>1, QueuedSame
  <2>2. CASE m = n
    <3>1. PICK k \in DOMAIN events[n] : events[n][k].pid = pid
      BY <1>9, <2>2 DEF Queued, Held
    <3>2. k \in DOMAIN events'[n] /\ events'[n][k].pid = pid
      BY <1>8, <3>1
    <3>3. QED BY <2>2, <3>2 DEF Queued, Held
  <2>3. QED BY <2>1, <2>2
<1>10. ASSUME NEW d \in Caller \ {c} PROVE CallerFits(d)'
  <2>1. ASSUME NEW q, q = caller[d].proposal, WaitFits(d)
        PROVE  q.pid \notin abandoned'[q.node] /\ Kept(q.node, q.pid)'
    <3>1. /\ q.node \in Node /\ IsProposal(q, q.node, nextProposal[q.node])
          /\ q.pid \notin abandoned[q.node] /\ Kept(q.node, q.pid)
      BY <2>1 DEF WaitFits
    <3>2. q.pid \in 1 .. nextProposal[q.node] - 1
      BY <3>1 DEF IsProposal
    <3>3. /\ Pended(q.node, q.pid) => Pended(q.node, q.pid)'
          /\ Reported(q.node, q.pid) => Reported(q.node, q.pid)'
      BY <1>4 DEF Pended, Reported
    <3>4. Kept(q.node, q.pid)'
      BY <1>3, <1>9, <3>1, <3>2, <3>3, KeptStays
    <3>5. QED BY <1>4, <3>1, <3>4
  <2>2. CallerSame(d)
    BY <1>7, <2>1 DEF CallerSame
  <2>3. QED BY <1>3, <2>2, SameCallerFits DEF CallersFit
<1>11. WaitFits(c)'
  <2>1. p.pid \notin abandoned'[n]
    <3>1. next \notin abandoned[n]
      BY <1>2, <1>5 DEF LedgerFits
    <3>2. QED BY <1>4, <1>6, <3>1
  <2>2. Queued(Held(n)', p.pid)
    <3>1. Len(events[n]) + 1 \in DOMAIN events'[n]
      BY <1>8
    <3>2. QED BY <1>8, <3>1 DEF Queued, Held
  <2>3. Kept(n, p.pid)'
    BY <2>2 DEF Kept
  <2>4. QED BY <1>6, <1>7, <2>1, <2>3 DEF WaitFits
<1>12. ASSUME NEW d \in Caller \ {c}, Waits(d), caller[d].proposal.node = n
       PROVE  caller[d].proposal.pid # next
  <2>1. PICK q : q = caller[d].proposal /\ q.pid \in 1 .. nextProposal[q.node] - 1
    BY <1>12, WaitingFits
  <2>2. QED BY <1>2, <1>5, <1>12, <2>1
<1>13. ASSUME NEW a \in Caller, NEW b \in Caller PROVE Apart(a, b)'
  <2>1. CASE a # c /\ b # c
    <3>1. Apart(a, b)
      BY DEF CallersFit
    <3>2. caller'[a] = caller[a] /\ caller'[b] = caller[b]
      BY <1>7, <2>1
    <3>3. QED BY <3>1, <3>2 DEF Apart, Waits, NodeOf
  <2>2. CASE a = c /\ b # c
    <3>1. caller'[b] = caller[b] /\ caller'[a].proposal.pid = next
          /\ caller'[a].proposal.node = n
      BY <1>6, <1>7, <2>2
    <3>2. QED BY <1>12, <2>2, <3>1 DEF Apart, Waits, NodeOf
  <2>3. CASE a # c /\ b = c
    <3>1. caller'[a] = caller[a] /\ caller'[b].proposal.pid = next
          /\ caller'[b].proposal.node = n
      BY <1>6, <1>7, <2>3
    <3>2. QED BY <1>12, <2>3, <3>1 DEF Apart, Waits, NodeOf
  <2>4. CASE a = c /\ b = c
    BY <2>4 DEF Apart
  <2>5. QED BY <2>1, <2>2, <2>3, <2>4
<1>14. \A d \in Caller : CallerFits(d)'
  BY <1>10, <1>11 DEF CallerFits
<1>15. QED BY <1>7, <1>13, <1>14 DEF CallersFit

\* What a cache of n forgets is old.
LEMMA TrimForgets ==
  ASSUME Base, NEW n \in Node, NEW pids, pids \subseteq 1 .. nextProposal[n] - 1,
         NEW p \in pids, p \notin TrimIds(pids)
  PROVE  Forgotten(n, p)
<1> DEFINE later == {q \in pids : q >= p}
<1>1. PICK next : next = nextProposal[n]
  OBVIOUS
<1>2. next \in Nat \ {0} /\ p \in 1 .. next - 1 /\ ResultCap \in Nat
  BY <1>1, BaseFacts, ServiceAssumption
<1>3. IsFiniteSet(p .. next - 1) /\ Cardinality(p .. next - 1) = next - p
  <2>1. p \in Int /\ next - 1 \in Int /\ ~(p > next - 1) /\ (next - 1) - p + 1 = next - p
    BY <1>2
  <2>2. Cardinality(p .. next - 1) = (next - 1) - p + 1
    BY <2>1, FS_Interval
  <2>3. QED BY <2>1, <2>2, FS_Interval
<1>4. ASSUME NEW q \in later PROVE q \in p .. next - 1
  <2>1. q \in 1 .. next - 1 /\ q >= p
    BY <1>1
  <2>2. QED BY <1>2, <2>1
<1>5. ~(Cardinality(later) <= ResultCap)
  BY DEF TrimIds
<1> HIDE DEF later
<1>6. Cardinality(later) \in Nat /\ Cardinality(later) <= next - p
  BY <1>3, <1>4, FS_Subset, FS_CardinalityType
<1>7. p + ResultCap < next
  BY <1>2, <1>5, <1>6
<1>8. QED BY <1>1, <1>7 DEF Forgotten

LEMMA TrimResultsForgets ==
  ASSUME Base, NEW n \in Node, NEW rs,
         \A q \in rs : q.pid \in 1 .. nextProposal[n] - 1,
         NEW r \in rs
  PROVE  r \in TrimResults(rs) \/ Forgotten(n, r.pid)
<1>1. PICK pids : pids = {q.pid : q \in rs}
  OBVIOUS
<1>2. pids \subseteq 1 .. nextProposal[n] - 1 /\ r.pid \in pids
  BY <1>1
<1>3. r.pid \in TrimIds(pids) \/ Forgotten(n, r.pid)
  BY <1>2, TrimForgets
<1>4. r.pid \in TrimIds(pids) => r \in TrimResults(rs)
  BY <1>1 DEF TrimResults
<1>5. QED BY <1>3, <1>4

\* A step of caller c: what it takes from its node or abandons there is its own.
TakesOwn(c) ==
    /\ DOMAIN caller' = Caller
    /\ \A d \in Caller \ {c} : caller'[d] = caller[d]
    /\ \A m \in Node : \A pid \in 1 .. nextProposal[m] - 1 :
          pid \notin abandoned[m] /\ Kept(m, pid)
          => \/ pid \notin abandoned'[m] /\ Kept(m, pid)'
             \/ Waits(c) /\ m = NodeOf(c) /\ pid = caller[c].proposal.pid

LEMMA CallersTake ==
  ASSUME Base, Base', Carries, CallersFit, NEW c \in Caller, TakesOwn(c),
         NowTold(c) \/ CallerSame(c)
  PROVE  CallersFit'
<1>1. ASSUME NEW d \in Caller \ {c} PROVE CallerSame(d)
  <2>1. ASSUME NEW p, p = caller[d].proposal, WaitFits(d)
        PROVE  p.pid \notin abandoned'[p.node] /\ Kept(p.node, p.pid)'
    <3>1. /\ caller[d] = [phase |-> "waiting", proposal |-> p] /\ p.node \in Node
          /\ IsProposal(p, p.node, nextProposal[p.node])
          /\ p.pid \notin abandoned[p.node] /\ Kept(p.node, p.pid)
      BY <2>1 DEF WaitFits
    <3>2. p.pid \in 1 .. nextProposal[p.node] - 1
      BY <3>1 DEF IsProposal
    <3>3. ~(Waits(c) /\ p.node = NodeOf(c) /\ p.pid = caller[c].proposal.pid)
      <4>1. Apart(c, d) /\ c # d
        BY DEF CallersFit
      <4>2. Waits(d) /\ NodeOf(d) = p.node /\ caller[d].proposal.pid = p.pid
        BY <3>1 DEF Waits, NodeOf
      <4>3. QED BY <4>1, <4>2 DEF Apart
    <3>4. QED BY <3>1, <3>2, <3>3 DEF TakesOwn
  <2>2. QED BY <2>1 DEF CallerSame, TakesOwn
<1>2. QED BY <1>1, CallersKeep DEF TakesOwn

LEMMA Received ==
  ASSUME Base, Base', Carries, LedgerFits, CallersFit, NEW c \in Caller, Waits(c),
         NEW r \in results[NodeOf(c)] \cup cached[NodeOf(c)], Mine(c, r), Receive(c, r)
  PROVE  /\ NowTold(c) /\ DOMAIN caller' = Caller
         /\ \A d \in Caller \ {c} : caller'[d] = caller[d]
<1>1. PICK p : /\ p = caller[c].proposal
               /\ p.node \in Node /\ IsProposal(p, p.node, nextProposal[p.node])
  BY WaitingFits
<1>2. PICK told :
         told = [phase |-> IF r.ok /\ p.reads THEN "querying" ELSE "answered",
                 proposal |-> p, status |-> IF r.ok THEN "OK" ELSE "REFUSED",
                 index |-> r.index, answer |-> NoAnswer]
  OBVIOUS
<1>3. caller' = [caller EXCEPT ![c] = told]
  BY <1>1, <1>2 DEF Receive
<1>4. DOMAIN caller = Caller
  BY DEF CallersFit
<1>5. ResultFits(p.node, p.pid, r.index, r.ok)
  BY <1>1 DEF LedgerFits, NodeOf, Mine
<1>6. /\ told.proposal = p /\ told.index = r.index /\ told.answer = NoAnswer
      /\ told.status = (IF r.ok THEN "OK" ELSE "REFUSED")
      /\ told.phase = (IF r.ok /\ p.reads THEN "querying" ELSE "answered")
      /\ told = [phase |-> told.phase, proposal |-> p, status |-> told.status,
                 index |-> told.index, answer |-> told.answer]
  BY <1>2
<1>7. ResultFits(p.node, p.pid, told.index, told.status # "REFUSED")
  <2>1. CASE r.ok
    BY <1>5, <1>6, <2>1 DEF ResultFits
  <2>2. CASE ~r.ok
    BY <1>5, <1>6, <2>2 DEF ResultFits
  <2>3. QED BY <2>1, <2>2
<1>8. Derived(p)
  BY <1>1 DEF IsProposal
<1>9. ToldFits(told)
  <2>1. \/ told.phase = "querying" /\ told.status = "OK" /\ p.reads
        \/ /\ told.phase = "answered"
           /\ ~(told.status = "OK" /\ p.reads)
    BY <1>6
  <2>2. QED BY <1>1, <1>6, <1>7, <1>8, <2>1 DEF ToldFits
<1>10. ToldFits(told)'
  BY <1>9, ToldStays
<1>11. told = caller'[c]
  BY <1>3, <1>4
<1>12. QED BY <1>3, <1>4, <1>10, <1>11 DEF NowTold

LEMMA TakesCached ==
  ASSUME Base, LedgerFits, CallersFit, NEW c \in Caller, TakeCached(c)
  PROVE  LedgerFits' /\ CallersFit'
<1>1. Base' /\ Carries
  BY BaseStays DEF TakeCached, raftVars, counters
<1>2. PICK n \in Node : n = NodeOf(c)
  BY WaitingFits DEF TakeCached, NodeOf
<1>3. PICK r \in cached[n] :
         /\ Mine(c, r) /\ Receive(c, r) /\ Waits(c)
         /\ cached' = [cached EXCEPT ![n] = cached[n] \ {r}]
         /\ UNCHANGED <<events, pending, results, abandoned>>
  BY <1>2 DEF TakeCached, raftVars
<1>4. DOMAIN cached = Node
  BY DEF LedgerFits
<1>5. \A m \in Node : \A q \in cached'[m] : q \in cached[m]
  BY <1>3, <1>4
<1>6. LedgerAdds
  BY <1>3, <1>4, <1>5 DEF LedgerFits, LedgerAdds, NewPending, NewResult
<1>7. /\ NowTold(c) /\ DOMAIN caller' = Caller
      /\ \A d \in Caller \ {c} : caller'[d] = caller[d]
  BY <1>1, <1>2, <1>3, Received
<1>8. ASSUME NEW m \in Node, NEW pid \in 1 .. nextProposal[m] - 1, Kept(m, pid),
             ~(Waits(c) /\ m = NodeOf(c) /\ pid = caller[c].proposal.pid)
      PROVE  Kept(m, pid)'
  <2>1. ~(m = n /\ pid = r.pid)
    BY <1>2, <1>3, <1>8 DEF Mine
  <2>2. \A q \in cached[m] : q.pid = pid => q \in cached'[m]
    BY <1>3, <1>4, <2>1
  <2>3. Reported(m, pid) => Reported(m, pid)'
    BY <1>3, <2>2 DEF Reported
  <2>4. Pended(m, pid) => Pended(m, pid)'
    BY <1>3 DEF Pended
  <2>5. Queued(Held(m), pid) => Queued(Held(m)', pid)
    BY <1>3, QueuedSame
  <2>6. QED BY <1>1, <1>8, <2>3, <2>4, <2>5, KeptStays
<1>9. TakesOwn(c)
  BY <1>3, <1>7, <1>8 DEF TakesOwn
<1>10. QED BY <1>1, <1>6, <1>7, <1>9, LedgerKeeps, CallersTake

LEMMA TimesOut ==
  ASSUME Base, LedgerFits, CallersFit, NEW c \in Caller, Timeout(c)
  PROVE  LedgerFits' /\ CallersFit'
<1>1. Base' /\ Carries
  BY BaseStays DEF Timeout, raftVars, counters
<1>2. PICK p : /\ p = caller[c].proposal
               /\ p.node \in Node /\ IsProposal(p, p.node, nextProposal[p.node])
               /\ p.pid \in 1 .. nextProposal[p.node] - 1
  BY WaitingFits DEF Timeout
<1>3. PICK n \in Node : n = NodeOf(c) /\ n = p.node
  BY <1>2 DEF NodeOf
<1>4. PICK left : left = {r \in cached[n] : r.pid # p.pid}
  OBVIOUS
<1>5. PICK told : told = [phase |-> "answered", proposal |-> p,
                          status |-> "RETRY_LATER", index |-> 0, answer |-> NoAnswer]
  OBVIOUS
<1>6. /\ Waits(c)
      /\ cached' = [cached EXCEPT ![n] = TrimResults(left)]
      /\ abandoned' = [abandoned EXCEPT ![n] = TrimIds(abandoned[n] \cup {p.pid})]
      /\ caller' = [caller EXCEPT ![c] = told]
      /\ UNCHANGED <<events, pending, results>>
  BY <1>2, <1>3, <1>4, <1>5 DEF Timeout, raftVars
<1>7. DOMAIN cached = Node /\ DOMAIN abandoned = Node /\ DOMAIN caller = Caller
  BY DEF LedgerFits, CallersFit
<1>8. /\ \A m \in Node \ {n} : cached'[m] = cached[m] /\ abandoned'[m] = abandoned[m]
      /\ cached'[n] \subseteq cached[n]
      /\ abandoned'[n] \subseteq abandoned[n] \cup {p.pid}
      /\ cached'[n] = TrimResults(left)
  <2>1. TrimResults(left) \subseteq left /\ left \subseteq cached[n]
    BY <1>4, TrimKeepsWithin
  <2>2. TrimIds(abandoned[n] \cup {p.pid}) \subseteq abandoned[n] \cup {p.pid}
    BY TrimKeepsWithin
  <2>3. QED BY <1>6, <1>7, <2>1, <2>2
<1>9. LedgerAdds
  <2>1. \A m \in Node : \A q \in cached'[m] : q \in cached[m]
    BY <1>8
  <2>2. \A m \in Node : \A pid \in abandoned'[m] :
            pid \in abandoned[m] \/ pid \in 1 .. nextProposal[m] - 1
    BY <1>2, <1>3, <1>8
  <2>3. DOMAIN cached' = Node /\ DOMAIN abandoned' = Node
    BY <1>6, <1>7
  <2>4. QED BY <1>6, <2>1, <2>2, <2>3 DEF LedgerFits, LedgerAdds, NewPending, NewResult
<1>10. NowTold(c) /\ DOMAIN caller' = Caller
       /\ \A d \in Caller \ {c} : caller'[d] = caller[d]
  <2>1. Derived(p)
    BY <1>2 DEF IsProposal
  <2>2. ToldFits(told)
    BY <1>2, <1>5, <2>1 DEF ToldFits
  <2>3. ToldFits(told)'
    BY <1>1, <2>2, ToldStays
  <2>4. told = caller'[c]
    BY <1>6, <1>7
  <2>5. QED BY <1>6, <1>7, <2>3, <2>4 DEF NowTold
<1>11. ASSUME NEW m \in Node, NEW pid \in 1 .. nextProposal[m] - 1, Kept(m, pid),
              pid \notin abandoned[m], ~(m = n /\ pid = p.pid)
       PROVE  pid \notin abandoned'[m] /\ Kept(m, pid)'
  <2>1. pid \notin abandoned'[m]
    BY <1>8, <1>11
  <2>2. ASSUME Reported(m, pid) PROVE Reported(m, pid)' \/ Forgotten(m, pid)'
    <3>1. PICK r \in results[m] \cup cached[m] : r.pid = pid
      BY <2>2 DEF Reported
    <3>2. CASE m # n \/ r \in results[m]
      BY <1>6, <1>8, <3>1, <3>2 DEF Reported
    <3>3. CASE m = n /\ r \in cached[m]
      <4>1. r \in left
        BY <1>4, <1>11, <3>1, <3>3
      <4>2. \A q \in left : q.pid \in 1 .. nextProposal[n] - 1
        BY <1>4 DEF LedgerFits, ResultFits
      <4>3. r \in TrimResults(left) \/ Forgotten(n, r.pid)
        BY <4>1, <4>2, TrimResultsForgets
      <4>4. CASE r \in TrimResults(left)
        BY <1>8, <3>1, <3>3, <4>4 DEF Reported
      <4>5. CASE Forgotten(n, r.pid)
        BY <1>1, <3>1, <3>3, <4>5, ForgottenStays
      <4>6. QED BY <4>3, <4>4, <4>5
    <3>4. QED BY <3>1, <3>2, <3>3
  <2>3. Pended(m, pid) => Pended(m, pid)'
    BY <1>6 DEF Pended
  <2>4. Queued(Held(m), pid) => Queued(Held(m)', pid)
    BY <1>6, QueuedSame
  <2>5. Kept(m, pid)'
    BY <1>1, <1>11, <2>2, <2>3, <2>4, KeptStays
  <2>6. QED BY <2>1, <2>5
<1>12. TakesOwn(c)
  BY <1>2, <1>3, <1>6, <1>10, <1>11 DEF TakesOwn
<1>13. QED BY <1>1, <1>9, <1>10, <1>12, LedgerKeeps, CallersTake

LEMMA Collects ==
  ASSUME Base, LedgerFits, CallersFit, NEW c \in Caller, Collect(c)
  PROVE  LedgerFits' /\ CallersFit'
<1>1. Base' /\ Carries
  BY BaseStays DEF Collect, raftVars, counters
<1>2. PICK p : /\ p = caller[c].proposal /\ WaitFits(c)
               /\ p.node \in Node /\ IsProposal(p, p.node, nextProposal[p.node])
               /\ p.pid \in 1 .. nextProposal[p.node] - 1
               /\ p.pid \notin abandoned[p.node] /\ Kept(p.node, p.pid)
  BY WaitingFits DEF Collect
<1>3. PICK n \in Node : n = NodeOf(c) /\ n = p.node
  BY <1>2 DEF NodeOf
<1>4. PICK own : own = {r \in results[n] : Mine(c, r)}
  OBVIOUS
<1>5. PICK all : all = cached[n] \cup Keep(c, results[n])
  OBVIOUS
<1>6. /\ Waits(c)
      /\ results' = [results EXCEPT ![n] = {}]
      /\ cached' = [cached EXCEPT ![n] = TrimResults(all)]
      /\ abandoned' = [abandoned EXCEPT ![n] =
                          TrimIds(abandoned[n] \ {r.pid : r \in results[n] \ own})]
      /\ IF own = {} THEN UNCHANGED caller ELSE \E r \in own : Receive(c, r)
      /\ UNCHANGED <<events, pending>>
  BY <1>3, <1>4, <1>5 DEF Collect, raftVars
<1>7. /\ DOMAIN cached = Node /\ DOMAIN abandoned = Node /\ DOMAIN results = Node
      /\ DOMAIN caller = Caller
  BY DEF LedgerFits, CallersFit
<1>8. /\ all \subseteq results[n] \cup cached[n]
      /\ \A r \in results[n] : /\ r.pid # p.pid /\ r.pid \notin abandoned[n] => r \in all
                               /\ r.pid = p.pid => r \in own
      /\ \A r \in own : r \in results[n] /\ Mine(c, r)
  BY <1>2, <1>3, <1>4, <1>5 DEF Keep, Mine
<1>9. /\ \A m \in Node \ {n} : /\ cached'[m] = cached[m] /\ abandoned'[m] = abandoned[m]
                               /\ results'[m] = results[m]
      /\ results'[n] = {} /\ cached'[n] = TrimResults(all)
      /\ cached'[n] \subseteq results[n] \cup cached[n]
      /\ abandoned'[n] \subseteq abandoned[n]
      /\ DOMAIN cached' = Node /\ DOMAIN abandoned' = Node /\ DOMAIN results' = Node
  <2>1. TrimResults(all) \subseteq all
    BY TrimKeepsWithin
  <2>2. PICK S : S = abandoned[n] \ {r.pid : r \in results[n] \ own}
    OBVIOUS
  <2>3. TrimIds(S) \subseteq S /\ S \subseteq abandoned[n]
    BY <2>2, TrimKeepsWithin
  <2>4. abandoned' = [abandoned EXCEPT ![n] = TrimIds(S)]
    BY <1>6, <2>2
  <2>5. QED BY <1>6, <1>7, <1>8, <2>1, <2>3, <2>4
<1>10. LedgerAdds
  <2>1. \A m \in Node : \A q \in results'[m] \cup cached'[m] :
            q \in results[m] \cup cached[m]
    BY <1>9
  <2>2. \A m \in Node : \A pid \in abandoned'[m] : pid \in abandoned[m]
    BY <1>9
  <2>3. QED BY <1>6, <1>9, <2>1, <2>2 DEF LedgerFits, LedgerAdds, NewPending, NewResult
<1>11. ASSUME NEW m \in Node, NEW pid \in 1 .. nextProposal[m] - 1, Kept(m, pid),
              pid \notin abandoned[m], ~(m = n /\ pid = p.pid /\ own # {})
       PROVE  pid \notin abandoned'[m] /\ Kept(m, pid)'
  <2>1. pid \notin abandoned'[m]
    BY <1>9, <1>11
  <2>2. ASSUME Reported(m, pid) PROVE Reported(m, pid)' \/ Forgotten(m, pid)'
    <3>1. PICK r \in results[m] \cup cached[m] : r.pid = pid
      BY <2>2 DEF Reported
    <3>2. CASE m # n
      BY <1>9, <3>1, <3>2 DEF Reported
    <3>3. CASE m = n
      <4>1. r \in all
        <5>1. CASE r \in cached[n]
          BY <1>5, <5>1
        <5>2. CASE r \in results[n]
          <6>1. r.pid # p.pid
            BY <1>8, <1>11, <3>1, <3>3, <5>2
          <6>2. QED BY <1>8, <1>11, <3>1, <3>3, <5>2, <6>1
        <5>3. QED BY <3>1, <3>3, <5>1, <5>2
      <4>2. \A q \in all : q.pid \in 1 .. nextProposal[n] - 1
        BY <1>8 DEF LedgerFits, ResultFits
      <4>3. r \in TrimResults(all) \/ Forgotten(n, r.pid)
        BY <4>1, <4>2, TrimResultsForgets
      <4>4. CASE r \in TrimResults(all)
        BY <1>9, <3>1, <3>3, <4>4 DEF Reported
      <4>5. CASE Forgotten(n, r.pid)
        BY <1>1, <3>1, <3>3, <4>5, ForgottenStays
      <4>6. QED BY <4>3, <4>4, <4>5
    <3>4. QED BY <3>2, <3>3
  <2>3. Pended(m, pid) => Pended(m, pid)'
    BY <1>6 DEF Pended
  <2>4. Queued(Held(m), pid) => Queued(Held(m)', pid)
    BY <1>6, QueuedSame
  <2>5. Kept(m, pid)'
    BY <1>1, <1>11, <2>2, <2>3, <2>4, KeptStays
  <2>6. QED BY <2>1, <2>5
<1>12. /\ NowTold(c) \/ CallerSame(c)
       /\ DOMAIN caller' = Caller /\ \A d \in Caller \ {c} : caller'[d] = caller[d]
  <2>1. CASE own = {}
    <3>1. p.pid \notin abandoned'[p.node] /\ Kept(p.node, p.pid)'
      BY <1>2, <1>11, <2>1
    <3>2. caller' = caller
      BY <1>6, <2>1
    <3>3. CallerSame(c)
      BY <1>2, <3>1, <3>2 DEF CallerSame
    <3>4. QED BY <1>7, <3>2, <3>3
  <2>2. CASE own # {}
    <3>1. PICK r \in own : Receive(c, r)
      BY <1>6, <2>2
    <3>2. r \in results[NodeOf(c)] \cup cached[NodeOf(c)] /\ Mine(c, r)
      BY <1>3, <1>8, <3>1
    <3>3. QED BY <1>1, <1>6, <3>1, <3>2, Received
  <2>3. QED BY <2>1, <2>2
<1>13. TakesOwn(c)
  BY <1>2, <1>3, <1>6, <1>11, <1>12 DEF TakesOwn
<1>14. QED BY <1>1, <1>10, <1>12, <1>13, LedgerKeeps, CallersTake

\* What the record of a target holds is what an applied command of that target has
\* left there, and none before index i if the command there is one of it.
LEMMA RecordAnswers ==
  ASSUME Base, NEW n \in Node, NEW x \in DOMAIN sm[n].records,
         NEW i \in 1 .. tried[n], outcome[i].ok
  PROVE  \E k \in 1 .. sm[n].last :
            /\ log[k].cmd.target = x /\ Derived(log[k])
            /\ log[i].cmd.target = x => k >= i
            /\ sm[n].records[x].payload.tasks = Left(k).tasks
            /\ sm[n].records[x].payload.duplicate = Left(k).duplicate
<1>1. PICK m : Same(sm[n], m) /\ Upto(m, tried[n], log, outcome)
  BY ReplicaFacts DEF Base
<1>2. /\ m.last = sm[n].last /\ x \in DOMAIN m.records
      /\ SamePayload(sm[n].records[x].payload, m.records[x].payload)
  BY <1>1 DEF Same, SameRecord
<1>3. PICK k : k = m.records[x].index
  OBVIOUS
<1>4. /\ k \in 1 .. m.last /\ log[k].cmd.target = x
      /\ \A j \in 1 .. m.last : log[j].cmd.target = x => j <= k
      /\ m.records[x].payload.tasks = Left(k).tasks
      /\ m.records[x].payload.duplicate = Left(k).duplicate
  <2>1. RecordsTrue(m, log, outcome)
    BY <1>1 DEF Upto
  <2>2. RecordTrue(m, x, log, outcome) /\ Said(log, outcome, k) = Left(k)
    BY <1>2, <2>1 DEF RecordsTrue, Said, Left
  <2>3. QED BY <1>3, <2>2 DEF RecordTrue
<1>5. m.last \in 0 .. tried[n] /\ i \in 1 .. m.last
  <2>1. tried[n] \in Nat /\ m.last \in 0 .. tried[n] /\ i <= m.last
    BY <1>1, BaseFacts DEF Upto, Refusals
  <2>2. QED BY <2>1
<1>6. Derived(log[k])
  <2>1. /\ tried[n] \in 0 .. Len(outcome) /\ Len(outcome) \in Nat
        /\ Len(outcome) <= Len(log) /\ Len(log) \in Nat /\ DOMAIN log = 1 .. Len(log)
    BY BaseFacts
  <2>2. k \in DOMAIN log
    BY <1>4, <1>5, <2>1
  <2>3. QED BY <2>2 DEF Base
<1>7. /\ sm[n].records[x].payload.tasks = m.records[x].payload.tasks
      /\ sm[n].records[x].payload.duplicate = m.records[x].payload.duplicate
  <2>1. PICK a, b : a = sm[n].records[x].payload /\ b = m.records[x].payload
    OBVIOUS
  <2>2. SamePayload(a, b)
    BY <1>2, <2>1
  <2>3. ASSUME NEW u, NEW v, NEW tasks, NEW duplicate,
               a = Answer(u, tasks, duplicate), b = Answer(v, tasks, duplicate)
        PROVE  a.tasks = b.tasks /\ a.duplicate = b.duplicate
    BY <2>3 DEF Answer
  <2>4. a.tasks = b.tasks /\ a.duplicate = b.duplicate
    BY <2>2, <2>3 DEF SamePayload
  <2>5. QED BY <2>1, <2>4
<1>8. log[i].cmd.target = x => k >= i
  <2>1. k \in Nat /\ i \in Nat
    BY <1>4, <1>5
  <2>2. log[i].cmd.target = x => i <= k
    BY <1>4, <1>5
  <2>3. QED BY <2>1, <2>2
<1>9. QED BY <1>2, <1>4, <1>6, <1>7, <1>8

IsTold(told) ==
    told = [phase |-> told.phase, proposal |-> told.proposal, status |-> told.status,
            index |-> told.index, answer |-> told.answer]

LEMMA ToldChanges ==
  ASSUME NEW told, IsTold(told), NEW a, NEW s
  PROVE  /\ [told EXCEPT !.phase = "answered", !.answer = a]
               = [phase |-> "answered", proposal |-> told.proposal,
                  status |-> told.status, index |-> told.index, answer |-> a]
         /\ [told EXCEPT !.phase = "answered", !.status = s]
               = [phase |-> "answered", proposal |-> told.proposal, status |-> s,
                  index |-> told.index, answer |-> told.answer]
<1>1. ASSUME NEW k, k = [told EXCEPT !.phase = "answered", !.answer = a]
      PROVE  k = [phase |-> "answered", proposal |-> told.proposal,
                  status |-> told.status, index |-> told.index, answer |-> a]
  BY <1>1 DEF IsTold
<1>2. ASSUME NEW k, k = [told EXCEPT !.phase = "answered", !.status = s]
      PROVE  k = [phase |-> "answered", proposal |-> told.proposal, status |-> s,
                  index |-> told.index, answer |-> told.answer]
  BY <1>2 DEF IsTold
<1>3. QED BY <1>1, <1>2

LEMMA ReadsOutcome ==
  ASSUME Base, LedgerFits, CallersFit, NEW c \in Caller, ReadOutcome(c)
  PROVE  LedgerFits' /\ CallersFit'
<1>1. Base' /\ Carries
  BY BaseStays DEF ReadOutcome, raftVars, counters
<1>2. UNCHANGED <<events, pending, results, cached, abandoned>>
  BY DEF ReadOutcome, raftVars, cacheVars
<1>3. LedgerFits'
  BY <1>1, <1>2, LedgerStays
<1>4. PICK old : old = caller[c]
  OBVIOUS
<1>5. PICK p : p = old.proposal
  OBVIOUS
<1>6. old.phase = "querying" /\ ToldFits(old)
  <2>1. CallerFits(c) /\ caller[c].phase = "querying"
    BY DEF CallersFit, ReadOutcome
  <2>2. ~WaitFits(c)
    BY <2>1 DEF WaitFits
  <2>3. QED BY <1>4, <2>1, <2>2 DEF CallerFits
<1>7. /\ old = [phase |-> old.phase, proposal |-> p, status |-> old.status,
                index |-> old.index, answer |-> old.answer]
      /\ p.node \in Node /\ Derived(p) /\ p.reads
      /\ ResultFits(p.node, p.pid, old.index, TRUE)
  <2>1. old.status = "OK" /\ ResultFits(p.node, p.pid, old.index, old.status # "REFUSED")
    BY <1>5, <1>6 DEF ToldFits
  <2>2. ResultFits(p.node, p.pid, old.index, TRUE)
    BY <2>1 DEF ResultFits
  <2>3. QED BY <1>5, <1>6, <2>2 DEF ToldFits
<1>8. PICK target : target = p.cmd.target
  OBVIOUS
<1> DEFINE found == /\ target \in DOMAIN sm[p.node].records
                    /\ Decodes(sm[p.node].records[target].payload)
<1>9. PICK told :
         told = IF found
                THEN [phase |-> "answered", proposal |-> p, status |-> old.status,
                      index |-> old.index,
                      answer |-> sm[p.node].records[target].payload]
                ELSE [phase |-> "answered", proposal |-> p, status |-> "UNREAD",
                      index |-> old.index, answer |-> old.answer]
  OBVIOUS
<1>10. DOMAIN caller = Caller
  BY DEF CallersFit
<1>11. /\ caller'[c] = told /\ DOMAIN caller' = Caller
       /\ \A d \in Caller \ {c} : caller'[d] = caller[d]
  <2>1. CASE found
    <3>1. caller' = [caller EXCEPT ![c].phase = "answered",
                                   ![c].answer = sm[p.node].records[target].payload]
      BY <1>4, <1>5, <1>8, <2>1 DEF ReadOutcome, NodeOf
    <3>2. caller'[c] = [old EXCEPT !.phase = "answered",
                                   !.answer = sm[p.node].records[target].payload]
      BY <1>4, <1>10, <3>1
    <3>3. [old EXCEPT !.phase = "answered",
                      !.answer = sm[p.node].records[target].payload] = told
      <4>1. PICK a : a = sm[p.node].records[target].payload
        OBVIOUS
      <4>2. [old EXCEPT !.phase = "answered", !.answer = a]
              = [phase |-> "answered", proposal |-> p, status |-> old.status,
                 index |-> old.index, answer |-> a]
        <5>1. IsTold(old)
          BY <1>5, <1>7 DEF IsTold
        <5>2. QED BY <1>5, <5>1, ToldChanges
      <4>3. QED BY <1>9, <2>1, <4>1, <4>2
    <3>4. QED BY <1>10, <3>1, <3>2, <3>3
  <2>2. CASE ~found
    <3>1. caller' = [caller EXCEPT ![c].phase = "answered", ![c].status = "UNREAD"]
      BY <1>4, <1>5, <1>8, <2>2 DEF ReadOutcome, NodeOf
    <3>2. caller'[c] = [old EXCEPT !.phase = "answered", !.status = "UNREAD"]
      BY <1>4, <1>10, <3>1
    <3>3. [old EXCEPT !.phase = "answered", !.status = "UNREAD"] = told
      <4>1. IsTold(old)
        BY <1>5, <1>7 DEF IsTold
      <4>2. [old EXCEPT !.phase = "answered", !.status = "UNREAD"]
              = [phase |-> "answered", proposal |-> p, status |-> "UNREAD",
                 index |-> old.index, answer |-> old.answer]
        BY <1>5, <4>1, ToldChanges
      <4>3. QED BY <1>9, <2>2, <4>2
    <3>4. QED BY <1>10, <3>1, <3>2, <3>3
  <2>3. QED BY <2>1, <2>2
<1>12. /\ told = [phase |-> told.phase, proposal |-> p, status |-> told.status,
                  index |-> old.index, answer |-> told.answer]
       /\ told.phase = "answered" /\ told.proposal = p /\ told.index = old.index
       /\ \/ told.status = "UNREAD"
          \/ /\ target \in DOMAIN sm[p.node].records
             /\ told.answer = sm[p.node].records[target].payload
  BY <1>9
<1>13. told.status # "REFUSED"
  BY <1>6, <1>9 DEF ToldFits
<1>14. ResultFits(p.node, p.pid, told.index, told.status # "REFUSED")
  BY <1>7, <1>12, <1>13 DEF ResultFits
<1>15. told.status = "OK" => AnswerFits(told)
  <2> SUFFICES ASSUME told.status = "OK" PROVE AnswerFits(told)
    OBVIOUS
  <2>1. /\ target \in DOMAIN sm[p.node].records
        /\ told.answer = sm[p.node].records[target].payload
    BY <1>12
  <2>2. old.index \in 1 .. tried[p.node] /\ outcome[old.index].ok
    BY <1>7 DEF ResultFits
  <2>3. \E k \in 1 .. sm[p.node].last :
            /\ log[k].cmd.target = target /\ Derived(log[k])
            /\ log[old.index].cmd.target = target => k >= old.index
            /\ sm[p.node].records[target].payload.tasks = Left(k).tasks
            /\ sm[p.node].records[target].payload.duplicate = Left(k).duplicate
    BY <1>7, <2>1, <2>2, RecordAnswers
  <2>4. log[old.index] = p => log[old.index].cmd.target = target
    BY <1>8
  <2>5. ASSUME NEW k, log[k].cmd.target = target, Derived(log[k]), log[k].reads
        PROVE  log[k].cmd.kind = p.cmd.kind
    BY <1>7, <1>8, <2>5 DEF Derived
  <2>6. QED BY <1>8, <1>12, <2>1, <2>3, <2>4, <2>5 DEF AnswerFits
<1>16. ToldFits(told)
  BY <1>7, <1>12, <1>14, <1>15 DEF ToldFits
<1>17. NowTold(c)
  BY <1>1, <1>11, <1>16, ToldStays DEF NowTold
<1>18. TakesOwn(c)
  <2>1. ASSUME NEW m \in Node, NEW pid \in 1 .. nextProposal[m] - 1, Kept(m, pid)
        PROVE  Kept(m, pid)'
    <3>1. Queued(Held(m), pid) => Queued(Held(m)', pid)
      BY <1>2, QueuedSame
    <3>2. Pended(m, pid) => Pended(m, pid)'
      BY <1>2 DEF Pended
    <3>3. Reported(m, pid) => Reported(m, pid)'
      BY <1>2 DEF Reported
    <3>4. QED BY <1>1, <2>1, <3>1, <3>2, <3>3, KeptStays
  <2>2. QED BY <1>2, <1>11, <2>1 DEF TakesOwn
<1>19. QED BY <1>1, <1>3, <1>17, <1>18, CallersTake

----------------------------------------------------------------------------
\* The services: every step keeps the invariant.

ServiceFits == Base /\ LedgerFits /\ CallersFit

LEMMA ServiceStarts == Init => ServiceFits
<1> SUFFICES ASSUME Init PROVE ServiceFits
  OBVIOUS
<1>1. /\ ReplicaInit
      /\ events = [n \in Node |-> <<>>] /\ tail = [n \in Node |-> <<>>]
      /\ known = [n \in Node |-> 0] /\ pending = [n \in Node |-> {}]
      /\ results = [n \in Node |-> {}] /\ cached = [n \in Node |-> {}]
      /\ abandoned = [n \in Node |-> {}] /\ nextProposal = [n \in Node |-> 1]
      /\ caller = [c \in Caller |-> [phase |-> "idle"]]
  BY DEF Init
<1>2. ReplicasFit /\ log = <<>> /\ \A n \in Node : tried[n] = 0
  BY <1>1, ReplicasStart DEF ReplicaInit
<1>3. ASSUME NEW n \in Node
      PROVE  HeldFits(Held(n), n, nextProposal[n]) /\ tried[n] <= known[n]
  <2>1. Held(n) = [log |-> <<>>, events |-> <<>>, tail |-> <<>>, known |-> 0]
    BY <1>1, <1>2 DEF Held
  <2>2. HeldFits(Held(n), n, 1)
    BY <2>1, NoneHeld
  <2>3. QED BY <1>1, <1>2, <2>2
<1>4. \A i \in DOMAIN log : Derived(log[i])
  BY <1>2
<1>5. Base
  BY <1>1, <1>2, <1>3, <1>4 DEF Base
<1>6. LedgerFits
  BY <1>1 DEF LedgerFits
<1>7. CallersFit
  BY <1>1 DEF CallersFit, CallerFits, Apart, Waits
<1>8. QED BY <1>5, <1>6, <1>7 DEF ServiceFits

LEMMA ServiceStep ==
  ASSUME ServiceFits, [Next]_vars
  PROVE  ServiceFits'
<1>1. Base /\ LedgerFits /\ CallersFit
  BY DEF ServiceFits
<1>2. Base' /\ Carries
  BY <1>1, BaseStep
<1>3. ASSUME NEW n \in Node, Accept(n) PROVE LedgerFits' /\ CallersFit'
  BY <1>1, <1>3, LedgerAccepts, CallersAccept
<1>4. ASSUME NEW n \in Node, Refuse(n) PROVE LedgerFits' /\ CallersFit'
  BY <1>1, <1>4, LedgerRefuses, CallersRefuse
<1>5. ASSUME UNCHANGED <<events, pending, results, cached, abandoned, caller>>
      PROVE  LedgerFits' /\ CallersFit'
  BY <1>1, <1>2, <1>5, LedgerStays, CallersIdle
<1>6. ASSUME NEW n \in Node, Commit(n) \/ Learn(n) PROVE LedgerFits' /\ CallersFit'
  BY <1>5, <1>6 DEF Commit, Learn, cacheVars
<1>7. ASSUME NEW n \in Node, WriteFails(n) PROVE LedgerFits' /\ CallersFit'
  <2>1. PICK A : FailsAt(n, A)
    BY <1>7, FailsForm
  <2>2. QED BY <1>1, <2>1, LedgerFails, CallersFails
<1>8. ASSUME NEW n \in Node, ApplyNext(n) PROVE LedgerFits' /\ CallersFit'
  <2>1. PICK i, ok, A : AnswersAt(n, i, ok, A)
    BY <1>1, <1>8, ApplyAnswers
  <2>2. QED BY <1>1, <2>1, LedgerApplies, CallersApplies
<1>9. ASSUME NEW c \in Caller, NEW n \in Node, NEW request \in Request,
             StartCall(c, n, request)
      PROVE  LedgerFits' /\ CallersFit'
  BY <1>1, <1>9, LedgerCalls, CallersCalls
<1>10. ASSUME NEW c \in Caller, TakeCached(c) \/ Collect(c) \/ Timeout(c) \/ ReadOutcome(c)
       PROVE  LedgerFits' /\ CallersFit'
  BY <1>1, <1>10, TakesCached, Collects, TimesOut, ReadsOutcome
<1>11. ASSUME UNCHANGED vars PROVE LedgerFits' /\ CallersFit'
  BY <1>5, <1>11 DEF vars, raftVars, cacheVars
<1>12. LedgerFits' /\ CallersFit'
  BY <1>3, <1>4, <1>6, <1>7, <1>8, <1>9, <1>10, <1>11 DEF Next
<1>13. QED BY <1>2, <1>12 DEF ServiceFits

\* Whatever leaders, callers and timeouts do, a proposal is in one place and its result
\* carries its index: what the theorems below rest on.
THEOREM ServiceKeeps == Spec => []ServiceFits
<1>1. ServiceFits /\ [Next]_vars => ServiceFits'
  BY ServiceStep
<1>2. QED BY <1>1, ServiceStarts, PTL DEF Spec

----------------------------------------------------------------------------
\* The services: what callers are told.

\* A committed proposal is where its index says.
LEMMA CommittedPlaced ==
  ASSUME NEW p, NEW i \in DOMAIN log, log[i] = p
  PROVE  Placed(Held(p.node), p.node, p.pid, i)
BY DEF Placed, Held

LEMMA ResolvedFits ==
  ASSUME ServiceFits, NEW c \in Caller, Resolved(c)
  PROVE  ToldFits(caller[c])
<1>1. CallerFits(c) /\ caller[c].phase \in {"querying", "answered"}
  BY DEF ServiceFits, CallersFit, Resolved
<1>2. ~WaitFits(c)
  BY <1>1 DEF WaitFits
<1>3. QED BY <1>1, <1>2 DEF CallerFits

LEMMA ToldOwn ==
  ASSUME NEW told, ToldFits(told), told.status # "RETRY_LATER", told.index > 0,
         NEW i \in DOMAIN log, log[i] = told.proposal
  PROVE  i = told.index
<1>1. PICK p : p = told.proposal
  OBVIOUS
<1>2. ResultFits(p.node, p.pid, told.index, told.status # "REFUSED")
  BY <1>1 DEF ToldFits
<1>3. PairFits(Held(p.node), p.node, nextProposal[p.node], p.pid, told.index)
  BY <1>2 DEF ResultFits
<1>4. Placed(Held(p.node), p.node, p.pid, i)
  BY <1>1, CommittedPlaced
<1>5. QED BY <1>3, <1>4 DEF PairFits

LEMMA OwnFollows == ServiceFits => OwnResultUnlessCut
<1> SUFFICES ASSUME ServiceFits, NEW c \in Caller, Resolved(c), caller[c].index > 0
             PROVE  LET i == caller[c].index
                    IN  /\ Committed(caller[c].proposal) =>
                              i \in DOMAIN log /\ log[i] = caller[c].proposal
                        /\ caller[c].status # "REFUSED" =>
                              i <= tried[NodeOf(c)] /\ outcome[i].ok
  BY DEF OwnResultUnlessCut
<1>1. PICK told : told = caller[c]
  OBVIOUS
<1>2. ToldFits(told) /\ told.status # "RETRY_LATER" /\ told.index > 0
  BY <1>1, ResolvedFits DEF Resolved
<1>3. ASSUME NEW i \in DOMAIN log, log[i] = told.proposal PROVE i = told.index
  BY <1>2, <1>3, ToldOwn
<1>4. PICK p : p = told.proposal
  OBVIOUS
<1>5. /\ p.node \in Node
      /\ ResultFits(p.node, p.pid, told.index, told.status # "REFUSED")
  BY <1>2, <1>4 DEF ToldFits
<1>6. told.status # "REFUSED" => told.index <= tried[p.node] /\ outcome[told.index].ok
  <2>1. tried[p.node] \in Nat
    BY <1>5, BaseFacts DEF ServiceFits
  <2>2. QED BY <1>5, <2>1 DEF ResultFits
<1>7. QED BY <1>1, <1>3, <1>4, <1>6 DEF Committed, NodeOf

LEMMA KeptFollows == ServiceFits => ResultKept
<1> SUFFICES ASSUME ServiceFits, NEW c \in Caller, Waits(c),
                    NEW i \in 1 .. tried[NodeOf(c)], log[i] = caller[c].proposal
             PROVE  LET n == NodeOf(c)
                        p == caller[c].proposal
                    IN  \/ \E r \in results[n] \cup cached[n] : r.pid = p.pid
                        \/ [pid |-> p.pid, index |-> i] \in pending[n]
                        \/ Forgotten(n, p.pid)
  BY DEF ResultKept
<1>1. PICK p : p = caller[c].proposal /\ p.node \in Node /\ Kept(p.node, p.pid)
  BY WaitingFits DEF ServiceFits
<1>2. PICK n \in Node : n = p.node /\ n = NodeOf(c)
  BY <1>1 DEF NodeOf
<1>3. i \in DOMAIN log
  <2>1. /\ tried[n] \in 0 .. Len(outcome) /\ Len(outcome) \in Nat
        /\ Len(outcome) <= Len(log) /\ Len(log) \in Nat /\ DOMAIN log = 1 .. Len(log)
    BY BaseFacts DEF ServiceFits
  <2>2. QED BY <1>2, <2>1
<1>4. Placed(Held(n), n, p.pid, i)
  BY <1>1, <1>2, <1>3, CommittedPlaced
<1>5. ~Queued(Held(n), p.pid)
  BY <1>4 DEF ServiceFits, Base, HeldFits
<1>6. ASSUME Pended(n, p.pid) PROVE [pid |-> p.pid, index |-> i] \in pending[n]
  <2>1. PICK q \in pending[n] : q.pid = p.pid
    BY <1>6 DEF Pended
  <2>2. /\ q = [pid |-> q.pid, index |-> q.index]
        /\ PairFits(Held(n), n, nextProposal[n], q.pid, q.index)
    BY DEF ServiceFits, LedgerFits, PendingFits
  <2>3. q.index = i
    BY <1>4, <2>1, <2>2 DEF PairFits
  <2>4. QED BY <2>1, <2>2, <2>3
<1>7. Reported(n, p.pid) \/ [pid |-> p.pid, index |-> i] \in pending[n] \/ Forgotten(n, p.pid)
  BY <1>1, <1>2, <1>5, <1>6 DEF Kept
<1>8. QED BY <1>1, <1>2, <1>7 DEF Reported

LEMMA AnswerFollows == ServiceFits => AnswerFromTarget
<1> SUFFICES ASSUME ServiceFits, NEW c \in Caller, caller[c].phase = "answered",
                    caller[c].status = "OK", caller[c].proposal.reads
             PROVE  \E i \in 1 .. sm[NodeOf(c)].last :
                       /\ log[i].cmd.target = caller[c].proposal.cmd.target
                       /\ log[i].reads => log[i].cmd.kind = caller[c].proposal.cmd.kind
                       /\ Committed(caller[c].proposal) => i >= caller[c].index
                       /\ caller[c].answer.tasks = Left(i).tasks
                       /\ caller[c].answer.duplicate = Left(i).duplicate
  BY DEF AnswerFromTarget
<1>1. PICK told : told = caller[c]
  OBVIOUS
<1>2. ToldFits(told)
  BY <1>1, ResolvedFits DEF Resolved
<1>3. PICK p : p = told.proposal
  OBVIOUS
<1>4. /\ p.node \in Node /\ AnswerFits(told)
      /\ ResultFits(p.node, p.pid, told.index, told.status # "REFUSED")
  BY <1>1, <1>2, <1>3 DEF ToldFits
<1>5. PICK i \in 1 .. sm[p.node].last :
           /\ log[i].cmd.target = p.cmd.target
           /\ log[i].reads => log[i].cmd.kind = p.cmd.kind
           /\ log[told.index] = p => i >= told.index
           /\ told.answer.tasks = Left(i).tasks
           /\ told.answer.duplicate = Left(i).duplicate
  BY <1>3, <1>4 DEF AnswerFits
<1>6. told.index > 0
  <2>1. told.index \in 1 .. tried[p.node]
    BY <1>1, <1>4 DEF ResultFits
  <2>2. QED BY <2>1
<1>7. Committed(p) => log[told.index] = p
  <2>1. ASSUME NEW j \in DOMAIN log, log[j] = p PROVE log[told.index] = p
    <3>1. j = told.index
      BY <1>1, <1>2, <1>3, <1>6, <2>1, ToldOwn
    <3>2. QED BY <2>1, <3>1
  <2>2. QED BY <2>1 DEF Committed
<1>8. QED BY <1>1, <1>3, <1>5, <1>7 DEF NodeOf

\* Every caller gets its own result: the index it is told is its proposal's, if that
\* was committed, and success means that the entry there was applied.
THEOREM ResultsReachTheirCaller == Spec => []OwnResultUnlessCut
<1>1. QED BY ServiceKeeps, OwnFollows, PTL

\* The result of an applied proposal waits for its caller.
THEOREM ResultsWait == Spec => []ResultKept
<1>1. QED BY ServiceKeeps, KeptFollows, PTL

\* What is read as the outcome of a store command is what an applied command has left in
\* its target: a store command of its kind and id, or one of a client of the Metadata RPC.
THEOREM AnswersFromTarget == Spec => []AnswerFromTarget
<1>1. QED BY ServiceKeeps, AnswerFollows, PTL

\* What the replicas keep, they keep when services propose to them.
THEOREM ServedReplicasAgree ==
    Spec => [](ReplicasAgree /\ SnapshotFaithful /\ StopsAtFirstRefusal /\ HandedOutOnce)
<1>1. ServiceFits
        => ReplicasAgree /\ SnapshotFaithful /\ StopsAtFirstRefusal /\ HandedOutOnce
  BY AgreeFollows, SnapshotFollows, StopsFollows, HandedOutFollows DEF ServiceFits, Base
<1>2. QED BY <1>1, ServiceKeeps, PTL

----------------------------------------------------------------------------
\* The services: the limits of the caches, and the types.

LEMMA LeastExists ==
  ASSUME NEW T, T \subseteq Nat, T # {}
  PROVE  \E n \in T : \A k \in T : n <= k
<1>1. PICK n \in T : \A k \in T : ~(<<k, n>> \in OpToRel(<, Nat))
  BY WFMin, NatLessThanWellFounded, Zenon
<1>2. ASSUME NEW k \in T
      PROVE  n <= k
  <2>1. ~(k < n)
    BY <1>1 DEF OpToRel
  <2>2. QED BY <2>1
<1>3. QED BY <1>2

\* No more ids than the limit are left.
LEMMA TrimLimit ==
  ASSUME NEW pids, pids \subseteq Nat, IsFiniteSet(pids)
  PROVE  /\ IsFiniteSet(TrimIds(pids)) /\ Cardinality(TrimIds(pids)) \in Nat
         /\ Cardinality(TrimIds(pids)) <= ResultCap
<1>1. PICK T : T = TrimIds(pids)
  OBVIOUS
<1>2. T \subseteq pids /\ \A p \in T : Cardinality({q \in pids : q >= p}) <= ResultCap
  BY <1>1 DEF TrimIds
<1>3. IsFiniteSet(T) /\ Cardinality(T) \in Nat /\ ResultCap \in Nat
  BY <1>2, FS_Subset, FS_CardinalityType, ServiceAssumption
<1>4. CASE T = {}
  BY <1>1, <1>3, <1>4, FS_EmptySet
<1>5. CASE T # {}
  <2>1. PICK p \in T : \A q \in T : p <= q
    BY <1>2, <1>5, LeastExists
  <2>2. PICK later : later = {q \in pids : q >= p}
    OBVIOUS
  <2>3. T \subseteq later /\ later \subseteq pids
    BY <1>2, <2>1, <2>2
  <2>4. IsFiniteSet(later) /\ Cardinality(later) \in Nat
    BY <2>3, FS_Subset, FS_CardinalityType
  <2>5. Cardinality(T) <= Cardinality(later)
    BY <2>3, <2>4, FS_Subset
  <2>6. Cardinality(later) <= ResultCap
    BY <1>2, <2>2
  <2>7. QED BY <1>1, <1>3, <2>4, <2>5, <2>6
<1>6. QED BY <1>4, <1>5

\* The records of rs have different ids.
Unlike(rs) == \A r, s \in rs : r.pid = s.pid => r = s

LEMMA UnlikeCount ==
  ASSUME NEW rs, Unlike(rs), NEW T, IsFiniteSet(T), \A r \in rs : r.pid \in T
  PROVE  IsFiniteSet(rs) /\ Cardinality(rs) <= Cardinality(T)
<1>1. PICK f : f = [r \in rs |-> r.pid]
  OBVIOUS
<1>2. f \in Injection(rs, T)
  BY <1>1 DEF Injection, IsInjective, Unlike
<1>3. QED BY <1>2, FS_Injection

LEMMA TrimResultsLimit ==
  ASSUME Base, NEW n \in Node, NEW rs, Unlike(rs),
         \A r \in rs : r.pid \in 1 .. nextProposal[n] - 1
  PROVE  Cardinality(TrimResults(rs)) <= ResultCap
<1>1. PICK pids : pids = {r.pid : r \in rs}
  OBVIOUS
<1>2. PICK next : next = nextProposal[n]
  OBVIOUS
<1>3. next \in Nat \ {0}
  BY <1>2, BaseFacts
<1>4. pids \subseteq 1 .. next - 1
  BY <1>1, <1>2
<1>5. IsFiniteSet(1 .. next - 1)
  BY <1>3, FS_Interval
<1>6. pids \subseteq Nat /\ IsFiniteSet(pids)
  <2>1. \A p \in 1 .. next - 1 : p \in Nat
    BY <1>3
  <2>2. QED BY <1>4, <1>5, <2>1, FS_Subset
<1>7. PICK kept : kept = TrimResults(rs)
  OBVIOUS
<1>8. kept \subseteq rs /\ \A r \in kept : r.pid \in TrimIds(pids)
  BY <1>1, <1>7 DEF TrimResults
<1>9. Unlike(kept)
  BY <1>8 DEF Unlike
<1>10. /\ IsFiniteSet(TrimIds(pids)) /\ Cardinality(TrimIds(pids)) \in Nat
       /\ Cardinality(TrimIds(pids)) <= ResultCap
  BY <1>6, TrimLimit
<1>11. IsFiniteSet(kept) /\ Cardinality(kept) <= Cardinality(TrimIds(pids))
  BY <1>8, <1>9, <1>10, UnlikeCount
<1>12. Cardinality(kept) \in Nat /\ ResultCap \in Nat
  BY <1>11, FS_CardinalityType, ServiceAssumption
<1>13. QED BY <1>7, <1>10, <1>11, <1>12

LEMMA TrimIdsLimit ==
  ASSUME Base, NEW n \in Node, NEW pids, pids \subseteq 1 .. nextProposal[n] - 1
  PROVE  Cardinality(TrimIds(pids)) <= ResultCap
<1>1. PICK next : next = nextProposal[n]
  OBVIOUS
<1>2. next \in Nat \ {0}
  BY <1>1, BaseFacts
<1>3. IsFiniteSet(1 .. next - 1)
  BY <1>2, FS_Interval
<1>4. pids \subseteq Nat /\ IsFiniteSet(pids)
  <2>1. \A p \in 1 .. next - 1 : p \in Nat
    BY <1>2
  <2>2. QED BY <1>1, <1>3, <2>1, FS_Subset
<1>5. QED BY <1>4, TrimLimit

\* A proposal that has left the queue of n is pending or has one result, never both.
OnePlace(n) ==
    /\ Unlike(pending[n]) /\ Unlike(results[n] \cup cached[n])
    /\ \A q \in pending[n], r \in results[n] \cup cached[n] : q.pid # r.pid
    /\ \A r \in results[n] \cup cached[n] : ~Queued(Held(n), r.pid)

\* Of its pending proposals and results a node keeps what it had.
PlaceShrinks(n) ==
    /\ pending'[n] \subseteq pending[n]
    /\ results'[n] \cup cached'[n] \subseteq results[n] \cup cached[n]

LEMMA StaysUnqueued ==
  ASSUME Base, Carries, LedgerFits, NEW n \in Node, OnePlace(n),
         NEW x \in pending[n] \cup results[n] \cup cached[n]
  PROVE  ~Queued(Held(n), x.pid) /\ ~Queued(Held(n)', x.pid)
<1>1. x.pid \in 1 .. nextProposal[n] - 1 /\ ~Queued(Held(n), x.pid)
  <2>1. CASE x \in pending[n]
    BY <2>1 DEF LedgerFits, PendingFits, PairFits
  <2>2. CASE x \in results[n] \cup cached[n]
    BY <2>2 DEF LedgerFits, ResultFits, OnePlace
  <2>3. QED BY <2>1, <2>2
<1>2. Moves(Held(n), Held(n)', n, nextProposal[n])
  BY DEF Carries
<1>3. QED BY <1>1, <1>2 DEF Moves

LEMMA PlaceKeeps ==
  ASSUME Base, Carries, LedgerFits, NEW n \in Node, OnePlace(n), PlaceShrinks(n)
  PROVE  OnePlace(n)'
<1>1. \A r \in results[n] \cup cached[n] : ~Queued(Held(n)', r.pid)
  BY StaysUnqueued
<1>2. QED BY <1>1 DEF OnePlace, PlaceShrinks, Unlike

\* What A waits for is answered by B.
LEMMA PlaceAnswers ==
  ASSUME Base, Carries, LedgerFits, NEW n \in Node, OnePlace(n),
         NEW A, A \subseteq pending[n], NEW B, Unlike(B),
         \A r \in B : \E q \in A : r.pid = q.pid,
         pending'[n] = pending[n] \ A, results'[n] = results[n] \cup B,
         cached'[n] = cached[n]
  PROVE  OnePlace(n)'
<1>1. PICK old : old = results[n] \cup cached[n]
  OBVIOUS
<1>2. results'[n] \cup cached'[n] = old \cup B
  BY <1>1
<1>3. /\ Unlike(pending[n]) /\ Unlike(old)
      /\ \A q \in pending[n], r \in old : q.pid # r.pid
  BY <1>1 DEF OnePlace
<1>4. \A r \in B, s \in old : r.pid # s.pid
  BY <1>3
<1>5. Unlike(old \cup B)
  BY <1>3, <1>4 DEF Unlike
<1>6. Unlike(pending'[n])
  BY <1>3 DEF Unlike
<1>7. \A q \in pending'[n], r \in B : q.pid # r.pid
  BY <1>3 DEF Unlike
<1>8. \A x \in pending[n] \cup old : ~Queued(Held(n)', x.pid)
  BY <1>1, StaysUnqueued
<1>9. \A r \in old \cup B : ~Queued(Held(n)', r.pid)
  BY <1>8
<1>10. \A q \in pending'[n], r \in old \cup B : q.pid # r.pid
  BY <1>3, <1>7
<1>11. QED BY <1>2, <1>5, <1>6, <1>9, <1>10 DEF OnePlace

\* The head of the queue of n leaves it.
LEMMA HeadUnlike ==
  ASSUME Base, Carries, LedgerFits, NEW n \in Node, OnePlace(n),
         events[n] # <<>>, events'[n] = Tail(events[n]),
         NEW p, p = Head(events[n])
  PROVE  /\ ~Queued(Held(n)', p.pid)
         /\ \A x \in pending[n] \cup results[n] \cup cached[n] : x.pid # p.pid
<1>1. HeldFits(Held(n), n, nextProposal[n]) /\ Held(n).events = events[n]
  BY DEF Base, Held
<1>2. Held(n)'.events = Tail(events[n])
  BY DEF Held
<1>3. Unqueued(Held(n), Held(n)', n, nextProposal[n], p)
  BY <1>1, <1>2, QueueShrinks
<1>4. \A x \in pending[n] \cup results[n] \cup cached[n] : ~Queued(Held(n), x.pid)
  BY StaysUnqueued
<1>5. QED BY <1>3, <1>4 DEF Unqueued

LEMMA PlaceAccepts ==
  ASSUME Base, Carries, LedgerFits, NEW n \in Node, OnePlace(n), Accept(n)
  PROVE  OnePlace(n)'
<1>1. PICK q : q = [pid |-> Head(events[n]).pid, index |-> known[n] + Len(tail[n]) + 1]
  OBVIOUS
<1>2. DOMAIN events = Node /\ DOMAIN pending = Node
  BY DEF Base, LedgerFits
<1>3. /\ events[n] # <<>> /\ events'[n] = Tail(events[n])
      /\ pending'[n] = pending[n] \cup {q}
      /\ results' = results /\ cached' = cached
  BY <1>1, <1>2 DEF Accept, cacheVars
<1>4. PICK p : p = Head(events[n])
  OBVIOUS
<1>5. /\ \A x \in pending[n] \cup results[n] \cup cached[n] : x.pid # p.pid
      /\ q.pid = p.pid
  BY <1>1, <1>3, <1>4, HeadUnlike
<1>6. Unlike(pending'[n])
  BY <1>3, <1>5 DEF OnePlace, Unlike
<1>7. \A x \in pending'[n], r \in results[n] \cup cached[n] : x.pid # r.pid
  BY <1>3, <1>5 DEF OnePlace
<1>8. \A r \in results[n] \cup cached[n] : ~Queued(Held(n)', r.pid)
  BY StaysUnqueued
<1>9. QED BY <1>3, <1>6, <1>7, <1>8 DEF OnePlace

LEMMA PlaceRefuses ==
  ASSUME Base, Carries, LedgerFits, NEW n \in Node, OnePlace(n), Refuse(n)
  PROVE  OnePlace(n)'
<1>1. PICK new : new = Result(Head(events[n]).pid, 0, FALSE)
  OBVIOUS
<1>2. DOMAIN events = Node /\ DOMAIN results = Node
  BY DEF Base, LedgerFits
<1>3. /\ events[n] # <<>> /\ events'[n] = Tail(events[n])
      /\ results'[n] = results[n] \cup {new}
      /\ pending' = pending /\ cached' = cached
  BY <1>1, <1>2 DEF Refuse, Emit, cacheVars
<1>4. PICK p : p = Head(events[n])
  OBVIOUS
<1>5. /\ ~Queued(Held(n)', p.pid)
      /\ \A x \in pending[n] \cup results[n] \cup cached[n] : x.pid # p.pid
      /\ new.pid = p.pid
  BY <1>1, <1>3, <1>4, HeadUnlike DEF Result
<1>6. Unlike(results'[n] \cup cached'[n])
  BY <1>3, <1>5 DEF OnePlace, Unlike
<1>7. \A q \in pending'[n], r \in results'[n] \cup cached'[n] : q.pid # r.pid
  BY <1>3, <1>5 DEF OnePlace
<1>8. \A r \in results'[n] \cup cached'[n] : ~Queued(Held(n)', r.pid)
  BY <1>3, <1>5, StaysUnqueued
<1>9. QED BY <1>3, <1>6, <1>7, <1>8 DEF OnePlace

LEMMA PlaceFails ==
  ASSUME Base, Carries, LedgerFits, NEW n \in Node, OnePlace(n), NEW A, FailsAt(n, A)
  PROVE  OnePlace(n)'
<1>1. PICK B : B = {Result(q.pid, q.index, FALSE) : q \in A}
  OBVIOUS
<1>2. DOMAIN pending = Node /\ DOMAIN results = Node
  BY DEF LedgerFits
<1>3. /\ A \subseteq pending[n] /\ pending'[n] = pending[n] \ A
      /\ results'[n] = results[n] \cup B /\ cached' = cached
  BY <1>1, <1>2 DEF FailsAt
<1>4. \A r \in B : \E q \in A : r = Result(q.pid, q.index, FALSE) /\ r.pid = q.pid
  BY <1>1 DEF Result
<1>5. Unlike(B)
  <2> SUFFICES ASSUME NEW r \in B, NEW s \in B, r.pid = s.pid PROVE r = s
    BY DEF Unlike
  <2>1. PICK q \in A : r = Result(q.pid, q.index, FALSE) /\ r.pid = q.pid
    BY <1>4
  <2>2. PICK p \in A : s = Result(p.pid, p.index, FALSE) /\ s.pid = p.pid
    BY <1>4
  <2>3. q = p
    BY <1>3, <2>1, <2>2 DEF OnePlace, Unlike
  <2>4. QED BY <2>1, <2>2, <2>3
<1>6. \A r \in B : \E q \in A : r.pid = q.pid
  BY <1>4
<1>7. A \subseteq pending[n] /\ cached'[n] = cached[n]
  BY <1>3
<1>8. QED BY <1>3, <1>5, <1>6, <1>7, PlaceAnswers

LEMMA PlaceApplies ==
  ASSUME Base, LedgerFits, NEW n \in Node, OnePlace(n),
         NEW i, NEW ok, NEW A, AnswersAt(n, i, ok, A)
  PROVE  OnePlace(n)'
<1>1. PICK B : B = {Result(q.pid, i, ok) : q \in A}
  OBVIOUS
<1>2. DOMAIN pending = Node /\ DOMAIN results = Node
  BY DEF LedgerFits
<1>3. /\ A \subseteq pending[n] /\ pending'[n] = pending[n] \ A
      /\ results'[n] = results[n] \cup B /\ cached' = cached /\ Carries
  BY <1>1, <1>2 DEF AnswersAt
<1>4. \A r \in B : \E q \in A : r = Result(q.pid, i, ok) /\ r.pid = q.pid
  BY <1>1 DEF Result
<1>5. Unlike(B)
  BY <1>3, <1>4 DEF OnePlace, Unlike
<1>6. QED BY <1>3, <1>4, <1>5, PlaceAnswers

LEMMA PlacesKeep ==
  ASSUME Base, Carries, LedgerFits, \A n \in Node : OnePlace(n),
         UNCHANGED <<pending, results, cached>>
  PROVE  \A n \in Node : OnePlace(n)'
BY PlaceKeeps DEF PlaceShrinks

\* Each cache of n keeps to its limit.
CacheFits(n) == Cardinality(cached[n]) <= ResultCap /\ Cardinality(abandoned[n]) <= ResultCap

\* Pending proposals, results and caches keep their form.
PlacesFit == \A n \in Node : OnePlace(n) /\ CacheFits(n)

LEMMA CachedFinite ==
  ASSUME Base, LedgerFits, NEW n \in Node, OnePlace(n)
  PROVE  IsFiniteSet(cached[n])
<1>1. PICK next : next = nextProposal[n]
  OBVIOUS
<1>2. next \in Nat \ {0}
  BY <1>1, BaseFacts
<1>3. IsFiniteSet(1 .. next - 1)
  BY <1>2, FS_Interval
<1>4. Unlike(cached[n]) /\ \A r \in cached[n] : r.pid \in 1 .. next - 1
  BY <1>1 DEF OnePlace, Unlike, LedgerFits, ResultFits
<1>5. QED BY <1>3, <1>4, UnlikeCount

LEMMA PlacesTakeCached ==
  ASSUME Base, Carries, LedgerFits, CallersFit, PlacesFit, NEW c \in Caller, TakeCached(c)
  PROVE  PlacesFit'
<1>1. PICK n \in Node : n = NodeOf(c)
  BY WaitingFits DEF TakeCached, NodeOf
<1>2. PICK r \in cached[n] : cached' = [cached EXCEPT ![n] = cached[n] \ {r}]
  BY <1>1 DEF TakeCached
<1>3. UNCHANGED <<pending, results, abandoned>> /\ DOMAIN cached = Node
  BY DEF TakeCached, raftVars, LedgerFits
<1>4. ASSUME NEW m \in Node PROVE OnePlace(m)' /\ CacheFits(m)'
  <2>1. PICK left : left = cached'[m]
    OBVIOUS
  <2>2. left \subseteq cached[m]
    BY <1>2, <1>3, <2>1
  <2>3. OnePlace(m)'
    BY <1>3, <2>1, <2>2, PlaceKeeps DEF PlacesFit, PlaceShrinks
  <2>4. IsFiniteSet(cached[m])
    BY CachedFinite DEF PlacesFit
  <2>5. /\ Cardinality(left) <= Cardinality(cached[m])
        /\ Cardinality(left) \in Nat /\ Cardinality(cached[m]) \in Nat
    BY <2>2, <2>4, FS_Subset, FS_CardinalityType
  <2>6. Cardinality(left) <= ResultCap
    BY <2>5, ServiceAssumption DEF PlacesFit, CacheFits
  <2>7. CacheFits(m)'
    BY <1>3, <2>1, <2>6 DEF PlacesFit, CacheFits
  <2>8. QED BY <2>3, <2>7
<1>5. QED BY <1>4 DEF PlacesFit

\* Node n drops all but the latest of its results and of the calls given up there.
Trims(n, rs, pids) ==
    /\ rs \subseteq results[n] \cup cached[n]
    /\ pids \subseteq 1 .. nextProposal[n] - 1
    /\ cached' = [cached EXCEPT ![n] = TrimResults(rs)]
    /\ abandoned' = [abandoned EXCEPT ![n] = TrimIds(pids)]
    /\ \A m \in Node : results'[m] \subseteq results[m]
    /\ pending' = pending

LEMMA PlacesTrim ==
  ASSUME Base, Carries, LedgerFits, PlacesFit, NEW n \in Node, NEW rs, NEW pids,
         Trims(n, rs, pids)
  PROVE  PlacesFit'
<1>1. DOMAIN cached = Node /\ DOMAIN abandoned = Node
  BY DEF LedgerFits
<1>2. cached'[n] = TrimResults(rs) /\ abandoned'[n] = TrimIds(pids)
  BY <1>1 DEF Trims
<1>3. \A m \in Node \ {n} : cached'[m] = cached[m] /\ abandoned'[m] = abandoned[m]
  BY <1>1 DEF Trims
<1>4. \A m \in Node : PlaceShrinks(m)
  <2>1. cached'[n] \subseteq results[n] \cup cached[n]
    BY <1>2, TrimKeepsWithin DEF Trims
  <2>2. QED BY <1>3, <2>1 DEF PlaceShrinks, Trims
<1>5. \A m \in Node : OnePlace(m)'
  BY <1>4, PlaceKeeps DEF PlacesFit
<1>6. CacheFits(n)'
  <2>1. Unlike(rs)
    BY DEF PlacesFit, OnePlace, Unlike, Trims
  <2>2. \A r \in rs : r.pid \in 1 .. nextProposal[n] - 1
    BY DEF Trims, LedgerFits, ResultFits
  <2>3. Cardinality(TrimResults(rs)) <= ResultCap
    BY <2>1, <2>2, TrimResultsLimit
  <2>4. Cardinality(TrimIds(pids)) <= ResultCap
    BY TrimIdsLimit DEF Trims
  <2>5. QED BY <1>2, <2>3, <2>4 DEF CacheFits
<1>7. \A m \in Node \ {n} : CacheFits(m)'
  BY <1>3 DEF PlacesFit, CacheFits
<1>8. QED BY <1>5, <1>6, <1>7 DEF PlacesFit

LEMMA PlacesTimeout ==
  ASSUME Base, Carries, LedgerFits, CallersFit, PlacesFit, NEW c \in Caller, Timeout(c)
  PROVE  PlacesFit'
<1>1. PICK p : /\ p = caller[c].proposal /\ p.node \in Node
               /\ p.pid \in 1 .. nextProposal[p.node] - 1
  BY WaitingFits DEF Timeout
<1>2. PICK n \in Node : n = NodeOf(c) /\ n = p.node
  BY <1>1 DEF NodeOf
<1>3. PICK rs : rs = {r \in cached[n] : r.pid # p.pid}
  OBVIOUS
<1>4. PICK pids : pids = abandoned[n] \cup {p.pid}
  OBVIOUS
<1>5. /\ cached' = [cached EXCEPT ![n] = TrimResults(rs)]
      /\ abandoned' = [abandoned EXCEPT ![n] = TrimIds(pids)]
      /\ results' = results /\ pending' = pending
  BY <1>1, <1>2, <1>3, <1>4 DEF Timeout, raftVars
<1>6. rs \subseteq results[n] \cup cached[n] /\ pids \subseteq 1 .. nextProposal[n] - 1
  BY <1>1, <1>2, <1>3, <1>4 DEF LedgerFits
<1>7. Trims(n, rs, pids)
  BY <1>5, <1>6 DEF Trims
<1>8. QED BY <1>7, PlacesTrim

LEMMA PlacesCollect ==
  ASSUME Base, Carries, LedgerFits, CallersFit, PlacesFit, NEW c \in Caller, Collect(c)
  PROVE  PlacesFit'
<1>1. PICK n \in Node : n = NodeOf(c)
  BY WaitingFits DEF Collect, NodeOf
<1>2. PICK own : own = {r \in results[n] : Mine(c, r)}
  OBVIOUS
<1>3. PICK rs : rs = cached[n] \cup Keep(c, results[n])
  OBVIOUS
<1>4. PICK pids : pids = abandoned[n] \ {r.pid : r \in results[n] \ own}
  OBVIOUS
<1>5. /\ cached' = [cached EXCEPT ![n] = TrimResults(rs)]
      /\ abandoned' = [abandoned EXCEPT ![n] = TrimIds(pids)]
      /\ results' = [results EXCEPT ![n] = {}] /\ pending' = pending
  BY <1>1, <1>2, <1>3, <1>4 DEF Collect, raftVars
<1>6. rs \subseteq results[n] \cup cached[n] /\ pids \subseteq 1 .. nextProposal[n] - 1
  BY <1>3, <1>4 DEF LedgerFits, Keep
<1>7. \A m \in Node : results'[m] \subseteq results[m]
  BY <1>5 DEF LedgerFits
<1>8. Trims(n, rs, pids)
  BY <1>5, <1>6, <1>7 DEF Trims
<1>9. QED BY <1>8, PlacesTrim

\* A step of node n leaves the caches, and what other nodes have.
LEMMA PlacesAt ==
  ASSUME Base, Carries, LedgerFits, PlacesFit, NEW n \in Node, OnePlace(n)',
         UNCHANGED <<cached, abandoned>>,
         \A m \in Node \ {n} : pending'[m] = pending[m] /\ results'[m] = results[m]
  PROVE  PlacesFit'
<1>1. \A m \in Node \ {n} : OnePlace(m)'
  BY PlaceKeeps DEF PlacesFit, PlaceShrinks
<1>2. \A m \in Node : CacheFits(m)'
  BY DEF PlacesFit, CacheFits
<1>3. QED BY <1>1, <1>2 DEF PlacesFit

LEMMA PlacesStep ==
  ASSUME ServiceFits, PlacesFit, [Next]_vars
  PROVE  PlacesFit'
<1>1. Base /\ LedgerFits /\ CallersFit /\ Carries
  BY BaseStep DEF ServiceFits
<1>2. DOMAIN pending = Node /\ DOMAIN results = Node
  BY <1>1 DEF LedgerFits
<1>3. ASSUME NEW n \in Node, Accept(n) PROVE PlacesFit'
  <2>1. /\ UNCHANGED <<results, cached, abandoned>>
        /\ \A m \in Node \ {n} : pending'[m] = pending[m]
    BY <1>2, <1>3 DEF Accept, cacheVars
  <2>2. OnePlace(n)'
    BY <1>1, <1>3, PlaceAccepts DEF PlacesFit
  <2>3. QED BY <1>1, <2>1, <2>2, PlacesAt
<1>4. ASSUME NEW n \in Node, Refuse(n) PROVE PlacesFit'
  <2>1. /\ UNCHANGED <<pending, cached, abandoned>>
        /\ \A m \in Node \ {n} : results'[m] = results[m]
    BY <1>2, <1>4 DEF Refuse, Emit, cacheVars
  <2>2. OnePlace(n)'
    BY <1>1, <1>4, PlaceRefuses DEF PlacesFit
  <2>3. QED BY <1>1, <2>1, <2>2, PlacesAt
<1>5. ASSUME NEW n \in Node, WriteFails(n) PROVE PlacesFit'
  <2>1. PICK A : FailsAt(n, A)
    BY <1>5, FailsForm
  <2>2. /\ UNCHANGED <<cached, abandoned>>
        /\ \A m \in Node \ {n} : pending'[m] = pending[m] /\ results'[m] = results[m]
    BY <1>2, <2>1 DEF FailsAt
  <2>3. OnePlace(n)'
    BY <1>1, <2>1, PlaceFails DEF PlacesFit
  <2>4. QED BY <1>1, <2>2, <2>3, PlacesAt
<1>6. ASSUME NEW n \in Node, ApplyNext(n) PROVE PlacesFit'
  <2>1. PICK i, ok, A : AnswersAt(n, i, ok, A)
    BY <1>1, <1>6, ApplyAnswers
  <2>2. /\ UNCHANGED <<cached, abandoned>>
        /\ \A m \in Node \ {n} : pending'[m] = pending[m] /\ results'[m] = results[m]
    BY <1>2, <2>1 DEF AnswersAt
  <2>3. OnePlace(n)'
    BY <1>1, <2>1, PlaceApplies DEF PlacesFit
  <2>4. QED BY <1>1, <2>2, <2>3, PlacesAt
<1>7. ASSUME UNCHANGED <<pending, results, cached, abandoned>> PROVE PlacesFit'
  <2>1. \A n \in Node : OnePlace(n)'
    BY <1>1, <1>7, PlacesKeep DEF PlacesFit
  <2>2. \A n \in Node : CacheFits(n)'
    BY <1>7 DEF PlacesFit, CacheFits
  <2>3. QED BY <2>1, <2>2 DEF PlacesFit
<1>8. ASSUME NEW n \in Node, Commit(n) \/ Learn(n) PROVE PlacesFit'
  BY <1>7, <1>8 DEF Commit, Learn, cacheVars
<1>9. ASSUME NEW c \in Caller, NEW n \in Node, NEW request \in Request,
             StartCall(c, n, request)
      PROVE  PlacesFit'
  BY <1>7, <1>9 DEF StartCall, cacheVars
<1>10. ASSUME NEW c \in Caller, TakeCached(c) \/ Collect(c) \/ Timeout(c) PROVE PlacesFit'
  BY <1>1, <1>10, PlacesTakeCached, PlacesCollect, PlacesTimeout
<1>11. ASSUME NEW c \in Caller, ReadOutcome(c) PROVE PlacesFit'
  BY <1>7, <1>11 DEF ReadOutcome, raftVars, cacheVars
<1>12. CASE UNCHANGED vars
  BY <1>7, <1>12 DEF vars, raftVars, cacheVars
<1>13. QED BY <1>3, <1>4, <1>5, <1>6, <1>8, <1>9, <1>10, <1>11, <1>12 DEF Next

\* The log keeps to its bound, and a node has given out no more command ids than calls.
Counted ==
    /\ Len(log) <= MaxLog /\ \A i \in DOMAIN log : log[i].node \in Node
    /\ DOMAIN nextCommand = Node
    /\ \A n \in Node : nextCommand[n] \in 1 .. nextProposal[n]

LEMMA CountedStep ==
  ASSUME Base, Counted, [Next]_vars
  PROVE  Counted'
<1>1. ASSUME NEW c \in Caller, NEW n \in Node, NEW request \in Request,
             StartCall(c, n, request)
      PROVE  Counted'
  <2>1. /\ UNCHANGED log /\ nextProposal' = [nextProposal EXCEPT ![n] = nextProposal[n] + 1]
        /\ \/ nextCommand' = nextCommand
           \/ nextCommand' = [nextCommand EXCEPT ![n] = nextCommand[n] + 1]
    BY <1>1 DEF StartCall, replicaVars
  <2>2. DOMAIN nextProposal = Node /\ DOMAIN nextCommand = Node
    BY DEF Base, Counted
  <2>3. ASSUME NEW m \in Node PROVE nextCommand'[m] \in 1 .. nextProposal'[m]
    <3>1. nextProposal[m] \in Nat /\ nextCommand[m] \in 1 .. nextProposal[m]
      BY BaseFacts DEF Counted
    <3>2. \/ nextProposal'[m] = nextProposal[m] /\ nextCommand'[m] = nextCommand[m]
          \/ /\ nextProposal'[m] = nextProposal[m] + 1
             /\ nextCommand'[m] = nextCommand[m] \/ nextCommand'[m] = nextCommand[m] + 1
      BY <2>1, <2>2
    <3>3. QED BY <3>1, <3>2
  <2>4. QED BY <2>1, <2>2, <2>3 DEF Counted
<1>2. ASSUME NEW n \in Node, Commit(n) PROVE Counted'
  <2>1. PICK p : p = Head(tail[n])
    OBVIOUS
  <2>2. /\ tail[n] # <<>> /\ log' = Append(log, p) /\ Len(log) < MaxLog
        /\ UNCHANGED <<nextProposal, nextCommand>>
    BY <1>2, <2>1 DEF Commit, Append_, counters
  <2>3. p.node = n
    <3>1. HeldFits(Held(n), n, nextProposal[n]) /\ Held(n).tail = tail[n]
      BY DEF Base, Held
    <3>2. 1 \in DOMAIN tail[n] /\ p = tail[n][1]
      BY <2>1, <2>2, <3>1, TailFacts DEF HeldFits
    <3>3. QED BY <3>1, <3>2 DEF HeldFits, IsProposal
  <2>4. /\ Len(log) \in Nat /\ DOMAIN log' = DOMAIN log \cup {Len(log) + 1}
        /\ log'[Len(log) + 1] = p /\ Len(log') = Len(log) + 1
        /\ \A i \in DOMAIN log : log'[i] = log[i]
    BY <2>2, BaseFacts, SequenceFacts
  <2>5. QED BY <2>2, <2>3, <2>4, ReplicaAssumption DEF Counted
<1>3. CASE UNCHANGED <<log, nextProposal, nextCommand>>
  BY <1>3 DEF Counted
<1>4. ASSUME NEW n \in Node,
             Accept(n) \/ Refuse(n) \/ Learn(n) \/ WriteFails(n) \/ ApplyNext(n)
      PROVE  Counted'
  BY <1>3, <1>4 DEF Accept, Refuse, Learn, WriteFails, ApplyNext, PassNext, counters,
                    replicaVars
<1>5. ASSUME NEW c \in Caller, TakeCached(c) \/ Collect(c) \/ Timeout(c) \/ ReadOutcome(c)
      PROVE  Counted'
  BY <1>3, <1>5 DEF TakeCached, Collect, Timeout, ReadOutcome, counters, replicaVars
<1>6. CASE UNCHANGED vars
  BY <1>3, <1>6 DEF vars, counters, replicaVars
<1>7. QED BY <1>1, <1>2, <1>4, <1>5, <1>6 DEF Next

LEMMA ServiceTypesFollow == ServiceFits /\ PlacesFit /\ Counted => TypeOK
<1> SUFFICES ASSUME ServiceFits, PlacesFit, Counted PROVE TypeOK
  OBVIOUS
<1>1. Base /\ LedgerFits /\ CallersFit
  BY DEF ServiceFits
<1>2. ReplicaTypeOK
  BY <1>1, TypesFollow DEF Base, Counted
<1>3. ASSUME NEW i \in DOMAIN log
      PROVE  log[i].node \in Node /\ log[i].pid \in 1 .. nextProposal[log[i].node] - 1
  <2>1. PICK n \in Node : n = log[i].node
    BY DEF Counted
  <2>2. HeldFits(Held(n), n, nextProposal[n]) /\ Held(n).log = log
    BY <1>1 DEF Base, Held
  <2>3. log[i].pid \in 1 .. nextProposal[n] - 1
    BY <2>1, <2>2 DEF HeldFits
  <2>4. QED BY <2>1, <2>3
<1>4. ASSUME NEW n \in Node
      PROVE  /\ tried[n] <= known[n] /\ known[n] <= Len(log)
             /\ nextCommand[n] \in 1 .. nextProposal[n]
             /\ {q.pid : q \in pending[n]} \subseteq 1 .. nextProposal[n] - 1
             /\ Cardinality(cached[n]) <= ResultCap
             /\ abandoned[n] \subseteq 1 .. nextProposal[n] - 1
             /\ Cardinality(abandoned[n]) <= ResultCap
  <2>1. tried[n] <= known[n] /\ known[n] <= Len(log)
    BY <1>1, BaseFacts
  <2>2. {q.pid : q \in pending[n]} \subseteq 1 .. nextProposal[n] - 1
    BY <1>1 DEF LedgerFits, PendingFits, PairFits
  <2>3. abandoned[n] \subseteq 1 .. nextProposal[n] - 1
    BY <1>1 DEF LedgerFits
  <2>4. QED BY <2>1, <2>2, <2>3 DEF Counted, PlacesFit, CacheFits
<1>5. ASSUME NEW c \in Caller
      PROVE  caller[c].phase \in {"idle", "waiting", "querying", "answered"}
  <2>1. CallerFits(c)
    BY <1>1 DEF CallersFit
  <2>2. WaitFits(c) => caller[c].phase = "waiting"
    BY DEF WaitFits
  <2>3. PICK told : told = caller[c]
    OBVIOUS
  <2>4. ToldFits(told) => told.phase \in {"querying", "answered"}
    BY DEF ToldFits
  <2>5. QED BY <2>1, <2>2, <2>3, <2>4 DEF CallerFits
<1>6. QED BY <1>2, <1>3, <1>4, <1>5 DEF TypeOK

\* However many callers give up, the caches of results and of abandoned proposals keep
\* to their limits; every id is one that was given, and no replica is ahead of the log
\* of its node.
THEOREM ServiceTypesCorrect == Spec => []TypeOK
<1>1. Init => PlacesFit /\ Counted
  <2> SUFFICES ASSUME Init PROVE PlacesFit /\ Counted
    OBVIOUS
  <2>1. /\ pending = [n \in Node |-> {}] /\ results = [n \in Node |-> {}]
        /\ cached = [n \in Node |-> {}] /\ abandoned = [n \in Node |-> {}]
        /\ nextProposal = [n \in Node |-> 1] /\ nextCommand = [n \in Node |-> 1]
        /\ log = <<>>
    BY DEF Init, ReplicaInit
  <2>2. PlacesFit
    BY <2>1, FS_EmptySet, ServiceAssumption DEF PlacesFit, OnePlace, CacheFits, Unlike
  <2>3. Counted
    BY <2>1, ReplicaAssumption DEF Counted
  <2>4. QED BY <2>2, <2>3
<1>2. ServiceFits /\ PlacesFit /\ Counted /\ [Next]_vars => PlacesFit' /\ Counted'
  BY PlacesStep, CountedStep DEF ServiceFits
<1>3. QED BY <1>1, <1>2, ServiceKeeps, ServiceTypesFollow, PTL DEF Spec
=============================================================================
