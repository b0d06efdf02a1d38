--------------------------- MODULE StoreRegistry ---------------------------
(***************************************************************************)
(* store/store_registry.cpp as operators on its state                      *)
(*   reg = [stores |-> StoreInfo by id, index |-> store id by address].    *)
(* An operation yields [ok, state, store].  Capacities are left out: the   *)
(* commands that reach the registry set them once, at registration.        *)
(***************************************************************************)
EXTENDS Maps, Naturals, FiniteSets, TLC

CONSTANT NoInfo         \* a StoreInfo nobody filled in

EmptyRegistry == [stores |-> <<>>, index |-> <<>>]

StoreDone(reg, info) == [ok |-> TRUE, state |-> reg, store |-> info]
StoreRefused(reg) == [ok |-> FALSE, state |-> reg, store |-> NoInfo]

RegisterStore(reg, s, address) ==
    LET info == [id |-> s, address |-> address, state |-> "RUNNING",
                 generation |-> 1, heartbeat |-> 0]
    IN  IF s \in DOMAIN reg.stores \/ address \in DOMAIN reg.index
        THEN StoreRefused(reg)
        ELSE StoreDone([stores |-> With(reg.stores, s, info),
                        index  |-> With(reg.index, address, s)], info)

\* Only the state is changed by a command, and always with the generation the
\* caller has seen.
UpdateStore(reg, s, generation, state) ==
    IF s \in DOMAIN reg.stores /\ reg.stores[s].generation = generation
    THEN LET info == [reg.stores[s] EXCEPT !.state = state, !.generation = @ + 1]
         IN  StoreDone([reg EXCEPT !.stores[s] = info], info)
    ELSE StoreRefused(reg)

RemoveStore(reg, s) ==
    [stores |-> Without(reg.stores, s),
     index  |-> Without(reg.index, reg.stores[s].address)]

\* Not a command: the node that hears of it keeps it to itself.
UpdateHeartbeat(reg, s, heartbeat) == [reg EXCEPT !.stores[s].heartbeat = heartbeat]

----------------------------------------------------------------------------
\* What a snapshot keeps of a store, read back: everything but the heartbeat.
FromPersistent(info) == [info EXCEPT !.heartbeat = 0]

ExportStores(reg) == {FromPersistent(reg.stores[s]) : s \in DOMAIN reg.stores}

CanRestoreStores(infos) ==
    \A i, j \in infos : i.id = j.id \/ i.address = j.address => i = j

RestoreStores(infos) ==
    [stores |-> [s \in {i.id : i \in infos} |-> CHOOSE i \in infos : i.id = s],
     index  |-> [a \in {i.address : i \in infos} |->
                    (CHOOSE i \in infos : i.address = a).id]]
=============================================================================
