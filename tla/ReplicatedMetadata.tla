------------------------- MODULE ReplicatedMetadata -------------------------
(***************************************************************************)
(* The replicas of the metadata state machine: on every node one, fed by   *)
(* that node's apply thread with the committed commands.  Raft is reduced  *)
(* to the log they agree on; entries that are no commands, and nodes that  *)
(* stop, are left out here (RaftRuntime has them).  Restarts do not exist: *)
(* the server refuses a storage that is not empty.                         *)
(***************************************************************************)
EXTENDS MetadataStateMachine

CONSTANTS Node,
          Entry,        \* what may be committed: records with a field cmd
          Heartbeats,   \* the markers heartbeats carry
          Junk,         \* what the id of a store nobody filled in may read as
          MaxLog        \* bound: entries committed

\* A registered store, with the last heartbeat a node has heard of it.
StoreInfo == [id : Store, address : Address, state : {"RUNNING", "STOPPED"},
              generation : Nat, heartbeat : {0} \cup Heartbeats]

ASSUME ReplicaAssumption ==
    /\ \A entry \in Entry : ValidCommand(entry.cmd)
    /\ MaxItems \in Nat /\ SnapshotCap \in Nat /\ MaxLog \in Nat
    /\ Junk # {} /\ NoInfo \notin Junk \cup StoreInfo
    /\ 0 \notin Heartbeats

VARIABLES
    log,            \* the committed entries
    sm,             \* the state machine of each node
    tried,          \* how many entries each apply thread has passed to it
    outcome         \* ghost: what the first replica answered to each entry

replicaVars == <<log, sm, tried, outcome>>

----------------------------------------------------------------------------
\* Raft commits an entry.
Append_(entry) ==
    /\ Len(log) < MaxLog
    /\ log' = Append(log, entry)

\* The apply thread of n passes the next entry to its state machine, whatever
\* became of the entries before it; it accepts the entry if ok is TRUE.
PassNext(n, ok) ==
    LET i == tried[n] + 1
    IN  /\ i <= Len(log)
        /\ \E junk \in Junk :
              LET r == Apply(sm[n], i, log[i].cmd, junk)
              IN  /\ ok = r.ok
                  /\ sm' = [sm EXCEPT ![n] = r.sm]
                  /\ outcome' = IF i > Len(outcome)
                                THEN Append(outcome, [ok |-> r.ok, answer |-> r.answer])
                                ELSE outcome
        /\ tried' = [tried EXCEPT ![n] = i]
        /\ UNCHANGED log

\* A store's heartbeat, heard by node n only.
Heartbeat(n, s, heartbeat) ==
    /\ s \in DOMAIN sm[n].registry.stores
    /\ sm' = [sm EXCEPT ![n].registry = UpdateHeartbeat(@, s, heartbeat)]
    /\ UNCHANGED <<log, tried, outcome>>

ReplicaInit ==
    /\ log = <<>> /\ outcome = <<>>
    /\ sm = [n \in Node |-> EmptyMachine] /\ tried = [n \in Node |-> 0]

ReplicaNext ==
    \/ \E entry \in Entry : Append_(entry) /\ UNCHANGED <<sm, tried, outcome>>
    \/ \E n \in Node :
          \/ \E ok \in BOOLEAN : PassNext(n, ok)
          \/ \E s \in DOMAIN sm[n].registry.stores, h \in Heartbeats :
                Heartbeat(n, s, h)

ReplicaSpec == ReplicaInit /\ [][ReplicaNext]_replicaVars

----------------------------------------------------------------------------
\* The replicas follow the log: none is ahead of it, an applied index counts only
\* commands that were passed on, and the next sequence exceeds every task's.
ReplicaTypeOK ==
    /\ Len(log) <= MaxLog /\ Len(outcome) <= Len(log)
    /\ \A n \in Node :
          /\ tried[n] \in 0 .. Len(outcome) /\ sm[n].last \in 0 .. tried[n]
          /\ \A r \in ExportTasks(sm[n].tasks) :
                ValidTaskRecord(r) /\ r.sequence < sm[n].tasks.next
          /\ CanRestoreStores(ExportStores(sm[n].registry))

\* A machine without the heartbeats and without the store of answers about tasks.
Determined(machine) ==
    [machine EXCEPT
        !.registry.stores = ExportStores(machine.registry),
        !.records = [target \in DOMAIN @ |->
            IF @[target].payload.store \in Junk
            THEN [@[target] EXCEPT !.payload.store = NoInfo] ELSE @[target]]]

\* Two replicas to which the same entries were passed hold the same records,
\* stores, tasks and sequence counter: what Apply does depends on the log alone,
\* never on the heartbeats a node has heard, except for the unset store id in the
\* record of a command of tasks.
ReplicasAgree ==
    \A n, m \in Node : tried[n] = tried[m] => Determined(sm[n]) = Determined(sm[m])

\* A snapshot of any state that keeps to the record limit can be restored, and
\* gives back that state without the heartbeats: the address index and the
\* sequence counter, which are not stored, are the ones that were there.
SnapshotFaithful ==
    \A n \in Node :
        LET snapshot == CreateSnapshot(sm[n])
            restored == RestoreSnapshot(snapshot)
        IN  CanCreateSnapshot(sm[n]) /\ Cardinality(DOMAIN sm[n].records) <= SnapshotCap
            => /\ CanRestoreSnapshot(snapshot)
               /\ restored.records = sm[n].records /\ restored.tasks = sm[n].tasks
               /\ restored.registry.index = sm[n].registry.index
               /\ ExportStores(restored.registry) = ExportStores(sm[n].registry)

\* Every replica stops at the first refused command: what it applied is what came
\* before, and whatever is committed later is refused on every replica.
StopsAtFirstRefusal ==
    \A n \in Node : \A i \in 1 .. tried[n] : outcome[i].ok <=> i <= sm[n].last

\* The polls passed to n that made task t running: they handed it out, or were
\* refused because their answer is too long.
Polls(n, t) ==
    {i \in 1 .. tried[n] : /\ log[i].cmd.kind = "POLL_TASKS"
                           /\ \E k \in DOMAIN outcome[i].answer.tasks :
                                  outcome[i].answer.tasks[k].id = t}

\* A task has left WAITING exactly if one poll took it, only one, and for the store
\* it is assigned to; no later poll sees it.
HandedOutOnce ==
    \A n \in Node : \A t \in DOMAIN sm[n].tasks.tasks :
        LET task == sm[n].tasks.tasks[t]
        IN  IF task.state = "WAITING" THEN Polls(n, t) = {}
            ELSE /\ Cardinality(Polls(n, t)) = 1
                 /\ \A i \in Polls(n, t) : log[i].cmd.store = task.store

\* A task that has been handed out stays with its store, and its first result is
\* its last, however often stores report.
ResultFinal ==
    [][\A n \in Node : \A t \in DOMAIN sm[n].tasks.tasks :
          LET old == sm[n].tasks.tasks[t]
              new == sm'[n].tasks.tasks[t]
          IN  /\ old.state # "WAITING" => new.store = old.store
              /\ IsTerminal(old.state) => new = old]_replicaVars
=============================================================================
