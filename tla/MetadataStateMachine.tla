------------------------ MODULE MetadataStateMachine ------------------------
(***************************************************************************)
(* metadata/metadata_state_machine.cpp as operators on its state           *)
(*   sm = [records, registry, tasks, last]:                                *)
(* records_ by target id, the store registry, the task manager and         *)
(* last_applied_index_.  Its mutex makes each operation atomic.  Terms and *)
(* the byte formats of commands, results and snapshots are left out.       *)
(*                                                                         *)
(* A command is a record with the fields kind, id (command_id), target and *)
(* the arguments of its kind.                                              *)
(***************************************************************************)
EXTENDS StoreRegistry, TaskManager

CONSTANTS Store,        \* the ids of stores
          Address,
          MaxItems,     \* kMaxStoreBusinessItems, of a result
          SnapshotCap   \* kMaxMetadataSnapshotRecords, Stores and Tasks

ASSUME StoreAssumption == NoStore \notin Store

\* ValidateStoreBusinessCommand: what is refused before it is proposed.
ValidCommand(cmd) ==
    \/ cmd.kind \in {"OPAQUE", "CREATE_TASK"}
    \/ cmd.kind = "REGISTER_STORE" /\ cmd.store \in Store /\ cmd.address \in Address
    \/ cmd.kind \in {"UPDATE_STORE_STATE", "REMOVE_STORE"} /\ cmd.store \in Store
    \/ cmd.kind = "POLL_TASKS" /\ cmd.store \in Store /\ cmd.max \in Nat \ {0}
    \/ cmd.kind = "REPORT_TASK_RESULT" /\ cmd.store \in Store /\ IsTerminal(cmd.final)

\* StoreBusinessCommand: the arguments that each kind of command has.
Arguments ==
    [OPAQUE |-> {"expected", "payload"}, CREATE_TASK |-> {"task", "content"},
     REGISTER_STORE |-> {"store", "address"},
     UPDATE_STORE_STATE |-> {"store", "generation"},
     REMOVE_STORE |-> {"store", "generation"}, POLL_TASKS |-> {"store", "max"},
     REPORT_TASK_RESULT |-> {"store", "task", "final", "result"}]

EmptyMachine == [records |-> <<>>, registry |-> EmptyRegistry,
                 tasks |-> EmptyTasks, last |-> 0]

\* StoreBusinessResult; a command of tasks fills in no store.
Answer(info, tasks, duplicate) ==
    [store |-> info, tasks |-> tasks, duplicate |-> duplicate]
NoAnswer == Answer(NoInfo, <<>>, FALSE)

\* Broken variant, for mutation: the heartbeat goes into the record.
EncodedWhole(answer, junk) ==
    [answer EXCEPT !.store = IF @ = NoInfo THEN junk ELSE @]

\* EncodeStoreBusinessResult and its reading back: the heartbeat is left out, and
\* the id of a store nobody filled in is whatever was in memory.
Encoded(answer, junk) ==
    [answer EXCEPT !.store = IF @ = NoInfo THEN junk ELSE FromPersistent(@)]

StoreOutcome(sm, r) ==
    [ok |-> r.ok, sm |-> [sm EXCEPT !.registry = r.state],
     answer |-> Answer(r.store, <<>>, FALSE)]

TaskOutcome(sm, r, duplicate) ==
    [ok |-> r.ok, sm |-> [sm EXCEPT !.tasks = r.state],
     answer |-> Answer(NoInfo, r.tasks, duplicate)]

----------------------------------------------------------------------------
\* The store command of STORE_OPERATION.
Remove(sm, cmd) ==
    LET stores == sm.registry.stores
        found  == cmd.store \in DOMAIN stores
                     /\ stores[cmd.store].generation = cmd.generation
    IN  StoreOutcome(sm, IF found
                         THEN StoreDone(RemoveStore(sm.registry, cmd.store),
                                        stores[cmd.store])
                         ELSE StoreRefused(sm.registry))

Report(sm, cmd) ==
    LET r == CompleteTask(sm.tasks, [task |-> cmd.task, store |-> cmd.store,
                                     final |-> cmd.final, result |-> cmd.result])
    IN  TaskOutcome(sm, r, r.ok /\ r.state = sm.tasks)

Business(sm, cmd) ==
    CASE cmd.kind = "REGISTER_STORE" ->
            StoreOutcome(sm, RegisterStore(sm.registry, cmd.store, cmd.address))
      [] cmd.kind = "UPDATE_STORE_STATE" ->
            StoreOutcome(sm, UpdateStore(sm.registry, cmd.store, cmd.generation,
                                         "STOPPED"))
      [] cmd.kind = "REMOVE_STORE" -> Remove(sm, cmd)
      [] cmd.kind = "CREATE_TASK" ->
            TaskOutcome(sm, CreateTask(sm.tasks, cmd.task, cmd.content), FALSE)
      [] cmd.kind = "POLL_TASKS" ->
            TaskOutcome(sm, AssignNextWaitingTasks(sm.tasks, cmd.store, cmd.max),
                        FALSE)
      [] cmd.kind = "REPORT_TASK_RESULT" -> Report(sm, cmd)

\* Broken variant, for mutation: a record that exists keeps its first payload.
WrittenOnce(sm, i, cmd, payload) ==
    With(sm.records, cmd.target,
         [payload |-> IF cmd.target \in DOMAIN sm.records
                      THEN sm.records[cmd.target].payload ELSE payload,
          command |-> cmd.id, index |-> i,
          generation |-> IF cmd.target \in DOMAIN sm.records
                         THEN sm.records[cmd.target].generation + 1 ELSE 1])

\* The record of cmd's target after cmd was applied at index i.
Written(sm, i, cmd, payload) ==
    With(sm.records, cmd.target,
         [payload |-> payload, command |-> cmd.id, index |-> i,
          generation |-> IF cmd.target \in DOMAIN sm.records
                         THEN sm.records[cmd.target].generation + 1 ELSE 1])

\* A result that does not fit is refused after the registry and the tasks have
\* changed.
ApplyStoreCommand(sm, i, cmd, junk) ==
    LET r == Business(sm, cmd)
    IN  IF r.ok /\ Len(r.answer.tasks) <= MaxItems
        THEN [r EXCEPT !.sm.records = Written(sm, i, cmd, Encoded(r.answer, junk))]
        ELSE [r EXCEPT !.ok = FALSE]

\* expected = 0: no expected generation.
ApplyOpaqueCommand(sm, i, cmd) ==
    LET ok == \/ cmd.expected = 0
              \/ /\ cmd.target \in DOMAIN sm.records
                 /\ sm.records[cmd.target].generation = cmd.expected
    IN  [ok |-> ok, answer |-> NoAnswer,
         sm |-> IF ok THEN [sm EXCEPT !.records = Written(sm, i, cmd, cmd.payload)]
                      ELSE sm]

\* Broken variant, for mutation: a refused command is counted as applied.
ApplyAnyway(sm, i, cmd, junk) ==
    LET r == IF cmd.kind = "OPAQUE" THEN ApplyOpaqueCommand(sm, i, cmd)
                                    ELSE ApplyStoreCommand(sm, i, cmd, junk)
    IN  [r EXCEPT !.sm.last = i]

\* Only the command at the index after the last applied one is looked at, and a
\* command that is refused does not move that index.
Apply(sm, i, cmd, junk) ==
    LET r == IF cmd.kind = "OPAQUE" THEN ApplyOpaqueCommand(sm, i, cmd)
                                    ELSE ApplyStoreCommand(sm, i, cmd, junk)
    IN  IF i # sm.last + 1 THEN [ok |-> FALSE, sm |-> sm, answer |-> NoAnswer]
        ELSE IF r.ok THEN [r EXCEPT !.sm.last = i]
        ELSE r

----------------------------------------------------------------------------
\* Snapshots of the business state.
CanCreateSnapshot(sm) ==
    /\ Cardinality(DOMAIN sm.registry.stores) <= SnapshotCap
    /\ Cardinality(DOMAIN sm.tasks.tasks) <= SnapshotCap

CreateSnapshot(sm) ==
    [last |-> sm.last, records |-> sm.records,
     stores |-> ExportStores(sm.registry), tasks |-> ExportTasks(sm.tasks)]

CanRestoreSnapshot(snapshot) ==
    /\ Cardinality(DOMAIN snapshot.records) <= SnapshotCap
    /\ Cardinality(snapshot.stores) <= SnapshotCap
    /\ Cardinality(snapshot.tasks) <= SnapshotCap
    /\ \A target \in DOMAIN snapshot.records :
          /\ snapshot.records[target].generation > 0
          /\ snapshot.records[target].index \in 1 .. snapshot.last
    /\ CanRestoreStores(snapshot.stores)
    /\ CanRestoreTasks(snapshot.tasks)

RestoreSnapshot(snapshot) ==
    [records |-> snapshot.records, registry |-> RestoreStores(snapshot.stores),
     tasks |-> RestoreTasks(snapshot.tasks), last |-> snapshot.last]
=============================================================================
