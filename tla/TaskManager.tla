---------------------------- MODULE TaskManager ----------------------------
(***************************************************************************)
(* store/task_manager.cpp as operators on its state                        *)
(*   tm = [tasks |-> records by task id, next |-> next_sequence_].         *)
(* An operation yields [ok, state, tasks]: whether it was accepted, the    *)
(* state it leaves and the records it returns.  Its mutex makes it atomic. *)
(* Sizes, and counters at the end of 64 bits, are left out.                *)
(***************************************************************************)
EXTENDS Maps, Naturals, FiniteSets, Sequences, TLC

CONSTANTS NoStore,      \* assigned_store 0
          NoPayload     \* an empty result payload

EmptyTasks == [tasks |-> <<>>, next |-> 1]

\* A record of a task; content is its type and target payload.
NewTask(t, content, sequence) ==
    [id |-> t, content |-> content, state |-> "WAITING", store |-> NoStore,
     result |-> NoPayload, generation |-> 1, sequence |-> sequence]

IsTerminal(state) == state \in {"SUCCESS", "FAILED"}

Accepted(tm, returned) == [ok |-> TRUE, state |-> tm, tasks |-> returned]
Rejected(tm) == [ok |-> FALSE, state |-> tm, tasks |-> <<>>]

----------------------------------------------------------------------------
\* A repeated request with the same content returns the task it made.
CreateTask(tm, t, content) ==
    LET created == NewTask(t, content, tm.next)
    IN  IF t \notin DOMAIN tm.tasks
        THEN Accepted([tasks |-> With(tm.tasks, t, created), next |-> tm.next + 1],
                      <<created>>)
        ELSE IF tm.tasks[t].content = content THEN Accepted(tm, <<tm.tasks[t]>>)
        ELSE Rejected(tm)

\* Broken variant, for mutation: a poll also hands out tasks already running.
Pollable(tm) == {t \in DOMAIN tm.tasks : ~IsTerminal(tm.tasks[t].state)}

Waiting(tm) == {t \in DOMAIN tm.tasks : tm.tasks[t].state = "WAITING"}

\* The place of waiting task t in the FIFO order (LessByFifo; no two tasks have
\* the same sequence).
Turn(tm, t) ==
    1 + Cardinality({u \in Waiting(tm) : tm.tasks[u].sequence < tm.tasks[t].sequence})

AssignTo(record, store) ==
    [record EXCEPT !.state = "RUNNING", !.store = store,
                   !.generation = @ + 1]

AssignNextWaitingTasks(tm, store, max) ==
    LET chosen == {t \in Waiting(tm) : Turn(tm, t) <= max}
        tasks  == [t \in DOMAIN tm.tasks |->
                      IF t \in chosen THEN AssignTo(tm.tasks[t], store)
                                      ELSE tm.tasks[t]]
    IN  Accepted([tm EXCEPT !.tasks = tasks],
                 [k \in 1 .. Cardinality(chosen) |->
                     tasks[CHOOSE t \in chosen : Turn(tm, t) = k]])

\* report = [task, store, final, result].  The RPC never sends the optional
\* expected generation of a report, which is left out.
SameResult(record, report) ==
    /\ record.store = report.store
    /\ record.state = report.final
    /\ record.result = report.result

CompleteWith(record, report) ==
    [record EXCEPT !.state = report.final, !.result = report.result,
                   !.generation = @ + 1]

\* Broken variant, for mutation: a repetition overwrites the result.
CompleteAgain(tm, report) ==
    IF report.task \notin DOMAIN tm.tasks THEN Rejected(tm)
    ELSE LET record == tm.tasks[report.task]
             completed == CompleteWith(record, report)
         IN  IF record.state # "WAITING" /\ record.store = report.store
             THEN Accepted([tm EXCEPT !.tasks[report.task] = completed],
                           <<completed>>)
             ELSE Rejected(tm)

\* The first result of the store that runs the task is kept; the same result
\* again is accepted and changes nothing.
CompleteTask(tm, report) ==
    IF report.task \notin DOMAIN tm.tasks THEN Rejected(tm)
    ELSE LET record == tm.tasks[report.task]
             completed == CompleteWith(record, report)
         IN  IF IsTerminal(record.state) /\ SameResult(record, report)
             THEN Accepted(tm, <<record>>)
             ELSE IF record.state = "RUNNING" /\ record.store = report.store
             THEN Accepted([tm EXCEPT !.tasks[report.task] = completed],
                           <<completed>>)
             ELSE Rejected(tm)

----------------------------------------------------------------------------
ExportTasks(tm) == {tm.tasks[t] : t \in DOMAIN tm.tasks}

ValidTaskRecord(r) ==
    /\ r.generation > 0 /\ r.sequence > 0
    /\ r.state = "WAITING" <=> r.store = NoStore
    /\ r.state = "RUNNING" => r.result = NoPayload

CanRestoreTasks(records) ==
    /\ \A r \in records : ValidTaskRecord(r)
    /\ \A r, q \in records : r.id = q.id => r = q

\* Broken variant, for mutation: the last sequence is given again.
RestoreTasksShort(records) ==
    [tasks |-> [t \in {r.id : r \in records} |-> CHOOSE r \in records : r.id = t],
     next  |-> CHOOSE n \in {1} \cup {r.sequence : r \in records} :
                   \A r \in records : r.sequence <= n]

\* next_sequence_ is not exported: it follows the largest sequence restored.
RestoreTasks(records) ==
    [tasks |-> [t \in {r.id : r \in records} |-> CHOOSE r \in records : r.id = t],
     next  |-> CHOOSE n \in {1} \cup {r.sequence + 1 : r \in records} :
                   \A r \in records : r.sequence < n]
=============================================================================
