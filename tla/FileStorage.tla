----------------------------- MODULE FileStorage -----------------------------
(***************************************************************************)
(* FileRaftStorage (raft/file_raft_storage.cpp): a hard state, a log and a *)
(* snapshot in three files, each replaced as a whole by AtomicReplace      *)
(* (platform/file_ops.cpp), with a copy of all three in memory.  The       *)
(* process may crash between any two file operations, and each of them may *)
(* fail.                                                                   *)
(*                                                                         *)
(* A file is the sequence of its records; a record of the log is an index  *)
(* and a term, since Raft never gives two payloads to one pair.  What a    *)
(* rename has put in place stays there (see README for power failures).    *)
(* One thread calls, as plan.md says: "One persistence thread serializes   *)
(* durable hard-state, log, truncation, and snapshot work."                *)
(***************************************************************************)
EXTENDS Naturals, SequencesExt

CONSTANTS MaxTerm, MaxIndex,   \* bounds: terms and indexes of calls
          MaxBatch             \* bound: entries in one AppendEntries call

ASSUME BoundsAssumption == {MaxTerm, MaxIndex, MaxBatch} \subseteq Nat

VARIABLES
    files,    \* contents of raft_hard_state, raft_log and raft_snapshot
    temp,     \* contents of their `.tmp.replace' files
    memory,   \* open_, hard_state_, entries_ and the index of snapshot_
    call,     \* the call in progress
    history   \* ghost: every entry of the log on disk, compacted ones included

vars == <<files, temp, memory, call, history>>

File == {"hard", "log", "snapshot"}
Record == [index : 1 .. MaxIndex, term : 1 .. MaxTerm]
HardState == [term : 0 .. MaxTerm, commit : 0 .. MaxIndex]
NoHardState == [term |-> 0, commit |-> 0]

\* A call: the replacements it has still to make, where it is in the first of
\* them, what memory becomes at its end, and (ghost) the log it makes.
Idle == [todo |-> << >>, stage |-> "none", memory |-> << >>, log |-> << >>]

Replacement(file, data) == [file |-> file, data |-> data]

----------------------------------------------------------------------------
\* Helpers of the class, on the copy in memory.

Closed == [open |-> FALSE, hard |-> NoHardState, entries |-> << >>, snapshot |-> << >>]

SnapshotIndex(m) == IF m.snapshot = << >> THEN 0 ELSE m.snapshot[1].index

LastLogIndex(m) == IF m.entries = << >> THEN SnapshotIndex(m) ELSE Last(m.entries).index

HasEntry(m, i) == m.entries # << >> /\ i \in SnapshotIndex(m) + 1 .. Last(m.entries).index

EntryAt(m, i) == m.entries[i - SnapshotIndex(m)]

HasTermAt(m, i, t) ==
    \/ m.snapshot # << >> /\ i = SnapshotIndex(m) /\ t = m.snapshot[1].term
    \/ HasEntry(m, i) /\ t = EntryAt(m, i).term

Contiguous(records) ==
    \A k \in 1 .. Len(records) - 1 : records[k + 1].index = records[k].index + 1

----------------------------------------------------------------------------
\* LoadFromDisk.

\* The records above index i, and those below it: the last ones and the first
\* ones, as many as there are, since the indexes of a log increase.
Above(i, records) ==
    LET count == Cardinality({k \in DOMAIN records : records[k].index > i})
    IN  SubSeq(records, Len(records) - count + 1, Len(records))

Below(i, records) ==
    SubSeq(records, 1, Cardinality({k \in DOMAIN records : records[k].index < i}))

Loaded ==
    [open |-> TRUE, snapshot |-> files["snapshot"],
     hard |-> IF files["hard"] = << >> THEN NoHardState ELSE files["hard"][1],
     entries |-> Above(SnapshotIndex([snapshot |-> files["snapshot"]]), files["log"])]

\* Else it returns Corruption and the storage does not open.
Loads ==
    /\ Len(files["hard"]) <= 1
    /\ Contiguous(Loaded.entries)
    /\ Loaded.entries # << >> => Head(Loaded.entries).index = SnapshotIndex(Loaded) + 1
    /\ Loaded.hard.commit \in SnapshotIndex(Loaded) .. LastLogIndex(Loaded)

Open ==
    /\ call = Idle /\ Loads
    /\ memory' = Loaded
    /\ UNCHANGED <<files, temp, call, history>>

----------------------------------------------------------------------------
\* Calls: what each refuses, and the replacements and the memory it leads to.

\* Broken variant, for mutation: memory is changed before the files are.
BeginRemembered(todo, after, log) ==
    /\ memory.open /\ call = Idle
    /\ call' = [todo |-> todo, stage |-> "write", memory |-> after, log |-> log]
    /\ memory' = after
    /\ UNCHANGED <<files, temp, history>>

Begin(todo, after, log) ==
    /\ memory.open /\ call = Idle
    /\ call' = [todo |-> todo, stage |-> "write", memory |-> after, log |-> log]
    /\ UNCHANGED <<files, temp, memory, history>>

\* Broken variant, for mutation: the term may go back.
HardStateOfAnyTerm(h) == h.commit \in memory.hard.commit .. LastLogIndex(memory)

ValidHardState(h) ==
    /\ h.term >= memory.hard.term
    /\ h.commit \in memory.hard.commit .. LastLogIndex(memory)

SaveHardState(h) ==
    /\ ValidHardState(h)
    /\ Begin(<<Replacement("hard", <<h>>)>>, [memory EXCEPT !.hard = h], history)

ValidEntryBatch(es) ==
    /\ Contiguous(es)
    /\ es[1].index \in SnapshotIndex(memory) + 1 .. LastLogIndex(memory) + 1

OverlapIsSame(es) ==
    \A k \in DOMAIN es :
        es[k].index <= LastLogIndex(memory) =>
            HasEntry(memory, es[k].index) /\ EntryAt(memory, es[k].index) = es[k]

\* Entries the log has already are skipped; a call of nothing else is done.
AppendEntries(es) ==
    LET new == Above(LastLogIndex(memory), es)
        all == memory.entries \o new
    IN  /\ ValidEntryBatch(es) /\ OverlapIsSame(es)
        /\ new # << >>
        /\ Begin(<<Replacement("log", all)>>, [memory EXCEPT !.entries = all],
                 history \o new)

MayTruncate(i) == i \in memory.hard.commit + 1 .. LastLogIndex(memory)

TruncateSuffix(i) ==
    LET kept == Below(i, memory.entries)
    IN  /\ MayTruncate(i)
        /\ Begin(<<Replacement("log", kept)>>, [memory EXCEPT !.entries = kept],
                 SubSeq(history, 1, i - 1))

ValidSnapshot(i, t) ==
    /\ i \in 1 .. memory.hard.commit
    /\ i >= SnapshotIndex(memory)
    /\ HasTermAt(memory, i, t)

\* Broken variant, for mutation: the log first.
LogBeforeSnapshot(snapshot, kept) ==
    <<Replacement("log", kept), Replacement("snapshot", snapshot)>>

SnapshotReplacements(snapshot, kept) ==
    <<Replacement("snapshot", snapshot), Replacement("log", kept)>>

SaveSnapshot(i, t) ==
    LET snapshot == <<[index |-> i, term |-> t]>>
        kept == Above(i, memory.entries)
    IN  /\ ValidSnapshot(i, t)
        /\ Begin(SnapshotReplacements(snapshot, kept),
                 [memory EXCEPT !.snapshot = snapshot, !.entries = kept], history)

----------------------------------------------------------------------------
\* AtomicReplace: write the data to a temporary file, then rename it.

Target == Head(call.todo).file

\* Broken variant, for mutation: the rest of what was there stays.
WrittenOver(old, data) == data \o SubSeq(old, Len(data) + 1, Len(old))

\* WriteAll: the file a crash has left is opened, overwritten and cut to size.
Written(old, data) == data

WriteTemp ==
    /\ call.stage = "write"
    /\ temp' = [temp EXCEPT ![Target] = Written(@, Head(call.todo).data)]
    /\ call' = [call EXCEPT !.stage = "rename"]
    /\ UNCHANGED <<files, memory, history>>

RenameTemp ==
    LET rest == Tail(call.todo)
    IN  /\ call.stage = "rename"
        /\ files' = [files EXCEPT ![Target] = temp[Target]]
        /\ temp' = [temp EXCEPT ![Target] = << >>]
        /\ call' = IF rest = << >> THEN Idle
                   ELSE [call EXCEPT !.todo = rest, !.stage = "write"]
        /\ history' = IF Target = "log" THEN call.log ELSE history
        /\ memory' = IF rest = << >> THEN call.memory ELSE memory

\* An operation fails: the temporary file is removed, unless it could not be
\* opened, and the call returns the error.
Fail ==
    /\ call # Idle
    /\ \/ temp' = [temp EXCEPT ![Target] = << >>]
       \/ call.stage = "write" /\ UNCHANGED temp
    /\ call' = Idle
    /\ UNCHANGED <<files, memory, history>>

\* The process ends, perhaps in the middle of writing.
Crash ==
    /\ memory.open
    /\ memory' = Closed /\ call' = Idle
    /\ \/ UNCHANGED temp
       \/ /\ call.stage = "write"
          /\ \E k \in 1 .. Len(Head(call.todo).data) :
                temp' = [temp EXCEPT ![Target] =
                            WrittenOver(@, SubSeq(Head(call.todo).data, 1, k))]
    /\ UNCHANGED <<files, history>>

----------------------------------------------------------------------------
Init ==
    /\ files = [f \in File |-> << >>]
    /\ temp = [f \in File |-> << >>]
    /\ memory = Closed /\ call = Idle /\ history = << >>

Batch == UNION {[1 .. n -> Record] : n \in 1 .. MaxBatch}

Next ==
    \/ Open
    \/ \E h \in HardState : SaveHardState(h)
    \/ \E es \in Batch : AppendEntries(es)
    \/ \E i \in 1 .. MaxIndex : TruncateSuffix(i)
    \/ \E i \in 1 .. MaxIndex, t \in 1 .. MaxTerm : SaveSnapshot(i, t)
    \/ WriteTemp \/ RenameTemp \/ Fail \/ Crash

Spec == Init /\ [][Next]_vars

----------------------------------------------------------------------------
TypeOK ==
    /\ files \in [File -> Seq(Record \cup HardState)]
    /\ temp \in [File -> Seq(Record \cup HardState)]
    /\ memory.open \in BOOLEAN /\ memory.hard \in HardState
    /\ memory.hard.commit \in SnapshotIndex(memory) .. LastLogIndex(memory)
    /\ memory.entries \in Seq(Record) /\ memory.snapshot \in Seq(Record)
    /\ call.stage \in {"none", "write", "rename"}
    /\ history \in Seq(Record)

\* Whatever call was cut short by a crash or an error, at whatever point, the
\* files belong together: the next process opens them (spec.md, User Story 1,
\* scenario 4).  SaveSnapshot replaces two of them, in the order that lets this
\* be.
AlwaysLoads == Loads

\* What a load returns is the log as the calls made it, from the snapshot on.
LoadIsFaithful ==
    Loads => /\ Loaded.entries = SubSeq(history, SnapshotIndex(Loaded) + 1, Len(history))
             /\ Loaded.snapshot # << >> => Loaded.snapshot[1] = history[SnapshotIndex(Loaded)]

\* Between calls the copy in memory, which all checks are made against, says
\* what the files say, except that a SaveSnapshot that failed half-way leaves
\* its boundary behind.
MemoryIsFaithful ==
    memory.open /\ call = Idle =>
        /\ memory.hard = Loaded.hard
        /\ memory.entries = SubSeq(history, SnapshotIndex(memory) + 1, Len(history))
        /\ SnapshotIndex(memory) <= SnapshotIndex(Loaded)

\* Three files and a crash at any point are as good as a storage that does each
\* operation at once and cannot crash.
Durable == INSTANCE DurableStorage
               WITH hard <- Loaded.hard, entries <- history,
                    base <- SnapshotIndex(Loaded)

RefinesDurableStorage == Durable!Spec
=============================================================================
