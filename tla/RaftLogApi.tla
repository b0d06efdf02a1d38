----------------------------- MODULE RaftLogApi -----------------------------
(***************************************************************************)
(* One RaftLog driven by any legal sequence of calls: each action is one   *)
(* method of the class, taken when the method returns OK (a refused call   *)
(* changes nothing).  No caller discipline is assumed beyond what the      *)
(* methods check themselves, so what holds here holds under RaftCore too.  *)
(***************************************************************************)
EXTENDS RaftLog

CONSTANTS MaxIndex,   \* bound: no entry beyond this index
          MaxBatch    \* bound: entries in one Append call

ASSUME BoundsAssumption == MaxIndex \in Nat /\ MaxBatch \in Nat

VARIABLES log,
          history   \* ghost: every entry of the log, those compacted into the
                    \* snapshot included; history[i] is the entry of index i

vars == <<log, history>>

\* The batches a caller may hand over.  Indexes start anywhere, so that the
\* position check has something to refuse.
Batch == UNION {[1 .. n -> [index : 1 .. MaxIndex, term : Term, payload : Payload]]
                : n \in 1 .. MaxBatch}

----------------------------------------------------------------------------
Init == log = EmptyLog /\ history = << >>

Append_(es) ==
    /\ CanAppendTo(log, es)
    /\ log' = AppendTo(log, es)
    /\ history' = history \o es

Truncate(i) ==
    /\ CanTruncateSuffix(log, i)
    /\ log' = TruncateSuffix(log, i)
    /\ history' = SubSeq(history, 1, i - 1)

AdvanceStable(i) ==
    /\ CanAdvanceStableTo(log, i)
    /\ log' = AdvanceStableTo(log, i)
    /\ UNCHANGED history

AdvanceCommit(i) ==
    /\ CanAdvanceCommitTo(log, i)
    /\ log' = AdvanceCommitTo(log, i)
    /\ UNCHANGED history

AdvanceApplied(i) ==
    /\ CanAdvanceAppliedTo(log, i)
    /\ log' = AdvanceAppliedTo(log, i)
    /\ UNCHANGED history

Compact(i, t) ==
    /\ CanUpdateSnapshotBoundary(log, i, t)
    /\ log' = UpdateSnapshotBoundary(log, i, t)
    /\ UNCHANGED history

Next ==
    \/ \E es \in Batch : Append_(es)
    \/ \E i \in 0 .. MaxIndex + 1 : \/ Truncate(i)
                                    \/ AdvanceStable(i)
                                    \/ AdvanceCommit(i)
                                    \/ AdvanceApplied(i)
    \/ \E i \in 0 .. MaxIndex, t \in Term : Compact(i, t)

Spec == Init /\ [][Next]_vars

----------------------------------------------------------------------------
\* Every field has its type; in particular no stored entry has term 0
\* (ValidateEntries, raft_log.cpp).
TypeOK == log \in LogRecord /\ history \in Seq(StoredEntry)

\* The class's own ValidateInvariants never fails: no sequence of accepted
\* calls makes a method return InternalError after it has changed the log
\* (spec.md FR-015: appliedIndex <= commitIndex <= lastIndex at all times).
LogInvariant == ValidateInvariants(log)

\* Compaction loses nothing a later consistency check needs: above the boundary
\* the log holds exactly the entries it would hold uncompacted, and the
\* boundary keeps the term of the entry it replaced, so Matches answers as if
\* UpdateSnapshotBoundary had never been called.
CompactionFaithful ==
    /\ LastIndex(log) = Len(history)
    /\ \A i \in FirstIndex(log) .. LastIndex(log) : EntryAt(log, i) = history[i]
    /\ log.snapshotIndex > 0 =>
           log.snapshotTerm = history[log.snapshotIndex].term

\* The committed part of the log is an append-only sequence consumed in order:
\* no truncation, compaction or conflicting append ever takes back or changes
\* a committed entry.
Committed == INSTANCE CommittedLog
                 WITH committed <- SubSeq(history, 1, log.commit),
                      consumed  <- log.applied

RefinesCommittedLog == Committed!Spec
=============================================================================
