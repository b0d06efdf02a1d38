--------------------------- MODULE RaftLogProofs ---------------------------
(***************************************************************************)
(* Proofs about RaftLogApi, for every Term, Payload, MaxIndex and          *)
(* MaxBatch: by induction on its steps, with the inductive invariant       *)
(* LogInductive and the lemmas on the methods of RaftLogLemmas.            *)
(***************************************************************************)
EXTENDS RaftLogApi, RaftLogLemmas

----------------------------------------------------------------------------
(***************************************************************************)
(* The inductive invariant.  LogInvariant needs the types, and             *)
(* CompactionFaithful needs LogInvariant: only because entries are         *)
(* contiguous is the entry at offset i - snapshot_index the one of index i.*)
(***************************************************************************)
LogInductive == TypeOK /\ LogInvariant /\ CompactionFaithful

LEMMA LogInductiveInit == Init => LogInductive
<1> SUFFICES ASSUME Init PROVE LogInductive
  OBVIOUS
<1>1. << >> \in Seq(StoredEntry) /\ Len(<< >>) = 0
  BY EmptySeq
<1>2. TypeOK
  BY <1>1 DEF Init, TypeOK, EmptyLog, LogRecord
<1>3. LastIndex(log) = 0
  BY DEF Init, EmptyLog, LastIndex
<1>4. LogInvariant
  BY <1>3, <1>1 DEF Init, EmptyLog, LogInvariant, ValidateInvariants,
                    BoundariesOrdered, EntriesContiguous
<1>5. CompactionFaithful
  BY <1>1, <1>3 DEF Init, EmptyLog, CompactionFaithful, FirstIndex
<1>6. QED BY <1>2, <1>4, <1>5 DEF LogInductive

\* The batches of RaftLogApi are sequences of entries.
LEMMA BatchIsSeq == ASSUME NEW es \in Batch PROVE es \in Seq(Entry)
<1>1. PICK n \in 1 .. MaxBatch :
         es \in [1 .. n -> [index : 1 .. MaxIndex, term : Term, payload : Payload]]
  BY DEF Batch
<1>2. n \in Nat /\ es \in [1 .. n -> Entry]
  BY <1>1, BoundsAssumption DEF Entry
<1>3. QED BY <1>2, SeqDef

LEMMA AppendStep ==
  ASSUME LogInductive, NEW es \in Batch, Append_(es)
  PROVE  /\ LogInductive'
         /\ SubSeq(history, 1, log.commit)' = SubSeq(history, 1, log.commit)
<1>1. WellFormed(log) /\ history \in Seq(StoredEntry) /\ CompactionFaithful
  BY DEF LogInductive, TypeOK, LogInvariant, WellFormed
<1>2. es \in Seq(Entry)
  BY BatchIsSeq
<1>3. /\ CanAppendTo(log, es) /\ log' = AppendTo(log, es)
      /\ history' = history \o es
  BY DEF Append_
<1>4. /\ WellFormed(log') /\ es \in Seq(StoredEntry)
      /\ LastIndex(log') = LastIndex(log) + Len(es)
  BY <1>1, <1>2, <1>3, AppendKeeps
<1>5. /\ history' \in Seq(StoredEntry)
      /\ Len(history') = Len(history) + Len(es)
      /\ \A k \in 1 .. Len(history) + Len(es) :
            history'[k] = IF k <= Len(history) THEN history[k]
                                               ELSE es[k - Len(history)]
  BY <1>1, <1>3, <1>4, ConcatProperties
<1>6. /\ log.entries \in Seq(StoredEntry) /\ Len(log.entries) \in Nat
      /\ log.snapshotIndex \in Nat /\ log.commit \in Nat
      /\ Len(history) \in Nat /\ Len(es) \in Nat
      /\ LastIndex(log) = log.snapshotIndex + Len(log.entries)
      /\ LastIndex(log) = Len(history)
      /\ log.commit <= LastIndex(log)
  <2>1. LastIndex(log) = log.snapshotIndex + Len(log.entries)
    BY <1>1, LastIndexIsLength DEF WellFormed, ValidateInvariants
  <2>2. QED BY <1>1, <1>4, <2>1, LenProperties
               DEF WellFormed, ValidateInvariants, BoundariesOrdered, LogRecord,
                   CompactionFaithful
<1>7. /\ log'.entries = log.entries \o es
      /\ log'.snapshotIndex = log.snapshotIndex
      /\ log'.snapshotTerm = log.snapshotTerm
      /\ log'.commit = log.commit
  BY <1>1, <1>3 DEF AppendTo, WellFormed, LogRecord
<1>8. \A k \in 1 .. Len(log.entries) + Len(es) :
         log'.entries[k] = IF k <= Len(log.entries) THEN log.entries[k]
                                                    ELSE es[k - Len(log.entries)]
  BY <1>4, <1>6, <1>7, ConcatProperties
<1>9. CompactionFaithful'
  <2>1. LastIndex(log') = Len(history')
    BY <1>4, <1>5, <1>6
  <2>2. ASSUME NEW i \in FirstIndex(log') .. LastIndex(log')
        PROVE  EntryAt(log', i) = history'[i]
    <3> DEFINE k == i - log.snapshotIndex
    <3>1. /\ i \in 1 .. Len(history) + Len(es)
          /\ k \in 1 .. Len(log.entries) + Len(es)
          /\ k <= Len(log.entries) <=> i <= Len(history)
          /\ k - Len(log.entries) = i - Len(history)
      <4>1. i \in Int /\ log.snapshotIndex + 1 <= i /\ i <= Len(history) + Len(es)
        BY <1>4, <1>6, <1>7 DEF FirstIndex
      <4>2. /\ log.snapshotIndex \in Nat /\ Len(log.entries) \in Nat /\ Len(es) \in Nat
            /\ Len(history) = log.snapshotIndex + Len(log.entries)
        BY <1>6
      <4>3. QED BY <4>1, <4>2, SMTT(30)
    <3>2. EntryAt(log', i) = log'.entries[k]
      BY <1>7 DEF EntryAt
    <3>3. CASE i <= Len(history)
      <4>1. i \in FirstIndex(log) .. LastIndex(log)
        BY <1>6, <3>1, <3>3 DEF FirstIndex
      <4>2. log.entries[k] = history[i]
        BY <1>1, <4>1 DEF CompactionFaithful, EntryAt
      <4>3. QED BY <1>5, <1>8, <3>1, <3>2, <3>3, <4>2
    <3>4. CASE ~(i <= Len(history))
      BY <1>5, <1>8, <3>1, <3>2, <3>4
    <3>5. QED BY <3>3, <3>4
  <2>3. log'.snapshotIndex > 0 =>
            log'.snapshotTerm = history'[log'.snapshotIndex].term
    BY <1>1, <1>5, <1>6, <1>7 DEF CompactionFaithful
  <2>4. QED BY <2>1, <2>2, <2>3 DEF CompactionFaithful
<1>10. SubSeq(history, 1, log.commit)' = SubSeq(history, 1, log.commit)
  <2>1. CASE log.commit = 0
    BY <1>7, <2>1, SubSeqEmpty
  <2>2. CASE log.commit # 0
    <3>1. 1 \in 1 .. Len(history) /\ log.commit \in 1 .. Len(history)
      BY <1>6, <2>2
    <3>2. QED BY <1>1, <1>3, <1>4, <1>7, <3>1, SubSeqOfConcat1
  <2>3. QED BY <2>1, <2>2
<1>11. QED
  BY <1>4, <1>5, <1>9, <1>10 DEF LogInductive, TypeOK, LogInvariant, WellFormed

LEMMA TruncateStep ==
  ASSUME LogInductive, NEW i \in Nat, Truncate(i)
  PROVE  /\ LogInductive'
         /\ SubSeq(history, 1, log.commit)' = SubSeq(history, 1, log.commit)
<1>1. /\ WellFormed(log) /\ history \in Seq(StoredEntry) /\ CompactionFaithful
      /\ EntriesContiguous(log)
  BY DEF LogInductive, TypeOK, LogInvariant, WellFormed, ValidateInvariants
<1>2. /\ CanTruncateSuffix(log, i) /\ log' = TruncateSuffix(log, i)
      /\ history' = SubSeq(history, 1, i - 1)
  BY DEF Truncate
<1>3. WellFormed(log') /\ LastIndex(log') = i - 1
  BY <1>1, <1>2, TruncateKeeps
<1>4. /\ log.entries \in Seq(StoredEntry) /\ Len(log.entries) \in Nat
      /\ log.snapshotIndex \in Nat /\ log.commit \in Nat
      /\ Len(history) \in Nat
      /\ LastIndex(log) = log.snapshotIndex + Len(log.entries)
      /\ LastIndex(log) = Len(history)
  <2>1. LastIndex(log) = log.snapshotIndex + Len(log.entries)
    BY <1>1, LastIndexIsLength DEF WellFormed
  <2>2. QED BY <1>1, <2>1, LenProperties
               DEF WellFormed, LogRecord, CompactionFaithful
<1>5. /\ i - 1 \in 0 .. Len(history) /\ log.snapshotIndex <= i - 1
      /\ log.commit <= i - 1
  BY <1>2, <1>4 DEF CanTruncateSuffix
<1>6. /\ history' \in Seq(StoredEntry)
      /\ Len(history') = i - 1
      /\ \A k \in 1 .. i - 1 : history'[k] = history[k]
  <2>1. \A k \in 1 .. i - 1 : history[k] \in StoredEntry
    BY <1>1, <1>5, ElementOfSeq
  <2>2. QED BY <1>2, <1>5, <2>1, SubSeqProperties
<1>7. /\ log'.entries = SubSeq(log.entries, 1, i - log.snapshotIndex - 1)
      /\ log'.snapshotIndex = log.snapshotIndex
      /\ log'.snapshotTerm = log.snapshotTerm
      /\ log'.commit = log.commit
  BY <1>1, <1>2 DEF TruncateSuffix, WellFormed, LogRecord
<1>8. \A k \in 1 .. i - log.snapshotIndex - 1 : log'.entries[k] = log.entries[k]
  <2> DEFINE n == i - log.snapshotIndex - 1
  <2>1. n \in 0 .. Len(log.entries)
    BY <1>4, <1>5
  <2>2. \A k \in 1 .. n : log.entries[k] \in StoredEntry
    BY <1>4, <2>1, ElementOfSeq
  <2>3. QED BY <1>7, <2>1, <2>2, SubSeqProperties
<1>9. CompactionFaithful'
  <2>1. LastIndex(log') = Len(history')
    BY <1>3, <1>6
  <2>2. ASSUME NEW j \in FirstIndex(log') .. LastIndex(log')
        PROVE  EntryAt(log', j) = history'[j]
    <3>1. j \in Int /\ log.snapshotIndex + 1 <= j /\ j <= i - 1
      BY <1>3, <1>4, <1>5, <1>7 DEF FirstIndex
    <3>2. /\ j \in 1 .. i - 1
          /\ j - log.snapshotIndex \in 1 .. i - log.snapshotIndex - 1
          /\ j \in FirstIndex(log) .. LastIndex(log)
      BY <1>4, <1>5, <3>1 DEF FirstIndex
    <3>3. EntryAt(log, j) = history[j]
      BY <1>1, <3>2 DEF CompactionFaithful
    <3>4. QED BY <1>6, <1>7, <1>8, <3>2, <3>3 DEF EntryAt
  <2>3. log'.snapshotIndex > 0 =>
            log'.snapshotTerm = history'[log'.snapshotIndex].term
    <3>1. log.snapshotIndex > 0 => log.snapshotIndex \in 1 .. i - 1
      BY <1>4, <1>5
    <3>2. QED BY <1>1, <1>6, <1>7, <3>1 DEF CompactionFaithful
  <2>4. QED BY <2>1, <2>2, <2>3 DEF CompactionFaithful
<1>10. SubSeq(history, 1, log.commit)' = SubSeq(history, 1, log.commit)
  <2>1. CASE log.commit = 0
    BY <1>7, <2>1, SubSeqEmpty
  <2>2. CASE log.commit # 0
    <3>1. /\ 1 \in 1 .. Len(history) /\ i - 1 \in 1 .. Len(history)
          /\ 1 \in 1 .. (i - 1) - 1 + 1 /\ log.commit \in 1 .. (i - 1) - 1 + 1
          /\ 1 + 1 - 1 = 1 /\ 1 + log.commit - 1 = log.commit
      BY <1>4, <1>5, <2>2
    <3>2. SubSeq(SubSeq(history, 1, i - 1), 1, log.commit)
             = SubSeq(history, 1 + 1 - 1, 1 + log.commit - 1)
      BY <1>1, <3>1, SubSeqOfSubSeq
    <3>3. QED BY <1>2, <1>7, <3>1, <3>2
  <2>3. QED BY <2>1, <2>2
<1>11. QED
  BY <1>3, <1>6, <1>9, <1>10 DEF LogInductive, TypeOK, LogInvariant, WellFormed

\* The three cursors leave the entries and the boundary alone.
LEMMA AdvanceStep ==
  ASSUME LogInductive, NEW i \in Nat,
         AdvanceStable(i) \/ AdvanceCommit(i) \/ AdvanceApplied(i)
  PROVE  LogInductive'
<1>1. WellFormed(log) /\ history \in Seq(StoredEntry) /\ CompactionFaithful
  BY DEF LogInductive, TypeOK, LogInvariant, WellFormed
<1>2. WellFormed(log') /\ history' = history
  BY <1>1, AdvanceKeeps DEF AdvanceStable, AdvanceCommit, AdvanceApplied
<1>3. /\ log'.entries = log.entries
      /\ log'.snapshotIndex = log.snapshotIndex
      /\ log'.snapshotTerm = log.snapshotTerm
  BY <1>1 DEF AdvanceStable, AdvanceCommit, AdvanceApplied, AdvanceStableTo,
              AdvanceCommitTo, AdvanceAppliedTo, WellFormed, LogRecord
<1>4. CompactionFaithful'
  BY <1>1, <1>2, <1>3 DEF CompactionFaithful, LastIndex, FirstIndex, EntryAt
<1>5. QED BY <1>1, <1>2, <1>4 DEF LogInductive, TypeOK, LogInvariant, WellFormed

LEMMA CompactStep ==
  ASSUME LogInductive, NEW i \in Nat, NEW t \in Nat, Compact(i, t)
  PROVE  /\ LogInductive'
         /\ log'.commit = log.commit /\ log'.applied = log.applied
<1>1. /\ WellFormed(log) /\ history \in Seq(StoredEntry) /\ CompactionFaithful
      /\ BoundariesOrdered(log) /\ EntriesContiguous(log)
  BY DEF LogInductive, TypeOK, LogInvariant, WellFormed, ValidateInvariants
<1>2. /\ CanUpdateSnapshotBoundary(log, i, t)
      /\ log' = UpdateSnapshotBoundary(log, i, t) /\ history' = history
  BY DEF Compact
<1>3. WellFormed(log') /\ LastIndex(log') = LastIndex(log)
  BY <1>1, <1>2, CompactKeeps
<1>4. /\ log.entries \in Seq(StoredEntry) /\ Len(log.entries) \in Nat
      /\ log.snapshotIndex \in Nat /\ log.commit \in Nat /\ log.applied \in Nat
      /\ LastIndex(log) = log.snapshotIndex + Len(log.entries)
  <2>1. LastIndex(log) = log.snapshotIndex + Len(log.entries)
    BY <1>1, LastIndexIsLength DEF WellFormed
  <2>2. QED BY <1>1, <2>1, LenProperties DEF WellFormed, LogRecord
<1>5. /\ log'.entries = SubSeq(log.entries, i - log.snapshotIndex + 1, Len(log.entries))
      /\ log'.snapshotIndex = i /\ log'.snapshotTerm = t
      /\ log'.commit = log.commit /\ log'.applied = log.applied
  <2>1. /\ log'.entries = SubSeq(log.entries, i - log.snapshotIndex + 1, Len(log.entries))
        /\ log'.snapshotIndex = i /\ log'.snapshotTerm = t
        /\ log'.commit = GreaterOf(log.commit, i)
        /\ log'.applied = GreaterOf(log.applied, i)
    BY <1>1, <1>2 DEF UpdateSnapshotBoundary, WellFormed, LogRecord
  <2>2. i <= log.applied /\ i <= log.commit
    BY <1>1, <1>2, <1>4 DEF CanUpdateSnapshotBoundary, BoundariesOrdered
  <2>3. QED BY <1>4, <2>1, <2>2 DEF GreaterOf
<1>6. log.snapshotIndex <= i /\ i <= LastIndex(log)
  BY <1>2 DEF CanUpdateSnapshotBoundary
<1>7. \A k \in 1 .. LastIndex(log) - i :
         log'.entries[k] = log.entries[i - log.snapshotIndex + k]
  <2> DEFINE b == i - log.snapshotIndex + 1
             n == Len(log.entries)
  <2>1. b \in Int /\ n \in Int /\ b \in 1 .. n + 1 /\ n - b + 1 = LastIndex(log) - i
    BY <1>4, <1>6
  <2>2. \A k \in b .. n : log.entries[k] \in StoredEntry
    BY <1>4, <2>1, ElementOfSeq
  <2>3. \A k \in 1 .. n - b + 1 : SubSeq(log.entries, b, n)[k] = log.entries[b + k - 1]
    <3> HIDE DEF b, n
    <3> QED BY <2>1, <2>2, SubSeqProperties
  <2>4. \A k \in 1 .. LastIndex(log) - i : b + k - 1 = i - log.snapshotIndex + k
    BY <1>4
  <2>5. QED BY <1>5, <2>1, <2>3, <2>4
<1>8. CompactionFaithful'
  <2>1. LastIndex(log') = Len(history')
    BY <1>1, <1>2, <1>3 DEF CompactionFaithful
  <2>2. ASSUME NEW j \in FirstIndex(log') .. LastIndex(log')
        PROVE  EntryAt(log', j) = history'[j]
    <3>1. j \in Int /\ i + 1 <= j /\ j <= LastIndex(log)
      BY <1>3, <1>4, <1>5 DEF FirstIndex
    <3>2. /\ j \in FirstIndex(log) .. LastIndex(log)
          /\ j - i \in 1 .. LastIndex(log) - i
          /\ i - log.snapshotIndex + (j - i) = j - log.snapshotIndex
      BY <1>4, <1>6, <3>1 DEF FirstIndex
    <3>3. EntryAt(log, j) = history[j]
      BY <1>1, <3>2 DEF CompactionFaithful
    <3>4. log'.entries[j - i] = log.entries[j - log.snapshotIndex]
      BY <1>7, <3>2
    <3>5. QED BY <1>2, <1>5, <3>3, <3>4 DEF EntryAt
  <2>3. i > 0 => t = history[i].term
    <3>1. CASE i = log.snapshotIndex
      BY <1>1, <1>2, <3>1 DEF CanUpdateSnapshotBoundary, Matches, TermAt,
                              CompactionFaithful
    <3>2. CASE i # log.snapshotIndex
      <4>1. i \in FirstIndex(log) .. LastIndex(log)
        BY <1>4, <1>6, <3>2 DEF FirstIndex
      <4>2. EntryAt(log, i) = history[i]
        BY <1>1, <4>1 DEF CompactionFaithful
      <4>3. QED BY <1>2, <3>2, <4>2 DEF CanUpdateSnapshotBoundary, Matches, TermAt
    <3>3. QED BY <3>1, <3>2
  <2>4. QED BY <1>2, <1>5, <2>1, <2>2, <2>3 DEF CompactionFaithful
<1>9. QED BY <1>1, <1>2, <1>3, <1>5, <1>8
          DEF LogInductive, TypeOK, LogInvariant, WellFormed

LEMMA LogInductiveStep == LogInductive /\ [Next]_vars => LogInductive'
<1> SUFFICES ASSUME LogInductive, [Next]_vars PROVE LogInductive'
  OBVIOUS
<1>1. ASSUME NEW es \in Batch, Append_(es) PROVE LogInductive'
  BY <1>1, AppendStep
<1>2. ASSUME NEW i \in 0 .. MaxIndex + 1,
             Truncate(i) \/ AdvanceStable(i) \/ AdvanceCommit(i) \/ AdvanceApplied(i)
      PROVE  LogInductive'
  <2>1. i \in Nat
    BY BoundsAssumption
  <2>2. QED BY <1>2, <2>1, TruncateStep, AdvanceStep
<1>3. ASSUME NEW i \in 0 .. MaxIndex, NEW t \in Term, Compact(i, t)
      PROVE  LogInductive'
  <2>1. i \in Nat /\ t \in Nat
    BY BoundsAssumption, TermAssumption
  <2>2. QED BY <1>3, <2>1, CompactStep
<1>4. CASE UNCHANGED vars
  BY <1>4 DEF vars, LogInductive, TypeOK, LogInvariant, CompactionFaithful
<1>5. QED BY <1>1, <1>2, <1>3, <1>4 DEF Next

LEMMA LogInductiveAlways == Spec => []LogInductive
  BY LogInductiveInit, LogInductiveStep, PTL DEF Spec

\* TypeOK holds for every set of terms and payloads and every bound.
THEOREM LogTypeCorrect == Spec => []TypeOK
<1>1. LogInductive => TypeOK
  BY DEF LogInductive
<1>2. QED BY <1>1, LogInductiveAlways, PTL

\* ValidateInvariants never reports InternalError, whatever is called.
THEOREM LogInvariantHolds == Spec => []LogInvariant
<1>1. LogInductive => LogInvariant
  BY DEF LogInductive
<1>2. QED BY <1>1, LogInductiveAlways, PTL

\* A compacted log answers for the entries it kept as the full log would.
THEOREM CompactionIsFaithful == Spec => []CompactionFaithful
<1>1. LogInductive => CompactionFaithful
  BY DEF LogInductive
<1>2. QED BY <1>1, LogInductiveAlways, PTL

\* The first commit positions of the log form an append-only sequence consumed
\* in order: RaftLogApi implements CommittedLog.
THEOREM LogRefinesCommittedLog == Spec => RefinesCommittedLog
<1>1. Init => Committed!Init
  BY SubSeqEmpty DEF Init, Committed!Init, EmptyLog
<1>2. LogInductive /\ [Next]_vars => [Committed!Next]_(Committed!vars)
  <2> SUFFICES ASSUME LogInductive, [Next]_vars
               PROVE  [Committed!Next]_(Committed!vars)
    OBVIOUS
  <2> DEFINE committed == SubSeq(history, 1, log.commit)
  <2>1. /\ history \in Seq(StoredEntry) /\ log.commit \in Nat /\ log.applied \in Nat
        /\ log.commit <= Len(history) /\ Len(history) \in Nat
        /\ log.applied <= log.commit
    BY LenProperties DEF LogInductive, TypeOK, LogInvariant, ValidateInvariants,
          BoundariesOrdered, LogRecord, CompactionFaithful
  <2>2. ASSUME committed' = committed, log'.applied = log.applied
        PROVE  [Committed!Next]_(Committed!vars)
    BY <2>2 DEF Committed!vars
  <2>3. ASSUME NEW es \in Batch, Append_(es)
        PROVE  [Committed!Next]_(Committed!vars)
    <3>1. log'.applied = log.applied
      BY <2>3 DEF Append_, AppendTo, LogInductive, TypeOK, LogRecord
    <3>2. QED BY <2>2, <2>3, <3>1, AppendStep
  <2>4. ASSUME NEW i \in 0 .. MaxIndex + 1, Truncate(i)
        PROVE  [Committed!Next]_(Committed!vars)
    <3>1. log'.applied = log.applied
      BY <2>4 DEF Truncate, TruncateSuffix, LogInductive, TypeOK, LogRecord
    <3>2. i \in Nat
      BY BoundsAssumption
    <3>3. QED BY <2>2, <2>4, <3>1, <3>2, TruncateStep
  <2>5. ASSUME NEW i \in 0 .. MaxIndex + 1, AdvanceStable(i)
        PROVE  [Committed!Next]_(Committed!vars)
    <3>1. log'.applied = log.applied /\ log'.commit = log.commit /\ history' = history
      BY <2>5 DEF AdvanceStable, AdvanceStableTo, LogInductive, TypeOK, LogRecord
    <3>2. QED BY <2>2, <3>1
  <2>6. ASSUME NEW i \in 0 .. MaxIndex + 1, AdvanceCommit(i)
        PROVE  [Committed!Next]_(Committed!vars)
    <3>1. /\ log'.applied = log.applied /\ log'.commit = i /\ history' = history
          /\ log.commit <= i /\ i <= Len(history) /\ i \in Nat
      BY <2>6, BoundsAssumption
         DEF AdvanceCommit, AdvanceCommitTo, CanAdvanceCommitTo, LogInductive,
             TypeOK, LogRecord, CompactionFaithful
    <3>2. CASE i = log.commit
      BY <2>2, <3>1, <3>2
    <3>3. CASE i # log.commit
      <4>1. ASSUME NEW n \in 0 .. Len(history)
            PROVE  Len(SubSeq(history, 1, n)) = n
        <5>1. \A k \in 1 .. n : history[k] \in StoredEntry
          BY <2>1, ElementOfSeq
        <5>2. Len(SubSeq(history, 1, n)) = IF 1 <= n THEN n - 1 + 1 ELSE 0
          BY <2>1, <5>1, SubSeqProperties
        <5>3. QED BY <2>1, <5>2
      <4>2. Len(committed) = log.commit /\ Len(committed') = i
        BY <2>1, <3>1, <4>1
      <4>3. SubSeq(committed', 1, Len(committed)) = committed
        <5>1. CASE log.commit = 0
          BY <4>2, <5>1, SubSeqEmpty
        <5>2. CASE log.commit # 0
          <6>1. /\ 1 \in 1 .. Len(history) /\ i \in 1 .. Len(history)
                /\ 1 \in 1 .. i - 1 + 1 /\ log.commit \in 1 .. i - 1 + 1
                /\ 1 + 1 - 1 = 1 /\ 1 + log.commit - 1 = log.commit
            BY <2>1, <3>1, <3>3, <5>2
          <6>2. SubSeq(SubSeq(history, 1, i), 1, log.commit)
                   = SubSeq(history, 1 + 1 - 1, 1 + log.commit - 1)
            BY <2>1, <6>1, SubSeqOfSubSeq
          <6>3. QED BY <3>1, <4>2, <6>1, <6>2
        <5>3. QED BY <5>1, <5>2
      <4>4. Committed!Commit
        BY <2>1, <3>1, <3>3, <4>2, <4>3 DEF Committed!Commit
      <4>5. QED BY <4>4 DEF Committed!Next
    <3>4. QED BY <3>2, <3>3
  <2>7. ASSUME NEW i \in 0 .. MaxIndex + 1, AdvanceApplied(i)
        PROVE  [Committed!Next]_(Committed!vars)
    <3>1. /\ log'.applied = i /\ log'.commit = log.commit /\ history' = history
          /\ log.applied <= i /\ i <= log.commit /\ i \in Nat
      BY <2>7, BoundsAssumption
         DEF AdvanceApplied, AdvanceAppliedTo, CanAdvanceAppliedTo, LogInductive,
             TypeOK, LogRecord
    <3>2. CASE i = log.applied
      BY <2>2, <3>1, <3>2
    <3>3. CASE i # log.applied
      <4>1. Len(committed) = log.commit
        <5>1. \A k \in 1 .. log.commit : history[k] \in StoredEntry
          BY <2>1, ElementOfSeq
        <5>2. Len(committed) = IF 1 <= log.commit THEN log.commit - 1 + 1 ELSE 0
          BY <2>1, <5>1, SubSeqProperties
        <5>3. QED BY <2>1, <5>2
      <4>2. Committed!Consume
        BY <2>1, <3>1, <3>3, <4>1 DEF Committed!Consume
      <4>3. QED BY <4>2 DEF Committed!Next
    <3>4. QED BY <3>2, <3>3
  <2>8. ASSUME NEW i \in 0 .. MaxIndex, NEW t \in Term, Compact(i, t)
        PROVE  [Committed!Next]_(Committed!vars)
    <3>1. i \in Nat /\ t \in Nat
      BY BoundsAssumption, TermAssumption
    <3>2. /\ log'.commit = log.commit /\ log'.applied = log.applied
          /\ history' = history
      BY <2>8, <3>1, CompactStep DEF Compact
    <3>3. QED BY <2>2, <3>2
  <2>9. CASE UNCHANGED vars
    BY <2>2, <2>9 DEF vars
  <2>10. QED
    BY <2>3, <2>4, <2>5, <2>6, <2>7, <2>8, <2>9 DEF Next
<1>3. QED
  BY <1>1, <1>2, LogInductiveAlways, PTL DEF Spec, RefinesCommittedLog, Committed!Spec
=============================================================================
