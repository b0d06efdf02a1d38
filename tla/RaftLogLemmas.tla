--------------------------- MODULE RaftLogLemmas ---------------------------
(***************************************************************************)
(* What the methods of the log do, for every Term and Payload.  First one  *)
(* lemma for each method: called on a well-formed log, it leaves a         *)
(* well-formed log.  Then, for a log that has no snapshot boundary, what   *)
(* reading, comparing and merging come down to.                            *)
(***************************************************************************)
EXTENDS RaftLog, SequenceTheorems, WellFoundedInduction, TLAPS

\* A log the methods can be called on.
WellFormed(l) == l \in LogRecord /\ ValidateInvariants(l)

\* The code reads the last index from the last entry; in a well-formed log
\* that is the boundary plus the number of entries held.
LEMMA LastIndexIsLength ==
  ASSUME NEW l \in LogRecord, EntriesContiguous(l)
  PROVE  /\ LastIndex(l) = l.snapshotIndex + Len(l.entries)
         /\ LastIndex(l) \in Nat
<1>1. l.entries \in Seq(StoredEntry) /\ l.snapshotIndex \in Nat
  BY DEF LogRecord
<1>2. CASE l.entries = << >>
  BY <1>1, <1>2 DEF LastIndex
<1>3. CASE l.entries # << >>
  <2>1. Len(l.entries) \in DOMAIN l.entries
    BY <1>1, <1>3, EmptySeq, LenProperties
  <2>2. LastIndex(l) = l.snapshotIndex + Len(l.entries)
    BY <1>3, <2>1 DEF LastIndex, EntriesContiguous
  <2>3. QED BY <1>1, <2>2, LenProperties
<1>4. QED BY <1>2, <1>3

\* Append: a batch that passes ValidateEntries extends the log by its length.
LEMMA AppendKeeps ==
  ASSUME NEW l, WellFormed(l),
         NEW es \in Seq(Entry), CanAppendTo(l, es)
  PROVE  /\ WellFormed(AppendTo(l, es))
         /\ es \in Seq(StoredEntry)
         /\ LastIndex(AppendTo(l, es)) = LastIndex(l) + Len(es)
<1> DEFINE m == AppendTo(l, es)
<1>1. l \in LogRecord /\ BoundariesOrdered(l) /\ EntriesContiguous(l)
  BY DEF WellFormed, ValidateInvariants
<1>2. /\ l.entries \in Seq(StoredEntry) /\ Len(l.entries) \in Nat
      /\ l.snapshotIndex \in Nat /\ l.stable \in Nat
      /\ l.commit \in Nat /\ l.applied \in Nat
  BY <1>1, LenProperties DEF LogRecord
<1>3. LastIndex(l) = l.snapshotIndex + Len(l.entries)
  BY <1>1, LastIndexIsLength
<1>4. Len(es) \in Nat /\ DOMAIN es = 1 .. Len(es) /\ es \in [1 .. Len(es) -> Entry]
  BY LenProperties
<1>5. es \in Seq(StoredEntry)
  <2>1. ASSUME NEW k \in 1 .. Len(es) PROVE es[k] \in StoredEntry
    BY <2>1, <1>1, <1>2, <1>4 DEF CanAppendTo, ValidEntries, Entry, StoredEntry
  <2>2. es \in [1 .. Len(es) -> StoredEntry]
    BY <1>4, <2>1
  <2>3. QED BY <2>2, <1>4, SeqDef
<1>6. /\ m.entries = l.entries \o es
      /\ m.snapshotIndex = l.snapshotIndex /\ m.snapshotTerm = l.snapshotTerm
      /\ m.stable = l.stable /\ m.commit = l.commit /\ m.applied = l.applied
  BY <1>1 DEF AppendTo, LogRecord
<1>7. /\ m.entries \in Seq(StoredEntry)
      /\ Len(m.entries) = Len(l.entries) + Len(es)
      /\ \A k \in 1 .. Len(l.entries) + Len(es) :
            m.entries[k] = IF k <= Len(l.entries) THEN l.entries[k]
                                                  ELSE es[k - Len(l.entries)]
  BY <1>2, <1>5, <1>6, ConcatProperties
<1>8. m \in LogRecord
  BY <1>1, <1>2, <1>7 DEF AppendTo, LogRecord
<1>9. EntriesContiguous(m)
  <2> SUFFICES ASSUME NEW k \in DOMAIN m.entries
               PROVE  /\ m.entries[k].index = m.snapshotIndex + k
                      /\ m.entries[k].term # 0
    BY DEF EntriesContiguous
  <2>1. k \in 1 .. Len(l.entries) + Len(es)
    BY <1>7, LenProperties
  <2>2. CASE k <= Len(l.entries)
    <3>1. k \in DOMAIN l.entries
      BY <2>1, <2>2, <1>2, LenProperties
    <3>2. m.entries[k] = l.entries[k]
      BY <2>1, <2>2, <1>7
    <3>3. QED BY <3>1, <3>2, <1>1, <1>6 DEF EntriesContiguous
  <2>3. CASE ~(k <= Len(l.entries))
    <3> DEFINE j == k - Len(l.entries)
    <3>1. j \in DOMAIN es
      BY <2>1, <2>3, <1>2, <1>4
    <3>2. m.entries[k] = es[j]
      BY <2>1, <2>3, <1>7
    <3>3. es[j].index = LastIndex(l) + 1 + j - 1 /\ es[j].term # 0
      BY <3>1 DEF CanAppendTo, ValidEntries
    <3>4. LastIndex(l) + 1 + j - 1 = l.snapshotIndex + k
      BY <1>2, <1>3, <2>1, <1>4
    <3>5. QED BY <3>2, <3>3, <3>4, <1>6
  <2>4. QED BY <2>2, <2>3
<1>10. LastIndex(m) = LastIndex(l) + Len(es)
  <2>1. LastIndex(m) = m.snapshotIndex + Len(m.entries)
    BY <1>8, <1>9, LastIndexIsLength
  <2>2. QED BY <2>1, <1>2, <1>3, <1>4, <1>6, <1>7
<1>11. BoundariesOrdered(m)
  BY <1>1, <1>2, <1>3, <1>4, <1>6, <1>10 DEF BoundariesOrdered
<1>12. QED BY <1>5, <1>8, <1>9, <1>10, <1>11 DEF WellFormed, ValidateInvariants

\* TruncateSuffix: what is cut lies above the commit index, and the stable
\* index is pulled back with it.
LEMMA TruncateKeeps ==
  ASSUME NEW l, WellFormed(l), NEW i \in Nat, CanTruncateSuffix(l, i)
  PROVE  /\ WellFormed(TruncateSuffix(l, i))
         /\ LastIndex(TruncateSuffix(l, i)) = i - 1
<1> DEFINE m == TruncateSuffix(l, i)
           n == i - l.snapshotIndex - 1
<1>1. l \in LogRecord /\ BoundariesOrdered(l) /\ EntriesContiguous(l)
  BY DEF WellFormed, ValidateInvariants
<1>2. /\ l.entries \in Seq(StoredEntry) /\ Len(l.entries) \in Nat
      /\ l.snapshotIndex \in Nat /\ l.stable \in Nat
      /\ l.commit \in Nat /\ l.applied \in Nat
  BY <1>1, LenProperties DEF LogRecord
<1>3. LastIndex(l) = l.snapshotIndex + Len(l.entries)
  BY <1>1, LastIndexIsLength
<1>4. n \in 0 .. Len(l.entries)
  BY <1>2, <1>3 DEF CanTruncateSuffix
<1>5. /\ m.entries = SubSeq(l.entries, 1, n)
      /\ m.snapshotIndex = l.snapshotIndex /\ m.snapshotTerm = l.snapshotTerm
      /\ m.stable = LesserOf(l.stable, i - 1)
      /\ m.commit = l.commit /\ m.applied = l.applied
  BY <1>1 DEF TruncateSuffix, LogRecord
<1>6. \A k \in 1 .. n : l.entries[k] \in StoredEntry
  BY <1>2, <1>4, ElementOfSeq
<1>7. /\ m.entries \in Seq(StoredEntry)
      /\ Len(m.entries) = n
      /\ \A k \in 1 .. n : m.entries[k] = l.entries[k]
  BY <1>4, <1>5, <1>6, SubSeqProperties
<1>8. m.stable \in Nat /\ m.stable <= i - 1 /\ m.stable <= l.stable
      /\ (m.stable = l.stable \/ m.stable = i - 1)
  BY <1>2, <1>5 DEF LesserOf, CanTruncateSuffix
<1>9. m \in LogRecord
  BY <1>1, <1>2, <1>7, <1>8 DEF TruncateSuffix, LogRecord
<1>10. EntriesContiguous(m)
  BY <1>1, <1>2, <1>4, <1>5, <1>7, LenProperties, SMTT(30) DEF EntriesContiguous
<1>11. LastIndex(m) = i - 1
  <2>1. LastIndex(m) = m.snapshotIndex + Len(m.entries)
    BY <1>9, <1>10, LastIndexIsLength
  <2>2. m.snapshotIndex = l.snapshotIndex /\ Len(m.entries) = n
    BY <1>5, <1>7
  <2> HIDE DEF m
  <2>3. LastIndex(m) = l.snapshotIndex + n
    BY <2>1, <2>2
  <2>4. QED BY <1>2, <2>3
<1>12. BoundariesOrdered(m)
  BY <1>1, <1>2, <1>5, <1>8, <1>11 DEF BoundariesOrdered, CanTruncateSuffix
<1>13. QED BY <1>9, <1>10, <1>11, <1>12 DEF WellFormed, ValidateInvariants

\* The three cursors move only inside the bounds the methods check.
LEMMA AdvanceKeeps ==
  ASSUME NEW l, WellFormed(l), NEW i \in Nat
  PROVE  /\ CanAdvanceStableTo(l, i) => WellFormed(AdvanceStableTo(l, i))
         /\ CanAdvanceCommitTo(l, i) => WellFormed(AdvanceCommitTo(l, i))
         /\ CanAdvanceAppliedTo(l, i) => WellFormed(AdvanceAppliedTo(l, i))
<1>1. l \in LogRecord /\ BoundariesOrdered(l) /\ EntriesContiguous(l)
  BY DEF WellFormed, ValidateInvariants
<1>2. LastIndex(l) \in Nat
  BY <1>1, LastIndexIsLength
<1> USE <1>1, <1>2 DEF WellFormed, ValidateInvariants, LogRecord,
        BoundariesOrdered, EntriesContiguous, LastIndex
<1>3. CanAdvanceStableTo(l, i) => WellFormed(AdvanceStableTo(l, i))
  BY SMTT(60) DEF CanAdvanceStableTo, AdvanceStableTo
<1>4. CanAdvanceCommitTo(l, i) => WellFormed(AdvanceCommitTo(l, i))
  BY SMTT(60) DEF CanAdvanceCommitTo, AdvanceCommitTo
<1>5. CanAdvanceAppliedTo(l, i) => WellFormed(AdvanceAppliedTo(l, i))
  BY SMTT(60) DEF CanAdvanceAppliedTo, AdvanceAppliedTo
<1>6. QED BY <1>3, <1>4, <1>5

\* UpdateSnapshotBoundary drops applied entries only, and leaves the last
\* index where it was.
LEMMA CompactKeeps ==
  ASSUME NEW l, WellFormed(l), NEW i \in Nat, NEW t \in Nat,
         CanUpdateSnapshotBoundary(l, i, t)
  PROVE  /\ WellFormed(UpdateSnapshotBoundary(l, i, t))
         /\ LastIndex(UpdateSnapshotBoundary(l, i, t)) = LastIndex(l)
<1> DEFINE m == UpdateSnapshotBoundary(l, i, t)
           d == i - l.snapshotIndex
<1>1. l \in LogRecord /\ BoundariesOrdered(l) /\ EntriesContiguous(l)
  BY DEF WellFormed, ValidateInvariants
<1>2. /\ l.entries \in Seq(StoredEntry) /\ Len(l.entries) \in Nat
      /\ l.snapshotIndex \in Nat /\ l.stable \in Nat
      /\ l.commit \in Nat /\ l.applied \in Nat
  BY <1>1, LenProperties DEF LogRecord
<1>3. LastIndex(l) = l.snapshotIndex + Len(l.entries)
  BY <1>1, LastIndexIsLength
<1>4. d \in 0 .. Len(l.entries)
  BY <1>2, <1>3 DEF CanUpdateSnapshotBoundary
<1>5. /\ m.entries = SubSeq(l.entries, d + 1, Len(l.entries))
      /\ m.snapshotIndex = i /\ m.snapshotTerm = t
      /\ m.stable = GreaterOf(l.stable, i)
      /\ m.commit = GreaterOf(l.commit, i)
      /\ m.applied = GreaterOf(l.applied, i)
  BY <1>1 DEF UpdateSnapshotBoundary, LogRecord
<1>6. \A k \in d + 1 .. Len(l.entries) : l.entries[k] \in StoredEntry
  BY <1>2, <1>4, ElementOfSeq
<1>7. /\ m.entries \in Seq(StoredEntry)
      /\ Len(m.entries) = Len(l.entries) - d
      /\ \A k \in 1 .. Len(l.entries) - d : m.entries[k] = l.entries[d + k]
  <2> DEFINE s == SubSeq(l.entries, d + 1, Len(l.entries))
  <2>1. d \in Nat /\ d + 1 \in Int /\ Len(l.entries) \in Int /\ d <= Len(l.entries)
    BY <1>2, <1>4
  <2>2. /\ s \in Seq(StoredEntry)
        /\ Len(s) = IF d + 1 <= Len(l.entries)
                    THEN Len(l.entries) - (d + 1) + 1 ELSE 0
        /\ \A k \in 1 .. Len(l.entries) - (d + 1) + 1 :
              s[k] = l.entries[d + 1 + k - 1]
    <3> HIDE DEF d
    <3> QED BY <1>6, <2>1, SubSeqProperties
  <2>3. Len(s) = Len(l.entries) - d
    BY <2>1, <2>2
  <2>4. \A k \in 1 .. Len(l.entries) - d :
           k \in 1 .. Len(l.entries) - (d + 1) + 1 /\ d + 1 + k - 1 = d + k
    BY <2>1
  <2>5. \A k \in 1 .. Len(l.entries) - d : s[k] = l.entries[d + k]
    <3> HIDE DEF d, s
    <3> QED BY <2>2, <2>4
  <2>6. QED BY <1>5, <2>2, <2>3, <2>5
<1>8. /\ m.stable \in Nat /\ m.commit \in Nat /\ m.applied \in Nat
      /\ i <= m.stable /\ (m.stable = l.stable \/ m.stable = i)
      /\ m.commit = l.commit /\ m.applied = l.applied
  BY <1>1, <1>2, <1>5 DEF GreaterOf, CanUpdateSnapshotBoundary, BoundariesOrdered
<1>9. m \in LogRecord
  BY <1>1, <1>2, <1>5, <1>7, <1>8 DEF UpdateSnapshotBoundary, LogRecord
<1>10. EntriesContiguous(m)
  <2> SUFFICES ASSUME NEW k \in DOMAIN m.entries
               PROVE  /\ m.entries[k].index = m.snapshotIndex + k
                      /\ m.entries[k].term # 0
    BY DEF EntriesContiguous
  <2>1. k \in 1 .. Len(l.entries) - d
    BY <1>7, LenProperties
  <2>2. d + k \in DOMAIN l.entries
    BY <2>1, <1>2, <1>4, LenProperties
  <2>3. /\ l.entries[d + k].index = l.snapshotIndex + (d + k)
        /\ l.entries[d + k].term # 0
    BY <1>1, <2>2 DEF EntriesContiguous
  <2>4. l.snapshotIndex + (d + k) = i + k
    BY <1>2, <1>4, <2>1
  <2>5. QED BY <1>5, <1>7, <2>1, <2>3, <2>4
<1>11. LastIndex(m) = LastIndex(l)
  <2>1. LastIndex(m) = m.snapshotIndex + Len(m.entries)
    BY <1>9, <1>10, LastIndexIsLength
  <2>2. /\ m.snapshotIndex = i
        /\ Len(m.entries) = Len(l.entries) - (i - l.snapshotIndex)
    BY <1>5, <1>7
  <2>3. LastIndex(m) = i + (Len(l.entries) - (i - l.snapshotIndex))
    <3> HIDE DEF m
    <3> QED BY <2>1, <2>2
  <2>4. i + (Len(l.entries) - (i - l.snapshotIndex))
           = l.snapshotIndex + Len(l.entries)
    BY <1>2
  <2>5. QED
    <3> HIDE DEF m
    <3> QED BY <1>3, <2>3, <2>4
<1>12. BoundariesOrdered(m)
  BY <1>1, <1>2, <1>3, <1>5, <1>8, <1>11
     DEF BoundariesOrdered, CanUpdateSnapshotBoundary
<1>13. QED BY <1>9, <1>10, <1>11, <1>12 DEF WellFormed, ValidateInvariants

----------------------------------------------------------------------------
(***************************************************************************)
(* Choosing the least or the greatest of a set of numbers.                 *)
(***************************************************************************)

LEMMA LeastExists ==
  ASSUME NEW S \in SUBSET Nat, S # {}
  PROVE  \E m \in S : \A k \in S : m <= k
<1>1. PICK m \in S : \A k \in S : <<k, m>> \notin OpToRel(<, Nat)
  BY WFMin, NatLessThanWellFounded, Zenon
<1>2. ASSUME NEW k \in S PROVE m <= k
  <2>1. ~(k < m)
    BY <1>1, k \in Nat, m \in Nat DEF OpToRel
  <2>2. QED BY <2>1, k \in Nat, m \in Nat
<1>3. QED BY <1>2

LEMMA GreatestExists ==
  ASSUME NEW S \in SUBSET Nat, S # {}, NEW b \in Nat, \A k \in S : k <= b
  PROVE  \E m \in S : \A k \in S : k <= m
<1> DEFINE Bounds == {m \in Nat : \A k \in S : k <= m}
<1>1. Bounds \in SUBSET Nat /\ Bounds # {}
  OBVIOUS
<1>2. PICK m \in Bounds : \A k \in Bounds : m <= k
  BY <1>1, LeastExists
<1>3. m \in S
  <2>1. SUFFICES ASSUME m \notin S PROVE FALSE
    OBVIOUS
  <2>2. ASSUME NEW k \in S PROVE k <= m - 1
    BY <2>1, <1>2, k \in Nat
  <2>3. m - 1 \in Nat
    <3>1. PICK k \in S : TRUE
      OBVIOUS
    <3>2. QED BY <3>1, <2>2, <1>2
  <2>4. m - 1 \in Bounds
    BY <2>2, <2>3
  <2>5. QED BY <1>2, <2>4
<1>4. QED BY <1>2, <1>3

----------------------------------------------------------------------------
(***************************************************************************)
(* A log without a snapshot boundary: position i is entry i.               *)
(***************************************************************************)
Plain(l) == WellFormed(l) /\ l.snapshotIndex = 0 /\ l.snapshotTerm = 0

LEMMA PlainLog ==
  ASSUME NEW l, Plain(l)
  PROVE  /\ l.entries \in Seq(StoredEntry)
         /\ Len(l.entries) \in Nat
         /\ DOMAIN l.entries = 1 .. Len(l.entries)
         /\ LastIndex(l) = Len(l.entries)
         /\ FirstIndex(l) = 1
         /\ l.commit \in 0 .. Len(l.entries)
         /\ \A i \in 1 .. Len(l.entries) :
               /\ l.entries[i] \in StoredEntry
               /\ l.entries[i].index = i
               /\ l.entries[i].term \in Term /\ l.entries[i].term \in Nat \ {0}
               /\ TermAt(l, i) = l.entries[i].term
         /\ TermAt(l, 0) = 0
<1>1. /\ l \in LogRecord /\ BoundariesOrdered(l) /\ EntriesContiguous(l)
      /\ l.snapshotIndex = 0 /\ l.snapshotTerm = 0
  BY DEF Plain, WellFormed, ValidateInvariants
<1>2. /\ l.entries \in Seq(StoredEntry) /\ Len(l.entries) \in Nat
      /\ DOMAIN l.entries = 1 .. Len(l.entries) /\ l.commit \in Nat
  BY <1>1, LenProperties DEF LogRecord
<1>3. LastIndex(l) = Len(l.entries)
  BY <1>1, <1>2, LastIndexIsLength
<1>4. l.commit \in 0 .. Len(l.entries)
  BY <1>1, <1>2, <1>3 DEF BoundariesOrdered
<1>5. ASSUME NEW i \in 1 .. Len(l.entries)
      PROVE  /\ l.entries[i] \in StoredEntry
             /\ l.entries[i].index = i
             /\ l.entries[i].term \in Term /\ l.entries[i].term \in Nat \ {0}
             /\ TermAt(l, i) = l.entries[i].term
  <2>1. l.entries[i] \in StoredEntry
    BY <1>2, ElementOfSeq
  <2>2. l.entries[i].index = i
    BY <1>1, <1>2 DEF EntriesContiguous
  <2>3. l.entries[i].term \in Term /\ l.entries[i].term \in Nat \ {0}
    BY <2>1, TermAssumption DEF StoredEntry
  <2>4. TermAt(l, i) = l.entries[i].term
    BY <1>1, <1>2 DEF TermAt, EntryAt
  <2>5. QED BY <2>1, <2>2, <2>3, <2>4
<1>6. QED BY <1>1, <1>2, <1>3, <1>4, <1>5 DEF FirstIndex, TermAt

LEMMA EmptyLogIsPlain == Plain(EmptyLog)
<1>1. << >> \in Seq(StoredEntry) /\ Len(<< >>) = 0
  BY EmptySeq
<1>2. EmptyLog \in LogRecord
  BY <1>1 DEF EmptyLog, LogRecord
<1>3. LastIndex(EmptyLog) = 0
  BY DEF EmptyLog, LastIndex
<1>4. ValidateInvariants(EmptyLog)
  BY <1>1, <1>3 DEF EmptyLog, ValidateInvariants, BoundariesOrdered, EntriesContiguous
<1>5. QED BY <1>2, <1>4 DEF Plain, WellFormed, EmptyLog

\* GetTerm answers for exactly the positions of the log and for position 0.
LEMMA PlainMatches ==
  ASSUME NEW l, Plain(l), NEW i \in Nat, NEW t
  PROVE  Matches(l, i, t) <=> /\ i <= Len(l.entries)
                              /\ IF i = 0 THEN t = 0 ELSE l.entries[i].term = t
<1>1. /\ Len(l.entries) \in Nat /\ LastIndex(l) = Len(l.entries)
      /\ l.snapshotIndex = 0 /\ TermAt(l, 0) = 0
      /\ \A k \in 1 .. Len(l.entries) : TermAt(l, k) = l.entries[k].term
  BY PlainLog DEF Plain
<1>2. QED BY <1>1 DEF Matches, HasTermAt, HasLogEntry

LEMMA PlainEntriesFrom ==
  ASSUME NEW l, Plain(l), NEW b \in Nat \ {0}, b <= Len(l.entries) + 1
  PROVE  /\ EntriesFrom(l, b) \in Seq(StoredEntry)
         /\ Len(EntriesFrom(l, b)) = Len(l.entries) - b + 1
         /\ \A k \in 1 .. Len(l.entries) - b + 1 :
               EntriesFrom(l, b)[k] = l.entries[b + k - 1]
<1> DEFINE n == Len(l.entries)
<1>1. /\ n \in Nat /\ LastIndex(l) = n /\ l.snapshotIndex = 0
      /\ \A i \in b .. n : l.entries[i] \in StoredEntry
  BY PlainLog DEF Plain
<1>2. EntriesFrom(l, b) = SubSeq(l.entries, b, n)
  BY <1>1 DEF EntriesFrom
<1>3. /\ SubSeq(l.entries, b, n) \in Seq(StoredEntry)
      /\ Len(SubSeq(l.entries, b, n)) = IF b <= n THEN n - b + 1 ELSE 0
      /\ \A k \in 1 .. n - b + 1 : SubSeq(l.entries, b, n)[k] = l.entries[b + k - 1]
  <2> HIDE DEF n
  <2> QED BY <1>1, SubSeqProperties
<1>4. QED BY <1>1, <1>2, <1>3

\* FindConflict on entries that continue the log after position p: it names the
\* first position c of them that the log lacks or holds with another term, and
\* below it the terms agree.
LEMMA PlainConflict ==
  ASSUME NEW l, Plain(l), NEW es \in Seq(StoredEntry),
         NEW p \in Nat, p <= Len(l.entries),
         \A k \in 1 .. Len(es) : es[k].index = p + k
  PROVE  /\ CanFindConflict(l, es)
         /\ \/ /\ FindConflict(l, es) = 0
               /\ p + Len(es) <= Len(l.entries)
               /\ \A k \in 1 .. Len(es) : l.entries[p + k].term = es[k].term
            \/ \E c \in 1 .. Len(es) :
                 /\ FindConflict(l, es) = p + c
                 /\ p + c <= Len(l.entries) + 1
                 /\ p + c <= Len(l.entries) => l.entries[p + c].term # es[c].term
                 /\ \A k \in 1 .. c - 1 : l.entries[p + k].term = es[k].term
<1> DEFINE n == Len(l.entries)
           differs == {k \in DOMAIN es : \/ es[k].index > LastIndex(l)
                                         \/ TermAt(l, es[k].index) # es[k].term}
<1>1. /\ n \in Nat /\ LastIndex(l) = n /\ l.snapshotIndex = 0
      /\ \A k \in 1 .. n : TermAt(l, k) = l.entries[k].term
  BY PlainLog DEF Plain
<1>2. /\ Len(es) \in Nat /\ DOMAIN es = 1 .. Len(es)
      /\ \A k \in 1 .. Len(es) : es[k] \in StoredEntry
      /\ es # << >> => Len(es) \in Nat \ {0}
  BY LenProperties, ElementOfSeq, EmptySeq
<1>3. CanFindConflict(l, es)
  <2>1. ASSUME es # << >> PROVE ValidEntries(l, es, es[1].index)
    <3>1. \A k \in 1 .. Len(es) : es[k].index \in Nat \ {0} /\ es[k].term # 0
      BY <1>2 DEF StoredEntry
    <3>2. 1 \in 1 .. Len(es) /\ \A k \in 1 .. Len(es) : es[k].index = es[1].index + k - 1
      BY <1>2, <2>1
    <3>3. QED BY <1>1, <1>2, <3>1, <3>2 DEF ValidEntries
  <2>2. QED BY <2>1 DEF CanFindConflict
<1>4. ASSUME NEW k \in 1 .. Len(es), k \notin differs
      PROVE  p + k <= n /\ l.entries[p + k].term = es[k].term
  BY <1>1, <1>2, <1>4
<1>5. CASE differs = {}
  <2>1. FindConflict(l, es) = 0
    BY <1>5 DEF FindConflict
  <2>2. \A k \in 1 .. Len(es) : p + k <= n /\ l.entries[p + k].term = es[k].term
    BY <1>4, <1>5
  <2>3. p + Len(es) <= n
    BY <2>2, <1>1, <1>2
  <2>4. QED BY <1>3, <2>1, <2>2, <2>3
<1>6. CASE differs # {}
  <2> DEFINE c == CHOOSE i \in differs : \A j \in differs : i <= j
  <2>1. differs \in SUBSET Nat
    BY <1>2
  <2>2. \E i \in differs : \A j \in differs : i <= j
    BY <2>1, <1>6, LeastExists
  <2>3. c \in differs /\ \A j \in differs : c <= j
    BY <2>2
  <2>4. FindConflict(l, es) = es[c].index
    BY <1>6 DEF FindConflict
  <2> HIDE DEF c
  <2>5. c \in 1 .. Len(es) /\ es[c].index = p + c
    BY <1>2, <2>3
  <2>6. ASSUME NEW k \in 1 .. c - 1
        PROVE  p + k <= n /\ l.entries[p + k].term = es[k].term
    <3>1. k \in 1 .. Len(es) /\ ~(c <= k)
      BY <2>5, <1>2
    <3>2. k \notin differs
      BY <2>3, <3>1
    <3>3. QED BY <1>4, <3>1, <3>2
  <2>7. p + c <= n + 1
    <3>1. CASE c = 1
      BY <3>1, <1>1
    <3>2. CASE c # 1
      <4>1. c - 1 \in 1 .. c - 1
        BY <3>2, <2>5
      <4>2. p + (c - 1) <= n
        BY <2>6, <4>1
      <4>3. QED BY <4>2, <2>5, <1>1
    <3>3. QED BY <3>1, <3>2
  <2>8. p + c <= n => l.entries[p + c].term # es[c].term
    <3>1. p + c > n \/ TermAt(l, p + c) # es[c].term
      BY <2>3, <2>5, <1>1
    <3>2. p + c <= n => p + c \in 1 .. n
      BY <2>5, <1>2, <1>1
    <3>3. QED BY <3>1, <3>2, <1>1, <2>5
  <2>9. QED BY <1>3, <2>4, <2>5, <2>6, <2>7, <2>8
<1>7. QED BY <1>5, <1>6

\* The commit index of a log without a boundary moves within the log.
LEMMA PlainCommit ==
  ASSUME NEW l, Plain(l), NEW i \in l.commit .. Len(l.entries)
  PROVE  /\ Plain(AdvanceCommitTo(l, i))
         /\ AdvanceCommitTo(l, i).entries = l.entries
         /\ AdvanceCommitTo(l, i).commit = i
         /\ AdvanceCommitTo(l, i).stable = l.stable
<1>1. /\ WellFormed(l) /\ l \in LogRecord /\ l.commit \in Nat
      /\ LastIndex(l) = Len(l.entries) /\ Len(l.entries) \in Nat
  BY PlainLog DEF Plain, WellFormed
<1>2. i \in Nat /\ CanAdvanceCommitTo(l, i)
  BY <1>1 DEF CanAdvanceCommitTo
<1>3. WellFormed(AdvanceCommitTo(l, i))
  BY <1>1, <1>2, AdvanceKeeps
<1>4. QED BY <1>1, <1>3 DEF AdvanceCommitTo, Plain, LogRecord

\* A suffix of entries appended to a log that ends just before it.
LEMMA AppendMissing ==
  ASSUME NEW l, Plain(l), NEW es \in Seq(StoredEntry), NEW c \in 1 .. Len(es),
         NEW p \in Nat, Len(l.entries) = p + c - 1,
         \A k \in 1 .. Len(es) : es[k].index = p + k
  PROVE  LET m == AppendTo(l, SubSeq(es, c, Len(es)))
         IN  /\ Plain(m) /\ m.commit = l.commit /\ m.stable = l.stable
             /\ Len(m.entries) = p + Len(es)
             /\ \A j \in 1 .. p + c - 1 : m.entries[j] = l.entries[j]
             /\ \A k \in c .. Len(es) : m.entries[p + k] = es[k]
<1> DEFINE more == SubSeq(es, c, Len(es))
           m == AppendTo(l, more)
<1>1. /\ WellFormed(l) /\ l \in LogRecord /\ l.snapshotIndex = 0
      /\ l.entries \in Seq(StoredEntry)
      /\ LastIndex(l) = Len(l.entries) /\ Len(l.entries) \in Nat
  BY PlainLog DEF Plain, WellFormed
<1>2. /\ Len(es) \in Nat /\ \A k \in 1 .. Len(es) : es[k] \in StoredEntry
  BY LenProperties, ElementOfSeq
<1>3. /\ more \in Seq(StoredEntry) /\ Len(more) = Len(es) - c + 1
      /\ \A k \in 1 .. Len(es) - c + 1 : more[k] = es[c + k - 1]
  BY <1>2, SubSeqProperties
<1>4. DOMAIN more = 1 .. Len(more) /\ more \in Seq(Entry)
  <2>1. StoredEntry \subseteq Entry
    BY DEF StoredEntry, Entry
  <2>2. DOMAIN more = 1 .. Len(more)
    BY <1>3, LenProperties
  <2>3. QED BY <1>3, <2>1, <2>2, SeqMonotonic
<1>5. CanAppendTo(l, more)
  <2> SUFFICES ASSUME NEW k \in DOMAIN more
               PROVE  /\ more[k].index = Len(l.entries) + 1 + k - 1
                      /\ more[k].index > 0 /\ more[k].term # 0
    BY <1>1 DEF CanAppendTo, ValidEntries
  <2>1. c + k - 1 \in 1 .. Len(es) /\ more[k] = es[c + k - 1]
    BY <1>2, <1>3, <1>4
  <2>2. more[k].index = p + (c + k - 1) /\ more[k] \in StoredEntry
    BY <2>1, <1>2
  <2>3. k \in Nat /\ p + (c + k - 1) = Len(l.entries) + 1 + k - 1
    BY <1>2, <1>3, <1>4
  <2>4. QED BY <2>2, <2>3 DEF StoredEntry
<1>6. WellFormed(m)
  BY <1>1, <1>4, <1>5, AppendKeeps
<1>7. /\ m.entries = l.entries \o more /\ m.commit = l.commit /\ m.stable = l.stable
      /\ m.snapshotIndex = l.snapshotIndex /\ m.snapshotTerm = l.snapshotTerm
  BY <1>1 DEF AppendTo, LogRecord
<1>9. Plain(m)
  BY <1>6, <1>7 DEF Plain
<1> HIDE DEF m, more
<1>8. /\ Len(m.entries) = Len(l.entries) + Len(more)
      /\ \A j \in 1 .. Len(l.entries) + Len(more) :
            m.entries[j] = IF j <= Len(l.entries) THEN l.entries[j]
                                                  ELSE more[j - Len(l.entries)]
  <2>1. l.entries \in Seq(StoredEntry) /\ more \in Seq(StoredEntry)
    BY <1>1, <1>3
  <2>2. m.entries = l.entries \o more
    BY <1>7
  <2> DEFINE s == l.entries
             both == s \o more
  <2>3. /\ Len(both) = Len(s) + Len(more)
        /\ \A j \in 1 .. Len(s) + Len(more) :
              both[j] = IF j <= Len(s) THEN s[j] ELSE more[j - Len(s)]
    <3> HIDE DEF s
    <3> QED BY <2>1, ConcatProperties DEF s
  <2>4. m.entries = both
    BY <2>2
  <2> HIDE DEF both
  <2>5. QED BY <2>3, <2>4
<1>10. ASSUME NEW k \in c .. Len(es) PROVE m.entries[p + k] = es[k]
  <2>1. /\ p + k \in 1 .. Len(l.entries) + Len(more) /\ ~(p + k <= Len(l.entries))
        /\ p + k - Len(l.entries) = k - c + 1
    BY <1>2, <1>3
  <2>2. k - c + 1 \in 1 .. Len(es) - c + 1 /\ c + (k - c + 1) - 1 = k
    BY <1>2
  <2>3. QED BY <2>1, <2>2, <1>3, <1>8
<1>11. Len(m.entries) = p + Len(es)
  BY <1>2, <1>3, <1>8
<1>12. ASSUME NEW j \in 1 .. p + c - 1 PROVE m.entries[j] = l.entries[j]
  <2>1. j \in 1 .. Len(l.entries) + Len(more) /\ j <= Len(l.entries)
    BY <1>1, <1>2, <1>3
  <2>2. QED BY <2>1, <1>8
<1>13. m.commit = l.commit /\ m.stable = l.stable
  BY <1>7
<1>14. \A k \in c .. Len(es) : m.entries[p + k] = es[k]
  BY <1>10
<1>15. QED BY <1>9, <1>11, <1>12, <1>13, <1>14, Zenon DEF m, more
=============================================================================
