------------------------------ MODULE RaftLog ------------------------------
(***************************************************************************)
(* The replicated log of one node: class RaftLog of raft/raft_log.cpp.     *)
(*                                                                         *)
(* A log is a record.  entries holds the entries above the snapshot        *)
(* boundary; every entry carries its own index, and the code reads the     *)
(* last index from the last entry, not from the length.  A method of the   *)
(* class that can be refused is two operators: CanX(l, ...), true when the *)
(* method returns OK, and X(l, ...), the log it then leaves behind.  A     *)
(* refused call leaves the log as it was.                                  *)
(***************************************************************************)
EXTENDS Integers, Sequences

CONSTANTS Term,      \* the terms an entry can carry; 0 is kInitialTerm, no term
          Payload    \* the opaque commands

ASSUME TermAssumption == Term \subseteq Nat

Entry == [index : Nat, term : Term, payload : Payload]

\* An entry the log accepts: kInitialTerm is never the term of an entry.
StoredEntry == [index : Nat \ {0}, term : Term \ {0}, payload : Payload]

LogRecord == [snapshotIndex : Nat, snapshotTerm : Nat,
              entries : Seq(StoredEntry),
              stable : Nat, commit : Nat, applied : Nat]

EmptyLog == [snapshotIndex |-> 0, snapshotTerm |-> 0, entries |-> << >>,
             stable |-> 0, commit |-> 0, applied |-> 0]

LesserOf(a, b)  == IF a <= b THEN a ELSE b
GreaterOf(a, b) == IF a >= b THEN a ELSE b

----------------------------------------------------------------------------
\* Reading the log.

LastIndex(l) == IF l.entries = << >> THEN l.snapshotIndex
                                     ELSE l.entries[Len(l.entries)].index

FirstIndex(l) == l.snapshotIndex + 1

HasLogEntry(l, i) == i > l.snapshotIndex /\ i <= LastIndex(l)

EntryAt(l, i) == l.entries[i - l.snapshotIndex]

\* GetTerm returns a term: position 0 and the snapshot boundary have one too.
HasTermAt(l, i) == i = 0 \/ i = l.snapshotIndex \/ HasLogEntry(l, i)

TermAt(l, i) == IF i = 0 THEN 0
                ELSE IF i = l.snapshotIndex THEN l.snapshotTerm
                ELSE EntryAt(l, i).term

Matches(l, i, t) == HasTermAt(l, i) /\ TermAt(l, i) = t

\* GetEntries with a begin above the snapshot boundary: [begin, last].
EntriesFrom(l, begin) ==
    SubSeq(l.entries, begin - l.snapshotIndex, LastIndex(l) - l.snapshotIndex)

----------------------------------------------------------------------------
\* Appending.

\* Broken variant, for mutation: kInitialTerm is accepted as an entry's term.
ValidEntriesNoTermCheck(l, es, start) ==
    \A k \in DOMAIN es : /\ es[k].index = start + k - 1
                         /\ es[k].index > l.snapshotIndex

ValidEntries(l, es, start) ==
    \A k \in DOMAIN es : /\ es[k].index = start + k - 1
                         /\ es[k].index > l.snapshotIndex
                         /\ es[k].term # 0

CanAppendTo(l, es) == ValidEntries(l, es, LastIndex(l) + 1)

AppendTo(l, es) == [l EXCEPT !.entries = @ \o es]

\* FindConflict: the first incoming entry the log lacks or holds with another
\* term.  0 stands for ConflictType::NONE; an index above LastIndex(l) for
\* APPEND; any other for CONFLICT.
CanFindConflict(l, es) == es # << >> => ValidEntries(l, es, es[1].index)

FindConflict(l, es) ==
    LET differs == {k \in DOMAIN es : \/ es[k].index > LastIndex(l)
                                      \/ TermAt(l, es[k].index) # es[k].term}
    IN  IF differs = {} THEN 0
        ELSE es[CHOOSE k \in differs : \A j \in differs : k <= j].index

----------------------------------------------------------------------------
\* Truncating, and moving the four boundaries.

\* Broken variant, for mutation: committed entries may be cut off.
CanTruncateAnything(l, i) == i > l.snapshotIndex /\ i <= LastIndex(l) + 1

CanTruncateSuffix(l, i) == /\ i > l.snapshotIndex
                           /\ i > l.commit
                           /\ i <= LastIndex(l) + 1

\* Broken variant, for mutation: stable_index_ is not pulled back.
TruncateSuffixKeepStable(l, i) ==
    [l EXCEPT !.entries = SubSeq(@, 1, i - l.snapshotIndex - 1)]

TruncateSuffix(l, i) ==
    [l EXCEPT !.entries = SubSeq(@, 1, i - l.snapshotIndex - 1),
              !.stable  = LesserOf(@, i - 1)]

\* Broken variant, for mutation: a lower commit index is accepted.
CanSetCommitTo(l, i) == i <= LastIndex(l)

CanAdvanceStableTo(l, i)  == l.stable <= i /\ i <= LastIndex(l)
CanAdvanceCommitTo(l, i)  == l.commit <= i /\ i <= LastIndex(l)
CanAdvanceAppliedTo(l, i) == l.applied <= i /\ i <= l.commit

AdvanceStableTo(l, i)  == [l EXCEPT !.stable = i]
AdvanceCommitTo(l, i)  == [l EXCEPT !.commit = i]
AdvanceAppliedTo(l, i) == [l EXCEPT !.applied = i]

\* Broken variant, for mutation: the boundary term is taken on trust.
CanMoveBoundaryUnchecked(l, i, t) == /\ l.snapshotIndex <= i
                                     /\ i <= l.applied
                                     /\ i > 0 => t # 0

CanUpdateSnapshotBoundary(l, i, t) == /\ l.snapshotIndex <= i
                                      /\ i <= l.applied
                                      /\ i <= LastIndex(l)
                                      /\ i > 0 => t # 0
                                      /\ Matches(l, i, t)

UpdateSnapshotBoundary(l, i, t) ==
    [l EXCEPT !.snapshotIndex = i,
              !.snapshotTerm  = t,
              !.entries = SubSeq(@, i - l.snapshotIndex + 1, Len(@)),
              !.stable  = GreaterOf(@, i),
              !.commit  = GreaterOf(@, i),
              !.applied = GreaterOf(@, i)]

----------------------------------------------------------------------------
\* ValidateInvariants: what the class itself demands of its fields after every
\* change, returning InternalError when it does not hold.

BoundariesOrdered(l) ==
    /\ l.snapshotIndex <= l.applied
    /\ l.applied <= l.commit
    /\ l.commit <= LastIndex(l)
    /\ l.snapshotIndex <= l.stable
    /\ l.stable <= LastIndex(l)

EntriesContiguous(l) ==
    \A k \in DOMAIN l.entries : /\ l.entries[k].index = l.snapshotIndex + k
                                /\ l.entries[k].term # 0

ValidateInvariants(l) == BoundariesOrdered(l) /\ EntriesContiguous(l)
=============================================================================
