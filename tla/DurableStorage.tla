---------------------------- MODULE DurableStorage ---------------------------
(***************************************************************************)
(* What a Raft node asks of its storage (raft/raft_storage.h): a hard      *)
(* state that moves forward, a log that grows at its end and is cut only   *)
(* above the committed entries, and a snapshot that stands for the first   *)
(* `base' of them.  Every operation happens at once, or not at all, and a  *)
(* crash is no step: what is here is what the next process finds.          *)
(***************************************************************************)
EXTENDS Naturals, Sequences

VARIABLES hard,     \* the hard state: a record with term and commit
          entries,  \* all entries, those the snapshot stands for included
          base      \* the last index the snapshot stands for

Init == hard = [term |-> 0, commit |-> 0] /\ entries = << >> /\ base = 0

SaveHardState ==
    /\ hard'.term >= hard.term
    /\ hard'.commit \in hard.commit .. Len(entries)
    /\ UNCHANGED <<entries, base>>

AppendEntries ==
    /\ Len(entries') > Len(entries)
    /\ SubSeq(entries', 1, Len(entries)) = entries
    /\ UNCHANGED <<hard, base>>

TruncateSuffix ==
    /\ Len(entries') \in hard.commit .. Len(entries)
    /\ entries' = SubSeq(entries, 1, Len(entries'))
    /\ UNCHANGED <<hard, base>>

SaveSnapshot ==
    /\ base' \in 1 .. hard.commit
    /\ UNCHANGED <<hard, entries>>

Next == SaveHardState \/ AppendEntries \/ TruncateSuffix \/ SaveSnapshot

Spec == Init /\ [][Next]_<<hard, entries, base>>
=============================================================================
