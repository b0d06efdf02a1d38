---------------------------- MODULE CommittedLog ----------------------------
(***************************************************************************)
(* What a replicated log promises its users, with nothing said of terms,   *)
(* conflicts, storage or compaction: a sequence of committed entries that  *)
(* only ever grows at its end, consumed in order, each entry once.         *)
(*   spec.md FR-013: "each log index MUST be applied no more than once".   *)
(***************************************************************************)
EXTENDS Integers, Sequences

VARIABLES committed,   \* the committed entries, from index 1
          consumed     \* how many of them the state machine has applied

vars == <<committed, consumed>>

Init == committed = << >> /\ consumed = 0

\* The committed sequence keeps every entry it has, and gets longer.
Commit ==
    /\ Len(committed') > Len(committed)
    /\ SubSeq(committed', 1, Len(committed)) = committed
    /\ UNCHANGED consumed

Consume ==
    /\ consumed' \in (consumed + 1) .. Len(committed)
    /\ UNCHANGED committed

Next == Commit \/ Consume

Spec == Init /\ [][Next]_vars
=============================================================================
