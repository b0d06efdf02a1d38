-------------------------- MODULE MCMembershipChange ------------------------
(* Instances of MembershipChange small enough for TLC. *)
EXTENDS MembershipChange

\* Every node has an address of its own.
OwnAddress == [n \in Node |-> n]

Symmetry == Permutations(Voters)

\* The progress table of a node that does not lead is overwritten before it is
\* read again.
View ==
    <<role, currentTerm, log, commit, applied, conf, pending, leaks, hollow,
      [n \in Node |-> IF role[n] = "LEADER" THEN <<match[n], active[n]>> ELSE << >>]>>

\* Little is claimed of the states after a leak.
LeakFree == leaks = {}

\* No leader adopts a later term, and no entry is counted unverified.
HastyAlone == leaks \subseteq {"hasty"}

\* Only logs of up to three entries hold one of another kind than changes.
PlainInShortLogs ==
    \A n \in Node : (\E i \in DOMAIN log[n] : IsPlain(log[n][i])) => Len(log[n]) <= 3
=============================================================================
