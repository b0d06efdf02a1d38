----------------------------- MODULE MCRaftCore -----------------------------
(* Instances of RaftCore small enough for TLC. *)
EXTENDS RaftCore, TLC

\* Voters are interchangeable, and so are learners.
Symmetry == Permutations(Voter) \cup Permutations(Learner)

\* The progress table of a node that does not lead, and the tally of one that is
\* no candidate, are overwritten before they are read again.
View ==
    <<nodeVars, log, net, ghosts,
      [n \in Server |-> IF role[n] = "LEADER"
                        THEN <<matchIndex[n], nextIndex[n]>> ELSE << >>],
      [n \in Server |-> IF role[n] = "CANDIDATE" THEN votes[n] ELSE {}]>>

\* Nothing is claimed of the states after a leak but CommittedNeverRewritten: a
\* run that does not check it stops there.
LeakFree == leaks = {}

\* Messages overtake each other while the logs hold at most three entries between
\* them; with more, one message is on the way at a time.
OvertakenOnShortLogs ==
    \/ Cardinality(net) < 2
    \/ Cardinality({e \in Server \X (1 .. MaxLog) : e[2] <= LastIndex(log[e[1]])}) <= 3
=============================================================================
