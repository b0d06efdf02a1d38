-------------------------- MODULE MembershipChange --------------------------
(***************************************************************************)
(* Configuration changes of a cluster: the membership part of RaftCore     *)
(* (raft/raft_core.cpp) with the part of RaftRuntime that drives it        *)
(* (raft/raft_runtime.cpp, ProcessMembershipChange and                     *)
(* ProcessApplyCompletion).                                                *)
(*                                                                         *)
(* A node counts with the configuration it has APPLIED, and applying may   *)
(* lag behind committing on every node by any amount.                      *)
(*                                                                         *)
(* Of replication and elections only the outcome is kept: a request, which *)
(* may be one of long ago, and its answer, which may be lost, are one      *)
(* step, and so is an election that succeeds.  RaftCore has the messages.  *)
(* As there, the moment and the quorum of an election are the driver's:    *)
(* it asks the voters of the candidate's applied configuration (CanVote)   *)
(* and wants a majority, in a transition one of each set.                  *)
(***************************************************************************)
EXTENDS Membership, SequencesExt

CONSTANTS Voters, Learners,   \* the configuration everyone starts with
          MaxTerm,            \* bound: no election beyond this term
          MaxLog,             \* bound: no change is requested beyond this log length
          MaxPlain            \* bound: other entries in one log

ASSUME InitialAssumption ==
    /\ ValidateMembershipView(Stable(1, Voters, Learners))
    /\ Voters \cup Learners \subseteq Node
    /\ MaxTerm \in Nat /\ MaxLog \in Nat /\ MaxPlain \in Nat

VARIABLES
    role,         \* role_
    currentTerm,  \* hard_state_.current_term
    log,          \* log_: what has been appended
    commit,       \* log_.commit_index()
    applied,      \* log_.applied_index()
    conf,         \* membership_state_, with voter_ids_ and learner_ids_
    match,        \* peer_progress_[peer].match_index; 0 for no member
    active,       \* the peers with peer_progress_[peer].is_active
    pending,      \* the runtime's pending_membership_changes_
    leaks,        \* ghost: what has happened that Raft's rules exclude
    hollow        \* ghost: what changes reported OK had not come to

coreVars == <<role, currentTerm, log, commit, applied, conf, match, active>>
vars == <<coreVars, pending, leaks, hollow>>

Entry == [term : Nat, by : Node, conf : MembershipView]

IsChange(e) == e.conf # NoMembership

NoChange == [index |-> 0, awaiting |-> FALSE, entry |-> << >>]

----------------------------------------------------------------------------
\* Commit.

Holders(n, i, l, m) == {v \in Node : IF v = n THEN Len(l) >= i ELSE m[v] >= i}

\* TryAdvanceCommitIndex for node n in configuration c, with log l and
\* progress m.
Committed(n, c, l, m) ==
    LET ready == {i \in commit[n] + 1 .. Len(l) :
                     /\ l[i].term = currentTerm[n]
                     /\ HasQuorum(c, Holders(n, i, l, m))}
    IN  IF ready = {} THEN commit[n]
        ELSE CHOOSE i \in ready : \A j \in ready : j <= i

Appended(n, c) == Append(log[n], [term |-> currentTerm[n], by |-> n, conf |-> c])

AppendAndCommit(n, c) ==
    /\ log' = [log EXCEPT ![n] = Appended(n, c)]
    /\ commit' = [commit EXCEPT ![n] = Committed(n, conf[n], Appended(n, c), match[n])]

IsPlain(e) == ~IsChange(e)

Propose(n) ==
    /\ role[n] = "LEADER" /\ Len(SelectSeq(log[n], IsPlain)) < MaxPlain
    /\ AppendAndCommit(n, NoMembership)
    /\ UNCHANGED <<role, currentTerm, applied, conf, match, active, pending, leaks, hollow>>

----------------------------------------------------------------------------
\* A change is requested: RaftCore's AddLearner, PromoteLearner, RemoveMember
\* behind the runtime's ProcessMembershipChange.

HasPendingMembershipChange(n) ==
    \E i \in applied[n] + 1 .. Len(log[n]) : IsChange(log[n][i])

\* Reachable voters: the node itself and those that have answered.
HasCommittedVoterQuorum(n) ==
    IsMajorityOf({n} \cup active[n], TransitionVoterIds(conf[n]))

CaughtUp(n, p) == p \in active[n] /\ match[n][p] >= commit[n]

\* Broken variant, for mutation: only the own request is waited for.
OneRequestAtATime(n) == role[n] = "LEADER" /\ pending[n] = NoChange

\* One change at a time: of this runtime, and in this log whoever put it there.
MayRequestChange(n) ==
    /\ role[n] = "LEADER"
    /\ pending[n] = NoChange
    /\ ~HasPendingMembershipChange(n)

\* Broken variant, for mutation: the first phase is taken for the whole change.
TrackFirstPhase(n, c, awaiting) ==
    pending' = [pending EXCEPT ![n] =
        [index |-> Len(log[n]) + 1, awaiting |-> FALSE, entry |-> Last(Appended(n, c))]]

\* The request is remembered by the index of its entry.
Track(n, c, awaiting) ==
    pending' = [pending EXCEPT ![n] =
        [index |-> Len(log[n]) + 1, awaiting |-> awaiting, entry |-> Last(Appended(n, c))]]

Request(n, c, phases) ==
    /\ Len(log[n]) < MaxLog
    /\ AppendAndCommit(n, c)
    /\ Track(n, c, phases = 2)
    /\ UNCHANGED <<role, currentTerm, applied, conf, match, active, leaks, hollow>>

AddLearner(n, p) ==
    /\ MayRequestChange(n)
    /\ CanAddLearner(conf[n], p)
    /\ Request(n, BuildAddLearner(conf[n], p), 1)

PromoteLearner(n, p) ==
    /\ MayRequestChange(n)
    /\ HasCommittedVoterQuorum(n) /\ CaughtUp(n, p)
    /\ CanPromoteLearner(conf[n], p)
    /\ Request(n, BuildPromoteLearner(conf[n], p), 2)

\* A learner leaves in one phase, but the runtime expects two of every removal.
RemoveMember(n, p) ==
    /\ MayRequestChange(n)
    /\ HasCommittedVoterQuorum(n)
    /\ CanRemoveMember(conf[n], p)
    /\ Request(n, BuildRemoveMember(conf[n], p), 2)

----------------------------------------------------------------------------
\* A committed entry is applied.

\* ApplyCommittedMembershipEntry: a node that is no voter now becomes a
\* LEARNER; a node that is one keeps whatever role it had.  Progress of a
\* peer is kept while it stays a member, and starts empty when it becomes one.
TakeEffect(n, c) ==
    /\ conf' = [conf EXCEPT ![n] = ApplyCommitted(@, c)]
    /\ role' = [role EXCEPT ![n] = IF n \in TransitionVoterIds(c) THEN @ ELSE "LEARNER"]
    /\ match' = [match EXCEPT ![n] = [p \in Node |-> IF p \in Members(c) THEN @[p] ELSE 0]]
    /\ active' = [active EXCEPT ![n] = @ \cap Members(c)]

NextEntry(n) == log[n][applied[n] + 1]

\* ProcessApplyCompletion, when the entry can be applied.
ApplyNext(n) ==
    /\ applied[n] < commit[n]
    /\ applied' = [applied EXCEPT ![n] = @ + 1]
    /\ IF IsChange(NextEntry(n))
       THEN /\ CanApplyCommitted(conf[n], NextEntry(n).conf)
            /\ TakeEffect(n, NextEntry(n).conf)
       ELSE UNCHANGED <<conf, role, match, active>>
    /\ UNCHANGED <<currentTerm, leaks>>

Watched(n) == pending[n].index = applied[n] + 1

\* Nobody waits for the entry at this index.
ApplyUnwatched(n) ==
    /\ ~Watched(n)
    /\ ApplyNext(n)
    /\ UNCHANGED <<log, commit, pending, hollow>>

\* A first phase, on a node that leads (still, after applying it).
Finalizes(n) == pending[n].awaiting /\ role'[n] = "LEADER"

CanFinalizeNow(n) ==
    /\ CanFinalize(conf'[n])
    /\ ~\E i \in applied'[n] + 1 .. Len(log[n]) : IsChange(log[n][i])

\* FinalizeMembershipChange appends the second phase at once.
ApplyAndFinalize(n) ==
    /\ Watched(n)
    /\ ApplyNext(n)
    /\ Finalizes(n) /\ CanFinalizeNow(n)
    /\ LET final == BuildFinalize(conf'[n])
           l == Appended(n, final)
       IN  /\ log' = [log EXCEPT ![n] = l]
           /\ commit' = [commit EXCEPT ![n] = Committed(n, conf'[n], l, match'[n])]
           /\ Track(n, final, FALSE)
    /\ UNCHANGED hollow

\* The caller is told OK: it was the second phase, or a change of one phase,
\* or this node no longer leads.  Which entry it was is not compared.
ApplyAndReport(n) ==
    /\ Watched(n)
    /\ ApplyNext(n)
    /\ ~Finalizes(n)
    /\ pending' = [pending EXCEPT ![n] = NoChange]
    /\ hollow' = hollow \cup (IF conf'[n].active THEN {"transition"} ELSE {})
                        \cup (IF NextEntry(n) # pending[n].entry THEN {"replaced"} ELSE {})
    /\ UNCHANGED <<log, commit>>

\* The caller is told that the second phase failed; the first stays in force.
ApplyAndFail(n) ==
    /\ Watched(n)
    /\ ApplyNext(n)
    /\ Finalizes(n) /\ ~CanFinalizeNow(n)
    /\ pending' = [pending EXCEPT ![n] = NoChange]
    /\ UNCHANGED <<log, commit, hollow>>

----------------------------------------------------------------------------
\* Replication: a request of the leader and its answer.

FirstDifference(ours, theirs) ==
    LET both == {i \in DOMAIN ours \cap DOMAIN theirs : ours[i].term # theirs[i].term}
    IN  IF both = {} THEN 0 ELSE CHOOSE i \in both : \A j \in both : i <= j

MergeEntries(ours, theirs) ==
    LET at == FirstDifference(ours, theirs)
    IN  IF at # 0 THEN SubSeq(ours, 1, at - 1) \o SubSeq(theirs, at, Len(theirs))
        ELSE IF Len(theirs) > Len(ours)
        THEN ours \o SubSeq(theirs, Len(ours) + 1, Len(theirs))
        ELSE ours

Smaller(a, b) == IF a < b THEN a ELSE b
Larger(a, b) == IF a < b THEN b ELSE a

\* A request that n may have built since it was elected, for node m: the log as it
\* was then, to entry k, with the commit index i of that time (a lower one than
\* the node has stands for that).  What the log has gained since is of its own
\* term.  One change at most was beyond the commit index, for none is appended
\* behind one that is not applied.
Sent(n, m, k, i) ==
    /\ i <= Larger(commit[m], k)
    /\ \A x \in k + 1 .. Len(log[n]) : log[n][x].term = currentTerm[n]
    /\ \A x, y \in i + 1 .. k : IsChange(log[n][x]) /\ IsChange(log[n][y]) => x = y

\* HandleAppendEntries on a node m that does not lead: it follows n from now on.
FollowLeader(n, m) ==
    /\ role[n] = "LEADER" /\ m \in Members(conf[n]) \ {n}
    /\ role[m] # "LEADER" /\ currentTerm[m] <= currentTerm[n]
    /\ currentTerm' = [currentTerm EXCEPT ![m] = currentTerm[n]]

\* Entries that the request does not reach, and that are not of the leader's term.
Unverified(n, k, l) == \E x \in k + 1 .. Len(l) : l[x].term # currentTerm[n]

FollowCommit(m, i) == Larger(commit[m], Smaller(i, Len(log'[m])))

\* What is committed is never cut: then the call fails.
Receive(n, m, k) ==
    LET sent == SubSeq(log[n], 1, k)
        at == FirstDifference(log[m], sent)
        merged == MergeEntries(log[m], sent)
    IN  /\ FollowLeader(n, m)
        /\ at = 0 \/ at > commit[m]
        /\ log' = [log EXCEPT ![m] = merged]
        /\ leaks' = IF Unverified(n, k, merged) THEN leaks \cup {"unverified"} ELSE leaks

\* The answer names the end of the node's log, however short the request was.
\* A match index beyond the leader's own log is refused, after the peer has been
\* marked active.
Answer(n, m, i) ==
    /\ active' = [active EXCEPT ![n] = @ \cup {m}]
    /\ LET matched == IF Len(log'[m]) > Len(log[n]) THEN match[n]
                      ELSE [match[n] EXCEPT ![m] = Larger(@, Len(log'[m]))]
       IN  /\ match' = [match EXCEPT ![n] = matched]
           /\ commit' = [commit EXCEPT ![m] = FollowCommit(m, i),
                                       ![n] = Committed(n, conf[n], log[n], matched)]

NoAnswer(n, m, i) ==
    /\ commit' = [commit EXCEPT ![m] = FollowCommit(m, i)]
    /\ UNCHANGED <<match, active>>

Replicate(n, m, k, i) ==
    /\ Sent(n, m, k, i) /\ Receive(n, m, k)
    /\ Answer(n, m, i) \/ NoAnswer(n, m, i)
    /\ UNCHANGED <<role, applied, conf, pending, hollow>>

\* The entry before those of the request is not there, or of another term.
Mismatch(n, m) ==
    /\ \E x \in DOMAIN log[n] : x \in DOMAIN log[m] => log[m][x].term # log[n][x].term
    /\ FollowLeader(n, m)
    /\ active' \in {active, [active EXCEPT ![n] = @ \cup {m}]}
    /\ UNCHANGED <<role, log, commit, applied, conf, match, pending, leaks, hollow>>

\* A leader takes over the term of the request and goes on leading.  Its answer
\* has the term it had before, and is ignored.
Usurp(n, m) ==
    /\ role[n] = "LEADER" /\ m \in Members(conf[n])
    /\ role[m] = "LEADER" /\ currentTerm[m] < currentTerm[n]
    /\ currentTerm' = [currentTerm EXCEPT ![m] = currentTerm[n]]
    /\ leaks' = leaks \cup {"usurped"}
    /\ UNCHANGED <<role, log, commit, applied, conf, match, active, pending, hollow>>

\* An answer of a later term.
StepDown(n, m) ==
    /\ role[n] = "LEADER" /\ m \in Members(conf[n])
    /\ currentTerm[m] > currentTerm[n]
    /\ role' = [role EXCEPT ![n] = "FOLLOWER"]
    /\ currentTerm' = [currentTerm EXCEPT ![n] = currentTerm[m]]
    /\ UNCHANGED <<log, commit, applied, conf, match, active, pending, leaks, hollow>>

----------------------------------------------------------------------------
\* Elections.

LastTerm(l) == IF l = << >> THEN 0 ELSE Last(l).term

IsCandidateLogUpToDate(own, candidate) ==
    \/ LastTerm(candidate) > LastTerm(own)
    \/ LastTerm(candidate) = LastTerm(own) /\ Len(candidate) >= Len(own)

Grants(v, n, t) ==
    /\ role[v] # "LEARNER"
    /\ currentTerm[v] < t
    /\ IsCandidateLogUpToDate(log[v], log[n])

\* StartElection looks at the role alone: not at what is committed and has not
\* been applied yet.
Elect(n, q, t) ==
    /\ role[n] \in {"FOLLOWER", "CANDIDATE"}
    /\ n \in q /\ q \subseteq TransitionVoterIds(conf[n])
    /\ HasQuorum(conf[n], q)
    /\ \A v \in q : Grants(v, n, t)
    /\ role' = [v \in Node |-> IF v = n THEN "LEADER"
                               ELSE IF v \in q THEN "FOLLOWER" ELSE role[v]]
    /\ currentTerm' = [v \in Node |-> IF v \in q THEN t ELSE currentTerm[v]]
    /\ match' = [match EXCEPT ![n] = [p \in Node |-> 0]]
    /\ active' = [active EXCEPT ![n] = {}]
    /\ leaks' = IF \E i \in applied[n] + 1 .. commit[n] : IsChange(log[n][i])
                THEN leaks \cup {"hasty"} ELSE leaks
    /\ UNCHANGED <<log, commit, applied, conf, pending, hollow>>

----------------------------------------------------------------------------
Init ==
    /\ role = [n \in Node |-> IF n \in Voters THEN "FOLLOWER" ELSE "LEARNER"]
    /\ currentTerm = [n \in Node |-> 0]
    /\ log = [n \in Node |-> << >>]
    /\ commit = [n \in Node |-> 0] /\ applied = [n \in Node |-> 0]
    /\ conf = [n \in Node |-> Stable(1, Voters, Learners)]
    /\ match = [n \in Node |-> [p \in Node |-> 0]]
    /\ active = [n \in Node |-> {}]
    /\ pending = [n \in Node |-> NoChange]
    /\ leaks = {} /\ hollow = {}

Next ==
    \/ \E n \in Node : \/ Propose(n)
                       \/ ApplyUnwatched(n)
                       \/ ApplyAndFinalize(n)
                       \/ ApplyAndReport(n)
                       \/ ApplyAndFail(n)
    \/ \E n, p \in Node : \/ AddLearner(n, p)
                          \/ PromoteLearner(n, p)
                          \/ RemoveMember(n, p)
                          \/ Mismatch(n, p)
                          \/ Usurp(n, p)
                          \/ StepDown(n, p)
                          \/ \E k \in 0 .. Len(log[n]), i \in commit[p] .. Larger(commit[p], commit[n]) :
                                 Replicate(n, p, k, i)
    \/ \E n \in Node, q \in SUBSET Node, t \in 1 .. MaxTerm : Elect(n, q, t)

Spec == Init /\ [][Next]_vars

----------------------------------------------------------------------------
CommittedPrefix(n) == SubSeq(log[n], 1, commit[n])

TypeOK ==
    /\ role \in [Node -> {"LEARNER", "FOLLOWER", "CANDIDATE", "LEADER"}]
    /\ currentTerm \in [Node -> 0 .. MaxTerm]
    /\ \A n \in Node : /\ log[n] \in Seq(Entry)
                       /\ applied[n] \in 0 .. commit[n]
                       /\ commit[n] \in 0 .. Len(log[n])
                       /\ ValidateMembershipView(conf[n])
    /\ match \in [Node -> [Node -> 0 .. MaxLog + MaxPlain + 1]]
    /\ active \in [Node -> SUBSET Node]
    /\ leaks \subseteq {"hasty", "usurped", "unverified"}
    /\ hollow \subseteq {"transition", "replaced"}

\* The configuration that the first i entries of a log leave in force.
ConfAt(l, i) ==
    LET changes == {k \in 1 .. i : IsChange(l[k])}
    IN  IF changes = {} THEN Stable(1, Voters, Learners) ELSE l[Max(changes)].conf

\* Every change in a log is a legal change of the one before it there, or of the
\* initial configuration, whichever leaders appended them: a leader builds a
\* change from what it has applied, which is only right if nothing of the kind
\* lies between (HasPendingMembershipChange; spec.md FR-038).  Until a leak: then
\* two leaders may share a term, and their logs mix.
ChangesFollowUnlessLeak ==
    leaks = {} =>
        \A n \in Node : \A i \in DOMAIN log[n] :
            IsChange(log[n][i]) => IsSuccessor(ConfAt(log[n], i - 1), log[n][i].conf)

\* Nodes that count with different configurations do not commit different
\* entries (spec.md, User Story 4, and FR-040), until one of three things happens:
\*   hasty       a node is elected while a change it knows to be committed is not
\*               applied: its quorum may be one of a configuration that two later
\*               ones have left behind,
\*   usurped     a leader adopts the later term of a request, and goes on leading,
\*   unverified  a node answers a request by the end of its log, which holds more
\*               than the request does, of an earlier term.
CommittedAgreementUnlessLeak ==
    leaks = {} =>
        \A a, b \in Node : \/ IsPrefix(CommittedPrefix(a), CommittedPrefix(b))
                           \/ IsPrefix(CommittedPrefix(b), CommittedPrefix(a))

\* While the cluster has had no second leader, a change reported OK is in force
\* and over.  A node that has lost the lead reports OK for a first phase, and
\* for whatever entry took the index of its own.
ReportHoldsUnderOneLeader ==
    (\A n \in Node : currentTerm[n] <= 1) => hollow = {}

\* Until a leak, what a leader with a stable configuration has committed is
\* stored by a majority of its voters; learners do not count (spec.md FR-034).
CommittedOnVotersUnlessLeak ==
    leaks = {} =>
        \A n \in Node :
            role[n] = "LEADER" /\ ~conf[n].active =>
                IsMajorityOf({v \in Node : IsPrefix(CommittedPrefix(n), log[v])},
                             conf[n].voters)

\* What the feature promises of changes: the two phases keep a group from
\* committing twice (spec.md FR-040).
ChangesPreserveAgreement ==
    \A a, b \in Node : \/ IsPrefix(CommittedPrefix(a), CommittedPrefix(b))
                      \/ IsPrefix(CommittedPrefix(b), CommittedPrefix(a))
=============================================================================
