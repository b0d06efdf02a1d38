------------------------------ MODULE RaftCore ------------------------------
(***************************************************************************)
(* A cluster of RaftCore objects (raft/raft_core.cpp) exchanging messages. *)
(*                                                                         *)
(* RaftCore is passive: a driver calls it for every tick, message and      *)
(* proposal.  No file of the repository is a driver for more than one      *)
(* voter: nothing sends RequestVote or counts grants.  The three steps     *)
(* only a driver can take (SendRequestVote, the votes tally, when to call  *)
(* BecomeLeader) follow the contract the core offers: VoteResponseAction   *)
(* RECORDED_GRANT is returned for the caller to count, BecomeLeader        *)
(* accepts any candidate.  Everything else is the core's own code.         *)
(*                                                                         *)
(* Messages may be lost, delayed, reordered, and repeated (a sender may    *)
(* build the same message again).  Nodes do not crash here: Initialize     *)
(* starts every core with an empty log, so a restarted process is not a    *)
(* continuation of the old one.  The membership is fixed.                  *)
(***************************************************************************)
EXTENDS RaftLog, FiniteSets

CONSTANTS Server,       \* all nodes
          Learner,      \* those that replicate but do not vote
          Nobody,       \* kInvalidNodeId
          MaxTerm,      \* bound: no election is started beyond this term
          MaxLog,       \* bound: no proposal beyond this log length
          MaxInFlight   \* bound: messages on the network at once

Voter == Server \ Learner

ASSUME ServerAssumption ==
    /\ IsFiniteSet(Server) /\ Learner \subseteq Server /\ Voter # {}
    /\ Nobody \notin Server /\ Server \subseteq Payload
    /\ MaxTerm \in Nat /\ 0 .. MaxTerm \subseteq Term
    /\ MaxLog \in Nat /\ MaxInFlight \in Nat

VARIABLES
    role,          \* role_
    currentTerm,   \* hard_state_.current_term
    votedFor,      \* hard_state_.voted_for
    log,           \* log_, which also holds the commit index
    matchIndex,    \* peer_progress_[peer].match_index, for peers
    nextIndex,     \* peer_progress_[peer].next_index, for peers
    votes,         \* the driver's tally: the grants recorded in this term
    net,           \* the messages on the way
    elected,       \* ghost: <<term, node>> of every successful BecomeLeader
    leaks          \* ghost: what has happened that Raft's rules exclude

nodeVars == <<role, currentTerm, votedFor>>
peerVars == <<matchIndex, nextIndex>>
ghosts   == <<elected, leaks>>
vars == <<nodeVars, log, peerVars, votes, net, ghosts>>

Majority == Cardinality(Voter) \div 2 + 1

Peers(n) == Server \ {n}

----------------------------------------------------------------------------
\* The network.

Send(m) == /\ Cardinality(net) < MaxInFlight
           /\ net' = net \cup {m}

Reply(request, response) == net' = (net \ {request}) \cup {response}

Consume(m) == net' = net \ {m}

Lose(m) ==
    /\ Consume(m)
    /\ UNCHANGED <<nodeVars, log, peerVars, votes, ghosts>>

----------------------------------------------------------------------------
\* Term and role changes shared by the handlers.

\* UpdateCurrentTerm: a new term forgets the vote of the old one.
UpdateCurrentTerm(n, t) ==
    /\ currentTerm' = [currentTerm EXCEPT ![n] = GreaterOf(@, t)]
    /\ votedFor' = [votedFor EXCEPT ![n] = IF t > currentTerm[n] THEN Nobody ELSE @]

\* BecomeFollowerForRemote: a learner stays a learner.
BecomeFollowerForRemote(n, t) ==
    /\ UpdateCurrentTerm(n, t)
    /\ role' = [role EXCEPT ![n] = IF @ = "LEARNER" THEN @ ELSE "FOLLOWER"]

----------------------------------------------------------------------------
\* Elections.

\* Tick reaching the election timeout calls StartElection.
Timeout(n) ==
    /\ role[n] \in {"FOLLOWER", "CANDIDATE"}
    /\ currentTerm[n] < MaxTerm
    /\ currentTerm' = [currentTerm EXCEPT ![n] = @ + 1]
    /\ votedFor' = [votedFor EXCEPT ![n] = n]
    /\ role' = [role EXCEPT ![n] = "CANDIDATE"]
    /\ votes' = [votes EXCEPT ![n] = {n}]
    /\ UNCHANGED <<log, peerVars, net, ghosts>>

SendRequestVote(n, m) ==
    /\ role[n] = "CANDIDATE" /\ m \in Voter \ {n}
    /\ Send([type |-> "RequestVote", from |-> n, to |-> m,
             term |-> currentTerm[n],
             lastIndex |-> LastIndex(log[n]),
             lastTerm  |-> TermAt(log[n], LastIndex(log[n]))])
    /\ UNCHANGED <<nodeVars, log, peerVars, votes, ghosts>>

\* Broken variant, for mutation: only the lengths of the logs are compared.
LongerLogWins(l, index, term) == index >= LastIndex(l)

IsCandidateLogUpToDate(l, index, term) ==
    LET ownTerm == TermAt(l, LastIndex(l))
    IN  term > ownTerm \/ (term = ownTerm /\ index >= LastIndex(l))

VoteResponse(req, term, granted) ==
    [type |-> "VoteResponse", from |-> req.to, to |-> req.from,
     term |-> term, granted |-> granted]

\* A learner, or a node already in a later term, refuses and changes nothing.
RefuseVote(req) ==
    /\ req.type = "RequestVote"
    /\ role[req.to] = "LEARNER" \/ req.term < currentTerm[req.to]
    /\ Reply(req, VoteResponse(req, currentTerm[req.to], FALSE))
    /\ UNCHANGED <<nodeVars, log, peerVars, votes, ghosts>>

\* Broken variant, for mutation: a vote is given to everyone who asks.
VoteGrantedTwice(req) ==
    IsCandidateLogUpToDate(log[req.to], req.lastIndex, req.lastTerm)

\* The vote a node in the request's term casts: it may already have one.
VoteGranted(req) ==
    LET n == req.to
    IN  /\ IsCandidateLogUpToDate(log[n], req.lastIndex, req.lastTerm)
        /\ \/ req.term > currentTerm[n]
           \/ votedFor[n] \in {Nobody, req.from}

HandleRequestVote(req) ==
    LET n == req.to
    IN  /\ req.type = "RequestVote"
        /\ role[n] # "LEARNER" /\ req.term >= currentTerm[n]
        /\ role' = [role EXCEPT ![n] = IF req.term > currentTerm[n]
                                       THEN "FOLLOWER" ELSE @]
        /\ currentTerm' = [currentTerm EXCEPT ![n] = req.term]
        /\ votedFor' = [votedFor EXCEPT ![n] =
                           IF VoteGranted(req) THEN req.from
                           ELSE IF req.term > currentTerm[n] THEN Nobody ELSE @]
        /\ Reply(req, VoteResponse(req, req.term, VoteGranted(req)))
        /\ UNCHANGED <<log, peerVars, votes, ghosts>>

\* RECORDED_GRANT: the driver adds the sender to its tally.  A rejection, an
\* answer to an earlier candidacy, or one that finds no candidate is dropped.
HandleVoteResponse(rsp) ==
    LET n == rsp.to
    IN  /\ rsp.type = "VoteResponse" /\ rsp.term <= currentTerm[n]
        /\ votes' = [votes EXCEPT ![n] =
               IF rsp.term = currentTerm[n] /\ role[n] = "CANDIDATE" /\ rsp.granted
               THEN @ \cup {rsp.from} ELSE @]
        /\ Consume(rsp)
        /\ UNCHANGED <<nodeVars, log, peerVars, ghosts>>

\* Any response of a later term makes the receiver step down.
StepDown(rsp) ==
    /\ rsp.type \in {"VoteResponse", "AppendResponse"}
    /\ rsp.term > currentTerm[rsp.to]
    /\ BecomeFollowerForRemote(rsp.to, rsp.term)
    /\ Consume(rsp)
    /\ UNCHANGED <<log, peerVars, votes, ghosts>>

\* ResetPeerProgress: every peer starts as knowing nothing, to be probed at the
\* end of the leader's log.
ResetPeerProgress(n) ==
    /\ matchIndex' = [matchIndex EXCEPT ![n] = [p \in Peers(n) |-> 0]]
    /\ nextIndex' = [nextIndex EXCEPT ![n] = [p \in Peers(n) |-> LastIndex(log[n]) + 1]]

BecomeLeader(n) ==
    /\ role[n] = "CANDIDATE"
    /\ Cardinality(votes[n]) >= Majority
    /\ role' = [role EXCEPT ![n] = "LEADER"]
    /\ ResetPeerProgress(n)
    /\ elected' = elected \cup {<<currentTerm[n], n>>}
    /\ UNCHANGED <<currentTerm, votedFor, log, votes, net, leaks>>

----------------------------------------------------------------------------
\* Replication, on the leader.

\* Enough voters hold index i: the node's own progress is its last index.
MatchedByMajority(n, l, match, i) ==
    Cardinality({v \in Voter : IF v = n THEN LastIndex(l) >= i
                                        ELSE match[v] >= i}) >= Majority

\* Broken variant, for mutation: an entry of any term commits by counting.
CommitAnyTerm(n, l, match) ==
    LET ready == {i \in l.commit + 1 .. LastIndex(l) : MatchedByMajority(n, l, match, i)}
    IN  IF ready = {} THEN l
        ELSE AdvanceCommitTo(l, CHOOSE i \in ready : \A j \in ready : j <= i)

\* TryAdvanceCommitIndex: the highest index of the current term that a majority
\* holds.  An entry of an earlier term is only ever committed below such a one.
TryAdvanceCommitIndex(n, l, match) ==
    LET ready == {i \in l.commit + 1 .. LastIndex(l) :
                     /\ TermAt(l, i) = currentTerm[n]
                     /\ MatchedByMajority(n, l, match, i)}
    IN  IF ready = {} THEN l
        ELSE AdvanceCommitTo(l, CHOOSE i \in ready : \A j \in ready : j <= i)

\* Propose: the leader appends; with one voter the entry commits at once.
Propose(n) ==
    /\ role[n] = "LEADER"
    /\ LastIndex(log[n]) < MaxLog
    /\ LET entry == [index |-> LastIndex(log[n]) + 1, term |-> currentTerm[n],
                     payload |-> n]
       IN  /\ CanAppendTo(log[n], <<entry>>)
           /\ log' = [log EXCEPT ![n] =
                 TryAdvanceCommitIndex(n, AppendTo(@, <<entry>>), matchIndex[n])]
    /\ UNCHANGED <<nodeVars, peerVars, votes, net, ghosts>>

AppendRequest(n, m, prev, entries) ==
    [type |-> "AppendEntries", from |-> n, to |-> m, term |-> currentTerm[n],
     prev |-> prev, prevTerm |-> TermAt(log[n], prev),
     entries |-> entries, commit |-> log[n].commit]

\* BuildAppendEntriesForPeer: all entries from the peer's next index on.
SendAppendEntries(n, m) ==
    /\ role[n] = "LEADER" /\ m \in Peers(n)
    /\ nextIndex[n][m] > log[n].snapshotIndex
    /\ Send(AppendRequest(n, m, nextIndex[n][m] - 1,
                          EntriesFrom(log[n], nextIndex[n][m])))
    /\ UNCHANGED <<nodeVars, log, peerVars, votes, ghosts>>

\* BuildHeartbeat: the same for every peer, from the end of the leader's log.
SendHeartbeat(n, m) ==
    /\ role[n] = "LEADER" /\ m \in Peers(n)
    /\ Send(AppendRequest(n, m, LastIndex(log[n]), << >>))
    /\ UNCHANGED <<nodeVars, log, peerVars, votes, ghosts>>

\* FindLastIndexOfTerm: scanning down, it stops at the first smaller term.
FindLastIndexOfTerm(l, t) ==
    LET last == {i \in FirstIndex(l) .. LastIndex(l) :
                    /\ TermAt(l, i) = t
                    /\ \A j \in i + 1 .. LastIndex(l) : TermAt(l, j) > t}
    IN  IF last # {} THEN CHOOSE i \in last : TRUE
        ELSE IF t = l.snapshotTerm THEN l.snapshotIndex ELSE 0

ClampPeerNextIndex(l, i) ==
    LET low == IF l.snapshotIndex > 0 THEN l.snapshotIndex ELSE FirstIndex(l)
    IN  GreaterOf(low, LesserOf(i, LastIndex(l) + 1))

\* Where to continue after a rejection: just above the conflicting term when
\* the leader has it too, else where the follower says its run begins.
NextAfterRejection(l, rsp) ==
    LET known == FindLastIndexOfTerm(l, rsp.conflictTerm)
    IN  ClampPeerNextIndex(l, IF rsp.conflictTerm # 0 /\ known # 0
                              THEN known + 1 ELSE rsp.conflictIndex)

\* Broken variant, for mutation: a match index beyond the own log is believed.
AcceptAnyMatch(n, rsp) == rsp.success \/ rsp.conflictIndex # 0

\* ValidateAppendEntriesResponse, and the check against the leader's own log.
AcceptableResponse(n, rsp) ==
    IF rsp.success
    THEN /\ rsp.match = 0 => LastIndex(log[n]) = 0
         /\ rsp.match <= LastIndex(log[n])
    ELSE rsp.conflictIndex # 0

HandleAppendSuccess(rsp) ==
    LET n == rsp.to
        match == [matchIndex[n] EXCEPT ![rsp.from] = GreaterOf(@, rsp.match)]
    IN  /\ rsp.type = "AppendResponse" /\ rsp.success
        /\ rsp.term = currentTerm[n] /\ role[n] = "LEADER"
        /\ AcceptableResponse(n, rsp)
        /\ matchIndex' = [matchIndex EXCEPT ![n] = match]
        /\ nextIndex' = [nextIndex EXCEPT ![n][rsp.from] =
                             GreaterOf(@, match[rsp.from] + 1)]
        /\ log' = [log EXCEPT ![n] = TryAdvanceCommitIndex(n, @, match)]
        /\ Consume(rsp)
        /\ UNCHANGED <<nodeVars, votes, ghosts>>

HandleAppendRejection(rsp) ==
    LET n == rsp.to
    IN  /\ rsp.type = "AppendResponse" /\ ~rsp.success
        /\ rsp.term = currentTerm[n] /\ role[n] = "LEADER"
        /\ AcceptableResponse(n, rsp)
        /\ nextIndex' = [nextIndex EXCEPT ![n][rsp.from] =
                             LesserOf(@, NextAfterRejection(log[n], rsp))]
        /\ Consume(rsp)
        /\ UNCHANGED <<nodeVars, log, matchIndex, votes, ghosts>>

\* A late answer, one to a node that no longer leads, or an invalid one.
DropAppendResponse(rsp) ==
    /\ rsp.type = "AppendResponse"
    /\ \/ rsp.term < currentTerm[rsp.to]
       \/ /\ rsp.term = currentTerm[rsp.to]
          /\ role[rsp.to] # "LEADER" \/ ~AcceptableResponse(rsp.to, rsp)
    /\ Consume(rsp)
    /\ UNCHANGED <<nodeVars, log, peerVars, votes, ghosts>>

----------------------------------------------------------------------------
\* Replication, on the receiver: HandleAppendEntries.

AppendRejected(req, term, conflictIndex, conflictTerm) ==
    [type |-> "AppendResponse", from |-> req.to, to |-> req.from, term |-> term,
     success |-> FALSE, match |-> 0,
     conflictIndex |-> conflictIndex, conflictTerm |-> conflictTerm]

AppendAccepted(req, match) ==
    [type |-> "AppendResponse", from |-> req.to, to |-> req.from, term |-> req.term,
     success |-> TRUE, match |-> match, conflictIndex |-> 0, conflictTerm |-> 0]

RefuseStaleAppend(req) ==
    /\ req.type = "AppendEntries" /\ req.term < currentTerm[req.to]
    /\ Reply(req, AppendRejected(req, currentTerm[req.to], 0, 0))
    /\ UNCHANGED <<nodeVars, log, peerVars, votes, ghosts>>

\* A leader takes over the term of the request, but stays LEADER and answers
\* with the term it had before.
LeaderRefusesAppend(req) ==
    LET n == req.to
    IN  /\ req.type = "AppendEntries" /\ req.term >= currentTerm[n]
        /\ role[n] = "LEADER"
        /\ UpdateCurrentTerm(n, req.term)
        /\ leaks' = IF req.term > currentTerm[n] THEN leaks \cup {"usurped"} ELSE leaks
        /\ Reply(req, AppendRejected(req, currentTerm[n], 0, 0))
        /\ UNCHANGED <<role, log, peerVars, votes, elected>>

\* The term and role a follower, candidate or learner takes from the request.
FollowLeader(req) ==
    LET n == req.to
    IN  /\ req.type = "AppendEntries" /\ req.term >= currentTerm[n]
        /\ role[n] # "LEADER"
        /\ UpdateCurrentTerm(n, req.term)
        /\ role' = [role EXCEPT ![n] = IF @ = "CANDIDATE" THEN "FOLLOWER" ELSE @]

\* FindFirstIndexOfTerm: the start of the run of entries of term t ending at i.
FindFirstIndexOfTerm(l, t, i) ==
    LET run == {j \in FirstIndex(l) .. i : \A k \in j .. i : TermAt(l, k) = t}
    IN  IF i = l.snapshotIndex /\ t = l.snapshotTerm THEN i
        ELSE CHOOSE j \in run : \A k \in run : j <= k

\* prev is not in the log with that term: say where the sender should go back to.
RejectMismatch(req) ==
    LET n == req.to
        l == log[n]
    IN  /\ FollowLeader(req)
        /\ ~Matches(l, req.prev, req.prevTerm)
        /\ Reply(req,
             IF req.prev > LastIndex(l)
             THEN AppendRejected(req, req.term, LastIndex(l) + 1, 0)
             ELSE IF req.prev < l.snapshotIndex
             THEN AppendRejected(req, req.term, FirstIndex(l), l.snapshotTerm)
             ELSE AppendRejected(req, req.term,
                     FindFirstIndexOfTerm(l, TermAt(l, req.prev), req.prev),
                     TermAt(l, req.prev)))
        /\ UNCHANGED <<log, peerVars, votes, ghosts>>

\* Broken variant, for mutation: the conflicting suffix is kept.
MergeByLength(l, es) ==
    IF es = << >> \/ es[Len(es)].index <= LastIndex(l) THEN l
    ELSE AppendTo(l, SubSeq(es, LastIndex(l) - es[1].index + 2, Len(es)))

\* Cut the log at a conflict, append what is missing.
MergeEntries(l, es) ==
    LET at == FindConflict(l, es)
        missing == SubSeq(es, at - es[1].index + 1, Len(es))
    IN  IF es = << >> \/ at = 0 THEN l
        ELSE IF at > LastIndex(l) THEN AppendTo(l, missing)
        ELSE AppendTo(TruncateSuffix(l, at), missing)

\* min(leader_commit, last_index), never backwards.
FollowCommit(l, leaderCommit) ==
    AdvanceCommitTo(l, GreaterOf(l.commit, LesserOf(leaderCommit, LastIndex(l))))

\* What the request itself vouches for ends at prev plus its entries.  Entries
\* beyond that are the leader's own only if they carry its term.
Unverified(req, l) ==
    \E i \in req.prev + Len(req.entries) + 1 .. LastIndex(l) : TermAt(l, i) # req.term

\* prev matches: merge, follow the leader's commit index and acknowledge
\* everything up to the end of the log.
AcceptAppend(req) ==
    LET n == req.to
        merged == MergeEntries(log[n], req.entries)
        at == FindConflict(log[n], req.entries)
    IN  /\ FollowLeader(req)
        /\ Matches(log[n], req.prev, req.prevTerm)
        /\ CanFindConflict(log[n], req.entries)
        /\ at # 0 /\ at <= LastIndex(log[n]) => CanTruncateSuffix(log[n], at)
        /\ log' = [log EXCEPT ![n] = FollowCommit(merged, req.commit)]
        /\ leaks' = IF Unverified(req, merged) THEN leaks \cup {"unverified"} ELSE leaks
        /\ Reply(req, AppendAccepted(req, LastIndex(merged)))
        /\ UNCHANGED <<peerVars, votes, elected>>

\* The log refuses to be cut at a committed entry: the call fails, nothing is
\* answered, and the new term and role stay.
FailAppend(req) ==
    LET n == req.to
        at == FindConflict(log[n], req.entries)
    IN  /\ FollowLeader(req)
        /\ Matches(log[n], req.prev, req.prevTerm)
        /\ \/ ~CanFindConflict(log[n], req.entries)
           \/ at # 0 /\ at <= LastIndex(log[n]) /\ ~CanTruncateSuffix(log[n], at)
        /\ Consume(req)
        /\ UNCHANGED <<log, peerVars, votes, ghosts>>

----------------------------------------------------------------------------
Init ==
    /\ role = [n \in Server |-> IF n \in Learner THEN "LEARNER" ELSE "FOLLOWER"]
    /\ currentTerm = [n \in Server |-> 0]
    /\ votedFor = [n \in Server |-> Nobody]
    /\ log = [n \in Server |-> EmptyLog]
    /\ matchIndex = [n \in Server |-> [p \in Peers(n) |-> 0]]
    /\ nextIndex = [n \in Server |-> [p \in Peers(n) |-> 1]]
    /\ votes = [n \in Server |-> {}]
    /\ net = {} /\ elected = {} /\ leaks = {}

Next ==
    \/ \E n \in Server : \/ Timeout(n)
                         \/ BecomeLeader(n)
                         \/ Propose(n)
    \/ \E n, m \in Server : \/ SendRequestVote(n, m)
                            \/ SendAppendEntries(n, m)
                            \/ SendHeartbeat(n, m)
    \/ \E m \in net : \/ RefuseVote(m)
                      \/ HandleRequestVote(m)
                      \/ HandleVoteResponse(m)
                      \/ StepDown(m)
                      \/ RefuseStaleAppend(m)
                      \/ LeaderRefusesAppend(m)
                      \/ RejectMismatch(m)
                      \/ AcceptAppend(m)
                      \/ FailAppend(m)
                      \/ HandleAppendSuccess(m)
                      \/ HandleAppendRejection(m)
                      \/ DropAppendResponse(m)
                      \/ Lose(m)

Spec == Init /\ [][Next]_vars

----------------------------------------------------------------------------
Roles == {"LEARNER", "FOLLOWER", "CANDIDATE", "LEADER"}

IsPrefixOf(s, t) == Len(s) <= Len(t) /\ SubSeq(t, 1, Len(s)) = s

CommittedPrefix(n) == SubSeq(log[n].entries, 1, log[n].commit)

\* Every variable has its type.  A learner keeps its role whatever it hears,
\* so it never starts an election (Tick) and never grants a vote.
TypeOK ==
    /\ role \in [Server -> Roles]
    /\ \A n \in Server : role[n] = "LEARNER" <=> n \in Learner
    /\ currentTerm \in [Server -> 0 .. MaxTerm]
    /\ votedFor \in [Server -> Server \cup {Nobody}]
    /\ log \in [Server -> LogRecord]
    /\ \A n \in Server : /\ matchIndex[n] \in [Peers(n) -> Nat]
                         /\ nextIndex[n] \in [Peers(n) -> Nat \ {0}]
    /\ votes \in [Server -> SUBSET Server]
    /\ IsFiniteSet(net)
    /\ elected \subseteq (0 .. MaxTerm) \X Server
    /\ leaks \subseteq {"usurped", "unverified"}

\* At most one node is ever made leader in a term, however votes are delayed,
\* repeated or lost (HandleRequestVote grants one candidate per term; spec.md,
\* User Story 1, scenario 1: exactly one leader for the current term).
ElectionSafety ==
    \A e, f \in elected : e[1] = f[1] => e[2] = f[2]

\* A leader never believes of a peer, nor builds a request for one, beyond the
\* end of its own log, although the acknowledgement names the end of the
\* receiver's log, which may be the longer one.
ProgressWithinLog ==
    \A n \in Server : role[n] = "LEADER" =>
        \A p \in Peers(n) : /\ matchIndex[n][p] <= LastIndex(log[n])
                            /\ nextIndex[n][p] <= LastIndex(log[n]) + 1

\* Entries with the same index and term are the same, and so are all before
\* them, unless a usurped leader ("usurped") has appended in a term not its own.
LogMatchingUnlessUsurped ==
    "usurped" \notin leaks =>
        \A a, b \in Server :
            \A i \in 1 .. LesserOf(LastIndex(log[a]), LastIndex(log[b])) :
                TermAt(log[a], i) = TermAt(log[b], i) =>
                    SubSeq(log[a].entries, 1, i) = SubSeq(log[b].entries, 1, i)

\* While neither rule of Raft is broken, no two nodes commit different entries
\* at an index.  The two leaks are therefore the only ways the core has to
\* commit wrongly.
StateMachineSafetyUnlessLeak ==
    leaks = {} =>
        \A a, b \in Server :
            \/ IsPrefixOf(CommittedPrefix(a), CommittedPrefix(b))
            \/ IsPrefixOf(CommittedPrefix(b), CommittedPrefix(a))

\* While neither rule is broken, a leader has every entry that any node of its
\* term or an earlier one has committed, so it never asks for it to be cut.
LeaderCompletenessUnlessLeak ==
    leaks = {} =>
        \A n, s \in Server :
            role[n] = "LEADER" /\ currentTerm[s] <= currentTerm[n] =>
                IsPrefixOf(CommittedPrefix(s), log[n].entries)

\* Whatever else has gone wrong, no node takes back or replaces an entry it has
\* committed: the log refuses the truncation and the request fails.
CommittedNeverRewritten ==
    [][\A n \in Server : IsPrefixOf(CommittedPrefix(n), CommittedPrefix(n)')]_vars

\* What the feature promises of an election: a term has one leader (spec.md,
\* User Story 1, scenario 1).
OneLeaderPerTerm ==
    \A a, b \in Server :
        role[a] = "LEADER" /\ role[b] = "LEADER" /\ currentTerm[a] = currentTerm[b]
            => a = b

\* What the feature promises of the committed state: all voters expose the same
\* (spec.md, User Story 1, scenario 2), here without help from a usurped leader.
CommittedAgreementUnlessUsurped ==
    "usurped" \notin leaks =>
        \A a, b \in Voter :
            \/ IsPrefixOf(CommittedPrefix(a), CommittedPrefix(b))
            \/ IsPrefixOf(CommittedPrefix(b), CommittedPrefix(a))
=============================================================================
