----------------------------- MODULE Membership -----------------------------
(***************************************************************************)
(* Configurations of a Raft group (raft/raft_membership.cpp): which nodes  *)
(* vote, which only learn, and what a change in two phases is leading to.  *)
(*                                                                         *)
(* A configuration travels in a log entry.  The codec sorts voters and     *)
(* learners and refuses what does not validate, so a member list is a set  *)
(* here and an entry that is built decodes to itself.  A member is its     *)
(* node; addresses are as unique as nodes (AddressOf says which clash).    *)
(***************************************************************************)
EXTENDS Naturals, FiniteSets

CONSTANTS Node,       \* every node that is or may become a member
          AddressOf   \* where a node listens

ASSUME NodeAssumption == IsFiniteSet(Node) /\ DOMAIN AddressOf = Node

MembershipView ==
    [id : Nat, voters : SUBSET Node, learners : SUBSET Node, active : BOOLEAN,
     nextVoters : SUBSET Node, nextLearners : SUBSET Node]

\* A default-constructed MembershipState: empty() holds of it alone.
NoMembership == [id |-> 0, voters |-> {}, learners |-> {}, active |-> FALSE,
                 nextVoters |-> {}, nextLearners |-> {}]

Stable(id, voters, learners) ==
    [id |-> id, voters |-> voters, learners |-> learners, active |-> FALSE,
     nextVoters |-> {}, nextLearners |-> {}]

Transition(c, nextVoters, nextLearners) ==
    [id |-> c.id + 1, voters |-> c.voters, learners |-> c.learners, active |-> TRUE,
     nextVoters |-> nextVoters, nextLearners |-> nextLearners]

ValidateMembershipView(c) ==
    /\ c.id # 0 /\ c.voters # {}
    /\ c.voters \cap c.learners = {}
    /\ IF c.active
       THEN c.nextVoters # {} /\ c.nextVoters \cap c.nextLearners = {}
       ELSE c.nextVoters = {} /\ c.nextLearners = {}

IsVoter(c, n) == n \in c.voters \/ (c.active /\ n \in c.nextVoters)
IsLearner(c, n) == n \in c.learners /\ ~(c.active /\ n \in c.nextVoters)

\* voter_ids_ and learner_ids_ of a core: in a transition a node has the higher
\* of its two ranks.
TransitionVoterIds(c) ==
    IF c.active THEN c.voters \cup c.nextVoters ELSE c.voters

TransitionLearnerIds(c) ==
    IF c.active THEN (c.learners \ c.nextVoters) \cup c.nextLearners ELSE c.learners

Members(c) == TransitionVoterIds(c) \cup TransitionLearnerIds(c)

\* Broken variant, for mutation: half of the voters will do.
IsHalfOf(some, voters) == Cardinality(some \cap voters) * 2 >= Cardinality(voters)

IsMajorityOf(some, voters) ==
    Cardinality(some \cap voters) >= Cardinality(voters) \div 2 + 1

\* Broken variant, for mutation: learners count.
EveryMemberCounts(c, some) == IsMajorityOf(some, Members(c))

\* HasJointQuorumAt of the core in a transition, else a majority of the voters.
HasQuorum(c, some) ==
    /\ IsMajorityOf(some, c.voters)
    /\ c.active => IsMajorityOf(some, c.nextVoters)

----------------------------------------------------------------------------
\* The four changes: what a call refuses, and the entry it builds.

CanAddLearner(c, n) ==
    /\ c # NoMembership /\ ~c.active
    /\ ~IsVoter(c, n) /\ ~IsLearner(c, n)
    /\ \A m \in c.voters \cup c.learners : AddressOf[m] # AddressOf[n]

BuildAddLearner(c, n) == Stable(c.id + 1, c.voters, c.learners \cup {n})

CanPromoteLearner(c, n) ==
    /\ c # NoMembership /\ ~c.active
    /\ ~IsVoter(c, n) /\ n \in c.learners

BuildPromoteLearner(c, n) == Transition(c, c.voters \cup {n}, c.learners \ {n})

CanRemoveMember(c, n) ==
    /\ c # NoMembership /\ ~c.active
    /\ n \in c.voters \cup c.learners
    /\ c.voters # {n}

\* A voter leaves in two phases, a learner at once.
BuildRemoveMember(c, n) ==
    IF n \in c.voters
    THEN Transition(c, c.voters \ {n}, c.learners)
    ELSE Stable(c.id + 1, c.voters, c.learners \ {n})

CanFinalize(c) == c # NoMembership /\ c.active

BuildFinalize(c) == Stable(c.id + 1, c.nextVoters, c.nextLearners)

\* d is a legal change of c.
IsSuccessor(c, d) ==
    \/ \E n \in Node :
          \/ CanAddLearner(c, n) /\ d = BuildAddLearner(c, n)
          \/ CanPromoteLearner(c, n) /\ d = BuildPromoteLearner(c, n)
          \/ CanRemoveMember(c, n) /\ d = BuildRemoveMember(c, n)
    \/ CanFinalize(c) /\ d = BuildFinalize(c)

----------------------------------------------------------------------------
\* ApplyCommitted: any valid entry of a higher id replaces the configuration;
\* that the id is the next one, or the change a legal one, is not looked at.
CanApplyCommitted(c, entry) ==
    /\ ValidateMembershipView(entry)
    /\ c = NoMembership \/ entry.id > c.id \/ entry = c

ApplyCommitted(c, entry) == entry
=============================================================================
