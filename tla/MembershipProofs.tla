-------------------------- MODULE MembershipProofs --------------------------
(***************************************************************************)
(* Proofs about MembershipChange, for every cluster and every bound.       *)
(* First what holds of configurations whatever the nodes are, and what an  *)
(* answer to a change is worth while the cluster has had one leader.  Then *)
(* the histories of a cluster that has had many, how they grow, and what   *)
(* a new leader has of them.  At the end, that each step of the cluster    *)
(* keeps a history its nodes agree with (HasHistory), until a node is      *)
(* elected with a change unapplied that it knows to be committed.          *)
(***************************************************************************)
EXTENDS MembershipChange, SequenceTheorems, FiniteSetTheorems, WellFoundedInduction, TLAPS

\* Two numbers above half of n are together above n.
LEMMA TwoMajorities ==
    ASSUME NEW n \in Nat, NEW a \in Nat, NEW b \in Nat,
           a >= n \div 2 + 1, b >= n \div 2 + 1
    PROVE  a + b > n
<1>1. n \div 2 \in Nat /\ 2 * (n \div 2) >= n - 1
  BY SMT
<1> QED
  BY <1>1

\* Two majorities of one set of voters share a voter.
LEMMA MajoritiesMeet ==
    ASSUME NEW V \in SUBSET Node, NEW q, NEW r,
           IsMajorityOf(q, V), IsMajorityOf(r, V)
    PROVE  (q \cap r) \cap V # {}
<1>1. IsFiniteSet(V) /\ Cardinality(V) \in Nat
  BY NodeAssumption, FS_Subset, FS_CardinalityType
<1>2. \A s : Cardinality(s \cap V) \in Nat
  BY <1>1, FS_Intersection, FS_CardinalityType
<1>3. Cardinality(q \cap V) + Cardinality(r \cap V) > Cardinality(V)
  BY <1>1, <1>2, TwoMajorities DEF IsMajorityOf
<1>4. (q \cap V) \cap (r \cap V) # {}
  BY <1>1, <1>3, FS_MajoritiesIntersect
<1> QED
  BY <1>4

\* Every legal change of a valid configuration is one: it has a voter, nobody is
\* voter and learner at once, and a transition knows where it leads
\* (ValidateMembershipView of the entries that BuildAddLearner,
\* BuildPromoteLearner, BuildRemoveMember and BuildFinalize make).
THEOREM SuccessorIsValid ==
    ASSUME NEW c \in MembershipView, ValidateMembershipView(c),
           NEW d, IsSuccessor(c, d)
    PROVE  d \in MembershipView /\ ValidateMembershipView(d)
<1>1. /\ c.id \in Nat /\ c.id + 1 \in Nat /\ c.id + 1 # 0
      /\ c.voters \in SUBSET Node /\ c.learners \in SUBSET Node
      /\ c.nextVoters \in SUBSET Node /\ c.nextLearners \in SUBSET Node
  BY DEF MembershipView
<1>2. ASSUME NEW v \in SUBSET Node, NEW l \in SUBSET Node, v # {}, v \cap l = {},
             d = Stable(c.id + 1, v, l)
      PROVE  d \in MembershipView /\ ValidateMembershipView(d)
  BY <1>1, <1>2 DEF Stable, MembershipView, ValidateMembershipView
<1>3. ASSUME NEW v \in SUBSET Node, NEW l \in SUBSET Node, v # {}, v \cap l = {},
             d = Transition(c, v, l)
      PROVE  d \in MembershipView /\ ValidateMembershipView(d)
  BY <1>1, <1>3 DEF Transition, MembershipView, ValidateMembershipView
<1>4. c.voters # {} /\ c.voters \cap c.learners = {}
  BY DEF ValidateMembershipView
<1>5. ASSUME NEW n \in Node, CanAddLearner(c, n), d = BuildAddLearner(c, n)
      PROVE  d \in MembershipView /\ ValidateMembershipView(d)
  <2>1. n \notin c.voters
    BY <1>5 DEF CanAddLearner, IsVoter
  <2>2. c.voters \cap (c.learners \cup {n}) = {} /\ c.learners \cup {n} \in SUBSET Node
    BY <1>1, <1>4, <2>1
  <2> QED
    BY <1>1, <1>2, <1>4, <1>5, <2>2 DEF BuildAddLearner
<1>6. ASSUME NEW n \in Node, CanPromoteLearner(c, n), d = BuildPromoteLearner(c, n)
      PROVE  d \in MembershipView /\ ValidateMembershipView(d)
  <2>1. /\ c.voters \cup {n} \in SUBSET Node /\ c.learners \ {n} \in SUBSET Node
        /\ c.voters \cup {n} # {} /\ (c.voters \cup {n}) \cap (c.learners \ {n}) = {}
    BY <1>1, <1>4
  <2> QED
    BY <1>3, <1>6, <2>1 DEF BuildPromoteLearner
<1>7. ASSUME NEW n \in Node, CanRemoveMember(c, n), d = BuildRemoveMember(c, n)
      PROVE  d \in MembershipView /\ ValidateMembershipView(d)
  <2>1. CASE n \in c.voters
    <3>1. /\ c.voters \ {n} \in SUBSET Node /\ c.voters \ {n} # {}
          /\ (c.voters \ {n}) \cap c.learners = {}
      BY <1>1, <1>4, <1>7, <2>1 DEF CanRemoveMember
    <3> QED
      BY <1>1, <1>3, <1>7, <2>1, <3>1 DEF BuildRemoveMember
  <2>2. CASE n \notin c.voters
    <3>1. c.learners \ {n} \in SUBSET Node /\ c.voters \cap (c.learners \ {n}) = {}
      BY <1>1, <1>4
    <3> QED
      BY <1>1, <1>2, <1>4, <1>7, <2>2, <3>1 DEF BuildRemoveMember
  <2> QED
    BY <2>1, <2>2
<1>8. ASSUME CanFinalize(c), d = BuildFinalize(c)
      PROVE  d \in MembershipView /\ ValidateMembershipView(d)
  <2>1. c.nextVoters # {} /\ c.nextVoters \cap c.nextLearners = {}
    BY <1>8 DEF CanFinalize, ValidateMembershipView
  <2> QED
    BY <1>1, <1>2, <1>8, <2>1 DEF BuildFinalize
<1> QED
  BY <1>5, <1>6, <1>7, <1>8 DEF IsSuccessor

\* Nodes that count with a configuration and nodes that count with the legal
\* change that follows it cannot decide apart from each other: their quorums
\* share a node that votes in both.  This is what the two phases are for (spec.md
\* FR-040), and why CommittedAgreementUnlessLeak is about configurations two
\* changes apart.
THEOREM SuccessiveQuorumsMeet ==
    ASSUME NEW c \in MembershipView, ValidateMembershipView(c),
           NEW d, IsSuccessor(c, d),
           NEW q, NEW r, HasQuorum(c, q), HasQuorum(d, r)
    PROVE  \E n \in q \cap r : n \in TransitionVoterIds(c) /\ n \in TransitionVoterIds(d)
<1>1. /\ c.id + 1 \in Nat
      /\ c.voters \in SUBSET Node /\ c.learners \in SUBSET Node
      /\ c.nextVoters \in SUBSET Node /\ c.nextLearners \in SUBSET Node
  BY DEF MembershipView
<1>2. CASE ~c.active
  <2>1. ASSUME NEW n \in Node, d = BuildAddLearner(c, n)
        PROVE  d.voters = c.voters
    BY <1>1, <2>1 DEF Stable, BuildAddLearner
  <2>2. ASSUME NEW n \in Node, d = BuildPromoteLearner(c, n)
        PROVE  d.voters = c.voters
    BY <1>1, <2>2 DEF Transition, BuildPromoteLearner
  <2>3. ASSUME NEW n \in Node, d = BuildRemoveMember(c, n)
        PROVE  d.voters = c.voters
    <3>1. CASE n \in c.voters
      BY <1>1, <2>3, <3>1 DEF Transition, BuildRemoveMember
    <3>2. CASE n \notin c.voters
      BY <1>1, <2>3, <3>2 DEF Stable, BuildRemoveMember
    <3> QED
      BY <3>1, <3>2
  <2>4. d.voters = c.voters
    BY <1>2, <2>1, <2>2, <2>3 DEF IsSuccessor, CanFinalize
  <2>5. (q \cap r) \cap c.voters # {}
    BY <1>1, <2>4, MajoritiesMeet DEF HasQuorum
  <2> QED
    BY <2>4, <2>5 DEF TransitionVoterIds
<1>3. CASE c.active
  <2>1. d = BuildFinalize(c)
    BY <1>3 DEF IsSuccessor, CanAddLearner, CanPromoteLearner, CanRemoveMember
  <2>2. d.voters = c.nextVoters
    BY <1>1, <2>1 DEF Stable, BuildFinalize
  <2>3. (q \cap r) \cap c.nextVoters # {}
    BY <1>1, <1>3, <2>2, MajoritiesMeet DEF HasQuorum
  <2> QED
    BY <1>3, <2>2, <2>3 DEF TransitionVoterIds
<1> QED
  BY <1>2, <1>3

----------------------------------------------------------------------------
(***************************************************************************)
(* What the state of MembershipChange is made of.  Unlike TypeOK this says *)
(* nothing of match and active, which no argument below depends on.        *)
(***************************************************************************)
ValidView == {c \in MembershipView : ValidateMembershipView(c)}

Tracked == [index : Nat, awaiting : BOOLEAN, entry : Entry \cup {<< >>}]

Role == {"LEARNER", "FOLLOWER", "CANDIDATE", "LEADER"}

\* The indexes of one node.
InOrder(n) == applied[n] <= commit[n] /\ commit[n] <= Len(log[n])

ChangeTyped ==
    /\ role \in [Node -> Role] /\ currentTerm \in [Node -> Nat]
    /\ log \in [Node -> Seq(Entry)]
    /\ commit \in [Node -> Nat] /\ applied \in [Node -> Nat]
    /\ conf \in [Node -> ValidView]
    /\ pending \in [Node -> Tracked]
    /\ \A n \in Node : InOrder(n)

LEMMA NodeFacts ==
  ASSUME ChangeTyped, NEW n \in Node
  PROVE  /\ role[n] \in Role /\ currentTerm[n] \in Nat
         /\ log[n] \in Seq(Entry) /\ Len(log[n]) \in Nat
         /\ commit[n] \in Nat /\ applied[n] \in Nat
         /\ conf[n] \in MembershipView /\ ValidateMembershipView(conf[n])
         /\ pending[n] \in Tracked /\ pending[n].index \in Nat
         /\ applied[n] <= commit[n] /\ commit[n] <= Len(log[n])
<1>1. /\ role[n] \in Role /\ currentTerm[n] \in Nat /\ log[n] \in Seq(Entry)
      /\ commit[n] \in Nat /\ applied[n] \in Nat /\ conf[n] \in ValidView
      /\ pending[n] \in Tracked /\ InOrder(n)
  BY DEF ChangeTyped
<1>2. Len(log[n]) \in Nat
  BY <1>1, LenProperties
<1>3. QED BY <1>1, <1>2 DEF ValidView, InOrder, Tracked

\* A set of numbers up to b has a largest one.
LEMMA HasGreatest ==
  ASSUME NEW T, T \subseteq Nat, T # {}, NEW b \in Nat, \A k \in T : k <= b
  PROVE  \E m \in T : \A k \in T : k <= m
<1> DEFINE Gap == {b - k : k \in T}
<1>1. Gap \subseteq Nat /\ Gap # {}
  <2>1. \A k \in T : b - k \in Nat
    OBVIOUS
  <2>2. \E k \in T : TRUE
    OBVIOUS
  <2>3. QED BY <2>1, <2>2
<1>2. PICK g \in Gap : \A k \in Gap : ~(<<k, g>> \in OpToRel(<, Nat))
  BY <1>1, WFMin, NatLessThanWellFounded, Zenon
<1>3. PICK m \in T : g = b - m
  OBVIOUS
<1>4. ASSUME NEW k \in T
      PROVE  k <= m
  <2>1. b - k \in Gap /\ b - k \in Nat /\ g \in Nat
    BY <1>1, <1>2
  <2>2. ~(b - k < g)
    BY <1>2, <2>1 DEF OpToRel
  <2>3. QED BY <1>3, <2>2
<1>5. QED BY <1>4

LEMMA GreatestExists ==
  ASSUME NEW T, T \subseteq Nat, T # {}, NEW b \in Nat, \A k \in T : k <= b
  PROVE  (CHOOSE m \in T : \A k \in T : k <= m) \in T
BY HasGreatest

LEMMA MaxFacts ==
  ASSUME NEW T, T \subseteq Nat, T # {}, NEW b \in Nat, \A k \in T : k <= b
  PROVE  Max(T) \in T /\ \A k \in T : k <= Max(T)
<1>1. \E m \in T : \A k \in T : m >= k
  BY HasGreatest
<1>2. Max(T) \in T /\ \A k \in T : Max(T) >= k
  BY <1>1 DEF Max
<1>3. QED BY <1>2

\* What TryAdvanceCommitIndex sets the commit index to.
LEMMA CommittedFacts ==
  ASSUME ChangeTyped, NEW n \in Node, NEW c, NEW l \in Seq(Entry), NEW m,
         commit[n] <= Len(l)
  PROVE  /\ Committed(n, c, l, m) \in Nat /\ commit[n] <= Committed(n, c, l, m)
         /\ Committed(n, c, l, m) <= Len(l)
<1> DEFINE ready == {i \in commit[n] + 1 .. Len(l) :
                        /\ l[i].term = currentTerm[n]
                        /\ HasQuorum(c, Holders(n, i, l, m))}
           greatest == CHOOSE i \in ready : \A j \in ready : j <= i
<1>1. commit[n] \in Nat /\ Len(l) \in Nat
  BY NodeFacts, LenProperties
<1>2. ready \subseteq commit[n] + 1 .. Len(l) /\ ready \subseteq Nat
      /\ \A i \in ready : i <= Len(l) /\ commit[n] <= i
  BY <1>1
<1>3. Committed(n, c, l, m) = IF ready = {} THEN commit[n] ELSE greatest
  BY DEF Committed
<1>4. ready # {} => greatest \in ready
  <2> HIDE DEF ready
  <2>1. QED BY <1>1, <1>2, GreatestExists
<1> DEFINE r == Committed(n, c, l, m)
<1> HIDE DEF ready, greatest, r
<1>5. CASE ready = {}
  <2>1. r = commit[n]
    BY <1>3, <1>5 DEF r
  <2>2. QED BY <1>1, <2>1 DEF r
<1>6. CASE ready # {}
  <2>1. r = greatest
    BY <1>3, <1>6 DEF r
  <2>2. r \in Nat /\ commit[n] <= r /\ r <= Len(l)
    BY <1>2, <1>4, <1>6, <2>1
  <2>3. QED BY <2>2 DEF r
<1>7. QED BY <1>5, <1>6

\* A log with one entry more.
LEMMA AppendedFacts ==
  ASSUME ChangeTyped, NEW n \in Node, NEW c \in MembershipView
  PROVE  LET l == Appended(n, c)
         IN  /\ l \in Seq(Entry) /\ Len(l) = Len(log[n]) + 1
             /\ \A i \in 1 .. Len(log[n]) : l[i] = log[n][i]
             /\ Last(l) = l[Len(log[n]) + 1] /\ Last(l) \in Entry /\ Last(l).conf = c
<1> DEFINE e == [term |-> currentTerm[n], by |-> n, conf |-> c]
           l == Append(log[n], e)
<1>1. log[n] \in Seq(Entry) /\ e \in Entry /\ e.conf = c
  BY NodeFacts DEF Entry
<1> HIDE DEF e
<1>2. /\ l \in Seq(Entry) /\ Len(l) = Len(log[n]) + 1
      /\ \A i \in 1 .. Len(log[n]) : l[i] = log[n][i]
      /\ l[Len(log[n]) + 1] = e
  BY <1>1, AppendProperties
<1> HIDE DEF l
<1>3. Last(l) = e
  BY <1>2 DEF Last
<1>4. Appended(n, c) = l
  BY DEF Appended, l, e
<1>5. QED BY <1>1, <1>2, <1>3, <1>4

LEMMA HasLeast ==
  ASSUME NEW T, T \subseteq Nat, T # {}
  PROVE  \E m \in T : \A k \in T : m <= k
<1>1. PICK m \in T : \A k \in T : ~(<<k, m>> \in OpToRel(<, Nat))
  BY WFMin, NatLessThanWellFounded, Zenon
<1>2. ASSUME NEW k \in T
      PROVE  m <= k
  <2>1. k \in Nat /\ m \in Nat /\ ~(k < m)
    BY <1>1 DEF OpToRel
  <2>2. QED BY <2>1
<1>3. QED BY <1>2

LEMMA LeastExists ==
  ASSUME NEW T, T \subseteq Nat, T # {}
  PROVE  (CHOOSE m \in T : \A k \in T : m <= k) \in T
BY HasLeast

\* A merge keeps a log a log, and cuts nothing below the first difference.
LEMMA MergeFacts ==
  ASSUME NEW o \in Seq(Entry), NEW t \in Seq(Entry), NEW k \in Nat, k <= Len(o),
         FirstDifference(o, t) = 0 \/ FirstDifference(o, t) > k
  PROVE  MergeEntries(o, t) \in Seq(Entry) /\ k <= Len(MergeEntries(o, t))
<1> DEFINE both == {i \in DOMAIN o \cap DOMAIN t : o[i].term # t[i].term}
           least == CHOOSE i \in both : \A j \in both : i <= j
           at == FirstDifference(o, t)
           merged == MergeEntries(o, t)
           cut == SubSeq(o, 1, at - 1)
           new == SubSeq(t, at, Len(t))
           more == SubSeq(t, Len(o) + 1, Len(t))
<1>1. /\ Len(o) \in Nat /\ Len(t) \in Nat /\ DOMAIN o = 1 .. Len(o) /\ DOMAIN t = 1 .. Len(t)
  BY LenProperties
<1>2. at = IF both = {} THEN 0 ELSE least
  BY DEF FirstDifference
<1>3. both \subseteq Nat /\ \A i \in both : i \in 1 .. Len(o) /\ i \in 1 .. Len(t)
  BY <1>1
<1>4. both # {} => least \in both
  <2> HIDE DEF both
  <2>1. QED BY <1>3, LeastExists
<1> HIDE DEF both, least
<1>5. at # 0 => at \in 1 .. Len(o) /\ at \in 1 .. Len(t)
  BY <1>2, <1>3, <1>4
<1>6. merged = IF at # 0 THEN cut \o new ELSE IF Len(t) > Len(o) THEN o \o more ELSE o
  BY DEF MergeEntries
<1> HIDE DEF at, merged
<1>7. CASE at # 0
  <2>1. at \in Nat /\ at - 1 \in 0 .. Len(o) /\ 1 \in Nat /\ Len(t) - at + 1 >= 0
    BY <1>1, <1>5, <1>7
  <2>2. cut \in Seq(Entry) /\ Len(cut) = at - 1
    <3>1. /\ \A i \in 1 .. at - 1 : o[i] \in Entry
          /\ at - 1 \in Nat
      BY <1>1, <2>1, ElementOfSeq
    <3>2. cut \in Seq(Entry) /\ Len(cut) = IF 1 <= at - 1 THEN at - 1 - 1 + 1 ELSE 0
      BY <3>1, SubSeqProperties
    <3>3. (IF 1 <= at - 1 THEN at - 1 - 1 + 1 ELSE 0) = at - 1
      BY <2>1
    <3>4. QED BY <3>2, <3>3
  <2>3. new \in Seq(Entry)
    <3>1. \A i \in at .. Len(t) : t[i] \in Entry
      <4>1. \A i \in at .. Len(t) : i \in 1 .. Len(t)
        BY <1>1, <1>5, <1>7
      <4>2. QED BY <4>1, ElementOfSeq
    <3>2. QED BY <1>1, <2>1, <3>1, SubSeqProperties
  <2>4. cut \o new \in Seq(Entry) /\ Len(cut \o new) = Len(cut) + Len(new)
    BY <2>2, <2>3, ConcatProperties
  <2>5. Len(new) \in Nat
    BY <2>3, LenProperties
  <2>6. k <= at - 1
    BY <1>7, <2>1 DEF at
  <2> HIDE DEF cut, new
  <2>7. k <= Len(cut) + Len(new)
    BY <2>1, <2>2, <2>5, <2>6
  <2>8. merged \in Seq(Entry) /\ k <= Len(merged)
    BY <1>6, <1>7, <2>4, <2>7
  <2>9. QED BY <2>8 DEF merged
<1>8. CASE at = 0 /\ Len(t) > Len(o)
  <2>1. more \in Seq(Entry)
    <3>1. \A i \in Len(o) + 1 .. Len(t) : t[i] \in Entry
      <4>1. \A i \in Len(o) + 1 .. Len(t) : i \in 1 .. Len(t)
        BY <1>1
      <4>2. QED BY <4>1, ElementOfSeq
    <3>2. Len(o) + 1 \in Nat
      BY <1>1
    <3>3. QED BY <1>1, <3>1, <3>2, SubSeqProperties
  <2>2. o \o more \in Seq(Entry) /\ Len(o \o more) = Len(o) + Len(more) /\ Len(more) \in Nat
    BY <2>1, ConcatProperties, LenProperties
  <2> HIDE DEF more
  <2>3. merged = o \o more
    BY <1>6, <1>8
  <2>4. k <= Len(o) + Len(more)
    BY <1>1, <2>2
  <2>5. merged \in Seq(Entry) /\ k <= Len(merged)
    BY <2>2, <2>3, <2>4
  <2>6. QED BY <2>5 DEF merged
<1>9. CASE at = 0 /\ ~(Len(t) > Len(o))
  <2>1. merged = o
    BY <1>6, <1>9
  <2>2. QED BY <2>1 DEF merged
<1>10. QED BY <1>7, <1>8, <1>9

\* What the changes a leader asks for make of it: it stays a voter of a first
\* phase, and the other changes are no transition.
LEMMA ChangeFacts ==
  ASSUME NEW c \in MembershipView, NEW n \in TransitionVoterIds(c), NEW p \in Node
  PROVE  /\ CanAddLearner(c, p) =>
               /\ IsSuccessor(c, BuildAddLearner(c, p))
               /\ ~BuildAddLearner(c, p).active
         /\ CanPromoteLearner(c, p) =>
               /\ IsSuccessor(c, BuildPromoteLearner(c, p))
               /\ n \in TransitionVoterIds(BuildPromoteLearner(c, p))
         /\ CanRemoveMember(c, p) =>
               /\ IsSuccessor(c, BuildRemoveMember(c, p))
               /\ n \in TransitionVoterIds(BuildRemoveMember(c, p))
         /\ CanFinalize(c) => IsSuccessor(c, BuildFinalize(c)) /\ ~BuildFinalize(c).active
<1>1. ~c.active => n \in c.voters
  BY DEF TransitionVoterIds
<1>2. ASSUME CanAddLearner(c, p)
      PROVE  IsSuccessor(c, BuildAddLearner(c, p)) /\ ~BuildAddLearner(c, p).active
  BY <1>2 DEF IsSuccessor, BuildAddLearner, Stable
<1>3. ASSUME CanPromoteLearner(c, p)
      PROVE  /\ IsSuccessor(c, BuildPromoteLearner(c, p))
             /\ n \in TransitionVoterIds(BuildPromoteLearner(c, p))
  <2>1. n \in c.voters
    BY <1>1, <1>3 DEF CanPromoteLearner
  <2>2. QED BY <1>3, <2>1 DEF IsSuccessor, BuildPromoteLearner, Transition, TransitionVoterIds
<1>4. ASSUME CanRemoveMember(c, p)
      PROVE  /\ IsSuccessor(c, BuildRemoveMember(c, p))
             /\ n \in TransitionVoterIds(BuildRemoveMember(c, p))
  <2>1. n \in c.voters
    BY <1>1, <1>4 DEF CanRemoveMember
  <2>2. CASE p \in c.voters
    BY <1>4, <2>1, <2>2 DEF IsSuccessor, BuildRemoveMember, Transition, TransitionVoterIds
  <2>3. CASE p \notin c.voters
    BY <1>4, <2>1, <2>3 DEF IsSuccessor, BuildRemoveMember, Stable, TransitionVoterIds
  <2>4. QED BY <2>2, <2>3
<1>5. ASSUME CanFinalize(c)
      PROVE  IsSuccessor(c, BuildFinalize(c)) /\ ~BuildFinalize(c).active
  BY <1>5 DEF IsSuccessor, BuildFinalize, Stable
<1>6. QED BY <1>2, <1>3, <1>4, <1>5

----------------------------------------------------------------------------
\* What the parts of the actions do.

LEMMA NoneIsView == NoMembership \in MembershipView
  BY DEF NoMembership, MembershipView

LEMMA AppendAndCommitFacts ==
  ASSUME ChangeTyped, NEW n \in Node, NEW c \in MembershipView, AppendAndCommit(n, c)
  PROVE  /\ log' \in [Node -> Seq(Entry)] /\ commit' \in [Node -> Nat]
         /\ log'[n] = Appended(n, c)
         /\ \A m \in Node \ {n} : log'[m] = log[m] /\ commit'[m] = commit[m]
         /\ applied' = applied => \A m \in Node : InOrder(m)'
<1> DEFINE l == Appended(n, c)
           k == Committed(n, conf[n], l, match[n])
<1>1. l \in Seq(Entry) /\ Len(l) = Len(log[n]) + 1
  BY AppendedFacts
<1>2. commit[n] <= Len(l)
  BY <1>1, NodeFacts
<1>3. k \in Nat /\ commit[n] <= k /\ k <= Len(l)
  BY <1>1, <1>2, CommittedFacts
<1>4. log' = [log EXCEPT ![n] = l] /\ commit' = [commit EXCEPT ![n] = k]
  BY DEF AppendAndCommit
<1> HIDE DEF l, k
<1>5. log \in [Node -> Seq(Entry)] /\ commit \in [Node -> Nat]
  BY DEF ChangeTyped
<1>6. /\ log' \in [Node -> Seq(Entry)] /\ commit' \in [Node -> Nat]
      /\ log'[n] = l /\ commit'[n] = k
      /\ \A m \in Node \ {n} : log'[m] = log[m] /\ commit'[m] = commit[m]
  BY <1>1, <1>3, <1>4, <1>5
<1>7. ASSUME applied' = applied, NEW m \in Node
      PROVE  InOrder(m)'
  <2>1. /\ applied[m] <= commit[m] /\ commit[m] <= Len(log[m])
        /\ applied[n] <= commit[n] /\ applied[n] \in Nat /\ commit[n] \in Nat
    BY NodeFacts
  <2>2. CASE m = n
    <3>1. applied'[n] <= commit'[n] /\ commit'[n] <= Len(log'[n])
      BY <1>3, <1>6, <1>7, <2>1
    <3>2. QED BY <2>2, <3>1 DEF InOrder
  <2>3. CASE m # n
    BY <1>6, <1>7, <2>1, <2>3 DEF InOrder
  <2>4. QED BY <2>2, <2>3
<1>8. QED BY <1>6, <1>7 DEF l

\* The entry that is remembered.
LEMMA TrackFacts ==
  ASSUME ChangeTyped, NEW n \in Node, NEW c \in MembershipView, NEW b \in BOOLEAN,
         Track(n, c, b)
  PROVE  /\ pending' \in [Node -> Tracked]
         /\ pending'[n] = [index |-> Len(log[n]) + 1, awaiting |-> b,
                           entry |-> Last(Appended(n, c))]
         /\ \A m \in Node \ {n} : pending'[m] = pending[m]
<1> DEFINE p == [index |-> Len(log[n]) + 1, awaiting |-> b, entry |-> Last(Appended(n, c))]
<1>1. Last(Appended(n, c)) \in Entry /\ Len(log[n]) + 1 \in Nat
  BY AppendedFacts, NodeFacts
<1>2. p \in Tracked
  BY <1>1 DEF Tracked
<1>3. pending' = [pending EXCEPT ![n] = p] /\ pending \in [Node -> Tracked]
  BY DEF Track, ChangeTyped
<1> HIDE DEF p
<1>4. /\ pending' \in [Node -> Tracked] /\ pending'[n] = p
      /\ \A m \in Node \ {n} : pending'[m] = pending[m]
  BY <1>2, <1>3
<1>5. QED BY <1>4 DEF p

\* What applying an entry does to the node.
LEMMA ApplyFacts ==
  ASSUME ChangeTyped, NEW n \in Node, ApplyNext(n)
  PROVE  /\ applied[n] + 1 \in 1 .. Len(log[n]) /\ applied[n] + 1 <= commit[n]
         /\ NextEntry(n) \in Entry
         /\ applied' \in [Node -> Nat] /\ applied'[n] = applied[n] + 1
         /\ conf' \in [Node -> ValidView] /\ role' \in [Node -> Role]
         /\ currentTerm' = currentTerm
         /\ \A m \in Node \ {n} : /\ applied'[m] = applied[m] /\ conf'[m] = conf[m]
                                  /\ role'[m] = role[m]
         /\ IF IsChange(NextEntry(n))
            THEN /\ conf'[n] = NextEntry(n).conf
                 /\ role'[n] = IF n \in TransitionVoterIds(conf'[n]) THEN role[n] ELSE "LEARNER"
            ELSE conf'[n] = conf[n] /\ role'[n] = role[n]
<1>1. /\ log[n] \in Seq(Entry) /\ Len(log[n]) \in Nat /\ commit[n] \in Nat
      /\ applied[n] \in Nat /\ applied[n] <= commit[n] /\ commit[n] <= Len(log[n])
      /\ role[n] \in Role
  BY NodeFacts
<1>2. applied[n] < commit[n] /\ applied' = [applied EXCEPT ![n] = @ + 1]
      /\ currentTerm' = currentTerm
  BY DEF ApplyNext
<1>3. applied[n] + 1 \in 1 .. Len(log[n]) /\ applied[n] + 1 <= commit[n]
  BY <1>1, <1>2
<1>4. NextEntry(n) \in Entry
  BY <1>1, <1>3, ElementOfSeq DEF NextEntry
<1>5. /\ applied \in [Node -> Nat] /\ conf \in [Node -> ValidView] /\ role \in [Node -> Role]
  BY DEF ChangeTyped
<1>6. /\ applied' \in [Node -> Nat] /\ applied'[n] = applied[n] + 1
      /\ \A m \in Node \ {n} : applied'[m] = applied[m]
  BY <1>1, <1>2, <1>5
<1>7. CASE IsChange(NextEntry(n))
  <2> DEFINE c == NextEntry(n).conf
             r == IF n \in TransitionVoterIds(c) THEN role[n] ELSE "LEARNER"
  <2>1. c \in ValidView
    <3>1. ValidateMembershipView(c)
      BY <1>7 DEF ApplyNext, CanApplyCommitted
    <3>2. c \in MembershipView
      BY <1>4 DEF Entry
    <3>3. QED BY <3>1, <3>2 DEF ValidView
  <2>2. conf' = [conf EXCEPT ![n] = c] /\ role' = [role EXCEPT ![n] = r]
    BY <1>7 DEF ApplyNext, TakeEffect, ApplyCommitted
  <2>3. r \in Role
    BY <1>1 DEF Role
  <2> HIDE DEF c, r
  <2>4. /\ conf' \in [Node -> ValidView] /\ role' \in [Node -> Role]
        /\ conf'[n] = c /\ role'[n] = r
        /\ \A m \in Node \ {n} : conf'[m] = conf[m] /\ role'[m] = role[m]
    BY <1>5, <2>1, <2>2, <2>3
  <2>5. QED BY <1>2, <1>3, <1>4, <1>6, <1>7, <2>4 DEF c, r
<1>8. CASE ~IsChange(NextEntry(n))
  <2>1. conf' = conf /\ role' = role
    BY <1>8 DEF ApplyNext
  <2>2. QED BY <1>2, <1>3, <1>4, <1>5, <1>6, <1>8, <2>1
<1>9. QED BY <1>7, <1>8

LEMMA PrefixFacts ==
  ASSUME NEW s \in Seq(Entry), NEW k \in 0 .. Len(s)
  PROVE  /\ SubSeq(s, 1, k) \in Seq(Entry) /\ Len(SubSeq(s, 1, k)) = k /\ k \in Nat
         /\ \A x \in 1 .. k : SubSeq(s, 1, k)[x] = s[x]
<1>1. Len(s) \in Nat
  BY LenProperties
<1>2. k \in Nat /\ \A x \in 1 .. k : x \in 1 .. Len(s) /\ s[x] \in Entry
  <2>1. \A x \in 1 .. k : x \in 1 .. Len(s)
    BY <1>1
  <2>2. QED BY <1>1, <2>1, ElementOfSeq
<1>3. /\ SubSeq(s, 1, k) \in Seq(Entry)
      /\ Len(SubSeq(s, 1, k)) = IF 1 <= k THEN k - 1 + 1 ELSE 0
      /\ \A x \in 1 .. k : SubSeq(s, 1, k)[x] = s[x]
  BY <1>1, <1>2, SubSeqProperties
<1>4. QED BY <1>2, <1>3

\* What a request of the leader does to the follower.
LEMMA FollowLeaderFacts ==
  ASSUME ChangeTyped, NEW n \in Node, NEW m \in Node, FollowLeader(n, m)
  PROVE  /\ role[n] = "LEADER" /\ m # n /\ role[m] # "LEADER"
         /\ currentTerm' \in [Node -> Nat] /\ currentTerm'[m] = currentTerm[n]
         /\ currentTerm[m] <= currentTerm[n]
         /\ \A v \in Node \ {m} : currentTerm'[v] = currentTerm[v]
BY DEF FollowLeader, ChangeTyped

LEMMA ReceiveFacts ==
  ASSUME ChangeTyped, NEW n \in Node, NEW m \in Node, NEW k \in 0 .. Len(log[n]),
         NEW i \in commit[m] .. Larger(commit[m], commit[n]), Receive(n, m, k)
  PROVE  /\ log' \in [Node -> Seq(Entry)] /\ commit[m] <= Len(log'[m])
         /\ log'[m] = MergeEntries(log[m], SubSeq(log[n], 1, k))
         /\ \A v \in Node \ {m} : log'[v] = log[v]
         /\ i \in Nat /\ (i <= commit[m] \/ i <= commit[n])
         /\ FollowCommit(m, i) \in Nat /\ commit[m] <= FollowCommit(m, i)
         /\ FollowCommit(m, i) <= Len(log'[m])
<1> DEFINE sent == SubSeq(log[n], 1, k)
           merged == MergeEntries(log[m], sent)
<1>1. /\ log[m] \in Seq(Entry) /\ log[n] \in Seq(Entry) /\ commit[m] \in Nat
      /\ commit[n] \in Nat /\ commit[m] <= Len(log[m])
  BY NodeFacts
<1>2. FirstDifference(log[m], sent) = 0 \/ FirstDifference(log[m], sent) > commit[m]
  BY DEF Receive
<1>3. sent \in Seq(Entry)
  BY <1>1, PrefixFacts
<1>4. log' = [log EXCEPT ![m] = merged]
  BY DEF Receive
<1> HIDE DEF sent
<1>5. merged \in Seq(Entry) /\ commit[m] <= Len(merged) /\ Len(merged) \in Nat
  BY <1>1, <1>2, <1>3, MergeFacts, LenProperties
<1> HIDE DEF merged
<1>6. log' \in [Node -> Seq(Entry)] /\ log'[m] = merged /\ \A v \in Node \ {m} : log'[v] = log[v]
  BY <1>4, <1>5 DEF ChangeTyped
<1>7. i \in Nat /\ (i <= commit[m] \/ i <= commit[n])
  BY <1>1 DEF Larger
<1>8. /\ FollowCommit(m, i) \in Nat /\ commit[m] <= FollowCommit(m, i)
      /\ FollowCommit(m, i) <= Len(log'[m])
  BY <1>1, <1>5, <1>6, <1>7 DEF FollowCommit, Larger, Smaller
<1>9. QED BY <1>5, <1>6, <1>7, <1>8 DEF merged, sent

----------------------------------------------------------------------------
\* Every action keeps the state what it is made of.

LEMMA RequestTyped ==
  ASSUME ChangeTyped, NEW n \in Node, NEW c \in MembershipView, NEW phases \in Nat,
         Request(n, c, phases)
  PROVE  ChangeTyped'
<1>1. /\ AppendAndCommit(n, c) /\ Track(n, c, phases = 2) /\ (phases = 2) \in BOOLEAN
      /\ UNCHANGED <<role, currentTerm, applied, conf>>
  BY DEF Request
<1>2. /\ log' \in [Node -> Seq(Entry)] /\ commit' \in [Node -> Nat]
      /\ \A m \in Node : InOrder(m)'
  BY <1>1, AppendAndCommitFacts
<1>3. pending' \in [Node -> Tracked]
  BY <1>1, TrackFacts
<1>4. QED BY <1>1, <1>2, <1>3 DEF ChangeTyped

LEMMA ChangeTypedInit == Init => ChangeTyped
<1> SUFFICES ASSUME Init PROVE ChangeTyped
  OBVIOUS
<1>1. Stable(1, Voters, Learners) \in ValidView
  BY InitialAssumption DEF ValidView, Stable, MembershipView
<1>2. << >> \in Seq(Entry) /\ Len(<< >>) = 0
  BY EmptySeq
<1>3. NoChange \in Tracked
  BY DEF NoChange, Tracked
<1>4. \A n \in Node : InOrder(n)
  BY <1>2 DEF Init, InOrder
<1>5. QED BY <1>1, <1>2, <1>3, <1>4 DEF Init, ChangeTyped, Role

LEMMA BuiltIsView ==
  ASSUME ChangeTyped, NEW n \in Node, NEW p \in Node
  PROVE  /\ CanAddLearner(conf[n], p) => BuildAddLearner(conf[n], p) \in MembershipView
         /\ CanPromoteLearner(conf[n], p) => BuildPromoteLearner(conf[n], p) \in MembershipView
         /\ CanRemoveMember(conf[n], p) => BuildRemoveMember(conf[n], p) \in MembershipView
<1>1. conf[n] \in MembershipView /\ ValidateMembershipView(conf[n])
  BY NodeFacts
<1>2. ASSUME CanAddLearner(conf[n], p)
      PROVE  BuildAddLearner(conf[n], p) \in MembershipView
  <2>1. IsSuccessor(conf[n], BuildAddLearner(conf[n], p))
    BY <1>2 DEF IsSuccessor
  <2>2. QED BY <1>1, <2>1, SuccessorIsValid
<1>3. ASSUME CanPromoteLearner(conf[n], p)
      PROVE  BuildPromoteLearner(conf[n], p) \in MembershipView
  <2>1. IsSuccessor(conf[n], BuildPromoteLearner(conf[n], p))
    BY <1>3 DEF IsSuccessor
  <2>2. QED BY <1>1, <2>1, SuccessorIsValid
<1>4. ASSUME CanRemoveMember(conf[n], p)
      PROVE  BuildRemoveMember(conf[n], p) \in MembershipView
  <2>1. IsSuccessor(conf[n], BuildRemoveMember(conf[n], p))
    BY <1>4 DEF IsSuccessor
  <2>2. QED BY <1>1, <2>1, SuccessorIsValid
<1>5. QED BY <1>2, <1>3, <1>4

\* A node applies an entry and appends none.
LEMMA ApplyTyped ==
  ASSUME ChangeTyped, NEW n \in Node, ApplyNext(n), UNCHANGED <<log, commit>>,
         pending' = pending \/ pending' = [pending EXCEPT ![n] = NoChange]
  PROVE  ChangeTyped'
<1>1. /\ applied' \in [Node -> Nat] /\ conf' \in [Node -> ValidView] /\ role' \in [Node -> Role]
      /\ currentTerm' = currentTerm
      /\ applied'[n] <= commit[n] /\ \A m \in Node \ {n} : applied'[m] = applied[m]
  BY ApplyFacts
<1>2. NoChange \in Tracked /\ pending \in [Node -> Tracked]
  BY DEF NoChange, Tracked, ChangeTyped
<1>3. pending' \in [Node -> Tracked]
  BY <1>2
<1>4. ASSUME NEW m \in Node
      PROVE  InOrder(m)'
  <2>1. applied[m] <= commit[m] /\ commit[m] <= Len(log[m])
    BY NodeFacts
  <2>2. QED BY <1>1, <2>1 DEF InOrder
<1>5. QED BY <1>1, <1>3, <1>4 DEF ChangeTyped

\* A node applies the first phase and appends the second.
LEMMA FinalizeFacts ==
  ASSUME ChangeTyped, NEW n \in Node, ApplyAndFinalize(n)
  PROVE  LET final == BuildFinalize(conf'[n])
             l == Appended(n, final)
         IN  /\ final \in MembershipView /\ IsSuccessor(conf'[n], final) /\ ~final.active
             /\ log' \in [Node -> Seq(Entry)] /\ log'[n] = l
             /\ commit' \in [Node -> Nat] /\ applied[n] + 1 <= commit'[n]
             /\ commit'[n] <= Len(log'[n])
             /\ \A m \in Node \ {n} : log'[m] = log[m] /\ commit'[m] = commit[m]
             /\ Track(n, final, FALSE)
<1> DEFINE final == BuildFinalize(conf'[n])
           l == Appended(n, final)
           k == Committed(n, conf'[n], l, match'[n])
<1>1. /\ ApplyNext(n) /\ CanFinalize(conf'[n])
      /\ log' = [log EXCEPT ![n] = l] /\ commit' = [commit EXCEPT ![n] = k]
      /\ Track(n, final, FALSE)
  BY DEF ApplyAndFinalize, CanFinalizeNow
<1>2. conf'[n] \in MembershipView /\ ValidateMembershipView(conf'[n]) /\ applied[n] + 1 <= commit[n]
  BY <1>1, ApplyFacts DEF ValidView
<1>3. IsSuccessor(conf'[n], final) /\ ~final.active
  BY <1>1 DEF IsSuccessor, BuildFinalize, Stable
<1>4. final \in MembershipView
  BY <1>2, <1>3, SuccessorIsValid
<1> HIDE DEF final
<1>5. l \in Seq(Entry) /\ Len(l) = Len(log[n]) + 1
  BY <1>4, AppendedFacts
<1>6. /\ commit[n] <= Len(l) /\ commit[n] \in Nat /\ applied[n] \in Nat
  BY <1>5, NodeFacts
<1>7. k \in Nat /\ commit[n] <= k /\ k <= Len(l)
  BY <1>5, <1>6, CommittedFacts
<1>8. log \in [Node -> Seq(Entry)] /\ commit \in [Node -> Nat]
  BY DEF ChangeTyped
<1> HIDE DEF l, k
<1>9. /\ log' \in [Node -> Seq(Entry)] /\ commit' \in [Node -> Nat]
      /\ log'[n] = l /\ commit'[n] = k
      /\ \A m \in Node \ {n} : log'[m] = log[m] /\ commit'[m] = commit[m]
  BY <1>1, <1>5, <1>7, <1>8
<1>10. applied[n] + 1 <= commit'[n] /\ commit'[n] <= Len(log'[n])
  BY <1>2, <1>6, <1>7, <1>9
<1>11. QED BY <1>1, <1>3, <1>4, <1>9, <1>10 DEF final, l

LEMMA FinalizeTyped ==
  ASSUME ChangeTyped, NEW n \in Node, ApplyAndFinalize(n)
  PROVE  ChangeTyped'
<1> DEFINE final == BuildFinalize(conf'[n])
<1>1. /\ final \in MembershipView /\ Track(n, final, FALSE)
      /\ log' \in [Node -> Seq(Entry)] /\ commit' \in [Node -> Nat]
      /\ applied[n] + 1 <= commit'[n] /\ commit'[n] <= Len(log'[n])
      /\ \A m \in Node \ {n} : log'[m] = log[m] /\ commit'[m] = commit[m]
  BY FinalizeFacts
<1> HIDE DEF final
<1>2. /\ applied' \in [Node -> Nat] /\ conf' \in [Node -> ValidView] /\ role' \in [Node -> Role]
      /\ currentTerm' = currentTerm /\ applied'[n] = applied[n] + 1
      /\ \A m \in Node \ {n} : applied'[m] = applied[m]
  BY ApplyFacts DEF ApplyAndFinalize
<1>3. pending' \in [Node -> Tracked]
  BY <1>1, TrackFacts
<1>4. ASSUME NEW m \in Node
      PROVE  InOrder(m)'
  <2>1. applied[m] <= commit[m] /\ commit[m] <= Len(log[m])
    BY NodeFacts
  <2>2. CASE m = n
    BY <1>1, <1>2, <2>2 DEF InOrder
  <2>3. CASE m # n
    BY <1>1, <1>2, <2>1, <2>3 DEF InOrder
  <2>4. QED BY <2>2, <2>3
<1>5. QED BY <1>1, <1>2, <1>3, <1>4 DEF ChangeTyped

\* The leader's commit index after an answer.
LEMMA ReplicateFacts ==
  ASSUME ChangeTyped, NEW n \in Node, NEW m \in Node, NEW k \in 0 .. Len(log[n]),
         NEW i \in commit[m] .. Larger(commit[m], commit[n]), Replicate(n, m, k, i)
  PROVE  /\ Sent(n, m, k, i) /\ Receive(n, m, k) /\ FollowLeader(n, m)
         /\ UNCHANGED <<role, applied, conf, pending, hollow>>
         /\ commit' \in [Node -> Nat] /\ commit'[m] = FollowCommit(m, i)
         /\ commit[n] <= commit'[n] /\ commit'[n] <= Len(log[n])
         /\ \A v \in Node \ {m, n} : commit'[v] = commit[v]
<1> DEFINE f == FollowCommit(m, i)
<1>1. /\ Sent(n, m, k, i) /\ Receive(n, m, k) /\ FollowLeader(n, m)
      /\ UNCHANGED <<role, applied, conf, pending, hollow>>
  BY DEF Replicate, Receive
<1>2. f \in Nat /\ m # n
  BY <1>1, ReceiveFacts, FollowLeaderFacts
<1>3. commit \in [Node -> Nat] /\ commit[n] \in Nat /\ Len(log[n]) \in Nat
      /\ commit[n] <= Len(log[n]) /\ log[n] \in Seq(Entry)
  BY NodeFacts DEF ChangeTyped
<1> HIDE DEF f
<1>4. CASE NoAnswer(n, m, i)
  <2>1. commit' = [commit EXCEPT ![m] = f]
    BY <1>4 DEF NoAnswer, f
  <2>2. commit' \in [Node -> Nat] /\ commit'[m] = f /\ \A v \in Node \ {m} : commit'[v] = commit[v]
    BY <1>2, <1>3, <2>1
  <2>3. QED BY <1>1, <1>2, <1>3, <2>2 DEF f
<1>5. CASE Answer(n, m, i)
  <2> DEFINE matched == IF Len(log'[m]) > Len(log[n]) THEN match[n]
                        ELSE [match[n] EXCEPT ![m] = Larger(@, Len(log'[m]))]
             c == Committed(n, conf[n], log[n], matched)
  <2>1. commit' = [commit EXCEPT ![m] = f, ![n] = c]
    BY <1>5 DEF Answer, f
  <2>2. c \in Nat /\ commit[n] <= c /\ c <= Len(log[n])
    BY <1>3, CommittedFacts
  <2> HIDE DEF c
  <2>3. /\ commit' \in [Node -> Nat] /\ commit'[m] = f /\ commit'[n] = c
        /\ \A v \in Node \ {m, n} : commit'[v] = commit[v]
    BY <1>2, <1>3, <2>1, <2>2
  <2>4. QED BY <1>1, <2>2, <2>3 DEF f
<1>6. QED BY <1>4, <1>5 DEF Replicate

LEMMA ReplicateTyped ==
  ASSUME ChangeTyped, NEW n \in Node, NEW m \in Node, NEW k \in 0 .. Len(log[n]),
         NEW i \in commit[m] .. Larger(commit[m], commit[n]), Replicate(n, m, k, i)
  PROVE  ChangeTyped'
<1>1. /\ Receive(n, m, k) /\ FollowLeader(n, m) /\ UNCHANGED <<role, applied, conf, pending>>
      /\ commit' \in [Node -> Nat] /\ commit'[m] = FollowCommit(m, i)
      /\ commit[n] <= commit'[n] /\ commit'[n] <= Len(log[n])
      /\ \A v \in Node \ {m, n} : commit'[v] = commit[v]
  BY ReplicateFacts
<1>2. /\ currentTerm' \in [Node -> Nat] /\ log' \in [Node -> Seq(Entry)] /\ m # n
      /\ \A v \in Node \ {m} : log'[v] = log[v]
      /\ commit[m] <= commit'[m] /\ commit'[m] <= Len(log'[m])
  BY <1>1, ReceiveFacts, FollowLeaderFacts
<1>3. ASSUME NEW v \in Node
      PROVE  InOrder(v)'
  <2>1. /\ applied[v] <= commit[v] /\ commit[v] <= Len(log[v])
        /\ applied[v] \in Nat /\ commit[v] \in Nat /\ commit'[v] \in Nat
    BY <1>1, NodeFacts
  <2>2. applied'[v] = applied[v]
    BY <1>1
  <2>3. commit[v] <= commit'[v] /\ commit'[v] <= Len(log'[v])
    <3>1. CASE v = m
      BY <1>2, <3>1
    <3>2. CASE v = n
      BY <1>1, <1>2, <3>2
    <3>3. CASE v \notin {m, n}
      BY <1>1, <1>2, <2>1, <3>3
    <3>4. QED BY <3>1, <3>2, <3>3
  <2>4. QED BY <2>1, <2>2, <2>3 DEF InOrder
<1>4. QED BY <1>1, <1>2, <1>3 DEF ChangeTyped

\* Only a node's term changes.
LEMMA TermTyped ==
  ASSUME ChangeTyped, UNCHANGED <<role, log, commit, applied, conf, pending>>,
         NEW n \in Node, NEW m \in Node, currentTerm' = [currentTerm EXCEPT ![m] = currentTerm[n]]
  PROVE  ChangeTyped'
<1>1. currentTerm' \in [Node -> Nat]
  BY DEF ChangeTyped
<1>2. \A v \in Node : InOrder(v)'
  BY DEF ChangeTyped, InOrder
<1>3. QED BY <1>1, <1>2 DEF ChangeTyped

LEMMA StepDownTyped ==
  ASSUME ChangeTyped, NEW n \in Node, NEW m \in Node, StepDown(n, m)
  PROVE  ChangeTyped'
<1>1. /\ role' = [role EXCEPT ![n] = "FOLLOWER"]
      /\ currentTerm' = [currentTerm EXCEPT ![n] = currentTerm[m]]
      /\ UNCHANGED <<log, commit, applied, conf, pending>>
  BY DEF StepDown
<1>2. role \in [Node -> Role] /\ currentTerm \in [Node -> Nat]
  BY DEF ChangeTyped
<1>3. role' \in [Node -> Role] /\ currentTerm' \in [Node -> Nat]
  BY <1>1, <1>2 DEF Role
<1>4. \A k \in Node : InOrder(k)'
  BY <1>1 DEF ChangeTyped, InOrder
<1>5. QED BY <1>1, <1>3, <1>4 DEF ChangeTyped

LEMMA ElectTyped ==
  ASSUME ChangeTyped, NEW n \in Node, NEW q \in SUBSET Node, NEW t \in 1 .. MaxTerm,
         Elect(n, q, t)
  PROVE  ChangeTyped'
<1>1. /\ role' = [v \in Node |-> IF v = n THEN "LEADER"
                                 ELSE IF v \in q THEN "FOLLOWER" ELSE role[v]]
      /\ currentTerm' = [v \in Node |-> IF v \in q THEN t ELSE currentTerm[v]]
      /\ UNCHANGED <<log, commit, applied, conf, pending>>
  BY DEF Elect
<1>2. role \in [Node -> Role] /\ currentTerm \in [Node -> Nat] /\ t \in Nat
  BY InitialAssumption DEF ChangeTyped
<1>3. role' \in [Node -> Role]
  BY <1>1, <1>2 DEF Role
<1>4. currentTerm' \in [Node -> Nat]
  BY <1>1, <1>2
<1>5. \A k \in Node : InOrder(k)'
  BY <1>1 DEF ChangeTyped, InOrder
<1>6. QED BY <1>1, <1>3, <1>4, <1>5 DEF ChangeTyped

LEMMA ProposeTyped ==
  ASSUME ChangeTyped, NEW n \in Node, Propose(n)
  PROVE  ChangeTyped'
<1>1. AppendAndCommit(n, NoMembership) /\ UNCHANGED <<role, currentTerm, applied, conf, pending>>
  BY DEF Propose
<1>2. /\ log' \in [Node -> Seq(Entry)] /\ commit' \in [Node -> Nat]
      /\ \A m \in Node : InOrder(m)'
  BY <1>1, AppendAndCommitFacts, NoneIsView
<1>3. QED BY <1>1, <1>2 DEF ChangeTyped

LEMMA ChangeTypedStep == ChangeTyped /\ [Next]_vars => ChangeTyped'
<1> SUFFICES ASSUME ChangeTyped, [Next]_vars PROVE ChangeTyped'
  OBVIOUS
<1>1. ASSUME NEW n \in Node, Propose(n) PROVE ChangeTyped'
  BY <1>1, ProposeTyped
<1>2. ASSUME NEW n \in Node, ApplyUnwatched(n) PROVE ChangeTyped'
  BY <1>2, ApplyTyped DEF ApplyUnwatched
<1>3. ASSUME NEW n \in Node, ApplyAndFinalize(n) PROVE ChangeTyped'
  BY <1>3, FinalizeTyped
<1>4. ASSUME NEW n \in Node, ApplyAndReport(n) PROVE ChangeTyped'
  BY <1>4, ApplyTyped DEF ApplyAndReport
<1>5. ASSUME NEW n \in Node, ApplyAndFail(n) PROVE ChangeTyped'
  BY <1>5, ApplyTyped DEF ApplyAndFail
<1>6. ASSUME NEW n \in Node, NEW p \in Node, AddLearner(n, p) PROVE ChangeTyped'
  BY <1>6, BuiltIsView, RequestTyped DEF AddLearner
<1>7. ASSUME NEW n \in Node, NEW p \in Node, PromoteLearner(n, p) PROVE ChangeTyped'
  BY <1>7, BuiltIsView, RequestTyped DEF PromoteLearner
<1>8. ASSUME NEW n \in Node, NEW p \in Node, RemoveMember(n, p) PROVE ChangeTyped'
  BY <1>8, BuiltIsView, RequestTyped DEF RemoveMember
<1>9. CASE UNCHANGED vars
  BY <1>9 DEF vars, coreVars, ChangeTyped, InOrder
<1>12. ASSUME NEW n \in Node, NEW p \in Node, NEW k \in 0 .. Len(log[n]),
              NEW i \in commit[p] .. Larger(commit[p], commit[n]), Replicate(n, p, k, i)
       PROVE  ChangeTyped'
  BY <1>12, ReplicateTyped
<1>13. ASSUME NEW n \in Node, NEW p \in Node, Mismatch(n, p) PROVE ChangeTyped'
  BY <1>13, TermTyped DEF Mismatch, FollowLeader
<1>14. ASSUME NEW n \in Node, NEW p \in Node, Usurp(n, p) PROVE ChangeTyped'
  BY <1>14, TermTyped DEF Usurp
<1>10. CASE Next
  BY <1>1, <1>2, <1>3, <1>4, <1>5, <1>6, <1>7, <1>8, <1>10, <1>12, <1>13, <1>14,
     StepDownTyped, ElectTyped DEF Next
<1>11. QED BY <1>9, <1>10

----------------------------------------------------------------------------
(***************************************************************************)
(* The cluster's first term.  No node has voted yet, or there is one node  *)
(* that a majority of the first voters elected; no other node leads or     *)
(* waits for a change.                                                     *)
(***************************************************************************)
FirstTerm == \A n \in Node : currentTerm[n] <= 1

Quiet(n) == role[n] # "LEADER" /\ pending[n] = NoChange

\* Who has not heard of the leader is as it was at first.
Untouched(n) ==
    currentTerm[n] = 0 =>
        log[n] = << >> /\ commit[n] = 0 /\ conf[n] = Stable(1, Voters, Learners)

\* The change waited for is the only one in the log that is not applied, a legal
\* one of what is; a first phase does not depose the leader.
Awaited(n) ==
    LET p == pending[n]
    IN  /\ p.index \in applied[n] + 1 .. Len(log[n]) /\ p.entry = log[n][p.index]
        /\ \A i \in applied[n] + 1 .. Len(log[n]) : IsChange(log[n][i]) => i = p.index
        /\ IsSuccessor(conf[n], p.entry.conf)
        /\ IF p.awaiting THEN n \in TransitionVoterIds(p.entry.conf)
           ELSE ~p.entry.conf.active

Leading(n) ==
    /\ role[n] = "LEADER" /\ currentTerm[n] = 1 /\ n \in TransitionVoterIds(conf[n])
    /\ IF pending[n] = NoChange THEN ~HasPendingMembershipChange(n) ELSE Awaited(n)

ElectedOnce(n) ==
    /\ \E q \in SUBSET Node : IsMajorityOf(q, Voters) /\ \A v \in q : currentTerm[v] = 1
    /\ Quiet(n) \/ Leading(n)
    /\ \A m \in Node \ {n} : Quiet(m)

UnderOneLeader ==
    /\ hollow = {}
    /\ \A n \in Node : Untouched(n)
    /\ (\A n \in Node : currentTerm[n] = 0 /\ Quiet(n)) \/ \E n \in Node : ElectedOnce(n)

ReportInductive == ChangeTyped /\ (FirstTerm => UnderOneLeader)

LEMMA TermsGrow ==
  ASSUME ChangeTyped, [Next]_vars, NEW n \in Node
  PROVE  currentTerm[n] <= currentTerm'[n]
<1>1. currentTerm \in [Node -> Nat]
  BY DEF ChangeTyped
<1>2. currentTerm' = currentTerm => currentTerm[n] <= currentTerm'[n]
  BY <1>1
<1>3. ASSUME NEW k \in Node, NEW m \in Node, FollowLeader(k, m) \/ Usurp(k, m)
      PROVE  currentTerm[n] <= currentTerm'[n]
  BY <1>1, <1>3 DEF FollowLeader, Usurp
<1>4. ASSUME NEW k \in Node, NEW m \in Node, StepDown(k, m)
      PROVE  currentTerm[n] <= currentTerm'[n]
  BY <1>1, <1>4 DEF StepDown
<1>5. ASSUME NEW k \in Node, NEW q \in SUBSET Node, NEW t \in 1 .. MaxTerm, Elect(k, q, t)
      PROVE  currentTerm[n] <= currentTerm'[n]
  <2>1. /\ currentTerm' = [v \in Node |-> IF v \in q THEN t ELSE currentTerm[v]]
        /\ \A v \in q : currentTerm[v] < t
    BY <1>5 DEF Elect, Grants
  <2>2. t \in Nat
    BY InitialAssumption
  <2>3. QED BY <1>1, <2>1, <2>2
<1>6. ASSUME NEW k \in Node, ApplyNext(k)
      PROVE  currentTerm' = currentTerm
  BY <1>6 DEF ApplyNext
<1>7. CASE \E k \in Node : Propose(k) \/ ApplyUnwatched(k) \/ ApplyAndFinalize(k)
                             \/ ApplyAndReport(k) \/ ApplyAndFail(k)
  BY <1>2, <1>6, <1>7 DEF Propose, ApplyUnwatched, ApplyAndFinalize, ApplyAndReport, ApplyAndFail
<1>8. CASE \E k, m \in Node : AddLearner(k, m) \/ PromoteLearner(k, m) \/ RemoveMember(k, m)
  BY <1>2, <1>8 DEF AddLearner, PromoteLearner, RemoveMember, Request
<1>9. CASE \E k, m \in Node : \/ Mismatch(k, m) \/ Usurp(k, m)
                              \/ \E x \in 0 .. Len(log[k]),
                                    i \in commit[m] .. Larger(commit[m], commit[k]) :
                                      Replicate(k, m, x, i)
  BY <1>3, <1>9 DEF Replicate, Receive, Mismatch
<1>10. CASE UNCHANGED vars
  BY <1>2, <1>10 DEF vars, coreVars
<1>11. QED BY <1>4, <1>5, <1>7, <1>8, <1>9, <1>10 DEF Next

LEMMA FirstTermBefore ==
  ASSUME ChangeTyped, [Next]_vars, FirstTerm'
  PROVE  FirstTerm
<1> SUFFICES ASSUME NEW n \in Node PROVE currentTerm[n] <= 1
  BY DEF FirstTerm
<1>1. currentTerm[n] <= currentTerm'[n] /\ currentTerm'[n] <= 1
  BY TermsGrow DEF FirstTerm
<1>2. currentTerm[n] \in Nat /\ currentTerm'[n] \in Nat
  BY ChangeTypedStep DEF ChangeTyped
<1>3. QED BY <1>1, <1>2

\* Whoever leads, or waits for a change, is the one.
LEMMA LeaderIs ==
  ASSUME UnderOneLeader, NEW n \in Node, role[n] = "LEADER" \/ pending[n] # NoChange
  PROVE  ElectedOnce(n) /\ Leading(n) /\ role[n] = "LEADER" /\ currentTerm[n] = 1
<1>1. ~Quiet(n)
  BY DEF Quiet
<1>2. PICK k \in Node : ElectedOnce(k)
  BY <1>1 DEF UnderOneLeader
<1>3. k = n
  BY <1>1, <1>2 DEF ElectedOnce
<1>4. QED BY <1>1, <1>2, <1>3 DEF ElectedOnce, Leading

\* What a step may leave alone.
SameNode(m) ==
    /\ role'[m] = role[m] /\ currentTerm'[m] = currentTerm[m] /\ conf'[m] = conf[m]
    /\ log'[m] = log[m] /\ applied'[m] = applied[m] /\ pending'[m] = pending[m]

LEMMA SameNodeFacts ==
  ASSUME NEW m \in Node, SameNode(m)
  PROVE  /\ Quiet(m) => Quiet(m)'
         /\ Leading(m) => Leading(m)'
         /\ Untouched(m) /\ commit'[m] = commit[m] => Untouched(m)'
<1>1. Quiet(m) => Quiet(m)'
  BY DEF SameNode, Quiet
<1>2. Leading(m) => Leading(m)'
  BY DEF SameNode, Leading, Awaited, HasPendingMembershipChange
<1>3. Untouched(m) /\ commit'[m] = commit[m] => Untouched(m)'
  BY DEF SameNode, Untouched
<1>4. QED BY <1>1, <1>2, <1>3

\* A step of the leader alone that leaves every other node as it is.
LEMMA LeaderStep ==
  ASSUME UnderOneLeader, NEW n \in Node, ElectedOnce(n), currentTerm[n] = 1,
         currentTerm' = currentTerm, hollow' = hollow,
         \A m \in Node \ {n} : SameNode(m) /\ commit'[m] = commit[m],
         Quiet(n)' \/ Leading(n)'
  PROVE  UnderOneLeader'
<1>1. \A m \in Node : Untouched(m)'
  <2> SUFFICES ASSUME NEW m \in Node PROVE Untouched(m)'
    OBVIOUS
  <2>1. Untouched(m)
    BY DEF UnderOneLeader
  <2>2. CASE m = n
    BY <2>2 DEF Untouched
  <2>3. CASE m # n
    BY <2>1, <2>3, SameNodeFacts
  <2>4. QED BY <2>2, <2>3
<1>2. \A m \in Node \ {n} : Quiet(m)'
  BY SameNodeFacts DEF ElectedOnce
<1>3. ElectedOnce(n)'
  BY <1>2 DEF ElectedOnce
<1>4. QED BY <1>1, <1>3 DEF UnderOneLeader

\* A leader that has just appended a change.
LEMMA NowAwaited ==
  ASSUME ChangeTyped, NEW n \in Node, NEW d \in MembershipView, NEW b \in BOOLEAN,
         log'[n] = Appended(n, d), Track(n, d, b),
         applied'[n] \in Nat, applied'[n] <= Len(log[n]),
         \A i \in applied'[n] + 1 .. Len(log[n]) : ~IsChange(log[n][i]),
         IsSuccessor(conf'[n], d),
         IF b THEN n \in TransitionVoterIds(d) ELSE ~d.active,
         role'[n] = "LEADER", currentTerm'[n] = 1, n \in TransitionVoterIds(conf'[n])
  PROVE  Leading(n)'
<1> DEFINE k == Len(log[n]) + 1
<1>1. /\ Len(log'[n]) = k /\ \A i \in 1 .. Len(log[n]) : log'[n][i] = log[n][i]
      /\ Last(Appended(n, d)) = log'[n][k] /\ Last(Appended(n, d)).conf = d
      /\ Len(log[n]) \in Nat
  BY AppendedFacts, NodeFacts
<1>2. pending'[n] = [index |-> k, awaiting |-> b, entry |-> log'[n][k]]
  BY <1>1, TrackFacts
<1> HIDE DEF k
<1>3. /\ pending'[n].index = k /\ pending'[n].awaiting = b /\ pending'[n].entry = log'[n][k]
      /\ pending'[n].entry.conf = d
  BY <1>1, <1>2
<1>4. pending'[n] # NoChange
  BY <1>1, <1>3 DEF NoChange, k
<1>5. k \in applied'[n] + 1 .. Len(log'[n])
  BY <1>1 DEF k
<1>6. \A i \in applied'[n] + 1 .. Len(log'[n]) : IsChange(log'[n][i]) => i = k
  <2> SUFFICES ASSUME NEW i \in applied'[n] + 1 .. Len(log'[n]), i # k
               PROVE  ~IsChange(log'[n][i])
    OBVIOUS
  <2>1. i \in applied'[n] + 1 .. Len(log[n]) /\ i \in 1 .. Len(log[n])
    BY <1>1 DEF k
  <2>2. QED BY <1>1, <2>1
<1>7. Awaited(n)'
  BY <1>3, <1>5, <1>6 DEF Awaited
<1>8. QED BY <1>4, <1>7 DEF Leading

----------------------------------------------------------------------------
\* The steps of the first term.

LEMMA ProposeUnderOne ==
  ASSUME ChangeTyped, UnderOneLeader, NEW n \in Node, Propose(n)
  PROVE  UnderOneLeader'
<1>1. /\ role[n] = "LEADER" /\ AppendAndCommit(n, NoMembership)
      /\ UNCHANGED <<role, currentTerm, applied, conf, pending, hollow>>
  BY DEF Propose
<1>2. ElectedOnce(n) /\ Leading(n) /\ currentTerm[n] = 1
  BY <1>1, LeaderIs
<1>3. /\ log'[n] = Appended(n, NoMembership)
      /\ \A m \in Node \ {n} : log'[m] = log[m] /\ commit'[m] = commit[m]
  BY <1>1, AppendAndCommitFacts, NoneIsView
<1>4. /\ Len(log'[n]) = Len(log[n]) + 1
      /\ \A i \in 1 .. Len(log[n]) : log'[n][i] = log[n][i]
      /\ ~IsChange(log'[n][Len(log[n]) + 1])
      /\ Len(log[n]) \in Nat /\ applied[n] \in Nat
  BY <1>3, AppendedFacts, NoneIsView, NodeFacts DEF IsChange
<1>5. \A i \in applied[n] + 1 .. Len(log'[n]) :
         IsChange(log'[n][i]) =>
            i \in applied[n] + 1 .. Len(log[n]) /\ log'[n][i] = log[n][i]
  <2> SUFFICES ASSUME NEW i \in applied[n] + 1 .. Len(log'[n]), IsChange(log'[n][i])
               PROVE  i \in applied[n] + 1 .. Len(log[n]) /\ log'[n][i] = log[n][i]
    OBVIOUS
  <2>1. i # Len(log[n]) + 1
    BY <1>4
  <2>2. i \in applied[n] + 1 .. Len(log[n]) /\ i \in 1 .. Len(log[n])
    BY <1>4, <2>1
  <2>3. QED BY <1>4, <2>2
<1>6. CASE pending[n] = NoChange
  <2>1. ~HasPendingMembershipChange(n)'
    BY <1>1, <1>2, <1>5, <1>6 DEF Leading, HasPendingMembershipChange
  <2>2. Leading(n)'
    BY <1>1, <1>2, <1>6, <2>1 DEF Leading
  <2>3. QED BY <1>1, <1>2, <1>3, <2>2, LeaderStep DEF SameNode
<1>7. CASE pending[n] # NoChange
  <2> DEFINE p == pending[n]
  <2>1. Awaited(n)
    BY <1>2, <1>7 DEF Leading
  <2>2. /\ p.index \in applied[n] + 1 .. Len(log[n]) /\ p.entry = log[n][p.index]
        /\ \A i \in applied[n] + 1 .. Len(log[n]) : IsChange(log[n][i]) => i = p.index
        /\ IsSuccessor(conf[n], p.entry.conf)
        /\ IF p.awaiting THEN n \in TransitionVoterIds(p.entry.conf)
           ELSE ~p.entry.conf.active
    BY <2>1 DEF Awaited
  <2> HIDE DEF p
  <2>3. p.index \in applied[n] + 1 .. Len(log'[n]) /\ p.entry = log'[n][p.index]
    <3>1. p.index \in 1 .. Len(log[n]) /\ p.index \in applied[n] + 1 .. Len(log'[n])
      BY <1>4, <2>2
    <3>2. QED BY <1>4, <2>2, <3>1
  <2>4. \A i \in applied[n] + 1 .. Len(log'[n]) : IsChange(log'[n][i]) => i = p.index
    BY <1>5, <2>2
  <2>5. pending'[n] = p
    BY <1>1 DEF p
  <2>6. Awaited(n)'
    BY <1>1, <2>2, <2>3, <2>4, <2>5 DEF Awaited
  <2>7. Leading(n)'
    BY <1>1, <1>2, <1>7, <2>6 DEF Leading
  <2>8. QED BY <1>1, <1>2, <1>3, <2>7, LeaderStep DEF SameNode
<1>8. QED BY <1>6, <1>7

LEMMA RequestUnderOne ==
  ASSUME ChangeTyped, UnderOneLeader, NEW n \in Node, NEW d \in MembershipView,
         NEW phases \in Nat, MayRequestChange(n), Request(n, d, phases),
         IsSuccessor(conf[n], d),
         IF phases = 2 THEN n \in TransitionVoterIds(d) ELSE ~d.active
  PROVE  UnderOneLeader'
<1>1. /\ role[n] = "LEADER" /\ pending[n] = NoChange /\ ~HasPendingMembershipChange(n)
      /\ AppendAndCommit(n, d) /\ Track(n, d, phases = 2) /\ (phases = 2) \in BOOLEAN
      /\ UNCHANGED <<role, currentTerm, applied, conf, hollow>>
  BY DEF MayRequestChange, Request
<1>2. ElectedOnce(n) /\ Leading(n) /\ currentTerm[n] = 1
  BY <1>1, LeaderIs
<1>3. /\ log'[n] = Appended(n, d)
      /\ \A m \in Node \ {n} : log'[m] = log[m] /\ commit'[m] = commit[m]
  BY <1>1, AppendAndCommitFacts
<1>4. \A m \in Node \ {n} : pending'[m] = pending[m]
  BY <1>1, TrackFacts
<1>5. applied[n] \in Nat /\ applied[n] <= Len(log[n])
  BY NodeFacts
<1>6. \A i \in applied[n] + 1 .. Len(log[n]) : ~IsChange(log[n][i])
  BY <1>1 DEF HasPendingMembershipChange
<1>7. n \in TransitionVoterIds(conf[n])
  BY <1>2 DEF Leading
<1>8. Leading(n)'
  BY <1>1, <1>2, <1>3, <1>5, <1>6, <1>7, NowAwaited
<1>9. QED BY <1>1, <1>2, <1>3, <1>4, <1>8, LeaderStep DEF SameNode

LEMMA ChangeUnderOne ==
  ASSUME ChangeTyped, UnderOneLeader, NEW n \in Node, NEW p \in Node,
         AddLearner(n, p) \/ PromoteLearner(n, p) \/ RemoveMember(n, p)
  PROVE  UnderOneLeader'
<1>1. MayRequestChange(n) /\ conf[n] \in MembershipView
  BY NodeFacts DEF AddLearner, PromoteLearner, RemoveMember
<1>2. n \in TransitionVoterIds(conf[n])
  BY <1>1, LeaderIs DEF MayRequestChange, Leading
<1>3. 1 # 2 /\ 1 \in Nat /\ 2 \in Nat
  OBVIOUS
<1>4. CASE AddLearner(n, p)
  <2> DEFINE d == BuildAddLearner(conf[n], p)
  <2>1. CanAddLearner(conf[n], p) /\ Request(n, d, 1)
    BY <1>4 DEF AddLearner
  <2>2. d \in MembershipView /\ IsSuccessor(conf[n], d) /\ ~d.active
    BY <1>1, <1>2, <2>1, BuiltIsView, ChangeFacts
  <2> HIDE DEF d
  <2>3. QED BY <1>1, <1>3, <2>1, <2>2, RequestUnderOne
<1>5. CASE PromoteLearner(n, p)
  <2> DEFINE d == BuildPromoteLearner(conf[n], p)
  <2>1. CanPromoteLearner(conf[n], p) /\ Request(n, d, 2)
    BY <1>5 DEF PromoteLearner
  <2>2. d \in MembershipView /\ IsSuccessor(conf[n], d) /\ n \in TransitionVoterIds(d)
    BY <1>1, <1>2, <2>1, BuiltIsView, ChangeFacts
  <2> HIDE DEF d
  <2>3. QED BY <1>1, <1>3, <2>1, <2>2, RequestUnderOne
<1>6. CASE RemoveMember(n, p)
  <2> DEFINE d == BuildRemoveMember(conf[n], p)
  <2>1. CanRemoveMember(conf[n], p) /\ Request(n, d, 2)
    BY <1>6 DEF RemoveMember
  <2>2. d \in MembershipView /\ IsSuccessor(conf[n], d) /\ n \in TransitionVoterIds(d)
    BY <1>1, <1>2, <2>1, BuiltIsView, ChangeFacts
  <2> HIDE DEF d
  <2>3. QED BY <1>1, <1>3, <2>1, <2>2, RequestUnderOne
<1>7. QED BY <1>4, <1>5, <1>6

\* Only who has an entry that is committed applies one, and that is nobody before
\* the election.
LEMMA ApplierIsTouched ==
  ASSUME ChangeTyped, UnderOneLeader, NEW n \in Node, ApplyNext(n)
  PROVE  currentTerm[n] # 0 /\ \E k \in Node : ElectedOnce(k)
<1>1. commit[n] \in Nat /\ applied[n] \in Nat /\ applied[n] + 1 <= commit[n]
  BY NodeFacts, ApplyFacts
<1>2. commit[n] # 0 /\ Untouched(n)
  BY <1>1 DEF UnderOneLeader
<1>3. currentTerm[n] # 0
  BY <1>2 DEF Untouched
<1>4. QED BY <1>3 DEF UnderOneLeader

\* What an entry that is applied may leave alone.
LEMMA ApplyOthers ==
  ASSUME ChangeTyped, NEW n \in Node, ApplyNext(n), NEW m \in Node \ {n},
         log'[m] = log[m], pending'[m] = pending[m]
  PROVE  SameNode(m)
BY ApplyFacts DEF SameNode

LEMMA ApplyUnwatchedUnderOne ==
  ASSUME ChangeTyped, UnderOneLeader, NEW n \in Node, ApplyUnwatched(n)
  PROVE  UnderOneLeader'
<1>1. ~Watched(n) /\ ApplyNext(n) /\ UNCHANGED <<log, commit, pending, hollow>>
  BY DEF ApplyUnwatched
<1>2. currentTerm[n] # 0 /\ currentTerm' = currentTerm
  BY <1>1, ApplierIsTouched, ApplyFacts
<1>3. PICK k \in Node : ElectedOnce(k)
  BY <1>1, ApplierIsTouched
<1>4. \A m \in Node \ {n} : SameNode(m)
  BY <1>1, ApplyOthers
<1>5. applied'[n] = applied[n] + 1 /\ applied[n] \in Nat /\ Len(log[n]) \in Nat
  BY <1>1, ApplyFacts, NodeFacts
<1>6. CASE Quiet(n)
  <2>1. Quiet(n)'
    <3>1. role'[n] \in {role[n], "LEARNER"}
      BY <1>1, ApplyFacts
    <3>2. QED BY <1>1, <1>6, <3>1 DEF Quiet
  <2>2. \A m \in Node : Untouched(m)'
    <3> SUFFICES ASSUME NEW m \in Node PROVE Untouched(m)'
      OBVIOUS
    <3>1. CASE m = n
      BY <1>2, <3>1 DEF Untouched
    <3>2. CASE m # n
      BY <1>1, <1>4, <3>2, SameNodeFacts DEF UnderOneLeader
    <3>3. QED BY <3>1, <3>2
  <2>3. ElectedOnce(k)'
    <3>1. Quiet(k)' \/ Leading(k)'
      BY <1>3, <1>4, <2>1, SameNodeFacts DEF ElectedOnce
    <3>2. \A m \in Node \ {k} : Quiet(m)'
      BY <1>3, <1>4, <2>1, SameNodeFacts DEF ElectedOnce
    <3>3. QED BY <1>2, <1>3, <3>1, <3>2 DEF ElectedOnce
  <2>4. QED BY <1>1, <2>2, <2>3 DEF UnderOneLeader
<1>7. CASE ~Quiet(n)
  <2>1. ElectedOnce(n) /\ Leading(n) /\ role[n] = "LEADER" /\ currentTerm[n] = 1
    BY <1>7, LeaderIs DEF Quiet
  <2>2. applied[n] + 1 \in applied[n] + 1 .. Len(log[n])
    BY <1>1, <1>5, ApplyFacts
  <2>3. ~IsChange(NextEntry(n))
    <3>1. CASE pending[n] = NoChange
      BY <2>1, <2>2, <3>1 DEF Leading, HasPendingMembershipChange, NextEntry
    <3>2. CASE pending[n] # NoChange
      BY <1>1, <2>1, <2>2, <3>2 DEF Leading, Awaited, NextEntry, Watched
    <3>3. QED BY <3>1, <3>2
  <2>4. conf'[n] = conf[n] /\ role'[n] = role[n]
    BY <1>1, <2>3, ApplyFacts
  <2>5. \A i : i \in applied'[n] + 1 .. Len(log[n]) => i \in applied[n] + 1 .. Len(log[n])
    BY <1>5
  <2>6. CASE pending[n] = NoChange
    <3>1. ~HasPendingMembershipChange(n)'
      BY <1>1, <2>1, <2>5, <2>6 DEF Leading, HasPendingMembershipChange
    <3>2. Leading(n)'
      BY <1>1, <1>2, <2>1, <2>4, <2>6, <3>1 DEF Leading
    <3>3. QED BY <1>1, <1>2, <1>4, <2>1, <3>2, LeaderStep
  <2>7. CASE pending[n] # NoChange
    <3>1. Awaited(n) /\ pending[n].index # applied[n] + 1
      BY <1>1, <2>1, <2>7 DEF Leading, Watched
    <3>2. pending[n].index \in applied'[n] + 1 .. Len(log[n])
      BY <1>5, <3>1 DEF Awaited
    <3>3. Awaited(n)'
      BY <1>1, <2>4, <2>5, <3>1, <3>2 DEF Awaited
    <3>4. Leading(n)'
      BY <1>1, <1>2, <2>1, <2>4, <2>7, <3>3 DEF Leading
    <3>5. QED BY <1>1, <1>2, <1>4, <2>1, <3>4, LeaderStep
  <2>8. QED BY <2>6, <2>7
<1>8. QED BY <1>6, <1>7

\* The entry waited for: it is a change, the last one in the leader's log, and
\* the leader goes on unless it was the second phase that removes it.
LEMMA WatchedFacts ==
  ASSUME ChangeTyped, UnderOneLeader, NEW n \in Node, Watched(n), ApplyNext(n)
  PROVE  /\ ElectedOnce(n) /\ role[n] = "LEADER" /\ currentTerm[n] = 1
         /\ NextEntry(n) = pending[n].entry
         /\ \A i \in applied'[n] + 1 .. Len(log[n]) : ~IsChange(log[n][i])
         /\ applied'[n] \in Nat /\ applied'[n] <= Len(log[n])
         /\ IF n \in TransitionVoterIds(conf'[n]) THEN role'[n] = "LEADER"
            ELSE role'[n] = "LEARNER" /\ ~pending[n].awaiting
         /\ ~pending[n].awaiting => ~conf'[n].active
<1> DEFINE e == pending[n].entry
<1>1. applied[n] \in Nat /\ Len(log[n]) \in Nat /\ conf[n] \in MembershipView
      /\ ValidateMembershipView(conf[n])
  BY NodeFacts
<1>2. pending[n] # NoChange /\ pending[n].index = applied[n] + 1
  BY <1>1 DEF Watched, NoChange
<1>3. ElectedOnce(n) /\ Leading(n) /\ role[n] = "LEADER" /\ currentTerm[n] = 1
  BY <1>2, LeaderIs
<1>4. Awaited(n)
  BY <1>2, <1>3 DEF Leading
<1>5. /\ e = log[n][applied[n] + 1] /\ IsSuccessor(conf[n], e.conf)
      /\ \A i \in applied[n] + 1 .. Len(log[n]) : IsChange(log[n][i]) => i = applied[n] + 1
      /\ IF pending[n].awaiting THEN n \in TransitionVoterIds(e.conf) ELSE ~e.conf.active
  BY <1>2, <1>4 DEF Awaited
<1>6. NextEntry(n) = e
  BY <1>5 DEF NextEntry
<1>7. IsChange(e)
  <2>1. ValidateMembershipView(e.conf)
    BY <1>1, <1>5, SuccessorIsValid
  <2>2. e.conf.id # 0
    BY <2>1 DEF ValidateMembershipView
  <2>3. QED BY <2>2 DEF IsChange, NoMembership
<1>8. /\ conf'[n] = e.conf
      /\ role'[n] = IF n \in TransitionVoterIds(conf'[n]) THEN role[n] ELSE "LEARNER"
      /\ applied'[n] = applied[n] + 1 /\ applied[n] + 1 \in 1 .. Len(log[n])
  BY <1>6, <1>7, ApplyFacts
<1> HIDE DEF e
<1>9. \A i \in applied'[n] + 1 .. Len(log[n]) : ~IsChange(log[n][i])
  <2> SUFFICES ASSUME NEW i \in applied'[n] + 1 .. Len(log[n]) PROVE ~IsChange(log[n][i])
    OBVIOUS
  <2>1. i \in applied[n] + 1 .. Len(log[n]) /\ i # applied[n] + 1
    BY <1>1, <1>8
  <2>2. QED BY <1>5, <2>1
<1>10. applied'[n] \in Nat /\ applied'[n] <= Len(log[n])
  BY <1>1, <1>8
<1>11. IF n \in TransitionVoterIds(conf'[n]) THEN role'[n] = "LEADER"
       ELSE role'[n] = "LEARNER" /\ ~pending[n].awaiting
  BY <1>3, <1>5, <1>8
<1>12. ~pending[n].awaiting => ~conf'[n].active
  BY <1>5, <1>8
<1>13. QED BY <1>3, <1>6, <1>9, <1>10, <1>11, <1>12 DEF e

LEMMA FinalizeUnderOne ==
  ASSUME ChangeTyped, UnderOneLeader, NEW n \in Node, ApplyAndFinalize(n)
  PROVE  UnderOneLeader'
<1> DEFINE d == BuildFinalize(conf'[n])
<1>1. Watched(n) /\ ApplyNext(n) /\ role'[n] = "LEADER" /\ hollow' = hollow
  BY DEF ApplyAndFinalize, Finalizes
<1>2. /\ d \in MembershipView /\ IsSuccessor(conf'[n], d) /\ ~d.active
      /\ log'[n] = Appended(n, d) /\ Track(n, d, FALSE)
      /\ \A m \in Node \ {n} : log'[m] = log[m] /\ commit'[m] = commit[m]
  BY FinalizeFacts
<1> HIDE DEF d
<1>3. /\ ElectedOnce(n) /\ currentTerm[n] = 1 /\ n \in TransitionVoterIds(conf'[n])
      /\ \A i \in applied'[n] + 1 .. Len(log[n]) : ~IsChange(log[n][i])
      /\ applied'[n] \in Nat /\ applied'[n] <= Len(log[n])
  BY <1>1, WatchedFacts
<1>4. currentTerm' = currentTerm
  BY <1>1, ApplyFacts
<1>5. Leading(n)'
  BY <1>1, <1>2, <1>3, <1>4, NowAwaited
<1>6. \A m \in Node \ {n} : pending'[m] = pending[m]
  BY <1>2, TrackFacts
<1>7. \A m \in Node \ {n} : SameNode(m)
  BY <1>1, <1>2, <1>6, ApplyOthers
<1>8. QED BY <1>1, <1>2, <1>3, <1>4, <1>5, <1>7, LeaderStep

LEMMA AnswerUnderOne ==
  ASSUME ChangeTyped, UnderOneLeader, NEW n \in Node, ApplyAndReport(n) \/ ApplyAndFail(n)
  PROVE  UnderOneLeader'
<1>1. /\ Watched(n) /\ ApplyNext(n) /\ UNCHANGED <<log, commit>>
      /\ pending' = [pending EXCEPT ![n] = NoChange]
  BY DEF ApplyAndReport, ApplyAndFail
<1>2. /\ ElectedOnce(n) /\ currentTerm[n] = 1 /\ NextEntry(n) = pending[n].entry
      /\ \A i \in applied'[n] + 1 .. Len(log[n]) : ~IsChange(log[n][i])
      /\ IF n \in TransitionVoterIds(conf'[n]) THEN role'[n] = "LEADER"
         ELSE role'[n] = "LEARNER" /\ ~pending[n].awaiting
      /\ ~pending[n].awaiting => ~conf'[n].active
  BY <1>1, WatchedFacts
<1>3. hollow' = hollow
  <2>1. CASE ApplyAndFail(n)
    BY <2>1 DEF ApplyAndFail
  <2>2. CASE ApplyAndReport(n)
    <3>1. ~pending[n].awaiting
      BY <1>2, <2>2 DEF ApplyAndReport, Finalizes
    <3>2. ~conf'[n].active /\ ~(NextEntry(n) # pending[n].entry)
      BY <1>2, <3>1
    <3>3. hollow' = hollow \cup {} \cup {}
      BY <2>2, <3>2 DEF ApplyAndReport
    <3>4. QED BY <3>3
  <2>3. QED BY <2>1, <2>2
<1>4. currentTerm' = currentTerm
  BY <1>1, ApplyFacts
<1>5. /\ pending'[n] = NoChange /\ \A m \in Node \ {n} : pending'[m] = pending[m]
  BY <1>1 DEF ChangeTyped
<1>6. \A m \in Node \ {n} : SameNode(m)
  BY <1>1, <1>5, ApplyOthers
<1>7. Quiet(n)' \/ Leading(n)'
  <2>1. CASE n \in TransitionVoterIds(conf'[n])
    <3>1. ~HasPendingMembershipChange(n)'
      BY <1>1, <1>2 DEF HasPendingMembershipChange
    <3>2. QED BY <1>2, <1>4, <1>5, <2>1, <3>1 DEF Leading
  <2>2. CASE n \notin TransitionVoterIds(conf'[n])
    BY <1>2, <1>5, <2>2 DEF Quiet
  <2>3. QED BY <2>1, <2>2
<1>8. QED BY <1>1, <1>2, <1>3, <1>4, <1>6, <1>7, LeaderStep

\* A node hears of the leader.
LEMMA FollowUnderOne ==
  ASSUME ChangeTyped, UnderOneLeader, NEW n \in Node, NEW m \in Node, FollowLeader(n, m),
         UNCHANGED <<role, applied, conf, pending, hollow>>,
         \A k \in Node \ {m, n} : commit'[k] = commit[k],
         \A k \in Node \ {m} : log'[k] = log[k]
  PROVE  UnderOneLeader'
<1>1. UNCHANGED <<role, applied, conf, pending, hollow>>
  OBVIOUS
<1>2. /\ role[n] = "LEADER" /\ m # n /\ role[m] # "LEADER"
      /\ currentTerm'[m] = currentTerm[n]
      /\ \A k \in Node \ {m} : log'[k] = log[k] /\ currentTerm'[k] = currentTerm[k]
  BY FollowLeaderFacts
<1>3. ElectedOnce(n) /\ Leading(n) /\ currentTerm[n] = 1
  BY <1>2, LeaderIs
<1>4. \A k \in Node \ {m} : SameNode(k)
  BY <1>1, <1>2 DEF SameNode
<1>5. \A k \in Node : Untouched(k)'
  <2> SUFFICES ASSUME NEW k \in Node PROVE Untouched(k)'
    OBVIOUS
  <2>1. CASE k \in {m, n}
    BY <1>2, <1>3, <2>1 DEF Untouched
  <2>2. CASE k \notin {m, n}
    BY <1>1, <1>4, <2>2, SameNodeFacts DEF UnderOneLeader
  <2>3. QED BY <2>1, <2>2
<1>6. ElectedOnce(n)'
  <2>1. Leading(n)'
    BY <1>2, <1>3, <1>4, SameNodeFacts
  <2>2. \A k \in Node \ {n} : Quiet(k)'
    BY <1>1, <1>3 DEF ElectedOnce, Quiet
  <2>3. \A v \in Node : currentTerm[v] = 1 => currentTerm'[v] = 1
    BY <1>2, <1>3
  <2>4. QED BY <1>3, <2>1, <2>2, <2>3 DEF ElectedOnce
<1>7. QED BY <1>1, <1>5, <1>6 DEF UnderOneLeader

LEMMA ReplicateUnderOne ==
  ASSUME ChangeTyped, UnderOneLeader, NEW n \in Node, NEW m \in Node, NEW k \in 0 .. Len(log[n]),
         NEW i \in commit[m] .. Larger(commit[m], commit[n]), Replicate(n, m, k, i)
  PROVE  UnderOneLeader'
<1>1. /\ Receive(n, m, k) /\ FollowLeader(n, m)
      /\ UNCHANGED <<role, applied, conf, pending, hollow>>
      /\ \A v \in Node \ {m, n} : commit'[v] = commit[v]
  BY ReplicateFacts
<1>2. \A v \in Node \ {m} : log'[v] = log[v]
  BY <1>1, ReceiveFacts
<1>3. QED BY <1>1, <1>2, FollowUnderOne

LEMMA MismatchUnderOne ==
  ASSUME ChangeTyped, UnderOneLeader, NEW n \in Node, NEW m \in Node, Mismatch(n, m)
  PROVE  UnderOneLeader'
<1>1. /\ FollowLeader(n, m) /\ log' = log /\ commit' = commit
      /\ UNCHANGED <<role, applied, conf, pending, hollow>>
  BY DEF Mismatch
<1>2. QED BY <1>1, FollowUnderOne

\* There is no leader of another term to usurp.
LEMMA NoneUsurped ==
  ASSUME UnderOneLeader, NEW n \in Node, NEW m \in Node
  PROVE  ~Usurp(n, m)
<1> SUFFICES ASSUME Usurp(n, m) PROVE FALSE
  OBVIOUS
<1>1. role[n] = "LEADER" /\ role[m] = "LEADER" /\ currentTerm[m] < currentTerm[n]
  BY DEF Usurp
<1>2. currentTerm[n] = 1 /\ currentTerm[m] = 1
  BY <1>1, LeaderIs
<1>3. QED BY <1>1, <1>2

\* A leader hears of a later term: the first one is over.
LEMMA StepDownUnderOne ==
  ASSUME ChangeTyped, UnderOneLeader, NEW n \in Node, NEW m \in Node, StepDown(n, m),
         FirstTerm'
  PROVE  UnderOneLeader'
<1>1. /\ role[n] = "LEADER" /\ currentTerm[m] > currentTerm[n]
      /\ currentTerm' = [currentTerm EXCEPT ![n] = currentTerm[m]]
  BY DEF StepDown
<1>2. currentTerm[n] = 1 /\ currentTerm[m] \in Nat
  BY <1>1, LeaderIs, NodeFacts
<1>3. currentTerm'[n] = currentTerm[m] /\ currentTerm'[n] <= 1
  BY <1>1 DEF ChangeTyped, FirstTerm
<1>4. QED BY <1>1, <1>2, <1>3

\* A second election in the first term would have a majority of the first voters
\* that has not voted in it.
LEMMA ElectUnderOne ==
  ASSUME ChangeTyped, UnderOneLeader, NEW n \in Node, NEW q \in SUBSET Node,
         NEW t \in 1 .. MaxTerm, Elect(n, q, t), FirstTerm'
  PROVE  UnderOneLeader'
<1>1. /\ n \in q /\ q \subseteq TransitionVoterIds(conf[n]) /\ HasQuorum(conf[n], q)
      /\ \A v \in q : currentTerm[v] < t
      /\ role' = [v \in Node |-> IF v = n THEN "LEADER"
                                 ELSE IF v \in q THEN "FOLLOWER" ELSE role[v]]
      /\ currentTerm' = [v \in Node |-> IF v \in q THEN t ELSE currentTerm[v]]
      /\ UNCHANGED <<log, commit, applied, conf, pending, hollow>>
  BY DEF Elect, Grants
<1>2. currentTerm'[n] = t /\ t \in Nat /\ t <= 1 /\ t = 1
  BY <1>1, InitialAssumption DEF FirstTerm
<1>3. \A v \in q : currentTerm[v] = 0
  BY <1>1, <1>2 DEF ChangeTyped
<1>4. conf[n] = Stable(1, Voters, Learners) /\ log[n] = << >>
  BY <1>1, <1>3 DEF UnderOneLeader, Untouched
<1>5. IsMajorityOf(q, Voters)
  BY <1>1, <1>4 DEF HasQuorum, Stable
<1>6. \A k \in Node : ~ElectedOnce(k)
  <2> SUFFICES ASSUME NEW k \in Node, ElectedOnce(k) PROVE FALSE
    OBVIOUS
  <2>1. PICK r \in SUBSET Node : IsMajorityOf(r, Voters) /\ \A v \in r : currentTerm[v] = 1
    BY DEF ElectedOnce
  <2>2. Voters \in SUBSET Node
    BY InitialAssumption
  <2>3. (q \cap r) \cap Voters # {}
    BY <1>5, <2>1, <2>2, MajoritiesMeet
  <2>4. QED BY <1>3, <2>1, <2>3
<1>7. \A k \in Node : currentTerm[k] = 0 /\ Quiet(k)
  BY <1>6 DEF UnderOneLeader
<1>8. \A k \in Node : Untouched(k)'
  BY <1>1, <1>7 DEF UnderOneLeader, Untouched
<1>9. \A k \in Node \ {n} : Quiet(k)'
  BY <1>1, <1>7 DEF Quiet
<1>10. ~HasPendingMembershipChange(n)'
  <2>1. Len(log[n]) = 0 /\ applied[n] \in Nat
    BY <1>4, NodeFacts
  <2>2. QED BY <1>1, <2>1 DEF HasPendingMembershipChange
<1>11. Leading(n)'
  BY <1>1, <1>2, <1>7, <1>10 DEF Leading, Quiet
<1>12. \A v \in q : currentTerm'[v] = 1
  BY <1>1, <1>2
<1>13. ElectedOnce(n)'
  BY <1>5, <1>9, <1>11, <1>12 DEF ElectedOnce
<1>14. QED BY <1>1, <1>8, <1>13 DEF UnderOneLeader

----------------------------------------------------------------------------
\* While no node has seen a second term, there is one leader at most, and the
\* change it waits for is the only one between what it has applied and the end
\* of its log.
THEOREM OneLeaderInFirstTerm == Spec => []ReportInductive
<1>1. Init => ReportInductive
  <2> SUFFICES ASSUME Init PROVE UnderOneLeader
    BY ChangeTypedInit DEF ReportInductive
  <2>1. \A n \in Node : Untouched(n) /\ Quiet(n) /\ currentTerm[n] = 0
    BY DEF Init, Untouched, Quiet
  <2>2. QED BY <2>1 DEF UnderOneLeader, Init
<1>2. ReportInductive /\ [Next]_vars => ReportInductive'
  <2> SUFFICES ASSUME ReportInductive, [Next]_vars, FirstTerm'
               PROVE  UnderOneLeader'
    BY ChangeTypedStep DEF ReportInductive
  <2>1. ChangeTyped /\ UnderOneLeader
    BY FirstTermBefore DEF ReportInductive
  <2>2. CASE UNCHANGED vars
    <3>1. /\ \A n \in Node : SameNode(n) /\ commit'[n] = commit[n]
          /\ hollow' = hollow /\ currentTerm' = currentTerm
      BY <2>2 DEF vars, coreVars, SameNode
    <3>2. \A n \in Node : /\ Untouched(n)' /\ (Quiet(n) => Quiet(n)')
                          /\ (Leading(n) => Leading(n)')
      BY <2>1, <3>1, SameNodeFacts DEF UnderOneLeader
    <3>3. \A n \in Node : ElectedOnce(n) => ElectedOnce(n)'
      BY <3>1, <3>2 DEF ElectedOnce
    <3>4. QED BY <2>1, <3>1, <3>2, <3>3 DEF UnderOneLeader
  <2>3. CASE Next
    BY <2>1, <2>3, ProposeUnderOne, ApplyUnwatchedUnderOne, FinalizeUnderOne, AnswerUnderOne,
       ChangeUnderOne, ReplicateUnderOne, MismatchUnderOne, NoneUsurped, ElectUnderOne, StepDownUnderOne DEF Next
  <2>4. QED BY <2>2, <2>3
<1>3. QED BY <1>1, <1>2, PTL DEF Spec

\* Until a second leader is elected, a change reported OK is in force and over,
\* in a cluster of any size and however far each node lags behind: the runtime
\* reports a change of two phases only after the second (ProcessApplyCompletion),
\* and the entry it then finds at the index is the one it was asked for.
THEOREM ReportHolds == Spec => []ReportHoldsUnderOneLeader
<1>1. ReportInductive => ReportHoldsUnderOneLeader
  BY DEF ReportInductive, FirstTerm, UnderOneLeader, ReportHoldsUnderOneLeader
<1>2. QED BY <1>1, OneLeaderInFirstTerm, PTL

----------------------------------------------------------------------------
(***************************************************************************)
(* The cluster until a leak.  The state forgets who was elected by whom,   *)
(* what a leader's log was, who acknowledged it and what was committed by  *)
(* which quorum; the inductive invariant says that there is a history h    *)
(* the state agrees with:                                                  *)
(*   led[t]       the log of the leader of term t, empty if it has none,   *)
(*   won          the elections: the length of the winner's log, what of   *)
(*                it the winner had applied, and its voters,               *)
(*   acked[t][v]  how far node v has acknowledged led[t],                  *)
(*   done         the commits: an entry of the leader's own term, and what *)
(*                the leader had applied when a quorum had it.             *)
(***************************************************************************)
Election == [term : Nat, node : Node, base : Nat, applied : Nat, voters : SUBSET Node]
Decision == [term : Nat, index : Nat, applied : Nat]

History == [led : [Nat -> Seq(Entry)], won : SUBSET Election,
            acked : [Nat -> [Node -> Nat]], done : SUBSET Decision]

\* The first i entries of s and of r are there, and the same.
Agree(s, r, i) == i <= Len(s) /\ i <= Len(r) /\ \A k \in 1 .. i : s[k] = r[k]

\* Up to any entry, s is what the leader of that entry's term had.
Traced(led, s) == \A i \in 1 .. Len(s) : Agree(s, led[s[i].term], i)

Sorted(s) == \A i, k \in 1 .. Len(s) : i <= k => s[i].term <= s[k].term

\* Every change in s is a valid one of what lies before it.
Legal(s) ==
    \A i \in 1 .. Len(s) : IsChange(s[i]) =>
        IsSuccessor(ConfAt(s, i - 1), s[i].conf) /\ ValidateMembershipView(s[i].conf)

Sound(led, s) == Traced(led, s) /\ Sorted(s) /\ Legal(s)

\* No two changes behind i, as far as k.
OneChange(s, i, k) ==
    \A x, y \in i + 1 .. k : IsChange(s[x]) /\ IsChange(s[y]) => x = y

\* A leader after term t, of term u at the latest, has not entry j of term t.
Lost(h, t, j, u) ==
    \E e \in h.won : t < e.term /\ e.term <= u /\ ~Agree(h.led[t], h.led[e.term], j)

\* Entry i of s was committed, in term u at the latest, by a leader that had
\* applied less.
Covers(h, s, i, r) == r.applied < i /\ i <= r.index /\ Agree(h.led[r.term], s, i)
Covered(h, s, i, u) == \E r \in h.done : r.term <= u /\ Covers(h, s, i, r)

\* What node v has acknowledged in term t is in s, or was lost by term u.
Remembered(h, v, t, s, u) ==
    \A j \in 1 .. h.acked[t][v] :
        h.led[t][j].term = t => Agree(h.led[t], s, j) \/ Lost(h, t, j, u)

\* Election e went to a node with the log s, whose entries beyond e.base are
\* of term e.
Ran(h, e, s) ==
    /\ e.applied <= e.base /\ e.base <= Len(s)
    /\ \A i \in 1 .. Len(s) : IF i <= e.base THEN s[i].term < e.term ELSE s[i].term = e.term
    /\ OneChange(s, e.applied, e.base)
    /\ HasQuorum(ConfAt(s, e.applied), e.voters)
    /\ e.applied > 0 => Covered(h, s, e.applied, e.term - 1)
    /\ \A v \in e.voters, t \in Nat : t < e.term => Remembered(h, v, t, s, e.term - 1)

Decided(h, r) ==
    /\ \E e \in h.won : e.term = r.term
    /\ r.index \in 1 .. Len(h.led[r.term]) /\ h.led[r.term][r.index].term = r.term
    /\ r.applied < r.index /\ OneChange(h.led[r.term], r.applied, r.index)
    /\ \E q \in SUBSET Node : /\ HasQuorum(ConfAt(h.led[r.term], r.applied), q)
                              /\ \A v \in q : r.index <= h.acked[r.term][v]
    /\ r.applied > 0 => Covered(h, h.led[r.term], r.applied, r.term)

\* Every later leader has what was committed.
Complete(h) ==
    \A r \in h.done, e \in h.won :
        r.term < e.term => Agree(h.led[r.term], h.led[e.term], r.index)

\* A history of nodes that have reached the terms in now.
HistoryOf(h, now) ==
    /\ h \in History
    /\ \A t \in Nat : Sound(h.led, h.led[t])
    /\ \A t \in Nat : h.led[t] # << >> => \E e \in h.won : e.term = t
    /\ \A e, f \in h.won : e.term = f.term => e = f
    /\ \A e \in h.won : Ran(h, e, h.led[e.term]) /\ \A v \in e.voters : e.term <= now[v]
    /\ \A r \in h.done : Decided(h, r)
    /\ Complete(h)
    /\ \A t \in Nat, v \in Node : /\ h.acked[t][v] <= Len(h.led[t])
                                  /\ h.acked[t][v] > 0 => t <= now[v]

\* What node n, in term u and with log s, configuration c, applied index a and
\* commit index i, has of the history.
Follows(h, n, s, u, c, a, i) ==
    /\ Sound(h.led, s)
    /\ \A x \in 1 .. Len(s) : s[x].term <= u
    /\ c = ConfAt(s, a)
    /\ OneChange(s, i, Len(s))
    /\ \A x \in 1 .. i : Covered(h, s, x, u)
    /\ \A t \in Nat : Remembered(h, n, t, s, u)

\* What makes it the leader of term u, with progress m.
Leads(h, n, s, u, a, i, m) ==
    /\ \E e \in h.won : e.term = u /\ e.node = n
    /\ s = h.led[u]
    /\ OneChange(s, a, Len(s))
    /\ h.acked[u][n] = Len(s)
    /\ \A v \in Node \ {n} : m[v] <= h.acked[u][v]
    /\ i > 0 => \E r \in h.done : /\ r.term <= u /\ Covers(h, s, i, r)
                                 /\ \A x \in a + 1 .. r.applied : ~IsChange(s[x])

NodeIn(h, n) == Follows(h, n, log[n], currentTerm[n], conf[n], applied[n], commit[n])
LeaderIn(h, n) == Leads(h, n, log[n], currentTerm[n], applied[n], commit[n], match[n])

ClusterIn(h) ==
    /\ HistoryOf(h, currentTerm)
    /\ \A n \in Node : NodeIn(h, n)
    /\ \A n \in Node : role[n] = "LEADER" => LeaderIn(h, n)

HasHistory == match \in [Node -> [Node -> Nat]] /\ \E h \in History : ClusterIn(h)

ChangeInductive == ChangeTyped /\ (leaks = {} => HasHistory)

----------------------------------------------------------------------------
\* Facts about logs and the configurations they leave in force.

LEMMA LogFacts ==
  ASSUME NEW s \in Seq(Entry)
  PROVE  /\ Len(s) \in Nat
         /\ \A i \in 1 .. Len(s) : /\ s[i] \in Entry /\ s[i].term \in Nat
                                   /\ s[i].conf \in MembershipView
<1>1. Len(s) \in Nat /\ \A i \in 1 .. Len(s) : s[i] \in Entry
  BY LenProperties, ElementOfSeq
<1>2. QED BY <1>1 DEF Entry

LEMMA SameLog ==
  ASSUME NEW s \in Seq(Entry), NEW r \in Seq(Entry), Len(s) = Len(r), Agree(s, r, Len(s))
  PROVE  s = r
BY SeqEqual, LenProperties DEF Agree

LEMMA AgreeSym ==
  ASSUME NEW s, NEW r, NEW i, Agree(s, r, i)
  PROVE  Agree(r, s, i)
BY DEF Agree

LEMMA AgreeLess ==
  ASSUME NEW s \in Seq(Entry), NEW r \in Seq(Entry), NEW i \in Nat, NEW k \in Nat, k <= i,
         Agree(s, r, i)
  PROVE  Agree(s, r, k)
<1>1. Len(s) \in Nat /\ Len(r) \in Nat
  BY LogFacts
<1>2. QED BY <1>1 DEF Agree

LEMMA AgreeTrans ==
  ASSUME NEW s \in Seq(Entry), NEW r \in Seq(Entry), NEW w \in Seq(Entry),
         NEW i \in Nat, NEW k \in Nat, i <= k, Agree(s, r, i), Agree(r, w, k)
  PROVE  Agree(s, w, i)
<1>1. Len(s) \in Nat /\ Len(r) \in Nat /\ Len(w) \in Nat
  BY LogFacts
<1>2. QED BY <1>1 DEF Agree

LEMMA ConfAtNone ==
  ASSUME NEW s, NEW i \in Nat, NEW k \in Nat, i <= k,
         \A x \in i + 1 .. k : ~IsChange(s[x])
  PROVE  ConfAt(s, k) = ConfAt(s, i)
<1>1. {x \in 1 .. k : IsChange(s[x])} = {x \in 1 .. i : IsChange(s[x])}
  OBVIOUS
<1>2. QED BY <1>1 DEF ConfAt

LEMMA ConfAtChange ==
  ASSUME NEW s, NEW i \in Nat, i # 0, IsChange(s[i])
  PROVE  ConfAt(s, i) = s[i].conf
<1> DEFINE T == {x \in 1 .. i : IsChange(s[x])}
<1>1. T \subseteq Nat /\ i \in T /\ \A k \in T : k <= i
  OBVIOUS
<1>2. ConfAt(s, i) = IF T = {} THEN Stable(1, Voters, Learners) ELSE s[Max(T)].conf
  BY DEF ConfAt
<1> HIDE DEF T
<1> DEFINE m == Max(T)
<1>3. m \in T /\ i <= m
  BY <1>1, MaxFacts
<1> HIDE DEF m
<1>4. m = i
  BY <1>1, <1>3
<1>5. QED BY <1>1, <1>2, <1>4 DEF m

LEMMA ConfAtSame ==
  ASSUME NEW s, NEW r, NEW i \in Nat, \A x \in 1 .. i : s[x] = r[x]
  PROVE  ConfAt(s, i) = ConfAt(r, i)
<1> DEFINE T == {x \in 1 .. i : IsChange(s[x])}
<1>1. T = {x \in 1 .. i : IsChange(r[x])} /\ T \subseteq 1 .. i
  OBVIOUS
<1>2. /\ ConfAt(s, i) = IF T = {} THEN Stable(1, Voters, Learners) ELSE s[Max(T)].conf
      /\ ConfAt(r, i) = IF T = {} THEN Stable(1, Voters, Learners) ELSE r[Max(T)].conf
  BY <1>1 DEF ConfAt
<1> HIDE DEF T
<1>3. T # {} => Max(T) \in T
  <2>1. T \subseteq Nat /\ \A k \in T : k <= i
    BY <1>1
  <2>2. QED BY <2>1, MaxFacts
<1>4. QED BY <1>1, <1>2, <1>3

LEMMA AgreeThen ==
  ASSUME NEW s \in Seq(Entry), NEW r \in Seq(Entry), NEW w \in Seq(Entry), NEW i \in Nat,
         Agree(s, r, i), Agree(r, w, i)
  PROVE  Agree(s, w, i)
<1>1. i <= i
  OBVIOUS
<1>2. QED BY <1>1, AgreeTrans

LEMMA AgreeVia ==
  ASSUME NEW s \in Seq(Entry), NEW r \in Seq(Entry), NEW w \in Seq(Entry), NEW i \in Nat,
         Agree(r, s, i), Agree(r, w, i)
  PROVE  Agree(s, w, i)
BY AgreeSym, AgreeThen

LEMMA AgreeEntry ==
  ASSUME NEW s \in Seq(Entry), NEW r \in Seq(Entry), NEW i \in Nat, Agree(s, r, i),
         NEW x, x \in 1 .. i
  PROVE  x \in 1 .. Len(s) /\ x \in 1 .. Len(r) /\ s[x] = r[x]
<1>1. Len(s) \in Nat /\ Len(r) \in Nat /\ i <= Len(s) /\ i <= Len(r)
  BY LogFacts DEF Agree
<1>2. QED BY <1>1 DEF Agree

LEMMA AgreeLast ==
  ASSUME NEW s \in Seq(Entry), NEW r \in Seq(Entry), NEW i \in Nat, Agree(s, r, i), i # 0
  PROVE  i \in 1 .. Len(s) /\ i \in 1 .. Len(r) /\ s[i] = r[i]
<1>1. i \in 1 .. i
  OBVIOUS
<1>2. QED BY <1>1, AgreeEntry

LEMMA AgreeConf ==
  ASSUME NEW s, NEW r, NEW i \in Nat, Agree(s, r, i), NEW k \in Nat, k <= i
  PROVE  ConfAt(s, k) = ConfAt(r, k)
BY ConfAtSame DEF Agree

LEMMA FirstIsValid == Stable(1, Voters, Learners) \in ValidView
  BY InitialAssumption DEF ValidView, Stable, MembershipView

LEMMA ConfAtValid ==
  ASSUME NEW s \in Seq(Entry), Legal(s), NEW i \in Nat, i <= Len(s)
  PROVE  ConfAt(s, i) \in ValidView
<1> DEFINE T == {x \in 1 .. i : IsChange(s[x])}
<1>1. T \subseteq 1 .. i /\ \A x \in T : IsChange(s[x])
  OBVIOUS
<1>2. ConfAt(s, i) = IF T = {} THEN Stable(1, Voters, Learners) ELSE s[Max(T)].conf
  BY DEF ConfAt
<1> HIDE DEF T
<1>3. T # {} => Max(T) \in T
  <2>1. T \subseteq Nat /\ \A k \in T : k <= i
    BY <1>1
  <2>2. QED BY <2>1, MaxFacts
<1>4. \A x \in T : s[x].conf \in ValidView
  <2>1. Len(s) \in Nat /\ \A x \in T : x \in 1 .. Len(s)
    BY <1>1, LogFacts
  <2>2. QED BY <1>1, <2>1, LogFacts DEF Legal, ValidView
<1>5. QED BY <1>2, <1>3, <1>4, FirstIsValid

\* The same configuration, or a legal change of it.
Near(c, d) == c = d \/ IsSuccessor(c, d)

LEMMA OneChangeNear ==
  ASSUME NEW s \in Seq(Entry), Legal(s), NEW i \in Nat, NEW k \in Nat, i <= k, k <= Len(s),
         OneChange(s, i, k)
  PROVE  Near(ConfAt(s, i), ConfAt(s, k))
<1>1. CASE \A x \in i + 1 .. k : ~IsChange(s[x])
  BY <1>1, ConfAtNone DEF Near
<1>2. CASE \E x \in i + 1 .. k : IsChange(s[x])
  <2>1. PICK x \in i + 1 .. k : IsChange(s[x])
    BY <1>2
  <2>2. \A y \in i + 1 .. k : y # x => ~IsChange(s[y])
    BY <2>1 DEF OneChange
  <2>3. x \in Nat /\ x # 0 /\ x - 1 \in Nat /\ i <= x - 1 /\ x <= k /\ x \in 1 .. Len(s)
    BY LogFacts
  <2>4. ConfAt(s, x - 1) = ConfAt(s, i)
    <3>1. \A y \in i + 1 .. x - 1 : ~IsChange(s[y])
      BY <2>2, <2>3
    <3>2. QED BY <2>3, <3>1, ConfAtNone
  <2>5. ConfAt(s, k) = ConfAt(s, x)
    <3>1. \A y \in x + 1 .. k : ~IsChange(s[y])
      BY <2>2, <2>3
    <3>2. QED BY <2>3, <3>1, ConfAtNone
  <2>6. ConfAt(s, x) = s[x].conf
    BY <2>1, <2>3, ConfAtChange
  <2>7. IsSuccessor(ConfAt(s, x - 1), s[x].conf)
    BY <2>1, <2>3 DEF Legal
  <2>8. QED BY <2>4, <2>5, <2>6, <2>7 DEF Near
<1>3. QED BY <1>1, <1>2

\* Quorums of two configurations of which one follows the other meet.
LEMMA NearQuorumsMeet ==
  ASSUME NEW c \in ValidView, NEW d \in ValidView, Near(c, d) \/ Near(d, c),
         NEW q, NEW r, HasQuorum(c, q), HasQuorum(d, r)
  PROVE  q \cap r # {}
<1>1. /\ c \in MembershipView /\ ValidateMembershipView(c) /\ c.voters \in SUBSET Node
      /\ d \in MembershipView /\ ValidateMembershipView(d)
  BY DEF ValidView, MembershipView
<1>2. CASE c = d
  <2>1. (q \cap r) \cap c.voters # {}
    BY <1>1, <1>2, MajoritiesMeet DEF HasQuorum
  <2>2. QED BY <2>1
<1>3. CASE IsSuccessor(c, d)
  <2>1. \E n \in q \cap r : n \in TransitionVoterIds(c)
    BY <1>1, <1>3, SuccessiveQuorumsMeet
  <2>2. QED BY <2>1
<1>4. CASE IsSuccessor(d, c)
  <2>1. \E n \in r \cap q : n \in TransitionVoterIds(d)
    BY <1>1, <1>4, SuccessiveQuorumsMeet
  <2>2. QED BY <2>1
<1>5. QED BY <1>2, <1>3, <1>4 DEF Near

----------------------------------------------------------------------------
\* What is committed and who is elected.

LEMMA HistoryFacts ==
  ASSUME NEW h \in History
  PROVE  /\ \A t \in Nat : h.led[t] \in Seq(Entry) /\ Len(h.led[t]) \in Nat
         /\ \A t \in Nat, v \in Node : h.acked[t][v] \in Nat
         /\ \A e \in h.won : e \in Election
         /\ \A r \in h.done : r \in Decision
<1>1. /\ h.led \in [Nat -> Seq(Entry)] /\ h.acked \in [Nat -> [Node -> Nat]]
      /\ h.won \subseteq Election /\ h.done \subseteq Decision
  BY DEF History
<1>2. QED BY <1>1, LogFacts

\* A commit r and an election e of a later term do not miss each other, if
\* every election between them knows of r, and the leader that committed and
\* the winner know what was committed before each of them.
LEMMA LaterHas ==
  ASSUME NEW h \in History, \A t \in Nat : Sound(h.led, h.led[t]),
         \A x \in h.done : Decided(h, x),
         NEW r \in Decision, Decided(h, r),
         NEW e \in Election, NEW s \in Seq(Entry), Legal(s), Ran(h, e, s), r.term < e.term,
         \A f \in h.won : r.term < f.term /\ f.term < e.term =>
             Agree(h.led[r.term], h.led[f.term], r.index),
         \A x \in h.done : x.term < r.term => Agree(h.led[x.term], h.led[r.term], x.index),
         r.applied > 0 =>
             \E x \in h.done : /\ x.term <= r.term /\ Covers(h, h.led[r.term], r.applied, x)
                               /\ Agree(h.led[x.term], s, x.index)
  PROVE  Agree(h.led[r.term], s, r.index)
<1> DEFINE t == r.term
           j == r.index
           a == r.applied
           b == e.applied
           l == h.led[t]
<1>1. /\ t \in Nat /\ j \in Nat /\ a \in Nat /\ b \in Nat /\ e.term \in Nat /\ e.base \in Nat
      /\ l \in Seq(Entry) /\ Len(l) \in Nat /\ Len(s) \in Nat /\ Legal(l)
      /\ \A v \in Node : h.acked[t][v] \in Nat
      /\ e.voters \in SUBSET Node
  BY HistoryFacts, LogFacts DEF Decision, Election, Sound
<1>2. /\ j \in 1 .. Len(l) /\ l[j].term = t /\ a < j /\ OneChange(l, a, j)
  BY DEF Decided
<1>3. /\ b <= e.base /\ e.base <= Len(s) /\ OneChange(s, b, e.base)
      /\ HasQuorum(ConfAt(s, b), e.voters)
      /\ b > 0 => Covered(h, s, b, e.term - 1)
      /\ \A i \in 1 .. Len(s) : s[i].term < e.term => i <= e.base
  <2>1. \A i \in 1 .. Len(s) : IF i <= e.base THEN s[i].term < e.term ELSE s[i].term = e.term
    BY DEF Ran
  <2>2. QED BY <1>1, <2>1, LogFacts DEF Ran
<1> SUFFICES ASSUME ~Agree(l, s, j) PROVE FALSE
  OBVIOUS
<1>4. PICK q \in SUBSET Node : /\ HasQuorum(ConfAt(l, a), q)
                               /\ \A v \in q : j <= h.acked[t][v]
  BY DEF Decided
<1>5. ~Lost(h, t, j, e.term - 1)
  <2> SUFFICES ASSUME NEW f \in h.won, t < f.term, f.term <= e.term - 1
               PROVE  Agree(l, h.led[f.term], j)
    BY DEF Lost
  <2>1. f.term \in Nat
    BY HistoryFacts DEF Election
  <2>2. QED BY <1>1, <2>1
<1>6. q \cap e.voters = {}
  <2> SUFFICES ASSUME NEW v \in q, v \in e.voters PROVE FALSE
    OBVIOUS
  <2>1. Remembered(h, v, t, s, e.term - 1)
    BY <1>1 DEF Ran
  <2>2. j \in 1 .. h.acked[t][v]
    BY <1>1, <1>2, <1>4
  <2>3. QED BY <1>2, <1>5, <2>1, <2>2 DEF Remembered
<1>7. Agree(l, s, a) /\ a <= e.base
  <2>1. CASE a = 0
    BY <1>1, <2>1 DEF Agree
  <2>2. CASE a > 0
    <3>1. PICK x \in h.done : /\ x.term <= t /\ Covers(h, l, a, x)
                              /\ Agree(h.led[x.term], s, x.index)
      BY <2>2
    <3>2. /\ x.term \in Nat /\ x.index \in Nat /\ h.led[x.term] \in Seq(Entry)
          /\ a <= x.index /\ Agree(h.led[x.term], l, a)
      BY <3>1, HistoryFacts DEF Decision, Covers
    <3>3. Agree(l, s, a)
      <4>1. Agree(h.led[x.term], s, a)
        BY <1>1, <3>1, <3>2, AgreeLess
      <4>2. QED BY <1>1, <3>2, <4>1, AgreeVia
    <3>4. x.index \in 1 .. Len(h.led[x.term]) /\ h.led[x.term][x.index].term = x.term
      BY DEF Decided
    <3>5. x.index \in 1 .. Len(s) /\ s[x.index].term = x.term
      <4>1. x.index \in 1 .. x.index
        BY <3>2, <3>4
      <4>2. x.index \in 1 .. Len(s) /\ h.led[x.term][x.index] = s[x.index]
        BY <3>1, <3>2, <4>1, AgreeEntry
      <4>3. QED BY <3>4, <4>2
    <3>6. x.term < e.term
      BY <1>1, <3>1, <3>2
    <3>7. x.index <= e.base
      BY <1>3, <3>5, <3>6
    <3>8. QED BY <1>1, <3>2, <3>3, <3>7
  <2>3. QED BY <1>1, <2>1, <2>2
<1>8. ConfAt(l, a) = ConfAt(s, a)
  BY <1>1, <1>7, AgreeConf
<1>9. ~Near(ConfAt(s, a), ConfAt(s, b)) /\ ~Near(ConfAt(s, b), ConfAt(s, a))
  <2>1. a <= Len(s) /\ b <= Len(s)
    BY <1>1, <1>3, <1>7
  <2>2. ConfAt(s, a) \in ValidView /\ ConfAt(s, b) \in ValidView
    BY <1>1, <2>1, ConfAtValid
  <2>3. HasQuorum(ConfAt(s, a), q) /\ HasQuorum(ConfAt(s, b), e.voters)
    BY <1>3, <1>4, <1>8
  <2>4. QED BY <1>6, <2>2, <2>3, NearQuorumsMeet
<1>10. CASE b <= a
  <2>1. OneChange(s, b, a)
    <3>1. a <= e.base /\ a \in Nat /\ b \in Nat /\ e.base \in Nat
      BY <1>1, <1>7
    <3>2. \A x \in b + 1 .. a : x \in b + 1 .. e.base
      BY <3>1
    <3>3. QED BY <1>3, <3>2 DEF OneChange
  <2>2. a <= Len(s)
    BY <1>1, <1>3, <1>7
  <2>3. QED BY <1>1, <1>9, <1>10, <2>1, <2>2, OneChangeNear
<1>11. CASE a < b
  <2>1. ~OneChange(s, a, b)
    <3>1. b <= Len(s)
      BY <1>1, <1>3
    <3>2. QED BY <1>1, <1>9, <1>11, <3>1, OneChangeNear
  <2>2. PICK x \in a + 1 .. b, y \in a + 1 .. b : IsChange(s[x]) /\ IsChange(s[y]) /\ x # y
    BY <2>1 DEF OneChange
  <2>3. PICK c \in h.done : c.term <= e.term - 1 /\ Covers(h, s, b, c)
    BY <1>1, <1>3, <1>11 DEF Covered
  <2>4. /\ c.term \in Nat /\ c.index \in Nat /\ h.led[c.term] \in Seq(Entry)
        /\ b <= c.index /\ Agree(h.led[c.term], s, b)
    BY <2>3, HistoryFacts DEF Decision, Covers
  <2> DEFINE m == h.led[c.term]
  <2>0. /\ m \in Seq(Entry) /\ l \in Seq(Entry) /\ s \in Seq(Entry) /\ Agree(m, s, b)
        /\ b \in Nat /\ j \in Nat /\ b <= c.index /\ c.index \in Nat
    BY <1>1, <2>4
  <2> HIDE DEF m, l
  <2>5. j > b /\ Agree(l, s, b)
    <3>1. ASSUME Agree(l, s, b) PROVE j > b
      <4>1. j <= b => Agree(l, s, j)
        BY <2>0, <3>1, AgreeLess
      <4>2. ~Agree(l, s, j)
        BY DEF l
      <4>3. QED BY <2>0, <4>1, <4>2
    <3>2. CASE c.term < t
      <4>1. Agree(m, l, c.index)
        BY <3>2 DEF m, l
      <4>2. Agree(m, l, b)
        BY <2>0, <4>1, AgreeLess
      <4>3. Agree(l, s, b)
        BY <2>0, <4>2, AgreeVia
      <4>4. QED BY <3>1, <4>3
    <3>3. CASE c.term = t
      <4>1. Agree(l, s, b)
        BY <2>0, <3>3 DEF m, l
      <4>2. QED BY <3>1, <4>1
    <3>4. CASE t < c.term
      <4>1. PICK f \in h.won : f.term = c.term
        BY <2>3 DEF Decided
      <4>2. Agree(l, m, j)
        <5>1. c.term < e.term
          BY <1>1, <2>3, <2>4
        <5>2. Agree(l, h.led[f.term], j)
          BY <3>4, <4>1, <5>1 DEF l
        <5>3. QED BY <4>1, <5>2 DEF m
      <4>3. j > b
        <5>1. ASSUME j <= b PROVE FALSE
          <6>1. Agree(m, s, j)
            BY <2>0, <5>1, AgreeLess
          <6>2. Agree(l, s, j)
            BY <2>0, <4>2, <6>1, AgreeThen
          <6>3. QED BY <6>2 DEF l
        <5>2. QED BY <2>0, <5>1
      <4>4. Agree(l, m, b)
        BY <2>0, <4>2, <4>3, AgreeLess
      <4>5. Agree(l, s, b)
        BY <2>0, <4>4, AgreeThen
      <4>6. QED BY <4>3, <4>5
    <3>5. QED BY <1>1, <2>4, <3>2, <3>3, <3>4
  <2>9. a + 1 \in Nat /\ x \in 1 .. b /\ y \in 1 .. b
    BY <1>1, <2>2
  <2>6. IsChange(l[x]) /\ IsChange(l[y]) /\ x \in a + 1 .. j /\ y \in a + 1 .. j
    <3>1. l[x] = s[x] /\ l[y] = s[y]
      BY <2>5, <2>9 DEF Agree
    <3>2. x \in a + 1 .. j /\ y \in a + 1 .. j
      <4>1. b < j
        BY <2>0, <2>5
      <4>2. QED BY <1>1, <2>0, <2>2, <4>1
    <3>3. QED BY <2>2, <3>1, <3>2
  <2>7. OneChange(l, a, j)
    BY <1>2 DEF l
  <2>8. QED BY <2>2, <2>6, <2>7 DEF OneChange
<1>12. QED BY <1>1, <1>10, <1>11

\* Two elections of one term, both by nodes that know what was committed before
\* it, have a voter in common.
LEMMA VotersMeet ==
  ASSUME NEW h \in History, \A x \in h.done : Decided(h, x),
         NEW e \in Election, NEW s \in Seq(Entry), Legal(s), Ran(h, e, s),
         NEW f \in Election, NEW r \in Seq(Entry), Legal(r), Ran(h, f, r),
         f.term = e.term, e.applied <= f.applied,
         \A x \in h.done : x.term < e.term => Agree(h.led[x.term], s, x.index),
         \A x \in h.done : x.term < f.term => Agree(h.led[x.term], r, x.index)
  PROVE  e.voters \cap f.voters # {}
<1> DEFINE a == e.applied
           b == f.applied
<1>1. /\ a \in Nat /\ b \in Nat /\ e.term \in Nat /\ e.base \in Nat /\ f.base \in Nat
      /\ Len(s) \in Nat /\ Len(r) \in Nat
  BY LogFacts DEF Election
<1>2. /\ a <= e.base /\ e.base <= Len(s) /\ OneChange(s, a, e.base)
      /\ HasQuorum(ConfAt(s, a), e.voters)
      /\ \A i \in 1 .. Len(s) : s[i].term < e.term => i <= e.base
  <2>1. \A i \in 1 .. Len(s) : IF i <= e.base THEN s[i].term < e.term ELSE s[i].term = e.term
    BY DEF Ran
  <2>2. QED BY <1>1, <2>1, LogFacts DEF Ran
<1>3. /\ b <= f.base /\ f.base <= Len(r) /\ HasQuorum(ConfAt(r, b), f.voters)
      /\ b > 0 => Covered(h, r, b, e.term - 1)
  BY DEF Ran
<1>4. Agree(s, r, b) /\ b <= e.base
  <2>1. CASE b = 0
    BY <1>1, <2>1 DEF Agree
  <2>2. CASE b > 0
    <3>1. PICK x \in h.done : x.term <= e.term - 1 /\ Covers(h, r, b, x)
      BY <1>3, <2>2 DEF Covered
    <3>2. /\ x.term \in Nat /\ x.index \in Nat /\ h.led[x.term] \in Seq(Entry)
          /\ b <= x.index /\ Agree(h.led[x.term], r, b)
      BY <3>1, HistoryFacts DEF Decision, Covers
    <3>3. Agree(h.led[x.term], s, x.index) /\ x.term < e.term
      BY <1>1, <3>1, <3>2
    <3>4. Agree(s, r, b)
      BY <1>1, <3>2, <3>3, AgreeLess, AgreeSym, AgreeTrans
    <3>5. x.index \in 1 .. Len(h.led[x.term]) /\ h.led[x.term][x.index].term = x.term
      BY DEF Decided
    <3>6. x.index \in 1 .. Len(s) /\ s[x.index].term < e.term
      <4>1. x.index \in 1 .. x.index
        BY <3>2, <3>5
      <4>2. x.index \in 1 .. Len(s) /\ h.led[x.term][x.index] = s[x.index]
        BY <3>2, <3>3, <4>1, AgreeEntry
      <4>3. QED BY <3>3, <3>5, <4>2
    <3>7. x.index <= e.base
      BY <1>2, <3>6
    <3>8. QED BY <1>1, <3>2, <3>4, <3>7
  <2>3. QED BY <1>1, <2>1, <2>2
<1>5. ConfAt(s, b) = ConfAt(r, b)
  BY <1>1, <1>4, AgreeConf
<1>6. a <= Len(s) /\ b <= Len(s)
  BY <1>1, <1>2, <1>4
<1>7. OneChange(s, a, b)
  BY <1>1, <1>2, <1>4 DEF OneChange
<1>8. Near(ConfAt(s, a), ConfAt(s, b))
  BY <1>1, <1>6, <1>7, OneChangeNear
<1>9. ConfAt(s, a) \in ValidView /\ ConfAt(s, b) \in ValidView
  BY <1>1, <1>6, ConfAtValid
<1>10. HasQuorum(ConfAt(s, b), f.voters)
  BY <1>3, <1>5
<1>11. QED BY <1>2, <1>8, <1>9, <1>10, NearQuorumsMeet

\* Who grants a vote has acknowledged nothing that the candidate lacks, unless
\* a leader before has lost it (IsCandidateLogUpToDate).
LEMMA VoterKnows ==
  ASSUME NEW h \in History, \A t \in Nat : Sound(h.led, h.led[t]),
         \A t \in Nat : h.led[t] # << >> => \E e \in h.won : e.term = t,
         NEW v \in Node, NEW l \in Seq(Entry), Sound(h.led, l),
         NEW c \in Seq(Entry), Sound(h.led, c), IsCandidateLogUpToDate(l, c),
         NEW u \in Nat, NEW w \in Nat, w < u, \A i \in 1 .. Len(c) : c[i].term < u,
         NEW t \in Nat, Remembered(h, v, t, l, w)
  PROVE  Remembered(h, v, t, c, u - 1)
<1> SUFFICES ASSUME NEW j \in 1 .. h.acked[t][v], h.led[t][j].term = t
             PROVE  Agree(h.led[t], c, j) \/ Lost(h, t, j, u - 1)
  BY DEF Remembered
<1>1. /\ h.acked[t][v] \in Nat /\ h.led[t] \in Seq(Entry) /\ Len(h.led[t]) \in Nat
      /\ Len(l) \in Nat /\ Len(c) \in Nat
  BY HistoryFacts, LogFacts
<1>2. CASE Lost(h, t, j, w)
  <2>1. PICK e \in h.won : t < e.term /\ e.term <= w /\ ~Agree(h.led[t], h.led[e.term], j)
    BY <1>2 DEF Lost
  <2>2. e.term \in Nat
    BY HistoryFacts DEF Election
  <2>3. e.term <= u - 1
    BY <2>1, <2>2
  <2>4. QED BY <2>1, <2>3 DEF Lost
<1>3. CASE Agree(h.led[t], l, j)
  <2> DEFINE k == Len(l)
             m == Len(c)
  <2>1. j \in 1 .. k /\ k \in 1 .. k /\ l[j].term = t /\ l # << >>
    <3>1. j \in Nat /\ j \in 1 .. j
      BY <1>1
    <3>2. j \in 1 .. k /\ l[j] = h.led[t][j]
      <4>1. j # 0
        BY <3>1
      <4>2. QED BY <1>1, <1>3, <3>1, <4>1, AgreeLast
    <3>3. k # 0 /\ k \in 1 .. k
      BY <1>1, <3>2
    <3>4. QED BY <3>2, <3>3, EmptySeq
  <2>2. l[k].term \in Nat /\ t <= l[k].term /\ LastTerm(l) = l[k].term
    <3>1. l[k].term \in Nat
      BY <2>1, LogFacts
    <3>2. l[j].term <= l[k].term
      <4>1. j <= k
        BY <2>1
      <4>2. QED BY <2>1, <4>1 DEF Sound, Sorted
    <3>3. LastTerm(l) = l[k].term
      BY <2>1 DEF LastTerm, Last
    <3>4. QED BY <2>1, <3>1, <3>2, <3>3
  <2>3. m \in 1 .. m /\ LastTerm(c) = c[m].term /\ c[m].term \in Nat
    <3>1. c # << >>
      <4>1. CASE c = << >>
        <5>1. LastTerm(c) = 0 /\ Len(c) = 0
          BY <4>1, EmptySeq DEF LastTerm
        <5>2. QED BY <1>1, <2>1, <2>2, <5>1 DEF IsCandidateLogUpToDate
      <4>2. QED BY <4>1
    <3>2. m # 0
      BY <3>1, EmptySeq
    <3>3. QED BY <1>1, <3>1, <3>2, LogFacts DEF LastTerm, Last
  <2> DEFINE z == c[m].term
  <2>4. /\ Agree(c, h.led[z], m) /\ z < u /\ h.led[z] \in Seq(Entry) /\ Len(h.led[z]) \in Nat
        /\ c[m].term = z
    BY <2>3, HistoryFacts DEF Sound, Traced
  <2>5. CASE z = l[k].term /\ k <= m
    <3>1. Agree(l, h.led[z], k)
      BY <2>1, <2>5 DEF Sound, Traced
    <3>2. Agree(l, c, k)
      <4>1. Agree(c, h.led[z], k)
        BY <1>1, <2>4, <2>5, AgreeLess
      <4>2. Agree(h.led[z], l, k) /\ Agree(h.led[z], c, k)
        BY <3>1, <4>1, AgreeSym
      <4>3. QED BY <1>1, <2>4, <4>2, AgreeVia
    <3>3. j \in Nat /\ j <= k
      BY <2>1
    <3>4. Agree(h.led[t], c, j)
      BY <1>1, <1>3, <3>2, <3>3, AgreeTrans
    <3>5. QED BY <3>4
  <2>6. CASE l[k].term < z
    <3>1. t < z /\ z <= u - 1
      BY <2>2, <2>3, <2>4, <2>6
    <3>2. CASE Agree(h.led[t], h.led[z], j)
      <4>1. /\ j \in 1 .. Len(h.led[z]) /\ m \in 1 .. Len(h.led[z])
            /\ h.led[z][j].term = t /\ h.led[z][m].term = z
        <5> HIDE DEF z, m, k
        <5>1. j \in 1 .. j
          BY <1>1
        <5>2. j <= Len(h.led[z]) /\ h.led[t][j] = h.led[z][j]
          BY <3>2, <5>1 DEF Agree
        <5>3. m <= Len(h.led[z]) /\ h.led[z][m].term = z
          BY <2>3, <2>4 DEF Agree
        <5>4. QED BY <1>1, <2>3, <2>4, <5>2, <5>3
      <4>2. j <= m
        <5>1. m <= j => z <= t
          BY <2>3, <4>1 DEF Sound, Sorted
        <5>2. QED BY <1>1, <2>3, <3>1, <5>1
      <4>3. Agree(h.led[t], c, j)
        <5>1. j \in Nat /\ m \in Nat /\ Agree(h.led[z], c, m)
          BY <1>1, <2>3, <2>4, AgreeSym
        <5>2. QED BY <1>1, <2>4, <3>2, <4>2, <5>1, AgreeTrans
      <4>4. QED BY <4>3
    <3>3. CASE ~Agree(h.led[t], h.led[z], j)
      <4>1. h.led[z] # << >>
        BY <2>3, <2>4, EmptySeq DEF Agree
      <4>2. PICK e \in h.won : e.term = z
        BY <2>3, <4>1
      <4>3. QED BY <3>1, <3>3, <4>2 DEF Lost
    <3>4. QED BY <3>2, <3>3
  <2>7. (z = l[k].term /\ k <= m) \/ l[k].term < z
    BY <2>2, <2>3 DEF IsCandidateLogUpToDate
  <2>8. QED BY <2>5, <2>6, <2>7
<1>4. QED BY <1>1, <1>2, <1>3 DEF Remembered

----------------------------------------------------------------------------
\* A history only grows, and a leader's log by entries of its own term.
Grows(h, k) ==
    /\ \A t \in Nat : Agree(h.led[t], k.led[t], Len(h.led[t]))
    /\ \A e \in h.won : \A i \in 1 .. Len(k.led[e.term]) :
          Len(h.led[e.term]) < i => k.led[e.term][i].term = e.term
    /\ h.won \subseteq k.won /\ h.done \subseteq k.done

LEMMA AgreeGrows ==
  ASSUME NEW h \in History, NEW k \in History, Grows(h, k), NEW t \in Nat,
         NEW s \in Seq(Entry), NEW i \in Nat, Agree(h.led[t], s, i)
  PROVE  Agree(k.led[t], s, i)
<1>1. /\ h.led[t] \in Seq(Entry) /\ Len(h.led[t]) \in Nat
      /\ k.led[t] \in Seq(Entry) /\ Len(k.led[t]) \in Nat /\ Len(s) \in Nat
  BY HistoryFacts, LogFacts
<1>2. Agree(h.led[t], k.led[t], Len(h.led[t])) /\ i <= Len(h.led[t])
  BY DEF Grows, Agree
<1>3. Agree(k.led[t], h.led[t], i)
  BY <1>1, <1>2, AgreeLess, AgreeSym
<1>4. QED BY <1>1, <1>3, AgreeTrans

LEMMA TracedGrows ==
  ASSUME NEW h \in History, NEW k \in History, Grows(h, k),
         NEW s \in Seq(Entry), Traced(h.led, s)
  PROVE  Traced(k.led, s)
<1> SUFFICES ASSUME NEW i \in 1 .. Len(s) PROVE Agree(s, k.led[s[i].term], i)
  BY DEF Traced
<1>1. s[i].term \in Nat /\ i \in Nat /\ Agree(s, h.led[s[i].term], i)
  BY LogFacts DEF Traced
<1>2. Agree(k.led[s[i].term], s, i)
  BY <1>1, AgreeSym, AgreeGrows
<1>3. QED BY <1>2, AgreeSym

LEMMA CoveredGrows ==
  ASSUME NEW h \in History, NEW k \in History, Grows(h, k),
         NEW s \in Seq(Entry), NEW i \in Nat, NEW u \in Int, NEW w \in Int, u <= w,
         Covered(h, s, i, u)
  PROVE  Covered(k, s, i, w)
<1>1. PICK r \in h.done : r.term <= u /\ Covers(h, s, i, r)
  BY DEF Covered
<1>2. r \in k.done /\ r.term \in Nat
  BY HistoryFacts DEF Grows, Decision
<1>3. Covers(k, s, i, r)
  BY <1>1, <1>2, AgreeGrows DEF Covers
<1>4. QED BY <1>1, <1>2, <1>3 DEF Covered

LEMMA LostGrows ==
  ASSUME NEW h \in History, NEW k \in History, Grows(h, k),
         NEW t \in Nat, NEW j \in 1 .. Len(h.led[t]), h.led[t][j].term = t,
         NEW u \in Int, NEW w \in Int, u <= w, Lost(h, t, j, u)
  PROVE  Lost(k, t, j, w)
<1>1. PICK e \in h.won : t < e.term /\ e.term <= u /\ ~Agree(h.led[t], h.led[e.term], j)
  BY DEF Lost
<1>2. /\ e \in k.won /\ e.term \in Nat
      /\ Agree(h.led[t], k.led[t], Len(h.led[t]))
      /\ Agree(h.led[e.term], k.led[e.term], Len(h.led[e.term]))
      /\ \A i \in 1 .. Len(k.led[e.term]) :
            Len(h.led[e.term]) < i => k.led[e.term][i].term = e.term
  BY HistoryFacts DEF Grows, Election
<1> DEFINE a == h.led[t]
           b == h.led[e.term]
           c == k.led[t]
           d == k.led[e.term]
<1>3. /\ a \in Seq(Entry) /\ Len(a) \in Nat /\ b \in Seq(Entry) /\ Len(b) \in Nat
      /\ c \in Seq(Entry) /\ Len(c) \in Nat /\ d \in Seq(Entry) /\ Len(d) \in Nat
  BY <1>2, HistoryFacts
<1>0. Agree(a, c, Len(a)) /\ j \in Nat /\ j <= Len(a)
  BY <1>2, <1>3
<1> HIDE DEF a, b, c, d
<1>4. ASSUME Agree(c, d, j) PROVE FALSE
  <2>1. Agree(a, c, j)
    BY <1>0, <1>3, AgreeLess
  <2>2. Agree(a, d, j) /\ j \in 1 .. j
    <3>1. j \in Nat /\ j \in 1 .. j
      BY <1>0
    <3>2. QED BY <1>3, <1>4, <2>1, <3>1, AgreeThen
  <2>3. d[j].term = t /\ j \in 1 .. Len(d)
    <3>1. j \in 1 .. Len(d) /\ a[j] = d[j]
      BY <1>0, <1>3, <2>2, AgreeLast
    <3>2. a[j].term = t
      BY DEF a
    <3>3. QED BY <3>1, <3>2
  <2>4. j <= Len(b)
    <3>1. \A i \in 1 .. Len(d) : Len(b) < i => d[i].term = e.term
      BY <1>2 DEF b, d
    <3>2. ~(Len(b) < j)
      <4>1. t # e.term
        BY <1>1, <1>2
      <4>2. QED BY <2>3, <3>1, <4>1
    <3>3. QED BY <1>0, <1>3, <3>2
  <2>5. Agree(d, b, j)
    <3>1. Agree(b, d, Len(b))
      BY <1>2 DEF b, d
    <3>2. Agree(b, d, j)
      BY <1>0, <1>3, <2>4, <3>1, AgreeLess
    <3>3. QED BY <3>2, AgreeSym
  <2>6. Agree(a, b, j)
    BY <1>0, <1>3, <2>2, <2>5, AgreeThen
  <2>7. QED BY <1>1, <2>6 DEF a, b
<1>5. QED BY <1>1, <1>2, <1>4 DEF Lost, c, d

LEMMA RememberedGrows ==
  ASSUME NEW h \in History, NEW k \in History, Grows(h, k), NEW t \in Nat, NEW v \in Node,
         k.acked[t][v] = h.acked[t][v], h.acked[t][v] <= Len(h.led[t]),
         NEW s \in Seq(Entry), NEW r \in Seq(Entry), Agree(s, r, Len(s)),
         NEW u \in Int, NEW w \in Int, u <= w,
         Remembered(h, v, t, s, u)
  PROVE  Remembered(k, v, t, r, w)
<1> SUFFICES ASSUME NEW j \in 1 .. k.acked[t][v], k.led[t][j].term = t
             PROVE  Agree(k.led[t], r, j) \/ Lost(k, t, j, w)
  BY DEF Remembered
<1>1. /\ h.acked[t][v] \in Nat /\ h.led[t] \in Seq(Entry) /\ Len(h.led[t]) \in Nat
      /\ k.led[t] \in Seq(Entry) /\ Len(k.led[t]) \in Nat /\ Len(s) \in Nat
  BY HistoryFacts, LogFacts
<1>2. j \in 1 .. Len(h.led[t]) /\ Agree(h.led[t], k.led[t], Len(h.led[t]))
  <2>1. Agree(h.led[t], k.led[t], Len(h.led[t]))
    BY DEF Grows
  <2>2. j \in 1 .. h.acked[t][v]
    OBVIOUS
  <2>3. QED BY <1>1, <2>1, <2>2
<1>3. h.led[t][j].term = t
  BY <1>1, <1>2 DEF Agree
<1>4. CASE Agree(h.led[t], s, j)
  <2>1. j <= Len(s)
    BY <1>4 DEF Agree
  <2>2. Agree(h.led[t], r, j)
    <3>1. j \in Nat
      BY <1>2
    <3>2. QED BY <1>1, <1>4, <2>1, <3>1, AgreeTrans
  <2>3. QED BY <2>2, AgreeGrows
<1>5. CASE Lost(h, t, j, u)
  BY <1>2, <1>3, <1>5, LostGrows
<1>6. QED BY <1>3, <1>4, <1>5 DEF Remembered

\* The winner's log may grow, too.
LEMMA RanGrows ==
  ASSUME NEW h \in History, NEW k \in History, Grows(h, k),
         NEW e \in Election, NEW s \in Seq(Entry), Ran(h, e, s),
         NEW r \in Seq(Entry), Agree(s, r, Len(s)),
         \A i \in 1 .. Len(r) : Len(s) < i => r[i].term = e.term,
         \A t \in Nat, v \in Node : h.acked[t][v] <= Len(h.led[t]),
         \A t \in Nat, v \in e.voters : t < e.term => k.acked[t][v] = h.acked[t][v]
  PROVE  Ran(k, e, r)
<1>1. /\ e.applied \in Nat /\ e.base \in Nat /\ e.term \in Nat /\ e.voters \in SUBSET Node
      /\ Len(s) \in Nat /\ Len(r) \in Nat
  BY LogFacts DEF Election
<1>2. e.applied <= e.base /\ e.base <= Len(s) /\ OneChange(s, e.applied, e.base)
      /\ HasQuorum(ConfAt(s, e.applied), e.voters)
  BY DEF Ran
<1>3. Len(s) <= Len(r) /\ \A i \in 1 .. Len(s) : s[i] = r[i]
  BY DEF Agree
<1>4. e.base <= Len(r)
  BY <1>1, <1>2, <1>3
<1>5. ASSUME NEW i \in 1 .. Len(r)
      PROVE  IF i <= e.base THEN r[i].term < e.term ELSE r[i].term = e.term
  <2>1. CASE i <= Len(s)
    <3>1. i \in 1 .. Len(s) /\ r[i] = s[i]
      BY <1>1, <1>3, <2>1
    <3>2. QED BY <3>1 DEF Ran
  <2>2. CASE Len(s) < i
    BY <1>1, <1>2, <2>2
  <2>3. QED BY <1>1, <2>1, <2>2
<1>6. OneChange(r, e.applied, e.base)
  <2>1. \A i \in e.applied + 1 .. e.base : r[i] = s[i]
    BY <1>1, <1>2, <1>3
  <2>2. QED BY <1>2, <2>1 DEF OneChange
<1>7. HasQuorum(ConfAt(r, e.applied), e.voters)
  <2>1. e.applied <= Len(s)
    BY <1>1, <1>2
  <2>2. ConfAt(r, e.applied) = ConfAt(s, e.applied)
    BY <1>1, <2>1, AgreeConf
  <2>3. QED BY <1>2, <2>2
<1>8. ASSUME e.applied > 0
      PROVE  Covered(k, r, e.applied, e.term - 1)
  <2>1. PICK x \in h.done : x.term <= e.term - 1 /\ Covers(h, s, e.applied, x)
    BY <1>8 DEF Ran, Covered
  <2>2. x.term \in Nat /\ h.led[x.term] \in Seq(Entry)
    BY HistoryFacts DEF Decision
  <2> e.applied <= Len(s)
    BY <1>1, <1>2
  <2>3. Covers(h, r, e.applied, x)
    BY <1>1, <2>1, <2>2, AgreeTrans DEF Covers
  <2>4. Covered(h, r, e.applied, e.term - 1)
    BY <2>1, <2>3 DEF Covered
  <2>5. QED BY <1>1, <2>4, CoveredGrows
<1>9. ASSUME NEW v \in e.voters, NEW t \in Nat, t < e.term
      PROVE  Remembered(k, v, t, r, e.term - 1)
  <2>1. Remembered(h, v, t, s, e.term - 1) /\ v \in Node
    BY <1>1, <1>9 DEF Ran
  <2>2. e.term - 1 \in Int /\ e.term - 1 <= e.term - 1
    BY <1>1
  <2>3. k.acked[t][v] = h.acked[t][v] /\ h.acked[t][v] <= Len(h.led[t])
    BY <1>9, <2>1
  <2> DEFINE y == e.term - 1
  <2>4. y \in Int /\ y <= y /\ Remembered(h, v, t, s, y)
    BY <2>1, <2>2
  <2> HIDE DEF y
  <2>5. Remembered(k, v, t, r, y)
    BY <2>1, <2>3, <2>4, RememberedGrows
  <2>6. QED BY <2>5 DEF y
<1>10. QED BY <1>2, <1>4, <1>5, <1>6, <1>7, <1>8, <1>9 DEF Ran

LEMMA DecidedGrows ==
  ASSUME NEW h \in History, NEW k \in History, Grows(h, k),
         NEW r \in Decision, Decided(h, r),
         \A t \in Nat, v \in Node : h.acked[t][v] <= k.acked[t][v]
  PROVE  Decided(k, r)
<1> DEFINE l == h.led[r.term]
           m == k.led[r.term]
<1>1. /\ r.term \in Nat /\ r.index \in Nat /\ r.applied \in Nat
      /\ l \in Seq(Entry) /\ Len(l) \in Nat /\ m \in Seq(Entry) /\ Len(m) \in Nat
      /\ \A v \in Node : h.acked[r.term][v] \in Nat /\ k.acked[r.term][v] \in Nat
  BY HistoryFacts DEF Decision
<1>2. /\ \E e \in h.won : e.term = r.term
      /\ r.index \in 1 .. Len(l) /\ l[r.index].term = r.term
      /\ r.applied < r.index /\ OneChange(l, r.applied, r.index)
      /\ r.applied > 0 => Covered(h, l, r.applied, r.term)
  BY DEF Decided
<1>3. PICK q \in SUBSET Node : /\ HasQuorum(ConfAt(l, r.applied), q)
                               /\ \A v \in q : r.index <= h.acked[r.term][v]
  BY DEF Decided
<1>4. Agree(l, m, Len(l)) /\ \E e \in k.won : e.term = r.term
  BY <1>1, <1>2 DEF Grows
<1> HIDE DEF l, m
<1>5. Len(l) <= Len(m) /\ \A i \in 1 .. Len(l) : m[i] = l[i]
  BY <1>4 DEF Agree
<1>6. r.index \in 1 .. Len(m) /\ m[r.index].term = r.term
  BY <1>1, <1>2, <1>5
<1>7. OneChange(m, r.applied, r.index)
  <2>1. \A i \in r.applied + 1 .. r.index : m[i] = l[i]
    BY <1>1, <1>2, <1>5
  <2>2. QED BY <1>2, <2>1 DEF OneChange
<1>8. HasQuorum(ConfAt(m, r.applied), q)
  <2>1. ConfAt(m, r.applied) = ConfAt(l, r.applied)
    BY <1>1, <1>2, <1>4, AgreeConf
  <2>2. QED BY <1>3, <2>1
<1>9. \A v \in q : r.index <= k.acked[r.term][v]
  <2> SUFFICES ASSUME NEW v \in q PROVE r.index <= k.acked[r.term][v]
    OBVIOUS
  <2>1. r.index <= h.acked[r.term][v] /\ v \in Node
    BY <1>3
  <2>2. /\ h.acked[r.term][v] <= k.acked[r.term][v]
        /\ h.acked[r.term][v] \in Nat /\ k.acked[r.term][v] \in Nat /\ r.index \in Nat
    BY <1>1, <2>1
  <2>3. QED BY <2>1, <2>2
<1>10. ASSUME r.applied > 0
       PROVE  Covered(k, m, r.applied, r.term)
  <2>1. PICK x \in h.done : x.term <= r.term /\ Covers(h, l, r.applied, x)
    BY <1>2, <1>10 DEF Covered
  <2>2. x.term \in Nat /\ h.led[x.term] \in Seq(Entry)
    BY HistoryFacts DEF Decision
  <2> r.applied <= Len(l)
    BY <1>1, <1>2
  <2>3. Covers(h, m, r.applied, x)
    BY <1>1, <1>4, <2>1, <2>2, AgreeTrans DEF Covers
  <2>4. Covered(h, m, r.applied, r.term)
    BY <2>1, <2>3 DEF Covered
  <2>5. QED BY <1>1, <2>4, CoveredGrows
<1>11. QED BY <1>2, <1>4, <1>6, <1>7, <1>8, <1>9, <1>10 DEF Decided, m

----------------------------------------------------------------------------
\* What a step adds to the history leaves it one.

LEMMA HistoryOfFacts ==
  ASSUME NEW h, NEW now, HistoryOf(h, now)
  PROVE  /\ h \in History
         /\ \A t \in Nat : h.led[t] \in Seq(Entry) /\ Len(h.led[t]) \in Nat
         /\ \A t \in Nat : Sound(h.led, h.led[t]) /\ Legal(h.led[t])
         /\ \A r \in h.done : r \in Decision /\ Decided(h, r) /\ r.term \in Nat
         /\ \A e \in h.won : e \in Election /\ Ran(h, e, h.led[e.term]) /\ e.term \in Nat
<1>1. h \in History
  BY DEF HistoryOf
<1>2. \A t \in Nat : Sound(h.led, h.led[t]) /\ Legal(h.led[t])
  BY DEF HistoryOf, Sound
<1>3. \A r \in h.done : r \in Decision /\ Decided(h, r) /\ r.term \in Nat
  BY <1>1, HistoryFacts DEF HistoryOf, Decision
<1>4. \A e \in h.won : e \in Election /\ Ran(h, e, h.led[e.term]) /\ e.term \in Nat
  BY <1>1, HistoryFacts DEF HistoryOf, Election
<1>5. QED BY <1>1, <1>2, <1>3, <1>4, HistoryFacts

\* A leader appends, a node acknowledges, terms grow.
Advances(h, k, next) ==
    /\ k.won = h.won /\ k.done = h.done
    /\ \A t \in Nat : Sound(k.led, k.led[t])
    /\ \A t \in Nat : k.led[t] # << >> => \E e \in h.won : e.term = t
    /\ \A t \in Nat, v \in Node :
          \/ k.acked[t][v] = h.acked[t][v]
          \/ t = next[v] /\ h.acked[t][v] <= k.acked[t][v] /\ k.acked[t][v] <= Len(k.led[t])

LEMMA HistoryGrows ==
  ASSUME NEW h, NEW k \in History, NEW now \in [Node -> Nat], NEW next \in [Node -> Nat],
         HistoryOf(h, now), Grows(h, k), Advances(h, k, next),
         \A v \in Node : now[v] <= next[v]
  PROVE  HistoryOf(k, next)
<1> USE DEF Advances
<1>1. /\ h \in History
      /\ \A t \in Nat : /\ h.led[t] \in Seq(Entry) /\ Len(h.led[t]) \in Nat
                        /\ k.led[t] \in Seq(Entry) /\ Len(k.led[t]) \in Nat
      /\ \A t \in Nat, v \in Node : h.acked[t][v] \in Nat /\ k.acked[t][v] \in Nat
      /\ \A t \in Nat, v \in Node : h.acked[t][v] <= Len(h.led[t])
      /\ \A t \in Nat, v \in Node : h.acked[t][v] > 0 => t <= now[v]
  BY HistoryOfFacts, HistoryFacts DEF HistoryOf
<1>2. \A t \in Nat : Agree(h.led[t], k.led[t], Len(h.led[t])) /\ Len(h.led[t]) <= Len(k.led[t])
  BY DEF Grows, Agree
<1>3. \A t \in Nat, v \in Node : h.acked[t][v] <= k.acked[t][v]
  BY <1>1
<1>4. \A e, f \in k.won : e.term = f.term => e = f
  BY DEF HistoryOf
<1>5. ASSUME NEW e \in k.won
      PROVE  Ran(k, e, k.led[e.term]) /\ \A v \in e.voters : e.term <= next[v]
  <2>1. /\ e \in Election /\ e.term \in Nat /\ Ran(h, e, h.led[e.term])
        /\ e.voters \in SUBSET Node /\ \A v \in e.voters : e.term <= now[v]
    <3>1. k.won = h.won /\ e \in h.won
      OBVIOUS
    <3>2. e \in Election /\ e.term \in Nat /\ Ran(h, e, h.led[e.term])
      BY <3>1, HistoryOfFacts
    <3>3. \A v \in e.voters : e.term <= now[v]
      BY <3>1 DEF HistoryOf
    <3>4. QED BY <3>2, <3>3 DEF Election
  <2>2. \A v \in e.voters : e.term <= next[v] /\ next[v] \in Nat
    BY <2>1
  <2>3. \A t \in Nat, v \in e.voters : t < e.term => k.acked[t][v] = h.acked[t][v]
    BY <2>1, <2>2
  <2>4. \A i \in 1 .. Len(k.led[e.term]) :
           Len(h.led[e.term]) < i => k.led[e.term][i].term = e.term
    BY DEF Grows
  <2>5. Ran(k, e, k.led[e.term])
    BY <1>1, <1>2, <2>1, <2>3, <2>4, RanGrows
  <2>6. QED BY <2>2, <2>5
<1>6. ASSUME NEW r \in k.done
      PROVE  Decided(k, r)
  BY <1>1, <1>3, HistoryOfFacts, DecidedGrows
<1>7. Complete(k)
  <2> SUFFICES ASSUME NEW r \in h.done, NEW e \in h.won, r.term < e.term
               PROVE  Agree(k.led[r.term], k.led[e.term], r.index)
    BY DEF Complete
  <2>1. Agree(h.led[r.term], h.led[e.term], r.index)
    BY DEF HistoryOf, Complete
  <2>2. r.term \in Nat /\ e.term \in Nat /\ r.index \in Nat
    BY HistoryOfFacts DEF Decision
  <2>3. r.index <= Len(h.led[e.term])
    BY <2>1 DEF Agree
  <2>4. Agree(h.led[r.term], k.led[e.term], r.index)
    <3>1. /\ h.led[r.term] \in Seq(Entry) /\ h.led[e.term] \in Seq(Entry)
          /\ k.led[e.term] \in Seq(Entry) /\ Len(h.led[e.term]) \in Nat
          /\ Agree(h.led[e.term], k.led[e.term], Len(h.led[e.term]))
      BY <1>1, <1>2, <2>2
    <3>2. Agree(h.led[e.term], k.led[e.term], r.index)
      BY <2>2, <2>3, <3>1, AgreeLess
    <3>3. QED BY <2>1, <2>2, <3>1, <3>2, AgreeThen
  <2>5. QED BY <1>1, <2>2, <2>4, AgreeGrows
<1>8. ASSUME NEW t \in Nat, NEW v \in Node
      PROVE  k.acked[t][v] <= Len(k.led[t]) /\ (k.acked[t][v] > 0 => t <= next[v])
  <2>1. CASE k.acked[t][v] = h.acked[t][v]
    <3>1. now[v] \in Nat /\ next[v] \in Nat /\ now[v] <= next[v]
      OBVIOUS
    <3>2. h.acked[t][v] <= Len(h.led[t]) /\ (h.acked[t][v] > 0 => t <= now[v])
      BY <1>1
    <3>3. /\ Len(h.led[t]) <= Len(k.led[t]) /\ Len(h.led[t]) \in Nat /\ Len(k.led[t]) \in Nat
          /\ h.acked[t][v] \in Nat
      BY <1>1, <1>2
    <3>4. k.acked[t][v] <= Len(k.led[t])
      BY <2>1, <3>2, <3>3
    <3>5. k.acked[t][v] > 0 => t <= now[v]
      BY <2>1, <3>2
    <3>6. \A x \in Nat : x <= now[v] => x <= next[v]
      BY <3>1
    <3>7. QED BY <3>4, <3>5, <3>6
  <2>2. CASE t = next[v] /\ k.acked[t][v] <= Len(k.led[t])
    BY <2>2
  <2>3. QED BY <2>1, <2>2
<1>9. QED BY <1>4, <1>5, <1>6, <1>7, <1>8 DEF HistoryOf

\* A leader commits.
WithDecision(h, r) == [h EXCEPT !.done = @ \cup {r}]

LEMMA HistoryDecides ==
  ASSUME NEW h, NEW now, HistoryOf(h, now), NEW r \in Decision, Decided(h, r)
  PROVE  LET k == WithDecision(h, r)
         IN  /\ HistoryOf(k, now) /\ Grows(h, k)
             /\ k.led = h.led /\ k.acked = h.acked /\ r \in k.done
<1> DEFINE k == WithDecision(h, r)
<1>1. /\ h \in History
      /\ \A t \in Nat : h.led[t] \in Seq(Entry) /\ Len(h.led[t]) \in Nat
      /\ \A t \in Nat : Sound(h.led, h.led[t]) /\ Legal(h.led[t])
  BY HistoryOfFacts
<1>2. /\ k \in History /\ k.led = h.led /\ k.won = h.won /\ k.acked = h.acked
      /\ k.done = h.done \cup {r}
  BY <1>1 DEF WithDecision, History
<1> HIDE DEF k
<1>3. Grows(h, k)
  <2>1. \A t \in Nat : Agree(h.led[t], h.led[t], Len(h.led[t]))
    BY <1>1 DEF Agree
  <2>2. \A e \in h.won : e.term \in Nat
    BY HistoryOfFacts
  <2>3. \A e \in h.won : \A i \in 1 .. Len(h.led[e.term]) : ~(Len(h.led[e.term]) < i)
    BY <1>1, <2>2
  <2>4. QED BY <1>2, <2>1, <2>3 DEF Grows
<1>4. ASSUME NEW e \in h.won, r.term < e.term
      PROVE  Agree(h.led[r.term], h.led[e.term], r.index)
  <2> DEFINE Bad == {u \in Nat : \E f \in h.won :
                        f.term = u /\ r.term < u /\ ~Agree(h.led[r.term], h.led[u], r.index)}
  <2> SUFFICES ASSUME Bad # {} PROVE FALSE
    BY <1>4, HistoryOfFacts
  <2>1. PICK u \in Bad : \A w \in Bad : u <= w
    <3>1. Bad \subseteq Nat
      OBVIOUS
    <3> HIDE DEF Bad
    <3>2. QED BY <3>1, HasLeast
  <2>2. PICK f \in h.won : f.term = u /\ r.term < u /\ ~Agree(h.led[r.term], h.led[u], r.index)
    BY <2>1
  <2>3. \A g \in h.won : r.term < g.term /\ g.term < f.term =>
           Agree(h.led[r.term], h.led[g.term], r.index)
    <3> SUFFICES ASSUME NEW g \in h.won, r.term < g.term, g.term < f.term,
                        ~Agree(h.led[r.term], h.led[g.term], r.index)
                 PROVE  FALSE
      OBVIOUS
    <3>1. g.term \in Nat /\ g.term \in Bad /\ u \in Nat
      BY HistoryOfFacts
    <3>2. u <= g.term
      BY <2>1, <3>1
    <3>3. QED BY <2>2, <3>1, <3>2
  <2> HIDE DEF Bad
  <2>4. PICK own \in h.won : own.term = r.term
    BY DEF Decided
  <2>5. \A x \in h.done : x.term < r.term => Agree(h.led[x.term], h.led[r.term], x.index)
    BY <2>4 DEF HistoryOf, Complete
  <2>6. ASSUME r.applied > 0
        PROVE  \E x \in h.done : /\ x.term <= r.term /\ Covers(h, h.led[r.term], r.applied, x)
                                 /\ Agree(h.led[x.term], h.led[u], x.index)
    <3>1. PICK x \in h.done : x.term <= r.term /\ Covers(h, h.led[r.term], r.applied, x)
      BY <2>6 DEF Decided, Covered
    <3>2. x.term < f.term
      BY <2>2, <3>1, HistoryOfFacts DEF Decision
    <3>3. Agree(h.led[x.term], h.led[u], x.index)
      BY <2>2, <3>2 DEF HistoryOf, Complete
    <3>4. QED BY <3>1, <3>3
  <2>7. f \in Election /\ Ran(h, f, h.led[u]) /\ r.term < f.term /\ u \in Nat
    BY <2>2, HistoryOfFacts
  <2>8. h.led[u] \in Seq(Entry) /\ Legal(h.led[u]) /\ \A x \in h.done : Decided(h, x)
    BY <1>1, <2>7, HistoryOfFacts
  <2>9. Agree(h.led[r.term], h.led[u], r.index)
    BY <1>1, <2>3, <2>5, <2>6, <2>7, <2>8, LaterHas
  <2>10. QED BY <2>2, <2>9
<1>5. Complete(k)
  BY <1>2, <1>4 DEF HistoryOf, Complete
<1>6. \A t \in Nat, v \in Node : h.acked[t][v] <= Len(h.led[t]) /\ h.acked[t][v] \in Nat
  BY <1>1, HistoryFacts DEF HistoryOf
<1>7. ASSUME NEW x \in k.done
      PROVE  Decided(k, x)
  <2>1. x \in Decision /\ Decided(h, x)
    BY <1>2, HistoryOfFacts
  <2>2. QED BY <1>1, <1>2, <1>3, <1>6, <2>1, DecidedGrows
<1>8. ASSUME NEW e \in k.won
      PROVE  Ran(k, e, k.led[e.term])
  <2>1. e \in Election /\ Ran(h, e, h.led[e.term]) /\ e.term \in Nat
    BY <1>2, HistoryOfFacts
  <2>2. /\ Agree(h.led[e.term], h.led[e.term], Len(h.led[e.term]))
        /\ \A i \in 1 .. Len(h.led[e.term]) : ~(Len(h.led[e.term]) < i)
        /\ h.led[e.term] \in Seq(Entry)
    BY <1>1, <2>1 DEF Agree
  <2>3. Ran(k, e, h.led[e.term])
    BY <1>1, <1>2, <1>3, <1>6, <2>1, <2>2, RanGrows
  <2>4. QED BY <1>2, <2>3
<1>9. HistoryOf(k, now)
  BY <1>1, <1>2, <1>5, <1>7, <1>8 DEF HistoryOf
<1>10. QED BY <1>2, <1>3, <1>9 DEF k

\* A node is elected, with log c.
WithElection(h, e, c) ==
    [led |-> [h.led EXCEPT ![e.term] = c], won |-> h.won \cup {e},
     acked |-> [h.acked EXCEPT ![e.term] = [h.acked[e.term] EXCEPT ![e.node] = Len(c)]],
     done |-> h.done]

\* The winner has whatever was committed before its term.
LEMMA WinnerHas ==
  ASSUME NEW h, NEW now, HistoryOf(h, now),
         NEW c \in Seq(Entry), Sound(h.led, c), NEW e \in Election, Ran(h, e, c),
         NEW r \in h.done, r.term < e.term
  PROVE  Agree(h.led[r.term], c, r.index)
<1> DEFINE Bad == {a \in Nat : \E x \in h.done : /\ x.applied = a /\ x.term < e.term
                                                 /\ ~Agree(h.led[x.term], c, x.index)}
<1>1. \A x \in h.done : x.applied \in Nat /\ x.term \in Nat /\ x \in Decision /\ Decided(h, x)
  BY HistoryOfFacts DEF Decision
<1> SUFFICES ASSUME Bad # {} PROVE FALSE
  BY <1>1
<1>2. PICK a \in Bad : \A w \in Bad : a <= w
  <2>1. Bad \subseteq Nat
    OBVIOUS
  <2> HIDE DEF Bad
  <2>2. QED BY <2>1, HasLeast
<1>3. PICK x \in h.done : x.applied = a /\ x.term < e.term /\ ~Agree(h.led[x.term], c, x.index)
  BY <1>2
<1>4. \A y \in h.done : y.applied < a /\ y.term < e.term => Agree(h.led[y.term], c, y.index)
  <2> SUFFICES ASSUME NEW y \in h.done, y.applied < a, y.term < e.term,
                      ~Agree(h.led[y.term], c, y.index)
               PROVE  FALSE
    OBVIOUS
  <2>1. y.applied \in Bad /\ a \in Nat /\ y.applied \in Nat
    BY <1>1
  <2>2. a <= y.applied
    BY <1>2, <2>1
  <2>3. QED BY <2>1, <2>2
<1> HIDE DEF Bad
<1>5. PICK own \in h.won : own.term = x.term
  BY <1>1 DEF Decided
<1>6. \A y \in h.done : y.term < x.term => Agree(h.led[y.term], h.led[x.term], y.index)
  BY <1>5 DEF HistoryOf, Complete
<1>7. \A f \in h.won : x.term < f.term /\ f.term < e.term =>
          Agree(h.led[x.term], h.led[f.term], x.index)
  BY DEF HistoryOf, Complete
<1>8. ASSUME x.applied > 0
      PROVE  \E y \in h.done : /\ y.term <= x.term /\ Covers(h, h.led[x.term], x.applied, y)
                               /\ Agree(h.led[y.term], c, y.index)
  <2>1. PICK y \in h.done : y.term <= x.term /\ Covers(h, h.led[x.term], x.applied, y)
    BY <1>1, <1>8 DEF Decided, Covered
  <2>2. y.term < e.term /\ y.applied < a
    <3>1. y.term \in Nat /\ x.term \in Nat /\ e.term \in Nat
      BY <1>1 DEF Election
    <3>2. QED BY <1>3, <2>1, <3>1 DEF Covers
  <2>3. QED BY <1>4, <2>1, <2>2
<1>9. /\ h \in History /\ \A t \in Nat : Sound(h.led, h.led[t]) /\ Legal(c)
      /\ \A y \in h.done : Decided(h, y)
  BY <1>1, HistoryOfFacts DEF Sound
<1>10. Agree(h.led[x.term], c, x.index)
  BY <1>1, <1>3, <1>6, <1>7, <1>8, <1>9, LaterHas
<1>11. QED BY <1>3, <1>10

\* Nobody was elected in its term before.
LEMMA WinnerIsFirst ==
  ASSUME NEW h, NEW now, HistoryOf(h, now),
         NEW c \in Seq(Entry), Sound(h.led, c), NEW e \in Election, Ran(h, e, c),
         \A v \in e.voters : ~(e.term <= now[v]),
         NEW f \in h.won
  PROVE  f.term # e.term
<1> SUFFICES ASSUME f.term = e.term PROVE FALSE
  OBVIOUS
<1> DEFINE s == h.led[f.term]
<1>1. /\ h \in History /\ s \in Seq(Entry) /\ Legal(s) /\ Legal(c)
      /\ f \in Election /\ Ran(h, f, s) /\ \A x \in h.done : Decided(h, x)
      /\ f.term \in Nat /\ e.applied \in Nat /\ f.applied \in Nat
  BY HistoryOfFacts DEF Sound, Election
<1>2. \A x \in h.done : x.term < e.term => Agree(h.led[x.term], c, x.index)
  BY WinnerHas
<1>3. \A x \in h.done : x.term < f.term => Agree(h.led[x.term], s, x.index)
  BY DEF HistoryOf, Complete
<1> HIDE DEF s
<1>4. e.voters \cap f.voters # {}
  <2>1. CASE e.applied <= f.applied
    BY <1>1, <1>2, <1>3, <2>1, VotersMeet
  <2>2. CASE f.applied <= e.applied
    <3>1. f.voters \cap e.voters # {}
      BY <1>1, <1>2, <1>3, <2>2, VotersMeet
    <3>2. QED BY <3>1
  <2>3. QED BY <1>1, <2>1, <2>2
<1>5. \A v \in f.voters : f.term <= now[v]
  BY DEF HistoryOf
<1>6. QED BY <1>4, <1>5

\* The voters of e had not reached its term, and nobody's term falls.
Elects(e, now, next) ==
    /\ \A v \in e.voters : ~(e.term <= now[v]) /\ next[v] = e.term
    /\ \A v \in Node : now[v] <= next[v]

Elected(h, e, c) ==
    LET k == WithElection(h, e, c)
    IN  /\ Grows(h, k) /\ k.done = h.done /\ e \in k.won
        /\ k.led[e.term] = c /\ \A t \in Nat \ {e.term} : k.led[t] = h.led[t]
        /\ k.acked[e.term][e.node] = Len(c)
        /\ \A t \in Nat, v \in Node :
              t # e.term \/ v # e.node => k.acked[t][v] = h.acked[t][v]

LEMMA HistoryElects ==
  ASSUME NEW h, NEW now \in [Node -> Nat], NEW next \in [Node -> Nat], HistoryOf(h, now),
         NEW c \in Seq(Entry), Sound(h.led, c), NEW e \in Election, Ran(h, e, c),
         e.base = Len(c), e.node \in e.voters, Elects(e, now, next)
  PROVE  HistoryOf(WithElection(h, e, c), next) /\ Elected(h, e, c)
<1>0. /\ \A v \in e.voters : ~(e.term <= now[v]) /\ next[v] = e.term
      /\ \A v \in Node : now[v] <= next[v]
  BY DEF Elects
<1> DEFINE k == WithElection(h, e, c)
           u == e.term
           n == e.node
<1>1. /\ h \in History
      /\ \A t \in Nat : h.led[t] \in Seq(Entry) /\ Len(h.led[t]) \in Nat
      /\ \A t \in Nat : Sound(h.led, h.led[t]) /\ Legal(h.led[t])
      /\ \A f \in h.won : f \in Election /\ Ran(h, f, h.led[f.term]) /\ f.term \in Nat
      /\ \A x \in h.done : x \in Decision /\ Decided(h, x) /\ x.term \in Nat
  BY HistoryOfFacts
<1>2. u \in Nat /\ n \in Node /\ e.voters \in SUBSET Node /\ Len(c) \in Nat
  BY LogFacts DEF Election
<1>3. /\ k \in History
      /\ k.led[u] = c /\ \A t \in Nat \ {u} : k.led[t] = h.led[t]
      /\ k.won = h.won \cup {e} /\ k.done = h.done
      /\ k.acked[u][n] = Len(c)
      /\ \A t \in Nat, v \in Node : t # u \/ v # n => k.acked[t][v] = h.acked[t][v]
  <2> DEFINE led == [h.led EXCEPT ![u] = c]
             acked == [h.acked EXCEPT ![u] = [h.acked[u] EXCEPT ![n] = Len(c)]]
  <2>1. /\ h.led \in [Nat -> Seq(Entry)] /\ h.acked \in [Nat -> [Node -> Nat]]
        /\ h.won \subseteq Election /\ h.done \subseteq Decision
    BY <1>1 DEF History
  <2>2. /\ led \in [Nat -> Seq(Entry)] /\ led[u] = c
        /\ \A t \in Nat \ {u} : led[t] = h.led[t]
    BY <1>2, <2>1
  <2>3. h.acked[u] \in [Node -> Nat]
    BY <1>2, <2>1
  <2>4. /\ acked \in [Nat -> [Node -> Nat]] /\ acked[u][n] = Len(c)
        /\ \A t \in Nat, v \in Node : t # u \/ v # n => acked[t][v] = h.acked[t][v]
    BY <1>2, <2>1, <2>3
  <2>5. k = [led |-> led, won |-> h.won \cup {e}, acked |-> acked, done |-> h.done]
    BY DEF WithElection
  <2> HIDE DEF k, led, acked
  <2>6. k \in History
    BY <2>1, <2>2, <2>4, <2>5 DEF History
  <2>7. QED BY <2>2, <2>4, <2>5, <2>6
<1> HIDE DEF k
<1>4. \A f \in h.won : f.term # u
  BY <1>0, WinnerIsFirst
<1>5. h.led[u] = << >>
  BY <1>2, <1>4 DEF HistoryOf
<1>6. Grows(h, k)
  <2>1. ASSUME NEW t \in Nat
        PROVE  Agree(h.led[t], k.led[t], Len(h.led[t]))
    <3>1. CASE t = u
      <4>1. Len(h.led[t]) = 0
        BY <1>5, <3>1, EmptySeq
      <4>2. QED BY <1>2, <1>3, <3>1, <4>1 DEF Agree
    <3>2. CASE t # u
      BY <1>1, <1>3, <3>2 DEF Agree
    <3>3. QED BY <3>1, <3>2
  <2>2. ASSUME NEW f \in h.won
        PROVE  \A i \in 1 .. Len(k.led[f.term]) : ~(Len(h.led[f.term]) < i)
    <3>1. k.led[f.term] = h.led[f.term] /\ Len(h.led[f.term]) \in Nat
      BY <1>1, <1>3, <1>4
    <3>2. QED BY <3>1
  <2>3. QED BY <1>3, <2>1, <2>2 DEF Grows
<1>7. \A t \in Nat : Sound(k.led, k.led[t])
  <2>1. ASSUME NEW s \in Seq(Entry), Sound(h.led, s) PROVE Sound(k.led, s)
    BY <1>1, <1>3, <1>6, <2>1, TracedGrows DEF Sound
  <2>2. QED BY <1>1, <1>3, <2>1
<1>8. \A t \in Nat : k.led[t] # << >> => \E f \in k.won : f.term = t
  BY <1>3 DEF HistoryOf
<1>9. \A f, g \in k.won : f.term = g.term => f = g
  BY <1>3, <1>4 DEF HistoryOf
<1>10. /\ \A t \in Nat, v \in Node : h.acked[t][v] <= Len(h.led[t]) /\ h.acked[t][v] \in Nat
       /\ \A t \in Nat, v \in Node : h.acked[t][v] > 0 => t <= now[v]
  BY <1>1, HistoryFacts DEF HistoryOf
<1>11. \A t \in Nat, v \in Node : h.acked[t][v] <= k.acked[t][v]
  <2>1. Len(h.led[u]) = 0
    BY <1>5, EmptySeq
  <2>2. h.acked[u][n] = 0
    BY <1>2, <1>10, <2>1
  <2> SUFFICES ASSUME NEW t \in Nat, NEW v \in Node PROVE h.acked[t][v] <= k.acked[t][v]
    OBVIOUS
  <2>3. h.acked[t][v] \in Nat
    BY <1>10
  <2>4. CASE t = u /\ v = n
    BY <1>2, <1>3, <2>2, <2>4
  <2>5. CASE ~(t = u /\ v = n)
    <3>1. k.acked[t][v] = h.acked[t][v]
      BY <1>3, <2>5
    <3>2. QED BY <2>3, <3>1
  <2>6. QED BY <2>4, <2>5
<1>12. ASSUME NEW f \in k.won
       PROVE  Ran(k, f, k.led[f.term]) /\ \A v \in f.voters : f.term <= next[v]
  <2>1. CASE f \in h.won
    <3>1. /\ f \in Election /\ f.term \in Nat /\ Ran(h, f, h.led[f.term])
          /\ f.voters \in SUBSET Node /\ \A v \in f.voters : f.term <= now[v]
          /\ k.led[f.term] = h.led[f.term]
      BY <1>1, <1>3, <1>4, <2>1 DEF HistoryOf, Election
    <3>2. \A v \in f.voters : f.term <= next[v]
      <4> SUFFICES ASSUME NEW v \in f.voters PROVE f.term <= next[v]
        OBVIOUS
      <4>1. v \in Node /\ f.term <= now[v] /\ now[v] <= next[v]
        BY <1>0, <3>1
      <4>2. now[v] \in Nat /\ next[v] \in Nat
        BY <4>1
      <4>3. QED BY <3>1, <4>1, <4>2
    <3>3. \A t \in Nat, v \in f.voters : t < f.term => k.acked[t][v] = h.acked[t][v]
      <4> SUFFICES ASSUME NEW t \in Nat, NEW v \in f.voters, t < f.term, t = u, v = n
                   PROVE  FALSE
        BY <1>3, <3>1
      <4>1. f.term <= now[n] /\ now[n] \in Nat
        BY <1>2, <3>1
      <4>2. QED BY <1>0, <1>2, <3>1, <4>1
    <3>4. /\ Agree(h.led[f.term], h.led[f.term], Len(h.led[f.term]))
          /\ \A i \in 1 .. Len(h.led[f.term]) : ~(Len(h.led[f.term]) < i)
          /\ h.led[f.term] \in Seq(Entry)
      BY <1>1, <3>1 DEF Agree
    <3>5. Ran(k, f, h.led[f.term])
      BY <1>1, <1>3, <1>6, <1>10, <3>1, <3>3, <3>4, RanGrows
    <3>6. QED BY <3>1, <3>2, <3>5
  <2>2. CASE f = e
    <3>1. \A v \in e.voters : e.term <= next[v]
      BY <1>0, <1>2
    <3>2. \A t \in Nat, v \in e.voters : t < e.term => k.acked[t][v] = h.acked[t][v]
      BY <1>2, <1>3
    <3>3. Agree(c, c, Len(c)) /\ \A i \in 1 .. Len(c) : ~(Len(c) < i)
      BY <1>2 DEF Agree
    <3>4. Ran(k, e, c)
      BY <1>1, <1>3, <1>6, <1>10, <3>2, <3>3, RanGrows
    <3>5. QED BY <1>3, <2>2, <3>1, <3>4
  <2>3. QED BY <1>3, <2>1, <2>2
<1>13. \A x \in k.done : Decided(k, x)
  BY <1>1, <1>3, <1>6, <1>11, DecidedGrows
<1>14. Complete(k)
  <2> SUFFICES ASSUME NEW x \in h.done, NEW f \in k.won, x.term < f.term
               PROVE  Agree(k.led[x.term], k.led[f.term], x.index)
    BY <1>3 DEF Complete
  <2>1. x.term \in Nat /\ x.index \in Nat
    BY <1>1 DEF Decision
  <2>2. CASE f \in h.won
    <3>1. Agree(h.led[x.term], k.led[f.term], x.index) /\ k.led[f.term] \in Seq(Entry)
      <4>1. k.led[f.term] = h.led[f.term] /\ f.term \in Nat
        BY <1>1, <1>3, <1>4, <2>2
      <4>2. QED BY <1>1, <2>2, <4>1 DEF HistoryOf, Complete
    <3>2. QED BY <1>1, <1>3, <1>6, <2>1, <3>1, AgreeGrows
  <2>3. CASE f = e
    <3>1. Agree(h.led[x.term], c, x.index)
      BY <2>3, WinnerHas
    <3>2. Agree(k.led[x.term], c, x.index)
      BY <1>1, <1>3, <1>6, <2>1, <3>1, AgreeGrows
    <3>3. QED BY <1>3, <2>3, <3>2
  <2>4. QED BY <1>3, <2>2, <2>3
<1>15. ASSUME NEW t \in Nat, NEW v \in Node
       PROVE  k.acked[t][v] <= Len(k.led[t]) /\ (k.acked[t][v] > 0 => t <= next[v])
  <2>1. CASE t = u /\ v = n
    <3>1. next[v] = u
      BY <1>0, <2>1
    <3>2. QED BY <1>2, <1>3, <2>1, <3>1
  <2>2. CASE t = u /\ v # n
    <3>1. Len(h.led[u]) = 0
      BY <1>5, EmptySeq
    <3>2. k.acked[t][v] = 0
      <4>1. k.acked[t][v] = h.acked[t][v] /\ h.acked[t][v] \in Nat
        BY <1>3, <1>10, <2>2
      <4>2. h.acked[t][v] <= Len(h.led[t]) /\ Len(h.led[t]) = 0
        BY <1>10, <2>2, <3>1
      <4>3. QED BY <4>1, <4>2
    <3>3. QED BY <1>2, <1>3, <2>2, <3>2
  <2>3. CASE t # u
    <3>1. k.acked[t][v] = h.acked[t][v] /\ k.led[t] = h.led[t]
      BY <1>3, <2>3
    <3>2. now[v] \in Nat /\ next[v] \in Nat /\ now[v] <= next[v]
      BY <1>0
    <3>3. h.acked[t][v] <= Len(h.led[t]) /\ (h.acked[t][v] > 0 => t <= now[v])
      BY <1>10
    <3>4. QED BY <3>1, <3>2, <3>3
  <2>4. QED BY <2>1, <2>2, <2>3
<1>16. HistoryOf(k, next)
  BY <1>3, <1>7, <1>8, <1>9, <1>12, <1>13, <1>14, <1>15 DEF HistoryOf
<1>17. Elected(h, e, c)
  BY <1>3, <1>6 DEF Elected, k
<1>18. QED BY <1>16, <1>17 DEF k

----------------------------------------------------------------------------
\* What the nodes have of a history that grows.

LEMMA FollowsGrows ==
  ASSUME NEW h \in History, NEW k \in History, Grows(h, k), NEW n \in Node,
         \A t \in Nat : k.acked[t][n] = h.acked[t][n] /\ h.acked[t][n] <= Len(h.led[t]),
         NEW s \in Seq(Entry), NEW u \in Nat, NEW w \in Nat, u <= w, NEW c, NEW a, NEW i \in Nat,
         i <= Len(s), Follows(h, n, s, u, c, a, i)
  PROVE  Follows(k, n, s, w, c, a, i)
<1>1. Sound(k.led, s)
  BY TracedGrows DEF Follows, Sound
<1>2. \A x \in 1 .. Len(s) : s[x].term <= w
  BY LogFacts DEF Follows
<1>3. \A x \in 1 .. i : Covered(k, s, x, w)
  <2> SUFFICES ASSUME NEW x \in 1 .. i PROVE Covered(k, s, x, w)
    OBVIOUS
  <2>1. Covered(h, s, x, u) /\ x \in Nat
    BY DEF Follows
  <2>2. u \in Int /\ w \in Int
    OBVIOUS
  <2>3. QED BY <2>1, <2>2, CoveredGrows
<1>4. \A t \in Nat : Remembered(k, n, t, s, w)
  <2> SUFFICES ASSUME NEW t \in Nat PROVE Remembered(k, n, t, s, w)
    OBVIOUS
  <2>1. Remembered(h, n, t, s, u) /\ u \in Int /\ w \in Int
    BY DEF Follows
  <2>2. Agree(s, s, Len(s))
    BY LogFacts DEF Agree
  <2>3. QED BY <2>1, <2>2, RememberedGrows
<1>5. QED BY <1>1, <1>2, <1>3, <1>4 DEF Follows

LEMMA LeadsGrows ==
  ASSUME NEW h \in History, NEW k \in History, Grows(h, k), NEW n \in Node, NEW u \in Nat,
         k.led[u] = h.led[u], k.acked[u][n] = h.acked[u][n],
         \A v \in Node : h.acked[u][v] <= k.acked[u][v],
         NEW s \in Seq(Entry), NEW a \in Nat, NEW i \in Nat, NEW m \in [Node -> Nat],
         Leads(h, n, s, u, a, i, m)
  PROVE  Leads(k, n, s, u, a, i, m)
<1>1. h.won \subseteq k.won /\ h.done \subseteq k.done
  BY DEF Grows
<1>2. \A v \in Node \ {n} : m[v] <= k.acked[u][v]
  <2> SUFFICES ASSUME NEW v \in Node \ {n} PROVE m[v] <= k.acked[u][v]
    OBVIOUS
  <2>1. m[v] \in Nat /\ h.acked[u][v] \in Nat /\ k.acked[u][v] \in Nat
    BY HistoryFacts
  <2>2. QED BY <2>1 DEF Leads
<1>3. ASSUME i > 0
      PROVE  \E r \in k.done : /\ r.term <= u /\ Covers(k, s, i, r)
                               /\ \A x \in a + 1 .. r.applied : ~IsChange(s[x])
  <2>1. PICK r \in h.done : /\ r.term <= u /\ Covers(h, s, i, r)
                            /\ \A x \in a + 1 .. r.applied : ~IsChange(s[x])
    BY <1>3 DEF Leads
  <2>2. Agree(k.led[r.term], s, i)
    <3>1. r.term \in Nat
      BY HistoryFacts DEF Decision
    <3>2. QED BY <2>1, <3>1, AgreeGrows DEF Covers
  <2>3. QED BY <1>1, <2>1, <2>2 DEF Covers
<1>4. QED BY <1>1, <1>2, <1>3 DEF Leads

\* Two leaders have different terms.
LEMMA LeadersDiffer ==
  ASSUME NEW h, NEW now, HistoryOf(h, now), NEW n, NEW m, n # m, NEW u, NEW w,
         NEW s, NEW a, NEW i, NEW p, Leads(h, n, s, u, a, i, p),
         NEW r, NEW b, NEW j, NEW x, Leads(h, m, r, w, b, j, x)
  PROVE  u # w
BY DEF Leads, HistoryOf

\* A leader appends.
WithEntry(h, n, u, e) ==
    [led |-> [h.led EXCEPT ![u] = Append(h.led[u], e)], won |-> h.won,
     acked |-> [h.acked EXCEPT ![u] = [h.acked[u] EXCEPT ![n] = Len(h.led[u]) + 1]],
     done |-> h.done]

\* Entry e may come to a log s of which a entries have been applied.
MayAppend(s, a, e) ==
    IsChange(e) => /\ IsSuccessor(ConfAt(s, Len(s)), e.conf)
                   /\ \A x \in a + 1 .. Len(s) : ~IsChange(s[x])

\* Nothing but the leader's log of term u, and what node n has of it, differs.
DiffersAt(h, k, u, n) ==
    /\ \A t \in Nat, v \in Node : t # u \/ v # n => k.acked[t][v] = h.acked[t][v]
    /\ \A t \in Nat \ {u} : k.led[t] = h.led[t]

LEMMA LeaderAppends ==
  ASSUME NEW h, NEW now \in [Node -> Nat], HistoryOf(h, now), NEW n \in Node,
         NEW s \in Seq(Entry), NEW c, NEW a \in Nat, NEW i \in Nat, a <= i, i <= Len(s),
         NEW m \in [Node -> Nat],
         Follows(h, n, s, now[n], c, a, i), Leads(h, n, s, now[n], a, i, m),
         NEW e \in Entry, e.term = now[n], MayAppend(s, a, e)
  PROVE  LET k == WithEntry(h, n, now[n], e)
             r == Append(s, e)
         IN  /\ HistoryOf(k, now) /\ Grows(h, k)
             /\ DiffersAt(h, k, now[n], n)
             /\ Follows(k, n, r, now[n], c, a, i) /\ Leads(k, n, r, now[n], a, i, m)
<1> DEFINE u == now[n]
           k == WithEntry(h, n, u, e)
           r == Append(s, e)
<1>17. IsChange(e) => /\ IsSuccessor(ConfAt(s, Len(s)), e.conf)
                      /\ \A x \in a + 1 .. Len(s) : ~IsChange(s[x])
  BY DEF MayAppend
<1>1. /\ h \in History
      /\ \A t \in Nat : h.led[t] \in Seq(Entry) /\ Len(h.led[t]) \in Nat
      /\ \A t \in Nat : Sound(h.led, h.led[t]) /\ Legal(h.led[t])
      /\ \A t \in Nat, v \in Node : h.acked[t][v] \in Nat /\ h.acked[t][v] <= Len(h.led[t])
      /\ \A x \in h.done : x.term \in Nat
  <2>1. h \in History
    BY HistoryOfFacts
  <2>2. \A t \in Nat, v \in Node : h.acked[t][v] <= Len(h.led[t])
    BY DEF HistoryOf
  <2>3. QED BY <2>1, <2>2, HistoryOfFacts, HistoryFacts
<1>2. u \in Nat /\ Len(s) \in Nat /\ s = h.led[u] /\ h.acked[u][n] = Len(s)
  BY LogFacts DEF Leads
<1>3. /\ r \in Seq(Entry) /\ Len(r) = Len(s) + 1 /\ r[Len(s) + 1] = e
      /\ \A x \in 1 .. Len(s) : r[x] = s[x]
  BY AppendProperties
<1>4. /\ k \in History
      /\ k.led[u] = r /\ \A t \in Nat \ {u} : k.led[t] = h.led[t]
      /\ k.won = h.won /\ k.done = h.done
      /\ k.acked[u][n] = Len(r)
      /\ \A t \in Nat, v \in Node : t # u \/ v # n => k.acked[t][v] = h.acked[t][v]
  <2> DEFINE led == [h.led EXCEPT ![u] = r]
             acked == [h.acked EXCEPT ![u] = [h.acked[u] EXCEPT ![n] = Len(s) + 1]]
  <2>1. /\ h.led \in [Nat -> Seq(Entry)] /\ h.acked \in [Nat -> [Node -> Nat]]
        /\ h.won \subseteq Election /\ h.done \subseteq Decision
    BY <1>1 DEF History
  <2>5. k = [led |-> led, won |-> h.won, acked |-> acked, done |-> h.done]
    BY <1>2 DEF WithEntry
  <2> HIDE DEF r, k
  <2>2. /\ led \in [Nat -> Seq(Entry)] /\ led[u] = r
        /\ \A t \in Nat \ {u} : led[t] = h.led[t]
    BY <1>2, <1>3, <2>1
  <2>3. h.acked[u] \in [Node -> Nat] /\ Len(s) + 1 \in Nat
    <3>1. u \in Nat
      BY <1>2
    <3> HIDE DEF u, led, acked
    <3>2. h.acked[u] \in [Node -> Nat]
      BY <2>1, <3>1
    <3>3. Len(s) + 1 \in Nat
      BY <1>2
    <3>4. QED BY <3>2, <3>3
  <2>4. /\ acked \in [Nat -> [Node -> Nat]] /\ acked[u][n] = Len(s) + 1
        /\ \A t \in Nat, v \in Node : t # u \/ v # n => acked[t][v] = h.acked[t][v]
    BY <1>2, <2>1, <2>3
  <2> HIDE DEF led, acked
  <2>6. k \in History
    BY <2>1, <2>2, <2>4, <2>5 DEF History
  <2>7. QED BY <1>3, <2>2, <2>4, <2>5, <2>6
<1> HIDE DEF r, k
<1>0. \A x \in 1 .. Len(r) : x = Len(s) + 1 \/ x \in 1 .. Len(s)
  BY <1>2, <1>3
<1>15. (\A x \in 1 .. Len(s) : s[x].term <= u) => \A x \in 1 .. Len(r) : r[x].term <= u
  <2>1. r[Len(s) + 1].term <= u
    BY <1>2, <1>3
  <2> SUFFICES ASSUME \A x \in 1 .. Len(s) : s[x].term <= u, NEW x \in 1 .. Len(r)
               PROVE  r[x].term <= u
    OBVIOUS
  <2>2. CASE x = Len(s) + 1
    BY <2>1, <2>2
  <2>3. CASE x \in 1 .. Len(s)
    BY <1>3, <2>3
  <2>4. QED BY <1>0, <2>2, <2>3
<1>5. Agree(s, r, Len(s))
  BY <1>2, <1>3 DEF Agree
<1>6. Grows(h, k)
  <2>1. ASSUME NEW t \in Nat
        PROVE  Agree(h.led[t], k.led[t], Len(h.led[t]))
    <3>1. CASE t = u
      BY <1>2, <1>4, <1>5, <3>1
    <3>2. CASE t # u
      BY <1>1, <1>4, <3>2 DEF Agree
    <3>3. QED BY <3>1, <3>2
  <2>2. ASSUME NEW f \in h.won, NEW x \in 1 .. Len(k.led[f.term]), Len(h.led[f.term]) < x
        PROVE  k.led[f.term][x].term = f.term
    <3>0. f.term \in Nat
      BY HistoryOfFacts
    <3>1. CASE f.term = u
      <4>1. x = Len(s) + 1
        BY <1>2, <1>3, <1>4, <2>2, <3>1
      <4>2. QED BY <1>3, <1>4, <3>1, <4>1
    <3>2. CASE f.term # u
      BY <1>1, <1>4, <2>2, <3>0, <3>2
    <3>3. QED BY <3>1, <3>2
  <2>3. QED BY <1>4, <2>1, <2>2 DEF Grows
<1>7. \A t \in Nat, v \in Node : h.acked[t][v] <= k.acked[t][v]
  <2> SUFFICES ASSUME NEW t \in Nat, NEW v \in Node PROVE h.acked[t][v] <= k.acked[t][v]
    OBVIOUS
  <2>1. CASE t = u /\ v = n
    BY <1>2, <1>3, <1>4, <2>1
  <2>2. CASE ~(t = u /\ v = n)
    BY <1>1, <1>4, <2>2
  <2>3. QED BY <2>1, <2>2
<1>8. Sound(k.led, r)
  <2>1. Traced(k.led, r)
    <3> SUFFICES ASSUME NEW x \in 1 .. Len(r) PROVE Agree(r, k.led[r[x].term], x)
      BY DEF Traced
    <3>1. CASE x = Len(s) + 1
      <4>1. k.led[r[x].term] = r
        BY <1>3, <1>4, <3>1
      <4>2. Agree(r, r, x)
        BY <1>2, <1>3, <3>1 DEF Agree
      <4>3. QED BY <4>1, <4>2
    <3>2. CASE x \in 1 .. Len(s)
      <4>1. Agree(s, h.led[s[x].term], x) /\ s[x].term \in Nat
        BY <3>2, LogFacts DEF Follows, Sound, Traced
      <4>2. h.led[s[x].term] \in Seq(Entry) /\ x \in Nat
        BY <1>1, <4>1
      <4>3. Agree(k.led[s[x].term], s, x)
        <5>1. Agree(h.led[s[x].term], s, x)
          BY <4>1, AgreeSym
        <5>2. k \in History /\ h \in History
          BY <1>1, <1>4
        <5>3. QED BY <1>6, <4>1, <4>2, <5>1, <5>2, AgreeGrows
      <4>4. k.led[s[x].term] \in Seq(Entry)
        BY <1>4, <4>1, HistoryFacts
      <4>5. Agree(k.led[s[x].term], r, x)
        <5>1. x <= Len(s) /\ Len(s) \in Nat /\ s \in Seq(Entry) /\ r \in Seq(Entry)
          BY <1>2, <1>3, <3>2
        <5>2. QED BY <1>5, <4>2, <4>3, <4>4, <5>1, AgreeTrans
      <4>6. r[x] = s[x]
        BY <1>3, <3>2
      <4>7. QED BY <4>5, <4>6, AgreeSym
    <3>3. QED BY <1>0, <3>1, <3>2
  <2>2. Sorted(r)
    <3>1. Sorted(s) /\ \A x \in 1 .. Len(s) : s[x].term <= u
      BY DEF Follows, Sound
    <3>2. \A x \in 1 .. Len(r) : r[x].term <= u
      BY <1>15, <3>1
    <3> SUFFICES ASSUME NEW x \in 1 .. Len(r), NEW y \in 1 .. Len(r), x <= y
                 PROVE  r[x].term <= r[y].term
      BY DEF Sorted
    <3>3. CASE y = Len(s) + 1
      BY <1>3, <3>2, <3>3
    <3>4. CASE y \in 1 .. Len(s)
      <4>1. x \in 1 .. Len(s)
        BY <1>2, <3>4
      <4>2. QED BY <1>3, <3>1, <3>4, <4>1 DEF Sorted
    <3>5. QED BY <1>0, <3>3, <3>4
  <2>3. Legal(r)
    <3> SUFFICES ASSUME NEW x \in 1 .. Len(r), IsChange(r[x])
                 PROVE  IsSuccessor(ConfAt(r, x - 1), r[x].conf) /\ ValidateMembershipView(r[x].conf)
      BY DEF Legal
    <3>0. Legal(s)
      BY DEF Follows, Sound
    <3>1. ConfAt(r, x - 1) = ConfAt(s, x - 1)
      BY <1>2, <1>3, <1>5, AgreeConf
    <3>2. CASE x = Len(s) + 1
      <4>1. r[x] = e /\ x - 1 = Len(s)
        BY <1>2, <1>3, <3>2
      <4>2. IsSuccessor(ConfAt(s, Len(s)), e.conf)
        BY <1>17, <4>1
      <4>3. ConfAt(s, Len(s)) \in ValidView
        BY <1>2, <3>0, ConfAtValid
      <4>4. ValidateMembershipView(e.conf)
        BY <4>2, <4>3, SuccessorIsValid DEF ValidView
      <4>5. QED BY <3>1, <4>1, <4>2, <4>4
    <3>3. CASE x \in 1 .. Len(s)
      <4>1. r[x] = s[x] /\ IsChange(s[x])
        BY <1>3, <3>3
      <4>2. IsSuccessor(ConfAt(s, x - 1), s[x].conf) /\ ValidateMembershipView(s[x].conf)
        BY <3>0, <3>3, <4>1 DEF Legal
      <4>3. QED BY <3>1, <4>1, <4>2
    <3>4. QED BY <1>0, <3>2, <3>3
  <2>4. QED BY <2>1, <2>2, <2>3 DEF Sound
<1>9. HistoryOf(k, now)
  <2>1. \A t \in Nat : Sound(k.led, k.led[t])
    <3> SUFFICES ASSUME NEW t \in Nat PROVE Sound(k.led, k.led[t])
      OBVIOUS
    <3>1. CASE t = u
      BY <1>4, <1>8, <3>1
    <3>2. CASE t # u
      BY <1>1, <1>4, <1>6, <3>2, TracedGrows DEF Sound
    <3>3. QED BY <3>1, <3>2
  <2>2. \A t \in Nat : k.led[t] # << >> => \E f \in h.won : f.term = t
    <3> SUFFICES ASSUME NEW t \in Nat, k.led[t] # << >> PROVE \E f \in h.won : f.term = t
      OBVIOUS
    <3>1. CASE t = u
      BY <3>1 DEF Leads
    <3>2. CASE t # u
      BY <1>4, <3>2 DEF HistoryOf
    <3>3. QED BY <3>1, <3>2
  <2>3. ASSUME NEW t \in Nat, NEW v \in Node
        PROVE  \/ k.acked[t][v] = h.acked[t][v]
               \/ t = now[v] /\ h.acked[t][v] <= k.acked[t][v] /\ k.acked[t][v] <= Len(k.led[t])
    <3>1. CASE t = u /\ v = n
      BY <1>2, <1>3, <1>4, <1>7, <3>1
    <3>2. CASE ~(t = u /\ v = n)
      BY <1>4, <3>2
    <3>3. QED BY <3>1, <3>2
  <2>4. Advances(h, k, now)
    BY <1>4, <2>1, <2>2, <2>3 DEF Advances
  <2>5. \A v \in Node : now[v] <= now[v]
    OBVIOUS
  <2>6. k \in History
    BY <1>4
  <2>7. QED BY <1>6, <2>4, <2>5, <2>6, HistoryGrows
<1>10. ASSUME NEW x \in Nat, a <= x, OneChange(s, x, Len(s))
       PROVE  OneChange(r, x, Len(r))
  <2> SUFFICES ASSUME NEW y \in x + 1 .. Len(r), NEW z \in x + 1 .. Len(r),
                      IsChange(r[y]), IsChange(r[z])
               PROVE  y = z
    BY DEF OneChange
  <2>1. CASE IsChange(e)
    <3>1. \A w \in a + 1 .. Len(s) : ~IsChange(r[w])
      <4> SUFFICES ASSUME NEW w \in a + 1 .. Len(s) PROVE ~IsChange(r[w])
        OBVIOUS
      <4>1. w \in 1 .. Len(s) /\ ~IsChange(s[w])
        BY <1>2, <1>17, <2>1
      <4>2. QED BY <1>3, <4>1
    <3>2. y = Len(s) + 1 /\ z = Len(s) + 1
      <4>1. /\ y \in a + 1 .. Len(s) \/ y = Len(s) + 1
            /\ z \in a + 1 .. Len(s) \/ z = Len(s) + 1
        <5>1. a \in Nat /\ Len(s) \in Nat /\ Len(r) = Len(s) + 1 /\ a <= x
          BY <1>2, <1>3, <1>10
        <5>2. QED BY <5>1
      <4>2. QED BY <3>1, <4>1
    <3>3. QED BY <3>2
  <2>2. CASE ~IsChange(e)
    <3>1. y \in x + 1 .. Len(s) /\ z \in x + 1 .. Len(s)
      <4>1. y # Len(s) + 1 /\ z # Len(s) + 1
        BY <1>3, <2>2
      <4>2. Len(s) \in Nat /\ Len(r) = Len(s) + 1
        BY <1>2, <1>3
      <4>3. QED BY <4>1, <4>2
    <3>2. IsChange(s[y]) /\ IsChange(s[z])
      BY <1>2, <1>3, <3>1
    <3>3. QED BY <1>10, <3>1, <3>2 DEF OneChange
  <2>3. QED BY <2>1, <2>2
<1>11. \A x \in Nat : x <= Len(s) => Agree(s, r, x)
  BY <1>2, <1>3 DEF Agree
<1>12. Follows(k, n, r, u, c, a, i)
  <2>1. \A x \in 1 .. Len(r) : r[x].term <= u
    <3>1. \A x \in 1 .. Len(s) : s[x].term <= u
      BY DEF Follows
    <3>2. QED BY <1>15, <3>1
  <2>2. c = ConfAt(r, a)
    <3>1. Agree(s, r, a)
      BY <1>2, <1>11
    <3>2. c = ConfAt(s, a)
      BY DEF Follows
    <3>3. QED BY <3>1, <3>2, AgreeConf
  <2>3. OneChange(r, i, Len(r))
    BY <1>10 DEF Follows
  <2>4. \A x \in 1 .. i : Covered(k, r, x, u)
    <3> SUFFICES ASSUME NEW x \in 1 .. i PROVE Covered(k, r, x, u)
      OBVIOUS
    <3>1. PICK y \in h.done : y.term <= u /\ Covers(h, s, x, y)
      BY DEF Follows, Covered
    <3>2. y.term \in Nat /\ h.led[y.term] \in Seq(Entry) /\ x \in Nat /\ x <= Len(s)
      BY <1>1, <1>2
    <3>3. Agree(h.led[y.term], r, x)
      BY <1>3, <1>11, <3>1, <3>2, AgreeTrans DEF Covers
    <3>4. Agree(k.led[y.term], r, x)
      <4>1. k \in History /\ r \in Seq(Entry) /\ h \in History
        BY <1>1, <1>3, <1>4
      <4>2. QED BY <1>6, <3>2, <3>3, <4>1, AgreeGrows
    <3>5. QED BY <1>4, <3>1, <3>4 DEF Covered, Covers
  <2>5. \A t \in Nat : Remembered(k, n, t, r, u)
    <3> SUFFICES ASSUME NEW t \in Nat PROVE Remembered(k, n, t, r, u)
      OBVIOUS
    <3>1. CASE t = u
      <4>1. k.led[t] = r /\ k.acked[t][n] = Len(r) /\ Len(r) \in Nat
        BY <1>2, <1>3, <1>4, <3>1
      <4>3. \A j \in 1 .. k.acked[t][n] : Agree(k.led[t], r, j)
        BY <4>1 DEF Agree
      <4>4. QED BY <4>3 DEF Remembered
    <3>2. CASE t # u
      <4>1. k.acked[t][n] = h.acked[t][n] /\ h.acked[t][n] <= Len(h.led[t])
        BY <1>1, <1>4, <3>2
      <4>2. Remembered(h, n, t, s, u) /\ u \in Int /\ u <= u
        BY <1>2 DEF Follows
      <4>3. k \in History /\ r \in Seq(Entry) /\ h \in History
        BY <1>1, <1>3, <1>4
      <4>4. QED BY <1>5, <1>6, <4>1, <4>2, <4>3, RememberedGrows
    <3>3. QED BY <3>1, <3>2
  <2>6. QED BY <1>8, <2>1, <2>2, <2>3, <2>4, <2>5 DEF Follows
<1>13. Leads(k, n, r, u, a, i, m)
  <2>1. \E f \in k.won : f.term = u /\ f.node = n
    BY <1>4 DEF Leads
  <2>2. OneChange(r, a, Len(r))
    <3>1. OneChange(s, a, Len(s)) /\ a <= a
      BY DEF Leads
    <3>2. QED BY <1>10, <3>1
  <2>3. \A v \in Node \ {n} : m[v] <= k.acked[u][v]
    BY <1>2, <1>4 DEF Leads
  <2>4. ASSUME i > 0
        PROVE  \E y \in k.done : /\ y.term <= u /\ Covers(k, r, i, y)
                                 /\ \A x \in a + 1 .. y.applied : ~IsChange(r[x])
    <3>1. PICK y \in h.done : /\ y.term <= u /\ Covers(h, s, i, y)
                              /\ \A x \in a + 1 .. y.applied : ~IsChange(s[x])
      BY <2>4 DEF Leads
    <3>2. y.term \in Nat /\ h.led[y.term] \in Seq(Entry) /\ y.applied \in Nat
      BY <1>1, HistoryFacts DEF Decision
    <3>3. Agree(h.led[y.term], r, i)
      BY <1>2, <1>3, <1>11, <3>1, <3>2, AgreeTrans DEF Covers
    <3>4. Agree(k.led[y.term], r, i)
      BY <1>1, <1>3, <1>4, <1>6, <3>2, <3>3, AgreeGrows
    <3>5. \A x \in a + 1 .. y.applied : ~IsChange(r[x])
      <4>1. \A x \in a + 1 .. y.applied : x \in 1 .. Len(s)
        BY <1>2, <3>1, <3>2 DEF Covers
      <4>2. QED BY <1>3, <3>1, <4>1
    <3>6. QED BY <1>4, <3>1, <3>4, <3>5 DEF Covers
  <2>5. QED BY <1>2, <1>4, <2>1, <2>2, <2>3, <2>4 DEF Leads
<1>14. DiffersAt(h, k, u, n)
  BY <1>4 DEF DiffersAt
<1>16. QED BY <1>6, <1>9, <1>12, <1>13, <1>14 DEF r, k

\* A leader commits up to what a quorum of its configuration has acknowledged.
LEMMA CommittedIs ==
  ASSUME ChangeTyped, NEW n \in Node, NEW c, NEW l \in Seq(Entry), NEW m, NEW j,
         j = Committed(n, c, l, m), j # commit[n]
  PROVE  /\ j \in commit[n] + 1 .. Len(l) /\ l[j].term = currentTerm[n]
         /\ HasQuorum(c, Holders(n, j, l, m))
<1> DEFINE ready == {i \in commit[n] + 1 .. Len(l) :
                        /\ l[i].term = currentTerm[n]
                        /\ HasQuorum(c, Holders(n, i, l, m))}
           greatest == CHOOSE i \in ready : \A k \in ready : k <= i
<1>1. commit[n] \in Nat /\ Len(l) \in Nat
  BY NodeFacts, LenProperties
<1>2. ready \subseteq Nat /\ \A i \in ready : i <= Len(l)
  BY <1>1
<1>3. Committed(n, c, l, m) = IF ready = {} THEN commit[n] ELSE greatest
  BY DEF Committed
<1>4. ready # {} => greatest \in ready
  <2> HIDE DEF ready
  <2>1. QED BY <1>1, <1>2, GreatestExists
<1> HIDE DEF greatest
<1>5. j \in ready
  <2> HIDE DEF ready
  <2>1. QED BY <1>3, <1>4
<1>6. QED BY <1>5

LEMMA LeaderCommits ==
  ASSUME ChangeTyped, NEW n \in Node, NEW h, NEW now, HistoryOf(h, now),
         NEW s \in Seq(Entry), NEW c, NEW a \in Nat, a <= commit[n], commit[n] <= Len(s),
         NEW m \in [Node -> Nat],
         Follows(h, n, s, currentTerm[n], c, a, commit[n]),
         Leads(h, n, s, currentTerm[n], a, commit[n], m),
         NEW j, j = Committed(n, c, s, m)
  PROVE  \E k \in History :
            /\ HistoryOf(k, now) /\ Grows(h, k) /\ k.led = h.led /\ k.acked = h.acked
            /\ Follows(k, n, s, currentTerm[n], c, a, j)
            /\ Leads(k, n, s, currentTerm[n], a, j, m)
<1> DEFINE u == currentTerm[n]
<1>1. /\ h \in History
      /\ \A t \in Nat : h.led[t] \in Seq(Entry) /\ Len(h.led[t]) \in Nat
      /\ \A t \in Nat, v \in Node : h.acked[t][v] \in Nat /\ h.acked[t][v] <= Len(h.led[t])
  <2>1. h \in History
    BY HistoryOfFacts
  <2>2. QED BY <2>1, HistoryFacts DEF HistoryOf
<1>2. u \in Nat /\ commit[n] \in Nat /\ Len(s) \in Nat
  BY NodeFacts, LogFacts
<1>3. CASE j = commit[n]
  <2>1. Grows(h, h)
    <3>1. \A t \in Nat : Agree(h.led[t], h.led[t], Len(h.led[t]))
      BY <1>1 DEF Agree
    <3>2. \A e \in h.won : \A i \in 1 .. Len(h.led[e.term]) : ~(Len(h.led[e.term]) < i)
      BY <1>1, HistoryFacts DEF Election
    <3>3. QED BY <3>1, <3>2 DEF Grows
  <2>2. QED BY <1>1, <1>3, <2>1
<1>4. CASE j # commit[n]
  <2>1. /\ j \in commit[n] + 1 .. Len(s) /\ s[j].term = u /\ HasQuorum(c, Holders(n, j, s, m))
    BY <1>4, CommittedIs
  <2>2. j \in Nat /\ commit[n] < j /\ j <= Len(s) /\ a < j
    BY <1>2, <2>1
  <2> DEFINE r == [term |-> u, index |-> j, applied |-> a]
             k == WithDecision(h, r)
  <2>3. r \in Decision /\ r.term = u /\ r.index = j /\ r.applied = a
    BY <1>2, <2>2 DEF Decision
  <2>4. /\ s = h.led[u] /\ OneChange(s, a, Len(s)) /\ h.acked[u][n] = Len(s)
        /\ \A v \in Node \ {n} : m[v] <= h.acked[u][v]
        /\ \E e \in h.won : e.term = u
    BY DEF Leads
  <2>5. c = ConfAt(s, a) /\ \A x \in 1 .. commit[n] : Covered(h, s, x, u)
    BY DEF Follows
  <2> HIDE DEF r
  <2>6. Decided(h, r)
    <3>1. OneChange(s, a, j)
      <4>1. \A x \in a + 1 .. j : x \in a + 1 .. Len(s)
        BY <1>2, <2>2
      <4>2. QED BY <2>4, <4>1 DEF OneChange
    <3>2. \A v \in Holders(n, j, s, m) : j <= h.acked[u][v]
      <4> SUFFICES ASSUME NEW v \in Holders(n, j, s, m) PROVE j <= h.acked[u][v]
        OBVIOUS
      <4>1. CASE v = n
        BY <2>2, <2>4, <4>1
      <4>2. CASE v # n
        <5>1. v \in Node /\ m[v] >= j
          BY <4>2 DEF Holders
        <5>2. m[v] \in Nat /\ m[v] <= h.acked[u][v] /\ h.acked[u][v] \in Nat
          BY <1>1, <1>2, <2>4, <4>2, <5>1
        <5>3. QED BY <2>2, <5>1, <5>2
      <4>3. QED BY <4>1, <4>2
    <3>3. Holders(n, j, s, m) \in SUBSET Node
      BY DEF Holders
    <3>4. a > 0 => Covered(h, s, a, u)
      BY <1>2, <2>5
    <3>5. j \in 1 .. Len(s)
      BY <2>2
    <3> USE <2>3
    <3>6. QED BY <2>1, <2>2, <2>4, <2>5, <3>1, <3>2, <3>3, <3>4, <3>5 DEF Decided
  <2>7. /\ HistoryOf(k, now) /\ Grows(h, k)
        /\ k.led = h.led /\ k.acked = h.acked /\ r \in k.done
    BY <2>3, <2>6, HistoryDecides
  <2> HIDE DEF k
  <2>8. k \in History
    BY <2>7, HistoryOfFacts
  <2>9. \A x \in a + 1 .. j : Covers(k, s, x, r)
    <3> SUFFICES ASSUME NEW x \in a + 1 .. j PROVE Covers(k, s, x, r)
      OBVIOUS
    <3>1. a < x /\ x <= j
      BY <2>2
    <3>2. Agree(s, s, x)
      BY <1>2, <2>2, <3>1 DEF Agree
    <3>3. QED BY <2>3, <2>4, <2>7, <3>1, <3>2 DEF Covers
  <2>10. Follows(k, n, s, u, c, a, commit[n])
    <3>1. \A t \in Nat : k.acked[t][n] = h.acked[t][n] /\ h.acked[t][n] <= Len(h.led[t])
      BY <1>1, <2>7
    <3>2. u <= u /\ h \in History /\ Grows(h, k)
      BY <1>1, <1>2, <2>7
    <3>3. Follows(h, n, s, u, c, a, commit[n])
      OBVIOUS
    <3> HIDE DEF u
    <3>4. QED BY <1>2, <2>8, <3>1, <3>2, <3>3, FollowsGrows
  <2>11. Follows(k, n, s, u, c, a, j)
    <3>1. OneChange(s, j, Len(s))
      BY <1>2, <2>2, <2>4 DEF OneChange
    <3>2. \A x \in 1 .. j : Covered(k, s, x, u)
      <4> SUFFICES ASSUME NEW x \in 1 .. j PROVE Covered(k, s, x, u)
        OBVIOUS
      <4>1. CASE x <= a
        BY <1>2, <2>10, <4>1 DEF Follows
      <4>2. CASE a < x
        <5>1. Covers(k, s, x, r)
          BY <2>9, <4>2
        <5>2. u <= u
          BY <1>2
        <5>3. QED BY <2>3, <2>7, <5>1, <5>2 DEF Covered
      <4>3. QED BY <2>2, <4>1, <4>2
    <3>3. QED BY <2>10, <3>1, <3>2 DEF Follows
  <2>12. Leads(k, n, s, u, a, j, m)
    <3>1. \E e \in k.won : e.term = u /\ e.node = n
      BY <2>7 DEF Leads, Grows
    <3>2. Covers(k, s, j, r) /\ r.term <= u /\ \A x \in a + 1 .. r.applied : ~IsChange(s[x])
      BY <1>2, <2>2, <2>3, <2>9
    <3>3. QED BY <2>4, <2>7, <3>1, <3>2 DEF Leads
  <2>13. QED BY <2>7, <2>8, <2>11, <2>12
<1>5. QED BY <1>3, <1>4

----------------------------------------------------------------------------
\* A node follows a leader.

\* Logs that have entries of one term at an index are the same up to there.
TermsTell(o, s) ==
    \A x \in 1 .. Len(o) : x \in 1 .. Len(s) /\ o[x].term = s[x].term => Agree(o, s, x)

LEMMA TracedTell ==
  ASSUME NEW led, \A t \in Nat : led[t] \in Seq(Entry),
         NEW o \in Seq(Entry), NEW s \in Seq(Entry), Traced(led, o), Traced(led, s)
  PROVE  TermsTell(o, s)
<1> SUFFICES ASSUME NEW x \in 1 .. Len(o), x \in 1 .. Len(s), o[x].term = s[x].term
             PROVE  Agree(o, s, x)
  BY DEF TermsTell
<1>1. x \in Nat /\ o[x].term \in Nat
  BY LogFacts
<1>2. Agree(o, led[o[x].term], x) /\ Agree(s, led[o[x].term], x)
  BY DEF Traced
<1>3. led[o[x].term] \in Seq(Entry)
  BY <1>1
<1> HIDE DEF TermsTell
<1>4. QED BY <1>1, <1>2, <1>3, AgreeSym, AgreeTrans

\* The log a node comes to have is the leader's, or its own if that goes on from
\* the leader's; what was committed stays.
LEMMA MergeIs ==
  ASSUME NEW o \in Seq(Entry), NEW s \in Seq(Entry), TermsTell(o, s),
         NEW k \in Nat, k <= Len(o), FirstDifference(o, s) = 0 \/ FirstDifference(o, s) > k
  PROVE  LET g == MergeEntries(o, s)
         IN  /\ g = s \/ (g = o /\ Agree(s, o, Len(s)))
             /\ Agree(o, g, k)
<1> DEFINE both == {i \in DOMAIN o \cap DOMAIN s : o[i].term # s[i].term}
           least == CHOOSE i \in both : \A j \in both : i <= j
           at == FirstDifference(o, s)
           g == MergeEntries(o, s)
<1>1. /\ Len(o) \in Nat /\ Len(s) \in Nat /\ DOMAIN o = 1 .. Len(o) /\ DOMAIN s = 1 .. Len(s)
  BY LenProperties
<1>2. at = IF both = {} THEN 0 ELSE least
  BY DEF FirstDifference
<1>3. both \subseteq Nat /\ \A i \in both : i \in 1 .. Len(o) /\ i \in 1 .. Len(s)
  BY <1>1
<1>4. both # {} => least \in both /\ \A j \in both : least <= j
  <2> HIDE DEF both
  <2>1. QED BY <1>3, HasLeast
<1>5. \A i \in 1 .. Len(o) : i \in 1 .. Len(s) /\ i \notin both => o[i].term = s[i].term
  BY <1>1
<1> HIDE DEF both, least
<1>6. at # 0 => at \in 1 .. Len(o) /\ at \in 1 .. Len(s)
  BY <1>2, <1>3, <1>4
<1>7. \A i \in 1 .. Len(o) : i \in 1 .. Len(s) /\ (at = 0 \/ i < at) => o[i].term = s[i].term
  <2> SUFFICES ASSUME NEW i \in 1 .. Len(o), i \in 1 .. Len(s), at = 0 \/ i < at, i \in both
               PROVE  FALSE
    BY <1>5
  <2>1. at = least /\ least \in both /\ least <= i
    BY <1>2, <1>4
  <2>2. least \in 1 .. Len(o)
    BY <1>3, <2>1
  <2> HIDE DEF at
  <2>3. QED BY <1>1, <2>1, <2>2
<1>8. ASSUME NEW x \in Nat, x <= Len(o), x <= Len(s), at = 0 \/ x < at
      PROVE  Agree(o, s, x) /\ Agree(s, o, x)
  <2>1. CASE x = 0
    BY <1>1, <2>1 DEF Agree
  <2>2. CASE x # 0
    <3>1. x \in 1 .. Len(o) /\ x \in 1 .. Len(s)
      BY <1>1, <1>8, <2>2
    <3>2. o[x].term = s[x].term
      BY <1>7, <1>8, <3>1
    <3>3. Agree(o, s, x)
      BY <3>1, <3>2 DEF TermsTell
    <3>4. QED BY <3>3, AgreeSym
  <2>3. QED BY <2>1, <2>2
<1>9. g = IF at # 0 THEN SubSeq(o, 1, at - 1) \o SubSeq(s, at, Len(s))
          ELSE IF Len(s) > Len(o) THEN o \o SubSeq(s, Len(o) + 1, Len(s)) ELSE o
  BY DEF MergeEntries
<1> HIDE DEF at, g
<1>10. ASSUME NEW x \in Nat, x <= Len(s), x <= Len(o), Agree(o, s, x), NEW p \in Seq(Entry),
              Len(p) = x, \A i \in 1 .. x : p[i] = o[i]
       PROVE  p \o SubSeq(s, x + 1, Len(s)) = s
  <2> DEFINE w == SubSeq(s, x + 1, Len(s))
  <2>0. x \in Nat /\ Len(s) \in Nat /\ x <= Len(s)
    BY <1>1, <1>10
  <2>1. \A i \in x + 1 .. Len(s) : s[i] \in Entry
    <3>1. \A i \in x + 1 .. Len(s) : i \in 1 .. Len(s)
      BY <1>1
    <3>2. QED BY <3>1, ElementOfSeq
  <2>2. /\ w \in Seq(Entry) /\ Len(w) = Len(s) - x
        /\ \A i \in 1 .. Len(s) - x : w[i] = s[x + i]
    <3>1. x + 1 \in Nat /\ Len(s) \in Nat
      BY <1>1
    <3>2. /\ w \in Seq(Entry)
          /\ Len(w) = IF x + 1 <= Len(s) THEN Len(s) - (x + 1) + 1 ELSE 0
          /\ \A i \in 1 .. Len(s) - (x + 1) + 1 : w[i] = s[x + 1 + i - 1]
      BY <2>1, <3>1, SubSeqProperties
    <3>3. Len(w) = Len(s) - x
      <4>1. CASE x + 1 <= Len(s)
        <5>1. Len(w) = Len(s) - (x + 1) + 1
          BY <3>2, <4>1
        <5> HIDE DEF w
        <5>2. QED BY <2>0, <5>1
      <4>2. CASE ~(x + 1 <= Len(s))
        <5>1. Len(w) = 0
          BY <3>2, <4>2
        <5>2. x = Len(s)
          BY <2>0, <4>2
        <5>3. QED BY <2>0, <5>1, <5>2
      <4>3. QED BY <4>1, <4>2
    <3>4. ASSUME NEW i \in 1 .. Len(s) - x PROVE w[i] = s[x + i]
      <4>1. i \in 1 .. Len(s) - (x + 1) + 1 /\ x + 1 + i - 1 = x + i
        BY <1>1
      <4>2. w[i] = s[x + 1 + i - 1]
        BY <3>2, <4>1
      <4>3. QED BY <4>1, <4>2
    <3>5. QED BY <3>2, <3>3, <3>4
  <2> HIDE DEF w
  <2>3. /\ p \o w \in Seq(Entry) /\ Len(p \o w) = Len(p) + Len(w)
        /\ \A i \in 1 .. Len(p) + Len(w) :
              (p \o w)[i] = IF i <= Len(p) THEN p[i] ELSE w[i - Len(p)]
    BY <1>10, <2>2, ConcatProperties
  <2>4. Len(p \o w) = Len(s)
    BY <1>1, <1>10, <2>2, <2>3
  <2>5. ASSUME NEW i \in 1 .. Len(s) PROVE (p \o w)[i] = s[i]
    <3>1. i \in 1 .. Len(p) + Len(w)
      BY <1>1, <1>10, <2>2
    <3>2. CASE i <= x
      <4>1. (p \o w)[i] = p[i]
        BY <1>10, <2>3, <3>1, <3>2
      <4>2. p[i] = o[i] /\ o[i] = s[i]
        BY <1>1, <1>10, <3>2 DEF Agree
      <4>3. QED BY <4>1, <4>2
    <3>3. CASE i > x
      <4>1. (p \o w)[i] = w[i - x]
        BY <1>1, <1>10, <2>3, <3>1, <3>3
      <4>2. i - x \in 1 .. Len(s) - x /\ x + (i - x) = i
        BY <1>1, <3>3
      <4>3. w[i - x] = s[x + (i - x)]
        BY <2>2, <4>2
      <4>4. QED BY <4>1, <4>2, <4>3
    <3>4. i <= x \/ i > x
      BY <2>0
    <3>5. QED BY <3>2, <3>3, <3>4
  <2>6. p \o w = s
    BY <2>3, <2>4, <2>5, SeqEqual
  <2>7. QED BY <2>6 DEF w
<1>11. CASE at # 0
  <2>1. at \in Nat /\ at - 1 \in Nat /\ at - 1 < at /\ at - 1 <= Len(o) /\ at - 1 <= Len(s)
        /\ at = at - 1 + 1
    BY <1>1, <1>6, <1>11
  <2>2. Agree(o, s, at - 1)
    BY <1>8, <2>1
  <2> DEFINE p == SubSeq(o, 1, at - 1)
  <2>3. p \in Seq(Entry) /\ Len(p) = at - 1 /\ \A i \in 1 .. at - 1 : p[i] = o[i]
    <3>1. \A i \in 1 .. at - 1 : o[i] \in Entry
      BY <1>1, <2>1, ElementOfSeq
    <3>2. /\ p \in Seq(Entry)
          /\ Len(p) = IF 1 <= at - 1 THEN at - 1 - 1 + 1 ELSE 0
          /\ \A i \in 1 .. at - 1 - 1 + 1 : p[i] = o[1 + i - 1]
      BY <2>1, <3>1, SubSeqProperties
    <3>3. Len(p) = at - 1
      BY <2>1, <3>2
    <3>4. ASSUME NEW i \in 1 .. at - 1 PROVE p[i] = o[i]
      <4>1. i \in 1 .. at - 1 - 1 + 1 /\ 1 + i - 1 = i
        BY <2>1
      <4>2. p[i] = o[1 + i - 1]
        BY <3>2, <4>1
      <4>3. QED BY <4>1, <4>2
    <3>5. QED BY <3>2, <3>3, <3>4
  <2> HIDE DEF p
  <2>4. p \o SubSeq(s, at - 1 + 1, Len(s)) = s
    BY <1>10, <2>1, <2>2, <2>3
  <2>5. g = s
    BY <1>9, <1>11, <2>1, <2>4 DEF p
  <2>6. k <= at - 1
    BY <1>11, <2>1 DEF at
  <2>7. Agree(o, s, k)
    BY <2>1, <2>2, <2>6, AgreeLess
  <2>8. QED BY <2>5, <2>7 DEF g
<1>12. CASE at = 0 /\ Len(s) > Len(o)
  <2>1. Agree(o, s, Len(o))
    BY <1>1, <1>8, <1>12
  <2>2. o \o SubSeq(s, Len(o) + 1, Len(s)) = s
    <3>1. Len(o) \in Nat /\ Len(o) <= Len(s) /\ Len(o) <= Len(o)
      BY <1>1, <1>12
    <3>2. \A i \in 1 .. Len(o) : o[i] = o[i]
      OBVIOUS
    <3>3. PICK x \in Nat : x = Len(o)
      BY <3>1
    <3>4. o \o SubSeq(s, x + 1, Len(s)) = s
      BY <1>10, <2>1, <3>1, <3>2, <3>3
    <3>5. QED BY <3>3, <3>4
  <2>3. g = s
    BY <1>9, <1>12, <2>2
  <2>4. Agree(o, s, k)
    BY <1>1, <2>1, AgreeLess
  <2>5. QED BY <2>3, <2>4 DEF g
<1>13. CASE at = 0 /\ ~(Len(s) > Len(o))
  <2>1. g = o
    BY <1>9, <1>13
  <2>2. Agree(s, o, Len(s))
    BY <1>1, <1>8, <1>13
  <2>3. Agree(o, o, k)
    BY <1>1 DEF Agree
  <2>4. QED BY <2>1, <2>2, <2>3 DEF g
<1>14. QED BY <1>11, <1>12, <1>13

\* A log that goes on from what it is sent stays.
LEMMA MergeKeeps ==
  ASSUME NEW o \in Seq(Entry), NEW s \in Seq(Entry), Agree(s, o, Len(s))
  PROVE  MergeEntries(o, s) = o
<1>1. /\ Len(o) \in Nat /\ Len(s) \in Nat /\ DOMAIN o = 1 .. Len(o) /\ DOMAIN s = 1 .. Len(s)
  BY LenProperties
<1>2. Len(s) <= Len(o) /\ \A x \in DOMAIN s : s[x] = o[x]
  BY <1>1 DEF Agree
<1>3. {x \in DOMAIN o \cap DOMAIN s : o[x].term # s[x].term} = {}
  BY <1>2
<1>4. FirstDifference(o, s) = 0
  BY <1>3 DEF FirstDifference
<1>5. ~(Len(s) > Len(o))
  BY <1>1, <1>2
<1>6. QED BY <1>4, <1>5 DEF MergeEntries

\* The beginning of a sound log is sound.
LEMMA PrefixSound ==
  ASSUME NEW led \in [Nat -> Seq(Entry)], NEW s \in Seq(Entry), Sound(led, s),
         NEW g \in Seq(Entry), Agree(s, g, Len(g))
  PROVE  Sound(led, g)
<1>1. /\ Len(s) \in Nat /\ Len(g) \in Nat /\ Len(g) <= Len(s)
      /\ \A x \in 1 .. Len(g) : x \in 1 .. Len(s) /\ s[x] = g[x]
  BY LogFacts DEF Agree
<1>2. ASSUME NEW x \in 1 .. Len(g)
      PROVE  Agree(g, led[g[x].term], x)
  <2>1. Agree(s, led[s[x].term], x) /\ s[x] = g[x] /\ x \in Nat
    BY <1>1 DEF Sound, Traced
  <2>2. \A z \in 1 .. x : z \in 1 .. Len(g)
    BY <1>1
  <2>3. QED BY <1>1, <2>1, <2>2 DEF Agree
<1>3. Sorted(g)
  <2>1. Sorted(s)
    BY DEF Sound
  <2>2. QED BY <1>1, <2>1 DEF Sorted
<1>4. ASSUME NEW x \in 1 .. Len(g), IsChange(g[x])
      PROVE  IsSuccessor(ConfAt(g, x - 1), g[x].conf) /\ ValidateMembershipView(g[x].conf)
  <2>1. IsSuccessor(ConfAt(s, x - 1), s[x].conf) /\ ValidateMembershipView(s[x].conf) /\ s[x] = g[x]
    BY <1>1, <1>4 DEF Sound, Legal
  <2>2. x - 1 \in Nat /\ x - 1 <= Len(g)
    BY <1>1
  <2>3. ConfAt(s, x - 1) = ConfAt(g, x - 1)
    BY <1>1, <2>2, AgreeConf
  <2>4. QED BY <2>1, <2>3
<1>5. QED BY <1>2, <1>3, <1>4 DEF Sound, Traced, Legal

\* A node has acknowledged the first j entries of the leader of a term.
WithAck(h, m, u, j) ==
    [led |-> h.led, won |-> h.won,
     acked |-> [h.acked EXCEPT ![u] = [h.acked[u] EXCEPT ![m] = j]], done |-> h.done]

\* History w is h but for that.
Acks(h, w, m, u, j) ==
    /\ w \in History /\ w.led = h.led /\ w.won = h.won /\ w.done = h.done
    /\ w.acked[u][m] = j
    /\ \A t \in Nat, v \in Node : t # u \/ v # m => w.acked[t][v] = h.acked[t][v]

\* No entry of o up to i differs from s.
Keeps(o, s, i) == FirstDifference(o, s) = 0 \/ FirstDifference(o, s) > i

\* The leader of term u, with its log s, and the node it sends entries to, with
\* its log o and its term q.
Sends(h, n, s, u, d, b, f, p) ==
    /\ s \in Seq(Entry) /\ f <= Len(s)
    /\ Follows(h, n, s, u, d, b, f) /\ Leads(h, n, s, u, b, f, p)
Takes(h, m, o, q, c, a, i) ==
    o \in Seq(Entry) /\ a <= i /\ i <= Len(o) /\ Follows(h, m, o, q, c, a, i)

\* The leader of term u, with the log s and the commit index f, sends k entries and
\* the commit index y to a node with the commit index i.
Carries(s, u, f, k, y, i) ==
    /\ k <= Len(s) /\ (y <= i \/ y <= f) /\ (y <= i \/ y <= k)
    /\ \A x \in k + 1 .. Len(s) : s[x].term = u
    /\ OneChange(s, y, k)

\* Log g has nothing behind the k entries but what is of term u.
Reached(g, k, u) == \A x \in k + 1 .. Len(g) : g[x].term = u

\* The node, whose log was o and whose commit index is i, has g of the k entries r
\* of s.
Merged(s, o, r, g, k, i, u) ==
    /\ r \in Seq(Entry) /\ g \in Seq(Entry)
    /\ Len(r) = k /\ Agree(s, r, k) /\ Keeps(o, r, i)
    /\ g = MergeEntries(o, r) /\ Reached(g, k, u)

\* The merge has changed nothing up to i, and g is the first entries of s.
Follower(s, o, r, g, k, i) ==
    /\ g = r \/ (g = o /\ Agree(r, o, k))
    /\ Agree(o, g, i) /\ Agree(s, g, Len(g)) /\ Len(g) <= Len(s) /\ i <= Len(g)

\* Node m, in term q, enters term u.
Moves(now, next, m, q, u) ==
    /\ now \in [Node -> Nat] /\ next \in [Node -> Nat]
    /\ q <= u /\ now[m] = q /\ next = [now EXCEPT ![m] = u]

\* What history k is after h, when m has acknowledged j entries of led[u].
Acknowledged(h, k, next, m, u, j) ==
    /\ HistoryOf(k, next) /\ Grows(h, k) /\ k.led = h.led /\ DiffersAt(h, k, u, m)
    /\ h.acked[u][m] <= k.acked[u][m] /\ j <= k.acked[u][m]

\* Whatever was sent, the node then has the first entries of the leader's log.
LEMMA MergedIsPrefix ==
  ASSUME NEW o \in Seq(Entry), NEW s \in Seq(Entry), NEW r \in Seq(Entry), NEW k \in Nat,
         k <= Len(s), Len(r) = k, Agree(s, r, k), NEW u, NEW led, led[u] = s, Traced(led, o),
         NEW g \in Seq(Entry), g = r \/ (g = o /\ Agree(r, o, k)), Reached(g, k, u)
  PROVE  Agree(s, g, Len(g))
<1>1. Len(o) \in Nat /\ Len(s) \in Nat /\ Len(r) \in Nat /\ Len(g) \in Nat
  BY LogFacts
<1>2. CASE g = r
  BY <1>2
<1>3. CASE g = o /\ Agree(r, o, k) /\ Len(o) <= k
  <2>1. Len(o) = k
    BY <1>1, <1>3 DEF Agree
  <2>2. Agree(s, o, k)
    BY <1>3, AgreeThen
  <2>3. QED BY <1>3, <2>1, <2>2
<1>4. CASE g = o /\ Agree(r, o, k) /\ ~(Len(o) <= k)
  <2>1. Len(o) \in k + 1 .. Len(g) /\ Len(o) \in 1 .. Len(o)
    BY <1>1, <1>4
  <2>2. o[Len(o)].term = u
    BY <1>4, <2>1 DEF Reached
  <2>3. Agree(o, s, Len(o))
    BY <2>1, <2>2 DEF Traced
  <2>4. QED BY <1>4, <2>3, AgreeSym
<1>5. QED BY <1>2, <1>3, <1>4

LEMMA MergedFollows ==
  ASSUME NEW led \in [Nat -> Seq(Entry)], NEW u \in Nat,
         NEW s \in Seq(Entry), s = led[u], Sound(led, s),
         NEW o \in Seq(Entry), Sound(led, o), NEW i \in Nat, i <= Len(o),
         NEW k \in Nat, k <= Len(s), NEW r \in Seq(Entry), NEW g \in Seq(Entry),
         Merged(s, o, r, g, k, i, u)
  PROVE  Follower(s, o, r, g, k, i) /\ Sound(led, g)
<1>1. /\ Len(r) = k /\ Agree(s, r, k) /\ Keeps(o, r, i)
      /\ g = MergeEntries(o, r) /\ Reached(g, k, u)
  BY DEF Merged
<1>2. Sound(led, r)
  BY <1>1, PrefixSound
<1>3. TermsTell(o, r)
  <2>1. \A t \in Nat : led[t] \in Seq(Entry)
    OBVIOUS
  <2>2. Traced(led, o) /\ Traced(led, r)
    BY <1>2 DEF Sound
  <2>3. QED BY <2>1, <2>2, TracedTell
<1>4. (g = r \/ (g = o /\ Agree(r, o, k))) /\ Agree(o, g, i)
  <2>1. FirstDifference(o, r) = 0 \/ FirstDifference(o, r) > i
    BY <1>1 DEF Keeps
  <2>2. QED BY <1>1, <1>3, <2>1, MergeIs
<1>5. Agree(s, g, Len(g))
  <2>1. Traced(led, o)
    BY DEF Sound
  <2>2. led[u] = s
    OBVIOUS
  <2>3. QED BY <1>1, <1>4, <2>1, <2>2, MergedIsPrefix
<1>6. Len(g) <= Len(s) /\ i <= Len(g)
  BY <1>4, <1>5 DEF Agree
<1>7. Sound(led, g)
  BY <1>5, PrefixSound
<1>8. QED BY <1>4, <1>5, <1>6, <1>7 DEF Follower

LEMMA WithAckIs ==
  ASSUME NEW h \in History, NEW m \in Node, NEW u \in Nat, NEW j \in Nat
  PROVE  Acks(h, WithAck(h, m, u, j), m, u, j)
<1> DEFINE acked == [h.acked EXCEPT ![u] = [h.acked[u] EXCEPT ![m] = j]]
           w == WithAck(h, m, u, j)
<1>1. /\ h.led \in [Nat -> Seq(Entry)] /\ h.acked \in [Nat -> [Node -> Nat]]
      /\ h.won \subseteq Election /\ h.done \subseteq Decision
  BY DEF History
<1>2. w = [led |-> h.led, won |-> h.won, acked |-> acked, done |-> h.done]
  BY DEF WithAck
<1>3. /\ acked \in [Nat -> [Node -> Nat]] /\ acked[u][m] = j
      /\ \A t \in Nat, v \in Node : t # u \/ v # m => acked[t][v] = h.acked[t][v]
  <2>1. h.acked[u] \in [Node -> Nat]
    BY <1>1
  <2>2. QED BY <1>1, <2>1
<1> HIDE DEF acked, w
<1>4. w \in History
  BY <1>1, <1>2, <1>3 DEF History
<1>5. w.led = h.led /\ w.won = h.won /\ w.done = h.done /\ w.acked = acked
  BY <1>2
<1>6. Acks(h, w, m, u, j)
  BY <1>3, <1>4, <1>5 DEF Acks
<1>7. QED BY <1>6 DEF w

LEMMA Acknowledges ==
  ASSUME NEW h, NEW now, NEW next, HistoryOf(h, now),
         NEW m \in Node, NEW q \in Nat, NEW u \in Nat, Moves(now, next, m, q, u),
         NEW j \in Nat, h.acked[u][m] <= j, j <= Len(h.led[u]),
         NEW w, w = WithAck(h, m, u, j)
  PROVE  Acks(h, w, m, u, j) /\ Acknowledged(h, w, next, m, u, j)
<1>1. h \in History
  BY HistoryOfFacts
<1>2. /\ \A t \in Nat : h.led[t] \in Seq(Entry) /\ Len(h.led[t]) \in Nat
      /\ \A e \in h.won : e.term \in Nat
  BY <1>1, HistoryFacts DEF Election
<1>3. /\ w \in History /\ w.led = h.led /\ w.won = h.won /\ w.done = h.done
      /\ w.acked[u][m] = j
      /\ \A t \in Nat, v \in Node : t # u \/ v # m => w.acked[t][v] = h.acked[t][v]
  <2>1. Acks(h, w, m, u, j)
    BY <1>1, WithAckIs
  <2>2. QED BY <2>1 DEF Acks
<1>4. /\ now \in [Node -> Nat] /\ next \in [Node -> Nat] /\ next[m] = u
      /\ \A v \in Node : now[v] <= next[v]
  BY DEF Moves
<1>5. Grows(h, w)
  <2>1. \A t \in Nat : Agree(h.led[t], h.led[t], Len(h.led[t]))
    BY <1>2 DEF Agree
  <2>2. \A e \in h.won : \A x \in 1 .. Len(h.led[e.term]) : ~(Len(h.led[e.term]) < x)
    BY <1>2
  <2>3. QED BY <1>3, <2>1, <2>2 DEF Grows
<1>6. Advances(h, w, next)
  <2>1. ASSUME NEW t \in Nat, NEW v \in Node
        PROVE  \/ w.acked[t][v] = h.acked[t][v]
               \/ t = next[v] /\ h.acked[t][v] <= w.acked[t][v] /\ w.acked[t][v] <= Len(w.led[t])
    <3>1. CASE t = u /\ v = m
      <4>1. u = next[m]
        BY <1>4
      <4>2. QED BY <1>3, <3>1, <4>1
    <3>2. CASE ~(t = u /\ v = m)
      BY <1>3, <3>2
    <3>3. QED BY <3>1, <3>2
  <2>2. /\ \A t \in Nat : Sound(h.led, h.led[t])
        /\ \A t \in Nat : h.led[t] # << >> => \E e \in h.won : e.term = t
    BY DEF HistoryOf
  <2>3. QED BY <1>3, <2>1, <2>2 DEF Advances
<1>7. HistoryOf(w, next)
  BY <1>3, <1>4, <1>5, <1>6, HistoryGrows
<1>8. DiffersAt(h, w, u, m)
  BY <1>3 DEF DiffersAt
<1>9. j <= j
  OBVIOUS
<1>10. Acknowledged(h, w, next, m, u, j)
  BY <1>3, <1>5, <1>7, <1>8, <1>9 DEF Acknowledged
<1>11. Acks(h, w, m, u, j)
  BY <1>3 DEF Acks
<1>12. QED BY <1>10, <1>11

\* What m has acknowledged before, in the leader's term, is in its log.
LEMMA FollowerHas ==
  ASSUME NEW h \in History, NEW m \in Node, NEW u \in Nat, NEW q \in Nat, q <= u,
         NEW s \in Seq(Entry), s = h.led[u], NEW o \in Seq(Entry), NEW k \in Nat, k <= Len(s),
         NEW r \in Seq(Entry), NEW g \in Seq(Entry), Len(r) = k, Agree(s, r, k),
         g = r \/ g = o, g = MergeEntries(o, r), Remembered(h, m, u, o, q),
         NEW x \in Nat, x \in 1 .. h.acked[u][m], s[x].term = u
  PROVE  Agree(s, g, x)
<1>1. Agree(s, o, x) \/ Lost(h, u, x, q)
  BY DEF Remembered
<1>2. ~Lost(h, u, x, q)
  <2>1. \A e \in h.won : e.term \in Nat
    BY HistoryFacts DEF Election
  <2>2. \A e \in h.won : ~(u < e.term /\ e.term <= q)
    BY <2>1
  <2>3. QED BY <2>2 DEF Lost
<1>3. Agree(s, o, x)
  BY <1>1, <1>2
<1>4. CASE g = o
  BY <1>3, <1>4
<1>5. CASE g = r /\ x <= k
  <2>1. Agree(s, r, x)
    BY <1>5, AgreeLess
  <2>2. QED BY <1>5, <2>1
<1>6. CASE ~(x <= k)
  <2>1. k <= x
    BY <1>6
  <2>2. Agree(s, o, k)
    BY <1>3, <2>1, AgreeLess
  <2>3. Agree(r, o, Len(r))
    BY <2>2, AgreeVia
  <2>4. g = o
    BY <2>3, MergeKeeps
  <2>5. QED BY <1>3, <2>4
<1>7. QED BY <1>4, <1>5, <1>6

\* What m then takes for committed was committed.
LEMMA FollowerCovered ==
  ASSUME NEW h \in History, NEW u \in Nat, NEW q \in Nat, q <= u,
         NEW s \in Seq(Entry), NEW o \in Seq(Entry), NEW g \in Seq(Entry),
         NEW i \in Nat, Agree(o, g, i), Agree(s, g, Len(g)),
         NEW x \in Nat, x <= Len(g), NEW v \in Seq(Entry), NEW t \in Nat, t <= u,
         (v = o /\ x <= i) \/ v = s, Covered(h, v, x, t)
  PROVE  Covered(h, g, x, u)
<1>1. PICK e \in h.done : e.term <= t /\ Covers(h, v, x, e)
  BY DEF Covered
<1>2. e.term \in Nat /\ h.led[e.term] \in Seq(Entry)
  BY HistoryFacts DEF Decision
<1>3. e.term <= u
  BY <1>1, <1>2
<1>4. Agree(h.led[e.term], v, x)
  BY <1>1 DEF Covers
<1>5. Agree(v, g, x)
  <2>1. CASE v = o /\ x <= i
    BY <2>1, AgreeLess
  <2>2. CASE v = s
    <3>1. Len(g) \in Nat
      BY LogFacts
    <3>2. QED BY <2>2, <3>1, AgreeLess
  <2>3. QED BY <2>1, <2>2
<1>6. Agree(h.led[e.term], g, x)
  BY <1>2, <1>4, <1>5, AgreeThen
<1>7. QED BY <1>1, <1>3, <1>6 DEF Covers, Covered

\* Node m, with the log o and the term q, knows of the earlier term t, and takes
\* the k entries r of s over.
Earlier(h, m, u, q, s, o, k, r, g, t) ==
    /\ h \in History /\ s \in Seq(Entry) /\ o \in Seq(Entry) /\ r \in Seq(Entry)
    /\ q <= u /\ t < u /\ s = h.led[u] /\ (\E e \in h.won : e.term = u)
    /\ k <= Len(s) /\ \A x \in k + 1 .. Len(s) : s[x].term = u
    /\ Agree(s, r, k) /\ (g = r \/ g = o)
    /\ Remembered(h, m, t, o, q) /\ h.acked[t][m] <= Len(h.led[t])

\* What m has acknowledged in an earlier term is in its log, or was lost.
LEMMA FollowerRemembers ==
  ASSUME NEW h, NEW w, NEW j, Grows(h, w),
         NEW m \in Node, NEW u \in Nat, NEW q \in Nat, NEW s, NEW o, NEW k \in Nat,
         NEW r, NEW g, NEW t \in Nat, Earlier(h, m, u, q, s, o, k, r, g, t), Acks(h, w, m, u, j)
  PROVE  Remembered(w, m, t, g, u)
<1>1. /\ h \in History /\ s \in Seq(Entry) /\ o \in Seq(Entry) /\ r \in Seq(Entry)
      /\ q <= u /\ t < u /\ s = h.led[u]
      /\ k <= Len(s) /\ \A x \in k + 1 .. Len(s) : s[x].term = u
      /\ Agree(s, r, k) /\ (g = r \/ g = o)
      /\ Remembered(h, m, t, o, q) /\ h.acked[t][m] <= Len(h.led[t])
  BY DEF Earlier
<1>2. PICK e \in h.won : e.term = u
  BY DEF Earlier
<1>3. s = h.led[u] /\ t < u /\ h.acked[t][m] <= Len(h.led[t])
  BY DEF Earlier
<1>4. /\ w \in History /\ w.led = h.led /\ w.won = h.won
       /\ w.acked[t][m] = h.acked[t][m]
  BY <1>1 DEF Acks
<1>5. Len(h.led[t]) \in Nat /\ h.led[t] \in Seq(Entry) /\ h.acked[t][m] \in Nat /\ Len(s) \in Nat
  BY <1>1, HistoryFacts, LogFacts
<1> SUFFICES ASSUME NEW x \in 1 .. h.acked[t][m], h.led[t][x].term = t, ~Lost(w, t, x, u)
             PROVE  Agree(h.led[t], g, x)
  BY <1>4 DEF Remembered
<1>6. x \in Nat /\ x \in 1 .. Len(h.led[t]) /\ x # 0
  <2>1. PICK y \in Nat, l \in Nat : y = h.acked[t][m] /\ l = Len(h.led[t]) /\ y <= l
    BY <1>3, <1>5
  <2>2. QED BY <2>1
<1>7. Agree(h.led[t], s, x)
  <2>1. u <= u /\ w.led[t] = h.led[t] /\ w.led[u] = s /\ e \in w.won
    BY <1>2, <1>3, <1>4
  <2>2. QED BY <1>2, <1>3, <2>1 DEF Lost
<1>8. Agree(h.led[t], o, x) \/ Lost(h, t, x, q)
  BY <1>1 DEF Remembered
<1>9. ~Lost(h, t, x, q)
  <2>1. q \in Int /\ u \in Int
    OBVIOUS
  <2>2. QED BY <1>1, <1>4, <1>6, <2>1, LostGrows
<1>10. CASE g = r
  <2>1. x \in 1 .. Len(s) /\ s[x] = h.led[t][x]
    BY <1>1, <1>5, <1>6, <1>7, AgreeLast
  <2>2. s[x].term = t /\ t # u
    BY <1>1, <2>1
  <2>3. ~(x \in k + 1 .. Len(s))
    BY <1>1, <2>2
  <2>4. x <= k
    BY <1>5, <1>6, <2>1, <2>3
  <2>5. Agree(s, r, x)
    BY <1>1, <1>6, <2>4, AgreeLess
  <2>6. Agree(h.led[t], r, x)
    BY <1>1, <1>5, <1>6, <1>7, <2>5, AgreeThen
  <2>7. QED BY <1>10, <2>6
<1>11. CASE g = o
  BY <1>8, <1>9, <1>11
<1>12. QED BY <1>1, <1>10, <1>11

\* Behind what m takes for committed there is one change at most.
LEMMA PrefixOneChange ==
  ASSUME NEW s, NEW r, NEW k \in Nat, NEW y \in Nat, NEW j \in Nat,
         Agree(s, r, k), OneChange(s, y, k), y <= j \/ k <= j
  PROVE  OneChange(r, j, k)
<1>1. \A x \in j + 1 .. k : x \in y + 1 .. k /\ x \in 1 .. k
  OBVIOUS
<1>2. \A x \in 1 .. k : s[x] = r[x]
  BY DEF Agree
<1>3. QED BY <1>1, <1>2 DEF OneChange

LEMMA LargerIs ==
  ASSUME NEW x \in Nat, NEW l \in Nat
  PROVE  /\ Larger(x, l) \in Nat /\ x <= Larger(x, l) /\ l <= Larger(x, l)
         /\ Larger(x, l) = x \/ Larger(x, l) = l
BY DEF Larger

LEMMA CommitIs ==
  ASSUME NEW x \in Nat, NEW v \in Nat, NEW l \in Nat, x <= l
  PROVE  LET e == Larger(x, Smaller(v, l))
         IN  /\ e \in Nat /\ x <= e /\ e <= l /\ (e <= x \/ e <= v)
             /\ (v <= l => v <= e) /\ (l < v => l <= e)
BY DEF Larger, Smaller

LEMMA FollowerReceives ==
  ASSUME NEW h, NEW now, NEW next, HistoryOf(h, now),
         NEW n \in Node, NEW m \in Node, n # m,
         NEW u \in Nat, NEW q \in Nat, Moves(now, next, m, q, u),
         NEW s, NEW b \in Nat, NEW f \in Nat, NEW d, NEW p,
         Sends(h, n, s, u, d, b, f, p),
         NEW o, NEW a \in Nat, NEW i \in Nat, NEW c, Takes(h, m, o, q, c, a, i),
         NEW k \in Nat, NEW y \in Nat, Carries(s, u, f, k, y, i),
         NEW r, NEW g, Merged(s, o, r, g, k, i, u)
  PROVE  LET w == WithAck(h, m, u, Larger(h.acked[u][m], Len(g)))
         IN  /\ Acknowledged(h, w, next, m, u, Len(g))
             /\ Follows(w, m, g, u, c, a, Larger(i, Smaller(y, Len(g))))
<1>1. h \in History /\ h.led \in [Nat -> Seq(Entry)] /\ h.acked \in [Nat -> [Node -> Nat]]
  <2>1. h \in History
    BY HistoryOfFacts
  <2>2. QED BY <2>1 DEF History
<1>2. q <= u /\ now[m] = q
  BY DEF Moves
<1>3. s \in Seq(Entry) /\ o \in Seq(Entry) /\ r \in Seq(Entry) /\ g \in Seq(Entry)
  BY DEF Sends, Takes, Merged
<1>4. Len(s) \in Nat /\ Len(o) \in Nat /\ Len(g) \in Nat /\ Len(r) \in Nat
  BY <1>3, LogFacts
<1>5. \A t \in Nat : /\ h.acked[t][m] \in Nat /\ h.acked[t][m] <= Len(h.led[t])
                     /\ h.acked[t][m] > 0 => t <= q
  <2>1. \A t \in Nat : h.acked[t][m] \in Nat
    BY <1>1
  <2>2. \A t \in Nat, v \in Node : /\ h.acked[t][v] <= Len(h.led[t])
                                   /\ h.acked[t][v] > 0 => t <= now[v]
    BY DEF HistoryOf
  <2>3. QED BY <1>2, <2>1, <2>2
<1>6. f <= Len(s) /\ Follows(h, n, s, u, d, b, f) /\ Leads(h, n, s, u, b, f, p)
  BY DEF Sends
<1>7. a <= i /\ i <= Len(o) /\ Follows(h, m, o, q, c, a, i)
  BY DEF Takes
<1>8. /\ k <= Len(s) /\ (y <= i \/ y <= f) /\ (y <= i \/ y <= k) /\ OneChange(s, y, k)
      /\ \A x \in k + 1 .. Len(s) : s[x].term = u
  BY DEF Carries
<1>9. /\ s = h.led[u] /\ Sound(h.led, s) /\ Sound(h.led, o)
      /\ \A x \in 1 .. Len(s) : s[x].term <= u
  BY <1>6, <1>7 DEF Follows, Leads
<1>10. Follower(s, o, r, g, k, i) /\ Sound(h.led, g)
  BY <1>1, <1>3, <1>7, <1>8, <1>9, MergedFollows
<1>11. /\ g = r \/ g = o
      /\ Agree(o, g, i) /\ Agree(s, g, Len(g)) /\ Len(g) <= Len(s) /\ i <= Len(g)
  BY <1>10 DEF Follower
<1>12. Len(r) = k /\ Agree(s, r, k) /\ g = MergeEntries(o, r)
  BY DEF Merged
<1>13. PICK z \in Nat : z = h.acked[u][m] /\ z <= Len(s)
  BY <1>5, <1>9
<1>14. PICK ack \in Nat : /\ ack = Larger(z, Len(g)) /\ z <= ack /\ Len(g) <= ack
                          /\ ack <= Len(s) /\ (ack = z \/ ack = Len(g))
  BY <1>4, <1>11, <1>13, LargerIs
<1>15. PICK j \in Nat : /\ j = Larger(i, Smaller(y, Len(g))) /\ i <= j /\ j <= Len(g)
                        /\ (j <= i \/ j <= y) /\ (y <= Len(g) => y <= j)
                        /\ (Len(g) < y => Len(g) <= j)
  <2>1. Len(g) \in Nat /\ i <= Len(g)
    BY <1>4, <1>11
  <2>2. QED BY <2>1, CommitIs
<1>16. PICK w : w = WithAck(h, m, u, ack)
  OBVIOUS
<1>17. Acks(h, w, m, u, ack) /\ Acknowledged(h, w, next, m, u, ack)
  <2>1. h.acked[u][m] <= ack /\ ack <= Len(h.led[u])
    BY <1>9, <1>13, <1>14
  <2>2. QED BY <1>16, <2>1, Acknowledges
<1>18. /\ w \in History /\ w.won = h.won /\ w.done = h.done /\ w.acked[u][m] = ack
       /\ \A t \in Nat, v \in Node : t # u \/ v # m => w.acked[t][v] = h.acked[t][v]
  BY <1>17 DEF Acks
<1>19. Grows(h, w) /\ w.led = h.led
  BY <1>17 DEF Acknowledged
<1>20. Acknowledged(h, w, next, m, u, Len(g))
  <2>1. w.acked[u][m] = ack /\ Len(g) <= ack
    BY <1>14, <1>18
  <2>2. QED BY <1>17, <2>1 DEF Acknowledged
<1>21. Follows(w, m, g, u, c, a, j)
  <2>1. \A x \in 1 .. Len(g) : g[x].term <= u
    <3>1. \A x \in 1 .. Len(g) : x \in 1 .. Len(s) /\ s[x] = g[x]
      BY <1>4, <1>11 DEF Agree
    <3>2. QED BY <1>9, <3>1
  <2>2. c = ConfAt(g, a)
    <3>1. c = ConfAt(o, a)
      BY <1>7 DEF Follows
    <3>2. QED BY <1>7, <1>11, <3>1, AgreeConf
  <2>3. OneChange(g, j, Len(g))
    <3>1. OneChange(o, i, Len(o))
      BY <1>7 DEF Follows
    <3>2. CASE g = o
      <4>1. \A x \in j + 1 .. Len(o) : x \in i + 1 .. Len(o)
        BY <1>4, <1>15
      <4>2. QED BY <3>1, <3>2, <4>1 DEF OneChange
    <3>3. CASE g = r
      <4>1. Len(g) = k
        BY <1>12, <3>3
      <4>2. y <= j \/ k <= j
        BY <1>15, <4>1
      <4>3. OneChange(r, j, k)
        BY <1>8, <1>12, <4>2, PrefixOneChange
      <4>4. QED BY <3>3, <4>1, <4>3
    <3>4. QED BY <1>11, <3>2, <3>3
  <2>4. ASSUME NEW x \in 1 .. j PROVE Covered(w, g, x, u)
    <3>1. x \in Nat /\ x <= Len(g) /\ x <= j
      BY <1>4, <1>15
    <3>2. Covered(h, g, x, u)
      <4>1. CASE x <= i
        <5>1. Covered(h, o, x, q)
          BY <1>7, <3>1, <4>1 DEF Follows
        <5>2. QED BY <1>1, <1>2, <1>3, <1>11, <3>1, <4>1, <5>1, FollowerCovered
      <4>2. CASE ~(x <= i)
        <5>1. x <= y
          BY <1>15, <3>1, <4>2
        <5>2. x <= f
          BY <1>8, <3>1, <4>2, <5>1
        <5>3. Covered(h, s, x, u) /\ u <= u
          BY <1>6, <3>1, <5>2 DEF Follows
        <5>4. QED BY <1>1, <1>2, <1>3, <1>11, <3>1, <5>3, FollowerCovered
      <4>3. QED BY <4>1, <4>2
    <3>3. QED BY <1>18, <1>19, <3>2 DEF Covered, Covers
  <2>5. ASSUME NEW t \in Nat PROVE Remembered(w, m, t, g, u)
    <3>1. CASE t = u
      <4> SUFFICES ASSUME NEW x \in 1 .. ack, s[x].term = u PROVE Agree(s, g, x)
        BY <1>9, <1>18, <1>19, <3>1 DEF Remembered
      <4>1. x \in Nat /\ x <= ack
        BY <1>14
      <4>2. CASE x <= Len(g)
        BY <1>3, <1>4, <1>11, <4>1, <4>2, AgreeLess
      <4>3. CASE ~(x <= Len(g))
        <5>1. ack = h.acked[u][m]
          BY <1>4, <1>13, <1>14, <4>1, <4>3
        <5>2. Remembered(h, m, u, o, q) /\ x \in 1 .. h.acked[u][m]
          BY <1>7, <5>1 DEF Follows
        <5>3. QED BY <1>1, <1>2, <1>3, <1>8, <1>9, <1>11, <1>12, <4>1, <5>2, FollowerHas
      <4>4. QED BY <4>2, <4>3
    <3>2. CASE t < u
      <4>1. \E e \in h.won : e.term = u
        BY <1>6 DEF Leads
      <4>2. Remembered(h, m, t, o, q) /\ h.acked[t][m] <= Len(h.led[t])
        BY <1>5, <1>7 DEF Follows
      <4>3. Earlier(h, m, u, q, s, o, k, r, g, t)
        BY <1>1, <1>2, <1>3, <1>8, <1>9, <1>11, <1>12, <3>2, <4>1, <4>2 DEF Earlier
      <4>4. QED BY <1>17, <1>19, <4>3, FollowerRemembers
    <3>3. CASE u < t
      <4>1. PICK v \in Nat : v = h.acked[t][m] /\ (v > 0 => t <= q)
        BY <1>5
      <4>2. v = 0
        BY <1>2, <3>3, <4>1
      <4>3. w.acked[t][m] = h.acked[t][m]
        BY <1>18, <3>3
      <4>4. w.acked[t][m] = 0
        BY <4>1, <4>2, <4>3
      <4>5. QED BY <4>4 DEF Remembered
    <3>4. QED BY <3>1, <3>2, <3>3
  <2>6. QED BY <1>10, <1>19, <2>1, <2>2, <2>3, <2>4, <2>5 DEF Follows
<1>22. QED BY <1>13, <1>14, <1>15, <1>16, <1>20, <1>21

----------------------------------------------------------------------------
\* A node is elected that has applied every change it knows to be committed.
\* Nodes q enter term t.
Enter(now, next, q, t) ==
    /\ \A v \in q : ~(t <= now[v]) /\ next[v] = t
    /\ \A v \in Node \ q : next[v] = now[v]

\* Nodes q, with logs l, vote for one with log s.
Vote(h, now, q, l, s) ==
    \A v \in q : /\ Sound(h.led, l[v]) /\ IsCandidateLogUpToDate(l[v], s)
                 /\ \A w \in Nat : Remembered(h, v, w, l[v], now[v])

\* What history k is after h, when n has become the leader of term t.
Begun(h, k, next, n, t) ==
    /\ HistoryOf(k, next) /\ Grows(h, k)
    /\ \A w \in Nat, v \in Node : w # t \/ v # n => k.acked[w][v] = h.acked[w][v]
    /\ \A w \in Nat \ {t} : k.led[w] = h.led[w]

\* The candidate.
Stands(h, now, n, s, c, a, i) ==
    /\ a <= i /\ i <= Len(s) /\ Follows(h, n, s, now[n], c, a, i)
    /\ \A x \in a + 1 .. i : ~IsChange(s[x])

LEMMA NewLeader ==
  ASSUME NEW h, NEW now \in [Node -> Nat], NEW next \in [Node -> Nat], HistoryOf(h, now),
         NEW n \in Node, NEW q \in SUBSET Node, n \in q, NEW t \in Nat,
         Enter(now, next, q, t),
         NEW s \in Seq(Entry), NEW c, NEW a \in Nat, NEW i \in Nat,
         Stands(h, now, n, s, c, a, i), HasQuorum(c, q),
         NEW l \in [Node -> Seq(Entry)], Vote(h, now, q, l, s)
  PROVE  \E k \in History : /\ Begun(h, k, next, n, t)
                            /\ Follows(k, n, s, t, c, a, i)
                            /\ Leads(k, n, s, t, a, i, [p \in Node |-> 0])
<1> USE DEF Enter, Vote, Stands
<1> DEFINE e == [term |-> t, node |-> n, base |-> Len(s), applied |-> a, voters |-> q]
           k == WithElection(h, e, s)
<1>1. /\ h \in History
      /\ \A w \in Nat : h.led[w] \in Seq(Entry) /\ Len(h.led[w]) \in Nat
      /\ \A w \in Nat : Sound(h.led, h.led[w])
      /\ \A w \in Nat, v \in Node : h.acked[w][v] \in Nat /\ h.acked[w][v] <= Len(h.led[w])
  <2>1. h \in History
    BY HistoryOfFacts
  <2>2. QED BY <2>1, HistoryOfFacts, HistoryFacts DEF HistoryOf
<1>2. Len(s) \in Nat /\ now[n] \in Nat /\ now[n] < t /\ \A v \in q : now[v] \in Nat /\ now[v] < t
  BY LogFacts
<1>3. /\ e \in Election /\ e.term = t /\ e.node = n /\ e.base = Len(s) /\ e.applied = a
      /\ e.voters = q
  BY <1>2 DEF Election
<1> HIDE DEF e
<1>4. /\ Sound(h.led, s) /\ c = ConfAt(s, a) /\ OneChange(s, i, Len(s))
      /\ \A x \in 1 .. Len(s) : s[x].term \in Nat /\ s[x].term <= now[n]
      /\ \A x \in 1 .. i : Covered(h, s, x, now[n])
  BY LogFacts DEF Follows
<1>5. \A x \in 1 .. Len(s) : s[x].term < t
  BY <1>2, <1>4
<1>6. OneChange(s, a, Len(s))
  <2> SUFFICES ASSUME NEW x \in a + 1 .. Len(s), NEW y \in a + 1 .. Len(s),
                      IsChange(s[x]), IsChange(s[y])
               PROVE  x = y
    BY DEF OneChange
  <2>1. x \in i + 1 .. Len(s) /\ y \in i + 1 .. Len(s)
    BY <1>2
  <2>2. QED BY <1>4, <2>1 DEF OneChange
<1>7. ASSUME a > 0 PROVE Covered(h, s, a, t - 1)
  <2>1. Covered(h, s, a, now[n])
    <3>1. a \in 1 .. i
      BY <1>7
    <3>2. QED BY <1>4, <3>1
  <2>2. \A w \in Nat : w <= now[n] => w <= t - 1
    BY <1>2
  <2>3. \A r \in h.done : r.term \in Nat
    BY <1>1, HistoryFacts DEF Decision
  <2>4. QED BY <2>1, <2>2, <2>3 DEF Covered
<1>8. ASSUME NEW v \in q, NEW w \in Nat
      PROVE  Remembered(h, v, w, s, t - 1)
  <2>1. /\ v \in Node /\ l[v] \in Seq(Entry) /\ Sound(h.led, l[v])
        /\ IsCandidateLogUpToDate(l[v], s) /\ Remembered(h, v, w, l[v], now[v])
        /\ now[v] \in Nat /\ now[v] < t
    BY <1>2
  <2>2. \A x \in Nat : h.led[x] # << >> => \E f \in h.won : f.term = x
    BY DEF HistoryOf
  <2>3. QED BY <1>1, <1>4, <1>5, <2>1, <2>2, VoterKnows
<1>9. Ran(h, e, s)
  <2>1. HasQuorum(ConfAt(s, a), q)
    BY <1>4
  <2>2. a <= Len(s) /\ Len(s) <= Len(s)
    BY <1>2
  <2>3. QED BY <1>3, <1>5, <1>6, <1>7, <1>8, <2>1, <2>2 DEF Ran
<1>10. \A v \in Node : now[v] <= next[v]
  <2> SUFFICES ASSUME NEW v \in Node PROVE now[v] <= next[v]
    OBVIOUS
  <2>1. CASE v \in q
    BY <1>2, <2>1
  <2>2. CASE v \notin q
    BY <2>2
  <2>3. QED BY <2>1, <2>2
<1>11. /\ HistoryOf(k, next) /\ Grows(h, k)
       /\ \A w \in Nat, v \in Node : w # t \/ v # n => k.acked[w][v] = h.acked[w][v]
       /\ k.acked[t][n] = Len(s) /\ k.led[t] = s /\ e \in k.won
       /\ k.done = h.done /\ \A w \in Nat \ {t} : k.led[w] = h.led[w]
  <2>1. /\ e.base = Len(s) /\ e.node \in e.voters /\ Sound(h.led, s)
        /\ Elects(e, now, next)
    BY <1>3, <1>4, <1>10 DEF Elects
  <2>2. HistoryOf(k, next) /\ Elected(h, e, s)
    BY <1>3, <1>9, <2>1, HistoryElects
  <2>3. QED BY <1>3, <2>2 DEF Elected
<1> HIDE DEF k
<1>12. k \in History
  BY <1>11, HistoryOfFacts
<1>13. Follows(k, n, s, t, c, a, i)
  <2>1. Sound(k.led, s)
    BY <1>1, <1>4, <1>11, <1>12, TracedGrows DEF Sound
  <2>2. \A x \in 1 .. Len(s) : s[x].term <= t
    BY <1>4, <1>5
  <2>3. ASSUME NEW x \in 1 .. i PROVE Covered(k, s, x, t)
    <3>1. Covered(h, s, x, now[n]) /\ now[n] \in Int /\ t \in Int /\ now[n] <= t /\ x \in Nat
      BY <1>2, <1>4
    <3>2. QED BY <1>1, <1>11, <1>12, <3>1, CoveredGrows
  <2>4. ASSUME NEW w \in Nat PROVE Remembered(k, n, w, s, t)
    <3>1. CASE w = t
      <4>1. \A x \in 1 .. k.acked[w][n] : Agree(k.led[w], s, x)
        BY <1>2, <1>11, <3>1 DEF Agree
      <4>2. QED BY <4>1 DEF Remembered
    <3>2. CASE w # t
      <4>1. k.acked[w][n] = h.acked[w][n] /\ h.acked[w][n] <= Len(h.led[w])
        BY <1>1, <1>11, <3>2
      <4>2. PICK y \in Int : Remembered(h, n, w, s, y) /\ y <= t /\ t \in Int
        <5>1. Remembered(h, n, w, s, t - 1) /\ t - 1 \in Int /\ t \in Int /\ t - 1 <= t
          BY <1>8
        <5>2. QED BY <5>1
      <4>3. Agree(s, s, Len(s))
        BY <1>2 DEF Agree
      <4>4. h \in History /\ k \in History /\ Grows(h, k)
        BY <1>1, <1>11, <1>12
      <4>5. QED BY <4>1, <4>2, <4>3, <4>4, RememberedGrows
    <3>3. QED BY <3>1, <3>2
  <2>5. QED BY <1>4, <2>1, <2>2, <2>3, <2>4 DEF Follows
<1>14. Leads(k, n, s, t, a, i, [p \in Node |-> 0])
  <2>1. \A v \in Node \ {n} : [p \in Node |-> 0][v] <= k.acked[t][v]
    <3>1. \A v \in Node : k.acked[t][v] \in Nat
      BY <1>12, HistoryFacts
    <3>2. QED BY <3>1
  <2>2. ASSUME i > 0
        PROVE  \E r \in k.done : /\ r.term <= t /\ Covers(k, s, i, r)
                                 /\ \A x \in a + 1 .. r.applied : ~IsChange(s[x])
    <3>0. Covered(h, s, i, now[n])
      <4>1. i \in 1 .. i
        BY <2>2
      <4>2. QED BY <1>4, <4>1
    <3>1. PICK r \in h.done : r.term <= now[n] /\ Covers(h, s, i, r)
      BY <3>0 DEF Covered
    <3>2. r.term \in Nat /\ r.applied \in Nat /\ r.applied < i
      BY <1>1, <3>1, HistoryFacts DEF Decision, Covers
    <3>3. \A x \in a + 1 .. r.applied : ~IsChange(s[x])
      <4>1. \A x \in a + 1 .. r.applied : x \in a + 1 .. i
        BY <3>2
      <4>2. QED BY <4>1
    <3>4. Agree(k.led[r.term], s, i)
      BY <1>1, <1>11, <1>12, <3>1, <3>2, AgreeGrows DEF Covers
    <3>5. r.term <= t
      BY <1>2, <3>1, <3>2
    <3>6. QED BY <1>11, <3>1, <3>3, <3>4, <3>5 DEF Covers
  <2>3. QED BY <1>3, <1>6, <1>11, <2>1, <2>2 DEF Leads
<1>15. QED BY <1>11, <1>12, <1>13, <1>14 DEF Begun

----------------------------------------------------------------------------
\* The history goes on with every step of the cluster.

LEMMA ClusterNow ==
  ASSUME NEW k, HistoryOf(k, currentTerm'),
         \A v \in Node : Follows(k, v, log'[v], currentTerm'[v], conf'[v], applied'[v], commit'[v]),
         \A v \in Node : role'[v] = "LEADER" =>
             Leads(k, v, log'[v], currentTerm'[v], applied'[v], commit'[v], match'[v])
  PROVE  ClusterIn(k)'
BY DEF ClusterIn, NodeIn, LeaderIn

LEMMA ClusterFacts ==
  ASSUME ChangeTyped, NEW h, ClusterIn(h)
  PROVE  /\ h \in History /\ HistoryOf(h, currentTerm) /\ currentTerm \in [Node -> Nat]
         /\ \A t \in Nat, v \in Node : h.acked[t][v] \in Nat /\ h.acked[t][v] <= Len(h.led[t])
         /\ \A v \in Node : Follows(h, v, log[v], currentTerm[v], conf[v], applied[v], commit[v])
         /\ \A v \in Node : role[v] = "LEADER" =>
               Leads(h, v, log[v], currentTerm[v], applied[v], commit[v], match[v])
<1>1. HistoryOf(h, currentTerm) /\ currentTerm \in [Node -> Nat]
  BY DEF ClusterIn, ChangeTyped
<1>2. h \in History
  BY <1>1, HistoryOfFacts
<1>3. \A t \in Nat, v \in Node : h.acked[t][v] \in Nat /\ h.acked[t][v] <= Len(h.led[t])
  BY <1>1, <1>2, HistoryFacts DEF HistoryOf
<1>4. QED BY <1>1, <1>2, <1>3 DEF ClusterIn, NodeIn, LeaderIn

\* Node v takes no part in a step.
Bystander(v) ==
    /\ log'[v] = log[v] /\ conf'[v] = conf[v]
    /\ applied'[v] = applied[v] /\ commit'[v] = commit[v]
    /\ currentTerm'[v] \in Nat /\ currentTerm[v] <= currentTerm'[v]

LEMMA BystanderFollows ==
  ASSUME ChangeTyped, NEW h, ClusterIn(h), NEW k \in History, Grows(h, k), NEW v \in Node,
         Bystander(v), \A t \in Nat : k.acked[t][v] = h.acked[t][v]
  PROVE  Follows(k, v, log'[v], currentTerm'[v], conf'[v], applied'[v], commit'[v])
<1>1. /\ h \in History /\ Follows(h, v, log[v], currentTerm[v], conf[v], applied[v], commit[v])
      /\ \A t \in Nat : k.acked[t][v] = h.acked[t][v] /\ h.acked[t][v] <= Len(h.led[t])
  BY ClusterFacts
<1>2. log[v] \in Seq(Entry) /\ currentTerm[v] \in Nat /\ commit[v] \in Nat /\ commit[v] <= Len(log[v])
  BY NodeFacts
<1>3. Follows(k, v, log[v], currentTerm'[v], conf[v], applied[v], commit[v])
  BY <1>1, <1>2, FollowsGrows DEF Bystander
<1>4. QED BY <1>3 DEF Bystander

\* A leader v that takes no part leads on: no other has its term.
LEMMA BystanderLeads ==
  ASSUME ChangeTyped, match \in [Node -> [Node -> Nat]], NEW h, ClusterIn(h),
         NEW k \in History, Grows(h, k), NEW v \in Node,
         Bystander(v), currentTerm'[v] = currentTerm[v], match'[v] = match[v],
         role[v] = "LEADER",
         k.led[currentTerm[v]] = h.led[currentTerm[v]],
         \A w \in Node : h.acked[currentTerm[v]][w] <= k.acked[currentTerm[v]][w],
         k.acked[currentTerm[v]][v] = h.acked[currentTerm[v]][v]
  PROVE  Leads(k, v, log'[v], currentTerm'[v], applied'[v], commit'[v], match'[v])
<1>1. h \in History /\ Leads(h, v, log[v], currentTerm[v], applied[v], commit[v], match[v])
  BY ClusterFacts
<1>2. /\ log[v] \in Seq(Entry) /\ currentTerm[v] \in Nat /\ commit[v] \in Nat
      /\ applied[v] \in Nat /\ match[v] \in [Node -> Nat]
  BY NodeFacts
<1>3. Leads(k, v, log[v], currentTerm[v], applied[v], commit[v], match[v])
  BY <1>1, <1>2, LeadsGrows
<1>4. QED BY <1>3 DEF Bystander

LEMMA GrowsItself ==
  ASSUME NEW h \in History
  PROVE  Grows(h, h)
<1>1. /\ \A t \in Nat : h.led[t] \in Seq(Entry) /\ Len(h.led[t]) \in Nat
      /\ \A e \in h.won : e.term \in Nat
  BY HistoryFacts DEF Election
<1>2. \A t \in Nat : Agree(h.led[t], h.led[t], Len(h.led[t]))
  BY <1>1 DEF Agree
<1>3. \A e \in h.won : \A i \in 1 .. Len(h.led[e.term]) : ~(Len(h.led[e.term]) < i)
  BY <1>1
<1>4. QED BY <1>2, <1>3 DEF Grows

LEMMA GrowsOn ==
  ASSUME NEW h \in History, NEW k \in History, NEW g \in History, Grows(h, k), Grows(k, g),
         g.led = k.led
  PROVE  Grows(h, g)
BY DEF Grows

\* Leader n, with applied index a, configuration c and progress m, appends d and
\* commits.
LEMMA LeaderSteps ==
  ASSUME ChangeTyped, NEW h, HistoryOf(h, currentTerm), NEW n \in Node,
         NEW a \in Nat, a <= commit[n], NEW c, NEW m \in [Node -> Nat],
         Follows(h, n, log[n], currentTerm[n], c, a, commit[n]),
         Leads(h, n, log[n], currentTerm[n], a, commit[n], m),
         NEW d \in MembershipView,
         MayAppend(log[n], a, [term |-> currentTerm[n], by |-> n, conf |-> d])
  PROVE  LET l == Appended(n, d)
             j == Committed(n, c, l, m)
         IN  \E k \in History :
               /\ HistoryOf(k, currentTerm) /\ Grows(h, k)
               /\ DiffersAt(h, k, currentTerm[n], n)
               /\ Follows(k, n, l, currentTerm[n], c, a, j)
               /\ Leads(k, n, l, currentTerm[n], a, j, m)
<1> DEFINE u == currentTerm[n]
           e == [term |-> u, by |-> n, conf |-> d]
           l == Appended(n, d)
           j == Committed(n, c, l, m)
           g == WithEntry(h, n, u, e)
<1>1. /\ u \in Nat /\ currentTerm \in [Node -> Nat] /\ log[n] \in Seq(Entry)
      /\ commit[n] \in Nat /\ commit[n] <= Len(log[n]) /\ Len(log[n]) \in Nat
  BY NodeFacts DEF ChangeTyped
<1>2. e \in Entry /\ e.term = u /\ e.conf = d
  BY <1>1 DEF Entry
<1>3. l = Append(log[n], e)
  BY DEF Appended
<1>4. MayAppend(log[n], a, e)
  OBVIOUS
<1> HIDE DEF e
<1> HIDE DEF l
<1>5. /\ HistoryOf(g, currentTerm) /\ Grows(h, g)
      /\ DiffersAt(h, g, u, n)
      /\ Follows(g, n, l, u, c, a, commit[n]) /\ Leads(g, n, l, u, a, commit[n], m)
  BY <1>1, <1>2, <1>3, <1>4, LeaderAppends
<1> HIDE DEF g
<1>6. l \in Seq(Entry) /\ commit[n] <= Len(l)
  BY <1>1, <1>2, <1>3, AppendProperties
<1>7. PICK k \in History :
          /\ HistoryOf(k, currentTerm) /\ Grows(g, k) /\ k.led = g.led /\ k.acked = g.acked
          /\ Follows(k, n, l, u, c, a, j) /\ Leads(k, n, l, u, a, j, m)
  BY <1>5, <1>6, LeaderCommits
<1>8. Grows(h, k)
  <2>1. g \in History /\ h \in History
    BY <1>5, HistoryOfFacts
  <2>2. QED BY <1>5, <1>7, <2>1, GrowsOn
<1>9. DiffersAt(h, k, u, n)
  BY <1>5, <1>7 DEF DiffersAt
<1>10. QED BY <1>7, <1>8, <1>9 DEF l

LEMMA ApplyHistory ==
  ASSUME ChangeTyped, match \in [Node -> [Node -> Nat]], NEW h, ClusterIn(h),
         NEW n \in Node, ApplyNext(n)
  PROVE  /\ Follows(h, n, log[n], currentTerm[n], conf'[n], applied'[n], commit[n])
         /\ match' \in [Node -> [Node -> Nat]] /\ \A v \in Node \ {n} : match'[v] = match[v]
         /\ role'[n] = "LEADER" =>
               /\ role[n] = "LEADER"
               /\ Leads(h, n, log[n], currentTerm[n], applied'[n], commit[n], match'[n])
<1> DEFINE a == applied[n]
           s == log[n]
           u == currentTerm[n]
<1>1. /\ a \in Nat /\ commit[n] \in Nat /\ s \in Seq(Entry) /\ Len(s) \in Nat /\ u \in Nat
      /\ commit[n] <= Len(s)
  BY NodeFacts
<1>2. /\ h \in History /\ Follows(h, n, s, u, conf[n], a, commit[n])
      /\ role[n] = "LEADER" => Leads(h, n, s, u, a, commit[n], match[n])
  BY ClusterFacts
<1>3. /\ a + 1 \in 1 .. Len(s) /\ a + 1 <= commit[n] /\ applied'[n] = a + 1
      /\ IF IsChange(s[a + 1])
         THEN /\ conf'[n] = s[a + 1].conf
              /\ role'[n] = IF n \in TransitionVoterIds(conf'[n]) THEN role[n] ELSE "LEARNER"
         ELSE conf'[n] = conf[n] /\ role'[n] = role[n]
  BY ApplyFacts DEF NextEntry
<1>4. conf'[n] = ConfAt(s, a + 1)
  <2>1. CASE IsChange(s[a + 1])
    BY <1>1, <1>3, <2>1, ConfAtChange
  <2>2. CASE ~IsChange(s[a + 1])
    <3>0. a + 1 \in Nat /\ a <= a + 1
      BY <1>1
    <3>1. \A x \in a + 1 .. a + 1 : ~IsChange(s[x])
      BY <1>1, <2>2
    <3>2. ConfAt(s, a + 1) = ConfAt(s, a)
      BY <1>1, <3>0, <3>1, ConfAtNone
    <3>3. QED BY <1>2, <1>3, <2>2, <3>2 DEF Follows
  <2>3. QED BY <2>1, <2>2
<1>5. Follows(h, n, s, u, conf'[n], a + 1, commit[n])
  BY <1>2, <1>4 DEF Follows
<1>6. /\ match' \in [Node -> [Node -> Nat]] /\ \A v \in Node \ {n} : match'[v] = match[v]
      /\ \A p \in Node : match'[n][p] <= match[n][p]
  <2>0. \A p \in Node : match[n][p] \in Nat
    OBVIOUS
  <2>1. CASE IsChange(NextEntry(n))
    <3> DEFINE kept == [p \in Node |-> IF p \in Members(NextEntry(n).conf) THEN match[n][p] ELSE 0]
    <3>1. match' = [match EXCEPT ![n] = kept]
      BY <2>1 DEF ApplyNext, TakeEffect
    <3>2. kept \in [Node -> Nat] /\ \A p \in Node : kept[p] <= match[n][p]
      BY <2>0
    <3> HIDE DEF kept
    <3>3. match'[n] = kept
      BY <3>1
    <3>4. QED BY <3>1, <3>2, <3>3
  <2>2. CASE ~IsChange(NextEntry(n))
    <3>1. match' = match
      BY <2>2 DEF ApplyNext
    <3>2. QED BY <2>0, <3>1
  <2>3. QED BY <2>1, <2>2
<1>7. ASSUME role'[n] = "LEADER"
      PROVE  role[n] = "LEADER" /\ Leads(h, n, s, u, a + 1, commit[n], match'[n])
  <2>1. role[n] = "LEADER" /\ Leads(h, n, s, u, a, commit[n], match[n])
    BY <1>2, <1>3, <1>7
  <2>2. OneChange(s, a + 1, Len(s))
    <3>1. \A x \in a + 1 + 1 .. Len(s) : x \in a + 1 .. Len(s)
      BY <1>1
    <3>2. QED BY <2>1, <3>1 DEF Leads, OneChange
  <2>3. ASSUME NEW v \in Node \ {n} PROVE match'[n][v] <= h.acked[u][v]
    <3>1. match[n][v] <= h.acked[u][v]
      BY <2>1 DEF Leads
    <3>2. match'[n][v] \in Nat /\ match[n][v] \in Nat /\ h.acked[u][v] \in Nat
      BY <1>1, <1>2, <1>6, HistoryFacts
    <3>3. QED BY <1>6, <3>1, <3>2
  <2>4. ASSUME commit[n] > 0
        PROVE  \E r \in h.done : /\ r.term <= u /\ Covers(h, s, commit[n], r)
                                 /\ \A x \in a + 1 + 1 .. r.applied : ~IsChange(s[x])
    <3>1. PICK r \in h.done : /\ r.term <= u /\ Covers(h, s, commit[n], r)
                              /\ \A x \in a + 1 .. r.applied : ~IsChange(s[x])
      BY <2>1, <2>4 DEF Leads
    <3>2. \A x \in a + 1 + 1 .. r.applied : x \in a + 1 .. r.applied
      BY <1>1
    <3>3. QED BY <3>1, <3>2
  <2>5. QED BY <2>1, <2>2, <2>3, <2>4 DEF Leads
<1>8. QED BY <1>3, <1>5, <1>6, <1>7

\* A leader applies, or not, then appends and commits.
LEMMA AppendHistory ==
  ASSUME ChangeTyped, match \in [Node -> [Node -> Nat]], match' \in [Node -> [Node -> Nat]],
         NEW h, ClusterIn(h), NEW n \in Node, role[n] = "LEADER", NEW d \in MembershipView,
         applied'[n] \in Nat, applied'[n] <= commit[n],
         Follows(h, n, log[n], currentTerm[n], conf'[n], applied'[n], commit[n]),
         Leads(h, n, log[n], currentTerm[n], applied'[n], commit[n], match'[n]),
         d # NoMembership => /\ IsSuccessor(conf'[n], d)
                             /\ \A x \in applied'[n] + 1 .. Len(log[n]) : ~IsChange(log[n][x]),
         log'[n] = Appended(n, d),
         commit'[n] = Committed(n, conf'[n], Appended(n, d), match'[n]),
         currentTerm' = currentTerm,
         \A v \in Node \ {n} : /\ log'[v] = log[v] /\ commit'[v] = commit[v]
                               /\ conf'[v] = conf[v] /\ applied'[v] = applied[v]
                               /\ role'[v] = role[v] /\ match'[v] = match[v]
  PROVE  \E k \in History : ClusterIn(k)'
<1> DEFINE u == currentTerm[n]
           s == log[n]
<1>1. h \in History /\ HistoryOf(h, currentTerm) /\ currentTerm \in [Node -> Nat]
  BY ClusterFacts
<1>2. s \in Seq(Entry) /\ Len(s) \in Nat /\ commit[n] \in Nat /\ commit[n] <= Len(s) /\ u \in Nat
      /\ match'[n] \in [Node -> Nat]
  BY NodeFacts
<1> DEFINE e == [term |-> u, by |-> n, conf |-> d]
<1>3. MayAppend(s, applied'[n], e)
  <2> SUFFICES ASSUME d # NoMembership
               PROVE  /\ IsSuccessor(ConfAt(s, Len(s)), d)
                      /\ \A x \in applied'[n] + 1 .. Len(s) : ~IsChange(s[x])
    BY DEF MayAppend, IsChange
  <2>1. \A x \in applied'[n] + 1 .. Len(s) : ~IsChange(s[x])
    OBVIOUS
  <2>2. applied'[n] <= Len(s)
    BY <1>2
  <2>3. ConfAt(s, Len(s)) = ConfAt(s, applied'[n])
    BY <1>2, <2>1, <2>2, ConfAtNone
  <2>4. conf'[n] = ConfAt(s, applied'[n])
    BY DEF Follows
  <2>5. QED BY <2>1, <2>3, <2>4
<1>4. PICK k \in History :
         /\ HistoryOf(k, currentTerm) /\ Grows(h, k) /\ DiffersAt(h, k, u, n)
         /\ Follows(k, n, log'[n], u, conf'[n], applied'[n], commit'[n])
         /\ Leads(k, n, log'[n], u, applied'[n], commit'[n], match'[n])
  <2> DEFINE l == Appended(n, d)
             j == Committed(n, conf'[n], l, match'[n])
  <2>1. \E k \in History :
           /\ HistoryOf(k, currentTerm) /\ Grows(h, k) /\ DiffersAt(h, k, u, n)
           /\ Follows(k, n, l, u, conf'[n], applied'[n], j)
           /\ Leads(k, n, l, u, applied'[n], j, match'[n])
    BY <1>1, <1>2, <1>3, LeaderSteps
  <2>2. log'[n] = l /\ commit'[n] = j
    OBVIOUS
  <2> HIDE DEF l, j
  <2>3. QED BY <2>1, <2>2
<1>5. ASSUME NEW v \in Node \ {n} PROVE Bystander(v)
  <2>1. currentTerm[v] \in Nat
    BY <1>1
  <2>2. QED BY <2>1 DEF Bystander
<1>6. ASSUME NEW v \in Node
      PROVE  Follows(k, v, log'[v], currentTerm'[v], conf'[v], applied'[v], commit'[v])
  <2>1. CASE v = n
    BY <1>4, <2>1
  <2>2. CASE v # n
    <3>1. \A t \in Nat : k.acked[t][v] = h.acked[t][v]
      BY <1>4, <2>2 DEF DiffersAt
    <3>2. QED BY <1>4, <1>5, <2>2, <3>1, BystanderFollows
  <2>3. QED BY <2>1, <2>2
<1>7. ASSUME NEW v \in Node, role'[v] = "LEADER"
      PROVE  Leads(k, v, log'[v], currentTerm'[v], applied'[v], commit'[v], match'[v])
  <2>1. CASE v = n
    BY <1>4, <2>1
  <2>2. CASE v # n
    <3>1. /\ role[v] = "LEADER" /\ currentTerm'[v] = currentTerm[v] /\ match'[v] = match[v]
          /\ currentTerm[v] \in Nat
      BY <1>1, <1>7, <2>2
    <3>2. Leads(h, v, log[v], currentTerm[v], applied[v], commit[v], match[v])
      BY <3>1, ClusterFacts
    <3>3. currentTerm[v] # u
      BY <1>1, <2>2, <3>2, LeadersDiffer
    <3>4. /\ k.led[currentTerm[v]] = h.led[currentTerm[v]]
          /\ \A w \in Node : k.acked[currentTerm[v]][w] = h.acked[currentTerm[v]][w]
      BY <1>4, <3>1, <3>3 DEF DiffersAt
    <3>5. \A w \in Node : h.acked[currentTerm[v]][w] <= k.acked[currentTerm[v]][w]
      <4> SUFFICES ASSUME NEW w \in Node
                   PROVE  h.acked[currentTerm[v]][w] <= k.acked[currentTerm[v]][w]
        OBVIOUS
      <4>1. h.acked[currentTerm[v]][w] \in Nat
        BY <1>1, <3>1, HistoryFacts
      <4>2. k.acked[currentTerm[v]][w] = h.acked[currentTerm[v]][w]
        BY <3>4
      <4>3. \A x, y \in Nat : x = y => y <= x
        OBVIOUS
      <4>4. QED BY <4>1, <4>2, <4>3, Zenon
    <3>6. QED BY <1>4, <1>5, <2>2, <3>1, <3>4, <3>5, BystanderLeads
  <2>3. QED BY <2>1, <2>2
<1>8. HistoryOf(k, currentTerm')
  BY <1>4
<1>9. QED BY <1>6, <1>7, <1>8, ClusterNow

LEMMA ProposeHistory ==
  ASSUME ChangeTyped, match \in [Node -> [Node -> Nat]], NEW h, ClusterIn(h),
         NEW n \in Node, role[n] = "LEADER", NEW d \in MembershipView, AppendAndCommit(n, d),
         UNCHANGED <<role, currentTerm, applied, conf, match>>,
         d # NoMembership => IsSuccessor(conf[n], d) /\ ~HasPendingMembershipChange(n)
  PROVE  \E k \in History : ClusterIn(k)'
<1>1. /\ applied[n] \in Nat /\ commit[n] \in Nat /\ applied[n] <= commit[n] /\ n \in Node
      /\ log \in [Node -> Seq(Entry)] /\ commit \in [Node -> Nat]
  BY NodeFacts DEF ChangeTyped
<1>2. /\ log'[n] = Appended(n, d) /\ commit'[n] = Committed(n, conf[n], Appended(n, d), match[n])
      /\ \A v \in Node \ {n} : log'[v] = log[v] /\ commit'[v] = commit[v]
  BY <1>1 DEF AppendAndCommit
<1>3. /\ Follows(h, n, log[n], currentTerm[n], conf[n], applied[n], commit[n])
      /\ Leads(h, n, log[n], currentTerm[n], applied[n], commit[n], match[n])
  BY ClusterFacts
<1>4. d # NoMembership => /\ IsSuccessor(conf[n], d)
                          /\ \A x \in applied[n] + 1 .. Len(log[n]) : ~IsChange(log[n][x])
  BY DEF HasPendingMembershipChange
<1>5. /\ applied' = applied /\ conf' = conf /\ match' = match /\ role' = role
      /\ currentTerm' = currentTerm
  OBVIOUS
<1>6. QED BY <1>1, <1>2, <1>3, <1>4, <1>5, AppendHistory

LEMMA FinalizeHistory ==
  ASSUME ChangeTyped, match \in [Node -> [Node -> Nat]], NEW h, ClusterIn(h),
         NEW n \in Node, ApplyAndFinalize(n)
  PROVE  \E k \in History : ClusterIn(k)'
<1> DEFINE d == BuildFinalize(conf'[n])
<1>1. ApplyNext(n) /\ role'[n] = "LEADER" /\ CanFinalizeNow(n)
  BY DEF ApplyAndFinalize, Finalizes
<1>2. /\ applied'[n] = applied[n] + 1 /\ applied[n] + 1 <= commit[n] /\ currentTerm' = currentTerm
      /\ \A m \in Node \ {n} : /\ applied'[m] = applied[m] /\ conf'[m] = conf[m]
                               /\ role'[m] = role[m]
  BY <1>1, ApplyFacts
<1>3. /\ Follows(h, n, log[n], currentTerm[n], conf'[n], applied'[n], commit[n])
      /\ match' \in [Node -> [Node -> Nat]] /\ \A v \in Node \ {n} : match'[v] = match[v]
      /\ role[n] = "LEADER"
      /\ Leads(h, n, log[n], currentTerm[n], applied'[n], commit[n], match'[n])
  BY <1>1, ApplyHistory
<1>4. /\ d \in MembershipView /\ IsSuccessor(conf'[n], d)
      /\ log'[n] = Appended(n, d)
      /\ \A m \in Node \ {n} : log'[m] = log[m] /\ commit'[m] = commit[m]
  BY FinalizeFacts
<1>5. \A x \in applied'[n] + 1 .. Len(log[n]) : ~IsChange(log[n][x])
  BY <1>1 DEF CanFinalizeNow
<1>6. commit'[n] = Committed(n, conf'[n], Appended(n, d), match'[n])
  <2>1. commit' = [commit EXCEPT ![n] = Committed(n, conf'[n], Appended(n, d), match'[n])]
    BY DEF ApplyAndFinalize
  <2>2. commit \in [Node -> Nat]
    BY DEF ChangeTyped
  <2>3. QED BY <2>1, <2>2
<1>7. applied'[n] \in Nat /\ applied'[n] <= commit[n]
  BY <1>2, NodeFacts
<1> HIDE DEF d
<1>8. QED BY <1>2, <1>3, <1>4, <1>5, <1>6, <1>7, AppendHistory

LEMMA ApplyOnlyHistory ==
  ASSUME ChangeTyped, match \in [Node -> [Node -> Nat]], NEW h, ClusterIn(h),
         NEW n \in Node, ApplyNext(n), UNCHANGED <<log, commit>>
  PROVE  \E k \in History : ClusterIn(k)'
<1>1. h \in History /\ HistoryOf(h, currentTerm) /\ currentTerm \in [Node -> Nat] /\ Grows(h, h)
  BY ClusterFacts, GrowsItself
<1>2. /\ currentTerm' = currentTerm
      /\ \A m \in Node \ {n} : /\ applied'[m] = applied[m] /\ conf'[m] = conf[m]
                               /\ role'[m] = role[m]
  BY ApplyFacts
<1>3. /\ Follows(h, n, log[n], currentTerm[n], conf'[n], applied'[n], commit[n])
      /\ \A v \in Node \ {n} : match'[v] = match[v]
      /\ role'[n] = "LEADER" =>
            Leads(h, n, log[n], currentTerm[n], applied'[n], commit[n], match'[n])
  BY ApplyHistory
<1>4. ASSUME NEW v \in Node \ {n}
      PROVE  Bystander(v) /\ currentTerm[v] \in Nat
  <2>1. currentTerm[v] \in Nat
    BY <1>1
  <2>2. QED BY <1>2, <2>1 DEF Bystander
<1>5. ASSUME NEW v \in Node
      PROVE  Follows(h, v, log'[v], currentTerm'[v], conf'[v], applied'[v], commit'[v])
  <2>1. CASE v = n
    BY <1>2, <1>3, <2>1
  <2>2. CASE v # n
    <3>1. \A t \in Nat : h.acked[t][v] = h.acked[t][v]
      OBVIOUS
    <3>2. QED BY <1>1, <1>4, <2>2, <3>1, BystanderFollows
  <2>3. QED BY <2>1, <2>2
<1>6. ASSUME NEW v \in Node, role'[v] = "LEADER"
      PROVE  Leads(h, v, log'[v], currentTerm'[v], applied'[v], commit'[v], match'[v])
  <2>1. CASE v = n
    BY <1>2, <1>3, <1>6, <2>1
  <2>2. CASE v # n
    <3>1. role[v] = "LEADER"
      BY <1>2, <1>6, <2>2
    <3>2. Leads(h, v, log[v], currentTerm[v], applied[v], commit[v], match[v])
      BY <3>1, ClusterFacts
    <3>3. QED BY <1>2, <1>3, <2>2, <3>2
  <2>3. QED BY <2>1, <2>2
<1>7. HistoryOf(h, currentTerm')
  BY <1>1, <1>2
<1>8. ClusterIn(h)'
  BY <1>5, <1>6, <1>7, ClusterNow
<1>9. QED BY <1>1, <1>8

LEMMA ReplicateHistory ==
  ASSUME ChangeTyped, match \in [Node -> [Node -> Nat]], NEW h, ClusterIn(h),
         NEW n \in Node, NEW m \in Node, NEW l \in 0 .. Len(log[n]),
         NEW f \in commit[m] .. Larger(commit[m], commit[n]), Replicate(n, m, l, f),
         leaks' = {}
  PROVE  match' \in [Node -> [Node -> Nat]] /\ \E k \in History : ClusterIn(k)'
<1> DEFINE u == currentTerm[n]
           s == log[n]
           r == SubSeq(s, 1, l)
           w == WithAck(h, m, u, Larger(h.acked[u][m], Len(log'[m])))
<1>1. /\ Sent(n, m, l, f) /\ Receive(n, m, l) /\ FollowLeader(n, m)
      /\ UNCHANGED <<role, applied, conf>>
      /\ commit' \in [Node -> Nat] /\ commit'[m] = FollowCommit(m, f)
      /\ commit[n] <= commit'[n] /\ commit'[n] <= Len(s)
      /\ \A k \in Node \ {m, n} : commit'[k] = commit[k]
  BY ReplicateFacts
<1>2. /\ role[n] = "LEADER" /\ m # n /\ role[m] # "LEADER"
      /\ currentTerm' \in [Node -> Nat] /\ currentTerm'[m] = u /\ currentTerm[m] <= u
      /\ log' \in [Node -> Seq(Entry)]
      /\ \A k \in Node \ {m} : log'[k] = log[k] /\ currentTerm'[k] = currentTerm[k]
  BY <1>1, FollowLeaderFacts, ReceiveFacts
<1>3. /\ h \in History /\ HistoryOf(h, currentTerm) /\ currentTerm \in [Node -> Nat]
      /\ Follows(h, n, s, u, conf[n], applied[n], commit[n])
      /\ Leads(h, n, s, u, applied[n], commit[n], match[n])
      /\ Follows(h, m, log[m], currentTerm[m], conf[m], applied[m], commit[m])
  BY <1>2, ClusterFacts
<1>4. /\ s \in Seq(Entry) /\ Len(s) \in Nat /\ u \in Nat /\ log[m] \in Seq(Entry)
      /\ applied[n] \in Nat /\ commit[n] \in Nat /\ applied[n] <= commit[n] /\ commit[n] <= Len(s)
      /\ applied[m] \in Nat /\ commit[m] \in Nat /\ applied[m] <= commit[m]
      /\ commit[m] <= Len(log[m]) /\ match[n] \in [Node -> Nat]
      /\ log'[m] \in Seq(Entry) /\ Len(log'[m]) \in Nat
      /\ l \in Nat /\ l <= Len(s) /\ f \in Nat /\ (f <= commit[m] \/ f <= commit[n])
  <2>1. /\ s \in Seq(Entry) /\ Len(s) \in Nat /\ u \in Nat /\ log[m] \in Seq(Entry)
        /\ applied[n] \in Nat /\ commit[n] \in Nat /\ applied[n] <= commit[n]
        /\ commit[n] <= Len(s) /\ applied[m] \in Nat /\ commit[m] \in Nat
        /\ applied[m] <= commit[m] /\ commit[m] <= Len(log[m]) /\ match[n] \in [Node -> Nat]
    BY NodeFacts, LogFacts
  <2>2. log'[m] \in Seq(Entry) /\ Len(log'[m]) \in Nat
    BY <1>2, LogFacts
  <2>3. l \in Nat /\ l <= Len(s)
    BY <2>1
  <2>4. \A x, v \in Nat : f \in x .. Larger(x, v) => f \in Nat /\ (f <= x \/ f <= v)
    BY DEF Larger
  <2>5. f \in Nat /\ (f <= commit[m] \/ f <= commit[n])
    BY <2>1, <2>4
  <2>6. QED BY <2>1, <2>2, <2>3, <2>5
<1>5. r \in Seq(Entry) /\ Len(r) = l /\ Agree(s, r, l)
  BY <1>4, PrefixFacts DEF Agree
<1>6. /\ Keeps(log[m], r, commit[m])
      /\ log'[m] = MergeEntries(log[m], r)
      /\ currentTerm' = [currentTerm EXCEPT ![m] = u]
  BY <1>1, ReceiveFacts DEF Receive, FollowLeader, Keeps
<1>7. Reached(log'[m], l, u)
  <2>1. ~Unverified(n, l, MergeEntries(log[m], r))
    BY <1>1 DEF Receive
  <2>2. QED BY <1>6, <2>1 DEF Unverified, Reached
<1>8. Carries(s, u, commit[n], l, f, commit[m])
  <2>1. f <= Larger(commit[m], l) /\ (\A x \in l + 1 .. Len(s) : s[x].term = u) /\ OneChange(s, f, l)
    BY <1>1 DEF Sent, OneChange
  <2>2. f <= commit[m] \/ f <= l
    BY <1>4, <2>1 DEF Larger
  <2>3. QED BY <1>4, <2>1, <2>2 DEF Carries
<1>9. commit'[m] = Larger(commit[m], Smaller(f, Len(log'[m])))
  BY <1>1 DEF FollowCommit
<1> HIDE DEF r
<1>10. PICK g : /\ HistoryOf(g, currentTerm') /\ Grows(h, g) /\ g.led = h.led
                /\ DiffersAt(h, g, u, m)
                /\ h.acked[u][m] <= g.acked[u][m] /\ Len(log'[m]) <= g.acked[u][m]
                /\ Follows(g, m, log'[m], u, conf[m], applied[m], commit'[m])
  <2>1. PICK t \in Nat, v \in Nat : t = u /\ v = currentTerm[m] /\ v <= t /\ n # m
    BY <1>2, <1>4, NodeFacts
  <2>2. /\ Sends(h, n, s, t, conf[n], applied[n], commit[n], match[n])
        /\ Takes(h, m, log[m], v, conf[m], applied[m], commit[m])
        /\ Carries(s, t, commit[n], l, f, commit[m])
    BY <1>3, <1>4, <1>8, <2>1 DEF Sends, Takes
  <2>3. PICK q \in Seq(Entry) : q = log'[m]
    BY <1>4
  <2>4. Merged(s, log[m], r, q, l, commit[m], t)
    BY <1>5, <1>6, <1>7, <2>1, <2>3 DEF Merged
  <2>5. PICK next \in [Node -> Nat] : next = currentTerm'
    BY <1>2
  <2>6. /\ Moves(currentTerm, next, m, v, t) /\ HistoryOf(h, currentTerm)
        /\ currentTerm \in [Node -> Nat]
    BY <1>3, <1>6, <2>1, <2>5 DEF Moves
  <2>7. LET x == WithAck(h, m, t, Larger(h.acked[t][m], Len(q)))
        IN  /\ Acknowledged(h, x, next, m, t, Len(q))
            /\ Follows(x, m, q, t, conf[m], applied[m], Larger(commit[m], Smaller(f, Len(q))))
    BY <1>4, <1>5, <2>1, <2>2, <2>4, <2>6, FollowerReceives
  <2>8. /\ Acknowledged(h, w, currentTerm', m, u, Len(log'[m]))
        /\ Follows(w, m, log'[m], u, conf[m], applied[m], commit'[m])
    BY <1>9, <2>1, <2>3, <2>5, <2>7
  <2> HIDE DEF w
  <2>9. QED BY <2>8 DEF Acknowledged
<1>11. g \in History /\ \A t \in Nat, v \in Node : g.acked[t][v] \in Nat /\ g.acked[t][v] <= Len(g.led[t])
  <2>1. g \in History
    BY <1>10, HistoryOfFacts
  <2>2. QED BY <1>10, <2>1, HistoryFacts DEF HistoryOf
<1>12. Follows(g, n, s, u, conf[n], applied[n], commit[n])
  <2>1. \A t \in Nat : g.acked[t][n] = h.acked[t][n] /\ h.acked[t][n] <= Len(h.led[t])
    BY <1>2, <1>10, ClusterFacts DEF DiffersAt
  <2>2. u <= u
    BY <1>4
  <2>3. QED BY <1>3, <1>4, <1>10, <1>11, <2>1, <2>2, FollowsGrows
<1>13. Leads(g, n, s, u, applied[n], commit[n], match[n])
  <2>1. \A v \in Node : h.acked[u][v] <= g.acked[u][v]
    <3> SUFFICES ASSUME NEW v \in Node PROVE h.acked[u][v] <= g.acked[u][v]
      OBVIOUS
    <3>1. CASE v = m
      BY <1>10, <3>1
    <3>2. CASE v # m
      <4>1. g.acked[u][v] = h.acked[u][v]
        BY <1>4, <1>10, <3>2 DEF DiffersAt
      <4>2. g.acked[u][v] \in Nat
        BY <1>4, <1>11
      <4>3. \A x, y \in Nat : x = y => y <= x
        OBVIOUS
      <4>4. QED BY <4>1, <4>2, <4>3, Zenon
    <3>3. QED BY <3>1, <3>2
  <2>2. g.acked[u][n] = h.acked[u][n] /\ g.led[u] = h.led[u]
    BY <1>2, <1>4, <1>10 DEF DiffersAt
  <2>3. QED BY <1>3, <1>4, <1>10, <1>11, <2>1, <2>2, LeadsGrows
<1>14. /\ match' \in [Node -> [Node -> Nat]] /\ \A v \in Node \ {n} : match'[v] = match[v]
       /\ \E k \in History :
             /\ HistoryOf(k, currentTerm') /\ Grows(g, k) /\ k.led = g.led /\ k.acked = g.acked
             /\ Follows(k, n, s, u, conf[n], applied[n], commit'[n])
             /\ Leads(k, n, s, u, applied[n], commit'[n], match'[n])
  <2>1. CASE NoAnswer(n, m, f)
    <3>1. match' = match /\ commit' = [commit EXCEPT ![m] = FollowCommit(m, f)]
      BY <2>1 DEF NoAnswer
    <3>2. commit'[n] = commit[n]
      BY <1>2, <3>1 DEF ChangeTyped
    <3>3. Grows(g, g)
      BY <1>11, GrowsItself
    <3>4. QED BY <1>10, <1>11, <1>12, <1>13, <3>1, <3>2, <3>3
  <2>2. CASE Answer(n, m, f)
    <3> DEFINE matched == IF Len(log'[m]) > Len(s) THEN match[n]
                          ELSE [match[n] EXCEPT ![m] = Larger(@, Len(log'[m]))]
    <3>1. /\ match' = [match EXCEPT ![n] = matched]
          /\ commit' = [commit EXCEPT ![m] = FollowCommit(m, f),
                                      ![n] = Committed(n, conf[n], s, matched)]
      BY <2>2 DEF Answer
    <3>2. match[n][m] \in Nat /\ match[n][m] <= g.acked[u][m] /\ g.acked[u][m] \in Nat
      BY <1>2, <1>4, <1>11, <1>13 DEF Leads
    <3>3. /\ matched \in [Node -> Nat] /\ matched[m] <= g.acked[u][m]
          /\ \A v \in Node \ {m} : matched[v] = match[n][v]
      BY <1>4, <1>10, <3>2 DEF Larger
    <3> HIDE DEF matched
    <3>4. /\ match' \in [Node -> [Node -> Nat]] /\ match'[n] = matched
          /\ \A v \in Node \ {n} : match'[v] = match[v]
      BY <3>1, <3>3
    <3>5. commit'[n] = Committed(n, conf[n], s, matched)
      <4>1. commit \in [Node -> Nat]
        BY DEF ChangeTyped
      <4>2. QED BY <1>2, <3>1, <4>1
    <3>6. Leads(g, n, s, u, applied[n], commit[n], matched)
      <4>1. \A v \in Node \ {n} : matched[v] <= g.acked[u][v]
        <5> SUFFICES ASSUME NEW v \in Node \ {n} PROVE matched[v] <= g.acked[u][v]
          OBVIOUS
        <5>1. CASE v = m
          BY <1>10, <3>3, <5>1
        <5>2. CASE v # m
          BY <1>13, <3>3, <5>2 DEF Leads
        <5>3. QED BY <5>1, <5>2
      <4>2. QED BY <1>13, <4>1 DEF Leads
    <3>7. \E k \in History :
             /\ HistoryOf(k, currentTerm') /\ Grows(g, k) /\ k.led = g.led /\ k.acked = g.acked
             /\ Follows(k, n, s, u, conf[n], applied[n], commit'[n])
             /\ Leads(k, n, s, u, applied[n], commit'[n], matched)
      BY <1>4, <1>10, <1>12, <3>3, <3>5, <3>6, LeaderCommits
    <3>8. QED BY <3>4, <3>7
  <2>3. NoAnswer(n, m, f) \/ Answer(n, m, f)
    BY DEF Replicate
  <2>4. QED BY <2>1, <2>2, <2>3
<1>15. PICK k \in History :
          /\ HistoryOf(k, currentTerm') /\ Grows(g, k) /\ k.led = g.led /\ k.acked = g.acked
          /\ Follows(k, n, s, u, conf[n], applied[n], commit'[n])
          /\ Leads(k, n, s, u, applied[n], commit'[n], match'[n])
  BY <1>14
<1>16. Grows(h, k) /\ k.led = h.led /\ DiffersAt(h, k, u, m)
  BY <1>3, <1>10, <1>11, <1>15, GrowsOn DEF DiffersAt
<1>17. Follows(k, m, log'[m], u, conf[m], applied[m], commit'[m])
  <2>1. \A t \in Nat : k.acked[t][m] = g.acked[t][m] /\ g.acked[t][m] <= Len(g.led[t])
    BY <1>11, <1>15
  <2>2. u <= u /\ commit'[m] \in Nat /\ commit'[m] <= Len(log'[m])
    BY <1>1, <1>4, ReceiveFacts
  <2>3. QED BY <1>4, <1>10, <1>11, <1>15, <2>1, <2>2, FollowsGrows
<1>18. ASSUME NEW v \in Node \ {n, m} PROVE Bystander(v)
  <2>1. currentTerm[v] \in Nat /\ currentTerm'[v] = currentTerm[v] /\ log'[v] = log[v]
    BY <1>2, <1>3
  <2>2. commit'[v] = commit[v] /\ applied' = applied /\ conf' = conf
    BY <1>1
  <2>3. QED BY <2>1, <2>2 DEF Bystander
<1>19. ASSUME NEW v \in Node
       PROVE  Follows(k, v, log'[v], currentTerm'[v], conf'[v], applied'[v], commit'[v])
  <2>1. CASE v = n
    BY <1>1, <1>2, <1>15, <2>1
  <2>2. CASE v = m
    BY <1>1, <1>2, <1>17, <2>2
  <2>3. CASE v \notin {n, m}
    <3>1. \A t \in Nat : k.acked[t][v] = h.acked[t][v]
      BY <1>16, <2>3 DEF DiffersAt
    <3>2. QED BY <1>16, <1>18, <2>3, <3>1, BystanderFollows
  <2>4. QED BY <2>1, <2>2, <2>3
<1>20. ASSUME NEW v \in Node, role'[v] = "LEADER"
       PROVE  Leads(k, v, log'[v], currentTerm'[v], applied'[v], commit'[v], match'[v])
  <2>1. CASE v = n
    BY <1>1, <1>2, <1>15, <2>1
  <2>2. CASE v # n
    <3>1. /\ role[v] = "LEADER" /\ v # m /\ currentTerm'[v] = currentTerm[v]
          /\ match'[v] = match[v] /\ currentTerm[v] \in Nat
      BY <1>1, <1>2, <1>3, <1>14, <1>20, <2>2
    <3>2. Leads(h, v, log[v], currentTerm[v], applied[v], commit[v], match[v])
      BY <3>1, ClusterFacts
    <3>3. currentTerm[v] # u
      BY <1>3, <2>2, <3>2, LeadersDiffer
    <3>4. /\ k.led[currentTerm[v]] = h.led[currentTerm[v]]
          /\ \A z \in Node : k.acked[currentTerm[v]][z] = h.acked[currentTerm[v]][z]
      BY <1>16, <3>1, <3>3 DEF DiffersAt
    <3>5. \A z \in Node : h.acked[currentTerm[v]][z] <= k.acked[currentTerm[v]][z]
      <4> SUFFICES ASSUME NEW z \in Node
                   PROVE  h.acked[currentTerm[v]][z] <= k.acked[currentTerm[v]][z]
        OBVIOUS
      <4>1. h.acked[currentTerm[v]][z] \in Nat
        BY <1>3, <3>1, HistoryFacts
      <4>2. k.acked[currentTerm[v]][z] = h.acked[currentTerm[v]][z]
        BY <3>4
      <4>3. \A x, y \in Nat : x = y => y <= x
        OBVIOUS
      <4>4. QED BY <4>1, <4>2, <4>3, Zenon
    <3>6. QED BY <1>16, <1>18, <2>2, <3>1, <3>4, <3>5, BystanderLeads
  <2>3. QED BY <2>1, <2>2
<1>21. ClusterIn(k)'
  BY <1>15, <1>19, <1>20, ClusterNow
<1>22. QED BY <1>14, <1>21

\* A node takes over a later term and does not lead in it.
LEMMA TermHistory ==
  ASSUME ChangeTyped, match \in [Node -> [Node -> Nat]], NEW h, ClusterIn(h),
         NEW n \in Node, NEW t \in Nat, currentTerm[n] <= t,
         currentTerm' = [currentTerm EXCEPT ![n] = t], role'[n] # "LEADER",
         \A v \in Node \ {n} : role'[v] = role[v],
         UNCHANGED <<log, commit, applied, conf, match>>
  PROVE  \E k \in History : ClusterIn(k)'
<1>1. /\ h \in History /\ HistoryOf(h, currentTerm) /\ currentTerm \in [Node -> Nat] /\ Grows(h, h)
  BY ClusterFacts, GrowsItself
<1>2. /\ currentTerm' \in [Node -> Nat] /\ currentTerm'[n] = t
      /\ \A v \in Node \ {n} : currentTerm'[v] = currentTerm[v]
  BY <1>1
<1>3. ASSUME NEW v \in Node
      PROVE  Bystander(v) /\ currentTerm[v] <= currentTerm'[v]
  <2>1. currentTerm[v] \in Nat /\ currentTerm'[v] \in Nat
    BY <1>1, <1>2
  <2>2. currentTerm[v] <= currentTerm'[v]
    <3>1. CASE v = n
      BY <1>2, <3>1
    <3>2. CASE v # n
      BY <1>2, <2>1, <3>2
    <3>3. QED BY <3>1, <3>2
  <2>3. QED BY <2>1, <2>2 DEF Bystander
<1>4. HistoryOf(h, currentTerm')
  <2>1. /\ \A w \in Nat : Sound(h.led, h.led[w])
        /\ \A w \in Nat : h.led[w] # << >> => \E e \in h.won : e.term = w
    BY <1>1 DEF HistoryOf
  <2>2. Advances(h, h, currentTerm')
    BY <2>1 DEF Advances
  <2>3. QED BY <1>1, <1>2, <1>3, <2>2, HistoryGrows
<1>5. ASSUME NEW v \in Node
      PROVE  Follows(h, v, log'[v], currentTerm'[v], conf'[v], applied'[v], commit'[v])
  <2>1. \A w \in Nat : h.acked[w][v] = h.acked[w][v]
    OBVIOUS
  <2>2. QED BY <1>1, <1>3, <2>1, BystanderFollows
<1>6. ASSUME NEW v \in Node, role'[v] = "LEADER"
      PROVE  Leads(h, v, log'[v], currentTerm'[v], applied'[v], commit'[v], match'[v])
  <2>1. v # n /\ role[v] = "LEADER" /\ currentTerm'[v] = currentTerm[v]
    BY <1>2, <1>6
  <2>2. Leads(h, v, log[v], currentTerm[v], applied[v], commit[v], match[v])
    BY <2>1, ClusterFacts
  <2>3. QED BY <2>1, <2>2
<1>7. ClusterIn(h)'
  BY <1>4, <1>5, <1>6, ClusterNow
<1>8. QED BY <1>1, <1>7

LEMMA ElectHistory ==
  ASSUME ChangeTyped, match \in [Node -> [Node -> Nat]], NEW h, ClusterIn(h),
         NEW n \in Node, NEW q \in SUBSET Node, NEW t \in 1 .. MaxTerm, Elect(n, q, t), leaks' = {}
  PROVE  match' \in [Node -> [Node -> Nat]] /\ \E k \in History : ClusterIn(k)'
<1>1. /\ h \in History /\ HistoryOf(h, currentTerm) /\ currentTerm \in [Node -> Nat]
      /\ log \in [Node -> Seq(Entry)] /\ t \in Nat
      /\ \A v \in Node : Follows(h, v, log[v], currentTerm[v], conf[v], applied[v], commit[v])
  BY ClusterFacts, InitialAssumption DEF ChangeTyped
<1>2. /\ n \in q /\ HasQuorum(conf[n], q)
      /\ \A v \in q : currentTerm[v] < t /\ IsCandidateLogUpToDate(log[v], log[n])
      /\ role' = [v \in Node |-> IF v = n THEN "LEADER"
                                 ELSE IF v \in q THEN "FOLLOWER" ELSE role[v]]
      /\ currentTerm' = [v \in Node |-> IF v \in q THEN t ELSE currentTerm[v]]
      /\ match' = [match EXCEPT ![n] = [p \in Node |-> 0]]
      /\ \A x \in applied[n] + 1 .. commit[n] : ~IsChange(log[n][x])
      /\ UNCHANGED <<log, commit, applied, conf>>
  BY DEF Elect, Grants
<1>3. /\ currentTerm' \in [Node -> Nat]
      /\ \A v \in q : currentTerm'[v] = t
      /\ \A v \in Node \ q : currentTerm'[v] = currentTerm[v]
      /\ \A v \in q : ~(t <= currentTerm[v])
      /\ match' \in [Node -> [Node -> Nat]] /\ match'[n] = [p \in Node |-> 0]
      /\ \A v \in Node \ {n} : match'[v] = match[v]
  BY <1>1, <1>2
<1>4. /\ applied[n] \in Nat /\ commit[n] \in Nat /\ applied[n] <= commit[n]
      /\ commit[n] <= Len(log[n]) /\ log[n] \in Seq(Entry)
  BY NodeFacts
<1>5. \A v \in q : /\ Sound(h.led, log[v]) /\ IsCandidateLogUpToDate(log[v], log[n])
                   /\ \A w \in Nat : Remembered(h, v, w, log[v], currentTerm[v])
  BY <1>1, <1>2 DEF Follows
<1>6. PICK k \in History :
         /\ HistoryOf(k, currentTerm') /\ Grows(h, k)
         /\ \A w \in Nat, v \in Node : w # t \/ v # n => k.acked[w][v] = h.acked[w][v]
         /\ \A w \in Nat \ {t} : k.led[w] = h.led[w]
         /\ Follows(k, n, log[n], t, conf[n], applied[n], commit[n])
         /\ Leads(k, n, log[n], t, applied[n], commit[n], [p \in Node |-> 0])
  <2>1. Enter(currentTerm, currentTerm', q, t)
    BY <1>3 DEF Enter
  <2>2. Stands(h, currentTerm, n, log[n], conf[n], applied[n], commit[n])
    BY <1>1, <1>2, <1>4 DEF Stands
  <2>3. Vote(h, currentTerm, q, log, log[n])
    BY <1>5 DEF Vote
  <2>4. \E k \in History : /\ Begun(h, k, currentTerm', n, t)
                          /\ Follows(k, n, log[n], t, conf[n], applied[n], commit[n])
                          /\ Leads(k, n, log[n], t, applied[n], commit[n], [p \in Node |-> 0])
    BY <1>1, <1>2, <1>3, <1>4, <2>1, <2>2, <2>3, NewLeader
  <2>5. QED BY <2>4 DEF Begun
<1>7. ASSUME NEW v \in Node \ {n}
      PROVE  Bystander(v)
  <2>1. currentTerm[v] \in Nat /\ currentTerm'[v] \in Nat
    BY <1>1, <1>3
  <2>2. CASE v \in q
    BY <1>2, <1>3, <2>1, <2>2 DEF Bystander
  <2>3. CASE v \notin q
    BY <1>2, <1>3, <2>1, <2>3 DEF Bystander
  <2>4. QED BY <2>2, <2>3
<1>8. ASSUME NEW v \in Node
      PROVE  Follows(k, v, log'[v], currentTerm'[v], conf'[v], applied'[v], commit'[v])
  <2>1. CASE v = n
    BY <1>2, <1>3, <1>6, <2>1
  <2>2. CASE v # n
    <3>1. \A w \in Nat : k.acked[w][v] = h.acked[w][v]
      BY <1>6, <2>2
    <3>2. QED BY <1>6, <1>7, <2>2, <3>1, BystanderFollows
  <2>3. QED BY <2>1, <2>2
<1>9. ASSUME NEW v \in Node, role'[v] = "LEADER"
      PROVE  Leads(k, v, log'[v], currentTerm'[v], applied'[v], commit'[v], match'[v])
  <2>1. CASE v = n
    BY <1>2, <1>3, <1>6, <2>1
  <2>2. CASE v # n
    <3> DEFINE u == currentTerm[v]
    <3>1. v \notin q /\ role[v] = "LEADER"
      BY <1>2, <1>9, <2>2
    <3>2. Leads(h, v, log[v], u, applied[v], commit[v], match[v])
      BY <3>1, ClusterFacts
    <3>3. u # t
      <4>1. PICK e \in h.won : e.term = u /\ e.node = v
        BY <3>2 DEF Leads
      <4>2. PICK f \in k.won : f.term = t /\ f.node = n
        BY <1>6 DEF Leads
      <4>3. e \in k.won /\ \A x, y \in k.won : x.term = y.term => x = y
        BY <1>6 DEF Grows, HistoryOf
      <4>4. QED BY <2>2, <4>1, <4>2, <4>3
    <3>4. u \in Nat /\ currentTerm'[v] = u /\ match'[v] = match[v]
      BY <1>1, <1>3, <2>2, <3>1
    <3>5. k.led[u] = h.led[u] /\ \A w \in Node : k.acked[u][w] = h.acked[u][w]
      BY <1>6, <3>3, <3>4
    <3>6. \A w \in Node : h.acked[u][w] <= k.acked[u][w]
      <4> SUFFICES ASSUME NEW w \in Node PROVE h.acked[u][w] <= k.acked[u][w]
        OBVIOUS
      <4>1. h.acked[u][w] \in Nat
        BY <1>1, <3>4, HistoryFacts
      <4>2. k.acked[u][w] = h.acked[u][w]
        BY <3>5
      <4>3. \A x, y \in Nat : x = y => y <= x
        OBVIOUS
      <4>4. QED BY <4>1, <4>2, <4>3, Zenon
    <3>7. QED BY <1>6, <1>7, <2>2, <3>1, <3>4, <3>5, <3>6, BystanderLeads
  <2>3. QED BY <2>1, <2>2
<1>10. ClusterIn(k)'
  BY <1>6, <1>8, <1>9, ClusterNow
<1>11. QED BY <1>3, <1>10

LEMMA FirstHistory == Init => HasHistory
<1> SUFFICES ASSUME Init PROVE HasHistory
  OBVIOUS
<1> DEFINE led == [t \in Nat |-> << >>]
           acked == [t \in Nat |-> [v \in Node |-> 0]]
           h == [led |-> led, won |-> {}, acked |-> acked, done |-> {}]
           c == Stable(1, Voters, Learners)
<1>1. /\ h \in History /\ h.won = {} /\ h.done = {}
      /\ \A t \in Nat : h.led[t] = << >>
      /\ \A t \in Nat, v \in Node : h.acked[t][v] = 0
  <2>1. led \in [Nat -> Seq(Entry)] /\ acked \in [Nat -> [Node -> Nat]]
    BY EmptySeq
  <2>2. (\A t \in Nat : led[t] = << >>) /\ \A t \in Nat, v \in Node : acked[t][v] = 0
    OBVIOUS
  <2> HIDE DEF led, acked
  <2>3. QED BY <2>1, <2>2 DEF History
<1> HIDE DEF h
<1>2. << >> \in Seq(Entry) /\ Len(<< >>) = 0
  BY EmptySeq
<1>3. Sound(h.led, << >>)
  <2>1. 1 .. Len(<< >>) = {}
    BY <1>2
  <2>2. QED BY <2>1 DEF Sound, Traced, Sorted, Legal
<1>4. HistoryOf(h, currentTerm)
  <2>1. \A t \in Nat : Sound(h.led, h.led[t])
    BY <1>1, <1>3
  <2>2. \A t \in Nat, v \in Node : /\ h.acked[t][v] <= Len(h.led[t])
                                   /\ ~(h.acked[t][v] > 0)
    BY <1>1, <1>2
  <2>3. Complete(h)
    BY <1>1 DEF Complete
  <2>4. QED BY <1>1, <2>1, <2>2, <2>3 DEF HistoryOf
<1>5. c = ConfAt(<< >>, 0)
  <2>1. {k \in 1 .. 0 : IsChange((<< >>)[k])} = {}
    OBVIOUS
  <2>2. QED BY <2>1 DEF ConfAt
<1>6. ASSUME NEW n \in Node
      PROVE  Follows(h, n, << >>, 0, c, 0, 0)
  <2>1. \A x \in 1 .. Len(<< >>) : (<< >>)[x].term <= 0
    BY <1>2
  <2>2. OneChange(<< >>, 0, Len(<< >>))
    BY <1>2 DEF OneChange
  <2>3. \A x \in 1 .. 0 : Covered(h, << >>, x, 0)
    OBVIOUS
  <2>4. \A t \in Nat : Remembered(h, n, t, << >>, 0)
    BY <1>1 DEF Remembered
  <2>5. QED BY <1>3, <1>5, <2>1, <2>2, <2>3, <2>4 DEF Follows
<1>7. \A n \in Node : role[n] # "LEADER"
  BY DEF Init
<1>8. \A n \in Node : log[n] = << >> /\ currentTerm[n] = 0 /\ conf[n] = c /\ applied[n] = 0 /\ commit[n] = 0
  BY DEF Init
<1>9. ClusterIn(h)
  BY <1>4, <1>6, <1>7, <1>8 DEF ClusterIn, NodeIn
<1>10. match \in [Node -> [Node -> Nat]]
  BY DEF Init
<1>11. QED BY <1>1, <1>9, <1>10 DEF HasHistory

\* One step, while there is no leak.
LEMMA HistoryStep ==
  ASSUME ChangeTyped, HasHistory, [Next]_vars, leaks' = {}
  PROVE  HasHistory'
<1>1. match \in [Node -> [Node -> Nat]]
  BY DEF HasHistory
<1>2. PICK h \in History : ClusterIn(h)
  BY DEF HasHistory
<1> DEFINE Goal == match' \in [Node -> [Node -> Nat]] /\ \E k \in History : ClusterIn(k)'
<1> SUFFICES Goal
  BY DEF HasHistory
<1>3. CASE UNCHANGED vars
  <2>1. ClusterIn(h)'
    BY <1>2, <1>3 DEF vars, coreVars, ClusterIn, NodeIn, LeaderIn
  <2>2. QED BY <1>1, <1>2, <1>3, <2>1 DEF vars, coreVars
<1>4. ASSUME NEW n \in Node, Propose(n) PROVE Goal
  <2>1. /\ AppendAndCommit(n, NoMembership) /\ role[n] = "LEADER"
        /\ UNCHANGED <<role, currentTerm, applied, conf, match>>
    BY <1>4 DEF Propose
  <2>2. \E k \in History : ClusterIn(k)'
    BY <1>1, <1>2, <2>1, NoneIsView, ProposeHistory
  <2>3. QED BY <1>1, <2>1, <2>2
<1>5. ASSUME NEW n \in Node, ApplyNext(n), UNCHANGED <<log, commit>> PROVE Goal
  <2>1. match' \in [Node -> [Node -> Nat]]
    BY <1>1, <1>2, <1>5, ApplyHistory
  <2>2. \E k \in History : ClusterIn(k)'
    BY <1>1, <1>2, <1>5, ApplyOnlyHistory
  <2>3. QED BY <2>1, <2>2
<1>6. ASSUME NEW n \in Node, ApplyAndFinalize(n) PROVE Goal
  <2>1. match' \in [Node -> [Node -> Nat]]
    BY <1>1, <1>2, <1>6, ApplyHistory DEF ApplyAndFinalize
  <2>2. \E k \in History : ClusterIn(k)'
    BY <1>1, <1>2, <1>6, FinalizeHistory
  <2>3. QED BY <2>1, <2>2
<1>7. ASSUME NEW n \in Node, NEW d \in MembershipView, NEW phases, MayRequestChange(n),
             Request(n, d, phases), IsSuccessor(conf[n], d)
      PROVE  Goal
  <2>1. /\ AppendAndCommit(n, d) /\ UNCHANGED <<role, currentTerm, applied, conf, match>>
        /\ role[n] = "LEADER" /\ ~HasPendingMembershipChange(n)
    BY <1>7 DEF Request, MayRequestChange
  <2>2. \E k \in History : ClusterIn(k)'
    BY <1>1, <1>2, <1>7, <2>1, ProposeHistory
  <2>3. QED BY <1>1, <2>1, <2>2
<1>8. ASSUME NEW n \in Node, NEW p \in Node, AddLearner(n, p) \/ PromoteLearner(n, p) \/ RemoveMember(n, p)
      PROVE  Goal
  <2>1. CASE AddLearner(n, p)
    <3>1. /\ CanAddLearner(conf[n], p) /\ MayRequestChange(n)
          /\ Request(n, BuildAddLearner(conf[n], p), 1)
      BY <2>1 DEF AddLearner
    <3>2. IsSuccessor(conf[n], BuildAddLearner(conf[n], p))
      BY <3>1 DEF IsSuccessor
    <3>3. BuildAddLearner(conf[n], p) \in MembershipView
      BY <3>1, BuiltIsView
    <3> HIDE DEF Goal
    <3>4. QED BY <1>7, <3>1, <3>2, <3>3
  <2>2. CASE PromoteLearner(n, p)
    <3>1. /\ CanPromoteLearner(conf[n], p) /\ MayRequestChange(n)
          /\ Request(n, BuildPromoteLearner(conf[n], p), 2)
      BY <2>2 DEF PromoteLearner
    <3>2. IsSuccessor(conf[n], BuildPromoteLearner(conf[n], p))
      BY <3>1 DEF IsSuccessor
    <3>3. BuildPromoteLearner(conf[n], p) \in MembershipView
      BY <3>1, BuiltIsView
    <3> HIDE DEF Goal
    <3>4. QED BY <1>7, <3>1, <3>2, <3>3
  <2>3. CASE RemoveMember(n, p)
    <3>1. /\ CanRemoveMember(conf[n], p) /\ MayRequestChange(n)
          /\ Request(n, BuildRemoveMember(conf[n], p), 2)
      BY <2>3 DEF RemoveMember
    <3>2. IsSuccessor(conf[n], BuildRemoveMember(conf[n], p))
      BY <3>1 DEF IsSuccessor
    <3>3. BuildRemoveMember(conf[n], p) \in MembershipView
      BY <3>1, BuiltIsView
    <3> HIDE DEF Goal
    <3>4. QED BY <1>7, <3>1, <3>2, <3>3
  <2>4. QED BY <1>8, <2>1, <2>2, <2>3
<1>9. ASSUME NEW n \in Node, NEW m \in Node, NEW l \in 0 .. Len(log[n]),
             NEW f \in commit[m] .. Larger(commit[m], commit[n]), Replicate(n, m, l, f)
      PROVE  Goal
  BY <1>1, <1>2, <1>9, ReplicateHistory
<1>10. ASSUME NEW n \in Node, NEW m \in Node, StepDown(n, m) PROVE Goal
  <2>1. /\ currentTerm[m] \in Nat /\ currentTerm[n] \in Nat /\ currentTerm[n] <= currentTerm[m]
        /\ currentTerm' = [currentTerm EXCEPT ![n] = currentTerm[m]]
        /\ UNCHANGED <<log, commit, applied, conf, match>>
    BY <1>10, NodeFacts DEF StepDown
  <2>2. role'[n] # "LEADER" /\ \A v \in Node \ {n} : role'[v] = role[v]
    BY <1>10 DEF StepDown, ChangeTyped
  <2>3. \E k \in History : ClusterIn(k)'
    BY <1>1, <1>2, <2>1, <2>2, TermHistory
  <2>4. QED BY <1>1, <2>1, <2>3
<1>11. ASSUME NEW n \in Node, NEW m \in Node, Mismatch(n, m) PROVE Goal
  <2>1. /\ currentTerm[n] \in Nat /\ currentTerm[m] <= currentTerm[n]
        /\ currentTerm' = [currentTerm EXCEPT ![m] = currentTerm[n]]
        /\ UNCHANGED <<role, log, commit, applied, conf, match>>
    BY <1>11, NodeFacts DEF Mismatch, FollowLeader
  <2>2. role'[m] # "LEADER" /\ \A v \in Node \ {m} : role'[v] = role[v]
    BY <1>11 DEF Mismatch, FollowLeader
  <2>3. \E k \in History : ClusterIn(k)'
    BY <1>1, <1>2, <2>1, <2>2, TermHistory
  <2>4. QED BY <1>1, <2>1, <2>3
<1>12. \A n, m \in Node : ~Usurp(n, m)
  BY DEF Usurp
<1>13. ASSUME NEW n \in Node, NEW q \in SUBSET Node, NEW t \in 1 .. MaxTerm, Elect(n, q, t)
       PROVE  Goal
  BY <1>1, <1>2, <1>13, ElectHistory
<1>14. ASSUME NEW n \in Node, ApplyUnwatched(n) \/ ApplyAndReport(n) \/ ApplyAndFail(n)
       PROVE  Goal
  <2>1. ApplyNext(n) /\ UNCHANGED <<log, commit>>
    BY <1>14 DEF ApplyUnwatched, ApplyAndReport, ApplyAndFail
  <2> HIDE DEF Goal
  <2>2. QED BY <1>5, <2>1
<1> HIDE DEF Goal
<1>15. CASE Next
  BY <1>4, <1>6, <1>8, <1>9, <1>10, <1>11, <1>12, <1>13, <1>14, <1>15 DEF Next
<1>16. QED BY <1>3, <1>15

\* A leak is never forgotten.
LEMMA LeaksStay == [Next]_vars /\ leaks' = {} => leaks = {}
<1> SUFFICES ASSUME [Next]_vars, leaks' = {} PROVE leaks = {}
  OBVIOUS
<1>1. ASSUME NEW n \in Node, ApplyNext(n) PROVE leaks' = leaks
  BY <1>1 DEF ApplyNext
<1>2. ASSUME NEW n \in Node, NEW d, NEW phases, Request(n, d, phases) PROVE leaks' = leaks
  BY <1>2 DEF Request
<1>3. ASSUME NEW n \in Node, NEW q, NEW t, Elect(n, q, t) PROVE leaks = {}
  BY <1>3 DEF Elect
<1>4. ASSUME NEW n \in Node, NEW m \in Node, NEW k, NEW i, Replicate(n, m, k, i) PROVE leaks = {}
  BY <1>4 DEF Replicate, Receive
<1>5. ASSUME NEW n \in Node, NEW m \in Node, Usurp(n, m) PROVE FALSE
  BY <1>5 DEF Usurp
<1>6. CASE Next
  BY <1>1, <1>2, <1>3, <1>4, <1>5, <1>6 DEF Next, Propose, ApplyUnwatched, ApplyAndFinalize,
     ApplyAndReport, ApplyAndFail, AddLearner, PromoteLearner, RemoveMember, Mismatch, StepDown
<1>7. CASE UNCHANGED vars
  BY <1>7 DEF vars
<1>8. QED BY <1>6, <1>7

----------------------------------------------------------------------------
\* Until one of the three leaks, the elections and commits of all leaders, in
\* whatever configurations, make up a history the whole cluster agrees with.
THEOREM ClusterHasHistory == Spec => []ChangeInductive
<1>1. Init => ChangeInductive
  BY ChangeTypedInit, FirstHistory DEF ChangeInductive
<1>2. ChangeInductive /\ [Next]_vars => ChangeInductive'
  BY ChangeTypedStep, LeaksStay, HistoryStep DEF ChangeInductive
<1>3. QED BY <1>1, <1>2, PTL DEF Spec

\* What the majorities of one configuration are worth in the next.
LEMMA MoreIsMajority ==
  ASSUME NEW V \in SUBSET Node, NEW q, NEW r, IsMajorityOf(q, V), q \cap V \subseteq r
  PROVE  IsMajorityOf(r, V)
<1>1. IsFiniteSet(V) /\ IsFiniteSet(r \cap V) /\ q \cap V \subseteq r \cap V
  BY NodeAssumption, FS_Subset
<1>2. /\ Cardinality(q \cap V) <= Cardinality(r \cap V)
      /\ Cardinality(q \cap V) \in Nat /\ Cardinality(r \cap V) \in Nat /\ Cardinality(V) \in Nat
  BY <1>1, FS_Subset, FS_CardinalityType
<1>3. Cardinality(q \cap V) >= Cardinality(V) \div 2 + 1
  BY DEF IsMajorityOf
<1>4. Cardinality(V) \div 2 \in Nat
  BY <1>2
<1>5. Cardinality(r \cap V) >= Cardinality(V) \div 2 + 1
  BY <1>2, <1>3, <1>4
<1>6. QED BY <1>5 DEF IsMajorityOf

LEMMA AllAreMajority ==
  ASSUME NEW V \in SUBSET Node, V # {}
  PROVE  IsMajorityOf(V, V)
<1>1. IsFiniteSet(V) /\ Cardinality(V) \in Nat /\ Cardinality(V) # 0 /\ V \cap V = V
  BY NodeAssumption, FS_Subset, FS_CardinalityType, FS_EmptySet
<1>2. \A x \in Nat : x # 0 => x >= x \div 2 + 1
  BY SMT
<1>3. Cardinality(V) >= Cardinality(V) \div 2 + 1
  BY <1>1, <1>2
<1>4. QED BY <1>1, <1>3 DEF IsMajorityOf

LEMMA QuorumOfStable ==
  ASSUME NEW c \in MembershipView, NEW d \in MembershipView, Near(c, d), ~d.active,
         NEW q, HasQuorum(c, q)
  PROVE  IsMajorityOf(q, d.voters)
<1>1. /\ IsMajorityOf(q, c.voters)
      /\ c.active => IsMajorityOf(q, c.nextVoters)
  BY DEF HasQuorum
<1>2. CASE c = d
  BY <1>1, <1>2
<1>3. CASE IsSuccessor(c, d)
  <2>1. CASE \E n \in Node : CanAddLearner(c, n) /\ d = BuildAddLearner(c, n)
    BY <1>1, <2>1 DEF BuildAddLearner, Stable
  <2>2. CASE \E n \in Node : CanPromoteLearner(c, n) /\ d = BuildPromoteLearner(c, n)
    BY <2>2 DEF BuildPromoteLearner, Transition
  <2>3. CASE \E n \in Node : CanRemoveMember(c, n) /\ d = BuildRemoveMember(c, n)
    BY <1>1, <2>3 DEF BuildRemoveMember, Transition, Stable
  <2>4. CASE CanFinalize(c) /\ d = BuildFinalize(c)
    BY <1>1, <2>4 DEF CanFinalize, BuildFinalize, Stable
  <2>5. QED BY <1>3, <2>1, <2>2, <2>3, <2>4 DEF IsSuccessor
<1>4. QED BY <1>2, <1>3 DEF Near

\* Logs that agree have their first entries in common.
LEMMA PrefixOf ==
  ASSUME NEW s \in Seq(Entry), NEW r \in Seq(Entry), NEW i \in Nat, NEW k \in Nat,
         i <= k, k <= Len(r), Agree(s, r, i)
  PROVE  IsPrefix(SubSeq(s, 1, i), SubSeq(r, 1, k))
<1> DEFINE x == SubSeq(s, 1, i)
           y == SubSeq(r, 1, k)
<1>1. Len(s) \in Nat /\ Len(r) \in Nat /\ i <= Len(s) /\ i <= Len(r) /\ \A z \in 1 .. i : s[z] = r[z]
  BY LogFacts DEF Agree
<1>2. x \in Seq(Entry) /\ Len(x) = i /\ \A z \in 1 .. i : x[z] = s[z]
  <2>1. 1 \in 1 .. Len(s) + 1 /\ i \in 1 - 1 .. Len(s)
    BY <1>1
  <2>2. QED BY <1>1, <2>1, SubSeqProperties
<1>3. y \in Seq(Entry) /\ Len(y) = k /\ \A z \in 1 .. k : y[z] = r[z]
  <2>1. 1 \in 1 .. Len(r) + 1 /\ k \in 1 - 1 .. Len(r)
    BY <1>1
  <2>2. QED BY <1>1, <2>1, SubSeqProperties
<1> HIDE DEF x, y
<1>4. /\ SubSeq(x, 1, i) \in Seq(Entry) /\ Len(SubSeq(x, 1, i)) = i
      /\ \A z \in 1 .. i : SubSeq(x, 1, i)[z] = x[z]
  <2>1. 1 \in 1 .. Len(x) + 1 /\ i \in 1 - 1 .. Len(x)
    BY <1>2
  <2>2. QED BY <1>2, <2>1, SubSeqProperties
<1>5. /\ SubSeq(y, 1, i) \in Seq(Entry) /\ Len(SubSeq(y, 1, i)) = i
      /\ \A z \in 1 .. i : SubSeq(y, 1, i)[z] = y[z]
  <2>1. 1 \in 1 .. Len(y) + 1 /\ i \in 1 - 1 .. Len(y)
    BY <1>3
  <2>2. QED BY <1>3, <2>1, SubSeqProperties
<1>6. \A z \in 1 .. i : SubSeq(x, 1, i)[z] = SubSeq(y, 1, i)[z]
  BY <1>1, <1>2, <1>3, <1>4, <1>5
<1>7. SubSeq(x, 1, i) = SubSeq(y, 1, i)
  BY <1>4, <1>5, <1>6, SeqEqual
<1>8. IsPrefix(x, y)
  BY <1>2, <1>3, <1>7 DEF IsPrefix
<1>9. QED BY <1>8 DEF x, y

LEMMA PrefixOfLog ==
  ASSUME NEW s \in Seq(Entry), NEW r \in Seq(Entry), NEW i \in Nat, Agree(s, r, i)
  PROVE  IsPrefix(SubSeq(s, 1, i), r)
<1>1. Len(r) \in Nat /\ i <= Len(r) /\ Len(r) <= Len(r)
  BY LogFacts DEF Agree
<1>2. SubSeq(r, 1, Len(r)) = r
  <2>1. 1 \in 1 .. Len(r) + 1 /\ Len(r) \in 1 - 1 .. Len(r)
    BY <1>1
  <2>2. /\ SubSeq(r, 1, Len(r)) \in Seq(Entry) /\ Len(SubSeq(r, 1, Len(r))) = Len(r)
        /\ \A z \in 1 .. Len(r) : SubSeq(r, 1, Len(r))[z] = r[z]
    BY <1>1, <2>1, SubSeqProperties
  <2>3. QED BY <2>2, SeqEqual
<1>3. PICK k \in Nat : k = Len(r)
  BY <1>1
<1>4. IsPrefix(SubSeq(s, 1, i), SubSeq(r, 1, k))
  BY <1>1, <1>3, PrefixOf
<1>5. QED BY <1>2, <1>3, <1>4

----------------------------------------------------------------------------
\* Every change in a log is a legal one of what precedes it there, whichever
\* leaders appended them and however far behind each of them was with applying
\* (HasPendingMembershipChange), until a leak: a node is elected with a committed
\* change unapplied, a leader adopts a later term (HandleAppendEntries), or a node
\* answers for entries that no request has verified.
THEOREM ChangesFollow == Spec => []ChangesFollowUnlessLeak
<1>1. ChangeInductive => ChangesFollowUnlessLeak
  <2> SUFFICES ASSUME ChangeInductive, leaks = {}, NEW n \in Node, NEW i \in DOMAIN log[n],
                      IsChange(log[n][i])
               PROVE  IsSuccessor(ConfAt(log[n], i - 1), log[n][i].conf)
    BY DEF ChangesFollowUnlessLeak
  <2>1. PICK h \in History : ClusterIn(h)
    BY DEF ChangeInductive, HasHistory
  <2>2. Legal(log[n])
    BY <2>1 DEF ClusterIn, NodeIn, Follows, Sound
  <2>3. log[n] \in Seq(Entry) /\ DOMAIN log[n] = 1 .. Len(log[n])
    BY LenProperties DEF ChangeInductive, ChangeTyped
  <2>4. QED BY <2>2, <2>3 DEF Legal
<1>2. QED BY <1>1, ClusterHasHistory, PTL

LEMMA CommittedAgree ==
  ASSUME ChangeTyped, NEW h, ClusterIn(h), NEW a \in Node, NEW b \in Node, commit[a] <= commit[b]
  PROVE  Agree(log[a], log[b], commit[a])
<1> DEFINE i == commit[a]
           j == commit[b]
<1>1. /\ i \in Nat /\ j \in Nat /\ i <= j /\ i <= Len(log[a]) /\ j <= Len(log[b])
      /\ log[a] \in Seq(Entry) /\ log[b] \in Seq(Entry) /\ Len(log[b]) \in Nat
  BY NodeFacts
<1>2. /\ h \in History /\ HistoryOf(h, currentTerm)
      /\ \A x \in 1 .. i : Covered(h, log[a], x, currentTerm[a])
      /\ \A x \in 1 .. j : Covered(h, log[b], x, currentTerm[b])
  BY ClusterFacts DEF Follows
<1> HIDE DEF i, j
<1>3. CASE i = 0
  <2>1. Agree(log[a], log[b], i)
    BY <1>1, <1>3 DEF Agree
  <2>2. QED BY <2>1 DEF i
<1>4. CASE i # 0
  <2>1. i \in 1 .. i /\ j \in 1 .. j
    BY <1>1, <1>4
  <2>2. PICK r \in h.done : Covers(h, log[a], i, r)
    BY <1>2, <2>1 DEF Covered
  <2>3. PICK w \in h.done : Covers(h, log[b], j, w)
    BY <1>2, <2>1 DEF Covered
  <2>4. /\ r.term \in Nat /\ w.term \in Nat /\ r.index \in Nat /\ w.index \in Nat
        /\ h.led[r.term] \in Seq(Entry) /\ h.led[w.term] \in Seq(Entry)
        /\ Decided(h, r) /\ Decided(h, w) /\ Complete(h)
    <3>1. /\ r \in Decision /\ w \in Decision /\ Decided(h, r) /\ Decided(h, w)
          /\ \A t \in Nat : h.led[t] \in Seq(Entry)
      BY <1>2, HistoryOfFacts
    <3>2. Complete(h)
      BY <1>2 DEF HistoryOf
    <3>3. QED BY <3>1, <3>2 DEF Decision
  <2>5. /\ i <= r.index /\ Agree(log[a], h.led[r.term], i)
        /\ j <= w.index /\ Agree(h.led[w.term], log[b], j)
    BY <2>2, <2>3, AgreeSym DEF Covers
  <2>6. Agree(h.led[r.term], h.led[w.term], i)
    <3>1. CASE r.term = w.term
      BY <2>5, <3>1 DEF Agree
    <3>2. CASE r.term < w.term
      <4>1. Agree(h.led[r.term], h.led[w.term], r.index)
        BY <2>4, <3>2 DEF Decided, Complete
      <4>2. QED BY <1>1, <2>4, <2>5, <4>1, AgreeLess
    <3>3. CASE w.term < r.term
      <4>1. Agree(h.led[w.term], h.led[r.term], w.index)
        BY <2>4, <3>3 DEF Decided, Complete
      <4>2. i <= w.index
        BY <1>1, <2>4, <2>5
      <4>3. QED BY <1>1, <2>4, <4>1, <4>2, AgreeLess, AgreeSym
    <3>4. QED BY <2>4, <3>1, <3>2, <3>3
  <2>7. Agree(log[a], h.led[w.term], i) /\ i <= i
    BY <1>1, <2>4, <2>5, <2>6, AgreeTrans
  <2>8. Agree(log[a], log[b], i)
    BY <1>1, <2>4, <2>5, <2>7, AgreeTrans
  <2>9. QED BY <2>8 DEF i
<1>5. QED BY <1>3, <1>4

\* Two nodes do not commit different entries, though they count with different
\* configurations and each has applied the changes to a different point, until one
\* of the three leaks (HasJointQuorumAt, HasPendingMembershipChange).
THEOREM ChangesKeepAgreement == Spec => []CommittedAgreementUnlessLeak
<1>1. ChangeInductive => CommittedAgreementUnlessLeak
  <2> SUFFICES ASSUME ChangeInductive, leaks = {}, NEW a \in Node, NEW b \in Node
               PROVE  \/ IsPrefix(CommittedPrefix(a), CommittedPrefix(b))
                      \/ IsPrefix(CommittedPrefix(b), CommittedPrefix(a))
    BY DEF CommittedAgreementUnlessLeak
  <2>1. ChangeTyped
    BY DEF ChangeInductive
  <2>2. PICK h \in History : ClusterIn(h)
    BY DEF ChangeInductive, HasHistory
  <2>3. /\ commit[a] \in Nat /\ commit[b] \in Nat /\ log[a] \in Seq(Entry) /\ log[b] \in Seq(Entry)
        /\ commit[a] <= Len(log[a]) /\ commit[b] <= Len(log[b])
    BY <2>1, NodeFacts
  <2>4. CASE commit[a] <= commit[b]
    BY <2>1, <2>2, <2>3, <2>4, CommittedAgree, PrefixOf DEF CommittedPrefix
  <2>5. CASE commit[b] <= commit[a]
    BY <2>1, <2>2, <2>3, <2>5, CommittedAgree, PrefixOf DEF CommittedPrefix
  <2>6. QED BY <2>3, <2>4, <2>5
<1>2. QED BY <1>1, ClusterHasHistory, PTL

\* What a leader whose configuration is stable has committed is in the logs of a
\* majority of its voters, until one of the three leaks: what was committed under
\* the configuration before, or by an earlier leader, too; and no learner is
\* needed (IsMajorityOf over voter_ids_).
THEOREM LeaderCommittedOnVoters == Spec => []CommittedOnVotersUnlessLeak
<1>1. ChangeInductive => CommittedOnVotersUnlessLeak
  <2> SUFFICES ASSUME ChangeInductive, leaks = {}, NEW n \in Node, role[n] = "LEADER", ~conf[n].active
               PROVE  IsMajorityOf({v \in Node : IsPrefix(CommittedPrefix(n), log[v])},
                                   conf[n].voters)
    BY DEF CommittedOnVotersUnlessLeak
  <2> DEFINE have == {v \in Node : IsPrefix(CommittedPrefix(n), log[v])}
             i == commit[n]
             a == applied[n]
             s == log[n]
  <2>1. ChangeTyped
    BY DEF ChangeInductive
  <2>2. PICK h \in History : ClusterIn(h)
    BY DEF ChangeInductive, HasHistory
  <2>3. /\ i \in Nat /\ a \in Nat /\ a <= i /\ i <= Len(s) /\ s \in Seq(Entry) /\ Len(s) \in Nat
        /\ conf[n] \in MembershipView /\ conf[n].voters \in SUBSET Node /\ conf[n].voters # {}
    BY <2>1, NodeFacts DEF MembershipView, ValidateMembershipView
  <2>4. /\ h \in History /\ HistoryOf(h, currentTerm) /\ currentTerm \in [Node -> Nat]
        /\ Follows(h, n, s, currentTerm[n], conf[n], a, i)
        /\ Leads(h, n, s, currentTerm[n], a, i, match[n])
        /\ \A v \in Node : Follows(h, v, log[v], currentTerm[v], conf[v], applied[v], commit[v])
        /\ \A v \in Node : log[v] \in Seq(Entry)
    BY <2>1, <2>2, ClusterFacts, NodeFacts
  <2>5. ASSUME NEW v \in Node, Agree(s, log[v], i)
        PROVE  v \in have
    BY <2>3, <2>4, <2>5, PrefixOfLog DEF CommittedPrefix
  <2> HIDE DEF have
  <2>6. CASE i = 0
    <3>1. \A v \in Node : Len(log[v]) \in Nat
      BY <2>4, LogFacts
    <3>2. \A v \in Node : Agree(s, log[v], i)
      BY <2>3, <2>6, <3>1 DEF Agree
    <3>3. conf[n].voters \cap conf[n].voters \subseteq have
      BY <2>3, <2>5, <3>2
    <3>4. IsMajorityOf(have, conf[n].voters)
      BY <2>3, <3>3, AllAreMajority, MoreIsMajority
    <3>5. QED BY <3>4 DEF have
  <2>7. CASE i # 0
    <3>1. PICK r \in h.done : Covers(h, s, i, r) /\ \A x \in a + 1 .. r.applied : ~IsChange(s[x])
      BY <2>3, <2>4, <2>7 DEF Leads
    <3> DEFINE l == h.led[r.term]
               c == ConfAt(l, r.applied)
    <3>2. /\ r.term \in Nat /\ r.index \in Nat /\ r.applied \in Nat /\ l \in Seq(Entry) /\ Len(l) \in Nat
          /\ Decided(h, r) /\ Complete(h) /\ Legal(l)
      <4>1. /\ r \in Decision /\ Decided(h, r)
            /\ \A t \in Nat : /\ h.led[t] \in Seq(Entry) /\ Len(h.led[t]) \in Nat
                              /\ Legal(h.led[t])
        BY <2>4, HistoryOfFacts
      <4>2. Complete(h)
        BY <2>4 DEF HistoryOf
      <4>3. QED BY <4>1, <4>2 DEF Decision
    <3>3. r.applied < i /\ i <= r.index /\ Agree(l, s, i)
      BY <3>1 DEF Covers
    <3>4. /\ r.index \in 1 .. Len(l) /\ l[r.index].term = r.term /\ r.applied < r.index
          /\ OneChange(l, r.applied, r.index)
      BY <3>2 DEF Decided
    <3>5. PICK q \in SUBSET Node : HasQuorum(c, q) /\ \A v \in q : r.index <= h.acked[r.term][v]
      BY <3>2 DEF Decided
    <3> HIDE DEF l, c
    <3>6. c = ConfAt(s, r.applied)
      BY <2>3, <3>2, <3>3, AgreeConf DEF c
    <3>7. conf[n] = ConfAt(s, a) /\ Legal(s)
      BY <2>4 DEF Follows, Sound
    <3>8. Near(c, conf[n])
      <4>1. CASE a <= r.applied
        <5>1. ConfAt(s, r.applied) = ConfAt(s, a)
          BY <2>3, <3>1, <3>2, <4>1, ConfAtNone
        <5>2. QED BY <3>6, <3>7, <5>1 DEF Near
      <4>2. CASE r.applied < a
        <5>1. OneChange(s, r.applied, a)
          <6> SUFFICES ASSUME NEW x \in r.applied + 1 .. a, NEW y \in r.applied + 1 .. a,
                              IsChange(s[x]), IsChange(s[y])
                       PROVE  x = y
            BY DEF OneChange
          <6>1. /\ x \in r.applied + 1 .. r.index /\ y \in r.applied + 1 .. r.index
                /\ x \in 1 .. i /\ y \in 1 .. i
            BY <2>3, <3>2, <3>3
          <6>2. l[x] = s[x] /\ l[y] = s[y]
            BY <3>3, <6>1 DEF Agree
          <6>3. QED BY <3>4, <6>1, <6>2 DEF OneChange
        <5>2. r.applied <= a /\ a <= Len(s)
          BY <2>3, <3>2, <4>2
        <5>3. QED BY <2>3, <3>2, <3>6, <3>7, <5>1, <5>2, OneChangeNear
      <4>3. QED BY <2>3, <3>2, <4>1, <4>2
    <3>9. c \in MembershipView
      <4>1. r.applied <= Len(l)
        BY <3>2, <3>4
      <4>2. QED BY <3>2, <4>1, ConfAtValid DEF c, ValidView
    <3>10. IsMajorityOf(q, conf[n].voters)
      BY <2>3, <3>5, <3>8, <3>9, QuorumOfStable
    <3>11. ASSUME NEW v \in q PROVE v \in have
      <4>1. /\ Remembered(h, v, r.term, log[v], currentTerm[v]) /\ v \in Node
            /\ h.acked[r.term][v] \in Nat /\ currentTerm[v] \in Nat
        BY <2>4, <3>2, HistoryFacts DEF Follows
      <4>2. r.index \in 1 .. h.acked[r.term][v]
        BY <3>2, <3>4, <3>5, <4>1
      <4>3. ~Lost(h, r.term, r.index, currentTerm[v])
        BY <3>2 DEF Complete, Lost
      <4>4. Agree(l, log[v], r.index)
        BY <3>4, <4>1, <4>2, <4>3 DEF Remembered, l
      <4>5. Agree(s, log[v], i)
        BY <2>3, <2>4, <3>2, <3>3, <4>1, <4>4, AgreeSym, AgreeTrans
      <4>6. QED BY <2>5, <4>1, <4>5
    <3>12. IsMajorityOf(have, conf[n].voters)
      BY <2>3, <3>10, <3>11, MoreIsMajority
    <3>13. QED BY <3>12 DEF have
  <2>8. QED BY <2>6, <2>7
<1>2. QED BY <1>1, ClusterHasHistory, PTL
=============================================================================
