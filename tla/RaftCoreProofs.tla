--------------------------- MODULE RaftCoreProofs ---------------------------
(***************************************************************************)
(* Proofs about RaftCore, for every cluster and every bound: what each     *)
(* handler does to a log, the types of the state and of the messages, that *)
(* a leader's view of its peers stays within its log, that nothing         *)
(* committed is rewritten, and that a term elects one leader.              *)
(***************************************************************************)
EXTENDS RaftCore, RaftLogLemmas, FiniteSetTheorems

Terms == 0 .. MaxTerm

\* The messages, by kind.  Only voters ask for votes and are asked.
VoteRequests ==
    [type : {"RequestVote"}, from : Voter, to : Voter, term : Terms,
     lastIndex : Nat, lastTerm : Nat]

VoteResponses ==
    [type : {"VoteResponse"}, from : Voter, to : Voter, term : Terms,
     granted : BOOLEAN]

\* Entries travel with their positions: they continue prev.
AppendRequests ==
    {m \in [type : {"AppendEntries"}, from : Server, to : Server, term : Terms,
            prev : Nat, prevTerm : Nat, entries : Seq(StoredEntry), commit : Nat] :
        /\ m.from # m.to
        /\ \A k \in 1 .. Len(m.entries) : m.entries[k].index = m.prev + k}

AppendResponses ==
    {m \in [type : {"AppendResponse"}, from : Server, to : Server, term : Terms,
            success : BOOLEAN, match : Nat, conflictIndex : Nat, conflictTerm : Nat] :
        m.from # m.to}

Message == VoteRequests \cup VoteResponses \cup AppendRequests \cup AppendResponses

\* The inductive invariant of the types: no node has compacted its log, and what
\* is on the network is a message.
CoreTyped ==
    /\ TypeOK
    /\ matchIndex = [n \in Server |-> matchIndex[n]]
    /\ nextIndex = [n \in Server |-> nextIndex[n]]
    /\ \A n \in Server : Plain(log[n])
    /\ net \subseteq Message

LEMMA TermsAreNumbers ==
  /\ Terms \subseteq Nat /\ MaxTerm \in Nat /\ 0 \in Terms /\ Terms \subseteq Term
  /\ Voter \subseteq Server
  /\ MaxLog \in Nat
BY ServerAssumption DEF Terms, Voter

LEMMA KindsOfMessage ==
  ASSUME NEW m \in Message
  PROVE  /\ m.type = "RequestVote" => m \in VoteRequests
         /\ m.type = "VoteResponse" => m \in VoteResponses
         /\ m.type = "AppendEntries" => m \in AppendRequests
         /\ m.type = "AppendResponse" => m \in AppendResponses
         /\ m.from \in Server /\ m.to \in Server
         /\ m.term \in Terms
BY TermsAreNumbers DEF Message, VoteRequests, VoteResponses, AppendRequests, AppendResponses

----------------------------------------------------------------------------
(***************************************************************************)
(* What the steps do to a log.                                             *)
(***************************************************************************)

\* A leader moves its commit index only to an entry of its own term that a
\* majority holds.
LEMMA LeaderCommits ==
  ASSUME NEW l, Plain(l), NEW n, NEW match
  PROVE  LET r == TryAdvanceCommitIndex(n, l, match)
         IN  /\ Plain(r)
             /\ r.entries = l.entries
             /\ \/ r = l
                \/ /\ r.commit \in l.commit + 1 .. Len(l.entries)
                   /\ l.entries[r.commit].term = currentTerm[n]
                   /\ MatchedByMajority(n, l, match, r.commit)
<1> DEFINE ready == {i \in l.commit + 1 .. LastIndex(l) :
                        /\ TermAt(l, i) = currentTerm[n]
                        /\ MatchedByMajority(n, l, match, i)}
           r == TryAdvanceCommitIndex(n, l, match)
           best == CHOOSE i \in ready : \A j \in ready : j <= i
<1>1. /\ LastIndex(l) = Len(l.entries) /\ Len(l.entries) \in Nat /\ l.commit \in Nat
      /\ \A k \in 1 .. Len(l.entries) : TermAt(l, k) = l.entries[k].term
  BY PlainLog
<1>2. CASE ready = {}
  BY <1>2 DEF TryAdvanceCommitIndex
<1>3. CASE ready # {}
  <2>1. ready \in SUBSET Nat /\ \A k \in ready : k <= Len(l.entries)
    BY <1>1
  <2>2. \E i \in ready : \A j \in ready : j <= i
    BY <2>1, <1>1, <1>3, GreatestExists
  <2>3. best \in ready
    BY <2>2
  <2>4. r = AdvanceCommitTo(l, best)
    BY <1>3 DEF TryAdvanceCommitIndex
  <2> HIDE DEF best, r
  <2>5. /\ best \in l.commit + 1 .. Len(l.entries)
        /\ TermAt(l, best) = currentTerm[n] /\ MatchedByMajority(n, l, match, best)
    BY <2>3, <1>1
  <2>6. Plain(r) /\ r.entries = l.entries /\ r.commit = best
    BY <2>4, <2>5, <1>1, PlainCommit
  <2>7. QED BY <2>5, <2>6, <1>1 DEF r
<1>4. QED BY <1>2, <1>3

\* What a merge leaves: either nothing changes, the log having all the entries
\* with their terms, or it is cut before position p + c, above the commit index,
\* and continues with the entries from the c-th on.
Merged(l, es, p, m) ==
    \/ /\ m = l
       /\ p + Len(es) <= Len(l.entries)
       /\ \A k \in 1 .. Len(es) : l.entries[p + k].term = es[k].term
    \/ \E c \in 1 .. Len(es) :
         /\ p + c <= Len(l.entries) + 1 /\ l.commit < p + c
         /\ p + c <= Len(l.entries) => l.entries[p + c].term # es[c].term
         /\ m.commit = l.commit
         /\ Len(m.entries) = p + Len(es)
         /\ \A j \in 1 .. p + c - 1 : m.entries[j] = l.entries[j]
         /\ \A k \in c .. Len(es) : m.entries[p + k] = es[k]
         /\ \A k \in 1 .. c - 1 : l.entries[p + k].term = es[k].term

LEMMA MergeIsMerged ==
  ASSUME NEW l, Plain(l), NEW es \in Seq(StoredEntry),
         NEW p \in Nat, p <= Len(l.entries),
         \A k \in 1 .. Len(es) : es[k].index = p + k,
         LET at == FindConflict(l, es)
         IN  at # 0 /\ at <= LastIndex(l) => CanTruncateSuffix(l, at)
  PROVE  /\ Plain(MergeEntries(l, es))
         /\ Merged(l, es, p, MergeEntries(l, es))
<1> DEFINE at == FindConflict(l, es)
           m == MergeEntries(l, es)
<1>1. /\ WellFormed(l) /\ l \in LogRecord /\ l.snapshotIndex = 0
      /\ l.entries \in Seq(StoredEntry) /\ l.commit \in 0 .. Len(l.entries)
      /\ LastIndex(l) = Len(l.entries) /\ Len(l.entries) \in Nat
      /\ \A i \in 1 .. Len(l.entries) : l.entries[i] \in StoredEntry
  BY PlainLog DEF Plain, WellFormed
<1>2. Len(es) \in Nat /\ (es = << >> => Len(es) = 0)
  BY LenProperties, EmptySeq
<1>3. CASE /\ at = 0
           /\ p + Len(es) <= Len(l.entries)
           /\ \A k \in 1 .. Len(es) : l.entries[p + k].term = es[k].term
  BY <1>3 DEF MergeEntries, Merged
<1>4. ASSUME NEW c \in 1 .. Len(es),
             at = p + c, p + c <= Len(l.entries) + 1,
             p + c <= Len(l.entries) => l.entries[p + c].term # es[c].term,
             \A k \in 1 .. c - 1 : l.entries[p + k].term = es[k].term
      PROVE  Plain(m) /\ Merged(l, es, p, m)
  <2> DEFINE more == SubSeq(es, c, Len(es))
  <2>1. es # << >> /\ es[1].index = p + 1 /\ at # 0
    BY <1>2, <1>4
  <2>2. at - es[1].index + 1 = c
    BY <2>1, <1>4
  <2>3. CASE at > LastIndex(l)
    <3>1. m = AppendTo(l, more)
      BY <2>1, <2>2, <2>3 DEF MergeEntries
    <3>2. Len(l.entries) = p + c - 1
      BY <2>3, <1>1, <1>4
    <3>3. /\ Plain(m) /\ m.commit = l.commit
          /\ Len(m.entries) = p + Len(es)
          /\ \A j \in 1 .. p + c - 1 : m.entries[j] = l.entries[j]
          /\ \A k \in c .. Len(es) : m.entries[p + k] = es[k]
      BY <3>1, <3>2, AppendMissing
    <3>4. l.commit < p + c
      BY <3>2, <1>1
    <3> HIDE DEF m
    <3>5. QED BY <3>3, <3>4, <1>4 DEF Merged
  <2>4. CASE ~(at > LastIndex(l))
    <3> DEFINE cut == TruncateSuffix(l, at)
    <3>1. at \in Nat /\ at <= LastIndex(l)
      BY <2>4, <1>1, <1>4
    <3>2. CanTruncateSuffix(l, at)
      BY <3>1, <2>1
    <3>3. WellFormed(cut) /\ LastIndex(cut) = at - 1
      BY <3>1, <3>2, <1>1, TruncateKeeps
    <3>4. /\ cut.snapshotIndex = l.snapshotIndex /\ cut.snapshotTerm = l.snapshotTerm
          /\ cut.commit = l.commit /\ cut.entries = SubSeq(l.entries, 1, at - 1)
      <4>1. at - l.snapshotIndex - 1 = at - 1
        BY <3>1, <1>1
      <4> HIDE DEF at
      <4>2. QED BY <4>1, <1>1 DEF TruncateSuffix, LogRecord
    <3>5. Plain(cut)
      BY <3>3, <3>4 DEF Plain
    <3>6. Len(cut.entries) = p + c - 1
      BY <3>3, <3>5, <1>4, PlainLog
    <3>7. \A j \in 1 .. p + c - 1 : cut.entries[j] = l.entries[j]
      <4>1. \A i \in 1 .. at - 1 : l.entries[i] \in StoredEntry
        BY <3>1, <1>1
      <4>2. \A i \in 1 .. at - 1 : SubSeq(l.entries, 1, at - 1)[i] = l.entries[i]
        BY <3>1, <4>1, SubSeqProperties
      <4>3. QED BY <4>2, <3>4, <1>4
    <3>8. m = AppendTo(cut, more)
      BY <2>1, <2>2, <2>4 DEF MergeEntries
    <3> HIDE DEF cut
    <3>9. /\ Plain(m) /\ m.commit = cut.commit
          /\ Len(m.entries) = p + Len(es)
          /\ \A j \in 1 .. p + c - 1 : m.entries[j] = cut.entries[j]
          /\ \A k \in c .. Len(es) : m.entries[p + k] = es[k]
      BY <3>5, <3>6, <3>8, AppendMissing
    <3>10. l.commit < p + c
      BY <3>2, <1>4 DEF CanTruncateSuffix
    <3> HIDE DEF m
    <3>11. \A j \in 1 .. p + c - 1 : m.entries[j] = l.entries[j]
      BY <3>9, <3>7
    <3>12. QED BY <3>4, <3>9, <3>10, <3>11, <1>4 DEF Merged
  <2>5. QED BY <2>3, <2>4
<1>5. \/ /\ FindConflict(l, es) = 0
         /\ p + Len(es) <= Len(l.entries)
         /\ \A k \in 1 .. Len(es) : l.entries[p + k].term = es[k].term
      \/ \E c \in 1 .. Len(es) :
           /\ FindConflict(l, es) = p + c
           /\ p + c <= Len(l.entries) + 1
           /\ p + c <= Len(l.entries) => l.entries[p + c].term # es[c].term
           /\ \A k \in 1 .. c - 1 : l.entries[p + k].term = es[k].term
  BY PlainConflict, SMTT(60)
<1> HIDE DEF m
<1>6. QED BY <1>3, <1>4, <1>5 DEF m

Quorums == {Q \in SUBSET Voter : Cardinality(Q) >= Majority}

\* How the commit index of a leader moves from log l to log m: not at all, or to
\* an entry of the leader's term that a majority holds.
CommitsOwn(n, l, m, match) ==
    \/ m.commit = l.commit
    \/ /\ m.commit \in l.commit + 1 .. Len(m.entries)
       /\ m.entries[m.commit].term = currentTerm[n]
       /\ \E Q \in Quorums : \A v \in Q \ {n} : match[v] >= m.commit

LEMMA ProposeEffect ==
  ASSUME CoreTyped, NEW n \in Server, Propose(n)
  PROVE  /\ Plain(log'[n])
         /\ log' = [log EXCEPT ![n] = log'[n]]
         /\ Len(log'[n].entries) = Len(log[n].entries) + 1
         /\ \A j \in 1 .. Len(log[n].entries) : log'[n].entries[j] = log[n].entries[j]
         /\ log'[n].entries[Len(log[n].entries) + 1].term = currentTerm[n]
         /\ currentTerm[n] # 0
         /\ CommitsOwn(n, log[n], log'[n], matchIndex[n])
<1> DEFINE l == log[n]
           entry == [index |-> LastIndex(l) + 1, term |-> currentTerm[n], payload |-> n]
           grown == AppendTo(l, <<entry>>)
           m == TryAdvanceCommitIndex(n, grown, matchIndex[n])
<1>1. /\ log \in [Server -> LogRecord] /\ currentTerm[n] \in Terms
      /\ Plain(l) /\ CanAppendTo(l, <<entry>>)
      /\ log' = [log EXCEPT ![n] = m]
  BY DEF CoreTyped, TypeOK, Propose, Terms
<1>2. /\ WellFormed(l) /\ l \in LogRecord /\ l.entries \in Seq(StoredEntry)
      /\ LastIndex(l) = Len(l.entries) /\ Len(l.entries) \in Nat
      /\ l.commit \in 0 .. Len(l.entries)
  BY <1>1, PlainLog DEF Plain, WellFormed
<1>3. /\ entry \in Entry /\ <<entry>> \in Seq(Entry) /\ Len(<<entry>>) = 1
      /\ <<entry>>[1] = entry /\ DOMAIN <<entry>> = {1}
  <2>1. n \in Payload /\ currentTerm[n] \in Term
    BY <1>1, TermsAreNumbers, ServerAssumption
  <2>2. LastIndex(l) + 1 \in Nat
    BY <1>2
  <2>4. entry \in Entry
    BY <2>1, <2>2 DEF Entry
  <2> HIDE DEF entry
  <2>3. QED BY <2>4
<1>4. entry.term # 0 /\ entry.index = Len(l.entries) + 1 /\ entry \in StoredEntry
  <2>1. entry.term # 0 /\ entry.index = Len(l.entries) + 1
    BY <1>1, <1>2, <1>3 DEF CanAppendTo, ValidEntries
  <2>2. QED BY <2>1, <1>2, <1>3 DEF Entry, StoredEntry
<1>12. entry.term = currentTerm[n]
  OBVIOUS
<1> HIDE DEF entry
<1>5. /\ WellFormed(grown) /\ grown.entries = l.entries \o <<entry>>
      /\ grown.snapshotIndex = l.snapshotIndex /\ grown.snapshotTerm = l.snapshotTerm
      /\ grown.commit = l.commit
  <2>1. WellFormed(grown)
    BY <1>1, <1>2, <1>3, AppendKeeps
  <2>2. QED BY <2>1, <1>2 DEF AppendTo, LogRecord
<1>6. Plain(grown)
  BY <1>1, <1>5 DEF Plain
<1> HIDE DEF grown, l
<1>7. /\ Len(grown.entries) = Len(l.entries) + 1
      /\ \A j \in 1 .. Len(l.entries) : grown.entries[j] = l.entries[j]
      /\ grown.entries[Len(l.entries) + 1] = entry
  <2> DEFINE s == l.entries
             e == <<entry>>
             both == s \o e
  <2>1. s \in Seq(StoredEntry) /\ e \in Seq(StoredEntry) /\ Len(e) = 1 /\ e[1] = entry
        /\ Len(s) \in Nat
    BY <1>2, <1>3, <1>4
  <2>2. grown.entries = both
    BY <1>5
  <2> HIDE DEF s, e
  <2>3. /\ Len(both) = Len(s) + Len(e)
        /\ \A j \in 1 .. Len(s) + Len(e) :
              both[j] = IF j <= Len(s) THEN s[j] ELSE e[j - Len(s)]
    BY <2>1, ConcatProperties
  <2> HIDE DEF both
  <2>4. /\ Len(both) = Len(s) + 1
        /\ \A j \in 1 .. Len(s) : both[j] = s[j]
        /\ both[Len(s) + 1] = entry
    BY <2>1, <2>3
  <2>5. QED BY <2>2, <2>4 DEF s
<1>8. /\ Plain(m) /\ m.entries = grown.entries
      /\ \/ m = grown
         \/ /\ m.commit \in grown.commit + 1 .. Len(grown.entries)
            /\ grown.entries[m.commit].term = currentTerm[n]
            /\ MatchedByMajority(n, grown, matchIndex[n], m.commit)
  BY <1>6, LeaderCommits
<1> HIDE DEF m
<1>9. log'[n] = m /\ log' = [log EXCEPT ![n] = log'[n]]
  BY <1>1
<1>10. CommitsOwn(n, l, m, matchIndex[n])
  <2>1. CASE m = grown
    BY <2>1, <1>5 DEF CommitsOwn
  <2>2. CASE MatchedByMajority(n, grown, matchIndex[n], m.commit)
    <3> DEFINE Q == {v \in Voter : IF v = n THEN LastIndex(grown) >= m.commit
                                            ELSE matchIndex[n][v] >= m.commit}
    <3>1. Q \in Quorums
      BY <2>2 DEF MatchedByMajority, Quorums
    <3>2. \A v \in Q \ {n} : matchIndex[n][v] >= m.commit
      OBVIOUS
    <3> HIDE DEF Q
    <3>3. QED BY <3>1, <3>2, <1>5, <1>8 DEF CommitsOwn
  <2>3. QED BY <2>1, <2>2, <1>8
<1>11. /\ Len(m.entries) = Len(l.entries) + 1
       /\ \A j \in 1 .. Len(l.entries) : m.entries[j] = l.entries[j]
       /\ m.entries[Len(l.entries) + 1].term = currentTerm[n]
       /\ currentTerm[n] # 0
  BY <1>4, <1>7, <1>8, <1>12
<1>13. QED
  BY <1>8, <1>9, <1>10, <1>11, Zenon DEF l

\* An acknowledgement leaves the leader's entries alone; it is counted with the
\* match index it raises.
LEMMA SuccessEffect ==
  ASSUME CoreTyped, NEW rsp \in net, HandleAppendSuccess(rsp)
  PROVE  LET n == rsp.to
         IN  /\ rsp \in AppendResponses
             /\ Plain(log'[n])
             /\ log' = [log EXCEPT ![n] = log'[n]]
             /\ log'[n].entries = log[n].entries
             /\ matchIndex' = [matchIndex EXCEPT ![n] = matchIndex'[n]]
             /\ matchIndex'[n] = [matchIndex[n] EXCEPT ![rsp.from] =
                                      GreaterOf(matchIndex[n][rsp.from], rsp.match)]
             /\ CommitsOwn(n, log[n], log'[n], matchIndex'[n])
<1> DEFINE n == rsp.to
           l == log[n]
           match == [matchIndex[n] EXCEPT ![rsp.from] = GreaterOf(@, rsp.match)]
           m == TryAdvanceCommitIndex(n, l, match)
<1>1. /\ rsp \in AppendResponses /\ n \in Server
  BY KindsOfMessage DEF CoreTyped, HandleAppendSuccess
<1>2. /\ log \in [Server -> LogRecord] /\ Plain(l) /\ log' = [log EXCEPT ![n] = m]
      /\ matchIndex = [s \in Server |-> matchIndex[s]]
      /\ matchIndex' = [matchIndex EXCEPT ![n] = match]
  BY <1>1 DEF CoreTyped, TypeOK, HandleAppendSuccess
<1>3. log'[n] = m /\ matchIndex'[n] = match
  BY <1>1, <1>2
<1> HIDE DEF match, l
<1>4. /\ Plain(m) /\ m.entries = l.entries
      /\ \/ m = l
         \/ /\ m.commit \in l.commit + 1 .. Len(l.entries)
            /\ l.entries[m.commit].term = currentTerm[n]
            /\ MatchedByMajority(n, l, match, m.commit)
  BY <1>2, LeaderCommits
<1>5. CommitsOwn(n, l, m, match)
  <2>1. CASE m = l
    BY <2>1 DEF CommitsOwn
  <2>2. CASE /\ m.commit \in l.commit + 1 .. Len(l.entries)
             /\ l.entries[m.commit].term = currentTerm[n]
             /\ MatchedByMajority(n, l, match, m.commit)
    <3> DEFINE Q == {v \in Voter : IF v = n THEN LastIndex(l) >= m.commit
                                            ELSE match[v] >= m.commit}
    <3>1. Q \in Quorums
      BY <2>2 DEF MatchedByMajority, Quorums
    <3>2. \A v \in Q \ {n} : match[v] >= m.commit
      OBVIOUS
    <3> HIDE DEF Q, m
    <3>3. QED BY <3>1, <3>2, <2>2, <1>4 DEF CommitsOwn
  <2>3. QED BY <2>1, <2>2, <1>4
<1> HIDE DEF m
<1>6. match = [matchIndex[n] EXCEPT ![rsp.from] =
                  GreaterOf(matchIndex[n][rsp.from], rsp.match)]
  BY DEF match
<1>7. matchIndex' = [matchIndex EXCEPT ![n] = matchIndex'[n]]
  BY <1>2, <1>3
<1>8. log' = [log EXCEPT ![n] = log'[n]]
  BY <1>2, <1>3
<1>9. QED BY <1>1, <1>3, <1>4, <1>5, <1>6, <1>7, <1>8 DEF l

\* What AcceptAppend does: the receiver's log is merged with the entries of the
\* request, and its commit index follows the leader's inside the merged log.
AcceptedInto(req, l, m) ==
    /\ req.prev <= Len(l.entries)
    /\ IF req.prev = 0 THEN req.prevTerm = 0
                       ELSE l.entries[req.prev].term = req.prevTerm
    /\ Plain(m)
    /\ \E merged : /\ Plain(merged)
                   /\ Merged(l, req.entries, req.prev, merged)
                   /\ m.entries = merged.entries
    /\ m.commit \in l.commit .. Len(m.entries)
    /\ m.commit = l.commit \/ m.commit <= req.commit

LEMMA AcceptEffect ==
  ASSUME CoreTyped, NEW req \in net, AcceptAppend(req)
  PROVE  /\ req \in AppendRequests /\ req.to \in Server
         /\ log' = [log EXCEPT ![req.to] = log'[req.to]]
         /\ AcceptedInto(req, log[req.to], log'[req.to])
         /\ net' = (net \ {req}) \cup
                       {AppendAccepted(req, Len(log'[req.to].entries))}
         /\ leaks' = IF \E i \in req.prev + Len(req.entries) + 1 .. Len(log'[req.to].entries) :
                            log'[req.to].entries[i].term # req.term
                     THEN leaks \cup {"unverified"} ELSE leaks
<1> DEFINE n == req.to
           l == log[n]
           es == req.entries
           merged == MergeEntries(l, es)
           m == FollowCommit(merged, req.commit)
<1>1. req \in AppendRequests /\ n \in Server
  BY KindsOfMessage DEF CoreTyped, AcceptAppend, FollowLeader
<1>2. /\ log \in [Server -> LogRecord] /\ Plain(l) /\ log' = [log EXCEPT ![n] = m]
      /\ Matches(l, req.prev, req.prevTerm)
      /\ FindConflict(l, es) # 0 /\ FindConflict(l, es) <= LastIndex(l)
            => CanTruncateSuffix(l, FindConflict(l, es))
  BY <1>1 DEF CoreTyped, TypeOK, AcceptAppend
<1>3. /\ es \in Seq(StoredEntry) /\ req.prev \in Nat /\ req.commit \in Nat
      /\ \A k \in 1 .. Len(es) : es[k].index = req.prev + k
  BY <1>1 DEF AppendRequests
<1>4. /\ req.prev <= Len(l.entries)
      /\ IF req.prev = 0 THEN req.prevTerm = 0
                         ELSE l.entries[req.prev].term = req.prevTerm
  BY <1>2, <1>3, PlainMatches
<1>5. Plain(merged) /\ Merged(l, es, req.prev, merged)
  BY <1>2, <1>3, <1>4, MergeIsMerged
<1>6. log'[n] = m
  BY <1>1, <1>2
<1> DEFINE i == GreaterOf(merged.commit, LesserOf(req.commit, LastIndex(merged)))
<1>7. l.commit \in 0 .. Len(l.entries) /\ Len(l.entries) \in Nat /\ Len(es) \in Nat
  BY <1>2, <1>3, PlainLog, LenProperties
<1>8. /\ merged.commit = l.commit /\ LastIndex(merged) = Len(merged.entries)
      /\ Len(merged.entries) \in Nat /\ merged.commit \in 0 .. Len(merged.entries)
      /\ \A k \in 1 .. Len(merged.entries) : TermAt(merged, k) = merged.entries[k].term
  <2> HIDE DEF merged
  <2>1. merged.commit = l.commit
    BY <1>5 DEF Merged
  <2>2. QED BY <1>5, <2>1, PlainLog
<1> HIDE DEF merged
<1>9. /\ i \in merged.commit .. Len(merged.entries)
      /\ i = l.commit \/ i <= req.commit
  BY <1>3, <1>8 DEF GreaterOf, LesserOf
<1>10. Plain(m) /\ m.entries = merged.entries /\ m.commit = i
  <2>1. m = AdvanceCommitTo(merged, i)
    BY DEF FollowCommit
  <2> HIDE DEF m, i
  <2>2. QED BY <2>1, <1>5, <1>9, PlainCommit
<1>11. AcceptedInto(req, l, m)
  <2> HIDE DEF m, i
  <2>1. QED BY <1>4, <1>5, <1>8, <1>9, <1>10 DEF AcceptedInto
<1>12. net' = (net \ {req}) \cup {AppendAccepted(req, Len(m.entries))}
  <2>1. net' = (net \ {req}) \cup {AppendAccepted(req, LastIndex(merged))}
    BY DEF AcceptAppend, Reply, merged
  <2> HIDE DEF m
  <2>2. QED BY <2>1, <1>8, <1>10
<1>13. leaks' = IF \E k \in req.prev + Len(es) + 1 .. Len(m.entries) :
                       m.entries[k].term # req.term
                THEN leaks \cup {"unverified"} ELSE leaks
  <2>1. leaks' = IF Unverified(req, merged) THEN leaks \cup {"unverified"} ELSE leaks
    BY DEF AcceptAppend, merged
  <2> HIDE DEF m
  <2>2. Unverified(req, merged) <=>
          \E k \in req.prev + Len(es) + 1 .. Len(m.entries) : m.entries[k].term # req.term
    <3>1. \A k \in req.prev + Len(es) + 1 .. Len(merged.entries) :
             k \in 1 .. Len(merged.entries)
      BY <1>3, <1>7, <1>8
    <3>2. QED BY <3>1, <1>8, <1>10 DEF Unverified
  <2>3. QED BY <2>1, <2>2
<1>14. log' = [log EXCEPT ![n] = log'[n]]
  BY <1>1, <1>2
<1> HIDE DEF m, i
<1>15. QED BY <1>1, <1>6, <1>11, <1>12, <1>13, <1>14

----------------------------------------------------------------------------
(***************************************************************************)
(* The types, and what a leader knows of its peers.  The two need each     *)
(* other: a request is built at the peer's next index, and its entries are *)
(* the end of the log only because that index is not beyond it.            *)
(***************************************************************************)
CoreInductive == CoreTyped /\ ProgressWithinLog

LEMMA CoreInductiveInit == Init => CoreInductive
<1> SUFFICES ASSUME Init PROVE CoreInductive
  OBVIOUS
<1>1. IsFiniteSet({})
  BY FS_EmptySet
<1>2. Plain(EmptyLog) /\ EmptyLog \in LogRecord
  BY EmptyLogIsPlain DEF Plain, WellFormed
<1>3. TypeOK
  BY <1>1, <1>2, TermsAreNumbers DEF Init, TypeOK, Terms, Roles
<1>4. CoreTyped
  BY <1>2, <1>3 DEF Init, CoreTyped
<1>5. ProgressWithinLog
  BY DEF Init, ProgressWithinLog
<1>6. QED BY <1>4, <1>5 DEF CoreInductive

\* The network holds finitely many messages, and only messages.
LEMMA NetworkTyped ==
  ASSUME CoreTyped, NEW a, NEW b,
         \/ net' = net
         \/ Consume(a)
         \/ b \in Message /\ Reply(a, b)
         \/ b \in Message /\ Send(b)
  PROVE  net' \subseteq Message /\ IsFiniteSet(net')
<1>1. net \subseteq Message /\ IsFiniteSet(net)
  BY DEF CoreTyped, TypeOK
<1>2. /\ IsFiniteSet(net \ {a}) /\ IsFiniteSet((net \ {a}) \cup {b})
      /\ IsFiniteSet(net \cup {b})
  BY <1>1, FS_Subset, FS_AddElement, net \ {a} \subseteq net
<1>3. QED BY <1>1, <1>2 DEF Consume, Reply, Send

\* Steps that leave the logs and the knowledge about peers as they are.
LEMMA NodeStepTyped ==
  ASSUME CoreTyped, UNCHANGED <<log, peerVars>>,
         net' \subseteq Message /\ IsFiniteSet(net'),
         role' \in [Server -> Roles],
         \A n \in Server : role'[n] = "LEARNER" <=> n \in Learner,
         currentTerm' \in [Server -> Terms],
         votedFor' \in [Server -> Server \cup {Nobody}],
         votes' \in [Server -> SUBSET Server],
         elected' \subseteq Terms \X Server,
         leaks' \subseteq {"usurped", "unverified"}
  PROVE  CoreTyped'
BY DEF CoreTyped, TypeOK, peerVars, Terms

LEMMA ElectionStepsTyped ==
  ASSUME CoreInductive, NEW n \in Server,
         \/ Timeout(n)
         \/ \E m \in Server : \/ SendRequestVote(n, m)
                              \/ SendAppendEntries(n, m)
                              \/ SendHeartbeat(n, m)
  PROVE  CoreTyped'
<1> USE DEF CoreInductive
<1>0. /\ role \in [Server -> Roles] /\ currentTerm \in [Server -> Terms]
      /\ votedFor \in [Server -> Server \cup {Nobody}]
      /\ votes \in [Server -> SUBSET Server]
      /\ elected \subseteq Terms \X Server
      /\ leaks \subseteq {"usurped", "unverified"}
      /\ \A s \in Server : role[s] = "LEARNER" <=> s \in Learner
  BY DEF CoreTyped, TypeOK, Terms
<1>1. CASE Timeout(n)
  <2>1. net' \subseteq Message /\ IsFiniteSet(net')
    BY <1>1, NetworkTyped DEF Timeout
  <2>2. currentTerm[n] + 1 \in Terms
    BY <1>0, <1>1, TermsAreNumbers DEF Timeout, Terms
  <2>3. /\ role' \in [Server -> Roles]
        /\ \A s \in Server : role'[s] = "LEARNER" <=> s \in Learner
        /\ currentTerm' \in [Server -> Terms]
        /\ votedFor' \in [Server -> Server \cup {Nobody}]
        /\ votes' \in [Server -> SUBSET Server]
    BY <1>0, <1>1, <2>2 DEF Timeout, Roles
  <2>4. QED BY <1>0, <1>1, <2>1, <2>3, NodeStepTyped DEF Timeout, ghosts
<1>2. ASSUME NEW m \in Server, SendRequestVote(n, m) PROVE CoreTyped'
  <2> DEFINE msg == [type |-> "RequestVote", from |-> n, to |-> m,
                     term |-> currentTerm[n],
                     lastIndex |-> LastIndex(log[n]),
                     lastTerm  |-> TermAt(log[n], LastIndex(log[n]))]
  <2>1. LastIndex(log[n]) \in Nat /\ TermAt(log[n], LastIndex(log[n])) \in Nat
    <3> DEFINE l == log[n]
    <3>1. Plain(l)
      BY DEF CoreTyped
    <3> HIDE DEF l
    <3>2. LastIndex(l) = Len(l.entries) /\ Len(l.entries) \in Nat /\ TermAt(l, 0) = 0
      BY <3>1, PlainLog
    <3>3. \A i \in 1 .. Len(l.entries) : TermAt(l, i) = l.entries[i].term /\ l.entries[i].term \in Nat
      BY <3>1, PlainLog
    <3>4. CASE LastIndex(l) = 0
      BY <3>2, <3>4 DEF l
    <3>5. CASE LastIndex(l) # 0
      <4>1. LastIndex(l) \in 1 .. Len(l.entries)
        BY <3>2, <3>5
      <4>2. QED BY <3>2, <3>3, <4>1 DEF l
    <3>6. QED BY <3>4, <3>5
  <2>2. n \in Voter /\ m \in Voter
    BY <1>0, <1>2 DEF SendRequestVote, Voter
  <2>3. msg \in Message /\ Send(msg)
    BY <1>0, <1>2, <2>1, <2>2 DEF SendRequestVote, Message, VoteRequests
  <2>4. net' \subseteq Message /\ IsFiniteSet(net')
    BY <2>3, NetworkTyped
  <2>5. QED BY <1>0, <1>2, <2>4, NodeStepTyped DEF SendRequestVote, nodeVars, ghosts
<1>3. ASSUME NEW m \in Server, NEW prev \in Nat, prev <= Len(log[n].entries),
             NEW es \in Seq(StoredEntry), m # n,
             \A k \in 1 .. Len(es) : es[k].index = prev + k,
             Send(AppendRequest(n, m, prev, es)),
             UNCHANGED <<nodeVars, log, peerVars, votes, ghosts>>
      PROVE  CoreTyped'
  <2> DEFINE msg == AppendRequest(n, m, prev, es)
  <2>1. log[n].commit \in Nat /\ TermAt(log[n], prev) \in Nat
    <3>1. /\ log[n].commit \in 0 .. Len(log[n].entries) /\ Len(log[n].entries) \in Nat
          /\ TermAt(log[n], 0) = 0
          /\ \A i \in 1 .. Len(log[n].entries) :
                TermAt(log[n], i) = log[n].entries[i].term /\ log[n].entries[i].term \in Nat
      BY PlainLog DEF CoreTyped
    <3>2. prev = 0 \/ prev \in 1 .. Len(log[n].entries)
      BY <3>1, <1>3
    <3>3. QED BY <3>1, <3>2
  <2>2. msg \in AppendRequests
    BY <1>0, <1>3, <2>1 DEF AppendRequest, AppendRequests
  <2>3. net' \subseteq Message /\ IsFiniteSet(net')
    BY <1>3, <2>2, NetworkTyped DEF Message
  <2>4. QED BY <1>0, <1>3, <2>3, NodeStepTyped DEF nodeVars, ghosts
<1>4. ASSUME NEW m \in Server, SendAppendEntries(n, m) PROVE CoreTyped'
  <2> DEFINE b == nextIndex[n][m]
  <2>1. /\ b \in Nat \ {0} /\ b <= Len(log[n].entries) + 1 /\ m # n
        /\ Plain(log[n])
    <3>1. m \in Peers(n) /\ m # n /\ role[n] = "LEADER"
      BY <1>4 DEF SendAppendEntries, Peers
    <3>2. b \in Nat \ {0} /\ Plain(log[n])
      BY <3>1 DEF CoreTyped, TypeOK
    <3>3. b <= LastIndex(log[n]) + 1
      BY <3>1 DEF ProgressWithinLog
    <3>4. QED BY <3>1, <3>2, <3>3, PlainLog
  <2>2. b - 1 \in Nat /\ b - 1 <= Len(log[n].entries) /\ Len(log[n].entries) \in Nat
    BY <2>1, PlainLog
  <2>3. /\ EntriesFrom(log[n], b) \in Seq(StoredEntry)
        /\ Len(EntriesFrom(log[n], b)) = Len(log[n].entries) - b + 1
        /\ \A k \in 1 .. Len(log[n].entries) - b + 1 :
              EntriesFrom(log[n], b)[k] = log[n].entries[b + k - 1]
    BY <2>1, PlainEntriesFrom
  <2>4. ASSUME NEW k \in 1 .. Len(EntriesFrom(log[n], b))
        PROVE  EntriesFrom(log[n], b)[k].index = b - 1 + k
    <3>1. k \in 1 .. Len(log[n].entries) - b + 1 /\ b + k - 1 \in 1 .. Len(log[n].entries)
      <4> DEFINE z == Len(log[n].entries)
      <4>1. z \in Nat /\ b \in Nat \ {0} /\ k \in 1 .. z - b + 1
        BY <2>1, <2>2, <2>3
      <4> HIDE DEF z, b
      <4>2. k \in 1 .. z - b + 1 /\ b + k - 1 \in 1 .. z
        BY <4>1
      <4>3. QED BY <4>2 DEF z
    <3>2. log[n].entries[b + k - 1].index = b + k - 1
      BY <2>1, <3>1, PlainLog
    <3>3. b + k - 1 = b - 1 + k
      BY <2>1, <3>1
    <3> HIDE DEF b
    <3>4. QED BY <2>3, <3>1, <3>2, <3>3
  <2>5. /\ Send(AppendRequest(n, m, b - 1, EntriesFrom(log[n], b)))
        /\ UNCHANGED <<nodeVars, log, peerVars, votes, ghosts>>
    BY <1>4 DEF SendAppendEntries
  <2> HIDE DEF b
  <2>6. QED BY <1>3, <2>1, <2>2, <2>3, <2>4, <2>5
<1>5. ASSUME NEW m \in Server, SendHeartbeat(n, m) PROVE CoreTyped'
  <2>1. /\ LastIndex(log[n]) \in Nat /\ LastIndex(log[n]) <= Len(log[n].entries)
    BY PlainLog DEF CoreTyped
  <2>2. << >> \in Seq(StoredEntry) /\ Len(<< >>) = 0
    BY EmptySeq
  <2>3. m # n /\ Send(AppendRequest(n, m, LastIndex(log[n]), << >>))
        /\ UNCHANGED <<nodeVars, log, peerVars, votes, ghosts>>
    BY <1>5 DEF SendHeartbeat, Peers
  <2>4. \A k \in 1 .. Len(<< >>) : << >>[k].index = LastIndex(log[n]) + k
    BY <2>2
  <2>5. QED BY <1>3, <2>1, <2>2, <2>3, <2>4
<1>6. QED BY <1>1, <1>2, <1>4, <1>5

\* The types NodeStepTyped asks about, read from the invariant.
LEMMA NodeTypes ==
  ASSUME CoreTyped
  PROVE  /\ role \in [Server -> Roles] /\ currentTerm \in [Server -> Terms]
         /\ votedFor \in [Server -> Server \cup {Nobody}]
         /\ votes \in [Server -> SUBSET Server]
         /\ elected \subseteq Terms \X Server
         /\ leaks \subseteq {"usurped", "unverified"}
         /\ \A s \in Server : role[s] = "LEARNER" <=> s \in Learner
         /\ \A s \in Server : currentTerm[s] \in Nat
BY TermsAreNumbers DEF CoreTyped, TypeOK, Terms

\* The term never goes back, and the vote it forgets is that of a past term.
LEMMA TermUpdate ==
  ASSUME CoreTyped, NEW n \in Server, NEW t \in Terms, UpdateCurrentTerm(n, t)
  PROVE  /\ currentTerm' \in [Server -> Terms]
         /\ votedFor' \in [Server -> Server \cup {Nobody}]
         /\ t >= currentTerm[n] => currentTerm' = [currentTerm EXCEPT ![n] = t]
<1>1. GreaterOf(currentTerm[n], t) \in Terms
  BY NodeTypes DEF GreaterOf
<1>2. t >= currentTerm[n] => GreaterOf(currentTerm[n], t) = t
  BY NodeTypes, TermsAreNumbers DEF GreaterOf
<1>3. QED BY <1>1, <1>2, NodeTypes DEF UpdateCurrentTerm

LEMMA VoteStepsTyped ==
  ASSUME CoreTyped, NEW m \in net,
         \/ RefuseVote(m) \/ HandleRequestVote(m) \/ HandleVoteResponse(m)
         \/ StepDown(m)   \/ DropAppendResponse(m) \/ Lose(m)
  PROVE  CoreTyped'
<1>0. /\ m.to \in Server /\ m.from \in Server /\ m.term \in Terms
      /\ currentTerm[m.to] \in Terms
  BY KindsOfMessage, NodeTypes DEF CoreTyped
<1>1. ASSUME m \in VoteRequests, NEW g \in BOOLEAN, NEW t \in Terms
      PROVE  VoteResponse(m, t, g) \in Message
  BY <1>1 DEF VoteRequests, VoteResponse, Message, VoteResponses
<1>2. CASE RefuseVote(m)
  <2>1. m \in VoteRequests
    BY <1>2, KindsOfMessage DEF RefuseVote, CoreTyped
  <2>2. net' \subseteq Message /\ IsFiniteSet(net')
    BY <1>0, <1>1, <1>2, <2>1, NetworkTyped DEF RefuseVote
  <2>3. QED BY <1>2, <2>2, NodeTypes, NodeStepTyped DEF RefuseVote, nodeVars, ghosts
<1>3. CASE HandleRequestVote(m)
  <2>1. m \in VoteRequests
    BY <1>3, KindsOfMessage DEF HandleRequestVote, CoreTyped
  <2>2. VoteGranted(m) \in BOOLEAN
    BY DEF VoteGranted
  <2>3. net' \subseteq Message /\ IsFiniteSet(net')
    BY <1>0, <1>1, <1>3, <2>1, <2>2, NetworkTyped DEF HandleRequestVote
  <2>4. /\ role' \in [Server -> Roles]
        /\ \A s \in Server : role'[s] = "LEARNER" <=> s \in Learner
        /\ currentTerm' \in [Server -> Terms]
        /\ votedFor' \in [Server -> Server \cup {Nobody}]
    BY <1>0, <1>3, NodeTypes DEF HandleRequestVote, Roles
  <2>5. QED BY <1>3, <2>3, <2>4, NodeTypes, NodeStepTyped DEF HandleRequestVote, ghosts
<1>4. CASE HandleVoteResponse(m)
  <2>1. net' \subseteq Message /\ IsFiniteSet(net')
    BY <1>4, NetworkTyped DEF HandleVoteResponse
  <2>2. votes' \in [Server -> SUBSET Server]
    BY <1>0, <1>4, NodeTypes DEF HandleVoteResponse
  <2>3. QED BY <1>4, <2>1, <2>2, NodeTypes, NodeStepTyped
            DEF HandleVoteResponse, nodeVars, ghosts
<1>5. CASE StepDown(m)
  <2>1. net' \subseteq Message /\ IsFiniteSet(net')
    BY <1>5, NetworkTyped DEF StepDown
  <2>2. /\ currentTerm' \in [Server -> Terms]
        /\ votedFor' \in [Server -> Server \cup {Nobody}]
    BY <1>0, <1>5, TermUpdate DEF StepDown, BecomeFollowerForRemote
  <2>3. /\ role' \in [Server -> Roles]
        /\ \A s \in Server : role'[s] = "LEARNER" <=> s \in Learner
    BY <1>0, <1>5, NodeTypes DEF StepDown, BecomeFollowerForRemote, Roles
  <2>4. QED BY <1>5, <2>1, <2>2, <2>3, NodeTypes, NodeStepTyped DEF StepDown, ghosts
<1>6. CASE DropAppendResponse(m)
  <2>1. net' \subseteq Message /\ IsFiniteSet(net')
    BY <1>6, NetworkTyped DEF DropAppendResponse
  <2>2. QED BY <1>6, <2>1, NodeTypes, NodeStepTyped DEF DropAppendResponse, nodeVars, ghosts
<1>7. CASE Lose(m)
  <2>1. net' \subseteq Message /\ IsFiniteSet(net')
    BY <1>7, NetworkTyped DEF Lose
  <2>2. QED BY <1>7, <2>1, NodeTypes, NodeStepTyped DEF Lose, nodeVars, ghosts
<1>8. QED BY <1>2, <1>3, <1>4, <1>5, <1>6, <1>7

\* FindFirstIndexOfTerm finds the start of the run: a position of the log.
LEMMA FirstOfRun ==
  ASSUME NEW l, Plain(l), NEW i \in 1 .. Len(l.entries)
  PROVE  FindFirstIndexOfTerm(l, TermAt(l, i), i) \in 1 .. i
<1> DEFINE t == TermAt(l, i)
           run == {j \in FirstIndex(l) .. i : \A k \in j .. i : TermAt(l, k) = t}
           first == CHOOSE j \in run : \A k \in run : j <= k
<1>1. /\ l.snapshotIndex = 0 /\ FirstIndex(l) = 1 /\ Len(l.entries) \in Nat
  BY PlainLog DEF Plain
<1>2. run \in SUBSET Nat /\ i \in run
  BY <1>1
<1>3. \E j \in run : \A k \in run : j <= k
  BY <1>2, LeastExists
<1>4. first \in run
  BY <1>3
<1>5. FindFirstIndexOfTerm(l, t, i) = first
  BY <1>1 DEF FindFirstIndexOfTerm
<1> HIDE DEF first
<1>6. QED BY <1>1, <1>4, <1>5

LEMMA AppendRefusalsTyped ==
  ASSUME CoreTyped, NEW m \in net,
         \/ RefuseStaleAppend(m) \/ LeaderRefusesAppend(m)
         \/ RejectMismatch(m)    \/ FailAppend(m)
  PROVE  CoreTyped'
<1>0. /\ m \in AppendRequests /\ m.to \in Server /\ m.from \in Server /\ m.term \in Terms
      /\ currentTerm[m.to] \in Terms /\ Plain(log[m.to]) /\ m.prev \in Nat
  <2>1. m \in AppendRequests
    BY KindsOfMessage DEF CoreTyped, RefuseStaleAppend, LeaderRefusesAppend,
                          RejectMismatch, FailAppend, FollowLeader
  <2>2. QED BY <2>1, NodeTypes DEF CoreTyped, AppendRequests
<1>1. ASSUME NEW t \in Terms, NEW i \in Nat, NEW u \in Nat
      PROVE  AppendRejected(m, t, i, u) \in Message
  BY <1>0 DEF AppendRequests, AppendRejected, Message, AppendResponses
<1>2. CASE RefuseStaleAppend(m)
  <2>1. net' \subseteq Message /\ IsFiniteSet(net')
    BY <1>0, <1>1, <1>2, NetworkTyped DEF RefuseStaleAppend
  <2>2. QED BY <1>2, <2>1, NodeTypes, NodeStepTyped DEF RefuseStaleAppend, nodeVars, ghosts
<1>3. CASE LeaderRefusesAppend(m)
  <2>1. net' \subseteq Message /\ IsFiniteSet(net')
    BY <1>0, <1>1, <1>3, NetworkTyped DEF LeaderRefusesAppend
  <2>2. /\ currentTerm' \in [Server -> Terms]
        /\ votedFor' \in [Server -> Server \cup {Nobody}]
    BY <1>0, <1>3, TermUpdate DEF LeaderRefusesAppend
  <2>3. leaks' \subseteq {"usurped", "unverified"}
    BY <1>3, NodeTypes DEF LeaderRefusesAppend
  <2>4. QED BY <1>3, <2>1, <2>2, <2>3, NodeTypes, NodeStepTyped DEF LeaderRefusesAppend
<1>4. ASSUME FollowLeader(m)
      PROVE  /\ currentTerm' \in [Server -> Terms]
             /\ votedFor' \in [Server -> Server \cup {Nobody}]
             /\ role' \in [Server -> Roles]
             /\ \A s \in Server : role'[s] = "LEARNER" <=> s \in Learner
  <2>1. /\ currentTerm' \in [Server -> Terms]
        /\ votedFor' \in [Server -> Server \cup {Nobody}]
    BY <1>0, <1>4, TermUpdate DEF FollowLeader
  <2>2. /\ role' \in [Server -> Roles]
        /\ \A s \in Server : role'[s] = "LEARNER" <=> s \in Learner
    BY <1>0, <1>4, NodeTypes DEF FollowLeader, Roles
  <2>3. QED BY <2>1, <2>2
<1>5. CASE RejectMismatch(m)
  <2> DEFINE l == log[m.to]
             answer == IF m.prev > LastIndex(l)
                       THEN AppendRejected(m, m.term, LastIndex(l) + 1, 0)
                       ELSE IF m.prev < l.snapshotIndex
                       THEN AppendRejected(m, m.term, FirstIndex(l), l.snapshotTerm)
                       ELSE AppendRejected(m, m.term,
                               FindFirstIndexOfTerm(l, TermAt(l, m.prev), m.prev),
                               TermAt(l, m.prev))
  <2>1. /\ LastIndex(l) = Len(l.entries) /\ Len(l.entries) \in Nat
        /\ l.snapshotIndex = 0 /\ TermAt(l, 0) = 0 /\ l.snapshotTerm = 0
        /\ \A i \in 1 .. Len(l.entries) :
              TermAt(l, i) = l.entries[i].term /\ l.entries[i].term \in Nat
    BY <1>0, PlainLog DEF Plain
  <2>2. ASSUME ~(m.prev > LastIndex(l))
        PROVE  /\ FindFirstIndexOfTerm(l, TermAt(l, m.prev), m.prev) \in Nat
               /\ TermAt(l, m.prev) \in Nat
    <3>1. CASE m.prev = 0
      BY <2>1, <3>1 DEF FindFirstIndexOfTerm
    <3>2. CASE m.prev # 0
      <4>1. m.prev \in 1 .. Len(l.entries)
        BY <1>0, <2>1, <2>2, <3>2
      <4>2. FindFirstIndexOfTerm(l, TermAt(l, m.prev), m.prev) \in 1 .. m.prev
        BY <1>0, <4>1, FirstOfRun
      <4>3. QED BY <2>1, <4>1, <4>2
    <3>3. QED BY <3>1, <3>2
  <2>3. answer \in Message
    <3>1. LastIndex(l) + 1 \in Nat /\ 0 \in Nat /\ ~(m.prev < l.snapshotIndex)
      BY <1>0, <2>1
    <3>2. QED BY <1>0, <1>1, <2>2, <3>1
  <2>4. Reply(m, answer)
    BY <1>5 DEF RejectMismatch
  <2> HIDE DEF answer
  <2>5. net' \subseteq Message /\ IsFiniteSet(net')
    BY <2>3, <2>4, NetworkTyped
  <2>6. FollowLeader(m)
    BY <1>5 DEF RejectMismatch
  <2>7. QED BY <1>4, <1>5, <2>5, <2>6, NodeTypes, NodeStepTyped DEF RejectMismatch, ghosts
<1>6. CASE FailAppend(m)
  <2>1. net' \subseteq Message /\ IsFiniteSet(net')
    BY <1>6, NetworkTyped DEF FailAppend
  <2>2. FollowLeader(m)
    BY <1>6 DEF FailAppend
  <2>3. QED BY <1>4, <1>6, <2>1, <2>2, NodeTypes, NodeStepTyped DEF FailAppend, ghosts
<1>7. QED BY <1>2, <1>3, <1>5, <1>6

\* Steps that change logs or the knowledge about peers of one node.
LEMMA LeaderStepTyped ==
  ASSUME CoreTyped, NEW n \in Server,
         net' \subseteq Message /\ IsFiniteSet(net'),
         role' \in [Server -> Roles],
         \A s \in Server : role'[s] = "LEARNER" <=> s \in Learner,
         currentTerm' \in [Server -> Terms],
         votedFor' \in [Server -> Server \cup {Nobody}],
         votes' = votes,
         elected' \subseteq Terms \X Server,
         leaks' \subseteq {"usurped", "unverified"},
         log' = [log EXCEPT ![n] = log'[n]], Plain(log'[n]),
         matchIndex' = [matchIndex EXCEPT ![n] = matchIndex'[n]],
         nextIndex' = [nextIndex EXCEPT ![n] = nextIndex'[n]],
         matchIndex'[n] \in [Peers(n) -> Nat],
         nextIndex'[n] \in [Peers(n) -> Nat \ {0}]
  PROVE  CoreTyped'
<1>1. /\ log \in [Server -> LogRecord] /\ log'[n] \in LogRecord
      /\ \A s \in Server : Plain(log[s])
  BY DEF CoreTyped, TypeOK, Plain, WellFormed
<1>2. log' \in [Server -> LogRecord] /\ \A s \in Server : Plain(log'[s])
  <2>1. \A s \in Server \ {n} : log'[s] = log[s]
    BY <1>1
  <2>2. QED BY <1>1, <2>1
<1>3. /\ matchIndex' = [s \in Server |-> matchIndex'[s]]
      /\ nextIndex' = [s \in Server |-> nextIndex'[s]]
      /\ \A s \in Server : /\ matchIndex'[s] \in [Peers(s) -> Nat]
                           /\ nextIndex'[s] \in [Peers(s) -> Nat \ {0}]
  <2>1. /\ matchIndex = [s \in Server |-> matchIndex[s]]
        /\ nextIndex = [s \in Server |-> nextIndex[s]]
        /\ \A s \in Server : /\ matchIndex[s] \in [Peers(s) -> Nat]
                             /\ nextIndex[s] \in [Peers(s) -> Nat \ {0}]
    BY DEF CoreTyped, TypeOK
  <2>2. QED BY <2>1
<1>4. QED BY <1>2, <1>3, NodeTypes DEF CoreTyped, TypeOK, Terms

LEMMA BecomeLeaderTyped ==
  ASSUME CoreTyped, NEW n \in Server, BecomeLeader(n)
  PROVE  CoreTyped'
<1> DEFINE match == [p \in Peers(n) |-> 0]
           next == [p \in Peers(n) |-> LastIndex(log[n]) + 1]
<1>1. net' \subseteq Message /\ IsFiniteSet(net')
  BY NetworkTyped DEF BecomeLeader
<1>2. /\ role' \in [Server -> Roles]
      /\ \A s \in Server : role'[s] = "LEARNER" <=> s \in Learner
      /\ elected' \subseteq Terms \X Server
      /\ UNCHANGED <<currentTerm, votedFor, log, votes, leaks>>
  BY NodeTypes DEF BecomeLeader, Roles
<1>3. LastIndex(log[n]) \in Nat /\ Plain(log[n]) /\ log \in [Server -> LogRecord]
  BY PlainLog DEF CoreTyped, TypeOK
<1>4. match \in [Peers(n) -> Nat] /\ next \in [Peers(n) -> Nat \ {0}]
  BY <1>3
<1>5. /\ matchIndex' = [matchIndex EXCEPT ![n] = match]
      /\ nextIndex' = [nextIndex EXCEPT ![n] = next]
  BY DEF BecomeLeader, ResetPeerProgress
<1>8. /\ matchIndex'[n] = match /\ nextIndex'[n] = next
  BY <1>5 DEF CoreTyped
<1>6. log' = [log EXCEPT ![n] = log'[n]] /\ Plain(log'[n])
  BY <1>2, <1>3
<1> HIDE DEF match, next
<1>7. QED BY <1>1, <1>2, <1>4, <1>5, <1>6, <1>8, NodeTypes, LeaderStepTyped

LEMMA ProposeTyped ==
  ASSUME CoreTyped, NEW n \in Server, Propose(n)
  PROVE  CoreTyped'
<1>1. net' \subseteq Message /\ IsFiniteSet(net')
  BY NetworkTyped DEF Propose
<1>2. /\ UNCHANGED <<role, currentTerm, votedFor, votes, elected, leaks>>
      /\ UNCHANGED <<matchIndex, nextIndex>>
  BY DEF Propose, nodeVars, peerVars, ghosts
<1>3. log' = [log EXCEPT ![n] = log'[n]] /\ Plain(log'[n])
  BY ProposeEffect
<1>4. /\ matchIndex'[n] \in [Peers(n) -> Nat] /\ nextIndex'[n] \in [Peers(n) -> Nat \ {0}]
      /\ matchIndex' = [matchIndex EXCEPT ![n] = matchIndex'[n]]
      /\ nextIndex' = [nextIndex EXCEPT ![n] = nextIndex'[n]]
  BY <1>2 DEF CoreTyped, TypeOK
<1>5. QED BY <1>1, <1>2, <1>3, <1>4, NodeTypes, LeaderStepTyped

LEMMA AcceptTyped ==
  ASSUME CoreTyped, NEW req \in net, AcceptAppend(req)
  PROVE  CoreTyped'
<1> DEFINE n == req.to
<1>1. /\ req \in AppendRequests /\ n \in Server /\ req.term \in Terms
      /\ log' = [log EXCEPT ![n] = log'[n]] /\ Plain(log'[n])
      /\ net' = (net \ {req}) \cup {AppendAccepted(req, Len(log'[n].entries))}
  BY AcceptEffect DEF AcceptedInto, AppendRequests
<1>2. net' \subseteq Message /\ IsFiniteSet(net')
  <2>1. Len(log'[n].entries) \in Nat
    BY <1>1, PlainLog
  <2>2. AppendAccepted(req, Len(log'[n].entries)) \in Message
    BY <1>1, <2>1 DEF AppendRequests, AppendAccepted, Message, AppendResponses
  <2>3. QED BY <1>1, <2>2, NetworkTyped DEF Reply
<1>3. /\ currentTerm' \in [Server -> Terms]
      /\ votedFor' \in [Server -> Server \cup {Nobody}]
      /\ role' \in [Server -> Roles]
      /\ \A s \in Server : role'[s] = "LEARNER" <=> s \in Learner
  <2>1. FollowLeader(req)
    BY DEF AcceptAppend
  <2>2. /\ currentTerm' \in [Server -> Terms]
        /\ votedFor' \in [Server -> Server \cup {Nobody}]
    BY <1>1, <2>1, TermUpdate DEF FollowLeader
  <2>3. QED BY <1>1, <2>1, <2>2, NodeTypes DEF FollowLeader, Roles
<1>4. /\ UNCHANGED <<matchIndex, nextIndex, votes, elected>>
      /\ leaks' \subseteq {"usurped", "unverified"}
  BY NodeTypes DEF AcceptAppend, peerVars
<1>5. /\ matchIndex'[n] \in [Peers(n) -> Nat] /\ nextIndex'[n] \in [Peers(n) -> Nat \ {0}]
      /\ matchIndex' = [matchIndex EXCEPT ![n] = matchIndex'[n]]
      /\ nextIndex' = [nextIndex EXCEPT ![n] = nextIndex'[n]]
  BY <1>1, <1>4 DEF CoreTyped, TypeOK
<1>6. QED BY <1>1, <1>2, <1>3, <1>4, <1>5, NodeTypes, LeaderStepTyped

\* Where a leader continues with a peer that acknowledged or refused.
LEMMA PeerProgress ==
  ASSUME CoreTyped, NEW rsp \in net,
         HandleAppendSuccess(rsp) \/ HandleAppendRejection(rsp)
  PROVE  LET n == rsp.to
             p == rsp.from
         IN  /\ rsp \in AppendResponses /\ n \in Server /\ p \in Peers(n)
             /\ rsp.match \in Nat
             /\ matchIndex'[n] \in [Peers(n) -> Nat]
             /\ nextIndex'[n] \in [Peers(n) -> Nat \ {0}]
             /\ matchIndex' = [matchIndex EXCEPT ![n] = matchIndex'[n]]
             /\ nextIndex' = [nextIndex EXCEPT ![n] = nextIndex'[n]]
             /\ \A q \in Peers(n) \ {p} : /\ matchIndex'[n][q] = matchIndex[n][q]
                                         /\ nextIndex'[n][q] = nextIndex[n][q]
             /\ \/ /\ matchIndex'[n][p] = GreaterOf(matchIndex[n][p], rsp.match)
                   /\ nextIndex'[n][p] = GreaterOf(nextIndex[n][p], matchIndex'[n][p] + 1)
                   /\ rsp.match <= LastIndex(log[n]) /\ rsp.success
                \/ /\ matchIndex'[n][p] = matchIndex[n][p] /\ ~rsp.success
                   /\ nextIndex'[n][p] <= nextIndex[n][p]
<1> DEFINE n == rsp.to
           p == rsp.from
<1>1. /\ rsp \in AppendResponses /\ n \in Server /\ p \in Peers(n)
      /\ rsp.match \in Nat /\ rsp.conflictIndex \in Nat /\ rsp.conflictTerm \in Nat
  <2>1. rsp \in AppendResponses
    BY KindsOfMessage DEF CoreTyped, HandleAppendSuccess, HandleAppendRejection
  <2>2. QED BY <2>1 DEF AppendResponses, Peers
<1>2. /\ matchIndex = [s \in Server |-> matchIndex[s]]
      /\ nextIndex = [s \in Server |-> nextIndex[s]]
      /\ matchIndex[n] \in [Peers(n) -> Nat]
      /\ nextIndex[n] \in [Peers(n) -> Nat \ {0}]
      /\ Plain(log[n])
  BY <1>1 DEF CoreTyped, TypeOK
<1>3. LastIndex(log[n]) \in Nat /\ FirstIndex(log[n]) = 1 /\ log[n].snapshotIndex = 0
      /\ log[n].snapshotTerm = 0
  BY <1>2, PlainLog DEF Plain
<1>4. CASE HandleAppendSuccess(rsp)
  <2> DEFINE match == [matchIndex[n] EXCEPT ![p] = GreaterOf(matchIndex[n][p], rsp.match)]
             next == [nextIndex[n] EXCEPT ![p] = GreaterOf(nextIndex[n][p], match[p] + 1)]
  <2>1. GreaterOf(matchIndex[n][p], rsp.match) \in Nat
    BY <1>1, <1>2 DEF GreaterOf
  <2>2. match \in [Peers(n) -> Nat] /\ match[p] = GreaterOf(matchIndex[n][p], rsp.match)
    BY <1>1, <1>2, <2>1
  <2>3. GreaterOf(nextIndex[n][p], match[p] + 1) \in Nat \ {0}
    BY <1>1, <1>2, <2>2 DEF GreaterOf
  <2>4. next \in [Peers(n) -> Nat \ {0}]
    BY <1>1, <1>2, <2>3
  <2>5. /\ matchIndex' = [matchIndex EXCEPT ![n] = match]
        /\ nextIndex' = [nextIndex EXCEPT ![n] = next]
    BY <1>4, <1>2 DEF HandleAppendSuccess
  <2>6. matchIndex'[n] = match /\ nextIndex'[n] = next
    BY <1>1, <1>2, <2>5
  <2>7. rsp.match <= LastIndex(log[n]) /\ rsp.success
    BY <1>4 DEF HandleAppendSuccess, AcceptableResponse
  <2>8. /\ next[p] = GreaterOf(nextIndex[n][p], match[p] + 1)
        /\ \A q \in Peers(n) \ {p} : match[q] = matchIndex[n][q] /\ next[q] = nextIndex[n][q]
    BY <1>1, <1>2
  <2> HIDE DEF match, next
  <2>9. QED BY <1>1, <2>2, <2>4, <2>5, <2>6, <2>7, <2>8
<1>5. CASE HandleAppendRejection(rsp)
  <2> DEFINE i == LesserOf(nextIndex[n][p], NextAfterRejection(log[n], rsp))
             next == [nextIndex[n] EXCEPT ![p] = i]
  <2>1. FindLastIndexOfTerm(log[n], rsp.conflictTerm) \in Nat
    BY <1>3 DEF FindLastIndexOfTerm
  <2>2. \A k \in Nat : ClampPeerNextIndex(log[n], k) \in Nat \ {0}
    BY <1>3 DEF ClampPeerNextIndex, GreaterOf, LesserOf
  <2>3. NextAfterRejection(log[n], rsp) \in Nat \ {0}
    BY <1>1, <2>1, <2>2 DEF NextAfterRejection
  <2>4. nextIndex[n][p] \in Nat \ {0}
    BY <1>1, <1>2
  <2>5. i \in Nat \ {0} /\ i <= nextIndex[n][p]
    BY <2>3, <2>4 DEF LesserOf
  <2>6. /\ matchIndex' = matchIndex /\ nextIndex' = [nextIndex EXCEPT ![n] = next]
        /\ ~rsp.success
    BY <1>5, <1>2 DEF HandleAppendRejection
  <2> HIDE DEF i
  <2>7. next \in [Peers(n) -> Nat \ {0}] /\ next[p] = i
        /\ \A q \in Peers(n) \ {p} : next[q] = nextIndex[n][q]
    BY <1>1, <1>2, <2>5
  <2> HIDE DEF next
  <2>8. nextIndex'[n] = next /\ matchIndex'[n] = matchIndex[n]
        /\ matchIndex' = [matchIndex EXCEPT ![n] = matchIndex'[n]]
    BY <1>1, <1>2, <2>6
  <2>9. QED BY <1>1, <1>2, <2>5, <2>6, <2>7, <2>8
<1>6. QED BY <1>4, <1>5

LEMMA AppendResponseTyped ==
  ASSUME CoreTyped, NEW rsp \in net,
         HandleAppendSuccess(rsp) \/ HandleAppendRejection(rsp)
  PROVE  CoreTyped'
<1> DEFINE n == rsp.to
<1>1. net' \subseteq Message /\ IsFiniteSet(net')
  BY NetworkTyped DEF HandleAppendSuccess, HandleAppendRejection
<1>2. UNCHANGED <<role, currentTerm, votedFor, votes, elected, leaks>>
  BY DEF HandleAppendSuccess, HandleAppendRejection, nodeVars, ghosts
<1>3. /\ n \in Server
      /\ matchIndex' = [matchIndex EXCEPT ![n] = matchIndex'[n]]
      /\ nextIndex' = [nextIndex EXCEPT ![n] = nextIndex'[n]]
      /\ matchIndex'[n] \in [Peers(n) -> Nat]
      /\ nextIndex'[n] \in [Peers(n) -> Nat \ {0}]
  BY PeerProgress
<1>4. log' = [log EXCEPT ![n] = log'[n]] /\ Plain(log'[n])
  <2>1. CASE HandleAppendSuccess(rsp)
    BY <2>1, SuccessEffect
  <2>2. CASE HandleAppendRejection(rsp)
    BY <1>3, <2>2 DEF HandleAppendRejection, CoreTyped, TypeOK
  <2>3. QED BY <2>1, <2>2
<1>5. QED BY <1>1, <1>2, <1>3, <1>4, NodeTypes, LeaderStepTyped

\* Nothing that only lengthens the logs of leaders, or moves no progress, can
\* put a leader's progress beyond its log.
LEMMA ProgressKept ==
  ASSUME CoreTyped, CoreTyped', ProgressWithinLog,
         UNCHANGED peerVars,
         \A n \in Server : role'[n] = "LEADER" =>
             role[n] = "LEADER" /\ Len(log[n].entries) <= Len(log'[n].entries)
  PROVE  ProgressWithinLog'
<1> SUFFICES ASSUME NEW n \in Server, role'[n] = "LEADER", NEW p \in Peers(n)
             PROVE  /\ matchIndex'[n][p] <= LastIndex(log'[n])
                    /\ nextIndex'[n][p] <= LastIndex(log'[n]) + 1
  BY DEF ProgressWithinLog
<1>1. /\ matchIndex[n][p] <= LastIndex(log[n])
      /\ nextIndex[n][p] <= LastIndex(log[n]) + 1
      /\ Len(log[n].entries) <= Len(log'[n].entries)
  BY DEF ProgressWithinLog
<1>2. /\ LastIndex(log[n]) = Len(log[n].entries) /\ LastIndex(log'[n]) = Len(log'[n].entries)
      /\ Len(log[n].entries) \in Nat /\ Len(log'[n].entries) \in Nat
  BY PlainLog DEF CoreTyped
<1>3. matchIndex[n][p] \in Nat /\ nextIndex[n][p] \in Nat
  BY DEF CoreTyped, TypeOK
<1>4. matchIndex' = matchIndex /\ nextIndex' = nextIndex
  BY DEF peerVars
<1>5. LastIndex(log[n]) <= LastIndex(log'[n])
  BY <1>1, <1>2
<1>6. LastIndex(log[n]) \in Nat /\ LastIndex(log'[n]) \in Nat
  BY <1>2
<1>7. QED BY <1>1, <1>3, <1>4, <1>5, <1>6

LEMMA ProgressStep ==
  ASSUME CoreTyped, CoreTyped', ProgressWithinLog, Next
  PROVE  ProgressWithinLog'
<1>1. \A n \in Server : Len(log[n].entries) \in Nat /\ LastIndex(log[n]) = Len(log[n].entries)
  BY PlainLog DEF CoreTyped
<1>2. ASSUME NEW n \in Server, BecomeLeader(n) PROVE ProgressWithinLog'
  <2>1. /\ \A p \in Peers(n) : matchIndex'[n][p] = 0 /\ nextIndex'[n][p] = LastIndex(log[n]) + 1
        /\ \A s \in Server \ {n} : /\ matchIndex'[s] = matchIndex[s] /\ nextIndex'[s] = nextIndex[s]
                                  /\ role'[s] = role[s]
        /\ log' = log
    BY <1>2 DEF BecomeLeader, ResetPeerProgress, CoreTyped, TypeOK
  <2>2. QED BY <1>1, <2>1 DEF ProgressWithinLog
<1>3. ASSUME NEW n \in Server, Propose(n) PROVE ProgressWithinLog'
  <2>1. /\ log' = [log EXCEPT ![n] = log'[n]]
        /\ Len(log'[n].entries) = Len(log[n].entries) + 1
    BY <1>3, ProposeEffect
  <2>2. /\ UNCHANGED peerVars /\ role' = role
    BY <1>3 DEF Propose, nodeVars
  <2>3. \A s \in Server : Len(log[s].entries) <= Len(log'[s].entries)
    <3>1. \A s \in Server \ {n} : log'[s] = log[s]
      BY <2>1 DEF CoreTyped, TypeOK
    <3>2. QED BY <1>1, <2>1, <3>1
  <2>4. QED BY <2>2, <2>3, ProgressKept
<1>4. ASSUME NEW m \in net, AcceptAppend(m) PROVE ProgressWithinLog'
  <2>1. log' = [log EXCEPT ![m.to] = log'[m.to]] /\ m.to \in Server
    BY <1>4, AcceptEffect
  <2>2. /\ UNCHANGED peerVars /\ role[m.to] # "LEADER"
        /\ role' = [role EXCEPT ![m.to] = IF @ = "CANDIDATE" THEN "FOLLOWER" ELSE @]
    BY <1>4 DEF AcceptAppend, FollowLeader
  <2>3. \A s \in Server : role'[s] = "LEADER" => s # m.to /\ role[s] = "LEADER"
    BY <2>1, <2>2, NodeTypes
  <2>4. \A s \in Server : s # m.to => log'[s] = log[s]
    BY <2>1 DEF CoreTyped, TypeOK
  <2>5. QED BY <1>1, <2>2, <2>3, <2>4, ProgressKept
<1>5. ASSUME NEW rsp \in net, HandleAppendSuccess(rsp) \/ HandleAppendRejection(rsp)
      PROVE  ProgressWithinLog'
  <2> DEFINE n == rsp.to
  <2>1. /\ n \in Server /\ role' = role
        /\ \A s \in Server : log'[s].entries = log[s].entries
    <3>1. CASE HandleAppendSuccess(rsp)
      <4>1. /\ log' = [log EXCEPT ![n] = log'[n]] /\ log'[n].entries = log[n].entries
        BY <3>1, SuccessEffect
      <4>2. n \in Server /\ role' = role
        BY <3>1, PeerProgress DEF HandleAppendSuccess, nodeVars
      <4>3. QED BY <4>1, <4>2 DEF CoreTyped, TypeOK
    <3>2. CASE HandleAppendRejection(rsp)
      BY <3>2, PeerProgress DEF HandleAppendRejection, nodeVars
    <3>3. QED BY <1>5, <3>1, <3>2
  <2>2. \A s \in Server : LastIndex(log'[s]) = LastIndex(log[s])
    <3>1. \A s \in Server : LastIndex(log'[s]) = Len(log'[s].entries)
      BY PlainLog DEF CoreTyped
    <3>2. QED BY <1>1, <2>1, <3>1
  <2> SUFFICES ASSUME NEW s \in Server, role[s] = "LEADER", NEW q \in Peers(s)
               PROVE  /\ matchIndex'[s][q] <= LastIndex(log[s])
                      /\ nextIndex'[s][q] <= LastIndex(log[s]) + 1
    BY <2>1, <2>2 DEF ProgressWithinLog
  <2>3. /\ matchIndex[s][q] <= LastIndex(log[s]) /\ matchIndex[s][q] \in Nat
        /\ nextIndex[s][q] <= LastIndex(log[s]) + 1 /\ nextIndex[s][q] \in Nat
        /\ LastIndex(log[s]) \in Nat /\ nextIndex'[s][q] \in Nat
    <3>1. /\ matchIndex[s][q] <= LastIndex(log[s])
          /\ nextIndex[s][q] <= LastIndex(log[s]) + 1
      BY DEF ProgressWithinLog
    <3>2. matchIndex[s][q] \in Nat /\ nextIndex[s][q] \in Nat /\ nextIndex'[s][q] \in Nat
      BY DEF CoreTyped, TypeOK
    <3>3. LastIndex(log[s]) \in Nat
      BY <1>1
    <3>4. QED BY <3>1, <3>2, <3>3
  <2>4. CASE s # n
    <3>1. /\ matchIndex' = [matchIndex EXCEPT ![n] = matchIndex'[n]]
          /\ nextIndex' = [nextIndex EXCEPT ![n] = nextIndex'[n]]
      BY <1>5, PeerProgress
    <3>2. matchIndex'[s] = matchIndex[s] /\ nextIndex'[s] = nextIndex[s]
      <4> HIDE DEF n
      <4>1. QED BY <2>4, <3>1 DEF CoreTyped
    <3>3. QED BY <2>3, <3>2
  <2>5. CASE s = n /\ q # rsp.from
    <3>1. \A o \in Peers(n) \ {rsp.from} : /\ matchIndex'[n][o] = matchIndex[n][o]
                                           /\ nextIndex'[n][o] = nextIndex[n][o]
      BY <1>5, PeerProgress
    <3>2. QED BY <2>3, <2>5, <3>1
  <2>6. CASE s = n /\ q = rsp.from
    <3>1. CASE /\ matchIndex'[n][q] = GreaterOf(matchIndex[n][q], rsp.match)
               /\ nextIndex'[n][q] = GreaterOf(nextIndex[n][q], matchIndex'[n][q] + 1)
               /\ rsp.match <= LastIndex(log[n])
      <4>1. rsp.match \in Nat
        BY <1>5, PeerProgress
      <4>2. matchIndex'[n][q] <= LastIndex(log[n]) /\ matchIndex'[n][q] \in Nat
        BY <2>3, <2>6, <3>1, <4>1 DEF GreaterOf
      <4>3. QED BY <2>3, <2>6, <3>1, <4>2 DEF GreaterOf
    <3>2. CASE /\ matchIndex'[n][q] = matchIndex[n][q]
               /\ nextIndex'[n][q] <= nextIndex[n][q]
      BY <2>3, <2>6, <3>2
    <3>3. QED BY <1>5, <2>6, <3>1, <3>2, PeerProgress
  <2>7. QED BY <2>4, <2>5, <2>6
<1>6. ASSUME UNCHANGED <<log, peerVars>>,
             \A n \in Server : role'[n] = "LEADER" => role[n] = "LEADER"
      PROVE  ProgressWithinLog'
  BY <1>1, <1>6, ProgressKept
<1>7. ASSUME NEW n \in Server,
             \/ Timeout(n)
             \/ \E m \in Server : \/ SendRequestVote(n, m)
                                  \/ SendAppendEntries(n, m)
                                  \/ SendHeartbeat(n, m)
      PROVE  ProgressWithinLog'
  BY <1>6, <1>7, NodeTypes DEF Timeout, SendRequestVote, SendAppendEntries, SendHeartbeat, nodeVars
<1>8. ASSUME NEW m \in net,
             \/ RefuseVote(m) \/ HandleRequestVote(m) \/ HandleVoteResponse(m)
             \/ StepDown(m)   \/ DropAppendResponse(m) \/ Lose(m)
      PROVE  ProgressWithinLog'
  <2>1. m.to \in Server
    BY KindsOfMessage DEF CoreTyped
  <2>2. QED
    <3>1. CASE RefuseVote(m) \/ HandleVoteResponse(m) \/ DropAppendResponse(m) \/ Lose(m)
      BY <1>6, <3>1 DEF RefuseVote, HandleVoteResponse, DropAppendResponse, Lose, nodeVars
    <3>2. CASE HandleRequestVote(m)
      BY <1>6, <2>1, <3>2, NodeTypes DEF HandleRequestVote
    <3>3. CASE StepDown(m)
      BY <1>6, <2>1, <3>3, NodeTypes DEF StepDown, BecomeFollowerForRemote
    <3>4. QED BY <1>8, <3>1, <3>2, <3>3
<1>9. ASSUME NEW m \in net,
             \/ RefuseStaleAppend(m) \/ LeaderRefusesAppend(m)
             \/ RejectMismatch(m)    \/ FailAppend(m)
      PROVE  ProgressWithinLog'
  <2>1. m.to \in Server
    BY KindsOfMessage DEF CoreTyped
  <2>2. QED
    BY <1>6, <1>9, <2>1, NodeTypes
       DEF RefuseStaleAppend, LeaderRefusesAppend, RejectMismatch, FailAppend,
           FollowLeader, nodeVars
<1>10. QED
  BY <1>2, <1>3, <1>4, <1>5, <1>7, <1>8, <1>9 DEF Next

LEMMA CoreTypedStep == CoreInductive /\ Next => CoreTyped'
<1> SUFFICES ASSUME CoreInductive, Next PROVE CoreTyped'
  OBVIOUS
<1>1. CoreTyped
  BY DEF CoreInductive
<1>2. ASSUME NEW n \in Server, Timeout(n) \/ BecomeLeader(n) \/ Propose(n)
      PROVE  CoreTyped'
  BY <1>1, <1>2, ElectionStepsTyped, BecomeLeaderTyped, ProposeTyped
<1>3. ASSUME NEW n \in Server, NEW m \in Server,
             SendRequestVote(n, m) \/ SendAppendEntries(n, m) \/ SendHeartbeat(n, m)
      PROVE  CoreTyped'
  BY <1>3, ElectionStepsTyped
<1>4. ASSUME NEW m \in net,
             \/ RefuseVote(m) \/ HandleRequestVote(m) \/ HandleVoteResponse(m)
             \/ StepDown(m)   \/ DropAppendResponse(m) \/ Lose(m)
      PROVE  CoreTyped'
  BY <1>1, <1>4, VoteStepsTyped
<1>5. ASSUME NEW m \in net,
             \/ RefuseStaleAppend(m) \/ LeaderRefusesAppend(m)
             \/ RejectMismatch(m)    \/ FailAppend(m)
      PROVE  CoreTyped'
  BY <1>1, <1>5, AppendRefusalsTyped
<1>6. ASSUME NEW m \in net,
             AcceptAppend(m) \/ HandleAppendSuccess(m) \/ HandleAppendRejection(m)
      PROVE  CoreTyped'
  BY <1>1, <1>6, AcceptTyped, AppendResponseTyped
<1>7. QED
  BY <1>2, <1>3, <1>4, <1>5, <1>6 DEF Next

LEMMA CoreInductiveStep == CoreInductive /\ [Next]_vars => CoreInductive'
<1>1. CoreInductive /\ Next => CoreInductive'
  BY CoreTypedStep, ProgressStep DEF CoreInductive
<1>2. CoreInductive /\ UNCHANGED vars => CoreInductive'
  BY DEF CoreInductive, CoreTyped, TypeOK, ProgressWithinLog,
         vars, nodeVars, peerVars, ghosts
<1>3. QED BY <1>1, <1>2

LEMMA CoreInductiveAlways == Spec => []CoreInductive
  BY CoreInductiveInit, CoreInductiveStep, PTL DEF Spec

\* Every variable keeps its type, and a learner its role, in every cluster.
THEOREM CoreTypeCorrect == Spec => []TypeOK
<1>1. CoreInductive => TypeOK
  BY DEF CoreInductive, CoreTyped
<1>2. QED BY <1>1, CoreInductiveAlways, PTL

\* No acknowledgement or rejection moves a leader's view of a peer beyond the
\* end of the leader's own log.
THEOREM ProgressStaysWithinLog == Spec => []ProgressWithinLog
<1>1. CoreInductive => ProgressWithinLog
  BY DEF CoreInductive
<1>2. QED BY <1>1, CoreInductiveAlways, PTL

----------------------------------------------------------------------------
(***************************************************************************)
(* What is committed stays.                                                *)
(***************************************************************************)

LEMMA PrefixesAgree ==
  ASSUME NEW S, NEW s \in Seq(S), NEW t \in Seq(S),
         NEW a \in 0 .. Len(s), NEW b \in 0 .. Len(t), a <= b,
         \A j \in 1 .. a : s[j] = t[j]
  PROVE  IsPrefixOf(SubSeq(s, 1, a), SubSeq(t, 1, b))
<1> DEFINE x == SubSeq(s, 1, a)
           y == SubSeq(t, 1, b)
<1>0. Len(s) \in Nat /\ Len(t) \in Nat /\ a \in Nat /\ b \in Nat
  BY LenProperties
<1>1. x \in Seq(S) /\ Len(x) = a /\ \A j \in 1 .. a : x[j] = s[j]
  <2>1. \A j \in 1 .. a : s[j] \in S
    BY <1>0, ElementOfSeq
  <2>2. QED BY <1>0, <2>1, SubSeqProperties
<1>2. y \in Seq(S) /\ Len(y) = b /\ \A j \in 1 .. b : y[j] = t[j]
  <2>1. \A j \in 1 .. b : t[j] \in S
    BY <1>0, ElementOfSeq
  <2>2. QED BY <1>0, <2>1, SubSeqProperties
<1> HIDE DEF x, y
<1>3. /\ SubSeq(y, 1, a) \in Seq(S) /\ Len(SubSeq(y, 1, a)) = a
      /\ \A j \in 1 .. a : SubSeq(y, 1, a)[j] = y[j]
  <2>1. \A j \in 1 .. a : y[j] \in S
    BY <1>0, <1>2, ElementOfSeq
  <2>2. QED BY <1>0, <2>1, SubSeqProperties
<1>4. \A j \in 1 .. a : SubSeq(y, 1, a)[j] = x[j]
  BY <1>0, <1>1, <1>2, <1>3
<1>5. SubSeq(y, 1, a) = x
  BY <1>1, <1>3, <1>4, SeqEqual
<1>6. IsPrefixOf(x, y)
  BY <1>0, <1>1, <1>2, <1>5 DEF IsPrefixOf
<1>7. QED BY <1>6 DEF x, y

\* No step takes back a commit index or touches an entry up to it.
LEMMA CommittedKept ==
  ASSUME CoreTyped, CoreTyped', [Next]_vars, NEW n \in Server
  PROVE  /\ log[n].commit <= log'[n].commit
         /\ \A j \in 1 .. log[n].commit : log[n].entries[j] = log'[n].entries[j]
<1> DEFINE Kept == /\ log[n].commit <= log'[n].commit
                   /\ \A j \in 1 .. log[n].commit : log[n].entries[j] = log'[n].entries[j]
<1>1. /\ log[n].commit \in 0 .. Len(log[n].entries) /\ Len(log[n].entries) \in Nat
      /\ log'[n].commit \in 0 .. Len(log'[n].entries) /\ Len(log'[n].entries) \in Nat
  BY PlainLog DEF CoreTyped
<1>2. CASE UNCHANGED log
  BY <1>1, <1>2
<1>3. ASSUME NEW s \in Server, Propose(s) PROVE Kept
  <2>1. CASE s = n
    BY <1>1, <1>3, <2>1, ProposeEffect DEF CommitsOwn
  <2>2. CASE s # n
    <3>1. log'[n] = log[n]
      BY <1>3, <2>2, ProposeEffect DEF CoreTyped, TypeOK
    <3>2. QED BY <1>1, <3>1
  <2>3. QED BY <2>1, <2>2
<1>4. ASSUME NEW m \in net, HandleAppendSuccess(m) PROVE Kept
  <2>1. /\ log' = [log EXCEPT ![m.to] = log'[m.to]]
        /\ log'[m.to].entries = log[m.to].entries
        /\ CommitsOwn(m.to, log[m.to], log'[m.to], matchIndex'[m.to])
    BY <1>4, SuccessEffect
  <2>2. CASE m.to = n
    <3>1. log[n].commit <= log'[n].commit
      BY <1>1, <2>1, <2>2 DEF CommitsOwn
    <3>2. QED BY <2>1, <2>2, <3>1
  <2>3. CASE m.to # n
    <3>1. log'[n] = log[n]
      BY <2>1, <2>3 DEF CoreTyped, TypeOK
    <3>2. QED BY <1>1, <3>1
  <2>4. QED BY <2>2, <2>3
<1>5. ASSUME NEW m \in net, AcceptAppend(m) PROVE Kept
  <2>1. CASE m.to = n
    <3>1. AcceptedInto(m, log[n], log'[n]) /\ m \in AppendRequests
      BY <1>5, <2>1, AcceptEffect
    <3>2. PICK merged : /\ Plain(merged)
                        /\ Merged(log[n], m.entries, m.prev, merged)
                        /\ log'[n].entries = merged.entries
      BY <3>1 DEF AcceptedInto
    <3>3. log[n].commit <= log'[n].commit
      BY <1>1, <3>1 DEF AcceptedInto
    <3>4. m.prev \in Nat /\ Len(m.entries) \in Nat
      BY <3>1, LenProperties DEF AppendRequests
    <3>5. \/ merged = log[n]
          \/ \E c \in 1 .. Len(m.entries) :
               /\ log[n].commit < m.prev + c
               /\ \A j \in 1 .. m.prev + c - 1 : merged.entries[j] = log[n].entries[j]
      BY <3>2, Zenon DEF Merged
    <3>6. \A j \in 1 .. log[n].commit : log[n].entries[j] = merged.entries[j]
      BY <1>1, <3>4, <3>5
    <3>7. QED BY <3>2, <3>3, <3>6
  <2>2. CASE m.to # n
    <3>1. log'[n] = log[n]
      BY <1>5, <2>2, AcceptEffect DEF CoreTyped, TypeOK
    <3>2. QED BY <1>1, <3>1
  <2>3. QED BY <2>1, <2>2
<1>6. ASSUME NEW s \in Server, Timeout(s) \/ BecomeLeader(s) PROVE UNCHANGED log
  BY <1>6 DEF Timeout, BecomeLeader
<1>7. ASSUME NEW s \in Server, NEW m,
             SendRequestVote(s, m) \/ SendAppendEntries(s, m) \/ SendHeartbeat(s, m)
      PROVE  UNCHANGED log
  BY <1>7 DEF SendRequestVote, SendAppendEntries, SendHeartbeat
<1>8. ASSUME NEW m \in net,
             \/ RefuseVote(m) \/ HandleRequestVote(m) \/ HandleVoteResponse(m)
             \/ StepDown(m) \/ DropAppendResponse(m) \/ Lose(m)
             \/ RefuseStaleAppend(m) \/ LeaderRefusesAppend(m)
             \/ RejectMismatch(m) \/ FailAppend(m) \/ HandleAppendRejection(m)
      PROVE  UNCHANGED log
  BY <1>8 DEF RefuseVote, HandleRequestVote, HandleVoteResponse, StepDown,
              DropAppendResponse, Lose, RefuseStaleAppend, LeaderRefusesAppend,
              RejectMismatch, FailAppend, HandleAppendRejection
<1>9. UNCHANGED vars => UNCHANGED log
  BY DEF vars
<1>10. QED
  BY <1>2, <1>3, <1>4, <1>5, <1>6, <1>7, <1>8, <1>9 DEF Next

\* Whatever goes wrong between the nodes, no node takes back or replaces an
\* entry it has committed: the only steps that shorten a log are the merges, and
\* TruncateSuffix refuses to cut at or below the commit index.
THEOREM CommittedStays == Spec => CommittedNeverRewritten
<1>1. CoreInductive /\ CoreInductive' /\ [Next]_vars =>
         \A n \in Server : IsPrefixOf(CommittedPrefix(n), CommittedPrefix(n)')
  <2> SUFFICES ASSUME CoreInductive, CoreInductive', [Next]_vars, NEW n \in Server
               PROVE  IsPrefixOf(CommittedPrefix(n), CommittedPrefix(n)')
    OBVIOUS
  <2>1. CoreTyped /\ CoreTyped'
    BY DEF CoreInductive
  <2>2. /\ log[n].entries \in Seq(StoredEntry) /\ log'[n].entries \in Seq(StoredEntry)
        /\ log[n].commit \in 0 .. Len(log[n].entries)
        /\ log'[n].commit \in 0 .. Len(log'[n].entries)
    BY <2>1, PlainLog DEF CoreTyped
  <2>3. QED BY <2>1, <2>2, CommittedKept, PrefixesAgree DEF CommittedPrefix
<1>2. QED BY <1>1, CoreInductiveAlways, PTL DEF Spec, CommittedNeverRewritten

----------------------------------------------------------------------------
(***************************************************************************)
(* One leader per term.  A node that answers in a later term forgets the   *)
(* vote of the earlier one, so the state does not hold the votes an        *)
(* election was won with.  The invariant says that there is a record b of  *)
(* the vote of every node in every term, votedFor being its last line,     *)
(* that accounts for all grants on the way, all tallies and all elections. *)
(***************************************************************************)
BallotRecord == [Server -> [Terms -> Server \cup {Nobody}]]

\* No vote in a term not reached yet; votedFor is the vote in the current one.
BallotsUpToDate(b) ==
    \A v \in Server : /\ \A t \in Terms : t > currentTerm[v] => b[v][t] = Nobody
                      /\ b[v][currentTerm[v]] = votedFor[v]

\* Every grant on the way, and every one counted, is a vote that was cast.
GrantsAreBallots(b) ==
    /\ \A m \in net : m.type = "VoteResponse" /\ m.granted =>
          m.term <= currentTerm[m.from] /\ b[m.from][m.term] = m.to
    /\ \A n \in Server : role[n] = "CANDIDATE" =>
          votes[n] \subseteq {v \in Voter : b[v][currentTerm[n]] = n}

\* Every leader was elected by a majority, once.
ElectedByBallots(b) ==
    \A e \in elected :
        /\ \E Q \in Quorums : \A v \in Q : b[v][e[1]] = e[2]
        /\ e[1] <= currentTerm[e[2]]
        /\ e[1] = currentTerm[e[2]] => role[e[2]] # "CANDIDATE"

Ballots(b) == BallotsUpToDate(b) /\ GrantsAreBallots(b) /\ ElectedByBallots(b)

ElectionInductive == \E b \in BallotRecord : Ballots(b)

\* What a step does to terms, votes, tallies and elections.
NoVoteTakenBack ==
    \A v \in Server :
        /\ currentTerm'[v] >= currentTerm[v]
        /\ currentTerm'[v] = currentTerm[v] /\ votedFor[v] # Nobody =>
              votedFor'[v] = votedFor[v]

GrantsAreVotes ==
    \A m \in net' : m.type = "VoteResponse" /\ m.granted =>
        \/ m \in net
        \/ m.term = currentTerm'[m.from] /\ votedFor'[m.from] = m.to

CandidaciesGrow ==
    \A n \in Server : role'[n] = "CANDIDATE" =>
        \/ /\ role[n] = "CANDIDATE" /\ currentTerm'[n] = currentTerm[n]
           /\ \/ votes'[n] = votes[n]
              \/ \E m \in net : /\ m.type = "VoteResponse" /\ m.granted
                               /\ m.to = n /\ m.term = currentTerm[n]
                               /\ votes'[n] = votes[n] \cup {m.from}
        \/ /\ n \in Voter /\ currentTerm'[n] > currentTerm[n]
           /\ votedFor'[n] = n /\ votes'[n] = {n}

LeadersAreElected ==
    \A e \in elected' \ elected :
        /\ e \in Terms \X Server
        /\ role[e[2]] = "CANDIDATE" /\ e[1] = currentTerm[e[2]]
        /\ Cardinality(votes[e[2]]) >= Majority
        /\ role'[e[2]] = "LEADER" /\ currentTerm'[e[2]] = currentTerm[e[2]]

ElectionStep == NoVoteTakenBack /\ GrantsAreVotes /\ CandidaciesGrow /\ LeadersAreElected

\* Steps that cast no vote and count none.
LEMMA QuietStep ==
  ASSUME CoreTyped, UNCHANGED <<nodeVars, votes, elected>>,
         \A m \in net' \ net : ~(m.type = "VoteResponse" /\ m.granted)
  PROVE  ElectionStep
BY NodeTypes DEF ElectionStep, NoVoteTakenBack, GrantsAreVotes, CandidaciesGrow,
                 LeadersAreElected, nodeVars

\* Steps in which one node takes over a term from a message.
LEMMA FollowStep ==
  ASSUME CoreTyped, NEW n \in Server, NEW t \in Terms, t >= currentTerm[n],
         UpdateCurrentTerm(n, t),
         role' = [role EXCEPT ![n] = role'[n]],
         role'[n] = "CANDIDATE" => role[n] = "CANDIDATE" /\ t = currentTerm[n],
         UNCHANGED <<votes, elected>>,
         \A m \in net' \ net : ~(m.type = "VoteResponse" /\ m.granted)
  PROVE  ElectionStep
<1>1. /\ currentTerm' = [currentTerm EXCEPT ![n] = t]
      /\ votedFor' = [votedFor EXCEPT ![n] = IF t > currentTerm[n] THEN Nobody ELSE @]
  BY TermUpdate DEF UpdateCurrentTerm
<1>2. /\ \A v \in Server \ {n} : /\ currentTerm'[v] = currentTerm[v]
                                /\ votedFor'[v] = votedFor[v] /\ role'[v] = role[v]
      /\ currentTerm'[n] = t
      /\ votedFor'[n] = IF t > currentTerm[n] THEN Nobody ELSE votedFor[n]
  BY <1>1, NodeTypes
<1>3. \A v \in Server : currentTerm[v] \in Nat /\ t \in Nat
  BY NodeTypes, TermsAreNumbers
<1>4. NoVoteTakenBack
  BY <1>2, <1>3 DEF NoVoteTakenBack
<1>5. CandidaciesGrow
  BY <1>2, <1>3 DEF CandidaciesGrow
<1>6. GrantsAreVotes /\ LeadersAreElected
  BY DEF GrantsAreVotes, LeadersAreElected
<1>7. QED BY <1>4, <1>5, <1>6 DEF ElectionStep

LEMMA EveryStepIsElectionStep ==
  ASSUME CoreTyped, [Next]_vars
  PROVE  ElectionStep
<1>0. /\ \A m \in net : /\ m.to \in Server /\ m.from \in Server /\ m.term \in Terms
                       /\ m.term \in Nat
      /\ \A n \in Server : currentTerm[n] \in Nat
  BY KindsOfMessage, NodeTypes, TermsAreNumbers DEF CoreTyped
<1>1. CASE UNCHANGED vars
  BY <1>1, QuietStep DEF vars, ghosts
<1>2. ASSUME NEW n \in Server, Timeout(n) PROVE ElectionStep
  <2>1. /\ currentTerm'[n] = currentTerm[n] + 1 /\ votedFor'[n] = n /\ votes'[n] = {n}
        /\ \A v \in Server \ {n} : /\ currentTerm'[v] = currentTerm[v]
                                  /\ votedFor'[v] = votedFor[v] /\ role'[v] = role[v]
                                  /\ votes'[v] = votes[v]
        /\ UNCHANGED <<net, elected>>
    BY <1>2, NodeTypes DEF Timeout, ghosts
  <2>2. n \in Voter
    BY <1>2, NodeTypes DEF Timeout, Voter
  <2>3. QED BY <1>0, <2>1, <2>2 DEF ElectionStep, NoVoteTakenBack, GrantsAreVotes,
                CandidaciesGrow, LeadersAreElected
<1>3. ASSUME NEW n \in Server, BecomeLeader(n) PROVE ElectionStep
  <2>1. /\ UNCHANGED <<currentTerm, votedFor, votes, net>>
        /\ role'[n] = "LEADER" /\ role[n] = "CANDIDATE" /\ Cardinality(votes[n]) >= Majority
        /\ \A v \in Server \ {n} : role'[v] = role[v]
        /\ elected' = elected \cup {<<currentTerm[n], n>>}
    BY <1>3, NodeTypes DEF BecomeLeader
  <2>2. <<currentTerm[n], n>> \in Terms \X Server
    BY NodeTypes
  <2>3. QED BY <1>0, <2>1, <2>2 DEF ElectionStep, NoVoteTakenBack, GrantsAreVotes,
                CandidaciesGrow, LeadersAreElected
<1>4. ASSUME NEW n \in Server, Propose(n) PROVE ElectionStep
  BY <1>4, QuietStep DEF Propose, ghosts
<1>5. ASSUME NEW n \in Server, NEW m \in Server,
             SendRequestVote(n, m) \/ SendAppendEntries(n, m) \/ SendHeartbeat(n, m)
      PROVE  ElectionStep
  BY <1>5, QuietStep DEF SendRequestVote, SendAppendEntries, SendHeartbeat, Send,
                         AppendRequest, ghosts
<1>6. ASSUME NEW m \in net, RefuseVote(m) PROVE ElectionStep
  BY <1>6, QuietStep DEF RefuseVote, Reply, VoteResponse, ghosts
<1>7. ASSUME NEW m \in net, HandleRequestVote(m) PROVE ElectionStep
  <2> DEFINE n == m.to
             answer == VoteResponse(m, m.term, VoteGranted(m))
  <2>1. /\ n \in Server /\ m.term >= currentTerm[n] /\ m.term \in Nat
        /\ currentTerm'[n] = m.term
        /\ votedFor'[n] = IF VoteGranted(m) THEN m.from
                          ELSE IF m.term > currentTerm[n] THEN Nobody ELSE votedFor[n]
        /\ role'[n] = IF m.term > currentTerm[n] THEN "FOLLOWER" ELSE role[n]
        /\ \A v \in Server \ {n} : /\ currentTerm'[v] = currentTerm[v]
                                  /\ votedFor'[v] = votedFor[v] /\ role'[v] = role[v]
        /\ UNCHANGED <<votes, elected>>
        /\ net' = (net \ {m}) \cup {answer}
    BY <1>0, <1>7, NodeTypes DEF HandleRequestVote, Reply, ghosts
  <2>2. VoteGranted(m) => m.term > currentTerm[n] \/ votedFor[n] \in {Nobody, m.from}
    BY DEF VoteGranted
  <2>3. NoVoteTakenBack
    BY <1>0, <2>1, <2>2 DEF NoVoteTakenBack
  <2>4. CandidaciesGrow
    BY <1>0, <2>1 DEF CandidaciesGrow
  <2>5. answer.granted => answer.term = currentTerm'[answer.from] /\ votedFor'[answer.from] = answer.to
    BY <2>1 DEF VoteResponse
  <2> HIDE DEF answer
  <2>6. GrantsAreVotes /\ LeadersAreElected
    BY <2>1, <2>5 DEF GrantsAreVotes, LeadersAreElected
  <2>7. QED BY <2>3, <2>4, <2>6 DEF ElectionStep
<1>8. ASSUME NEW m \in net, HandleVoteResponse(m) PROVE ElectionStep
  <2>1. UNCHANGED <<role, currentTerm, votedFor, elected>> /\ net' \subseteq net
    BY <1>8 DEF HandleVoteResponse, Consume, nodeVars, ghosts
  <2>2. /\ \A v \in Server \ {m.to} : votes'[v] = votes[v]
        /\ \/ votes'[m.to] = votes[m.to]
           \/ /\ m.term = currentTerm[m.to] /\ m.granted /\ m.type = "VoteResponse"
              /\ votes'[m.to] = votes[m.to] \cup {m.from}
    BY <1>0, <1>8, NodeTypes DEF HandleVoteResponse
  <2>3. QED BY <1>0, <2>1, <2>2 DEF ElectionStep, NoVoteTakenBack, GrantsAreVotes,
                CandidaciesGrow, LeadersAreElected
<1>9. ASSUME NEW m \in net, StepDown(m) PROVE ElectionStep
  <2> DEFINE n == m.to
  <2>1. /\ n \in Server /\ m.term \in Terms /\ m.term >= currentTerm[n]
        /\ UpdateCurrentTerm(n, m.term)
        /\ role' = [role EXCEPT ![n] = role'[n]] /\ role'[n] # "CANDIDATE"
        /\ UNCHANGED <<votes, elected>> /\ net' \subseteq net
    <3>1. /\ UpdateCurrentTerm(n, m.term) /\ m.term > currentTerm[n]
          /\ role' = [role EXCEPT ![n] = IF @ = "LEARNER" THEN @ ELSE "FOLLOWER"]
          /\ UNCHANGED <<votes, elected>> /\ net' = net \ {m}
      BY <1>9 DEF StepDown, BecomeFollowerForRemote, Consume, ghosts
    <3>2. n \in Server /\ m.term \in Terms /\ m.term >= currentTerm[n]
      BY <1>0, <3>1
    <3>3. role' = [role EXCEPT ![n] = role'[n]] /\ role'[n] # "CANDIDATE"
      BY <3>1, <3>2, NodeTypes
    <3>4. QED BY <3>1, <3>2, <3>3
  <2> HIDE DEF n
  <2>2. QED BY <2>1, FollowStep
<1>10. ASSUME NEW m \in net, RefuseStaleAppend(m) PROVE ElectionStep
  BY <1>10, QuietStep DEF RefuseStaleAppend, Reply, AppendRejected, ghosts
<1>11. ASSUME NEW m \in net, LeaderRefusesAppend(m) PROVE ElectionStep
  BY <1>0, <1>11, NodeTypes, FollowStep DEF LeaderRefusesAppend, Reply, AppendRejected
<1>12. ASSUME NEW m \in net, FollowLeader(m), UNCHANGED <<votes, elected>>,
              \A r \in net' \ net : r.type = "AppendResponse"
       PROVE  ElectionStep
  BY <1>0, <1>12, NodeTypes, FollowStep DEF FollowLeader
<1>13. ASSUME NEW m \in net, RejectMismatch(m) \/ AcceptAppend(m) \/ FailAppend(m)
       PROVE  ElectionStep
  <2>1. FollowLeader(m) /\ UNCHANGED <<votes, elected>>
    BY <1>13 DEF RejectMismatch, AcceptAppend, FailAppend, ghosts
  <2>2. \A r \in net' \ net : r.type = "AppendResponse"
    BY <1>13 DEF RejectMismatch, AcceptAppend, FailAppend, Reply, Consume,
                 AppendRejected, AppendAccepted
  <2>3. QED BY <1>12, <2>1, <2>2
<1>14. ASSUME NEW m \in net,
              \/ HandleAppendSuccess(m) \/ HandleAppendRejection(m)
              \/ DropAppendResponse(m)  \/ Lose(m)
       PROVE  ElectionStep
  BY <1>14, QuietStep DEF HandleAppendSuccess, HandleAppendRejection,
                          DropAppendResponse, Lose, Consume, ghosts
<1>15. QED
  BY <1>1, <1>2, <1>3, <1>4, <1>5, <1>6, <1>7, <1>8, <1>9, <1>10, <1>11, <1>13, <1>14
     DEF Next

\* The record after a step: every node's vote in the term it is then in is its
\* votedFor, and the lines of other terms stay.
NextRecord(b) ==
    [v \in Server |-> [t \in Terms |-> IF t = currentTerm'[v] THEN votedFor'[v] ELSE b[v][t]]]

\* A vote once cast stays in the record.
LEMMA BallotsStay ==
  ASSUME CoreTyped, CoreTyped', ElectionStep, NEW b \in BallotRecord, BallotsUpToDate(b)
  PROVE  /\ NextRecord(b) \in BallotRecord
         /\ \A v \in Server, t \in Terms : b[v][t] # Nobody => NextRecord(b)[v][t] = b[v][t]
         /\ \A v \in Server : NextRecord(b)[v][currentTerm'[v]] = votedFor'[v]
<1>1. /\ \A v \in Server : currentTerm[v] \in Terms /\ currentTerm'[v] \in Terms
      /\ votedFor' \in [Server -> Server \cup {Nobody}]
  BY DEF CoreTyped, TypeOK, Terms
<1>2. NextRecord(b) \in BallotRecord
  BY <1>1 DEF NextRecord, BallotRecord
<1>3. \A v \in Server, t \in Terms :
         NextRecord(b)[v][t] = IF t = currentTerm'[v] THEN votedFor'[v] ELSE b[v][t]
  BY DEF NextRecord
<1>4. ASSUME NEW v \in Server, NEW t \in Terms, b[v][t] # Nobody, t = currentTerm'[v]
      PROVE  votedFor'[v] = b[v][t]
  <2>1. ~(t > currentTerm[v])
    BY <1>4 DEF BallotsUpToDate
  <2>2. t = currentTerm[v]
    <3>1. t >= currentTerm[v]
      BY <1>4 DEF ElectionStep, NoVoteTakenBack
    <3>2. t \in Nat /\ currentTerm[v] \in Nat
      BY <1>1, TermsAreNumbers
    <3>3. QED BY <2>1, <3>1, <3>2
  <2>3. QED BY <1>4, <2>2 DEF BallotsUpToDate, ElectionStep, NoVoteTakenBack
<1>5. QED BY <1>1, <1>2, <1>3, <1>4

LEMMA BallotsStep ==
  ASSUME CoreTyped, CoreTyped', ElectionStep, NEW b \in BallotRecord, Ballots(b),
         NEW c, c = NextRecord(b)
  PROVE  c \in BallotRecord /\ Ballots(c)'
<1>0. /\ c \in BallotRecord
      /\ \A v \in Server, t \in Terms : b[v][t] # Nobody => c[v][t] = b[v][t]
      /\ \A v \in Server : c[v][currentTerm'[v]] = votedFor'[v]
      /\ \A v \in Server, t \in Terms : t # currentTerm'[v] => c[v][t] = b[v][t]
  <2>1. \A v \in Server, t \in Terms : t # currentTerm'[v] => c[v][t] = b[v][t]
    BY DEF NextRecord
  <2>2. QED BY <2>1, BallotsStay DEF Ballots
<1>1. /\ \A v \in Server : /\ currentTerm[v] \in Terms /\ currentTerm'[v] \in Terms
                           /\ currentTerm[v] \in Nat /\ currentTerm'[v] \in Nat
      /\ \A t \in Terms : t \in Nat
      /\ Nobody \notin Server /\ Voter \subseteq Server
      /\ \A m \in net \cup net' : m.to \in Server /\ m.from \in Server /\ m.term \in Terms
      /\ \A m \in net' : m.type = "VoteResponse" => m.from \in Voter
  <2>1. \A v \in Server : currentTerm[v] \in Terms /\ currentTerm'[v] \in Terms
    BY DEF CoreTyped, TypeOK, Terms
  <2>2. \A m \in net \cup net' : m \in Message
    BY DEF CoreTyped
  <2>3. \A v \in Server : currentTerm[v] \in Nat /\ currentTerm'[v] \in Nat
    BY <2>1, TermsAreNumbers
  <2>4. \A m \in net \cup net' : m.to \in Server /\ m.from \in Server /\ m.term \in Terms
    BY <2>2, KindsOfMessage
  <2>5. \A m \in net' : m.type = "VoteResponse" => m.from \in Voter
    BY <2>2, KindsOfMessage DEF VoteResponses
  <2>6. Nobody \notin Server /\ Voter \subseteq Server
    BY ServerAssumption DEF Voter
  <2>7. QED BY <2>1, <2>3, <2>4, <2>5, <2>6, TermsAreNumbers
<1>2. \A v \in Server : currentTerm'[v] >= currentTerm[v]
  BY DEF ElectionStep, NoVoteTakenBack
<1>3. BallotsUpToDate(c)'
  <2>1. ASSUME NEW v \in Server, NEW t \in Terms, t > currentTerm'[v] PROVE c[v][t] = Nobody
    <3>1. t > currentTerm[v] /\ t # currentTerm'[v]
      BY <1>1, <1>2, <2>1
    <3>2. QED BY <1>0, <3>1 DEF Ballots, BallotsUpToDate
  <2>2. QED BY <1>0, <2>1 DEF BallotsUpToDate
<1>4. ASSUME NEW m \in net, m.type = "VoteResponse", m.granted
      PROVE  m.term <= currentTerm[m.from] /\ b[m.from][m.term] = m.to
                /\ c[m.from][m.term] = m.to
  <2>1. m.term <= currentTerm[m.from] /\ b[m.from][m.term] = m.to
    BY <1>4 DEF Ballots, GrantsAreBallots
  <2>2. QED BY <1>0, <1>1, <2>1
<1>5. ASSUME NEW m \in net', m.type = "VoteResponse", m.granted
      PROVE  m.term <= currentTerm'[m.from] /\ c[m.from][m.term] = m.to
  <2>1. CASE m \in net
    <3>1. m.term <= currentTerm[m.from] /\ c[m.from][m.term] = m.to
      BY <1>4, <1>5, <2>1
    <3>2. QED BY <1>1, <1>2, <3>1
  <2>2. CASE m.term = currentTerm'[m.from] /\ votedFor'[m.from] = m.to
    BY <1>0, <1>1, <2>2
  <2>3. QED BY <1>5, <2>1, <2>2 DEF ElectionStep, GrantsAreVotes
<1>6. ASSUME NEW n \in Server, role'[n] = "CANDIDATE", NEW v \in votes'[n]
      PROVE  v \in Voter /\ c[v][currentTerm'[n]] = n
  <2>1. CASE /\ role[n] = "CANDIDATE" /\ currentTerm'[n] = currentTerm[n]
             /\ v \in votes[n]
    <3>1. v \in Voter /\ b[v][currentTerm[n]] = n
      BY <2>1 DEF Ballots, GrantsAreBallots
    <3>2. QED BY <1>0, <1>1, <2>1, <3>1
  <2>2. ASSUME currentTerm'[n] = currentTerm[n],
               NEW m \in net, m.type = "VoteResponse", m.granted,
               m.to = n, m.term = currentTerm[n], v = m.from
        PROVE  v \in Voter /\ c[v][currentTerm'[n]] = n
    <3>1. m.from \in Voter
      BY <2>2, KindsOfMessage DEF CoreTyped, VoteResponses
    <3>2. QED BY <1>4, <2>2, <3>1
  <2>3. CASE n \in Voter /\ votedFor'[n] = n /\ v = n
    BY <1>0, <1>1, <2>3
  <2>4. QED BY <1>6, <2>1, <2>2, <2>3 DEF ElectionStep, CandidaciesGrow
<1>7. GrantsAreBallots(c)'
  BY <1>5, <1>6 DEF GrantsAreBallots
<1>8. ASSUME NEW e \in elected'
      PROVE  /\ \E Q \in Quorums : \A v \in Q : c[v][e[1]] = e[2]
             /\ e[1] <= currentTerm'[e[2]]
             /\ e[1] = currentTerm'[e[2]] => role'[e[2]] # "CANDIDATE"
  <2>1. CASE e \in elected
    <3>1. e[1] \in Terms /\ e[2] \in Server
      BY <2>1, NodeTypes
    <3>2. PICK Q \in Quorums : \A v \in Q : b[v][e[1]] = e[2]
      BY <2>1 DEF Ballots, ElectedByBallots
    <3>3. \A v \in Q : c[v][e[1]] = e[2]
      BY <1>0, <1>1, <3>1, <3>2 DEF Quorums
    <3>4. e[1] <= currentTerm[e[2]] /\ (e[1] = currentTerm[e[2]] => role[e[2]] # "CANDIDATE")
      BY <2>1 DEF Ballots, ElectedByBallots
    <3>5. e[1] <= currentTerm'[e[2]]
      BY <1>1, <1>2, <3>1, <3>4
    <3>6. ASSUME e[1] = currentTerm'[e[2]], role'[e[2]] = "CANDIDATE" PROVE FALSE
      <4>1. e[1] = currentTerm[e[2]] /\ currentTerm'[e[2]] = currentTerm[e[2]]
        BY <1>1, <1>2, <3>1, <3>4, <3>6
      <4>2. role[e[2]] = "CANDIDATE"
        BY <1>1, <3>1, <3>6, <4>1 DEF ElectionStep, CandidaciesGrow
      <4>3. QED BY <3>4, <4>1, <4>2
    <3>7. QED BY <3>3, <3>5, <3>6
  <2>2. CASE e \notin elected
    <3>1. /\ e[1] \in Terms /\ e[2] \in Server
          /\ role[e[2]] = "CANDIDATE" /\ e[1] = currentTerm[e[2]]
          /\ Cardinality(votes[e[2]]) >= Majority
          /\ role'[e[2]] = "LEADER" /\ currentTerm'[e[2]] = currentTerm[e[2]]
      BY <2>2 DEF ElectionStep, LeadersAreElected
    <3>2. votes[e[2]] \subseteq {v \in Voter : b[v][e[1]] = e[2]}
      BY <3>1 DEF Ballots, GrantsAreBallots
    <3>3. votes[e[2]] \in Quorums
      BY <3>1, <3>2 DEF Quorums
    <3>4. \A v \in votes[e[2]] : c[v][e[1]] = e[2]
      BY <1>0, <1>1, <3>1, <3>2
    <3>5. QED BY <1>1, <3>1, <3>3, <3>4
  <2>3. QED BY <2>1, <2>2
<1>9. ElectedByBallots(c)'
  BY <1>8 DEF ElectedByBallots
<1>10. QED BY <1>0, <1>3, <1>7, <1>9 DEF Ballots

LEMMA BallotsInit == Init => ElectionInductive
<1> SUFFICES ASSUME Init PROVE ElectionInductive
  OBVIOUS
<1> DEFINE b == [v \in Server |-> [t \in Terms |-> Nobody]]
<1>1. b \in BallotRecord
  BY DEF BallotRecord
<1>2. \A v \in Server, t \in Terms : b[v][t] = Nobody
  OBVIOUS
<1> HIDE DEF b
<1>3. Ballots(b)
  BY <1>2, TermsAreNumbers DEF Init, Ballots, BallotsUpToDate, GrantsAreBallots, ElectedByBallots
<1>4. QED BY <1>1, <1>3 DEF ElectionInductive

LEMMA ElectionInductiveStep ==
  CoreInductive /\ CoreInductive' /\ ElectionInductive /\ [Next]_vars => ElectionInductive'
<1> SUFFICES ASSUME CoreInductive, CoreInductive', ElectionInductive, [Next]_vars
             PROVE  ElectionInductive'
  OBVIOUS
<1>1. CoreTyped /\ CoreTyped' /\ ElectionStep
  BY EveryStepIsElectionStep DEF CoreInductive
<1>2. PICK b \in BallotRecord : Ballots(b)
  BY DEF ElectionInductive
<1>3. PICK c : c = NextRecord(b)
  OBVIOUS
<1>4. c \in BallotRecord /\ Ballots(c)'
  BY <1>1, <1>2, <1>3, BallotsStep
<1>5. QED BY <1>4 DEF ElectionInductive

\* Two majorities of the voters share a voter.
LEMMA QuorumsMeet ==
  ASSUME NEW Q \in Quorums, NEW R \in Quorums
  PROVE  Q \cap R # {}
<1>1. IsFiniteSet(Voter) /\ Cardinality(Voter) \in Nat /\ Q \subseteq Voter /\ R \subseteq Voter
  BY ServerAssumption, FS_Subset, FS_CardinalityType DEF Voter, Quorums
<1>2. Cardinality(Q) \in Nat /\ Cardinality(R) \in Nat
  BY <1>1, FS_Subset, FS_CardinalityType
<1>3. \A n \in Nat : 2 * (n \div 2 + 1) > n /\ n \div 2 + 1 \in Nat
  BY SMT
<1>4. Cardinality(Q) + Cardinality(R) > Cardinality(Voter)
  <2>1. Cardinality(Q) >= Majority /\ Cardinality(R) >= Majority
    BY DEF Quorums
  <2>2. 2 * Majority > Cardinality(Voter) /\ Majority \in Nat
    BY <1>1, <1>3 DEF Majority
  <2>3. QED BY <1>1, <1>2, <2>1, <2>2
<1>5. QED BY <1>1, <1>2, <1>4, FS_MajoritiesIntersect

LEMMA ElectionInductiveAlways == Spec => [](CoreInductive /\ ElectionInductive)
<1>1. Init => CoreInductive /\ ElectionInductive
  BY CoreInductiveInit, BallotsInit
<1>2. (CoreInductive /\ ElectionInductive) /\ [Next]_vars
         => (CoreInductive /\ ElectionInductive)'
  BY CoreInductiveStep, ElectionInductiveStep
<1>3. QED BY <1>1, <1>2, PTL DEF Spec

LEMMA BallotsElectOne ==
  ASSUME CoreTyped, NEW b \in BallotRecord, Ballots(b)
  PROVE  ElectionSafety
<1> SUFFICES ASSUME NEW e \in elected, NEW f \in elected, e[1] = f[1]
             PROVE  e[2] = f[2]
  BY DEF ElectionSafety
<1>1. PICK Q \in Quorums : \A v \in Q : b[v][e[1]] = e[2]
  BY DEF Ballots, ElectedByBallots
<1>2. PICK R \in Quorums : \A v \in R : b[v][f[1]] = f[2]
  BY DEF Ballots, ElectedByBallots
<1>3. PICK v : v \in Q /\ v \in R
  BY QuorumsMeet
<1>4. QED BY <1>1, <1>2, <1>3

\* A term elects at most one leader, for any number of voters and learners and
\* however requests and grants are lost, delayed, repeated or reordered: a vote
\* in the record is never taken back, and two majorities share a voter.
THEOREM OneElectionPerTerm == Spec => []ElectionSafety
<1>1. CoreInductive /\ ElectionInductive => ElectionSafety
  BY BallotsElectOne DEF CoreInductive, ElectionInductive
<1>2. QED BY <1>1, ElectionInductiveAlways, PTL

----------------------------------------------------------------------------
(***************************************************************************)
(* Proofs that the logs of a cluster match, and that no two nodes commit   *)
(* different entries, as long as the leaks RaftCore records have not       *)
(* happened.  The state forgets what an earlier leader's log was and who   *)
(* acknowledged it, so the inductive invariants say that there are         *)
(* histories the state agrees with:                                        *)
(*   led[t]      the log of the leader of term t, empty if it has none,    *)
(*   acked[v][t] how far node v has acknowledged the log led[t],           *)
(*   base[n][u]  the log with which n asked for votes in term u,           *)
(* and the record b of votes above.  LogsMatch needs the first (Matching), *)
(* what is committed needs all four (CommitInductive).                     *)
(***************************************************************************)

Entries == Seq(StoredEntry)

Ledger == [Nat -> Entries]

Elected(t) == \E n \in Server : <<t, n>> \in elected

\* The first i entries of s and of r are there, and the same.
Agree(s, r, i) ==
    i <= Len(s) /\ i <= Len(r) /\ \A j \in 1 .. i : s[j] = r[j]

\* Up to any entry, s is what the leader of that entry's term had.
Traced(led, s) == \A i \in 1 .. Len(s) : Agree(s, led[s[i].term], i)

\* What an AppendEntries request carries stands in log s, in the place it names.
Fragment(m, s) ==
    /\ m.prev + Len(m.entries) <= Len(s)
    /\ IF m.prev = 0 THEN m.prevTerm = 0 ELSE s[m.prev].term = m.prevTerm
    /\ \A k \in 1 .. Len(m.entries) : m.entries[k] = s[m.prev + k]

Matching(led) ==
    /\ \A n \in Server : Traced(led, log[n].entries)
    /\ \A t \in Nat : Traced(led, led[t])
    /\ \A t \in Nat : led[t] # << >> => Elected(t)
    /\ \A n \in Server : role[n] = "LEADER" =>
          <<currentTerm[n], n>> \in elected /\ led[currentTerm[n]] = log[n].entries
    /\ \A m \in net : m.type = "AppendEntries" => Fragment(m, led[m.term])

\* A candidate that has the votes is the first to lead its term.
FreshTerms ==
    \A n \in Server : role[n] = "CANDIDATE" /\ Cardinality(votes[n]) >= Majority =>
        ~Elected(currentTerm[n])

----------------------------------------------------------------------------
(***************************************************************************)
(* Facts about sequences of entries.                                       *)
(***************************************************************************)

LEMMA EntriesOf ==
  ASSUME NEW s \in Entries
  PROVE  Len(s) \in Nat /\ \A i \in 1 .. Len(s) : s[i] \in StoredEntry /\ s[i].term \in Nat \ {0}
<1>1. Len(s) \in Nat /\ \A i \in 1 .. Len(s) : s[i] \in StoredEntry
  BY LenProperties, ElementOfSeq DEF Entries
<1>2. QED BY <1>1, TermAssumption DEF StoredEntry

\* Two sequences with the same length and elements are the same.
LEMMA SameEntries ==
  ASSUME NEW s \in Entries, NEW r \in Entries, Len(s) = Len(r),
         \A j \in 1 .. Len(s) : s[j] = r[j]
  PROVE  s = r
BY SeqEqual, LenProperties DEF Entries

\* Two traced sequences that have the same term at i are the same up to there.
LEMMA TracedAgree ==
  ASSUME NEW led, NEW s \in Entries, NEW r \in Entries, Traced(led, s), Traced(led, r),
         NEW i \in 1 .. Len(s), i <= Len(r), s[i].term = r[i].term
  PROVE  Agree(s, r, i)
<1>1. Len(s) \in Nat /\ Len(r) \in Nat
  BY EntriesOf
<1>2. Agree(s, led[s[i].term], i) /\ Agree(r, led[s[i].term], i)
  BY <1>1 DEF Traced
<1>3. QED BY <1>1, <1>2 DEF Agree

\* A history only grows: what was traced stays traced.
Grows(led, next) == \A t \in Nat : Agree(led[t], next[t], Len(led[t]))

LEMMA TracedKept ==
  ASSUME NEW led \in Ledger, NEW next \in Ledger, Grows(led, next),
         NEW s \in Entries, Traced(led, s)
  PROVE  Traced(next, s)
<1> SUFFICES ASSUME NEW i \in 1 .. Len(s) PROVE Agree(s, next[s[i].term], i)
  BY DEF Traced
<1> DEFINE t == s[i].term
<1>1. t \in Nat /\ Len(s) \in Nat
  BY EntriesOf
<1>2. Len(led[t]) \in Nat /\ Len(next[t]) \in Nat
  BY <1>1, EntriesOf DEF Ledger
<1>3. i <= Len(s) /\ i <= Len(led[t]) /\ \A j \in 1 .. i : s[j] = led[t][j]
  BY DEF Traced, Agree
<1>4. Len(led[t]) <= Len(next[t]) /\ \A j \in 1 .. Len(led[t]) : led[t][j] = next[t][j]
  BY <1>1 DEF Grows, Agree
<1> HIDE DEF t
<1>5. QED BY <1>1, <1>2, <1>3, <1>4 DEF Agree, t

LEMMA GrowsAt ==
  ASSUME NEW led \in Ledger, NEW next \in Ledger, NEW t \in Nat,
         Agree(led[t], next[t], Len(led[t])), \A u \in Nat \ {t} : next[u] = led[u]
  PROVE  Grows(led, next)
<1> SUFFICES ASSUME NEW u \in Nat, u # t PROVE Agree(led[u], next[u], Len(led[u]))
  BY DEF Grows
<1>1. next[u] = led[u] /\ Len(led[u]) \in Nat
  BY EntriesOf DEF Ledger
<1>2. QED BY <1>1 DEF Agree

LEMMA FragmentKept ==
  ASSUME NEW s \in Entries, NEW r \in Entries, Agree(s, r, Len(s)),
         NEW m \in AppendRequests, Fragment(m, s)
  PROVE  Fragment(m, r)
<1>1. m.prev \in Nat /\ m.entries \in Entries
  BY DEF AppendRequests, Entries
<1>2. Len(m.entries) \in Nat /\ Len(s) \in Nat /\ Len(r) \in Nat
  BY <1>1, EntriesOf
<1>3. /\ m.prev + Len(m.entries) <= Len(s) /\ Len(s) <= Len(r)
      /\ IF m.prev = 0 THEN m.prevTerm = 0 ELSE s[m.prev].term = m.prevTerm
      /\ \A k \in 1 .. Len(m.entries) : m.entries[k] = s[m.prev + k]
      /\ \A j \in 1 .. Len(s) : s[j] = r[j]
  BY DEF Fragment, Agree
<1>4. m.prev # 0 => m.prev \in 1 .. Len(s)
  BY <1>1, <1>2, <1>3
<1>5. \A k \in 1 .. Len(m.entries) : m.prev + k \in 1 .. Len(s)
  BY <1>1, <1>2, <1>3
<1>6. m.prev + Len(m.entries) <= Len(r)
  BY <1>1, <1>2, <1>3
<1>7. QED BY <1>3, <1>4, <1>5, <1>6 DEF Fragment

\* What a request that is accepted leaves of a log: up to the end of its
\* fragment, the log is the leader's.
LEMMA AcceptedFragment ==
  ASSUME NEW led \in Ledger, NEW t \in Nat, Traced(led, led[t]),
         NEW req \in AppendRequests, Fragment(req, led[t]),
         NEW l, Plain(l), Traced(led, l.entries),
         NEW m, AcceptedInto(req, l, m)
  PROVE  /\ Agree(m.entries, led[t], req.prev + Len(req.entries))
         /\ Traced(led, m.entries)
         /\ m.entries # l.entries => Len(m.entries) = req.prev + Len(req.entries)
         /\ \A i \in Nat : Agree(l.entries, led[t], i) => Agree(m.entries, led[t], i)
<1> DEFINE s == l.entries
           r == led[t]
           es == req.entries
           p == req.prev
           z == m.entries
<1>1. /\ p \in Nat /\ es \in Entries /\ s \in Entries /\ r \in Entries /\ z \in Entries
      /\ l.commit \in Nat
  <2>1. p \in Nat /\ es \in Entries /\ r \in Entries
    BY DEF AppendRequests, Entries, Ledger
  <2>2. s \in Entries /\ l.commit \in Nat
    BY PlainLog DEF Entries
  <2>3. Plain(m)
    BY DEF AcceptedInto
  <2>4. z \in Entries
    BY <2>3, PlainLog DEF Entries
  <2>5. QED BY <2>1, <2>2, <2>4
<1>2. Len(es) \in Nat /\ Len(s) \in Nat /\ Len(r) \in Nat /\ Len(z) \in Nat
  BY <1>1, EntriesOf
<1>3. /\ p + Len(es) <= Len(r)
      /\ IF p = 0 THEN req.prevTerm = 0 ELSE r[p].term = req.prevTerm
      /\ \A k \in 1 .. Len(es) : es[k] = r[p + k]
  BY DEF Fragment
<1>4. /\ p <= Len(s)
      /\ IF p = 0 THEN req.prevTerm = 0 ELSE s[p].term = req.prevTerm
  BY DEF AcceptedInto
<1>5. PICK g : Plain(g) /\ Merged(l, es, p, g) /\ z = g.entries
  BY DEF AcceptedInto
<1>6. Traced(led, s) /\ Traced(led, r)
  OBVIOUS
<1> HIDE DEF s, r, es, p, z
\* up to an entry of the request that the log already had
<1>7. ASSUME NEW c \in 0 .. Len(es), p + c <= Len(s),
             \A k \in 1 .. c : s[p + k].term = es[k].term
      PROVE  Agree(s, r, p + c)
  <2>1. CASE p + c = 0
    BY <2>1, <1>2, <1>1 DEF Agree
  <2>2. CASE p + c # 0
    <3>1. p + c \in 1 .. Len(s) /\ p + c <= Len(r)
      BY <2>2, <1>7, <1>1, <1>2, <1>3
    <3>2. s[p + c].term = r[p + c].term
      <4>1. CASE c = 0
        BY <4>1, <2>2, <1>1, <1>3, <1>4
      <4>2. CASE c # 0
        BY <4>2, <1>2, <1>3, <1>7
      <4>3. QED BY <4>1, <4>2
    <3>3. QED BY <3>1, <3>2, <1>1, <1>6, TracedAgree
  <2>3. QED BY <2>1, <2>2
<1>8. CASE /\ g = l
           /\ p + Len(es) <= Len(s)
           /\ \A k \in 1 .. Len(es) : s[p + k].term = es[k].term
  <2>1. Agree(s, r, p + Len(es)) /\ z = s
    BY <1>2, <1>5, <1>7, <1>8 DEF s
  <2>2. QED BY <2>1, <1>6 DEF s, r, es, p, z
<1>9. ASSUME NEW c \in 1 .. Len(es),
             p + c <= Len(s) + 1, p + c <= Len(s) => s[p + c].term # es[c].term,
             Len(z) = p + Len(es),
             \A j \in 1 .. p + c - 1 : z[j] = s[j],
             \A k \in c .. Len(es) : z[p + k] = es[k],
             \A k \in 1 .. c - 1 : s[p + k].term = es[k].term
      PROVE  /\ Agree(z, r, p + Len(es)) /\ Traced(led, z)
             /\ Len(z) = p + Len(es)
             /\ \A i \in Nat : Agree(s, r, i) => Agree(z, r, i)
  <2>1. Agree(s, r, p + c - 1)
    <3>1. c - 1 \in 0 .. Len(es) /\ p + (c - 1) <= Len(s) /\ p + (c - 1) = p + c - 1
      BY <1>1, <1>2, <1>9
    <3>2. QED BY <3>1, <1>7, <1>9
  <2>2. Agree(z, r, p + Len(es))
    <3>1. ASSUME NEW j \in 1 .. p + Len(es) PROVE z[j] = r[j]
      <4>1. CASE j <= p + c - 1
        BY <4>1, <2>1, <1>1, <1>2, <1>9 DEF Agree
      <4>2. CASE ~(j <= p + c - 1)
        <5>1. j - p \in c .. Len(es) /\ p + (j - p) = j /\ j - p \in 1 .. Len(es)
          BY <4>2, <1>1, <1>2
        <5>2. z[p + (j - p)] = es[j - p]
          BY <5>1, <1>9
        <5>3. es[j - p] = r[p + (j - p)]
          BY <5>1, <1>3
        <5>4. QED BY <5>1, <5>2, <5>3
      <4>3. QED BY <4>1, <4>2
    <3>2. QED BY <3>1, <1>2, <1>3, <1>9 DEF Agree
  <2>3. Traced(led, z)
    <3> SUFFICES ASSUME NEW i \in 1 .. Len(z) PROVE Agree(z, led[z[i].term], i)
      BY DEF Traced
    <3>1. i \in 1 .. Len(r) /\ z[i] = r[i] /\ \A j \in 1 .. i : z[j] = r[j]
      BY <2>2, <1>1, <1>2, <1>9 DEF Agree
    <3>2. Agree(r, led[z[i].term], i)
      BY <3>1, <1>6 DEF Traced
    <3>3. QED BY <3>1, <3>2, <1>2 DEF Agree
  <2>4. ASSUME NEW i \in Nat, Agree(s, r, i) PROVE Agree(z, r, i)
    <3>1. i <= p + c - 1
      <4>1. SUFFICES ASSUME p + c <= i PROVE FALSE
        BY <1>1, <1>2
      <4>2. i <= Len(s) /\ \A j \in 1 .. i : s[j] = r[j]
        BY <2>4 DEF Agree
      <4>3. p + c \in 1 .. i /\ p + c <= Len(s)
        BY <4>1, <4>2, <1>1, <1>2
      <4>4. s[p + c] = es[c]
        BY <4>2, <4>3, <1>3
      <4>5. QED BY <4>3, <4>4, <1>9
    <3>2. i <= p + Len(es)
      BY <3>1, <1>1, <1>2
    <3>3. QED BY <3>2, <2>2, <1>1, <1>2 DEF Agree
  <2>5. QED BY <2>2, <2>3, <2>4, <1>9
<1>10. QED
  <2>1. CASE ~(/\ g = l
               /\ p + Len(es) <= Len(s)
               /\ \A k \in 1 .. Len(es) : s[p + k].term = es[k].term)
    <3>1. PICK c \in 1 .. Len(es) :
             /\ p + c <= Len(s) + 1
             /\ p + c <= Len(s) => s[p + c].term # es[c].term
             /\ Len(z) = p + Len(es)
             /\ \A j \in 1 .. p + c - 1 : z[j] = s[j]
             /\ \A k \in c .. Len(es) : z[p + k] = es[k]
             /\ \A k \in 1 .. c - 1 : s[p + k].term = es[k].term
      BY <2>1, <1>5 DEF Merged, s
    <3>2. /\ Agree(z, r, p + Len(es)) /\ Traced(led, z)
          /\ Len(z) = p + Len(es)
          /\ \A i \in Nat : Agree(s, r, i) => Agree(z, r, i)
      BY <3>1, <1>9
    <3>3. QED BY <3>2, Zenon DEF s, r, es, p, z
  <2>2. QED BY <2>1, <1>8
----------------------------------------------------------------------------
(***************************************************************************)
(* What the steps do to logs, leaders and AppendEntries requests.          *)
(***************************************************************************)

\* Who leads after a step led before it, in the same term.
LeadersStay ==
    \A n \in Server : role'[n] = "LEADER" => role[n] = "LEADER" /\ currentTerm'[n] = currentTerm[n]

\* A request is built from the log and the commit index of a leader.
RequestsFromLeaders ==
    \A m \in net' : m.type = "AppendEntries" =>
        \/ m \in net
        \/ \E n \in Server : /\ role[n] = "LEADER" /\ m.term = currentTerm[n]
                             /\ Fragment(m, log[n].entries) /\ m.commit = log[n].commit

LogsStay == \A n \in Server : log'[n].entries = log[n].entries

\* Every step but BecomeLeader, Propose and AcceptAppend.
Quiet == LeadersStay /\ RequestsFromLeaders /\ LogsStay /\ elected' = elected

LEMMA HeartbeatFragment ==
  ASSUME CoreTyped, NEW n \in Server, NEW m \in Server
  PROVE  Fragment(AppendRequest(n, m, LastIndex(log[n]), << >>), log[n].entries)
<1> DEFINE msg == AppendRequest(n, m, LastIndex(log[n]), << >>)
<1>1. /\ LastIndex(log[n]) = Len(log[n].entries) /\ Len(log[n].entries) \in Nat
      /\ TermAt(log[n], 0) = 0
      /\ \A i \in 1 .. Len(log[n].entries) : TermAt(log[n], i) = log[n].entries[i].term
  BY PlainLog DEF CoreTyped
<1>2. /\ msg.prev = Len(log[n].entries) /\ msg.entries = << >>
      /\ msg.prevTerm = TermAt(log[n], Len(log[n].entries))
  BY <1>1 DEF AppendRequest
<1>3. Len(msg.entries) = 0
  BY <1>2, EmptySeq
<1> HIDE DEF msg
<1>4. IF msg.prev = 0 THEN msg.prevTerm = 0 ELSE log[n].entries[msg.prev].term = msg.prevTerm
  BY <1>1, <1>2
<1>5. msg.prev + Len(msg.entries) <= Len(log[n].entries) /\ 1 .. Len(msg.entries) = {}
  BY <1>1, <1>2, <1>3
<1>6. Fragment(msg, log[n].entries)
  BY <1>4, <1>5 DEF Fragment
<1>7. QED BY <1>6 DEF msg

LEMMA AppendFragment ==
  ASSUME CoreInductive, NEW n \in Server, NEW m \in Peers(n), role[n] = "LEADER"
  PROVE  Fragment(AppendRequest(n, m, nextIndex[n][m] - 1,
                                EntriesFrom(log[n], nextIndex[n][m])), log[n].entries)
<1> DEFINE b == nextIndex[n][m]
           es == EntriesFrom(log[n], b)
           msg == AppendRequest(n, m, b - 1, es)
<1>1. /\ LastIndex(log[n]) = Len(log[n].entries) /\ Len(log[n].entries) \in Nat
      /\ TermAt(log[n], 0) = 0 /\ Plain(log[n])
      /\ \A i \in 1 .. Len(log[n].entries) : TermAt(log[n], i) = log[n].entries[i].term
  BY PlainLog DEF CoreInductive, CoreTyped
<1>2. b \in Nat \ {0} /\ b <= Len(log[n].entries) + 1
  BY <1>1 DEF CoreInductive, CoreTyped, TypeOK, ProgressWithinLog
<1>3. /\ msg.prev = b - 1 /\ msg.entries = es /\ msg.prevTerm = TermAt(log[n], b - 1)
  BY DEF AppendRequest
<1> HIDE DEF b, msg
<1>4. /\ Len(es) = Len(log[n].entries) - b + 1
      /\ \A k \in 1 .. Len(log[n].entries) - b + 1 : es[k] = log[n].entries[b + k - 1]
  BY <1>1, <1>2, PlainEntriesFrom
<1> HIDE DEF es
<1>5. \A k \in 1 .. Len(es) : es[k] = log[n].entries[b - 1 + k]
  BY <1>1, <1>2, <1>4
<1>6. b - 1 + Len(es) <= Len(log[n].entries)
  BY <1>1, <1>2, <1>4
<1>7. IF b - 1 = 0 THEN TermAt(log[n], b - 1) = 0
      ELSE log[n].entries[b - 1].term = TermAt(log[n], b - 1)
  BY <1>1, <1>2
<1>8. Fragment(msg, log[n].entries)
  BY <1>3, <1>5, <1>6, <1>7 DEF Fragment
<1>9. QED BY <1>8 DEF msg, b, es

\* Steps that leave the logs and the leaders alone, and send no request.
LEMMA NothingSent ==
  ASSUME UNCHANGED <<log, elected>>, LeadersStay,
         \A m \in net' \ net : m.type # "AppendEntries"
  PROVE  Quiet
BY DEF Quiet, RequestsFromLeaders, LogsStay

LEMMA QuietSteps ==
  ASSUME CoreInductive, [Next]_vars, "usurped" \notin leaks'
  PROVE  \/ Quiet
         \/ \E n \in Server : BecomeLeader(n) \/ Propose(n)
         \/ \E m \in net : AcceptAppend(m)
<1>0. /\ CoreTyped
      /\ \A m \in net : /\ m.to \in Server /\ m.from \in Server /\ m.term \in Terms
                        /\ m.term \in Nat
      /\ \A n \in Server : currentTerm[n] \in Nat
      /\ role \in [Server -> Roles] /\ currentTerm \in [Server -> Terms]
  BY KindsOfMessage, NodeTypes, TermsAreNumbers DEF CoreInductive, CoreTyped
<1>1. CASE UNCHANGED vars
  BY <1>1, NothingSent DEF vars, nodeVars, ghosts, LeadersStay
<1>2. ASSUME NEW n \in Server, Timeout(n) PROVE Quiet
  <2>1. LeadersStay
    BY <1>0, <1>2 DEF Timeout, LeadersStay
  <2>2. QED BY <1>2, <2>1, NothingSent DEF Timeout, ghosts
<1>3. ASSUME NEW n \in Server, NEW m \in Server, SendRequestVote(n, m) PROVE Quiet
  BY <1>3, NothingSent DEF SendRequestVote, Send, nodeVars, ghosts, LeadersStay
<1>4. ASSUME NEW n \in Server, NEW m \in Server, SendAppendEntries(n, m) PROVE Quiet
  <2> DEFINE msg == AppendRequest(n, m, nextIndex[n][m] - 1, EntriesFrom(log[n], nextIndex[n][m]))
  <2>1. /\ role[n] = "LEADER" /\ m \in Peers(n) /\ net' = net \cup {msg}
        /\ UNCHANGED <<role, currentTerm, log, elected>>
    BY <1>4 DEF SendAppendEntries, Send, nodeVars, ghosts
  <2>2. Fragment(msg, log[n].entries)
    BY <2>1, AppendFragment
  <2>3. msg.term = currentTerm[n] /\ msg.commit = log[n].commit
    BY DEF AppendRequest
  <2> HIDE DEF msg
  <2>4. QED BY <2>1, <2>2, <2>3 DEF Quiet, LeadersStay, RequestsFromLeaders, LogsStay
<1>5. ASSUME NEW n \in Server, NEW m \in Server, SendHeartbeat(n, m) PROVE Quiet
  <2> DEFINE msg == AppendRequest(n, m, LastIndex(log[n]), << >>)
  <2>1. /\ role[n] = "LEADER" /\ net' = net \cup {msg}
        /\ UNCHANGED <<role, currentTerm, log, elected>>
    BY <1>5 DEF SendHeartbeat, Send, nodeVars, ghosts
  <2>2. Fragment(msg, log[n].entries)
    BY <1>0, HeartbeatFragment
  <2>3. msg.term = currentTerm[n] /\ msg.commit = log[n].commit
    BY DEF AppendRequest
  <2> HIDE DEF msg
  <2>4. QED BY <2>1, <2>2, <2>3 DEF Quiet, LeadersStay, RequestsFromLeaders, LogsStay
<1>6. ASSUME NEW m \in net, RefuseVote(m) \/ HandleVoteResponse(m) \/ RefuseStaleAppend(m)
                            \/ HandleAppendRejection(m) \/ DropAppendResponse(m) \/ Lose(m)
      PROVE  Quiet
  <2>1. /\ UNCHANGED <<role, currentTerm, log, elected>>
        /\ \A x \in net' \ net : x.type # "AppendEntries"
    BY <1>6 DEF RefuseVote, HandleVoteResponse, RefuseStaleAppend, HandleAppendRejection,
                DropAppendResponse, Lose, Reply, Consume, VoteResponse, AppendRejected,
                nodeVars, ghosts
  <2>2. QED BY <2>1, NothingSent DEF LeadersStay
<1>7. ASSUME NEW m \in net, HandleRequestVote(m) PROVE Quiet
  <2>1. /\ UNCHANGED <<log, elected>>
        /\ \A x \in net' \ net : x.type # "AppendEntries"
    BY <1>7 DEF HandleRequestVote, Reply, VoteResponse, ghosts
  <2>2. LeadersStay
    BY <1>0, <1>7 DEF HandleRequestVote, LeadersStay
  <2>3. QED BY <2>1, <2>2, NothingSent
<1>8. ASSUME NEW m \in net, StepDown(m) PROVE Quiet
  <2>1. /\ UNCHANGED <<log, elected>> /\ net' \subseteq net
    BY <1>8 DEF StepDown, Consume, ghosts
  <2>2. LeadersStay
    BY <1>0, <1>8 DEF StepDown, BecomeFollowerForRemote, UpdateCurrentTerm, LeadersStay
  <2>3. QED BY <2>1, <2>2, NothingSent
<1>9. ASSUME NEW m \in net, LeaderRefusesAppend(m) PROVE Quiet
  <2>1. /\ UNCHANGED <<log, elected, role>>
        /\ \A x \in net' \ net : x.type # "AppendEntries"
    BY <1>9 DEF LeaderRefusesAppend, Reply, AppendRejected
  <2>2. ~(m.term > currentTerm[m.to]) /\ m.term >= currentTerm[m.to]
    BY <1>9 DEF LeaderRefusesAppend
  <2>3. currentTerm' = currentTerm
    BY <1>0, <1>9, <2>2 DEF LeaderRefusesAppend, UpdateCurrentTerm, GreaterOf
  <2>4. QED BY <2>1, <2>3, NothingSent DEF LeadersStay
<1>10. ASSUME NEW m \in net, RejectMismatch(m) \/ FailAppend(m) PROVE Quiet
  <2>1. /\ UNCHANGED <<log, elected>>
        /\ \A x \in net' \ net : x.type # "AppendEntries"
    BY <1>10 DEF RejectMismatch, FailAppend, Reply, Consume, AppendRejected, ghosts
  <2>2. LeadersStay
    BY <1>0, <1>10 DEF RejectMismatch, FailAppend, FollowLeader, UpdateCurrentTerm, LeadersStay
  <2>3. QED BY <2>1, <2>2, NothingSent
<1>11. ASSUME NEW m \in net, HandleAppendSuccess(m) PROVE Quiet
  <2>1. /\ log \in [Server -> LogRecord] /\ m.to \in Server
        /\ log' = [log EXCEPT ![m.to] = log'[m.to]]
        /\ log'[m.to].entries = log[m.to].entries
    BY <1>0, <1>11, SuccessEffect DEF CoreTyped, TypeOK
  <2>2. UNCHANGED <<role, currentTerm, elected>> /\ net' \subseteq net
    BY <1>11 DEF HandleAppendSuccess, Consume, nodeVars, ghosts
  <2>3. LogsStay
    BY <2>1 DEF LogsStay
  <2>4. QED BY <2>2, <2>3 DEF Quiet, LeadersStay, RequestsFromLeaders
<1>12. QED
  BY <1>1, <1>2, <1>3, <1>4, <1>5, <1>6, <1>7, <1>8, <1>9, <1>10, <1>11 DEF Next

----------------------------------------------------------------------------
(***************************************************************************)
(* Log matching.                                                           *)
(***************************************************************************)

LEMMA ElectionIsFresh ==
  ASSUME CoreTyped, NEW b \in BallotRecord, Ballots(b)
  PROVE  FreshTerms
<1> SUFFICES ASSUME NEW n \in Server, role[n] = "CANDIDATE", Cardinality(votes[n]) >= Majority,
                    NEW x \in Server, <<currentTerm[n], x>> \in elected
             PROVE  FALSE
  BY DEF FreshTerms, Elected
<1>1. /\ votes[n] \subseteq Voter /\ \A v \in votes[n] : b[v][currentTerm[n]] = n
  BY DEF Ballots, GrantsAreBallots
<1>2. votes[n] \in Quorums
  BY <1>1 DEF Quorums
<1>3. PICK Q \in Quorums : \A v \in Q : b[v][currentTerm[n]] = x
  BY DEF Ballots, ElectedByBallots
<1>4. PICK v \in Q : v \in votes[n]
  BY <1>2, <1>3, QuorumsMeet
<1>5. x = n
  BY <1>1, <1>3, <1>4
<1>6. QED BY <1>5 DEF Ballots, ElectedByBallots

LEMMA MatchingKept ==
  ASSUME NEW led \in Ledger, Matching(led), elected' = elected,
         \A n \in Server : Traced(led, log'[n].entries),
         \A n \in Server : role'[n] = "LEADER" => log'[n].entries = log[n].entries,
         LeadersStay, RequestsFromLeaders
  PROVE  Matching(led)'
<1>1. \A t \in Nat : led[t] # << >> => Elected(t)'
  BY DEF Matching, Elected
<1>2. \A n \in Server : role'[n] = "LEADER" =>
          <<currentTerm'[n], n>> \in elected' /\ led[currentTerm'[n]] = log'[n].entries
  BY DEF Matching, LeadersStay
<1>3. \A m \in net' : m.type = "AppendEntries" => Fragment(m, led[m.term])
  BY DEF Matching, RequestsFromLeaders
<1>4. \A t \in Nat : Traced(led, led[t])
  BY DEF Matching
<1>5. QED BY <1>1, <1>2, <1>3, <1>4 DEF Matching

LEMMA QuietMatching ==
  ASSUME NEW led \in Ledger, Matching(led), Quiet
  PROVE  Matching(led)'
BY MatchingKept DEF Quiet, LogsStay, Matching

\* A request that is accepted is accepted by a node that does not lead.
LEMMA AcceptorFollows ==
  ASSUME CoreTyped, NEW req \in net, AcceptAppend(req)
  PROVE  /\ LeadersStay /\ RequestsFromLeaders /\ elected' = elected
         /\ role[req.to] # "LEADER" /\ role'[req.to] # "LEADER"
         /\ currentTerm'[req.to] = req.term
         /\ \A n \in Server \ {req.to} : log'[n] = log[n] /\ currentTerm'[n] = currentTerm[n]
<1>1. /\ req \in AppendRequests /\ req.to \in Server /\ log' = [log EXCEPT ![req.to] = log'[req.to]]
      /\ net' = (net \ {req}) \cup {AppendAccepted(req, Len(log'[req.to].entries))}
  BY AcceptEffect
<1>2. /\ req.term \in Nat /\ \A n \in Server : currentTerm[n] \in Nat
      /\ role \in [Server -> Roles] /\ currentTerm \in [Server -> Terms]
      /\ log \in [Server -> LogRecord]
  BY <1>1, NodeTypes, TermsAreNumbers DEF AppendRequests, CoreTyped, TypeOK
<1>3. /\ role[req.to] # "LEADER" /\ req.term >= currentTerm[req.to]
      /\ currentTerm' = [currentTerm EXCEPT ![req.to] = GreaterOf(@, req.term)]
      /\ role' = [role EXCEPT ![req.to] = IF @ = "CANDIDATE" THEN "FOLLOWER" ELSE @]
      /\ elected' = elected
  BY DEF AcceptAppend, FollowLeader, UpdateCurrentTerm
<1>4. currentTerm'[req.to] = req.term
  BY <1>1, <1>2, <1>3 DEF GreaterOf
<1>5. LeadersStay /\ role'[req.to] # "LEADER"
  BY <1>1, <1>2, <1>3 DEF LeadersStay
<1>6. RequestsFromLeaders
  BY <1>1 DEF RequestsFromLeaders, AppendAccepted
<1>7. QED BY <1>1, <1>2, <1>3, <1>4, <1>5, <1>6

LEMMA AcceptMatching ==
  ASSUME CoreTyped, NEW led \in Ledger, Matching(led), NEW req \in net, AcceptAppend(req)
  PROVE  Matching(led)'
<1>1. /\ LeadersStay /\ RequestsFromLeaders /\ elected' = elected
      /\ role'[req.to] # "LEADER" /\ \A n \in Server \ {req.to} : log'[n] = log[n]
  BY AcceptorFollows
<1>2. req \in AppendRequests /\ req.to \in Server /\ AcceptedInto(req, log[req.to], log'[req.to])
  BY AcceptEffect
<1>3. /\ req.term \in Nat /\ Plain(log[req.to]) /\ Traced(led, led[req.term])
      /\ Fragment(req, led[req.term]) /\ Traced(led, log[req.to].entries)
  BY <1>2, TermsAreNumbers DEF AppendRequests, CoreTyped, Matching
<1>4. Traced(led, log'[req.to].entries)
  BY <1>2, <1>3, AcceptedFragment
<1>5. \A n \in Server : Traced(led, log'[n].entries)
  BY <1>1, <1>4 DEF Matching
<1>6. QED BY <1>1, <1>5, MatchingKept

\* BecomeLeader and Propose: the history takes over the log of the leader.
TakesOver(n, led, next) ==
    /\ next \in Ledger
    /\ next[currentTerm[n]] = log'[n].entries
    /\ \A t \in Nat \ {currentTerm[n]} : next[t] = led[t]

LEMMA TakeOver ==
  ASSUME CoreTyped, CoreTyped', NEW led \in Ledger, NEW n \in Server
  PROVE  \E next : TakesOver(n, led, next)
<1>1. currentTerm[n] \in Nat /\ log'[n].entries \in Entries
  BY NodeTypes, PlainLog DEF CoreTyped, Entries
<1>2. TakesOver(n, led, [led EXCEPT ![currentTerm[n]] = log'[n].entries])
  BY <1>1 DEF TakesOver, Ledger
<1>3. QED BY <1>2

\* What they do: the history of the term becomes the leader's log, which it was,
\* or which it is now with one entry more.
Leads(n, led, next) ==
    /\ Grows(led, next)
    /\ currentTerm[n] \in Nat /\ log'[n].entries \in Entries
    /\ \A s \in Server \ {n} : log'[s] = log[s] /\ role'[s] = role[s]
    /\ \A s \in Server \ {n} : role[s] = "LEADER" => currentTerm[s] # currentTerm[n]
    /\ UNCHANGED <<currentTerm, net>> /\ role'[n] = "LEADER"
    /\ <<currentTerm[n], n>> \in elected' /\ elected \subseteq elected'
    /\ Agree(log[n].entries, log'[n].entries, Len(log[n].entries))
    /\ \/ log'[n].entries = log[n].entries /\ led[currentTerm[n]] = << >>
       \/ /\ led[currentTerm[n]] = log[n].entries
          /\ Len(log'[n].entries) = Len(log[n].entries) + 1
          /\ log'[n].entries[Len(log'[n].entries)].term = currentTerm[n]

LEMMA LeadEffect ==
  ASSUME CoreTyped, CoreTyped', FreshTerms, ElectionSafety,
         NEW led \in Ledger, Matching(led),
         NEW n \in Server, BecomeLeader(n) \/ Propose(n),
         NEW next, TakesOver(n, led, next)
  PROVE  Leads(n, led, next)
<1> DEFINE t == currentTerm[n]
<1>1. /\ t \in Nat /\ t \in Terms /\ log[n].entries \in Entries /\ log'[n].entries \in Entries
      /\ role \in [Server -> Roles] /\ log \in [Server -> LogRecord]
  BY NodeTypes, PlainLog DEF CoreTyped, TypeOK, Entries
<1>2. led[t] \in Entries /\ Len(log[n].entries) \in Nat /\ Len(log'[n].entries) \in Nat
  BY <1>1, EntriesOf DEF Ledger
<1>3. /\ next \in Ledger /\ next[t] = log'[n].entries
      /\ \A u \in Nat \ {t} : next[u] = led[u]
  BY DEF TakesOver
<1>4. CASE BecomeLeader(n)
  <2>1. /\ role[n] = "CANDIDATE" /\ Cardinality(votes[n]) >= Majority
        /\ role' = [role EXCEPT ![n] = "LEADER"]
        /\ elected' = elected \cup {<<t, n>>}
        /\ UNCHANGED <<currentTerm, net, log>>
    BY <1>4 DEF BecomeLeader
  <2>2. ~Elected(t)
    BY <2>1 DEF FreshTerms
  <2>3. led[t] = << >>
    BY <1>1, <2>2 DEF Matching
  <2>4. \A s \in Server \ {n} : role[s] = "LEADER" => currentTerm[s] # t
    BY <2>2 DEF Matching, Elected
  <2>5. Agree(led[t], next[t], Len(led[t]))
    BY <1>2, <1>3, <2>1, <2>3, EmptySeq DEF Agree
  <2>6. Agree(log[n].entries, log'[n].entries, Len(log[n].entries))
    BY <1>2, <2>1 DEF Agree
  <2>7. Grows(led, next)
    BY <1>1, <1>3, <2>5, GrowsAt
  <2> HIDE DEF t
  <2>8. role'[n] = "LEADER" /\ \A s \in Server \ {n} : role'[s] = role[s] /\ log'[s] = log[s]
    BY <1>1, <2>1
  <2>9. QED BY <1>1, <1>3, <2>1, <2>3, <2>4, <2>6, <2>7, <2>8 DEF t, Leads
<1>5. CASE Propose(n)
  <2>1. role[n] = "LEADER" /\ UNCHANGED <<role, currentTerm, net, elected>>
    BY <1>5 DEF Propose, nodeVars, ghosts
  <2>2. /\ log' = [log EXCEPT ![n] = log'[n]]
        /\ Len(log'[n].entries) = Len(log[n].entries) + 1
        /\ \A j \in 1 .. Len(log[n].entries) : log'[n].entries[j] = log[n].entries[j]
        /\ log'[n].entries[Len(log[n].entries) + 1].term = t
    BY <1>5, ProposeEffect
  <2>3. <<t, n>> \in elected /\ led[t] = log[n].entries
    BY <2>1 DEF Matching
  <2>4. ASSUME NEW s \in Server \ {n}, role[s] = "LEADER", currentTerm[s] = t PROVE FALSE
    <3>1. <<t, s>> \in elected
      BY <2>4 DEF Matching
    <3>2. QED BY <3>1, <2>3 DEF ElectionSafety
  <2>5. Agree(log[n].entries, log'[n].entries, Len(log[n].entries))
    <3>1. /\ Len(log[n].entries) \in Nat /\ Len(log[n].entries) <= Len(log[n].entries)
          /\ Len(log[n].entries) <= Len(log'[n].entries)
      BY <1>2, <2>2
    <3>2. \A j \in 1 .. Len(log[n].entries) : log[n].entries[j] = log'[n].entries[j]
      BY <2>2
    <3>3. QED BY <3>1, <3>2 DEF Agree
  <2>6. Grows(led, next)
    BY <1>1, <1>3, <2>3, <2>5, GrowsAt
  <2>7. \A s \in Server \ {n} : log'[s] = log[s]
    BY <1>1, <2>2
  <2> HIDE DEF t
  <2>8. QED BY <1>1, <1>3, <2>1, <2>2, <2>3, <2>4, <2>5, <2>6, <2>7 DEF t, Leads
<1>6. QED BY <1>4, <1>5

LEMMA LeadMatching ==
  ASSUME CoreTyped, CoreTyped', FreshTerms, ElectionSafety,
         NEW led \in Ledger, Matching(led),
         NEW n \in Server, BecomeLeader(n) \/ Propose(n),
         NEW next, TakesOver(n, led, next)
  PROVE  Matching(next)'
<1> DEFINE t == currentTerm[n]
           z == log'[n].entries
<1>0. Leads(n, led, next)
  BY LeadEffect
<1>1. /\ next \in Ledger /\ Grows(led, next)
      /\ t \in Nat /\ next[t] = z /\ z \in Entries
      /\ \A u \in Nat \ {t} : next[u] = led[u]
      /\ \A s \in Server \ {n} : log'[s] = log[s] /\ role'[s] = role[s]
      /\ \A s \in Server \ {n} : role[s] = "LEADER" => currentTerm[s] # t
      /\ UNCHANGED <<currentTerm, net>> /\ role'[n] = "LEADER"
      /\ <<t, n>> \in elected' /\ elected \subseteq elected'
      /\ Agree(log[n].entries, z, Len(log[n].entries))
      /\ \/ z = log[n].entries
         \/ /\ Len(z) = Len(log[n].entries) + 1
            /\ z[Len(z)].term = t
  <2>1. Grows(led, next) /\ t \in Nat /\ z \in Entries
    BY <1>0 DEF Leads
  <2>7. next \in Ledger /\ next[t] = z /\ \A u \in Nat \ {t} : next[u] = led[u]
    BY DEF TakesOver
  <2>4. /\ \A s \in Server \ {n} : log'[s] = log[s] /\ role'[s] = role[s]
        /\ \A s \in Server \ {n} : role[s] = "LEADER" => currentTerm[s] # t
    BY <1>0 DEF Leads
  <2>5. UNCHANGED <<currentTerm, net>> /\ role'[n] = "LEADER"
    BY <1>0 DEF Leads
  <2>6. /\ <<t, n>> \in elected' /\ elected \subseteq elected'
        /\ Agree(log[n].entries, z, Len(log[n].entries))
    BY <1>0 DEF Leads
  <2>2. \/ z = log[n].entries /\ led[t] = << >>
        \/ /\ led[t] = log[n].entries
           /\ Len(z) = Len(log[n].entries) + 1
           /\ z[Len(z)].term = t
    BY <1>0 DEF Leads
  <2> HIDE DEF z, t
  <2>3. QED BY <2>1, <2>2, <2>4, <2>5, <2>6, <2>7
<1> HIDE DEF z
<1>2. \A s \in Server : log[s].entries \in Entries /\ currentTerm[s] \in Nat
  BY NodeTypes, PlainLog DEF CoreTyped, Entries
<1>3. \A s \in Server : Traced(next, log[s].entries)
  BY <1>1, <1>2, TracedKept DEF Matching
<1>4. Traced(next, z)
  <2>1. CASE z = log[n].entries
    BY <2>1, <1>3
  <2>2. CASE Len(z) = Len(log[n].entries) + 1 /\ z[Len(z)].term = t
    <3> SUFFICES ASSUME NEW i \in 1 .. Len(z) PROVE Agree(z, next[z[i].term], i)
      BY DEF Traced
    <3>0. Len(z) \in Nat /\ Len(log[n].entries) \in Nat
      BY <1>1, <1>2, EntriesOf
    <3>1. CASE i = Len(z)
      BY <3>1, <3>0, <2>2, <1>1 DEF Agree
    <3>2. CASE i # Len(z)
      <4>1. i \in 1 .. Len(log[n].entries) /\ \A j \in 1 .. i : z[j] = log[n].entries[j]
        BY <3>0, <3>2, <2>2, <1>1 DEF Agree
      <4>2. Agree(log[n].entries, next[z[i].term], i)
        BY <4>1, <1>3 DEF Traced
      <4>3. QED BY <3>0, <4>1, <4>2 DEF Agree
    <3>3. QED BY <3>1, <3>2
  <2>3. QED BY <2>1, <2>2, <1>1
<1>5. \A s \in Server : Traced(next, log'[s].entries)
  BY <1>1, <1>3, <1>4 DEF z
<1>6. ASSUME NEW u \in Nat PROVE Traced(next, next[u])
  <2>1. CASE u = t
    BY <2>1, <1>1, <1>4
  <2>2. CASE u # t
    <3>1. Traced(led, led[u]) /\ led[u] \in Entries
      BY DEF Matching, Ledger
    <3>2. QED BY <2>2, <3>1, <1>1, TracedKept
  <2>3. QED BY <2>1, <2>2
<1>7. \A u \in Nat : next[u] # << >> => Elected(u)'
  BY <1>1 DEF Matching, Elected
<1>8. ASSUME NEW s \in Server, role'[s] = "LEADER"
      PROVE  <<currentTerm'[s], s>> \in elected' /\ next[currentTerm'[s]] = log'[s].entries
  <2>1. CASE s = n
    BY <2>1, <1>1 DEF z
  <2>2. CASE s # n
    BY <2>2, <1>1, <1>2, <1>8 DEF Matching
  <2>3. QED BY <2>1, <2>2
<1>9. ASSUME NEW m \in net', m.type = "AppendEntries" PROVE Fragment(m, next[m.term])
  <2>1. m \in net /\ m \in AppendRequests /\ m.term \in Nat
    BY <1>1, <1>9, KindsOfMessage, TermsAreNumbers DEF CoreTyped
  <2>2. Fragment(m, led[m.term])
    BY <2>1, <1>9 DEF Matching
  <2>3. /\ led[m.term] \in Entries /\ next[m.term] \in Entries
        /\ Agree(led[m.term], next[m.term], Len(led[m.term]))
    BY <2>1, <1>1 DEF Ledger, Grows
  <2>4. QED BY <2>1, <2>2, <2>3, FragmentKept
<1>10. QED BY <1>5, <1>6, <1>7, <1>8, <1>9 DEF Matching

MatchingInductive == "usurped" \notin leaks => \E led \in Ledger : Matching(led)

LEMMA LeaksStay ==
  ASSUME [Next]_vars
  PROVE  leaks \subseteq leaks'
<1>1. CASE UNCHANGED vars
  BY <1>1 DEF vars, ghosts
<1>2. ASSUME NEW n \in Server, Timeout(n) \/ BecomeLeader(n) \/ Propose(n)
      PROVE  leaks \subseteq leaks'
  BY <1>2 DEF Timeout, BecomeLeader, Propose, ghosts
<1>3. ASSUME NEW n \in Server, NEW m \in Server,
             SendRequestVote(n, m) \/ SendAppendEntries(n, m) \/ SendHeartbeat(n, m)
      PROVE  leaks \subseteq leaks'
  BY <1>3 DEF SendRequestVote, SendAppendEntries, SendHeartbeat, ghosts
<1>4. ASSUME NEW m \in net, \/ RefuseVote(m) \/ HandleRequestVote(m) \/ HandleVoteResponse(m)
                            \/ StepDown(m) \/ RefuseStaleAppend(m) \/ LeaderRefusesAppend(m)
      PROVE  leaks \subseteq leaks'
  BY <1>4 DEF RefuseVote, HandleRequestVote, HandleVoteResponse, StepDown,
              RefuseStaleAppend, LeaderRefusesAppend, ghosts
<1>5. ASSUME NEW m \in net, \/ RejectMismatch(m) \/ AcceptAppend(m) \/ FailAppend(m)
                            \/ HandleAppendSuccess(m) \/ HandleAppendRejection(m)
                            \/ DropAppendResponse(m) \/ Lose(m)
      PROVE  leaks \subseteq leaks'
  BY <1>5 DEF RejectMismatch, AcceptAppend, FailAppend, HandleAppendSuccess,
              HandleAppendRejection, DropAppendResponse, Lose, ghosts
<1>6. QED BY <1>1, <1>2, <1>3, <1>4, <1>5 DEF Next

LEMMA MatchingInit == Init => MatchingInductive
<1> SUFFICES ASSUME Init PROVE \E led \in Ledger : Matching(led)
  BY DEF MatchingInductive
<1> DEFINE none == [t \in Nat |-> << >>]
<1>1. none \in Ledger /\ \A t \in Nat : none[t] = << >>
  BY EmptySeq DEF Ledger, Entries
<1> HIDE DEF none
<1>2. \A s : s = << >> => Traced(none, s)
  BY EmptySeq DEF Traced
<1>3. /\ \A n \in Server : log[n].entries = << >> /\ role[n] # "LEADER"
      /\ net = {}
  BY DEF Init, EmptyLog
<1>4. Matching(none)
  BY <1>1, <1>2, <1>3 DEF Matching
<1>5. QED BY <1>1, <1>4

LEMMA MatchingStep ==
  CoreInductive /\ CoreInductive' /\ ElectionInductive /\ MatchingInductive /\ [Next]_vars
      => MatchingInductive'
<1> SUFFICES ASSUME CoreInductive, CoreInductive', ElectionInductive, MatchingInductive,
                    [Next]_vars, "usurped" \notin leaks'
             PROVE  \E led \in Ledger : Matching(led)'
  BY DEF MatchingInductive
<1>1. PICK led \in Ledger : Matching(led)
  BY LeaksStay DEF MatchingInductive
<1>2. CoreTyped /\ CoreTyped' /\ FreshTerms /\ ElectionSafety
  BY ElectionIsFresh, BallotsElectOne DEF CoreInductive, ElectionInductive
<1>3. CASE Quiet
  BY <1>1, <1>3, QuietMatching
<1>4. ASSUME NEW n \in Server, BecomeLeader(n) \/ Propose(n)
      PROVE  \E next \in Ledger : Matching(next)'
  <2>1. PICK next : TakesOver(n, led, next)
    BY <1>2, TakeOver
  <2>2. Matching(next)' /\ next \in Ledger
    BY <1>1, <1>2, <1>4, <2>1, LeadMatching DEF TakesOver
  <2>3. QED BY <2>2
<1>5. ASSUME NEW m \in net, AcceptAppend(m) PROVE Matching(led)'
  BY <1>1, <1>2, <1>5, AcceptMatching
<1>6. QED BY <1>1, <1>3, <1>4, <1>5, QuietSteps

LEMMA MatchingAlways == Spec => [](CoreInductive /\ ElectionInductive /\ MatchingInductive)
<1>1. CoreInductive /\ ElectionInductive /\ MatchingInductive /\ [Next]_vars
         /\ CoreInductive' => MatchingInductive'
  BY MatchingStep
<1>2. QED BY <1>1, MatchingInit, ElectionInductiveAlways, PTL DEF Spec

LEMMA SamePrefix ==
  ASSUME NEW s \in Entries, NEW r \in Entries, NEW i \in Nat, Agree(s, r, i)
  PROVE  SubSeq(s, 1, i) = SubSeq(r, 1, i)
<1> DEFINE a == SubSeq(s, 1, i)
           b == SubSeq(r, 1, i)
<1>1. /\ Len(s) \in Nat /\ Len(r) \in Nat /\ i <= Len(s) /\ i <= Len(r)
      /\ \A j \in 1 .. i : s[j] = r[j] /\ s[j] \in StoredEntry /\ r[j] \in StoredEntry
  BY EntriesOf DEF Agree
<1>2. /\ a \in Entries /\ Len(a) = i /\ \A j \in 1 .. i : a[j] = s[j]
      /\ b \in Entries /\ Len(b) = i /\ \A j \in 1 .. i : b[j] = r[j]
  BY <1>1, SubSeqProperties DEF Entries
<1> HIDE DEF a, b
<1>3. a = b
  BY <1>1, <1>2, SameEntries
<1>4. QED BY <1>3 DEF a, b

\* Two logs of any cluster that have an entry with the same index and term have
\* the same entries up to it, while no leader has taken over a later term: both
\* are, up to there, the log of that term's leader.
THEOREM LogsMatch == Spec => []LogMatchingUnlessUsurped
<1>1. ASSUME CoreInductive, MatchingInductive PROVE LogMatchingUnlessUsurped
  <2> SUFFICES ASSUME "usurped" \notin leaks, NEW a \in Server, NEW b \in Server,
                      NEW i \in 1 .. LesserOf(LastIndex(log[a]), LastIndex(log[b])),
                      TermAt(log[a], i) = TermAt(log[b], i)
               PROVE  SubSeq(log[a].entries, 1, i) = SubSeq(log[b].entries, 1, i)
    BY DEF LogMatchingUnlessUsurped
  <2> DEFINE s == log[a].entries
             r == log[b].entries
  <2>1. PICK led \in Ledger : Matching(led)
    BY <1>1 DEF MatchingInductive
  <2>2. Plain(log[a]) /\ Plain(log[b])
    BY <1>1 DEF CoreInductive, CoreTyped
  <2>3. /\ s \in Entries /\ r \in Entries /\ Len(s) \in Nat /\ Len(r) \in Nat
        /\ LastIndex(log[a]) = Len(s) /\ LastIndex(log[b]) = Len(r)
    BY <2>2, PlainLog DEF Entries
  <2>4. i \in Nat /\ i \in 1 .. Len(s) /\ i \in 1 .. Len(r)
    BY <2>3 DEF LesserOf
  <2>5. s[i].term = r[i].term
    BY <2>2, <2>4, PlainLog
  <2>6. Traced(led, s) /\ Traced(led, r)
    BY <2>1 DEF Matching
  <2> HIDE DEF s, r
  <2>7. Agree(s, r, i)
    BY <2>3, <2>4, <2>5, <2>6, TracedAgree
  <2>8. QED BY <2>3, <2>4, <2>7, SamePrefix DEF s, r
<1>2. QED BY <1>1, MatchingAlways, PTL

----------------------------------------------------------------------------
(***************************************************************************)
(* What is committed.  Two more histories: acked[v][t] is how much of the  *)
(* log of the leader of term t node v has held in that term (acknowledged, *)
(* or its own), and base[n][t] is the log node n asked for votes with.     *)
(***************************************************************************)

AckRecord == [Server -> [Nat -> Nat]]

BaseRecord == [Server -> [Nat -> Entries]]

\* The entries a leader made in its own term.
Own(led, t) == {i \in 1 .. Len(led[t]) : led[t][i].term = t}

\* A majority held the log of term t up to i.
Chosen(acked, t, i) == \E Q \in Quorums : \A v \in Q : acked[v][t] >= i

\* A majority did, or still can: a voter that has not left the term yet may.
MayBeChosen(acked, t, i) ==
    \E Q \in Quorums : \A v \in Q : acked[v][t] >= i \/ currentTerm[v] <= t

\* Log s still has what v held in term t and what may be chosen.
Keeps(led, acked, v, s, t) ==
    \A i \in Own(led, t) : acked[v][t] >= i /\ MayBeChosen(acked, t, i) => Agree(s, led[t], i)

\* The first c entries of s were chosen, in a term not after u.
ChosenUpTo(led, acked, s, c, u) ==
    c > 0 => \E t \in Nat : /\ t <= u
                            /\ \E i \in Own(led, t) : /\ Chosen(acked, t, i) /\ c <= i
                                                      /\ Agree(s, led[t], c)

\* Terms in a log do not decrease, and were reached by its owner.
LogsOrdered(led) ==
    /\ \A t \in Nat : \A i, j \in 1 .. Len(led[t]) : i <= j => led[t][i].term <= led[t][j].term
    /\ \A t \in Nat : \A i \in 1 .. Len(led[t]) : led[t][i].term <= t
    /\ \A n \in Server : \A i \in 1 .. Len(log[n].entries) :
          log[n].entries[i].term <= currentTerm[n]

AcksBounded(led, acked) ==
    \A v \in Server, t \in Nat : /\ acked[v][t] <= Len(led[t])
                                 /\ t > currentTerm[v] => acked[v][t] = 0

\* A later leader has what may have been chosen in an earlier term.
LeadersComplete(led, acked) ==
    \A t, u \in Nat : t < u /\ Elected(u) =>
        \A i \in Own(led, t) : MayBeChosen(acked, t, i) => Agree(led[u], led[t], i)

LogsKeep(led, acked) == \A v \in Server, t \in Nat : Keeps(led, acked, v, log[v].entries, t)

\* What a node, or a request, says is committed was chosen.
CommitsChosen(led, acked) ==
    /\ \A n \in Server :
          ChosenUpTo(led, acked, log[n].entries, log[n].commit, currentTerm[n])
    /\ \A m \in net : m.type = "AppendEntries" =>
          Elected(m.term) /\ ChosenUpTo(led, acked, led[m.term], m.commit, m.term)

\* What a leader believes of its peers, it was told by them.
AcksTold(acked) ==
    /\ \A m \in net : m.type = "AppendResponse" /\ m.success => m.match <= acked[m.from][m.term]
    /\ \A n \in Server : role[n] = "LEADER" =>
          /\ acked[n][currentTerm[n]] = Len(log[n].entries)
          /\ \A p \in Peers(n) : matchIndex[n][p] <= acked[p][currentTerm[n]]

Acknowledged(led, acked) ==
    /\ LogsOrdered(led) /\ AcksBounded(led, acked) /\ LeadersComplete(led, acked)
    /\ LogsKeep(led, acked) /\ CommitsChosen(led, acked) /\ AcksTold(acked)

\* Whoever got a vote was asked for it in that term, with a log that had all
\* the voter held and that may be chosen.
VotesKeep(b, base, led, acked) ==
    \A v \in Server, u \in Terms, n \in Server : b[v][u] = n =>
        /\ u <= currentTerm[n]
        /\ \A t \in 0 .. u - 1 : Keeps(led, acked, v, base[n][u], t)

BasesTraced(base, led) ==
    \A n \in Server, u \in Terms :
        /\ Traced(led, base[n][u])
        /\ \A i \in 1 .. Len(base[n][u]) : base[n][u][i].term < u

Describes(m, s) ==
    /\ m.lastIndex = Len(s)
    /\ IF m.lastIndex = 0 THEN m.lastTerm = 0 ELSE m.lastTerm = s[m.lastIndex].term

\* A request for votes describes the log the candidate asks with, and has.
BasesAsked(base) ==
    /\ \A m \in net : m.type = "RequestVote" =>
          m.term <= currentTerm[m.from] /\ Describes(m, base[m.from][m.term])
    /\ \A n \in Server : role[n] = "CANDIDATE" => base[n][currentTerm[n]] = log[n].entries

VotedFor(b, base, led, acked) ==
    VotesKeep(b, base, led, acked) /\ BasesTraced(base, led) /\ BasesAsked(base)

CommitInductive ==
    leaks = {} =>
        \E b \in BallotRecord, led \in Ledger, acked \in AckRecord, base \in BaseRecord :
            /\ Ballots(b) /\ Matching(led)
            /\ Acknowledged(led, acked) /\ VotedFor(b, base, led, acked)

LEMMA AgreeTrans ==
  ASSUME NEW s \in Entries, NEW r \in Entries, NEW q \in Entries, NEW i \in Nat,
         Agree(s, q, i), Agree(r, q, i)
  PROVE  Agree(s, r, i)
BY DEF Agree

LEMMA AgreeLess ==
  ASSUME NEW s \in Entries, NEW r \in Entries, NEW i \in Nat, NEW j \in Nat, j <= i,
         Agree(s, r, i)
  PROVE  Agree(s, r, j) /\ Agree(r, s, j)
BY EntriesOf DEF Agree

LEMMA OwnIndex ==
  ASSUME NEW led \in Ledger, NEW t \in Nat, NEW i \in Own(led, t)
  PROVE  /\ i \in Nat /\ i \in 1 .. Len(led[t]) /\ led[t][i].term = t
         /\ Len(led[t]) \in Nat /\ led[t] \in Entries /\ led[t] # << >>
BY EntriesOf, EmptySeq DEF Own, Ledger

\* What is chosen while a later leader is elected, that leader has: of any two
\* chosen prefixes one continues the other.
LEMMA ChosenAgree ==
  ASSUME CoreTyped, NEW led \in Ledger, NEW acked \in AckRecord,
         Matching(led), LeadersComplete(led, acked),
         NEW s \in Entries, NEW c \in Nat, c > 0, NEW u \in Nat,
         ChosenUpTo(led, acked, s, c, u),
         NEW w \in Nat, u <= w, Elected(w)
  PROVE  Agree(s, led[w], c)
<1>0. PICK t \in Nat : t <= u /\ \E i \in Own(led, t) :
                           Chosen(acked, t, i) /\ c <= i /\ Agree(s, led[t], c)
  BY DEF ChosenUpTo
<1>1. PICK i \in Own(led, t) :
         t <= u /\ Chosen(acked, t, i) /\ c <= i /\ Agree(s, led[t], c)
  BY <1>0
<1>2. CASE t = w
  BY <1>1, <1>2
<1>3. CASE t < w
  <2>1. MayBeChosen(acked, t, i)
    BY <1>1 DEF Chosen, MayBeChosen
  <2>2. Agree(led[w], led[t], i)
    BY <1>3, <2>1 DEF LeadersComplete
  <2>3. led[w] \in Entries /\ led[t] \in Entries /\ i \in Nat
    BY OwnIndex DEF Ledger
  <2>4. Agree(led[w], led[t], c)
    BY <1>1, <2>2, <2>3, AgreeLess
  <2>5. QED BY <1>1, <2>3, <2>4, AgreeTrans
<1>4. QED BY <1>1, <1>2, <1>3

\* The state invariants, from the histories.
LEMMA CommittedFromHistory ==
  ASSUME CoreTyped, NEW led \in Ledger, NEW acked \in AckRecord,
         Matching(led), Acknowledged(led, acked),
         NEW a \in Server, NEW b \in Server
  PROVE  \/ IsPrefixOf(CommittedPrefix(a), CommittedPrefix(b))
         \/ IsPrefixOf(CommittedPrefix(b), CommittedPrefix(a))
<1> DEFINE s == log[a].entries
           r == log[b].entries
           c == log[a].commit
           d == log[b].commit
<1>1. /\ s \in Entries /\ r \in Entries /\ Len(s) \in Nat /\ Len(r) \in Nat
      /\ c \in 0 .. Len(s) /\ d \in 0 .. Len(r)
  BY PlainLog DEF CoreTyped, Entries
<1>2. /\ c > 0 => \E t \in Nat : \E i \in Own(led, t) : Agree(s, led[t], c) /\ ChosenUpTo(led, acked, s, c, t)
      /\ d > 0 => \E t \in Nat : \E i \in Own(led, t) : Agree(r, led[t], d) /\ ChosenUpTo(led, acked, r, d, t)
  BY DEF Acknowledged, CommitsChosen, ChosenUpTo
<1> HIDE DEF s, r, c, d
<1>3. c = 0 \/ d = 0 \/ (c > 0 /\ d > 0)
  BY <1>1
<1>4. CASE c = 0 \/ d = 0
  BY <1>1, <1>4, PrefixesAgree DEF CommittedPrefix, s, r, c, d, Entries
<1>5. CASE c > 0 /\ d > 0
  <2>1. PICK t \in Nat : /\ Agree(s, led[t], c) /\ ChosenUpTo(led, acked, s, c, t)
                         /\ \E i \in Nat : i \in Own(led, t)
    BY <1>2, <1>5, OwnIndex
  <2>2. PICK u \in Nat : /\ Agree(r, led[u], d) /\ ChosenUpTo(led, acked, r, d, u)
                         /\ \E i \in Nat : i \in Own(led, u)
    BY <1>2, <1>5, OwnIndex
  <2>3. Elected(t) /\ Elected(u)
    BY <2>1, <2>2, OwnIndex DEF Matching
  <2>4. PICK w \in Nat : Agree(s, led[w], c) /\ Agree(r, led[w], d)
    <3>1. CASE t <= u
      BY <1>1, <1>5, <2>1, <2>2, <2>3, <3>1, ChosenAgree DEF Acknowledged
    <3>2. CASE u <= t
      BY <1>1, <1>5, <2>1, <2>2, <2>3, <3>2, ChosenAgree DEF Acknowledged
    <3>3. QED BY <3>1, <3>2
  <2>5. c <= d \/ d <= c
    BY <1>1
  <2>6. \A k \in 1 .. c : k <= d => s[k] = r[k]
    BY <1>1, <2>4 DEF Agree
  <2>7. CASE c <= d
    <3>1. \A k \in 1 .. c : s[k] = r[k]
      BY <1>1, <2>6, <2>7
    <3>2. IsPrefixOf(SubSeq(s, 1, c), SubSeq(r, 1, d))
      BY <1>1, <2>7, <3>1, PrefixesAgree DEF Entries
    <3>3. QED BY <3>2 DEF CommittedPrefix, s, r, c, d
  <2>8. CASE d <= c
    <3>1. \A k \in 1 .. d : r[k] = s[k]
      BY <1>1, <2>6, <2>8
    <3>2. IsPrefixOf(SubSeq(r, 1, d), SubSeq(s, 1, c))
      BY <1>1, <2>8, <3>1, PrefixesAgree DEF Entries
    <3>3. QED BY <3>2 DEF CommittedPrefix, s, r, c, d
  <2>9. QED BY <2>5, <2>7, <2>8
<1>6. QED BY <1>3, <1>4, <1>5

LEMMA LeaderFromHistory ==
  ASSUME CoreTyped, NEW led \in Ledger, NEW acked \in AckRecord,
         Matching(led), Acknowledged(led, acked),
         NEW n \in Server, NEW v \in Server, role[n] = "LEADER",
         currentTerm[v] <= currentTerm[n]
  PROVE  IsPrefixOf(CommittedPrefix(v), log[n].entries)
<1> DEFINE s == log[v].entries
           r == log[n].entries
           c == log[v].commit
<1>1. /\ s \in Entries /\ r \in Entries /\ Len(s) \in Nat /\ Len(r) \in Nat
      /\ c \in 0 .. Len(s)
  BY PlainLog DEF CoreTyped, Entries
<1>2. c > 0 => Agree(s, r, c)
  <2>1. currentTerm[n] \in Nat /\ currentTerm[v] \in Nat
    BY NodeTypes
  <2>2. r = led[currentTerm[n]] /\ Elected(currentTerm[n])
    BY DEF Matching, Elected
  <2>3. ChosenUpTo(led, acked, s, c, currentTerm[v])
    BY DEF Acknowledged, CommitsChosen
  <2> HIDE DEF s, r, c
  <2>4. QED BY <1>1, <2>1, <2>2, <2>3, ChosenAgree DEF Acknowledged
<1> HIDE DEF s, r, c
<1>3. c <= Len(r) /\ \A k \in 1 .. c : s[k] = r[k]
  BY <1>1, <1>2 DEF Agree
<1>4. IsPrefixOf(SubSeq(s, 1, c), SubSeq(r, 1, Len(r)))
  BY <1>1, <1>3, PrefixesAgree DEF Entries
<1>5. SubSeq(r, 1, Len(r)) = r
  <2>1. /\ SubSeq(r, 1, Len(r)) \in Entries /\ Len(SubSeq(r, 1, Len(r))) = Len(r)
        /\ \A k \in 1 .. Len(r) : SubSeq(r, 1, Len(r))[k] = r[k]
    BY <1>1, EntriesOf, SubSeqProperties DEF Entries
  <2>2. QED BY <1>1, <2>1, SameEntries
<1>6. QED BY <1>4, <1>5 DEF CommittedPrefix, s, r, c

----------------------------------------------------------------------------
(***************************************************************************)
(* The acknowledgements, step by step.                                     *)
(***************************************************************************)

\* Commit indices move by the leader's count, its count by what it is told.
CommitsByLeader ==
    \A n \in Server :
        \/ log'[n].commit = log[n].commit
        \/ /\ role[n] = "LEADER"
           /\ log'[n].commit \in 1 .. Len(log'[n].entries)
           /\ log'[n].entries[log'[n].commit].term = currentTerm[n]
           /\ \E Q \in Quorums : \A v \in Q \ {n} : matchIndex'[n][v] >= log'[n].commit

MatchesTold ==
    \A n \in Server : \A p \in Peers(n) :
        \/ matchIndex'[n][p] = matchIndex[n][p]
        \/ \E m \in net : /\ m.type = "AppendResponse" /\ m.success /\ m.to = n /\ m.from = p
                          /\ m.term = currentTerm[n] /\ matchIndex'[n][p] = m.match

NoNewAcks == \A m \in net' : m.type = "AppendResponse" /\ m.success => m \in net

QuietProgress == CommitsByLeader /\ MatchesTold /\ NoNewAcks

LEMMA NothingCounted ==
  ASSUME UNCHANGED <<log, matchIndex>>,
         \A m \in net' \ net : ~(m.type = "AppendResponse" /\ m.success)
  PROVE  QuietProgress
BY DEF QuietProgress, CommitsByLeader, MatchesTold, NoNewAcks

LEMMA SuccessProgress ==
  ASSUME CoreTyped, NEW m \in net, HandleAppendSuccess(m)
  PROVE  QuietProgress
<1> DEFINE n == m.to
<1>1. /\ m \in AppendResponses /\ n \in Server /\ m.from \in Peers(n) /\ Plain(log[n])
      /\ log \in [Server -> LogRecord]
      /\ matchIndex = [s \in Server |-> matchIndex[s]]
      /\ \A p \in Peers(n) : matchIndex[n][p] \in Nat
      /\ m.match \in Nat
  <2>1. m \in AppendResponses
    BY SuccessEffect
  <2>2. n \in Server /\ m.from \in Peers(n) /\ m.match \in Nat
    BY <2>1 DEF AppendResponses, Peers
  <2>3. /\ Plain(log[n]) /\ log \in [Server -> LogRecord]
        /\ matchIndex = [s \in Server |-> matchIndex[s]]
        /\ \A p \in Peers(n) : matchIndex[n][p] \in Nat
    BY <2>2 DEF CoreTyped, TypeOK
  <2>4. QED BY <2>1, <2>2, <2>3
<1>2. /\ log' = [log EXCEPT ![n] = log'[n]] /\ log'[n].entries = log[n].entries
      /\ matchIndex' = [matchIndex EXCEPT ![n] = matchIndex'[n]]
      /\ CommitsOwn(n, log[n], log'[n], matchIndex'[n])
  BY SuccessEffect
<1>3. /\ m.type = "AppendResponse" /\ m.success /\ m.term = currentTerm[n]
      /\ role[n] = "LEADER" /\ net' \subseteq net
  BY DEF HandleAppendSuccess, Consume
<1>4. \A p \in Peers(n) : \/ matchIndex'[n][p] = matchIndex[n][p]
                          \/ p = m.from /\ matchIndex'[n][p] = m.match
  <2>1. \A q \in Peers(n) \ {m.from} : matchIndex'[n][q] = matchIndex[n][q]
    BY PeerProgress
  <2>2. \/ matchIndex'[n][m.from] = GreaterOf(matchIndex[n][m.from], m.match)
        \/ matchIndex'[n][m.from] = matchIndex[n][m.from]
    BY PeerProgress
  <2>3. \/ matchIndex'[n][m.from] = m.match
        \/ matchIndex'[n][m.from] = matchIndex[n][m.from]
    BY <2>2 DEF GreaterOf
  <2> HIDE DEF n
  <2>4. QED BY <2>1, <2>3
<1> HIDE DEF n
<1>5. log[n].commit \in Nat /\ Len(log[n].entries) \in Nat
  BY <1>1, PlainLog
<1>6. CommitsByLeader
  BY <1>1, <1>2, <1>3, <1>5 DEF CommitsOwn, CommitsByLeader
<1>7. MatchesTold
  <2>1. \A s \in Server \ {n} : matchIndex'[s] = matchIndex[s]
    BY <1>1, <1>2
  <2>2. m.to = n
    BY DEF n
  <2>3. QED BY <2>1, <2>2, <1>3, <1>4 DEF MatchesTold
<1>8. NoNewAcks
  BY <1>3 DEF NoNewAcks
<1>9. QED BY <1>6, <1>7, <1>8 DEF QuietProgress

LEMMA ProgressSteps ==
  ASSUME CoreTyped, [Next]_vars
  PROVE  \/ QuietProgress
         \/ \E n \in Server : BecomeLeader(n) \/ Propose(n)
         \/ \E m \in net : AcceptAppend(m)
<1>1. CASE UNCHANGED vars
  BY <1>1, NothingCounted DEF vars, peerVars
<1>2. ASSUME NEW n \in Server, Timeout(n) PROVE QuietProgress
  BY <1>2, NothingCounted DEF Timeout, peerVars
<1>3. ASSUME NEW n \in Server, NEW m \in Server,
             SendRequestVote(n, m) \/ SendAppendEntries(n, m) \/ SendHeartbeat(n, m)
      PROVE  QuietProgress
  BY <1>3, NothingCounted DEF SendRequestVote, SendAppendEntries, SendHeartbeat, Send,
                              AppendRequest, peerVars
<1>4. ASSUME NEW m \in net, \/ RefuseVote(m) \/ HandleRequestVote(m)
                            \/ HandleVoteResponse(m) \/ StepDown(m)
      PROVE  QuietProgress
  BY <1>4, NothingCounted DEF RefuseVote, HandleRequestVote, HandleVoteResponse, StepDown,
                              Reply, Consume, VoteResponse, peerVars
<1>5. ASSUME NEW m \in net, \/ RefuseStaleAppend(m) \/ LeaderRefusesAppend(m)
                            \/ RejectMismatch(m) \/ FailAppend(m)
      PROVE  QuietProgress
  BY <1>5, NothingCounted DEF RefuseStaleAppend, LeaderRefusesAppend, RejectMismatch, FailAppend,
                              Reply, Consume, AppendRejected, peerVars
<1>6. ASSUME NEW m \in net, HandleAppendRejection(m) \/ DropAppendResponse(m) \/ Lose(m)
      PROVE  QuietProgress
  BY <1>6, NothingCounted DEF HandleAppendRejection, DropAppendResponse, Lose, Consume, peerVars
<1>7. ASSUME NEW m \in net, HandleAppendSuccess(m) PROVE QuietProgress
  BY <1>7, SuccessProgress
<1>8. QED BY <1>1, <1>2, <1>3, <1>4, <1>5, <1>6, <1>7 DEF Next

\* Acknowledgements are never taken back, and are made in the current term.
AcksGrow(acked, more) ==
    \A v \in Server, t \in Nat :
        /\ acked[v][t] <= more[v][t]
        /\ more[v][t] # acked[v][t] => currentTerm[v] <= t /\ t = currentTerm'[v]

TermsGrow == \A v \in Server : currentTerm[v] \in Nat /\ currentTerm'[v] \in Nat
                               /\ currentTerm[v] <= currentTerm'[v]

LEMMA QuorumsOfServers ==
  ASSUME NEW Q \in Quorums, NEW v \in Q
  PROVE  v \in Server /\ v \in Voter
BY ServerAssumption DEF Quorums, Voter

LEMMA ChosenBefore ==
  ASSUME TermsGrow, NEW acked \in AckRecord, NEW more \in AckRecord, AcksGrow(acked, more),
         NEW t \in Nat, NEW i \in Nat
  PROVE  /\ MayBeChosen(more, t, i)' => MayBeChosen(acked, t, i)
         /\ Chosen(acked, t, i) => Chosen(more, t, i)
<1>1. ASSUME NEW Q \in Quorums, NEW v \in Q, more[v][t] >= i \/ currentTerm'[v] <= t
      PROVE  acked[v][t] >= i \/ currentTerm[v] <= t
  <2>1. v \in Server /\ acked[v][t] \in Nat /\ more[v][t] \in Nat
    BY QuorumsOfServers DEF AckRecord
  <2>2. QED BY <1>1, <2>1 DEF TermsGrow, AcksGrow
<1>2. ASSUME NEW Q \in Quorums, NEW v \in Q, acked[v][t] >= i
      PROVE  more[v][t] >= i
  <2>1. v \in Server /\ acked[v][t] \in Nat /\ more[v][t] \in Nat
    BY QuorumsOfServers DEF AckRecord
  <2>2. QED BY <1>2, <2>1 DEF AcksGrow
<1>3. QED BY <1>1, <1>2 DEF MayBeChosen, Chosen

LEMMA OwnKept ==
  ASSUME NEW led \in Ledger, NEW next \in Ledger, Grows(led, next), NEW t \in Nat
  PROVE  /\ Own(led, t) \subseteq Own(next, t)
         /\ \A i \in Own(next, t) : i <= Len(led[t]) => i \in Own(led, t)
<1>1. /\ Len(led[t]) \in Nat /\ Len(next[t]) \in Nat /\ Len(led[t]) <= Len(next[t])
      /\ \A j \in 1 .. Len(led[t]) : led[t][j] = next[t][j]
  BY EntriesOf DEF Grows, Agree, Ledger
<1>2. QED BY <1>1 DEF Own

\* What was chosen stays chosen, in logs that kept it.
LEMMA ChosenUpToKept ==
  ASSUME TermsGrow, NEW led \in Ledger, NEW next \in Ledger, Grows(led, next),
         NEW acked \in AckRecord, NEW more \in AckRecord, AcksGrow(acked, more),
         NEW s \in Entries, NEW r \in Entries, NEW c \in Nat, Agree(s, r, c) \/ c = 0,
         NEW u \in Nat, NEW w \in Nat, u <= w,
         ChosenUpTo(led, acked, s, c, u)
  PROVE  ChosenUpTo(next, more, r, c, w)
<1> SUFFICES ASSUME c > 0 PROVE ChosenUpTo(next, more, r, c, w)
  BY DEF ChosenUpTo
<1>1. PICK t \in Nat : t <= u /\ \E i \in Own(led, t) :
                           Chosen(acked, t, i) /\ c <= i /\ Agree(s, led[t], c)
  BY DEF ChosenUpTo
<1>2. PICK i \in Own(led, t) : Chosen(acked, t, i) /\ c <= i /\ Agree(s, led[t], c)
  BY <1>1
<1>3. /\ i \in Nat /\ i \in Own(next, t) /\ i <= Len(led[t]) /\ Len(led[t]) \in Nat
      /\ led[t] \in Entries /\ next[t] \in Entries
  BY OwnIndex, OwnKept DEF Ledger
<1>4. Chosen(more, t, i)
  BY <1>2, <1>3, ChosenBefore
<1>5. Agree(led[t], next[t], c)
  BY <1>2, <1>3, AgreeLess DEF Grows
<1>6. Agree(r, led[t], c)
  BY <1>2, <1>3 DEF Agree
<1>7. Agree(r, next[t], c)
  BY <1>3, <1>5, <1>6 DEF Agree
<1>8. QED BY <1>1, <1>2, <1>3, <1>4, <1>7 DEF ChosenUpTo

LEMMA LogsAreEntries ==
  ASSUME CoreTyped
  PROVE  \A n \in Server : /\ log[n].entries \in Entries /\ Len(log[n].entries) \in Nat
                           /\ log[n].commit \in Nat /\ log[n].commit <= Len(log[n].entries)
                           /\ currentTerm[n] \in Nat
BY PlainLog, NodeTypes DEF CoreTyped, Entries

LEMMA NextLogsAreEntries ==
  ASSUME CoreTyped'
  PROVE  \A n \in Server : /\ log'[n].entries \in Entries /\ Len(log'[n].entries) \in Nat
                           /\ log'[n].commit \in Nat /\ log'[n].commit <= Len(log'[n].entries)
BY PlainLog DEF CoreTyped, Entries

LEMMA SameAgrees ==
  ASSUME NEW s \in Entries, NEW i \in Nat, i <= Len(s)
  PROVE  Agree(s, s, i)
BY EntriesOf DEF Agree

LEMMA AcksStay ==
  ASSUME NEW led \in Ledger, NEW acked \in AckRecord
  PROVE  AcksGrow(acked, acked) /\ Grows(led, led)
<1>1. \A t \in Nat : led[t] \in Entries /\ Len(led[t]) \in Nat
  BY EntriesOf DEF Ledger
<1>2. Grows(led, led)
  BY <1>1, SameAgrees DEF Grows
<1>3. AcksGrow(acked, acked)
  BY DEF AcksGrow, AckRecord
<1>4. QED BY <1>2, <1>3

\* A commit index that did not move, over a log that kept what it covers.
LEMMA CommitStaysChosen ==
  ASSUME CoreTyped, CoreTyped', [Next]_vars, TermsGrow,
         NEW led \in Ledger, NEW next \in Ledger, Grows(led, next),
         NEW acked \in AckRecord, NEW more \in AckRecord, AcksGrow(acked, more),
         CommitsChosen(led, acked), NEW n \in Server
  PROVE  ChosenUpTo(next, more, log'[n].entries, log[n].commit, currentTerm'[n])
<1> DEFINE s == log[n].entries
           z == log'[n].entries
           c == log[n].commit
<1>1. /\ s \in Entries /\ Len(s) \in Nat /\ c \in Nat /\ c <= Len(s) /\ currentTerm[n] \in Nat
      /\ z \in Entries /\ Len(z) \in Nat /\ log'[n].commit \in Nat /\ log'[n].commit <= Len(z)
      /\ currentTerm'[n] \in Nat /\ currentTerm[n] <= currentTerm'[n]
  BY LogsAreEntries, NextLogsAreEntries DEF TermsGrow
<1>2. c <= log'[n].commit /\ \A j \in 1 .. c : s[j] = z[j]
  BY CommittedKept
<1>3. ChosenUpTo(led, acked, s, c, currentTerm[n])
  BY DEF CommitsChosen
<1> HIDE DEF s, z, c
<1>4. Agree(s, z, c)
  BY <1>1, <1>2 DEF Agree
<1>5. ChosenUpTo(next, more, z, c, currentTerm'[n])
  BY <1>1, <1>3, <1>4, ChosenUpToKept
<1>6. QED BY <1>5 DEF z, c

LEMMA QuietAcks ==
  ASSUME CoreTyped, CoreTyped', [Next]_vars, TermsGrow,
         NEW led \in Ledger, NEW acked \in AckRecord,
         Matching(led), Acknowledged(led, acked), Quiet, QuietProgress
  PROVE  Acknowledged(led, acked)'
<1>0. /\ LogsOrdered(led) /\ AcksBounded(led, acked) /\ LeadersComplete(led, acked)
      /\ LogsKeep(led, acked) /\ CommitsChosen(led, acked) /\ AcksTold(acked)
      /\ LeadersStay /\ RequestsFromLeaders /\ LogsStay /\ elected' = elected
      /\ CommitsByLeader /\ MatchesTold /\ NoNewAcks
      /\ AcksGrow(acked, acked) /\ Grows(led, led)
  BY AcksStay DEF Acknowledged, Quiet, QuietProgress
<1>1. LogsOrdered(led)'
  <2>1. ASSUME NEW n \in Server, NEW i \in 1 .. Len(log'[n].entries)
        PROVE  log'[n].entries[i].term <= currentTerm'[n]
    <3>1. /\ log'[n].entries = log[n].entries /\ log[n].entries[i].term \in Nat
          /\ log[n].entries[i].term <= currentTerm[n]
      BY <1>0, <2>1, LogsAreEntries, EntriesOf DEF LogsOrdered, LogsStay
    <3>2. QED BY <3>1 DEF TermsGrow
  <2>2. QED BY <1>0, <2>1 DEF LogsOrdered
<1>2. AcksBounded(led, acked)'
  BY <1>0 DEF AcksBounded, TermsGrow
<1>3. \A t, i \in Nat : MayBeChosen(acked, t, i)' => MayBeChosen(acked, t, i)
  BY <1>0, ChosenBefore
<1>4. LeadersComplete(led, acked)'
  BY <1>0, <1>3, OwnIndex DEF LeadersComplete, Elected
<1>5. LogsKeep(led, acked)'
  BY <1>0, <1>3, OwnIndex DEF LogsKeep, Keeps, LogsStay
<1>6. ASSUME NEW n \in Server
      PROVE  ChosenUpTo(led, acked, log'[n].entries, log'[n].commit, currentTerm'[n])
  <2>1. CASE log'[n].commit = log[n].commit
    BY <1>0, <2>1, CommitStaysChosen
  <2>2. CASE /\ role[n] = "LEADER"
             /\ log'[n].commit \in 1 .. Len(log'[n].entries)
             /\ log'[n].entries[log'[n].commit].term = currentTerm[n]
             /\ \E Q \in Quorums : \A v \in Q \ {n} : matchIndex'[n][v] >= log'[n].commit
    <3> DEFINE c == log'[n].commit
               t == currentTerm[n]
    <3>1. /\ log'[n].entries = log[n].entries /\ led[t] = log[n].entries
          /\ log[n].entries \in Entries /\ Len(log[n].entries) \in Nat
          /\ t \in Nat /\ t <= currentTerm'[n]
      BY <1>0, <2>2, LogsAreEntries DEF LogsStay, Matching, TermsGrow
    <3>2. c \in Own(led, t) /\ c \in Nat /\ c > 0
      BY <2>2, <3>1 DEF Own
    <3>3. PICK Q \in Quorums : \A v \in Q \ {n} : matchIndex'[n][v] >= c
      BY <2>2
    <3>4. ASSUME NEW v \in Q PROVE acked[v][t] >= c
      <4>0. v \in Server /\ acked[v][t] \in Nat
        BY <3>1, QuorumsOfServers DEF AckRecord
      <4>1. CASE v = n
        BY <4>1, <1>0, <2>2, <3>1 DEF AcksTold
      <4>2. CASE v # n
        <5>1. v \in Peers(n) /\ matchIndex[n][v] \in Nat /\ matchIndex'[n][v] \in Nat
          <6>1. v \in Peers(n)
            BY <4>0, <4>2 DEF Peers
          <6>2. matchIndex[n] \in [Peers(n) -> Nat] /\ matchIndex'[n] \in [Peers(n) -> Nat]
            BY DEF CoreTyped, TypeOK
          <6>3. QED BY <6>1, <6>2
        <5>2. matchIndex'[n][v] <= acked[v][t]
          BY <1>0, <2>2, <5>1 DEF AcksTold, MatchesTold
        <5>3. QED BY <3>2, <3>3, <4>0, <4>2, <5>1, <5>2
      <4>3. QED BY <4>1, <4>2
    <3>5. Chosen(acked, t, c)
      BY <3>3, <3>4 DEF Chosen
    <3>6. Agree(log'[n].entries, led[t], c)
      BY <3>1, <3>2, <2>2, SameAgrees
    <3>7. QED
      <4> HIDE DEF c, t
      <4>1. ChosenUpTo(led, acked, log'[n].entries, c, currentTerm'[n])
        BY <3>1, <3>2, <3>5, <3>6 DEF ChosenUpTo
      <4>2. QED BY <4>1 DEF c
  <2>3. QED BY <1>0, <2>1, <2>2 DEF CommitsByLeader
<1>7. ASSUME NEW m \in net', m.type = "AppendEntries"
      PROVE  Elected(m.term)' /\ ChosenUpTo(led, acked, led[m.term], m.commit, m.term)
  <2>1. CASE m \in net
    BY <2>1, <1>0, <1>7 DEF CommitsChosen, Elected
  <2>2. CASE m \notin net
    <3>1. PICK n \in Server : /\ role[n] = "LEADER" /\ m.term = currentTerm[n]
                              /\ m.commit = log[n].commit
      BY <1>0, <1>7, <2>2 DEF RequestsFromLeaders
    <3>2. <<currentTerm[n], n>> \in elected /\ led[currentTerm[n]] = log[n].entries
      BY <3>1 DEF Matching
    <3>3. QED BY <1>0, <3>1, <3>2 DEF CommitsChosen, Elected
  <2>3. QED BY <2>1, <2>2
<1>8. CommitsChosen(led, acked)'
  BY <1>6, <1>7 DEF CommitsChosen
<1>9. AcksTold(acked)'
  <2>1. \A m \in net' : m.type = "AppendResponse" /\ m.success => m.match <= acked[m.from][m.term]
    BY <1>0 DEF NoNewAcks, AcksTold
  <2>2. ASSUME NEW n \in Server, role'[n] = "LEADER", NEW p \in Peers(n)
        PROVE  matchIndex'[n][p] <= acked[p][currentTerm'[n]]
    <3>1. role[n] = "LEADER" /\ currentTerm'[n] = currentTerm[n]
      BY <1>0, <2>2 DEF LeadersStay
    <3>2. QED BY <1>0, <3>1 DEF MatchesTold, AcksTold
  <2>3. \A n \in Server : role'[n] = "LEADER" => acked[n][currentTerm'[n]] = Len(log'[n].entries)
    BY <1>0 DEF LeadersStay, LogsStay, AcksTold
  <2>4. QED BY <2>1, <2>2, <2>3 DEF AcksTold
<1>10. QED BY <1>1, <1>2, <1>4, <1>5, <1>8, <1>9 DEF Acknowledged

\* Node v acknowledges the log of term t up to k.
Acks(v, t, k, acked, more) ==
    /\ more \in AckRecord
    /\ more[v][t] = GreaterOf(acked[v][t], k)
    /\ \A w \in Server, u \in Nat : w # v \/ u # t => more[w][u] = acked[w][u]

LEMMA AcksExist ==
  ASSUME NEW acked \in AckRecord, NEW v \in Server, NEW t \in Nat, NEW k \in Nat
  PROVE  \E more : Acks(v, t, k, acked, more)
<1> DEFINE more == [w \in Server |-> [u \in Nat |->
                       IF w = v /\ u = t THEN GreaterOf(acked[v][t], k) ELSE acked[w][u]]]
<1>1. \A w \in Server, u \in Nat : acked[w][u] \in Nat
  BY DEF AckRecord
<1>2. GreaterOf(acked[v][t], k) \in Nat
  BY <1>1 DEF GreaterOf
<1>3. more \in AckRecord
  BY <1>1, <1>2 DEF AckRecord
<1>4. Acks(v, t, k, acked, more)
  BY <1>3 DEF Acks
<1>5. QED BY <1>4

LEMMA AckEffect ==
  ASSUME NEW acked \in AckRecord, NEW v \in Server, NEW t \in Nat, NEW k \in Nat,
         NEW more, Acks(v, t, k, acked, more),
         TermsGrow, currentTerm[v] <= t, t = currentTerm'[v]
  PROVE  /\ more \in AckRecord /\ AcksGrow(acked, more)
         /\ more[v][t] >= k /\ more[v][t] >= acked[v][t]
         /\ more[v][t] = k \/ more[v][t] = acked[v][t]
<1>1. \A w \in Server, u \in Nat : acked[w][u] \in Nat
  BY DEF AckRecord
<1>2. /\ more[v][t] >= k /\ more[v][t] >= acked[v][t]
      /\ more[v][t] = k \/ more[v][t] = acked[v][t]
  BY <1>1 DEF Acks, GreaterOf
<1>3. AcksGrow(acked, more)
  BY <1>1, <1>2 DEF AcksGrow, Acks
<1>4. QED BY <1>2, <1>3 DEF Acks

\* What BecomeLeader and Propose do to commit indices and to progress.
LEMMA LeadProgress ==
  ASSUME CoreTyped, NEW n \in Server, BecomeLeader(n) \/ Propose(n)
  PROVE  /\ \A s \in Server \ {n} : matchIndex'[s] = matchIndex[s]
         /\ \A p \in Peers(n) : \/ matchIndex'[n][p] = 0
                                \/ role[n] = "LEADER" /\ matchIndex'[n][p] = matchIndex[n][p]
         /\ \/ log'[n].commit = log[n].commit
            \/ /\ role[n] = "LEADER"
               /\ log'[n].commit \in 1 .. Len(log'[n].entries)
               /\ log'[n].entries[log'[n].commit].term = currentTerm[n]
               /\ \E Q \in Quorums : \A v \in Q \ {n} : matchIndex[n][v] >= log'[n].commit
<1>1. CASE BecomeLeader(n)
  <2>1. matchIndex' = [matchIndex EXCEPT ![n] = [p \in Peers(n) |-> 0]] /\ log' = log
    BY <1>1 DEF BecomeLeader, ResetPeerProgress
  <2>2. matchIndex = [s \in Server |-> matchIndex[s]]
    BY DEF CoreTyped
  <2>3. matchIndex'[n] = [p \in Peers(n) |-> 0] /\ \A s \in Server \ {n} : matchIndex'[s] = matchIndex[s]
    BY <2>1, <2>2
  <2>4. QED BY <2>1, <2>3
<1>2. CASE Propose(n)
  <2>1. UNCHANGED matchIndex /\ role[n] = "LEADER"
    BY <1>2 DEF Propose, peerVars
  <2>2. CommitsOwn(n, log[n], log'[n], matchIndex[n]) /\ Plain(log'[n])
    BY <1>2, ProposeEffect
  <2>3. log[n].commit \in Nat
    BY LogsAreEntries
  <2>4. QED BY <2>1, <2>2, <2>3 DEF CommitsOwn
<1>3. QED BY <1>1, <1>2

\* A log is in the order of the terms, its leader's log being so.
LEMMA TracedOrdered ==
  ASSUME NEW led \in Ledger, LogsOrdered(led), NEW s \in Entries, Traced(led, s),
         NEW i \in 1 .. Len(s), NEW j \in 1 .. Len(s), i <= j
  PROVE  s[i].term <= s[j].term
<1> DEFINE t == s[j].term
<1>1. t \in Nat /\ Len(s) \in Nat
  BY EntriesOf
<1>2. Len(led[t]) \in Nat
  BY <1>1, EntriesOf DEF Ledger
<1>3. Agree(s, led[t], j)
  BY DEF Traced
<1> HIDE DEF t
<1>4. /\ i \in 1 .. Len(led[t]) /\ j \in 1 .. Len(led[t])
      /\ s[i] = led[t][i] /\ s[j] = led[t][j]
  BY <1>1, <1>2, <1>3 DEF Agree
<1>5. led[t][i].term <= led[t][j].term
  BY <1>1, <1>4 DEF LogsOrdered
<1>6. QED BY <1>4, <1>5

\* Of two quorums, one that elected and one that may choose, a voter in both has
\* acknowledged what may be chosen.
LEMMA VoterAcknowledged ==
  ASSUME TermsGrow, NEW acked, NEW t \in Nat, NEW i \in Nat, MayBeChosen(acked, t, i)',
         NEW R \in Quorums, \A v \in R : currentTerm'[v] > t
  PROVE  \E v \in R : v \in Server /\ acked[v][t] >= i
<1>1. PICK Q \in Quorums : \A v \in Q : acked[v][t] >= i \/ currentTerm'[v] <= t
  BY DEF MayBeChosen
<1>2. PICK v \in Q : v \in R
  BY QuorumsMeet
<1>3. v \in Server
  BY <1>2, QuorumsOfServers
<1>4. currentTerm'[v] \in Nat
  BY <1>3 DEF TermsGrow
<1>5. QED BY <1>1, <1>2, <1>3, <1>4

LEMMA LeadAcks ==
  ASSUME CoreTyped, CoreTyped', [Next]_vars, TermsGrow, FreshTerms, ElectionSafety,
         NEW b \in BallotRecord, NEW led \in Ledger, NEW acked \in AckRecord,
         NEW base \in BaseRecord,
         Ballots(b), Matching(led), Acknowledged(led, acked), VotedFor(b, base, led, acked),
         NEW n \in Server, BecomeLeader(n) \/ Propose(n),
         NEW next, TakesOver(n, led, next),
         NEW more, Acks(n, currentTerm[n], Len(log'[n].entries), acked, more)
  PROVE  Acknowledged(next, more)' /\ AcksGrow(acked, more) /\ more \in AckRecord
<1> DEFINE T == currentTerm[n]
           z == log'[n].entries
           s == log[n].entries
<1>0. Leads(n, led, next)
  BY LeadEffect
<1>1. /\ Grows(led, next) /\ T \in Nat /\ z \in Entries /\ Len(z) \in Nat
      /\ next \in Ledger /\ next[T] = z /\ \A u \in Nat \ {T} : next[u] = led[u]
      /\ s \in Entries /\ Len(s) \in Nat
  <2>1. Grows(led, next) /\ T \in Nat /\ z \in Entries
    BY <1>0 DEF Leads
  <2>2. s \in Entries /\ Len(s) \in Nat /\ Len(z) \in Nat
    BY LogsAreEntries, NextLogsAreEntries
  <2>3. QED BY <2>1, <2>2 DEF TakesOver
<1>2. /\ \A v \in Server \ {n} : log'[v] = log[v] /\ role'[v] = role[v]
      /\ \A v \in Server \ {n} : role[v] = "LEADER" => currentTerm[v] # T
  BY <1>0 DEF Leads
<1>3. /\ UNCHANGED <<currentTerm, net>> /\ role'[n] = "LEADER"
      /\ <<T, n>> \in elected' /\ elected \subseteq elected'
  BY <1>0 DEF Leads
<1>4. Agree(s, z, Len(s))
  BY <1>0 DEF Leads
<1>5. \/ z = s /\ led[T] = << >>
      \/ led[T] = s /\ Len(z) = Len(s) + 1 /\ z[Len(z)].term = T
  BY <1>0 DEF Leads
<1>6. /\ AcksGrow(acked, more) /\ more \in AckRecord
      /\ more[n][T] >= Len(z) /\ (more[n][T] = Len(z) \/ more[n][T] = acked[n][T])
      /\ \A w \in Server, u \in Nat : w # n \/ u # T => more[w][u] = acked[w][u]
  <2>1. T = currentTerm'[n] /\ T <= T
    BY <1>1, <1>3
  <2>2. AcksGrow(acked, more) /\ more \in AckRecord
    BY <1>1, <2>1, AckEffect
  <2>3. more[n][T] >= Len(z) /\ (more[n][T] = Len(z) \/ more[n][T] = acked[n][T])
    BY <1>1, <2>1, AckEffect
  <2>4. QED BY <2>2, <2>3 DEF Acks
<1>7. /\ LogsOrdered(led) /\ AcksBounded(led, acked) /\ LeadersComplete(led, acked)
      /\ LogsKeep(led, acked) /\ CommitsChosen(led, acked) /\ AcksTold(acked)
  BY DEF Acknowledged
<1>8. \A w \in Server, u \in Nat : acked[w][u] \in Nat /\ more[w][u] \in Nat
  BY <1>6 DEF AckRecord
<1>9. \A u \in Nat : /\ led[u] \in Entries /\ Len(led[u]) \in Nat
                     /\ next[u] \in Entries /\ Len(next[u]) \in Nat
                     /\ Len(led[u]) <= Len(next[u])
  BY <1>1, EntriesOf DEF Ledger, Grows, Agree
<1> HIDE DEF T, z, s
<1>10. more[n][T] = Len(z)
  <2>0. Len(led[T]) <= Len(z) /\ Len(led[T]) \in Nat /\ acked[n][T] \in Nat
    BY <1>1, <1>8, <1>9
  <2>1. acked[n][T] <= Len(z)
    <3>1. acked[n][T] <= Len(led[T])
      BY <1>1, <1>7 DEF AcksBounded
    <3>2. QED BY <1>1, <2>0, <3>1
  <2>2. QED BY <1>1, <1>6, <1>8, <2>1
<1>11. \A t, i \in Nat : MayBeChosen(more, t, i)' => MayBeChosen(acked, t, i)
  BY <1>6, ChosenBefore
\* the terms in order
<1>12. LogsOrdered(next)'
  <2>1. \A i \in 1 .. Len(s) : s[i].term \in Nat /\ s[i].term <= T
    BY <1>1, <1>7, EntriesOf DEF LogsOrdered, s, T
  <2>2. \A i, j \in 1 .. Len(s) : i <= j => s[i].term <= s[j].term
    BY <1>1, <1>7, TracedOrdered DEF Matching, s
  <2>3. /\ \A i \in 1 .. Len(z) : z[i].term \in Nat /\ z[i].term <= T
        /\ \A i, j \in 1 .. Len(z) : i <= j => z[i].term <= z[j].term
    <3>1. CASE z = s
      BY <2>1, <2>2, <3>1
    <3>2. CASE Len(z) = Len(s) + 1 /\ z[Len(z)].term = T
      <4>1. \A i \in 1 .. Len(s) : z[i] = s[i]
        BY <1>1, <1>4 DEF Agree
      <4>2. \A i \in 1 .. Len(z) : i \in 1 .. Len(s) \/ i = Len(z)
        BY <1>1, <3>2
      <4>3. \A i \in 1 .. Len(z) : z[i].term \in Nat /\ z[i].term <= T
        BY <1>1, <2>1, <3>2, <4>1, <4>2
      <4>4. ASSUME NEW i \in 1 .. Len(z), NEW j \in 1 .. Len(z), i <= j
            PROVE  z[i].term <= z[j].term
        <5>1. CASE j = Len(z)
          BY <5>1, <3>2, <4>3
        <5>2. CASE j # Len(z)
          <6>1. i \in 1 .. Len(s) /\ j \in 1 .. Len(s)
            BY <1>1, <3>2, <4>4, <5>2
          <6>2. QED BY <2>2, <4>1, <4>4, <6>1
        <5>3. QED BY <5>1, <5>2
      <4>5. QED BY <4>3, <4>4
    <3>3. QED BY <1>5, <3>1, <3>2
  <2>4. ASSUME NEW v \in Server, NEW i \in 1 .. Len(log'[v].entries)
        PROVE  log'[v].entries[i].term <= currentTerm'[v]
    <3>1. CASE v = n
      BY <3>1, <1>3, <2>3, <2>4 DEF z, T
    <3>2. CASE v # n
      BY <3>2, <1>2, <1>3, <1>7, <2>4 DEF LogsOrdered
    <3>3. QED BY <3>1, <3>2
  <2>5. \A t \in Nat : \A i, j \in 1 .. Len(next[t]) : i <= j => next[t][i].term <= next[t][j].term
    BY <1>1, <1>7, <2>3 DEF LogsOrdered
  <2>6. \A t \in Nat : \A i \in 1 .. Len(next[t]) : next[t][i].term <= t
    BY <1>1, <1>7, <2>3 DEF LogsOrdered
  <2>7. QED BY <2>4, <2>5, <2>6 DEF LogsOrdered
<1>13. AcksBounded(next, more)'
  <2>1. ASSUME NEW v \in Server, NEW t \in Nat
        PROVE  more[v][t] <= Len(next[t]) /\ (t > currentTerm[v] => more[v][t] = 0)
    <3>1. CASE v = n /\ t = T
      BY <3>1, <1>1, <1>10 DEF T
    <3>2. CASE v # n \/ t # T
      BY <3>2, <1>6, <1>7, <1>8, <1>9 DEF AcksBounded
    <3>3. QED BY <3>1, <3>2
  <2>2. QED BY <2>1, <1>3 DEF AcksBounded
\* an entry of its own that a leader just made nobody else has acknowledged
<1>14. ASSUME NEW t \in Nat, NEW i \in Own(next, t), NEW v \in Server \ {n}, more[v][t] >= i
       PROVE  i \in Own(led, t) /\ acked[v][t] >= i
  <2>1. acked[v][t] >= i /\ acked[v][t] <= Len(led[t]) /\ acked[v][t] \in Nat
    BY <1>6, <1>7, <1>8, <1>14 DEF AcksBounded
  <2>2. i \in Nat /\ i <= Len(led[t])
    BY <1>1, <1>9, <2>1, OwnIndex
  <2>3. QED BY <1>1, <2>1, <2>2, OwnKept
<1>15. LogsKeep(next, more)'
  <2> SUFFICES ASSUME NEW v \in Server, NEW t \in Nat, NEW i \in Own(next, t),
                      more[v][t] >= i, MayBeChosen(more, t, i)'
               PROVE  Agree(log'[v].entries, next[t], i)
    BY DEF LogsKeep, Keeps
  <2>0. i \in Nat /\ i \in 1 .. Len(next[t])
    BY <1>1, OwnIndex
  <2>1. CASE v = n /\ t = T
    BY <2>0, <2>1, <1>1, SameAgrees DEF z
  <2>2. CASE v = n /\ t # T
    <3>1. next[t] = led[t] /\ more[n][t] = acked[n][t] /\ i \in Own(led, t)
      BY <2>2, <1>1, <1>6 DEF Own
    <3>2. Agree(s, led[t], i)
      BY <2>0, <2>2, <3>1, <1>7, <1>11 DEF LogsKeep, Keeps, s
    <3>3. Agree(z, led[t], i)
      BY <2>0, <3>2, <1>1, <1>4, <1>9 DEF Agree
    <3>4. QED BY <2>2, <3>1, <3>3 DEF z
  <2>3. CASE v # n
    <3>1. i \in Own(led, t) /\ acked[v][t] >= i
      BY <2>3, <1>14
    <3>2. Agree(log[v].entries, led[t], i) /\ log'[v] = log[v]
      BY <2>0, <2>3, <3>1, <1>2, <1>7, <1>11 DEF LogsKeep, Keeps
    <3>3. log[v].entries \in Entries
      BY LogsAreEntries
    <3>4. QED BY <2>0, <3>2, <3>3, <1>1, <1>9 DEF Agree, Grows
  <2>4. QED BY <2>1, <2>2, <2>3
\* whoever voted for a leader of a later term has left the earlier one
<1>16. ASSUME NEW u \in Terms, NEW x \in Server, NEW R \in Quorums, \A v \in R : b[v][u] = x
       PROVE  \A v \in R : v \in Server /\ currentTerm[v] >= u /\ currentTerm'[v] >= u
  <2> SUFFICES ASSUME NEW v \in R PROVE v \in Server /\ currentTerm[v] >= u
    BY <1>3
  <2>1. v \in Server /\ b[v][u] # Nobody
    BY <1>16, QuorumsOfServers, ServerAssumption
  <2>2. ~(u > currentTerm[v])
    BY <2>1 DEF Ballots, BallotsUpToDate
  <2>3. QED BY <2>1, <2>2, TermsAreNumbers DEF TermsGrow
<1>17. LeadersComplete(next, more)'
  <2> SUFFICES ASSUME NEW t \in Nat, NEW u \in Nat, t < u, Elected(u)',
                      NEW i \in Own(next, t), MayBeChosen(more, t, i)'
               PROVE  Agree(next[u], next[t], i)
    BY DEF LeadersComplete
  <2>0. i \in Nat /\ MayBeChosen(acked, t, i)
    BY <1>1, <1>11, OwnIndex
  <2>1. CASE Elected(u)
    <3>1. PICK x \in Server : <<u, x>> \in elected
      BY <2>1 DEF Elected
    <3>2. PICK R \in Quorums : \A v \in R : b[v][u] = x
      BY <3>1 DEF Ballots, ElectedByBallots
    <3>3. u \in Terms
      BY <3>1, NodeTypes
    <3>4. \A v \in R : v \in Server /\ currentTerm[v] >= u /\ currentTerm'[v] > t
      BY <1>16, <3>2, <3>3 DEF TermsGrow
    <3>5. PICK v \in R : v \in Server /\ more[v][t] >= i
      BY <2>0, <3>4, VoterAcknowledged
    <3>6. i \in Own(led, t)
      <4>1. CASE v # n
        BY <3>5, <4>1, <1>14
      <4>2. CASE v = n
        <5>1. t # T
          BY <3>4, <4>2, <1>1 DEF T
        <5>2. QED BY <5>1, <1>1 DEF Own
      <4>3. QED BY <4>1, <4>2
    <3>7. Agree(led[u], led[t], i)
      BY <2>0, <2>1, <3>6, <1>7 DEF LeadersComplete
    <3>8. /\ i <= Len(led[u]) /\ i <= Len(led[t]) /\ \A j \in 1 .. i : led[u][j] = led[t][j]
      BY <3>7 DEF Agree
    <3>9. \A y \in Nat : \A j \in 1 .. Len(led[y]) : next[y][j] = led[y][j]
      BY <1>1 DEF Agree, Grows
    <3>10. i <= Len(next[u]) /\ i <= Len(next[t])
      BY <2>0, <3>8, <1>9
    <3>11. \A j \in 1 .. i : j \in 1 .. Len(led[u]) /\ j \in 1 .. Len(led[t])
      BY <2>0, <3>8, <1>9
    <3>12. \A j \in 1 .. i : next[u][j] = next[t][j]
      BY <3>8, <3>9, <3>11
    <3>13. QED BY <3>10, <3>12 DEF Agree
  <2>2. CASE ~Elected(u)
    <3>1. u = T /\ BecomeLeader(n)
      <4>1. CASE BecomeLeader(n)
        BY <2>2, <4>1 DEF BecomeLeader, Elected, T
      <4>2. CASE Propose(n)
        BY <2>2, <4>2 DEF Propose, ghosts, Elected
      <4>3. QED BY <4>1, <4>2
    <3>2. /\ role[n] = "CANDIDATE" /\ Cardinality(votes[n]) >= Majority /\ z = s
      BY <3>1 DEF BecomeLeader, z, s
    <3>3. T \in Terms /\ votes[n] \in Quorums /\ \A v \in votes[n] : b[v][T] = n
      BY <3>2, NodeTypes DEF Ballots, GrantsAreBallots, Quorums, T
    <3>4. \A v \in votes[n] : v \in Server /\ currentTerm'[v] > t
      BY <1>16, <3>1, <3>3 DEF TermsGrow
    <3>5. PICK v \in votes[n] : v \in Server /\ more[v][t] >= i
      BY <2>0, <3>3, <3>4, VoterAcknowledged
    <3>6. t # T /\ next[t] = led[t] /\ i \in Own(led, t) /\ acked[v][t] >= i
      BY <3>1, <3>5, <1>1, <1>6 DEF Own
    <3>7. t \in 0 .. T - 1
      BY <3>1, <1>1
    <3>8. Keeps(led, acked, v, base[n][T], t)
      BY <3>3, <3>5, <3>7 DEF VotedFor, VotesKeep
    <3>9. Agree(base[n][T], led[t], i)
      BY <2>0, <3>6, <3>8 DEF Keeps
    <3>10. base[n][T] = s
      BY <3>2 DEF VotedFor, BasesAsked, T, s
    <3>11. QED BY <3>1, <3>2, <3>6, <3>9, <3>10, <1>1
  <2>3. QED BY <2>1, <2>2
<1>18. AcksTold(more)'
  <2>1. ASSUME NEW m \in net', m.type = "AppendResponse", m.success
        PROVE  m.match <= more[m.from][m.term]
    <3>1. m \in AppendResponses /\ m \in net
      BY <1>3, <2>1, KindsOfMessage DEF CoreTyped
    <3>2. m.match \in Nat /\ m.from \in Server /\ m.term \in Nat
      BY <3>1, TermsAreNumbers DEF AppendResponses
    <3>3. m.match <= acked[m.from][m.term] /\ acked[m.from][m.term] <= more[m.from][m.term]
      BY <2>1, <3>1, <3>2, <1>6, <1>7 DEF AcksTold, AcksGrow
    <3>4. QED BY <3>2, <3>3, <1>8
  <2>2. ASSUME NEW v \in Server, role'[v] = "LEADER"
        PROVE  /\ more[v][currentTerm'[v]] = Len(log'[v].entries)
               /\ \A p \in Peers(v) : matchIndex'[v][p] <= more[p][currentTerm'[v]]
    <3>1. CASE v = n
      <4>1. more[v][currentTerm'[v]] = Len(log'[v].entries)
        BY <3>1, <1>3, <1>10 DEF T, z
      <4>2. ASSUME NEW p \in Peers(v) PROVE matchIndex'[v][p] <= more[p][currentTerm'[v]]
        <5>1. p \in Server /\ p # n
          BY <3>1 DEF Peers
        <5>2. CASE matchIndex'[v][p] = 0
          BY <5>1, <5>2, <1>1, <1>3, <1>8, <3>1 DEF T
        <5>3. CASE role[n] = "LEADER" /\ matchIndex'[v][p] = matchIndex[v][p]
          <6>1. matchIndex[n][p] <= acked[p][T]
            BY <3>1, <5>3, <1>7 DEF AcksTold, T
          <6>2. more[p][T] = acked[p][T]
            BY <5>1, <1>1, <1>6
          <6>3. QED BY <3>1, <5>3, <6>1, <6>2, <1>3 DEF T
        <5>4. QED BY <3>1, <5>2, <5>3, LeadProgress
      <4>3. QED BY <4>1, <4>2
    <3>2. CASE v # n
      <4>1. /\ role[v] = "LEADER" /\ log'[v] = log[v] /\ currentTerm'[v] = currentTerm[v]
            /\ currentTerm[v] # T /\ currentTerm[v] \in Nat
        BY <2>2, <3>2, <1>2, <1>3 DEF TermsGrow
      <4>2. matchIndex'[v] = matchIndex[v]
        BY <3>2, LeadProgress
      <4>3. ASSUME NEW p \in Peers(v) PROVE matchIndex'[v][p] <= more[p][currentTerm'[v]]
        <5>1. p \in Server
          BY DEF Peers
        <5>2. more[p][currentTerm[v]] = acked[p][currentTerm[v]]
          BY <4>1, <5>1, <1>6
        <5>3. QED BY <4>1, <4>2, <5>2, <1>7 DEF AcksTold
      <4>4. QED BY <3>2, <4>1, <4>3, <1>6, <1>7 DEF AcksTold
    <3>3. QED BY <3>1, <3>2
  <2>3. QED BY <2>1, <2>2 DEF AcksTold
<1>19. ASSUME NEW v \in Server
       PROVE  ChosenUpTo(next, more, log'[v].entries, log'[v].commit, currentTerm'[v])
  <2>1. CASE log'[v].commit = log[v].commit
    BY <2>1, <1>1, <1>6, <1>7, CommitStaysChosen
  <2>2. CASE log'[v].commit # log[v].commit
    <3> DEFINE c == log'[v].commit
    <3>1. v = n
      BY <2>2, <1>2
    <3>2. /\ role[n] = "LEADER" /\ c \in 1 .. Len(z) /\ z[c].term = T
          /\ \E Q \in Quorums : \A w \in Q \ {n} : matchIndex[n][w] >= c
      BY <2>2, <3>1, LeadProgress DEF z, T
    <3>3. c \in Own(next, T) /\ c \in Nat /\ c > 0
      BY <3>2, <1>1 DEF Own
    <3>4. PICK Q \in Quorums : \A w \in Q \ {n} : matchIndex[n][w] >= c
      BY <3>2
    <3> HIDE DEF c
    <3>5. ASSUME NEW w \in Q PROVE more[w][T] >= c
      <4>0. w \in Server
        BY QuorumsOfServers
      <4>1. CASE w = n
        BY <3>2, <4>1, <1>1, <1>10
      <4>2. CASE w # n
        <5>1. w \in Peers(n)
          BY <4>0, <4>2 DEF Peers
        <5>2. matchIndex[n][w] \in Nat
          BY <5>1 DEF CoreTyped, TypeOK
        <5>3. matchIndex[n][w] <= more[w][T]
          BY <3>2, <4>0, <4>2, <5>1, <1>1, <1>6, <1>7 DEF AcksTold, T
        <5>4. QED BY <3>3, <3>4, <4>0, <4>2, <5>2, <5>3, <1>1, <1>8
      <4>3. QED BY <4>1, <4>2
    <3>6. Chosen(more, T, c)
      BY <3>4, <3>5 DEF Chosen
    <3>7. Agree(z, next[T], c)
      BY <3>2, <3>3, <1>1, SameAgrees
    <3>8. ChosenUpTo(next, more, z, c, currentTerm'[n])
      BY <3>3, <3>6, <3>7, <1>1, <1>3 DEF ChosenUpTo, T
    <3>9. QED BY <3>1, <3>8 DEF c, z
  <2>3. QED BY <2>1, <2>2
<1>20. ASSUME NEW m \in net', m.type = "AppendEntries"
       PROVE  Elected(m.term)' /\ ChosenUpTo(next, more, next[m.term], m.commit, m.term)
  <2>1. m \in net /\ m \in AppendRequests
    BY <1>3, <1>20, KindsOfMessage DEF CoreTyped
  <2>2. m.term \in Nat /\ m.commit \in Nat
    BY <2>1, TermsAreNumbers DEF AppendRequests
  <2>3. Elected(m.term) /\ ChosenUpTo(led, acked, led[m.term], m.commit, m.term)
    BY <2>1, <1>7, <1>20 DEF CommitsChosen
  <2>4. Agree(led[m.term], next[m.term], m.commit) \/ m.commit = 0
    <3>1. m.commit > 0 => m.commit <= Len(led[m.term])
      BY <2>3 DEF ChosenUpTo, Agree
    <3>2. Agree(led[m.term], next[m.term], Len(led[m.term]))
      BY <2>2, <1>1 DEF Grows
    <3>3. QED BY <2>2, <3>1, <3>2, <1>9, AgreeLess
  <2>5. ChosenUpTo(next, more, next[m.term], m.commit, m.term)
    BY <2>2, <2>3, <2>4, <1>1, <1>6, <1>9, ChosenUpToKept
  <2>6. QED BY <2>3, <2>5, <1>3 DEF Elected
<1>21. CommitsChosen(next, more)'
  BY <1>19, <1>20 DEF CommitsChosen
<1>22. QED BY <1>6, <1>12, <1>13, <1>15, <1>17, <1>18, <1>21 DEF Acknowledged

\* What a node accepts is what the leader of the term had, from the first entry
\* to the last, unless the code acknowledged what the request does not vouch for.
LEMMA AcceptedLog ==
  ASSUME CoreTyped, CoreTyped', NEW led \in Ledger, Matching(led),
         NEW req \in net, AcceptAppend(req), leaks' = {}
  PROVE  /\ req \in AppendRequests /\ req.to \in Server /\ req.term \in Nat
         /\ Agree(log'[req.to].entries, led[req.term], Len(log'[req.to].entries))
         /\ \A i \in Nat : Agree(log[req.to].entries, led[req.term], i)
                              => Agree(log'[req.to].entries, led[req.term], i)
         /\ log'[req.to].commit = log[req.to].commit \/ log'[req.to].commit <= req.commit
<1> DEFINE n == req.to
           T == req.term
           z == log'[n].entries
           e == req.prev + Len(req.entries)
<1>1. /\ req \in AppendRequests /\ n \in Server /\ AcceptedInto(req, log[n], log'[n])
      /\ ~ \E i \in e + 1 .. Len(z) : z[i].term # T
  <2>1. \A S : S \cup {"unverified"} # {}
    OBVIOUS
  <2>2. /\ req \in AppendRequests /\ n \in Server /\ AcceptedInto(req, log[n], log'[n])
        /\ leaks' = IF \E i \in e + 1 .. Len(z) : z[i].term # T
                    THEN leaks \cup {"unverified"} ELSE leaks
    BY AcceptEffect
  <2>3. QED BY <2>1, <2>2
<1>2. /\ T \in Nat /\ Plain(log[n]) /\ Traced(led, led[T])
      /\ Fragment(req, led[T]) /\ Traced(led, log[n].entries)
  BY <1>1, TermsAreNumbers DEF AppendRequests, CoreTyped, Matching
<1>3. Agree(z, led[T], e) /\ Traced(led, z)
  BY <1>1, <1>2, AcceptedFragment
<1>4. \A i \in Nat : Agree(log[n].entries, led[T], i) => Agree(z, led[T], i)
  BY <1>1, <1>2, AcceptedFragment
<1>5. z \in Entries /\ Len(z) \in Nat /\ e \in Nat
  <2>1. req.prev \in Nat /\ Len(req.entries) \in Nat
    BY <1>1, EntriesOf DEF AppendRequests, Entries
  <2>2. QED BY <1>1, <2>1, NextLogsAreEntries
<1>6. log'[n].commit = log[n].commit \/ log'[n].commit <= req.commit
  BY <1>1 DEF AcceptedInto
<1> HIDE DEF z, e, T
<1>7. Agree(z, led[T], Len(z))
  <2>1. CASE Len(z) <= e
    BY <2>1, <1>3, <1>5 DEF Agree
  <2>2. CASE e < Len(z)
    <3>1. Len(z) \in e + 1 .. Len(z) /\ Len(z) \in 1 .. Len(z)
      BY <1>5, <2>2
    <3>2. z[Len(z)].term = T
      BY <1>1, <3>1
    <3>3. QED BY <1>3, <3>1, <3>2 DEF Traced
  <2>3. QED BY <1>5, <2>1, <2>2
<1>8. QED BY <1>1, <1>2, <1>4, <1>6, <1>7 DEF z, T

LEMMA ChosenUpToLess ==
  ASSUME NEW led \in Ledger, NEW acked \in AckRecord, NEW s \in Entries,
         NEW c \in Nat, NEW d \in Nat, d <= c, NEW u \in Nat, ChosenUpTo(led, acked, s, c, u)
  PROVE  ChosenUpTo(led, acked, s, d, u)
<1> SUFFICES ASSUME d > 0 PROVE ChosenUpTo(led, acked, s, d, u)
  BY DEF ChosenUpTo
<1>1. PICK t \in Nat : t <= u /\ \E i \in Own(led, t) :
                           Chosen(acked, t, i) /\ c <= i /\ Agree(s, led[t], c)
  BY DEF ChosenUpTo
<1>2. PICK i \in Own(led, t) : Chosen(acked, t, i) /\ c <= i /\ Agree(s, led[t], c)
  BY <1>1
<1>3. i \in Nat /\ led[t] \in Entries
  BY OwnIndex
<1>4. d <= i /\ Agree(s, led[t], d)
  BY <1>2, <1>3, AgreeLess
<1>5. QED BY <1>1, <1>2, <1>4 DEF ChosenUpTo

LEMMA AcceptAcks ==
  ASSUME CoreTyped, CoreTyped', [Next]_vars, TermsGrow,
         NEW led \in Ledger, NEW acked \in AckRecord, Matching(led), Acknowledged(led, acked),
         NEW req \in net, AcceptAppend(req), leaks' = {},
         NEW more, Acks(req.to, req.term, Len(log'[req.to].entries), acked, more)
  PROVE  Acknowledged(led, more)' /\ AcksGrow(acked, more) /\ more \in AckRecord
<1> DEFINE n == req.to
           T == req.term
           s == log[n].entries
           z == log'[n].entries
<1>1. /\ req \in AppendRequests /\ n \in Server /\ T \in Nat
      /\ Agree(z, led[T], Len(z))
      /\ \A i \in Nat : Agree(s, led[T], i) => Agree(z, led[T], i)
      /\ log'[n].commit = log[n].commit \/ log'[n].commit <= req.commit
  BY AcceptedLog
<1>2. /\ LeadersStay /\ RequestsFromLeaders /\ elected' = elected
      /\ role'[n] # "LEADER" /\ currentTerm'[n] = T
      /\ \A v \in Server \ {n} : log'[v] = log[v] /\ currentTerm'[v] = currentTerm[v]
  BY AcceptorFollows
<1>3. /\ s \in Entries /\ z \in Entries /\ Len(s) \in Nat /\ Len(z) \in Nat
      /\ currentTerm[n] \in Nat /\ currentTerm[n] <= T
      /\ \A u \in Nat : led[u] \in Entries /\ Len(led[u]) \in Nat
  BY <1>1, <1>2, LogsAreEntries, NextLogsAreEntries, EntriesOf DEF TermsGrow, Ledger
<1>4. /\ net' = (net \ {req}) \cup {AppendAccepted(req, Len(z))}
      /\ UNCHANGED matchIndex
      /\ req.type = "AppendEntries"
  BY AcceptEffect DEF AcceptAppend, peerVars, FollowLeader
<1>5. /\ LogsOrdered(led) /\ AcksBounded(led, acked) /\ LeadersComplete(led, acked)
      /\ LogsKeep(led, acked) /\ CommitsChosen(led, acked) /\ AcksTold(acked)
  BY DEF Acknowledged
<1> HIDE DEF T, z, s, n
<1>6. AcksGrow(acked, more) /\ more \in AckRecord
  BY <1>1, <1>2, <1>3, AckEffect DEF n, z, T
<1>7. more[n][T] >= Len(z) /\ (more[n][T] = Len(z) \/ more[n][T] = acked[n][T])
  BY <1>1, <1>2, <1>3, AckEffect DEF n, z, T
<1>8. \A w \in Server, u \in Nat : w # n \/ u # T => more[w][u] = acked[w][u]
  BY DEF Acks, n, T
<1>9. \A w \in Server, u \in Nat : acked[w][u] \in Nat /\ more[w][u] \in Nat
  BY <1>6 DEF AckRecord
<1>10. \A t, i \in Nat : MayBeChosen(more, t, i)' => MayBeChosen(acked, t, i)
  BY <1>6, ChosenBefore
<1>11. Len(z) <= Len(led[T]) /\ \A j \in 1 .. Len(z) : z[j] = led[T][j]
  BY <1>1 DEF Agree
<1>12. LogsOrdered(led)'
  <2>1. ASSUME NEW v \in Server, NEW i \in 1 .. Len(log'[v].entries)
        PROVE  log'[v].entries[i].term <= currentTerm'[v]
    <3>1. CASE v = n
      <4>1. i \in 1 .. Len(led[T]) /\ z[i] = led[T][i]
        BY <2>1, <3>1, <1>1, <1>3, <1>11 DEF z
      <4>2. QED BY <3>1, <4>1, <1>1, <1>2, <1>5 DEF LogsOrdered, z
    <3>2. CASE v # n
      BY <2>1, <3>2, <1>2, <1>5 DEF LogsOrdered
    <3>3. QED BY <3>1, <3>2
  <2>2. QED BY <1>5, <2>1 DEF LogsOrdered
<1>13. AcksBounded(led, more)'
  <2>1. ASSUME NEW v \in Server, NEW t \in Nat
        PROVE  more[v][t] <= Len(led[t]) /\ (t > currentTerm'[v] => more[v][t] = 0)
    <3>1. CASE v = n /\ t = T
      BY <3>1, <1>1, <1>2, <1>5, <1>7, <1>11 DEF AcksBounded
    <3>2. CASE v # n \/ t # T
      <4>1. more[v][t] = acked[v][t]
        BY <3>2, <1>8
      <4>2. currentTerm[v] <= currentTerm'[v] /\ currentTerm[v] \in Nat /\ currentTerm'[v] \in Nat
        BY DEF TermsGrow
      <4>3. QED BY <4>1, <4>2, <1>5 DEF AcksBounded
    <3>3. QED BY <3>1, <3>2
  <2>2. QED BY <2>1 DEF AcksBounded
<1>14. LeadersComplete(led, more)'
  BY <1>2, <1>5, <1>10, OwnIndex DEF LeadersComplete, Elected
\* the leader of the request has what may be chosen from earlier terms
<1>15. Elected(T) /\ ChosenUpTo(led, acked, led[T], req.commit, T)
  BY <1>4, <1>5 DEF CommitsChosen, T
<1>16. LogsKeep(led, more)'
  <2> SUFFICES ASSUME NEW v \in Server, NEW t \in Nat, NEW i \in Own(led, t),
                      more[v][t] >= i, MayBeChosen(more, t, i)'
               PROVE  Agree(log'[v].entries, led[t], i)
    BY DEF LogsKeep, Keeps
  <2>0. i \in Nat /\ i \in 1 .. Len(led[t]) /\ MayBeChosen(acked, t, i)
    BY <1>10, OwnIndex
  <2>1. CASE v # n
    <3>1. more[v][t] = acked[v][t] /\ log'[v] = log[v]
      BY <2>1, <1>2, <1>8
    <3>2. QED BY <2>0, <3>1, <1>5 DEF LogsKeep, Keeps
  <2>2. CASE v = n /\ t = T
    <3>1. CASE i <= Len(z)
      <4>1. z \in Entries /\ led[T] \in Entries /\ Len(z) \in Nat /\ Agree(z, led[T], Len(z))
        BY <1>1, <1>3
      <4>2. Agree(z, led[T], i)
        BY <2>0, <3>1, <4>1, AgreeLess
      <4>3. QED BY <2>2, <4>2 DEF z
    <3>2. CASE ~(i <= Len(z))
      <4>1. acked[n][T] >= i
        BY <2>0, <2>2, <3>2, <1>3, <1>7
      <4>2. Agree(s, led[T], i)
        BY <2>0, <2>2, <4>1, <1>5 DEF LogsKeep, Keeps, s
      <4>3. QED BY <2>0, <2>2, <4>2, <1>1 DEF z
    <3>3. QED BY <3>1, <3>2
  <2>3. CASE v = n /\ t # T
    <3>1. acked[n][t] >= i
      BY <2>3, <1>8
    <3>2. ~(t > currentTerm[n])
      BY <2>0, <2>3, <3>1, <1>5, <1>9 DEF AcksBounded
    <3>3. t < T
      BY <2>3, <3>2, <1>1, <1>3
    <3>4. Agree(led[T], led[t], i)
      BY <2>0, <3>3, <1>1, <1>5, <1>15 DEF LeadersComplete
    <3>5. Agree(s, led[t], i)
      BY <2>0, <2>3, <3>1, <1>5 DEF LogsKeep, Keeps, s
    <3>6. Agree(s, led[T], i)
      BY <2>0, <3>4, <3>5, <1>1, <1>3, AgreeTrans
    <3>7. Agree(z, led[T], i)
      BY <2>0, <3>6, <1>1
    <3>8. Agree(led[t], led[T], i)
      BY <2>0, <3>4, <1>1, <1>3, AgreeLess
    <3>9. Agree(z, led[t], i)
      BY <2>0, <3>7, <3>8, <1>1, <1>3, AgreeTrans
    <3>10. QED BY <2>3, <3>9 DEF z
  <2>4. QED BY <2>1, <2>2, <2>3
<1>17. AcksTold(more)'
  <2>1. ASSUME NEW m \in net', m.type = "AppendResponse", m.success
        PROVE  m.match <= more[m.from][m.term]
    <3>1. CASE m \in net
      <4>1. m \in AppendResponses
        BY <2>1, <3>1, KindsOfMessage DEF CoreTyped
      <4>2. m.match \in Nat /\ m.from \in Server /\ m.term \in Nat
        BY <4>1, TermsAreNumbers DEF AppendResponses
      <4>3. m.match <= acked[m.from][m.term] /\ acked[m.from][m.term] <= more[m.from][m.term]
        BY <2>1, <3>1, <4>2, <1>5, <1>6 DEF AcksTold, AcksGrow
      <4>4. QED BY <4>2, <4>3, <1>9
    <3>2. CASE m = AppendAccepted(req, Len(z))
      <4>1. m.match = Len(z) /\ m.from = n /\ m.term = T
        BY <3>2 DEF AppendAccepted, n, T
      <4>2. QED BY <4>1, <1>1, <1>3, <1>7, <1>9
    <3>3. QED BY <2>1, <3>1, <3>2, <1>4
  <2>2. ASSUME NEW v \in Server, role'[v] = "LEADER"
        PROVE  /\ more[v][currentTerm'[v]] = Len(log'[v].entries)
               /\ \A p \in Peers(v) : matchIndex'[v][p] <= more[p][currentTerm'[v]]
    <3>1. /\ v # n /\ role[v] = "LEADER" /\ currentTerm'[v] = currentTerm[v]
          /\ log'[v] = log[v] /\ currentTerm[v] \in Nat
      BY <2>2, <1>2 DEF LeadersStay, TermsGrow
    <3>2. more[v][currentTerm[v]] = Len(log[v].entries)
      BY <3>1, <1>5, <1>8 DEF AcksTold
    <3>3. ASSUME NEW p \in Peers(v) PROVE matchIndex[v][p] <= more[p][currentTerm[v]]
      <4>1. p \in Server
        BY DEF Peers
      <4>2. matchIndex[v][p] \in Nat
        BY DEF CoreTyped, TypeOK
      <4>3. /\ matchIndex[v][p] <= acked[p][currentTerm[v]]
            /\ acked[p][currentTerm[v]] <= more[p][currentTerm[v]]
        BY <3>1, <4>1, <1>5, <1>6 DEF AcksTold, AcksGrow
      <4>4. QED BY <3>1, <4>1, <4>2, <4>3, <1>9
    <3>4. QED BY <3>1, <3>2, <3>3, <1>4
  <2>3. QED BY <2>1, <2>2 DEF AcksTold
<1>18. ASSUME NEW v \in Server
       PROVE  ChosenUpTo(led, more, log'[v].entries, log'[v].commit, currentTerm'[v])
  <2>1. CASE log'[v].commit = log[v].commit
    BY <2>1, <1>5, <1>6, AcksStay, CommitStaysChosen
  <2>2. CASE v = n /\ log'[v].commit <= req.commit
    <3>1. log'[n].commit \in Nat /\ log'[n].commit <= Len(z) /\ req.commit \in Nat
      BY <1>1, NextLogsAreEntries DEF AppendRequests, z
    <3>2. ChosenUpTo(led, acked, led[T], log'[n].commit, T)
      BY <2>2, <3>1, <1>1, <1>3, <1>15, ChosenUpToLess
    <3>3. Agree(led[T], z, log'[n].commit)
      BY <3>1, <1>1, <1>3, AgreeLess
    <3>4. ChosenUpTo(led, more, z, log'[n].commit, T)
      BY <3>1, <3>2, <3>3, <1>1, <1>3, <1>6, AcksStay, ChosenUpToKept
    <3>5. QED BY <2>2, <3>4, <1>2 DEF z
  <2>3. log'[v].commit = log[v].commit \/ (v = n /\ log'[v].commit <= req.commit)
    BY <1>1, <1>2
  <2>4. QED BY <2>1, <2>2, <2>3
<1>19. ASSUME NEW m \in net', m.type = "AppendEntries"
       PROVE  Elected(m.term)' /\ ChosenUpTo(led, more, led[m.term], m.commit, m.term)
  <2>1. m \in net
    BY <1>4, <1>19 DEF AppendAccepted
  <2>2. m \in AppendRequests
    BY <2>1, <1>19, KindsOfMessage DEF CoreTyped
  <2>3. m.term \in Nat /\ m.commit \in Nat
    BY <2>2, TermsAreNumbers DEF AppendRequests
  <2>4. Elected(m.term) /\ ChosenUpTo(led, acked, led[m.term], m.commit, m.term)
    BY <2>1, <1>5, <1>19 DEF CommitsChosen
  <2>5. Agree(led[m.term], led[m.term], m.commit) \/ m.commit = 0
    BY <2>3, <2>4, <1>3, SameAgrees DEF ChosenUpTo, Agree
  <2>6. ChosenUpTo(led, more, led[m.term], m.commit, m.term)
    BY <2>3, <2>4, <2>5, <1>3, <1>6, AcksStay, ChosenUpToKept
  <2>7. QED BY <2>4, <2>6, <1>2 DEF Elected
<1>20. CommitsChosen(led, more)'
  BY <1>18, <1>19 DEF CommitsChosen
<1>21. QED BY <1>6, <1>12, <1>13, <1>14, <1>16, <1>17, <1>20 DEF Acknowledged

----------------------------------------------------------------------------
(***************************************************************************)
(* The votes, step by step.                                                *)
(***************************************************************************)

\* Votes are cast by Timeout and HandleRequestVote; a candidacy starts with
\* Timeout and leaves the log alone; a request describes a candidate's log.
VotesStay ==
    \A v \in Server : votedFor'[v] \in Server =>
        votedFor'[v] = votedFor[v] /\ currentTerm'[v] = currentTerm[v]

CandidatesStay ==
    \A n \in Server : role'[n] = "CANDIDATE" =>
        /\ role[n] = "CANDIDATE" /\ currentTerm'[n] = currentTerm[n]
        /\ log'[n].entries = log[n].entries

AsksFromLogs ==
    \A m \in net' : m.type = "RequestVote" =>
        \/ m \in net
        \/ /\ role[m.from] = "CANDIDATE" /\ m.term = currentTerm[m.from]
           /\ Describes(m, log[m.from].entries)

LEMMA NothingAsked ==
  ASSUME \A m \in net' \ net : m.type # "RequestVote"
  PROVE  AsksFromLogs
BY DEF AsksFromLogs

\* A node that hears of a later term forgets its vote.
LEMMA VoteForgotten ==
  ASSUME CoreTyped, NEW n \in Server, NEW t \in Terms, UpdateCurrentTerm(n, t),
         t >= currentTerm[n]
  PROVE  VotesStay /\ \A v \in Server \ {n} : currentTerm'[v] = currentTerm[v]
<1>1. /\ t \in Nat /\ currentTerm[n] \in Nat /\ currentTerm \in [Server -> Terms]
      /\ votedFor \in [Server -> Server \cup {Nobody}] /\ Nobody \notin Server
  BY NodeTypes, TermsAreNumbers, ServerAssumption
<1>2. currentTerm' = [currentTerm EXCEPT ![n] = t]
  BY TermUpdate
<1>3. /\ \A v \in Server \ {n} : votedFor'[v] = votedFor[v]
      /\ votedFor'[n] = IF t > currentTerm[n] THEN Nobody ELSE votedFor[n]
  BY <1>1 DEF UpdateCurrentTerm
<1>4. t > currentTerm[n] \/ t = currentTerm[n]
  BY <1>1
<1>5. QED BY <1>1, <1>2, <1>3, <1>4 DEF VotesStay

LEMMA FollowVotes ==
  ASSUME CoreTyped, NEW m \in net, RejectMismatch(m) \/ AcceptAppend(m) \/ FailAppend(m)
  PROVE  AsksFromLogs /\ VotesStay /\ CandidatesStay
<1>0. /\ m.to \in Server /\ m.term \in Terms
      /\ role \in [Server -> Roles] /\ log \in [Server -> LogRecord]
  BY KindsOfMessage, NodeTypes DEF CoreTyped, TypeOK
<1>1. /\ m.term >= currentTerm[m.to] /\ UpdateCurrentTerm(m.to, m.term)
      /\ role' = [role EXCEPT ![m.to] = IF @ = "CANDIDATE" THEN "FOLLOWER" ELSE @]
  BY DEF RejectMismatch, AcceptAppend, FailAppend, FollowLeader
<1>2. \A x \in net' \ net : x.type # "RequestVote"
  BY DEF RejectMismatch, AcceptAppend, FailAppend, Reply, Consume, AppendRejected,
              AppendAccepted
<1>3. \A v \in Server \ {m.to} : log'[v] = log[v]
  BY <1>0 DEF RejectMismatch, AcceptAppend, FailAppend
<1>4. VotesStay /\ \A v \in Server \ {m.to} : currentTerm'[v] = currentTerm[v]
  BY <1>0, <1>1, VoteForgotten
<1>5. \A v \in Server \ {m.to} : role'[v] = role[v]
  BY <1>0, <1>1
<1>6. role'[m.to] # "CANDIDATE"
  BY <1>0, <1>1
<1>7. QED BY <1>2, <1>3, <1>4, <1>5, <1>6, NothingAsked DEF CandidatesStay

LEMMA LeadVotes ==
  ASSUME CoreTyped, NEW n \in Server, BecomeLeader(n) \/ Propose(n)
  PROVE  AsksFromLogs /\ VotesStay /\ CandidatesStay
<1>0. role \in [Server -> Roles] /\ log \in [Server -> LogRecord]
  BY NodeTypes DEF CoreTyped, TypeOK
<1>1. CASE BecomeLeader(n)
  <2>1. /\ UNCHANGED <<currentTerm, votedFor, log, net>>
        /\ role' = [role EXCEPT ![n] = "LEADER"]
    BY <1>1 DEF BecomeLeader
  <2>2. QED BY <1>0, <2>1, NothingAsked DEF VotesStay, CandidatesStay
<1>2. CASE Propose(n)
  <2>1. UNCHANGED <<role, currentTerm, votedFor, net>> /\ role[n] = "LEADER"
    BY <1>2 DEF Propose, nodeVars
  <2>2. \A v \in Server \ {n} : log'[v] = log[v]
    BY <1>0, <1>2 DEF Propose
  <2>3. QED BY <2>1, <2>2, NothingAsked DEF VotesStay, CandidatesStay
<1>3. QED BY <1>1, <1>2

\* Every step but Timeout and HandleRequestVote.
LEMMA VotingSteps ==
  ASSUME CoreTyped, CoreTyped', [Next]_vars
  PROVE  /\ AsksFromLogs
         /\ \/ VotesStay /\ CandidatesStay
            \/ \E n \in Server : Timeout(n)
            \/ \E m \in net : HandleRequestVote(m) /\ CandidatesStay
<1>0. /\ \A m \in net : /\ m.to \in Server /\ m.from \in Server /\ m.term \in Terms
                        /\ m.term \in Nat
      /\ \A n \in Server : currentTerm[n] \in Nat
      /\ role \in [Server -> Roles] /\ currentTerm \in [Server -> Terms]
      /\ log \in [Server -> LogRecord]
  BY KindsOfMessage, NodeTypes, TermsAreNumbers DEF CoreTyped, TypeOK
<1> DEFINE Still == AsksFromLogs /\ VotesStay /\ CandidatesStay
<1>1. CASE UNCHANGED vars
  <2>1. UNCHANGED <<role, currentTerm, votedFor, log, net>>
    BY <1>1 DEF vars, nodeVars
  <2>2. QED BY <2>1, NothingAsked DEF VotesStay, CandidatesStay
<1>2. ASSUME NEW n \in Server, Timeout(n) PROVE AsksFromLogs
  BY <1>2, NothingAsked DEF Timeout
<1>3. ASSUME NEW n \in Server, NEW m \in Server, SendRequestVote(n, m) PROVE Still
  <2> DEFINE r == [type |-> "RequestVote", from |-> n, to |-> m, term |-> currentTerm[n],
                   lastIndex |-> LastIndex(log[n]),
                   lastTerm  |-> TermAt(log[n], LastIndex(log[n]))]
  <2>1. /\ role[n] = "CANDIDATE" /\ net' = net \cup {r}
        /\ UNCHANGED <<role, currentTerm, votedFor, log>>
    BY <1>3 DEF SendRequestVote, Send, nodeVars
  <2>2. Plain(log[n])
    BY DEF CoreTyped
  <2>3. /\ LastIndex(log[n]) = Len(log[n].entries) /\ Len(log[n].entries) \in Nat
        /\ TermAt(log[n], 0) = 0
        /\ \A i \in 1 .. Len(log[n].entries) : TermAt(log[n], i) = log[n].entries[i].term
    BY <2>2, PlainLog
  <2>4. Describes(r, log[n].entries) /\ r.term = currentTerm[n] /\ r.from = n
    BY <2>3 DEF Describes
  <2> HIDE DEF r
  <2>5. AsksFromLogs
    BY <2>1, <2>4 DEF AsksFromLogs
  <2>6. QED BY <2>1, <2>5 DEF VotesStay, CandidatesStay
<1>4. ASSUME NEW n \in Server, NEW m \in Server, SendAppendEntries(n, m) \/ SendHeartbeat(n, m)
      PROVE  Still
  <2>1. /\ UNCHANGED <<role, currentTerm, votedFor, log>>
        /\ \A x \in net' \ net : x.type # "RequestVote"
    BY <1>4 DEF SendAppendEntries, SendHeartbeat, Send, AppendRequest, nodeVars
  <2>2. QED BY <2>1, NothingAsked DEF VotesStay, CandidatesStay
<1>5. ASSUME NEW m \in net, RefuseVote(m) \/ HandleVoteResponse(m) \/ RefuseStaleAppend(m)
                            \/ HandleAppendRejection(m) \/ DropAppendResponse(m) \/ Lose(m)
      PROVE  Still
  <2>1. /\ UNCHANGED <<role, currentTerm, votedFor, log>>
        /\ \A x \in net' \ net : x.type # "RequestVote"
    BY <1>5 DEF RefuseVote, HandleVoteResponse, RefuseStaleAppend, HandleAppendRejection,
                DropAppendResponse, Lose, Reply, Consume, VoteResponse, AppendRejected,
                nodeVars, ghosts
  <2>2. QED BY <2>1, NothingAsked DEF VotesStay, CandidatesStay
<1>6. ASSUME NEW m \in net, HandleRequestVote(m) PROVE AsksFromLogs /\ CandidatesStay
  <2>1. \A x \in net' \ net : x.type # "RequestVote"
    BY <1>6 DEF HandleRequestVote, Reply, VoteResponse
  <2>2. /\ UNCHANGED log /\ m.term >= currentTerm[m.to]
        /\ role' = [role EXCEPT ![m.to] = IF m.term > currentTerm[m.to] THEN "FOLLOWER" ELSE @]
        /\ currentTerm' = [currentTerm EXCEPT ![m.to] = m.term]
    BY <1>6 DEF HandleRequestVote
  <2>3. QED BY <1>0, <2>1, <2>2, NothingAsked DEF CandidatesStay
<1>7. ASSUME NEW m \in net, StepDown(m) PROVE Still
  <2>1. /\ UNCHANGED log /\ net' \subseteq net /\ m.term > currentTerm[m.to]
        /\ UpdateCurrentTerm(m.to, m.term)
        /\ \A v \in Server \ {m.to} : role'[v] = role[v]
        /\ role'[m.to] # "CANDIDATE"
    BY <1>0, <1>7 DEF StepDown, Consume, BecomeFollowerForRemote
  <2>2. m.to \in Server /\ m.term \in Terms /\ m.term >= currentTerm[m.to]
    BY <1>0, <2>1
  <2>3. VotesStay /\ \A v \in Server \ {m.to} : currentTerm'[v] = currentTerm[v]
    BY <2>1, <2>2, VoteForgotten
  <2>4. QED BY <2>1, <2>3, NothingAsked DEF CandidatesStay
<1>8. ASSUME NEW m \in net, LeaderRefusesAppend(m) PROVE Still
  <2>1. /\ UNCHANGED <<log, role>> /\ m.term >= currentTerm[m.to] /\ role[m.to] = "LEADER"
        /\ UpdateCurrentTerm(m.to, m.term)
        /\ \A x \in net' \ net : x.type # "RequestVote"
    BY <1>8 DEF LeaderRefusesAppend, Reply, AppendRejected
  <2>2. VotesStay /\ \A v \in Server \ {m.to} : currentTerm'[v] = currentTerm[v]
    BY <1>0, <2>1, VoteForgotten
  <2>3. QED BY <2>1, <2>2, NothingAsked DEF CandidatesStay
<1>9. ASSUME NEW m \in net, RejectMismatch(m) \/ AcceptAppend(m) \/ FailAppend(m) PROVE Still
  BY <1>9, FollowVotes
<1>10. ASSUME NEW m \in net, HandleAppendSuccess(m) PROVE Still
  <2>1. log' = [log EXCEPT ![m.to] = log'[m.to]] /\ log'[m.to].entries = log[m.to].entries
    BY <1>0, <1>10, SuccessEffect
  <2>2. UNCHANGED <<role, currentTerm, votedFor>> /\ net' \subseteq net
    BY <1>10 DEF HandleAppendSuccess, Consume, nodeVars
  <2>3. \A n \in Server : log'[n].entries = log[n].entries
    BY <1>0, <2>1
  <2>4. QED BY <2>2, <2>3, NothingAsked DEF VotesStay, CandidatesStay
<1>11. ASSUME NEW n \in Server, BecomeLeader(n) \/ Propose(n) PROVE Still
  BY <1>11, LeadVotes
<1>12. QED
  BY <1>1, <1>2, <1>3, <1>4, <1>5, <1>6, <1>7, <1>8, <1>9, <1>10, <1>11 DEF Next

\* A vote that this step casts is for a candidate whose log has what the voter
\* holds and what may be chosen.
NewVotesKeep(base, led, acked) ==
    \A v, x \in Server, u \in Terms :
        /\ votedFor'[v] = x /\ currentTerm'[v] = u
        /\ ~(votedFor'[v] = votedFor[v] /\ currentTerm'[v] = currentTerm[v])
        => /\ u <= currentTerm'[x]
           /\ \A t \in 0 .. u - 1 : Keeps(led, acked, v, base[x][u], t)'

\* The logs of candidacies not later than the terms reached are as they were.
BasesKept(base, asked) ==
    \A x \in Server, u \in Terms : u <= currentTerm[x] => asked[x][u] = base[x][u]

LEMMA VoteKept ==
  ASSUME CoreTyped, CoreTyped', TermsGrow, NEW b \in BallotRecord, Ballots(b),
         NEW led \in Ledger, NEW next \in Ledger, Grows(led, next),
         NEW acked \in AckRecord, NEW more \in AckRecord, AcksGrow(acked, more),
         AcksBounded(led, acked),
         NEW base \in BaseRecord, NEW asked \in BaseRecord, BasesKept(base, asked),
         VotesKeep(b, base, led, acked),
         NEW v \in Server, NEW u \in Terms, NEW x \in Server, b[v][u] = x
  PROVE  /\ u <= currentTerm'[x]
         /\ \A t \in 0 .. u - 1 : Keeps(next, more, v, asked[x][u], t)'
<1>1. /\ u \in Nat /\ currentTerm[x] \in Nat /\ currentTerm'[x] \in Nat
      /\ currentTerm[x] <= currentTerm'[x] /\ currentTerm[v] \in Nat
  BY TermsAreNumbers DEF TermsGrow
<1>2. u <= currentTerm[x] /\ \A t \in 0 .. u - 1 : Keeps(led, acked, v, base[x][u], t)
  BY DEF VotesKeep
<1>3. ~(u > currentTerm[v])
  <2>1. b[v][u] # Nobody
    BY ServerAssumption
  <2>2. QED BY <2>1 DEF Ballots, BallotsUpToDate
<1>4. ASSUME NEW t \in 0 .. u - 1, NEW i \in Own(next, t), more[v][t] >= i,
             MayBeChosen(more, t, i)'
      PROVE  Agree(asked[x][u], next[t], i)
  <2>1. t \in Nat /\ t < currentTerm[v]
    BY <1>1, <1>3
  <2>2. i \in Nat /\ MayBeChosen(acked, t, i)
    BY <1>4, <2>1, OwnIndex, ChosenBefore
  <2>3. more[v][t] = acked[v][t] /\ acked[v][t] <= Len(led[t]) /\ acked[v][t] \in Nat
    <3>1. ~(currentTerm[v] <= t)
      BY <1>1, <2>1
    <3>2. more[v][t] = acked[v][t]
      BY <2>1, <3>1 DEF AcksGrow
    <3>3. QED BY <2>1, <3>2 DEF AcksBounded, AckRecord
  <2>4. /\ led[t] \in Entries /\ next[t] \in Entries /\ Len(led[t]) \in Nat
        /\ Agree(led[t], next[t], Len(led[t]))
    BY <2>1, EntriesOf DEF Ledger, Grows
  <2>5. i <= Len(led[t])
    BY <1>4, <2>2, <2>3, <2>4
  <2>6. i \in Own(led, t)
    BY <1>4, <2>1, <2>5, OwnKept
  <2>7. Agree(base[x][u], led[t], i)
    BY <1>2, <1>4, <2>2, <2>3, <2>6 DEF Keeps
  <2>8. Agree(next[t], led[t], i)
    BY <2>2, <2>4, <2>5, AgreeLess
  <2>9. base[x][u] \in Entries
    BY <1>1 DEF BaseRecord
  <2>10. Agree(base[x][u], next[t], i)
    BY <2>2, <2>4, <2>7, <2>8, <2>9, AgreeTrans
  <2>11. QED BY <1>2, <2>10 DEF BasesKept
<1>5. QED BY <1>1, <1>2, <1>4 DEF Keeps

LEMMA VotesKept ==
  ASSUME CoreTyped, CoreTyped', TermsGrow, NEW b \in BallotRecord, Ballots(b),
         NEW c, c = NextRecord(b),
         NEW led \in Ledger, NEW next \in Ledger, Grows(led, next),
         NEW acked \in AckRecord, NEW more \in AckRecord, AcksGrow(acked, more),
         AcksBounded(led, acked),
         NEW base \in BaseRecord, NEW asked \in BaseRecord, BasesKept(base, asked),
         VotesKeep(b, base, led, acked), NewVotesKeep(asked, next, more)
  PROVE  VotesKeep(c, asked, next, more)'
<1> SUFFICES ASSUME NEW v \in Server, NEW u \in Terms, NEW x \in Server, c[v][u] = x
             PROVE  /\ u <= currentTerm'[x]
                    /\ \A t \in 0 .. u - 1 : Keeps(next, more, v, asked[x][u], t)'
  BY DEF VotesKeep
<1>1. c[v][u] = IF u = currentTerm'[v] THEN votedFor'[v] ELSE b[v][u]
  BY DEF NextRecord
<1>2. CASE b[v][u] = x
  BY <1>2, VoteKept
<1>3. CASE u = currentTerm'[v] /\ votedFor'[v] = x /\ b[v][u] # x
  <2>1. ~(votedFor'[v] = votedFor[v] /\ currentTerm'[v] = currentTerm[v])
    BY <1>3 DEF Ballots, BallotsUpToDate
  <2>2. QED BY <1>3, <2>1 DEF NewVotesKeep
<1>4. QED BY <1>1, <1>2, <1>3

LEMMA BasesAskedKept ==
  ASSUME CoreTyped, CoreTyped', TermsGrow, AsksFromLogs,
         NEW base \in BaseRecord, NEW asked \in BaseRecord, BasesKept(base, asked),
         BasesAsked(base),
         \A n \in Server : role'[n] = "CANDIDATE" => asked[n][currentTerm'[n]] = log'[n].entries
  PROVE  BasesAsked(asked)'
<1>1. ASSUME NEW m \in net', m.type = "RequestVote"
      PROVE  m.term <= currentTerm'[m.from] /\ Describes(m, asked[m.from][m.term])
  <2>1. /\ m.from \in Server /\ m.term \in Terms /\ m.term \in Nat
        /\ currentTerm[m.from] \in Nat /\ currentTerm'[m.from] \in Nat
        /\ currentTerm[m.from] <= currentTerm'[m.from]
    BY KindsOfMessage, TermsAreNumbers DEF CoreTyped, TermsGrow
  <2>2. m.term <= currentTerm[m.from] /\ Describes(m, base[m.from][m.term])
    <3>1. CASE m \in net
      BY <1>1, <3>1 DEF BasesAsked
    <3>2. CASE m \notin net
      BY <1>1, <2>1, <3>2 DEF AsksFromLogs, BasesAsked
    <3>3. QED BY <3>1, <3>2
  <2>3. asked[m.from][m.term] = base[m.from][m.term]
    BY <2>1, <2>2 DEF BasesKept
  <2>4. QED BY <2>1, <2>2, <2>3
<1>2. QED BY <1>1 DEF BasesAsked

\* A step that casts no vote and starts no candidacy.
LEMMA QuietVotes ==
  ASSUME CoreTyped, CoreTyped', TermsGrow, AsksFromLogs, VotesStay, CandidatesStay,
         NEW b \in BallotRecord, Ballots(b), NEW c, c = NextRecord(b),
         NEW led \in Ledger, NEW next \in Ledger, Grows(led, next),
         NEW acked \in AckRecord, NEW more \in AckRecord, AcksGrow(acked, more),
         AcksBounded(led, acked),
         NEW base \in BaseRecord, VotedFor(b, base, led, acked)
  PROVE  VotedFor(c, base, next, more)'
<1>1. VotesKeep(b, base, led, acked) /\ BasesTraced(base, led) /\ BasesAsked(base)
  BY DEF VotedFor
<1>2. BasesKept(base, base)
  BY DEF BasesKept
<1>3. NewVotesKeep(base, next, more)
  BY DEF NewVotesKeep, VotesStay
<1>4. VotesKeep(c, base, next, more)'
  BY <1>1, <1>2, <1>3, VotesKept
<1>5. \A n \in Server, u \in Terms : base[n][u] \in Entries
  BY TermsAreNumbers DEF BaseRecord
<1>6. BasesTraced(base, next)'
  BY <1>1, <1>5, TracedKept DEF BasesTraced
<1>7. BasesAsked(base)'
  <2>1. \A n \in Server : role'[n] = "CANDIDATE" => base[n][currentTerm'[n]] = log'[n].entries
    BY <1>1 DEF CandidatesStay, BasesAsked
  <2>2. QED BY <1>1, <1>2, <2>1, BasesAskedKept
<1>8. QED BY <1>4, <1>6, <1>7 DEF VotedFor

\* Timeout: the node asks with the log it has, in a term nobody asked it in.
AsksWith(n, base, asked) ==
    /\ asked \in BaseRecord
    /\ asked[n][currentTerm'[n]] = log[n].entries
    /\ \A x \in Server, u \in Nat : x # n \/ u # currentTerm'[n] => asked[x][u] = base[x][u]

LEMMA AskingExists ==
  ASSUME CoreTyped, CoreTyped', NEW n \in Server, NEW base \in BaseRecord
  PROVE  \E asked : AsksWith(n, base, asked)
<1> DEFINE T == currentTerm'[n]
           asked == [x \in Server |-> [u \in Nat |->
                        IF x = n /\ u = T THEN log[n].entries ELSE base[x][u]]]
<1>1. log[n].entries \in Entries /\ \A x \in Server, u \in Nat : base[x][u] \in Entries
  BY LogsAreEntries DEF BaseRecord
<1>2. T \in Nat
  <2>1. currentTerm' \in [Server -> 0 .. MaxTerm]
    BY DEF CoreTyped, TypeOK
  <2>2. QED BY <2>1, TermsAreNumbers DEF Terms
<1> HIDE DEF T
<1>3. asked \in BaseRecord
  BY <1>1 DEF BaseRecord
<1>4. \A x \in Server, u \in Nat :
         asked[x][u] = IF x = n /\ u = T THEN log[n].entries ELSE base[x][u]
  OBVIOUS
<1> HIDE DEF asked
<1>5. AsksWith(n, base, asked)
  BY <1>2, <1>3, <1>4 DEF AsksWith, T
<1>6. QED BY <1>5

LEMMA TimeoutVotes ==
  ASSUME CoreTyped, CoreTyped', TermsGrow, AsksFromLogs,
         NEW b \in BallotRecord, Ballots(b), NEW c, c = NextRecord(b),
         NEW led \in Ledger, NEW acked \in AckRecord,
         Matching(led), Acknowledged(led, acked),
         NEW n \in Server, Timeout(n),
         NEW base \in BaseRecord, VotedFor(b, base, led, acked),
         NEW asked, AsksWith(n, base, asked)
  PROVE  asked \in BaseRecord /\ VotedFor(c, asked, led, acked)'
<1>1. /\ VotesKeep(b, base, led, acked) /\ BasesTraced(base, led) /\ BasesAsked(base)
      /\ AcksBounded(led, acked) /\ LogsKeep(led, acked) /\ LogsOrdered(led)
      /\ AcksGrow(acked, acked) /\ Grows(led, led)
  BY AcksStay DEF VotedFor, Acknowledged
<1>2. /\ asked \in BaseRecord /\ asked[n][currentTerm'[n]] = log[n].entries
      /\ \A x \in Server, u \in Nat : x # n \/ u # currentTerm'[n] => asked[x][u] = base[x][u]
  BY DEF AsksWith
<1>3. /\ currentTerm'[n] = currentTerm[n] + 1 /\ votedFor'[n] = n
      /\ \A v \in Server \ {n} : /\ currentTerm'[v] = currentTerm[v]
                                /\ votedFor'[v] = votedFor[v] /\ role'[v] = role[v]
      /\ UNCHANGED log
      /\ currentTerm[n] \in Nat /\ currentTerm'[n] \in Nat
  <2>1. /\ currentTerm' = [currentTerm EXCEPT ![n] = @ + 1]
        /\ votedFor' = [votedFor EXCEPT ![n] = n]
        /\ role' = [role EXCEPT ![n] = "CANDIDATE"]
        /\ UNCHANGED log
    BY DEF Timeout
  <2>2. currentTerm[n] \in Nat /\ currentTerm'[n] \in Nat
    BY DEF TermsGrow
  <2>3. QED BY <2>1, <2>2, NodeTypes
<1>4. BasesKept(base, asked)
  <2>1. ASSUME NEW x \in Server, NEW u \in Terms, u <= currentTerm[x]
        PROVE  asked[x][u] = base[x][u]
    <3>1. u \in Nat /\ (x # n \/ u # currentTerm'[n])
      BY <1>3, <2>1, TermsAreNumbers
    <3>2. QED BY <1>2, <3>1
  <2>2. QED BY <2>1 DEF BasesKept
<1>5. NewVotesKeep(asked, led, acked)
  <2> SUFFICES ASSUME NEW t \in 0 .. currentTerm'[n] - 1, NEW i \in Own(led, t),
                      acked[n][t] >= i, MayBeChosen(acked, t, i)'
               PROVE  Agree(log[n].entries, led[t], i)
    BY <1>2, <1>3 DEF NewVotesKeep, Keeps
  <2>1. t \in Nat
    BY <1>3
  <2>2. i \in Nat /\ MayBeChosen(acked, t, i)
    BY <1>1, <2>1, OwnIndex, ChosenBefore
  <2>3. QED BY <1>1, <2>1, <2>2 DEF LogsKeep, Keeps
<1>6. VotesKeep(c, asked, led, acked)'
  BY <1>1, <1>2, <1>4, <1>5, VotesKept
<1>7. BasesTraced(asked, led)'
  <2>1. ASSUME NEW x \in Server, NEW u \in Terms
        PROVE  Traced(led, asked[x][u]) /\ \A i \in 1 .. Len(asked[x][u]) : asked[x][u][i].term < u
    <3>1. CASE x = n /\ u = currentTerm'[n]
      <4>1. Traced(led, log[n].entries)
        BY DEF Matching
      <4>2. \A i \in 1 .. Len(log[n].entries) : /\ log[n].entries[i].term <= currentTerm[n]
                                               /\ log[n].entries[i].term \in Nat
        BY <1>1, LogsAreEntries, EntriesOf DEF LogsOrdered
      <4>3. \A i \in 1 .. Len(log[n].entries) : log[n].entries[i].term < u
        BY <1>3, <3>1, <4>2
      <4>4. QED BY <1>2, <3>1, <4>1, <4>3
    <3>2. CASE x # n \/ u # currentTerm'[n]
      BY <1>1, <1>2, <3>2, TermsAreNumbers DEF BasesTraced
    <3>3. QED BY <3>1, <3>2
  <2>2. QED BY <2>1 DEF BasesTraced
<1>8. BasesAsked(asked)'
  <2>1. ASSUME NEW x \in Server, role'[x] = "CANDIDATE"
        PROVE  asked[x][currentTerm'[x]] = log'[x].entries
    <3>1. CASE x = n
      BY <1>2, <1>3, <3>1
    <3>2. CASE x # n
      <4>1. /\ role[x] = "CANDIDATE" /\ currentTerm'[x] = currentTerm[x]
            /\ log'[x] = log[x] /\ currentTerm[x] \in Nat
        BY <1>3, <2>1, <3>2 DEF TermsGrow
      <4>2. QED BY <1>1, <1>2, <3>2, <4>1 DEF BasesAsked
    <3>3. QED BY <3>1, <3>2
  <2>2. QED BY <1>1, <1>2, <1>4, <2>1, BasesAskedKept
<1>9. QED BY <1>2, <1>6, <1>7, <1>8 DEF VotedFor

\* A log that may be voted for by a node has what that node holds of what may be
\* chosen: it is longer in the same last term, or ends in a later term, whose
\* leader has it.
LEMMA UpToDateKeeps ==
  ASSUME CoreTyped, NEW led \in Ledger, NEW acked \in AckRecord,
         Matching(led), LogsOrdered(led), LeadersComplete(led, acked), LogsKeep(led, acked),
         NEW v \in Server, NEW u \in Nat, NEW s \in Entries, Traced(led, s),
         \A j \in 1 .. Len(s) : s[j].term < u,
         NEW t \in Nat, NEW i \in Own(led, t), acked[v][t] >= i, MayBeChosen(acked, t, i),
         NEW m, Describes(m, s), IsCandidateLogUpToDate(log[v], m.lastIndex, m.lastTerm)
  PROVE  Agree(s, led[t], i)
<1> DEFINE r == log[v].entries
           k == Len(s)
           own == r[Len(r)].term
           w == s[k].term
<1>1. /\ r \in Entries /\ Len(r) \in Nat /\ k \in Nat /\ led[t] \in Entries
      /\ i \in Nat /\ i \in 1 .. Len(led[t]) /\ led[t][i].term = t /\ Len(led[t]) \in Nat
  BY LogsAreEntries, EntriesOf, OwnIndex
<1>2. Agree(r, led[t], i)
  BY <1>1 DEF LogsKeep, Keeps
<1>3. i \in 1 .. Len(r) /\ Len(r) \in 1 .. Len(r) /\ r[i] = led[t][i]
  BY <1>1, <1>2 DEF Agree
<1>4. Traced(led, r)
  BY DEF Matching
<1>5. /\ own \in Nat \ {0} /\ t <= own /\ t \in Nat \ {0}
  <2>1. own \in Nat \ {0} /\ r[i].term \in Nat \ {0}
    BY <1>1, <1>3, EntriesOf
  <2>2. r[i].term <= own
    <3> HIDE DEF r
    <3>1. i <= Len(r)
      BY <1>1, <1>3
    <3>2. QED BY <1>1, <1>3, <1>4, <3>1, TracedOrdered
  <2>3. QED BY <1>1, <1>3, <2>1, <2>2
<1>6. TermAt(log[v], LastIndex(log[v])) = own /\ LastIndex(log[v]) = Len(r)
  BY <1>3, PlainLog DEF CoreTyped
<1>7. m.lastTerm > own \/ (m.lastTerm = own /\ k >= Len(r))
  BY <1>6 DEF IsCandidateLogUpToDate, Describes
<1>8. k # 0 /\ m.lastTerm = w
  BY <1>1, <1>5, <1>7 DEF Describes
<1> HIDE DEF r, k, own, w
<1>9. k \in 1 .. Len(s) /\ w \in Nat /\ Agree(s, led[w], k) /\ led[w] \in Entries /\ w < u
      /\ Len(led[w]) \in Nat
  <2>1. k \in 1 .. Len(s)
    BY <1>1, <1>8 DEF k
  <2>2. w \in Nat
    BY <2>1, EntriesOf DEF w
  <2>3. QED BY <2>1, <2>2, EntriesOf DEF w, Traced, Ledger
<1>10. CASE w = own /\ k >= Len(r)
  <2>1. Agree(r, led[w], Len(r))
    BY <1>3, <1>4, <1>10 DEF Traced, own
  <2>2. Agree(s, led[w], Len(r))
    BY <1>1, <1>9, <1>10, AgreeLess
  <2>3. Agree(s, r, Len(r))
    BY <1>1, <1>9, <2>1, <2>2, AgreeTrans
  <2>4. Agree(s, r, i)
    BY <1>1, <1>3, <2>3, AgreeLess
  <2>5. Agree(led[t], r, i)
    BY <1>1, <1>2, AgreeLess
  <2>6. QED BY <1>1, <2>4, <2>5, AgreeTrans
<1>11. CASE w > own
  <2>1. t < w
    BY <1>5, <1>9, <1>11
  <2>2. Elected(w)
    <3>1. led[w] # << >>
      BY <1>1, <1>9, EmptySeq DEF Agree, k
    <3>2. QED BY <1>9, <3>1 DEF Matching
  <2>3. Agree(led[w], led[t], i)
    BY <1>9, <2>1, <2>2 DEF LeadersComplete
  <2>4. /\ i \in 1 .. Len(led[w]) /\ led[w][i].term = t
        /\ k \in 1 .. Len(led[w]) /\ led[w][k].term = w
    <3>1. i <= Len(led[w]) /\ led[w][i] = led[t][i]
      BY <1>1, <2>3 DEF Agree
    <3>2. k <= Len(led[w]) /\ s[k] = led[w][k]
      BY <1>1, <1>9 DEF Agree
    <3>3. QED BY <1>1, <1>8, <1>9, <3>1, <3>2 DEF w
  <2>5. i <= k
    <3>1. CASE k < i
      <4>1. led[w][k].term <= led[w][i].term
        BY <1>1, <1>9, <2>4, <3>1 DEF LogsOrdered
      <4>2. QED BY <1>9, <2>1, <2>4, <4>1
    <3>2. QED BY <1>1, <3>1
  <2>6. Agree(s, led[w], i)
    BY <1>1, <1>9, <2>5, AgreeLess
  <2>7. Agree(led[t], led[w], i)
    BY <1>1, <1>9, <2>3, AgreeLess
  <2>8. QED BY <1>1, <1>9, <2>6, <2>7, AgreeTrans
<1>12. QED BY <1>7, <1>8, <1>10, <1>11

LEMMA GrantVotes ==
  ASSUME CoreTyped, CoreTyped', TermsGrow, AsksFromLogs, CandidatesStay,
         NEW b \in BallotRecord, Ballots(b), NEW c, c = NextRecord(b),
         NEW led \in Ledger, NEW acked \in AckRecord,
         Matching(led), Acknowledged(led, acked),
         NEW m \in net, HandleRequestVote(m),
         NEW base \in BaseRecord, VotedFor(b, base, led, acked)
  PROVE  VotedFor(c, base, led, acked)'
<1>1. /\ VotesKeep(b, base, led, acked) /\ BasesTraced(base, led) /\ BasesAsked(base)
      /\ AcksBounded(led, acked) /\ LogsKeep(led, acked) /\ LogsOrdered(led)
      /\ LeadersComplete(led, acked)
      /\ AcksGrow(acked, acked) /\ Grows(led, led)
  BY AcksStay DEF VotedFor, Acknowledged
<1>2. BasesKept(base, base)
  BY DEF BasesKept
<1>3. /\ m.from \in Server /\ m.to \in Server /\ m.term \in Terms /\ m.term \in Nat
      /\ m.type = "RequestVote" /\ currentTerm[m.to] \in Nat /\ currentTerm'[m.from] \in Nat
      /\ currentTerm[m.from] \in Nat /\ currentTerm[m.from] <= currentTerm'[m.from]
      /\ m.term >= currentTerm[m.to]
  BY KindsOfMessage, TermsAreNumbers DEF CoreTyped, TermsGrow, HandleRequestVote
<1>4. /\ currentTerm'[m.to] = m.term
      /\ votedFor'[m.to] = IF VoteGranted(m) THEN m.from
                           ELSE IF m.term > currentTerm[m.to] THEN Nobody ELSE votedFor[m.to]
      /\ \A v \in Server \ {m.to} : currentTerm'[v] = currentTerm[v] /\ votedFor'[v] = votedFor[v]
  <2>1. /\ currentTerm' = [currentTerm EXCEPT ![m.to] = m.term]
        /\ votedFor' = [votedFor EXCEPT ![m.to] =
               IF VoteGranted(m) THEN m.from
               ELSE IF m.term > currentTerm[m.to] THEN Nobody ELSE @]
    BY DEF HandleRequestVote
  <2>2. QED BY <2>1, <1>3, NodeTypes
<1>5. m.term <= currentTerm[m.from] /\ Describes(m, base[m.from][m.term])
  BY <1>1, <1>3 DEF BasesAsked
<1>6. NewVotesKeep(base, led, acked)
  <2> SUFFICES ASSUME NEW v \in Server, NEW x \in Server, NEW u \in Terms,
                      votedFor'[v] = x, currentTerm'[v] = u,
                      ~(votedFor'[v] = votedFor[v] /\ currentTerm'[v] = currentTerm[v])
               PROVE  /\ u <= currentTerm'[x]
                      /\ \A t \in 0 .. u - 1 : Keeps(led, acked, v, base[x][u], t)'
    BY DEF NewVotesKeep
  <2>1. v = m.to /\ u = m.term /\ x = m.from /\ VoteGranted(m)
    <3>1. v = m.to /\ u = m.term
      BY <1>4
    <3>2. VoteGranted(m)
      BY <3>1, <1>3, <1>4, ServerAssumption
    <3>3. QED BY <3>1, <3>2, <1>4
  <2>2. /\ base[x][u] \in Entries /\ Traced(led, base[x][u])
        /\ \A j \in 1 .. Len(base[x][u]) : base[x][u][j].term < u
        /\ u \in Nat
    BY <1>1, TermsAreNumbers DEF BasesTraced, BaseRecord
  <2>3. Describes(m, base[x][u]) /\ IsCandidateLogUpToDate(log[v], m.lastIndex, m.lastTerm)
    BY <1>5, <2>1 DEF VoteGranted
  <2>4. ASSUME NEW t \in 0 .. u - 1, NEW i \in Own(led, t), acked[v][t] >= i,
               MayBeChosen(acked, t, i)'
        PROVE  Agree(base[x][u], led[t], i)
    <3>1. t \in Nat
      BY <2>2
    <3>2. i \in Nat /\ MayBeChosen(acked, t, i)
      BY <1>1, <2>4, <3>1, OwnIndex, ChosenBefore
    <3>3. QED BY <1>1, <2>2, <2>3, <2>4, <3>1, <3>2, UpToDateKeeps
  <2>5. u <= currentTerm'[x]
    BY <1>3, <1>5, <2>1
  <2>6. QED BY <2>4, <2>5 DEF Keeps
<1>7. VotesKeep(c, base, led, acked)'
  BY <1>1, <1>2, <1>6, VotesKept
<1>8. BasesTraced(base, led)'
  BY <1>1 DEF BasesTraced
<1>9. BasesAsked(base)'
  <2>1. \A n \in Server : role'[n] = "CANDIDATE" => base[n][currentTerm'[n]] = log'[n].entries
    BY <1>1 DEF CandidatesStay, BasesAsked
  <2>2. QED BY <1>1, <1>2, <2>1, BasesAskedKept
<1>10. QED BY <1>7, <1>8, <1>9 DEF VotedFor

----------------------------------------------------------------------------
(***************************************************************************)
(* State machine safety and leader completeness.                           *)
(***************************************************************************)

LEMMA CommitInit == Init => CommitInductive
<1> SUFFICES ASSUME Init
             PROVE  \E b \in BallotRecord, led \in Ledger, acked \in AckRecord, base \in BaseRecord :
                       /\ Ballots(b) /\ Matching(led)
                       /\ Acknowledged(led, acked) /\ VotedFor(b, base, led, acked)
  BY DEF CommitInductive
<1> DEFINE b == [v \in Server |-> [t \in Terms |-> Nobody]]
           none == [t \in Nat |-> << >>]
           acked == [v \in Server |-> [t \in Nat |-> 0]]
           base == [v \in Server |-> [t \in Nat |-> << >>]]
<1>1. /\ b \in BallotRecord /\ none \in Ledger /\ acked \in AckRecord /\ base \in BaseRecord
      /\ \A v \in Server, t \in Terms : b[v][t] = Nobody
      /\ \A t \in Nat : none[t] = << >>
      /\ \A v \in Server, t \in Nat : acked[v][t] = 0 /\ base[v][t] = << >>
  BY EmptySeq DEF BallotRecord, Ledger, AckRecord, BaseRecord, Entries
<1> HIDE DEF b, none, acked, base
<1>2. /\ \A n \in Server : /\ log[n].entries = << >> /\ log[n].commit = 0
                           /\ role[n] # "LEADER" /\ role[n] # "CANDIDATE"
                           /\ currentTerm[n] = 0
      /\ net = {} /\ elected = {}
      /\ Len(<< >>) = 0 /\ 1 .. 0 = {}
  BY EmptySeq DEF Init, EmptyLog
<1>3. Ballots(b)
  BY <1>1, TermsAreNumbers DEF Init, Ballots, BallotsUpToDate, GrantsAreBallots, ElectedByBallots
<1>4. \A s : s = << >> => Traced(none, s)
  BY <1>2 DEF Traced
<1>5. Matching(none)
  BY <1>1, <1>2, <1>4 DEF Matching
<1>6. \A t \in Nat : Own(none, t) = {}
  BY <1>1, <1>2 DEF Own
<1>7. LogsOrdered(none) /\ AcksBounded(none, acked)
  BY <1>1, <1>2 DEF LogsOrdered, AcksBounded
<1>8. LeadersComplete(none, acked) /\ LogsKeep(none, acked)
  BY <1>6 DEF LeadersComplete, LogsKeep, Keeps
<1>9. CommitsChosen(none, acked) /\ AcksTold(acked)
  BY <1>2 DEF CommitsChosen, ChosenUpTo, AcksTold
<1>10. VotesKeep(b, base, none, acked)
  BY <1>1, ServerAssumption DEF VotesKeep
<1>11. BasesTraced(base, none) /\ BasesAsked(base)
  BY <1>1, <1>2, <1>4, TermsAreNumbers DEF BasesTraced, BasesAsked
<1>12. QED BY <1>1, <1>3, <1>5, <1>7, <1>8, <1>9, <1>10, <1>11 DEF Acknowledged, VotedFor

LEMMA CommitStep ==
  CoreInductive /\ CoreInductive' /\ CommitInductive /\ [Next]_vars => CommitInductive'
<1> SUFFICES ASSUME CoreInductive, CoreInductive', CommitInductive, [Next]_vars, leaks' = {}
             PROVE  \E b \in BallotRecord, led \in Ledger, acked \in AckRecord, base \in BaseRecord :
                       /\ Ballots(b)' /\ Matching(led)'
                       /\ Acknowledged(led, acked)' /\ VotedFor(b, base, led, acked)'
  BY DEF CommitInductive
<1>1. leaks = {} /\ "usurped" \notin leaks'
  BY LeaksStay
<1>2. PICK b \in BallotRecord, led \in Ledger, acked \in AckRecord, base \in BaseRecord :
         /\ Ballots(b) /\ Matching(led)
         /\ Acknowledged(led, acked) /\ VotedFor(b, base, led, acked)
  BY <1>1 DEF CommitInductive
<1>3. /\ CoreTyped /\ CoreTyped' /\ FreshTerms /\ ElectionSafety /\ ElectionStep
      /\ AcksBounded(led, acked) /\ AcksGrow(acked, acked) /\ Grows(led, led)
  BY <1>2, ElectionIsFresh, BallotsElectOne, EveryStepIsElectionStep, AcksStay
     DEF CoreInductive, Acknowledged
<1>4. TermsGrow
  <2>1. \A v \in Server : currentTerm[v] \in Nat /\ currentTerm'[v] \in Nat
    <3>1. /\ currentTerm \in [Server -> 0 .. MaxTerm] /\ currentTerm' \in [Server -> 0 .. MaxTerm]
      BY <1>3 DEF CoreTyped, TypeOK
    <3>2. QED BY <3>1, TermsAreNumbers DEF Terms
  <2>2. \A v \in Server : currentTerm'[v] >= currentTerm[v]
    BY <1>3 DEF ElectionStep, NoVoteTakenBack
  <2>3. QED BY <2>1, <2>2 DEF TermsGrow
<1>5. PICK c : c = NextRecord(b)
  OBVIOUS
<1>6. c \in BallotRecord /\ Ballots(c)'
  BY <1>2, <1>3, <1>5, BallotsStep
<1>7. AsksFromLogs
  BY <1>3, VotingSteps
<1>8. ASSUME NEW n \in Server, BecomeLeader(n) \/ Propose(n)
      PROVE  \E next \in Ledger, more \in AckRecord :
                /\ Matching(next)' /\ Acknowledged(next, more)' /\ VotedFor(c, base, next, more)'
  <2>1. PICK next : TakesOver(n, led, next)
    BY <1>3, TakeOver
  <2>2. Len(log'[n].entries) \in Nat /\ currentTerm[n] \in Nat
    BY <1>3, <1>4, NextLogsAreEntries DEF TermsGrow
  <2>3. PICK more : Acks(n, currentTerm[n], Len(log'[n].entries), acked, more)
    BY <2>2, AcksExist
  <2>4. next \in Ledger /\ Grows(led, next)
    BY <1>2, <1>3, <1>8, <2>1, LeadEffect DEF TakesOver, Leads
  <2>5. Matching(next)'
    BY <1>2, <1>3, <1>8, <2>1, LeadMatching
  <2>6. Acknowledged(next, more)' /\ AcksGrow(acked, more) /\ more \in AckRecord
    BY <1>2, <1>3, <1>4, <1>8, <2>1, <2>3, LeadAcks
  <2>7. VotesStay /\ CandidatesStay
    BY <1>3, <1>8, LeadVotes
  <2>8. VotedFor(c, base, next, more)'
    BY <1>2, <1>3, <1>4, <1>5, <1>7, <2>4, <2>6, <2>7, QuietVotes
  <2>9. QED BY <2>4, <2>5, <2>6, <2>8
<1>9. ASSUME NEW m \in net, AcceptAppend(m)
      PROVE  \E more \in AckRecord :
                Matching(led)' /\ Acknowledged(led, more)' /\ VotedFor(c, base, led, more)'
  <2>1. m.to \in Server /\ m.term \in Nat /\ Len(log'[m.to].entries) \in Nat
    BY <1>3, KindsOfMessage, TermsAreNumbers, NextLogsAreEntries DEF CoreTyped
  <2>2. PICK more : Acks(m.to, m.term, Len(log'[m.to].entries), acked, more)
    BY <2>1, AcksExist
  <2>3. Matching(led)'
    BY <1>2, <1>3, <1>9, AcceptMatching
  <2>4. Acknowledged(led, more)' /\ AcksGrow(acked, more) /\ more \in AckRecord
    BY <1>2, <1>3, <1>4, <1>9, <2>2, AcceptAcks
  <2>5. VotesStay /\ CandidatesStay
    BY <1>3, <1>9, FollowVotes
  <2>6. VotedFor(c, base, led, more)'
    BY <1>2, <1>3, <1>4, <1>5, <1>7, <2>4, <2>5, QuietVotes
  <2>7. QED BY <2>3, <2>4, <2>6
<1>10. CASE Quiet /\ QuietProgress
  <2>1. Matching(led)' /\ Acknowledged(led, acked)'
    BY <1>2, <1>3, <1>4, <1>10, QuietMatching, QuietAcks
  <2>2. CASE VotesStay /\ CandidatesStay
    <3>1. VotedFor(c, base, led, acked)'
      BY <1>2, <1>3, <1>4, <1>5, <1>7, <2>2, QuietVotes
    <3>2. QED BY <1>2, <1>6, <2>1, <3>1
  <2>3. ASSUME NEW n \in Server, Timeout(n)
        PROVE  \E asked \in BaseRecord : VotedFor(c, asked, led, acked)'
    <3>1. PICK asked : AsksWith(n, base, asked)
      BY <1>3, AskingExists
    <3>2. asked \in BaseRecord /\ VotedFor(c, asked, led, acked)'
      BY <1>2, <1>3, <1>4, <1>5, <1>7, <2>3, <3>1, TimeoutVotes
    <3>3. QED BY <3>2
  <2>4. ASSUME NEW m \in net, HandleRequestVote(m), CandidatesStay
        PROVE  VotedFor(c, base, led, acked)'
    BY <1>2, <1>3, <1>4, <1>5, <1>7, <2>4, GrantVotes
  <2>5. QED BY <1>2, <1>3, <1>6, <2>1, <2>2, <2>3, <2>4, VotingSteps
<1>11. \/ Quiet /\ QuietProgress
       \/ \E n \in Server : BecomeLeader(n) \/ Propose(n)
       \/ \E m \in net : AcceptAppend(m)
  BY <1>1, <1>3, QuietSteps, ProgressSteps
<1>12. QED BY <1>2, <1>6, <1>8, <1>9, <1>10, <1>11

LEMMA CommitAlways == Spec => [](CoreInductive /\ CommitInductive)
<1>1. Init => CoreInductive /\ CommitInductive
  BY CoreInductiveInit, CommitInit
<1>2. (CoreInductive /\ CommitInductive) /\ [Next]_vars => (CoreInductive /\ CommitInductive)'
  BY CoreInductiveStep, CommitStep
<1>3. QED BY <1>1, <1>2, PTL DEF Spec

\* No two nodes of any cluster commit different entries at an index, whatever is
\* lost, delayed or reordered, as long as neither of the two leaks happened: the
\* leader that made way for a later one without stepping down, and the follower
\* that acknowledged entries the request did not vouch for.
THEOREM StateMachineSafety == Spec => []StateMachineSafetyUnlessLeak
<1>1. CoreInductive /\ CommitInductive => StateMachineSafetyUnlessLeak
  <2> SUFFICES ASSUME CoreInductive, CommitInductive, leaks = {},
                      NEW a \in Server, NEW d \in Server
               PROVE  \/ IsPrefixOf(CommittedPrefix(a), CommittedPrefix(d))
                      \/ IsPrefixOf(CommittedPrefix(d), CommittedPrefix(a))
    BY DEF StateMachineSafetyUnlessLeak
  <2>1. PICK led \in Ledger, acked \in AckRecord : Matching(led) /\ Acknowledged(led, acked)
    BY DEF CommitInductive
  <2>2. QED BY <2>1, CommittedFromHistory DEF CoreInductive
<1>2. QED BY <1>1, CommitAlways, PTL

\* A leader has everything that was committed in its term or before, under the
\* same condition.
THEOREM LeaderCompleteness == Spec => []LeaderCompletenessUnlessLeak
<1>1. CoreInductive /\ CommitInductive => LeaderCompletenessUnlessLeak
  <2> SUFFICES ASSUME CoreInductive, CommitInductive, leaks = {},
                      NEW n \in Server, NEW s \in Server,
                      role[n] = "LEADER", currentTerm[s] <= currentTerm[n]
               PROVE  IsPrefixOf(CommittedPrefix(s), log[n].entries)
    BY DEF LeaderCompletenessUnlessLeak
  <2>1. PICK led \in Ledger, acked \in AckRecord : Matching(led) /\ Acknowledged(led, acked)
    BY DEF CommitInductive
  <2>2. QED BY <2>1, LeaderFromHistory DEF CoreInductive
<1>2. QED BY <1>1, CommitAlways, PTL
=============================================================================
