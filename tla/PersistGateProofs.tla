------------------------- MODULE PersistGateProofs -------------------------
(***************************************************************************)
(* Proofs that what the core counts as stable is stored, and that a reply  *)
(* it releases promises what is stored, with the exceptions PersistGate    *)
(* records: until an entry is cut off the log for entries, and until a     *)
(* request comes while a write is under way for votes.                     *)
(*                                                                         *)
(* GateInductive is the inductive invariant.  For entries: the disk holds  *)
(* a prefix of the log, and every piece of work, queued or being written,  *)
(* holds terms of the log and leaves no gap behind what the disk has       *)
(* (StoredInOrder).  For votes: every write of a hard state is of the one  *)
(* of now, and what is marked is covered by what is stored                 *)
(* (WrittenOneByOne).                                                      *)
(***************************************************************************)
EXTENDS PersistGate, RaftLogLemmas

Term1 == 1 .. MaxTerm

\* A log as the requests of peers leave it: no snapshot, nothing out of bounds.
Bounded(l) ==
    /\ Plain(l)
    /\ Len(l.entries) <= MaxIndex
    /\ \A i \in 1 .. Len(l.entries) : l.entries[i].term \in Term1

\* Work with entries names the range of the log they come from.
Shaped(w) ==
    /\ w \in Work
    /\ w.terms = << >> => w.last = 0
    /\ w.terms # << >> => w.first >= 1 /\ w.last = w.first - 1 + Len(w.terms)

Works == Range(queue) \cup {writing}

Completion == [ok : BOOLEAN, hasHard : BOOLEAN, last : 0 .. MaxIndex]

Reply == [at : {"none", "now", "later"}, needsHard : BOOLEAN, needsIndex : Nat,
          hard : Hard, log : Seq(Term1), fresh : BOOLEAN]

Disk == [hard : Hard, log : Seq(Term1)]

GateTyped ==
    /\ hard \in Hard /\ marked \in Hard
    /\ Bounded(log) /\ hard.commit = log.commit
    /\ staged \in [Kind -> [Peer -> Reply]]
    /\ queue \in Seq(Work) /\ Len(queue) <= QueueLimit
    /\ \A w \in Works : Shaped(w)
    /\ completions \in Seq(Completion) /\ Len(completions) <= MaxCompletions
    /\ disk \in Disk /\ disk.hard.commit <= Len(disk.log)
    /\ requests \in Nat /\ requests <= MaxRequests
    /\ cut \in BOOLEAN /\ overlapped \in BOOLEAN /\ missed \in BOOLEAN

----------------------------------------------------------------------------
(***************************************************************************)
(* Sequences.                                                              *)
(***************************************************************************)

LEMMA MembersOfSeq ==
  ASSUME NEW S, NEW s \in Seq(S)
  PROVE  /\ \A x : x \in Range(s) <=> \E i \in 1 .. Len(s) : x = s[i]
         /\ Range(s) \subseteq S
<1>1. DOMAIN s = 1 .. Len(s)
  BY LenProperties
<1>2. \A i \in 1 .. Len(s) : s[i] \in S
  BY ElementOfSeq
<1>3. \A x : x \in Range(s) <=> \E i \in 1 .. Len(s) : x = s[i]
  BY <1>1 DEF Range
<1>4. Range(s) \subseteq S
  BY <1>2, <1>3
<1>5. QED BY <1>3, <1>4

LEMMA RangeOfAppend ==
  ASSUME NEW S, NEW s \in Seq(S), NEW e \in S
  PROVE  Range(Append(s, e)) = Range(s) \cup {e}
<1> DEFINE t == Append(s, e)
<1>1. /\ t \in Seq(S) /\ Len(t) = Len(s) + 1 /\ Len(s) \in Nat
      /\ \A i \in 1 .. Len(s) : t[i] = s[i]
      /\ t[Len(s) + 1] = e
  BY AppendProperties, LenProperties
<1> HIDE DEF t
<1>2. \A x : x \in Range(t) <=> \E i \in 1 .. Len(s) + 1 : x = t[i]
  BY <1>1, MembersOfSeq
<1>3. \A x : x \in Range(s) <=> \E i \in 1 .. Len(s) : x = s[i]
  BY MembersOfSeq
<1>4. \A i \in 1 .. Len(s) + 1 : i \in 1 .. Len(s) \/ i = Len(s) + 1
  BY <1>1
<1>5. Len(s) + 1 \in 1 .. Len(s) + 1 /\ \A i \in 1 .. Len(s) : i \in 1 .. Len(s) + 1
  BY <1>1
<1>6. Range(t) \subseteq Range(s) \cup {e}
  BY <1>1, <1>2, <1>3, <1>4
<1>7. Range(s) \cup {e} \subseteq Range(t)
  BY <1>1, <1>2, <1>3, <1>5
<1>8. QED BY <1>6, <1>7 DEF t

LEMMA RangeOfTail ==
  ASSUME NEW S, NEW s \in Seq(S), s # << >>
  PROVE  /\ Head(s) \in Range(s) /\ Tail(s) \in Seq(S)
         /\ Range(Tail(s)) \subseteq Range(s)
         /\ Len(Tail(s)) = Len(s) - 1 /\ Len(s) \in Nat \ {0}
<1>1. /\ Head(s) = s[1] /\ Tail(s) \in Seq(S) /\ Len(Tail(s)) = Len(s) - 1
      /\ \A i \in 1 .. Len(Tail(s)) : Tail(s)[i] = s[i + 1]
  BY HeadTailProperties
<1>2. Len(s) \in Nat \ {0}
  BY EmptySeq
<1>3. \A x : x \in Range(s) <=> \E i \in 1 .. Len(s) : x = s[i]
  BY MembersOfSeq
<1>4. \A x : x \in Range(Tail(s)) <=> \E i \in 1 .. Len(Tail(s)) : x = Tail(s)[i]
  <2> DEFINE t == Tail(s)
  <2>1. t \in Seq(S)
    BY <1>1
  <2> HIDE DEF t
  <2>2. \A x : x \in Range(t) <=> \E i \in 1 .. Len(t) : x = t[i]
    BY <2>1, MembersOfSeq
  <2>3. QED BY <2>2 DEF t
<1>5. 1 \in 1 .. Len(s) /\ \A i \in 1 .. Len(Tail(s)) : i + 1 \in 1 .. Len(s)
  BY <1>1, <1>2
<1>6. QED BY <1>1, <1>2, <1>3, <1>4, <1>5

----------------------------------------------------------------------------
(***************************************************************************)
(* What the operators of the gate return.                                  *)
(***************************************************************************)

LEMMA Numbers ==
  /\ MaxTerm \in Nat /\ MaxIndex \in Nat /\ QueueLimit \in Nat
  /\ MaxCompletions \in Nat /\ MaxRequests \in Nat
  /\ Term1 \subseteq Term /\ Term1 \subseteq Nat \ {0}
BY GateAssumption DEF Term1

LEMMA BoundedLog ==
  ASSUME NEW l, Bounded(l)
  PROVE  /\ l.entries \in Seq(StoredEntry) /\ Len(l.entries) \in 0 .. MaxIndex
         /\ LastIndex(l) = Len(l.entries)
         /\ l.commit \in 0 .. Len(l.entries) /\ l.stable \in 0 .. Len(l.entries)
         /\ l \in LogRecord
<1>1. /\ Len(l.entries) \in Nat /\ LastIndex(l) = Len(l.entries)
      /\ l.entries \in Seq(StoredEntry) /\ l.commit \in 0 .. Len(l.entries)
  BY PlainLog DEF Bounded
<1>2. l \in LogRecord /\ BoundariesOrdered(l) /\ l.snapshotIndex = 0
  BY DEF Bounded, Plain, WellFormed, ValidateInvariants
<1>3. l.stable \in Nat
  BY <1>2 DEF LogRecord
<1>4. l.stable <= LastIndex(l)
  BY <1>2 DEF BoundariesOrdered
<1>5. QED BY <1>1, <1>2, <1>3, <1>4, Numbers DEF Bounded

LEMMA TermsOfLog ==
  ASSUME NEW l, Bounded(l)
  PROVE  /\ Terms(l) \in Seq(Term1) /\ Len(Terms(l)) = Len(l.entries)
         /\ \A i \in 1 .. Len(l.entries) : Terms(l)[i] = l.entries[i].term
<1>1. /\ Len(l.entries) \in Nat /\ DOMAIN l.entries = 1 .. Len(l.entries)
  BY PlainLog DEF Bounded
<1>2. /\ DOMAIN Terms(l) = 1 .. Len(l.entries)
      /\ Terms(l) \in [1 .. Len(l.entries) -> Term1]
      /\ \A i \in 1 .. Len(l.entries) : Terms(l)[i] = l.entries[i].term
  BY <1>1 DEF Terms, Bounded
<1>3. Terms(l) \in Seq(Term1)
  BY <1>1, <1>2, SeqDef
<1>4. Len(Terms(l)) = Len(l.entries)
  BY <1>1, <1>2, <1>3, LenProperties
<1>5. QED BY <1>2, <1>3, <1>4

\* What is queued: every entry above the stable index.
LEMMA WorkOfLog ==
  ASSUME NEW h \in Hard, NEW m, NEW l, Bounded(l)
  PROVE  LET w == WorkOf(h, m, l)
         IN  /\ Shaped(w)
             /\ w.hasHard => w.hard = h
             /\ w.first = l.stable + 1 /\ w.last <= Len(l.entries)
             /\ \A k \in 1 .. Len(w.terms) : w.terms[k] = l.entries[w.first + k - 1].term
<1> DEFINE w == WorkOf(h, m, l)
           n == Len(l.entries)
           a == l.stable + 1
           ts == SubSeq(Terms(l), a, n)
<1>1. /\ n \in 0 .. MaxIndex /\ LastIndex(l) = n /\ l.stable \in 0 .. n /\ MaxIndex \in Nat
  BY BoundedLog, Numbers
<1>2. w = [hasHard |-> h # m, hard |-> h, first |-> a, terms |-> ts,
           last |-> IF l.stable < n THEN n ELSE 0]
  BY <1>1 DEF WorkOf
<1>3. a \in 1 .. n + 1 /\ a \in Nat
  BY <1>1
<1>4. \A i \in a .. n : Terms(l)[i] \in Term1 /\ Terms(l)[i] = l.entries[i].term
  <2>1. \A i \in a .. n : i \in 1 .. n
    BY <1>1, <1>3
  <2>2. QED BY <2>1, TermsOfLog, ElementOfSeq
<1>5. /\ ts \in Seq(Term1) /\ Len(ts) = IF a <= n THEN n - a + 1 ELSE 0
      /\ \A k \in 1 .. n - a + 1 : ts[k] = Terms(l)[a + k - 1]
  <2> HIDE DEF n, a
  <2>1. n \in Int /\ a \in Int
    BY <1>1, <1>3
  <2>2. QED BY <1>4, <2>1, SubSeqProperties
<1>6. Len(ts) = n - a + 1 /\ Len(ts) = n - l.stable
  BY <1>1, <1>3, <1>5
<1>7. \A k \in 1 .. Len(ts) : ts[k] = l.entries[a + k - 1].term
  <2>1. \A k \in 1 .. Len(ts) : k \in 1 .. n - a + 1 /\ a + k - 1 \in a .. n
    <3> HIDE DEF n, ts
    <3> QED BY <1>1, <1>3, <1>6
  <2> HIDE DEF n, a, ts
  <2>2. QED BY <1>4, <1>5, <2>1
<1>8. ts = << >> <=> l.stable = n
  <2> HIDE DEF ts
  <2>1. ts = << >> <=> Len(ts) = 0
    BY <1>5, EmptySeq
  <2>2. QED BY <2>1, <1>1, <1>6
<1>9. w \in Work
  <2> HIDE DEF ts, n, a
  <2>1. (IF l.stable < n THEN n ELSE 0) \in 0 .. MaxIndex
    BY <1>1
  <2>2. w = [hasHard |-> h # m, hard |-> h, first |-> a, terms |-> ts,
             last |-> IF l.stable < n THEN n ELSE 0]
    BY <1>2
  <2>3. QED BY <2>1, <2>2, <1>3, <1>5 DEF Work, Term1
<1>10. /\ w.hasHard => w.hard = h
       /\ w.first = a /\ w.terms = ts /\ w.last = IF l.stable < n THEN n ELSE 0
  <2> HIDE DEF ts, n, a
  <2> QED BY <1>2
<1> HIDE DEF w, ts
<1>11. w.terms = << >> => w.last = 0
  BY <1>1, <1>8, <1>10
<1>12. w.terms # << >> => w.first >= 1 /\ w.last = w.first - 1 + Len(w.terms)
  BY <1>1, <1>3, <1>6, <1>8, <1>10
<1>13. Shaped(w)
  BY <1>9, <1>11, <1>12 DEF Shaped
<1>14. w.last <= n
  BY <1>1, <1>10
<1>15. \A k \in 1 .. Len(w.terms) : w.terms[k] = l.entries[w.first + k - 1].term
  BY <1>7, <1>10
<1>16. QED BY <1>10, <1>13, <1>14, <1>15 DEF w, a, n

LEMMA NoWorkShaped == Shaped(NoWork) /\ ~NoWork.hasHard
<1>1. << >> \in Seq(1 .. MaxTerm)
  BY EmptySeq
<1>2. QED BY <1>1, Numbers DEF NoWork, Shaped, Work, Hard, NoHard

\* The drain queues the work of what the event leaves, or nothing.
LEMMA DrainEffect ==
  ASSUME GateTyped, hard' \in Hard, Bounded(log'), DrainCoreOutput
  PROVE  /\ queue' \in Seq(Work) /\ Len(queue') <= QueueLimit
         /\ Range(queue') \subseteq Range(queue) \cup {WorkOf(hard', marked', log')}
         /\ missed' \in BOOLEAN
<1> DEFINE w == WorkOf(hard', marked', log')
<1>1. w \in Work
  BY WorkOfLog DEF Shaped
<1>2. queue' = queue \/ (queue' = Append(queue, w) /\ Len(queue) < QueueLimit)
  BY DEF DrainCoreOutput
<1>3. missed' \in BOOLEAN
  BY DEF DrainCoreOutput, GateTyped
<1>4. queue \in Seq(Work) /\ Len(queue) <= QueueLimit /\ Len(queue) \in Nat
  BY LenProperties DEF GateTyped
<1> HIDE DEF w
<1>5. CASE queue' = queue
  BY <1>3, <1>4, <1>5 DEF w
<1>6. CASE queue' = Append(queue, w) /\ Len(queue) < QueueLimit
  <2>1. /\ Append(queue, w) \in Seq(Work) /\ Len(Append(queue, w)) = Len(queue) + 1
    BY <1>1, <1>4, AppendProperties
  <2>2. Range(queue') = Range(queue) \cup {w}
    BY <1>1, <1>4, <1>6, RangeOfAppend
  <2>3. Len(queue') <= QueueLimit
    BY <2>1, <1>4, <1>6, Numbers
  <2>4. QED BY <1>3, <1>6, <2>1, <2>2, <2>3 DEF w
<1>7. QED BY <1>2, <1>5, <1>6

\* The hard state and the promises of a staged reply are its handler's.
LEMMA StageEffect ==
  ASSUME NEW h, NEW l, NEW r \in Reply, NEW requiresHard \in BOOLEAN, NEW requiredIndex \in Nat
  PROVE  LET s == Stage(h, l, r, requiresHard, requiredIndex)
         IN  /\ s \in Reply
             /\ s.fresh = r.fresh /\ s.hard = r.hard /\ s.log = r.log
             /\ s.at = IF requiredIndex > l.stable \/ (requiresHard /\ h # marked)
                       THEN "later" ELSE "now"
             /\ s.needsHard = (requiresHard /\ h # marked)
             /\ requiredIndex > l.stable => s.needsIndex = requiredIndex
<1> DEFINE onLog == requiredIndex > l.stable
           onHard == requiresHard /\ h # marked
           s == [r EXCEPT !.at = IF onLog \/ onHard THEN "later" ELSE "now",
                          !.needsHard = onHard,
                          !.needsIndex = IF onLog THEN requiredIndex ELSE 0]
<1>1. Stage(h, l, r, requiresHard, requiredIndex) = s
  BY DEF Stage
<1>2. onHard \in BOOLEAN /\ (IF onLog THEN requiredIndex ELSE 0) \in Nat
      /\ (IF onLog \/ onHard THEN "later" ELSE "now") \in {"none", "now", "later"}
  OBVIOUS
<1>3. /\ s.fresh = r.fresh /\ s.hard = r.hard /\ s.log = r.log
      /\ s.at = (IF onLog \/ onHard THEN "later" ELSE "now")
      /\ s.needsHard = onHard
      /\ s.needsIndex = (IF onLog THEN requiredIndex ELSE 0)
  <2> HIDE DEF onLog, onHard
  <2> QED BY DEF Reply
<1>4. s \in Reply
  <2> HIDE DEF onLog, onHard
  <2> QED BY <1>2 DEF Reply
<1>5. QED BY <1>1, <1>3, <1>4

LEMMA StageReplyEffect ==
  ASSUME staged \in [Kind -> [Peer -> Reply]],
         NEW kind \in Kind, NEW p \in Peer, NEW r \in Reply,
         NEW requiresHard \in BOOLEAN, NEW requiredIndex \in Nat,
         StageReply(kind, p, r, requiresHard, requiredIndex)
  PROVE  /\ staged' \in [Kind -> [Peer -> Reply]]
         /\ \A k \in Kind, q \in Peer :
               staged'[k][q] = IF k = kind /\ q = p
                               THEN Stage(hard', log', r, requiresHard, requiredIndex)
                               ELSE staged[k][q]
<1> DEFINE s == Stage(hard', log', r, requiresHard, requiredIndex)
<1>1. s \in Reply
  BY StageEffect
<1>2. staged' = [staged EXCEPT ![kind][p] = s]
  BY DEF StageReply
<1> HIDE DEF s
<1>3. QED BY <1>1, <1>2 DEF s

\* A confirmation lets go what waited for it, and touches nothing else.
Released(s, r) ==
    \/ s = r
    \/ /\ r.at = "later" /\ s.at = "now" /\ Ready(r, log')
       /\ s.fresh = r.fresh /\ s.hard = r.hard /\ s.log = r.log

LEMMA ReclassifyEffect ==
  ASSUME staged \in [Kind -> [Peer -> Reply]], ReclassifyBlockedMessages
  PROVE  /\ staged' \in [Kind -> [Peer -> Reply]]
         /\ \A k \in Kind, q \in Peer : Released(staged'[k][q], staged[k][q])
<1> DEFINE Let(r) == IF r.at = "later" /\ Ready(r, log')
                     THEN [r EXCEPT !.at = "now", !.needsHard = FALSE, !.needsIndex = 0]
                     ELSE r
<1>1. staged' = [k \in Kind |-> [p \in Peer |-> Let(staged[k][p])]]
  BY DEF ReclassifyBlockedMessages
<1>2. ASSUME NEW r \in Reply PROVE Let(r) \in Reply /\ Released(Let(r), r)
  <2>1. CASE r.at = "later" /\ Ready(r, log')
    <3> DEFINE s == [r EXCEPT !.at = "now", !.needsHard = FALSE, !.needsIndex = 0]
    <3>1. s \in Reply /\ s.at = "now" /\ s.fresh = r.fresh /\ s.hard = r.hard /\ s.log = r.log
      BY DEF Reply
    <3>2. Let(r) = s
      BY <2>1
    <3>3. QED BY <2>1, <3>1, <3>2 DEF Released
  <2>2. CASE ~(r.at = "later" /\ Ready(r, log'))
    BY <2>2 DEF Released
  <2>3. QED BY <2>1, <2>2
<1> HIDE DEF Let
<1>3. QED BY <1>1, <1>2

----------------------------------------------------------------------------
(***************************************************************************)
(* What an AppendEntries request does to the log.                          *)
(***************************************************************************)

\* m is l with entries after the last of it, or l itself.
Extends(m, l) ==
    /\ m.stable = l.stable
    /\ Len(l.entries) <= Len(m.entries)
    /\ \A i \in 1 .. Len(l.entries) : m.entries[i] = l.entries[i]

LEMMA MadeEntries ==
  ASSUME NEW t \in 1 .. MaxTerm, NEW prev \in 0 .. MaxIndex, NEW prevTerm \in 0 .. t,
         NEW terms \in TermsUpTo(t, prev, prevTerm)
  PROVE  LET es == Entries(prev, terms)
         IN  /\ es \in Seq(StoredEntry) /\ Len(es) \in {0, 1}
             /\ prev + Len(es) <= MaxIndex
             /\ \A k \in 1 .. Len(es) : es[k].index = prev + k /\ es[k].term \in Term1
<1> DEFINE es == Entries(prev, terms)
<1>1. CASE terms = << >>
  <2>1. es = << >>
    BY <1>1 DEF Entries
  <2>2. << >> \in Seq(StoredEntry) /\ Len(<< >>) = 0
    BY EmptySeq
  <2>3. QED BY <2>1, <2>2, Numbers
<1>2. CASE prev < MaxIndex /\ \E a \in GreaterOf(prevTerm, 1) .. t : terms = <<a>>
  <2>1. PICK a \in GreaterOf(prevTerm, 1) .. t : terms = <<a>>
    BY <1>2
  <2>2. a \in Term1 /\ a \in Term \ {0}
    BY <2>1, Numbers DEF GreaterOf, Term1
  <2> DEFINE v == CHOOSE v \in Payload : TRUE
             e == [index |-> prev + 1, term |-> a, payload |-> v]
  <2>3. v \in Payload
    BY GateAssumption
  <2> HIDE DEF v
  <2>4. e \in StoredEntry
    <3>1. prev + 1 \in Nat \ {0}
      BY Numbers
    <3>2. QED BY <2>2, <2>3, <3>1 DEF StoredEntry
  <2>5. es = <<e>>
    <3>1. DOMAIN <<a>> = {1} /\ <<a>>[1] = a /\ 1 .. 1 = {1}
      OBVIOUS
    <3>2. es = [k \in {1} |-> [index |-> prev + k, term |-> <<a>>[k], payload |-> v]]
      BY <2>1, <3>1 DEF Entries, v
    <3>3. es = [k \in {1} |-> e]
      BY <3>1, <3>2
    <3>4. [k \in {1} |-> e] = <<e>>
      BY <3>1
    <3>5. QED BY <3>3, <3>4
  <2>6. e.index = prev + 1 /\ e.term = a
    OBVIOUS
  <2> HIDE DEF e
  <2>7. <<e>> \in Seq(StoredEntry) /\ Len(<<e>>) = 1 /\ <<e>>[1] = e
    BY <2>4
  <2> HIDE DEF es
  <2>8. prev + Len(es) <= MaxIndex /\ \A k \in 1 .. Len(es) : k = 1
    BY <1>2, <2>5, <2>7, Numbers
  <2>9. QED BY <2>2, <2>5, <2>6, <2>7, <2>8 DEF es
<1>3. QED BY <1>1, <1>2 DEF TermsUpTo

\* The log a request with at most one entry leaves, before the commit index moves.
LEMMA MergeEffect ==
  ASSUME Bounded(log), NEW prev \in 0 .. MaxIndex, NEW prevTerm, NEW es \in Seq(StoredEntry),
         Len(es) \in {0, 1}, prev + Len(es) <= MaxIndex,
         \A k \in 1 .. Len(es) : es[k].index = prev + k /\ es[k].term \in Term1,
         Matches(log, prev, prevTerm),
         Conflicts(es) => CanTruncateSuffix(log, FindConflict(log, es))
  PROVE  /\ Bounded(Merged(es)) /\ Merged(es).commit = log.commit
         /\ ~Conflicts(es) => Extends(Merged(es), log)
<1> DEFINE at == FindConflict(log, es)
           n == Len(log.entries)
           m == Merged(es)
<1>1. /\ Plain(log) /\ n \in 0 .. MaxIndex /\ n \in Nat /\ LastIndex(log) = n
      /\ log \in LogRecord /\ WellFormed(log)
      /\ \A i \in 1 .. n : log.entries[i].term \in Term1
  BY BoundedLog, Numbers DEF Bounded, Plain
<1>2. prev \in Nat /\ prev <= n
  <2>1. prev \in Nat
    BY Numbers
  <2>2. QED BY <1>1, <2>1, PlainMatches
<1>3. CASE at = 0
  <2>1. m = log
    BY <1>3 DEF Merged
  <2>2. ~Conflicts(es) => Extends(log, log)
    BY <1>1 DEF Extends
  <2> HIDE DEF m
  <2>3. QED BY <2>1, <2>2, <1>1 DEF m
<1>4. CASE Len(es) = 1 /\ at = prev + 1 /\ prev + 1 <= n + 1
  <2>1. /\ es # << >> /\ es[1].index = prev + 1 /\ es[1].term \in Term1
        /\ at - es[1].index + 1 = 1 /\ at # 0 /\ 1 \in 1 .. Len(es)
    <3>1. es # << >>
      <4> SUFFICES ASSUME es = << >> PROVE FALSE
        OBVIOUS
      <4>1. Len(es) = 0
        OBVIOUS
      <4>2. Len(es) = 1
        BY <1>4
      <4>3. QED BY <4>1, <4>2
    <3>2. 1 \in 1 .. Len(es)
      BY <1>4
    <3>3. es[1].index = prev + 1 /\ es[1].term \in Term1
      BY <3>2
    <3>4. at - es[1].index + 1 = 1 /\ at # 0
      <4> HIDE DEF at
      <4> QED BY <3>3, <1>2, <1>4
    <3>5. QED BY <3>1, <3>2, <3>3, <3>4
  <2>2. CASE prev = n
    <3>1. at > LastIndex(log)
      BY <2>2, <1>1, <1>4
    <3>2. m = AppendTo(log, SubSeq(es, 1, Len(es)))
      BY <2>1, <3>1 DEF Merged
    <3>3. /\ Plain(m) /\ m.commit = log.commit /\ m.stable = log.stable
          /\ Len(m.entries) = prev + Len(es)
          /\ \A j \in 1 .. prev + 1 - 1 : m.entries[j] = log.entries[j]
          /\ \A k \in 1 .. Len(es) : m.entries[prev + k] = es[k]
      <4>1. n = prev + 1 - 1
        BY <2>2, <1>1
      <4>2. QED BY <3>2, <4>1, <2>1, <1>1, <1>2, AppendMissing
    <3> HIDE DEF m
    <3>4. Len(m.entries) = n + 1 /\ \A j \in 1 .. n : m.entries[j] = log.entries[j]
      BY <3>3, <2>2, <1>1, <1>4
    <3>5. m.entries[n + 1] = es[1]
      BY <3>3, <2>1, <2>2
    <3>6. \A i \in 1 .. Len(m.entries) : m.entries[i].term \in Term1
      <4>1. \A i \in 1 .. n + 1 : i \in 1 .. n \/ i = n + 1
        BY <1>1
      <4>2. QED BY <4>1, <3>4, <3>5, <2>1, <1>1
    <3>7. Bounded(m)
      BY <3>3, <3>6 DEF Bounded
    <3>8. Extends(m, log)
      BY <3>3, <3>4, <1>1 DEF Extends
    <3>9. QED BY <3>3, <3>7, <3>8 DEF m
  <2>3. CASE prev < n
    <3> DEFINE rest == TruncateSuffix(log, at)
    <3>1. at \in Nat /\ at <= LastIndex(log) /\ at \in 1 .. LastIndex(log)
      BY <2>3, <1>1, <1>2, <1>4
    <3>2. Conflicts(es) /\ CanTruncateSuffix(log, at)
      BY <3>1 DEF Conflicts
    <3>3. WellFormed(rest) /\ LastIndex(rest) = at - 1
      BY <3>1, <3>2, <1>1, TruncateKeeps
    <3>4. /\ rest.snapshotIndex = 0 /\ rest.snapshotTerm = 0
          /\ rest.commit = log.commit /\ rest.entries = SubSeq(log.entries, 1, at - 1)
      <4>1. log.snapshotIndex = 0 /\ log.snapshotTerm = 0 /\ at - log.snapshotIndex - 1 = at - 1
        BY <3>1, <1>1 DEF Plain
      <4> HIDE DEF at
      <4>2. QED BY <4>1, <1>1 DEF TruncateSuffix, LogRecord
    <3>5. Plain(rest)
      BY <3>3, <3>4 DEF Plain
    <3>6. Len(rest.entries) = prev + 1 - 1 /\ Len(rest.entries) = prev
      <4>1. Len(rest.entries) = at - 1
        BY <3>3, <3>5, PlainLog
      <4>2. QED BY <4>1, <1>2, <1>4
    <3>7. \A j \in 1 .. prev : rest.entries[j] = log.entries[j]
      <4>1. log.entries \in Seq(StoredEntry) /\ at - 1 = prev
        BY <1>1, <1>2, <1>4, BoundedLog
      <4>2. \A i \in 1 .. prev : log.entries[i] \in StoredEntry
        BY <4>1, <1>1, <1>2, ElementOfSeq
      <4>3. \A i \in 1 .. prev - 1 + 1 : SubSeq(log.entries, 1, prev)[i] = log.entries[1 + i - 1]
        BY <4>2, <1>2, SubSeqProperties
      <4>4. \A i \in 1 .. prev : i \in 1 .. prev - 1 + 1 /\ 1 + i - 1 = i
        BY <1>2
      <4>5. QED BY <4>1, <4>3, <4>4, <3>4
    <3>8. m = AppendTo(rest, SubSeq(es, 1, Len(es)))
      <4>1. m = IF at = 0 THEN log
                ELSE AppendTo(IF at > LastIndex(log) THEN log ELSE rest,
                              SubSeq(es, at - es[1].index + 1, Len(es)))
        BY DEF Merged
      <4>2. at # 0 /\ ~(at > LastIndex(log))
        <5> HIDE DEF at
        <5> QED BY <3>1, <2>1, <1>1
      <4> HIDE DEF at, m, rest
      <4>3. QED BY <4>1, <4>2, <2>1
    <3> HIDE DEF rest
    <3>9. /\ Plain(m) /\ m.commit = rest.commit
          /\ Len(m.entries) = prev + Len(es)
          /\ \A j \in 1 .. prev + 1 - 1 : m.entries[j] = rest.entries[j]
          /\ \A k \in 1 .. Len(es) : m.entries[prev + k] = es[k]
      BY <3>5, <3>6, <3>8, <2>1, <1>2, AppendMissing
    <3> HIDE DEF m
    <3>10. /\ Len(m.entries) = prev + 1 /\ m.entries[prev + 1] = es[1]
           /\ \A j \in 1 .. prev : m.entries[j] = log.entries[j]
      <4>1. \A j \in 1 .. prev : j \in 1 .. prev + 1 - 1
        BY <1>2
      <4>2. QED BY <4>1, <3>7, <3>9, <2>1, <1>4
    <3>11. \A i \in 1 .. Len(m.entries) : m.entries[i].term \in Term1
      <4>1. \A i \in 1 .. prev + 1 : i \in 1 .. prev \/ i = prev + 1
        BY <1>2
      <4>2. \A i \in 1 .. prev : i \in 1 .. n
        BY <1>1, <1>2
      <4>3. QED BY <4>1, <4>2, <3>10, <2>1, <1>1
    <3>12. Bounded(m)
      BY <3>9, <3>10, <3>11, <1>4 DEF Bounded
    <3>13. QED BY <3>2, <3>4, <3>9, <3>12 DEF m
  <2>4. QED BY <2>2, <2>3, <1>1, <1>2
<1>5. QED
  <2>1. \/ at = 0
        \/ \E c \in 1 .. Len(es) : at = prev + c /\ prev + c <= n + 1
    BY <1>1, <1>2, PlainConflict
  <2>2. ASSUME NEW c \in 1 .. Len(es), at = prev + c, prev + c <= n + 1
        PROVE  Len(es) = 1 /\ at = prev + 1 /\ prev + 1 <= n + 1
    BY <2>2
  <2>3. QED BY <2>1, <2>2, <1>3, <1>4

----------------------------------------------------------------------------
(***************************************************************************)
(* What a request does to the hard state and to the log, and what its      *)
(* reply promises.                                                         *)
(***************************************************************************)

\* Hard state g is h or a later one, as far as term and vote go.
Covers(g, h) ==
    \/ g.term > h.term
    \/ g.term = h.term /\ h.vote \in {Nobody, g.vote}

LEMMA CoversTransitive ==
  ASSUME NEW f \in Hard, NEW g \in Hard, NEW h \in Hard, Covers(f, g), Covers(g, h)
  PROVE  Covers(f, h)
BY Numbers DEF Covers, Hard

LEMMA TermTaken ==
  ASSUME hard \in Hard, NEW t \in 1 .. MaxTerm
  PROVE  /\ InTerm(t) \in Hard /\ InTerm(t).commit = hard.commit
         /\ Covers(InTerm(t), hard)
         /\ t >= hard.term => InTerm(t).term = t
<1>1. CASE t > hard.term
  <2>1. InTerm(t) = [hard EXCEPT !.term = t, !.vote = Nobody]
    BY <1>1 DEF InTerm
  <2> DEFINE h == [hard EXCEPT !.term = t, !.vote = Nobody]
  <2>2. h \in Hard /\ h.commit = hard.commit /\ h.term = t
    <3>1. t \in 0 .. MaxTerm
      BY Numbers
    <3>2. QED BY <3>1 DEF Hard
  <2> HIDE DEF h
  <2>3. InTerm(t) = h
    BY <2>1 DEF h
  <2>4. QED BY <1>1, <2>2, <2>3 DEF Covers
<1>2. CASE ~(t > hard.term)
  <2>1. InTerm(t) = hard
    BY <1>2 DEF InTerm
  <2>2. QED BY <1>2, <2>1, Numbers DEF Hard, Covers
<1>3. QED BY <1>1, <1>2

LEMMA NoReplyTyped == NoReply \in Reply /\ ~NoReply.fresh /\ NoHard \in Hard
<1>1. << >> \in Seq(Term1)
  BY EmptySeq
<1>2. NoHard \in Hard
  BY Numbers DEF NoHard, Hard
<1>3. QED BY <1>1, <1>2 DEF NoReply, Reply

\* What Handled and its siblings share.
Answers(kind, p, r, requiresHard, requiredIndex) ==
    /\ kind \in Kind /\ p \in Peer /\ r \in Reply
    /\ requiresHard \in BOOLEAN /\ requiredIndex \in Nat
    /\ StageReply(kind, p, r, requiresHard, requiredIndex)

LEMMA VoteEffect ==
  ASSUME hard \in Hard, NEW p \in Peer, NEW t \in 1 .. MaxTerm, NEW upToDate \in BOOLEAN,
         HandleRequestVote(p, t, upToDate)
  PROVE  /\ hard' \in Hard /\ hard'.commit = hard.commit /\ Covers(hard', hard)
         /\ \E r \in Reply :
               /\ Answers("vote", p, r, hard' # hard, 0)
               /\ r.fresh => r.hard = hard' /\ hard' # hard /\ hard'.vote # Nobody
<1> DEFINE h == InTerm(t)
           granted == t >= hard.term /\ upToDate /\ h.vote \in {Nobody, p}
           r == IF granted /\ hard' # hard
                THEN [NoReply EXCEPT !.hard = hard', !.fresh = TRUE] ELSE NoReply
<1>1. h \in Hard /\ h.commit = hard.commit /\ Covers(h, hard)
  BY TermTaken
<1>2. hard' = IF t < hard.term THEN hard ELSE IF granted THEN [h EXCEPT !.vote = p] ELSE h
  BY DEF HandleRequestVote
<1>3. /\ hard' \in Hard /\ hard'.commit = hard.commit /\ Covers(hard', hard)
      /\ granted => hard'.vote = p
  <2>1. CASE t < hard.term
    BY <2>1, <1>2, Numbers DEF Hard, Covers
  <2>2. CASE ~(t < hard.term) /\ ~granted
    <3> HIDE DEF granted
    <3> QED BY <2>2, <1>1, <1>2
  <2>3. CASE ~(t < hard.term) /\ granted
    <3>1. hard' = [h EXCEPT !.vote = p] /\ h.vote \in {Nobody, p}
      BY <2>3, <1>2
    <3> HIDE DEF h, granted
    <3>2. /\ hard' \in Hard /\ hard'.commit = h.commit /\ hard'.vote = p
          /\ hard'.term = h.term
      BY <3>1, <1>1 DEF Hard
    <3>3. Covers(hard', h)
      BY <3>1, <3>2 DEF Covers
    <3>4. QED BY <3>2, <3>3, <1>1, CoversTransitive
  <2>4. QED BY <2>1, <2>2, <2>3
<1>4. r \in Reply /\ (r.fresh => r.hard = hard' /\ hard' # hard /\ granted)
  <2>1. [NoReply EXCEPT !.hard = hard', !.fresh = TRUE] \in Reply
    BY <1>3, NoReplyTyped DEF Reply
  <2>2. [NoReply EXCEPT !.hard = hard', !.fresh = TRUE].hard = hard'
    BY NoReplyTyped DEF Reply
  <2> DEFINE f == [NoReply EXCEPT !.hard = hard', !.fresh = TRUE]
  <2>3. f \in Reply /\ f.hard = hard'
    BY <2>1, <2>2
  <2>4. r = IF granted /\ hard' # hard THEN f ELSE NoReply
    OBVIOUS
  <2> HIDE DEF granted, f, r
  <2>5. QED BY <2>3, <2>4, NoReplyTyped
<1>5. Answers("vote", p, r, hard' # hard, 0)
  <2>1. StageReply("vote", p, r, hard' # hard, 0)
    BY DEF HandleRequestVote
  <2> HIDE DEF r
  <2>2. QED BY <2>1, <1>4 DEF Answers, Kind
<1>6. r.fresh => r.hard = hard' /\ hard' # hard /\ hard'.vote # Nobody
  <2>1. p # Nobody
    BY GateAssumption
  <2> HIDE DEF r, granted
  <2>2. QED BY <2>1, <1>3, <1>4
<1> HIDE DEF r
<1>7. QED BY <1>3, <1>4, <1>5, <1>6

LEMMA RejectEffect ==
  ASSUME hard \in Hard, NEW p \in Peer, NEW t \in 1 .. MaxTerm, RejectAppend(p, t)
  PROVE  /\ hard' \in Hard /\ hard'.commit = hard.commit /\ Covers(hard', hard)
         /\ Answers("append", p, NoReply, hard' # hard, 0)
<1>1. hard' = InTerm(t) /\ StageReply("append", p, NoReply, hard' # hard, 0)
  BY DEF RejectAppend
<1>2. Answers("append", p, NoReply, hard' # hard, 0)
  BY <1>1, NoReplyTyped DEF Answers, Kind
<1>3. QED BY <1>1, <1>2, TermTaken

LEMMA AcceptEffect ==
  ASSUME hard \in Hard, Bounded(log), cut \in BOOLEAN,
         NEW p \in Peer, NEW t \in 1 .. MaxTerm, NEW prev \in 0 .. MaxIndex,
         NEW prevTerm \in 0 .. t, NEW terms \in TermsUpTo(t, prev, prevTerm),
         NEW commit \in {0, prev + Len(terms)},
         AcceptAppend(p, t, prev, prevTerm, terms, commit)
  PROVE  /\ hard' \in Hard /\ Bounded(log') /\ hard'.commit = log'.commit
         /\ Covers(hard', hard)
         /\ cut' \in BOOLEAN /\ (~cut' => ~cut /\ Extends(log', log))
         /\ \E r \in Reply, i \in Nat :
               /\ Answers("append", p, r, hard' # hard, i)
               /\ r.fresh => r.log = Terms(log') /\ i = Len(log'.entries)
<1> DEFINE es == Entries(prev, terms)
           merged == Merged(es)
           target == LesserOf(commit, LastIndex(merged))
           advanced == IF target > merged.commit THEN AdvanceCommitTo(merged, target) ELSE merged
           grown == LastIndex(advanced) > LastIndex(log)
           r == IF grown THEN [NoReply EXCEPT !.log = Terms(advanced), !.fresh = TRUE]
                ELSE NoReply
           i == IF grown THEN LastIndex(advanced) ELSE 0
<1>1. /\ Matches(log, prev, prevTerm)
      /\ Conflicts(es) => CanTruncateSuffix(log, FindConflict(log, es))
      /\ log' = advanced
      /\ hard' = [InTerm(t) EXCEPT !.commit = advanced.commit]
      /\ cut' = (cut \/ Conflicts(es))
      /\ StageReply("append", p, r, hard' # hard, i)
  BY DEF AcceptAppend
<1>2. /\ es \in Seq(StoredEntry) /\ Len(es) \in {0, 1} /\ prev + Len(es) <= MaxIndex
      /\ \A k \in 1 .. Len(es) : es[k].index = prev + k /\ es[k].term \in Term1
  BY MadeEntries
<1>3. commit \in Nat
  <2>1. terms = << >> \/ \E a : terms = <<a>>
    BY DEF TermsUpTo
  <2>2. Len(terms) \in Nat
    <3>1. CASE terms = << >>
      BY <3>1
    <3>2. CASE \E a : terms = <<a>>
      BY <3>2
    <3>3. QED BY <2>1, <3>1, <3>2
  <2>3. QED BY <2>2, Numbers
<1> HIDE DEF es
<1>4. /\ Bounded(merged) /\ merged.commit = log.commit
      /\ ~Conflicts(es) => Extends(merged, log)
  BY <1>1, <1>2, MergeEffect
<1> HIDE DEF merged
<1>5. /\ Plain(merged) /\ LastIndex(merged) = Len(merged.entries)
      /\ Len(merged.entries) \in Nat /\ merged.commit \in 0 .. Len(merged.entries)
  BY <1>4, BoundedLog DEF Bounded
<1>6. target \in Nat /\ target <= Len(merged.entries)
  BY <1>3, <1>5 DEF LesserOf
<1> HIDE DEF target
<1>7. /\ Plain(advanced) /\ advanced.entries = merged.entries /\ advanced.stable = merged.stable
  <2>1. CASE target > merged.commit
    <3>1. target \in merged.commit .. Len(merged.entries)
      BY <2>1, <1>5, <1>6
    <3>2. QED BY <2>1, <3>1, <1>5, PlainCommit
  <2>2. CASE ~(target > merged.commit)
    BY <2>2, <1>5
  <2>3. QED BY <2>1, <2>2
<1> HIDE DEF advanced
<1>8. Bounded(advanced) /\ (~Conflicts(es) => Extends(advanced, log))
  BY <1>4, <1>7 DEF Bounded, Extends
<1>9. /\ LastIndex(advanced) = Len(advanced.entries) /\ Len(advanced.entries) \in Nat
      /\ advanced.commit \in 0 .. MaxIndex
      /\ Terms(advanced) \in Seq(Term1)
  <2>1. Terms(advanced) \in Seq(Term1)
    BY <1>8, TermsOfLog
  <2>2. /\ LastIndex(advanced) = Len(advanced.entries) /\ Len(advanced.entries) \in 0 .. MaxIndex
        /\ advanced.commit \in 0 .. Len(advanced.entries)
    BY <1>8, BoundedLog
  <2>3. QED BY <2>1, <2>2, Numbers
<1>10. hard' \in Hard /\ hard'.commit = advanced.commit /\ Covers(hard', hard)
  <2> DEFINE h == InTerm(t)
  <2>1. h \in Hard /\ Covers(h, hard)
    BY TermTaken
  <2>2. hard' = [h EXCEPT !.commit = advanced.commit]
    BY <1>1
  <2> HIDE DEF h
  <2>3. hard' \in Hard /\ hard'.commit = advanced.commit /\ hard'.term = h.term /\ hard'.vote = h.vote
    BY <2>1, <2>2, <1>9 DEF Hard
  <2>4. QED BY <2>1, <2>3 DEF Covers
<1>11. /\ r \in Reply /\ i \in Nat
       /\ r.fresh => r.log = Terms(advanced) /\ i = Len(advanced.entries)
  <2> DEFINE f == [NoReply EXCEPT !.log = Terms(advanced), !.fresh = TRUE]
  <2>1. f \in Reply /\ f.log = Terms(advanced)
    BY <1>9, NoReplyTyped DEF Reply
  <2>2. r = IF grown THEN f ELSE NoReply
    OBVIOUS
  <2> HIDE DEF f, r, grown
  <2>3. QED BY <2>1, <2>2, <1>9, NoReplyTyped
<1> HIDE DEF r, i
<1>12. Answers("append", p, r, hard' # hard, i)
  BY <1>1, <1>11 DEF Answers, Kind
<1>13. cut' \in BOOLEAN /\ (~cut' => ~cut /\ Extends(log', log))
  BY <1>1, <1>8
<1>14. \E q \in Reply, j \in Nat :
          /\ Answers("append", p, q, hard' # hard, j)
          /\ q.fresh => q.log = Terms(log') /\ j = Len(log'.entries)
  BY <1>1, <1>11, <1>12
<1>15. QED BY <1>1, <1>8, <1>10, <1>13, <1>14

----------------------------------------------------------------------------
(***************************************************************************)
(* The types of the gate, step by step.                                    *)
(***************************************************************************)

LEMMA GateTypedInit == Init => GateTyped
<1> SUFFICES ASSUME Init PROVE GateTyped
  OBVIOUS
<1>1. Bounded(log) /\ hard.commit = log.commit
  <2>1. Plain(EmptyLog) /\ log = EmptyLog
    BY EmptyLogIsPlain DEF Init
  <2>2. EmptyLog.entries = << >> /\ EmptyLog.commit = 0 /\ Len(<< >>) = 0
    BY EmptySeq DEF EmptyLog
  <2>3. Bounded(EmptyLog)
    BY <2>1, <2>2, Numbers DEF Bounded
  <2>4. QED BY <2>1, <2>2, <2>3 DEF Init, NoHard
<1>2. hard \in Hard /\ marked \in Hard
  BY NoReplyTyped DEF Init
<1>3. staged \in [Kind -> [Peer -> Reply]]
  BY NoReplyTyped DEF Init
<1>4. /\ queue \in Seq(Work) /\ Len(queue) = 0
      /\ completions \in Seq(Completion) /\ Len(completions) = 0
  BY EmptySeq DEF Init
<1>5. Range(queue) = {} /\ writing = NoWork
  <2>1. \A x : x \notin Range(queue)
    <3>1. \A x : x \in Range(queue) <=> \E i \in 1 .. Len(queue) : x = queue[i]
      BY <1>4, MembersOfSeq
    <3>2. QED BY <3>1, <1>4
  <2>2. QED BY <2>1 DEF Init
<1>6. disk \in Disk /\ disk.hard.commit <= Len(disk.log)
  <2>1. << >> \in Seq(Term1) /\ Len(<< >>) = 0
    BY EmptySeq
  <2>2. disk = [hard |-> NoHard, log |-> << >>] /\ NoHard.commit = 0
    BY DEF Init, NoHard
  <2>3. disk \in Disk
    BY <2>1, <2>2, NoReplyTyped DEF Disk
  <2>4. QED BY <2>1, <2>2, <2>3
<1>7. \A w \in Works : Shaped(w)
  BY <1>5, NoWorkShaped DEF Works
<1>8. /\ requests \in Nat /\ requests <= MaxRequests /\ Len(queue) <= QueueLimit
      /\ Len(completions) <= MaxCompletions
      /\ cut \in BOOLEAN /\ overlapped \in BOOLEAN /\ missed \in BOOLEAN
  <2>1. requests = 0 /\ cut = FALSE /\ overlapped = FALSE /\ missed = FALSE
    BY DEF Init
  <2>2. requests \in Nat /\ 0 <= MaxRequests /\ 0 <= QueueLimit /\ 0 <= MaxCompletions
    BY <2>1, Numbers
  <2>3. QED BY <1>4, <2>1, <2>2
<1>9. QED BY <1>1, <1>2, <1>3, <1>4, <1>6, <1>7, <1>8 DEF GateTyped

\* A step of the protocol thread that changes none of what the persistence
\* thread holds, and drains the core.
DrainTyped ==
    /\ queue' \in Seq(Work) /\ Len(queue') <= QueueLimit
    /\ \A w \in Works' : w \in Works \/ w = WorkOf(hard', marked', log')
    /\ \A w \in Works' : Shaped(w)
    /\ missed' \in BOOLEAN

LEMMA DrainKeepsShape ==
  ASSUME GateTyped, hard' \in Hard, Bounded(log'), writing' = writing, DrainCoreOutput
  PROVE  DrainTyped
<1>1. /\ queue' \in Seq(Work) /\ Len(queue') <= QueueLimit /\ missed' \in BOOLEAN
      /\ Range(queue') \subseteq Range(queue) \cup {WorkOf(hard', marked', log')}
  BY DrainEffect
<1>2. Shaped(WorkOf(hard', marked', log'))
  BY WorkOfLog
<1>3. Works' = Range(queue') \cup {writing}
  BY DEF Works
<1>4. \A w \in Works : Shaped(w)
  BY DEF GateTyped
<1>5. \A w \in Works' : w \in Works \/ w = WorkOf(hard', marked', log')
  BY <1>1, <1>3 DEF Works
<1>6. QED BY <1>1, <1>2, <1>4, <1>5 DEF DrainTyped

LEMMA AnswerTyped ==
  ASSUME GateTyped, Handled, DrainCoreOutput,
         hard' \in Hard, Bounded(log'), hard'.commit = log'.commit, cut' \in BOOLEAN,
         NEW kind, NEW p, NEW r, NEW requiresHard, NEW requiredIndex,
         Answers(kind, p, r, requiresHard, requiredIndex)
  PROVE  GateTyped' /\ DrainTyped
<1>1. /\ marked' = marked /\ writing' = writing /\ completions' = completions /\ disk' = disk
      /\ requests < MaxRequests /\ requests' = requests + 1 /\ overlapped' \in BOOLEAN
  BY DEF Handled, GateTyped
<1>2. DrainTyped
  BY <1>1, DrainKeepsShape
<1>3. staged' \in [Kind -> [Peer -> Reply]]
  BY StageReplyEffect DEF Answers, GateTyped
<1>4. requests' \in Nat /\ requests' <= MaxRequests
  BY <1>1, Numbers DEF GateTyped
<1>5. QED BY <1>1, <1>2, <1>3, <1>4 DEF GateTyped, DrainTyped

LEMMA FailTyped ==
  ASSUME GateTyped, NEW p \in Peer, NEW t \in 1 .. MaxTerm, NEW prev, NEW prevTerm, NEW terms,
         FailAppend(p, t, prev, prevTerm, terms)
  PROVE  GateTyped' /\ Covers(hard', hard)
<1>1. /\ marked' = marked /\ writing' = writing /\ completions' = completions /\ disk' = disk
      /\ log' = log /\ staged' = staged /\ cut' = cut /\ queue' = queue
      /\ requests < MaxRequests /\ requests' = requests + 1
      /\ hard' = InTerm(t)
  BY DEF FailAppend, Handled
<1>2. overlapped' \in BOOLEAN /\ missed' \in BOOLEAN
  BY DEF FailAppend, Handled, GateTyped
<1>3. hard' \in Hard /\ hard'.commit = hard.commit /\ Covers(hard', hard)
  BY <1>1, TermTaken DEF GateTyped
<1>4. requests' \in Nat /\ requests' <= MaxRequests
  BY <1>1, Numbers DEF GateTyped
<1>5. Works' = Works
  BY <1>1 DEF Works
<1>6. QED BY <1>1, <1>2, <1>3, <1>4, <1>5 DEF GateTyped

LEMMA TickTyped ==
  ASSUME GateTyped, NEW elects \in BOOLEAN, Tick(elects)
  PROVE  GateTyped' /\ DrainTyped /\ Covers(hard', hard) /\ (~elects => hard' = hard)
<1>1. /\ marked' = marked /\ log' = log /\ staged' = staged /\ writing' = writing
      /\ completions' = completions /\ disk' = disk /\ requests' = requests /\ cut' = cut
      /\ DrainCoreOutput /\ (elects => hard.term < MaxTerm)
      /\ hard' = IF elects THEN [hard EXCEPT !.term = @ + 1, !.vote = Self] ELSE hard
  BY DEF Tick
<1>2. overlapped' \in BOOLEAN
  BY DEF Tick, GateTyped
<1>3. hard' \in Hard /\ hard'.commit = hard.commit /\ Covers(hard', hard)
  <2>1. CASE elects
    <3>1. hard \in Hard /\ hard.term + 1 \in 0 .. MaxTerm /\ hard.term \in Nat
      BY <2>1, <1>1, Numbers DEF GateTyped, Hard
    <3>2. hard' = [hard EXCEPT !.term = hard.term + 1, !.vote = Self]
      BY <2>1, <1>1
    <3>3. hard' \in Hard /\ hard'.commit = hard.commit /\ hard'.term = hard.term + 1
      BY <3>1, <3>2 DEF Hard
    <3>4. QED BY <3>1, <3>3 DEF Covers
  <2>2. CASE ~elects
    BY <2>2, <1>1 DEF GateTyped, Covers
  <2>3. QED BY <2>1, <2>2
<1>4. Bounded(log') /\ DrainTyped
  BY <1>1, <1>3, DrainKeepsShape DEF GateTyped
<1>5. QED BY <1>1, <1>2, <1>3, <1>4 DEF GateTyped, DrainTyped

LEMMA TakeTyped ==
  ASSUME GateTyped, TakeWork
  PROVE  GateTyped' /\ Works' \subseteq Works
<1>1. /\ hard' = hard /\ marked' = marked /\ log' = log /\ staged' = staged
      /\ completions' = completions /\ disk' = disk /\ requests' = requests
      /\ cut' = cut /\ overlapped' = overlapped /\ missed' = missed
      /\ queue # << >> /\ writing' = Head(queue) /\ queue' = Tail(queue)
  BY DEF TakeWork, core, ghosts
<1>2. /\ Head(queue) \in Range(queue) /\ Tail(queue) \in Seq(Work)
      /\ Range(Tail(queue)) \subseteq Range(queue)
      /\ Len(Tail(queue)) = Len(queue) - 1 /\ Len(queue) \in Nat \ {0}
  BY <1>1, RangeOfTail DEF GateTyped
<1>3. Works' \subseteq Works
  BY <1>1, <1>2 DEF Works
<1>4. queue' \in Seq(Work) /\ Len(queue') <= QueueLimit
  BY <1>1, <1>2, Numbers DEF GateTyped
<1>5. \A w \in Works' : Shaped(w)
  BY <1>3 DEF GateTyped
<1>6. QED BY <1>1, <1>3, <1>4, <1>5 DEF GateTyped

\* The disk keeps what it has below the first entry written; a write that does
\* not reach beyond it changes nothing.
LEMMA WrittenEntries ==
  ASSUME NEW w, Shaped(w), disk.log \in Seq(Term1), AcceptsEntries(w)
  PROVE  LET d == WithEntries(w)
         IN  /\ d \in Seq(Term1) /\ Len(d) \in Nat
             /\ Len(disk.log) <= Len(d) /\ w.last <= Len(d)
             /\ \/ d = disk.log
                \/ /\ Len(d) = w.first - 1 + Len(w.terms)
                   /\ w.first - 1 \in Nat /\ w.first - 1 <= Len(disk.log)
                   /\ \A i \in 1 .. Len(d) :
                         d[i] = IF i <= w.first - 1 THEN disk.log[i]
                                                    ELSE w.terms[i - (w.first - 1)]
<1> DEFINE old == disk.log
           a == w.first - 1
           d == WithEntries(w)
<1>1. /\ Len(old) \in Nat /\ w.terms \in Seq(Term1) /\ Len(w.terms) \in Nat /\ w.first \in Nat
      /\ \A i \in 1 .. Len(old) : old[i] \in Term1
      /\ w.last \in Nat
  <2>1. Len(old) \in Nat /\ \A i \in 1 .. Len(old) : old[i] \in Term1
    BY LenProperties, ElementOfSeq
  <2>2. w.terms \in Seq(Term1) /\ w.first \in Nat /\ w.last \in Nat
    BY Numbers DEF Shaped, Work, Term1
  <2>3. QED BY <2>1, <2>2, LenProperties
<1>2. CASE w.terms = << >> \/ w.last <= Len(old)
  <2>1. d = old
    BY <1>2 DEF WithEntries
  <2>2. w.last <= Len(old)
    BY <1>1, <1>2 DEF Shaped
  <2> HIDE DEF d
  <2>3. QED BY <1>1, <2>1, <2>2 DEF d
<1>3. CASE w.terms # << >> /\ ~(w.last <= Len(old))
  <2>1. /\ a \in Nat /\ a <= Len(old) /\ w.last = a + Len(w.terms)
        /\ d = SubSeq(old, 1, a) \o w.terms
    <3>1. w.first >= 1 /\ w.last = w.first - 1 + Len(w.terms)
      BY <1>3 DEF Shaped
    <3>2. w.first <= Len(old) + 1
      BY <1>3 DEF AcceptsEntries
    <3>3. d = SubSeq(old, 1, w.first - 1) \o w.terms
      BY <1>3 DEF WithEntries
    <3>4. QED BY <1>1, <3>1, <3>2, <3>3
  <2> HIDE DEF a, d
  <2> DEFINE head == SubSeq(old, 1, a)
  <2>2. /\ head \in Seq(Term1) /\ Len(head) = a
        /\ \A i \in 1 .. a : head[i] = old[i]
    <3>1. \A i \in 1 .. a : old[i] \in Term1
      BY <2>1, <1>1
    <3> HIDE DEF old
    <3>2. /\ SubSeq(old, 1, a) \in Seq(Term1)
          /\ Len(SubSeq(old, 1, a)) = IF 1 <= a THEN a - 1 + 1 ELSE 0
          /\ \A i \in 1 .. a - 1 + 1 : SubSeq(old, 1, a)[i] = old[1 + i - 1]
      BY <3>1, <2>1, SubSeqProperties
    <3>3. \A i \in 1 .. a : i \in 1 .. a - 1 + 1 /\ 1 + i - 1 = i
      BY <2>1
    <3>4. QED BY <2>1, <3>2, <3>3
  <2> HIDE DEF head
  <2> DEFINE ts == w.terms
  <2>3. ts \in Seq(Term1) /\ d = head \o ts
    BY <1>1, <2>1 DEF head
  <2>4. /\ d \in Seq(Term1) /\ Len(d) = Len(head) + Len(ts)
        /\ \A i \in 1 .. Len(head) + Len(ts) :
              d[i] = IF i <= Len(head) THEN head[i] ELSE ts[i - Len(head)]
    <3> HIDE DEF ts
    <3> QED BY <2>2, <2>3, ConcatProperties
  <2>5. Len(d) = a + Len(ts) /\ Len(d) \in Nat /\ Len(old) <= Len(d) /\ w.last <= Len(d)
    <3>1. /\ Len(d) = Len(head) + Len(ts) /\ Len(head) = a /\ a \in Nat /\ a <= Len(old)
          /\ Len(ts) \in Nat /\ Len(old) \in Nat
      BY <1>1, <2>1, <2>2, <2>4
    <3>2. w.last \in Nat /\ ~(w.last <= Len(old)) /\ w.last = a + Len(ts)
      BY <1>1, <1>3, <2>1
    <3> HIDE DEF ts, old
    <3>3. QED BY <3>1, <3>2
  <2>6. \A i \in 1 .. Len(d) : d[i] = IF i <= a THEN old[i] ELSE ts[i - a]
    BY <2>1, <2>2, <2>4, <2>5
  <2>7. Len(old) <= Len(d) /\ Len(d) = a + Len(w.terms) /\ a \in Nat /\ a <= Len(old)
        /\ \A i \in 1 .. Len(d) : d[i] = IF i <= a THEN old[i] ELSE w.terms[i - a]
    BY <2>1, <2>5, <2>6 DEF ts
  <2> HIDE DEF ts
  <2>8. d \in Seq(Term1) /\ Len(d) \in Nat /\ w.last <= Len(d)
    BY <2>4, <2>5
  <2>9. QED BY <2>7, <2>8, Zenon DEF a, d, old
<1>4. QED BY <1>2, <1>3

\* A write: the completion, and what the disk then has.
Wrote(ok) ==
    /\ completions' = Append(completions,
          [ok |-> ok, hasHard |-> ok /\ writing.hasHard, last |-> writing.last])
    /\ disk'.hard = IF ok /\ writing.hasHard THEN writing.hard ELSE disk.hard
    /\ Len(disk.log) <= Len(disk'.log)
    /\ ok => writing.last <= Len(disk'.log)
    /\ \/ disk'.log = disk.log
       \/ AcceptsEntries(writing) /\ disk'.log = WithEntries(writing)

LEMMA WriteTyped ==
  ASSUME GateTyped, Write
  PROVE  /\ GateTyped' /\ Works' \subseteq Works \cup {NoWork}
         /\ \E ok \in BOOLEAN : Wrote(ok)
<1> DEFINE written == IF AcceptsEntries(writing) THEN WithEntries(writing) ELSE disk.log
           ok == AcceptsEntries(writing) /\ AcceptsHardState(writing, written)
           c == [ok |-> ok, hasHard |-> ok /\ writing.hasHard, last |-> writing.last]
<1>1. /\ hard' = hard /\ marked' = marked /\ log' = log /\ staged' = staged
      /\ queue' = queue /\ requests' = requests
      /\ cut' = cut /\ overlapped' = overlapped /\ missed' = missed
      /\ Len(completions) < MaxCompletions /\ writing' = NoWork
      /\ completions' = Append(completions, c)
      /\ disk' = [log |-> written,
                  hard |-> IF ok /\ writing.hasHard THEN writing.hard ELSE disk.hard]
  BY DEF Write, core, ghosts
<1>2. Shaped(writing) /\ disk.log \in Seq(Term1) /\ disk.hard \in Hard
  BY DEF GateTyped, Works, Disk
<1>3. writing.hasHard \in BOOLEAN /\ writing.hard \in Hard /\ writing.last \in 0 .. MaxIndex
  BY <1>2 DEF Shaped, Work
<1>4. /\ written \in Seq(Term1) /\ Len(disk.log) <= Len(written) /\ Len(written) \in Nat
      /\ ok => writing.last <= Len(written)
      /\ \/ written = disk.log
         \/ AcceptsEntries(writing) /\ written = WithEntries(writing)
  <2>1. CASE AcceptsEntries(writing)
    <3>1. written = WithEntries(writing)
      BY <2>1
    <3> HIDE DEF written
    <3>2. QED BY <2>1, <3>1, <1>2, WrittenEntries
  <2>2. CASE ~AcceptsEntries(writing)
    <3>1. written = disk.log /\ ~ok
      BY <2>2
    <3>2. Len(disk.log) \in Nat
      BY <1>2, LenProperties
    <3> HIDE DEF written, ok
    <3>3. QED BY <3>1, <3>2, <1>2
  <2>3. QED BY <2>1, <2>2
<1>5. ok => AcceptsHardState(writing, written)
  OBVIOUS
<1>6. ok \in BOOLEAN
  OBVIOUS
<1> HIDE DEF written, ok
<1>7. c \in Completion
  BY <1>3, <1>6 DEF Completion
<1> HIDE DEF c
<1>8. /\ completions' \in Seq(Completion) /\ Len(completions') <= MaxCompletions
  <2>1. completions \in Seq(Completion) /\ Len(completions) \in Nat
    BY LenProperties DEF GateTyped
  <2>2. /\ Append(completions, c) \in Seq(Completion)
        /\ Len(Append(completions, c)) = Len(completions) + 1
    BY <2>1, <1>7, AppendProperties
  <2>3. QED BY <1>1, <2>1, <2>2, Numbers
<1>9. disk' \in Disk /\ disk'.log = written
      /\ disk'.hard = IF ok /\ writing.hasHard THEN writing.hard ELSE disk.hard
  BY <1>1, <1>2, <1>3, <1>4 DEF Disk
<1>10. disk'.hard.commit <= Len(disk'.log)
  <2>1. CASE ok /\ writing.hasHard
    <3>1. writing.hard.commit \in disk.hard.commit .. Len(written)
      BY <2>1, <1>5 DEF AcceptsHardState
    <3>2. disk.hard.commit \in Nat
      BY <1>2, Numbers DEF Hard
    <3>3. QED BY <2>1, <3>1, <3>2, <1>4, <1>9
  <2>2. CASE ~(ok /\ writing.hasHard)
    <3>1. disk.hard.commit <= Len(disk.log) /\ disk.hard.commit \in Nat /\ Len(disk.log) \in Nat
      BY <1>2, Numbers, LenProperties DEF GateTyped, Hard
    <3>2. QED BY <2>2, <3>1, <1>4, <1>9
  <2>3. QED BY <2>1, <2>2
<1>11. Works' \subseteq Works \cup {NoWork}
  BY <1>1 DEF Works
<1>12. \A w \in Works' : Shaped(w)
  BY <1>11, NoWorkShaped DEF GateTyped
<1>13. GateTyped'
  BY <1>1, <1>8, <1>9, <1>10, <1>12 DEF GateTyped
<1>14. Wrote(ok)
  BY <1>1, <1>4, <1>9 DEF Wrote, c
<1>15. QED BY <1>6, <1>11, <1>13, <1>14

\* A confirmation: what counts as stable, what is marked, what is let go.
Confirmed(c) ==
    /\ completions # << >> /\ c = Head(completions) /\ c \in Range(completions)
    /\ completions' = Tail(completions)
    /\ c.ok /\ c.last \in log.stable .. Len(log.entries)
    /\ hard' = hard /\ marked' = IF c.hasHard THEN hard ELSE marked
    /\ log'.entries = log.entries /\ log'.stable = c.last
    /\ \A k \in Kind, q \in Peer : Released(staged'[k][q], staged[k][q])
    /\ disk' = disk /\ cut' = cut /\ overlapped' = overlapped

LEMMA ConfirmTyped ==
  ASSUME GateTyped, PersistenceConfirmed
  PROVE  GateTyped' /\ DrainTyped /\ \E c \in Completion : Confirmed(c)
<1> DEFINE c == Head(completions)
<1>1. /\ completions # << >> /\ c.ok /\ c.last \in log.stable .. LastIndex(log)
      /\ marked' = IF c.hasHard THEN hard ELSE marked
      /\ log' = AdvanceStableTo(log, c.last) /\ hard' = hard
      /\ ReclassifyBlockedMessages /\ completions' = Tail(completions) /\ DrainCoreOutput
      /\ writing' = writing /\ disk' = disk /\ requests' = requests
      /\ cut' = cut /\ overlapped' = overlapped
  BY DEF PersistenceConfirmed, ConfirmPersistence, Confirms, StableAfter
<1>2. /\ completions \in Seq(Completion) /\ c \in Range(completions)
      /\ Tail(completions) \in Seq(Completion) /\ Range(completions) \subseteq Completion
      /\ Len(Tail(completions)) = Len(completions) - 1 /\ Len(completions) \in Nat \ {0}
  BY <1>1, RangeOfTail, MembersOfSeq DEF GateTyped
<1> HIDE DEF c
<1>3. /\ c \in Completion /\ completions' \in Seq(Completion) /\ Len(completions') <= MaxCompletions
  BY <1>1, <1>2, Numbers DEF GateTyped
<1>4. /\ Bounded(log) /\ LastIndex(log) = Len(log.entries) /\ log \in LogRecord
      /\ log.stable \in Nat /\ Len(log.entries) \in Nat
  BY BoundedLog DEF GateTyped
<1>5. c.last \in Nat /\ CanAdvanceStableTo(log, c.last)
  BY <1>1, <1>4 DEF CanAdvanceStableTo
<1>6. log'.entries = log.entries /\ log'.stable = c.last /\ log'.commit = log.commit
      /\ log'.snapshotIndex = log.snapshotIndex /\ log'.snapshotTerm = log.snapshotTerm
  BY <1>1, <1>4 DEF AdvanceStableTo, LogRecord
<1>7. WellFormed(log')
  BY <1>1, <1>4, <1>5, AdvanceKeeps DEF Bounded, Plain
<1>8. Bounded(log')
  BY <1>4, <1>6, <1>7 DEF Bounded, Plain
<1>9. hard' \in Hard /\ marked' \in Hard /\ hard'.commit = log'.commit
  BY <1>1, <1>6 DEF GateTyped
<1>10. DrainTyped
  BY <1>1, <1>8, <1>9, DrainKeepsShape
<1>11. /\ staged' \in [Kind -> [Peer -> Reply]]
       /\ \A k \in Kind, q \in Peer : Released(staged'[k][q], staged[k][q])
  BY <1>1, ReclassifyEffect DEF GateTyped
<1>12. GateTyped'
  BY <1>1, <1>3, <1>8, <1>9, <1>10, <1>11 DEF GateTyped, DrainTyped
<1>13. Confirmed(c)
  BY <1>1, <1>2, <1>4, <1>6, <1>11 DEF Confirmed, c
<1>14. QED BY <1>3, <1>10, <1>12, <1>13

LEMMA RefusedTyped ==
  ASSUME GateTyped, PersistenceRefused
  PROVE  /\ GateTyped' /\ Works' = Works
         /\ Range(completions') \subseteq Range(completions)
<1>1. /\ completions # << >> /\ completions' = Tail(completions)
      /\ hard' = hard /\ marked' = marked /\ log' = log /\ staged' = staged
      /\ queue' = queue /\ writing' = writing /\ disk' = disk /\ requests' = requests
      /\ cut' = cut /\ overlapped' = overlapped /\ missed' = missed
  BY DEF PersistenceRefused, core, ghosts
<1>2. /\ Tail(completions) \in Seq(Completion)
      /\ Range(Tail(completions)) \subseteq Range(completions)
      /\ Len(Tail(completions)) = Len(completions) - 1 /\ Len(completions) \in Nat \ {0}
  BY <1>1, RangeOfTail DEF GateTyped
<1>3. completions' \in Seq(Completion) /\ Len(completions') <= MaxCompletions
  BY <1>1, <1>2, Numbers DEF GateTyped
<1>4. Works' = Works
  BY <1>1 DEF Works
<1>5. QED BY <1>1, <1>2, <1>3, <1>4 DEF GateTyped

LEMMA StutterTyped ==
  ASSUME GateTyped, UNCHANGED vars
  PROVE  GateTyped' /\ Works' = Works
<1>1. /\ hard' = hard /\ marked' = marked /\ log' = log /\ staged' = staged
      /\ queue' = queue /\ writing' = writing /\ disk' = disk /\ requests' = requests
      /\ completions' = completions
      /\ cut' = cut /\ overlapped' = overlapped /\ missed' = missed
  BY DEF vars, core, ghosts
<1>2. Works' = Works
  BY <1>1 DEF Works
<1>3. QED BY <1>1, <1>2 DEF GateTyped

----------------------------------------------------------------------------
\* The log and the disk: nothing is written that is not of the log, and
\* nothing is missing below what is written.

\* d holds the first terms of the log.
Holds(d, l) ==
    /\ Len(d) <= Len(l.entries)
    /\ \A i \in 1 .. Len(d) : d[i] = l.entries[i].term

\* The entries of a piece of work are those of the log, and a disk with n
\* entries has everything below them.
Continues(w, l, n) ==
    /\ w.first <= n + 1
    /\ w.last <= Len(l.entries)
    /\ \A k \in 1 .. Len(w.terms) : w.terms[k] = l.entries[w.first + k - 1].term

\* A reply that promises entries promises those of the log, and waits for the
\* last of them or needs not.
PromisesLog(r, l) ==
    r.fresh => /\ Holds(r.log, l)
               /\ \/ Len(r.log) <= l.stable
                  \/ r.at = "later" /\ r.needsIndex = Len(r.log)

StoredInOrder ==
    /\ Holds(disk.log, log) /\ log.stable <= Len(disk.log)
    /\ \A w \in Works : Continues(w, log, Len(disk.log))
    /\ \A c \in Range(completions) : c.ok => c.last <= Len(disk.log)
    /\ \A p \in Peer : PromisesLog(staged["append"][p], log)

\* The log m has the terms of l, and perhaps more, and as many are stable.
Lengthens(m, l) ==
    /\ l.stable <= m.stable
    /\ Len(l.entries) <= Len(m.entries)
    /\ \A i \in 1 .. Len(l.entries) : m.entries[i].term = l.entries[i].term

LEMMA HoldsLonger ==
  ASSUME NEW l, Bounded(l), NEW m, Bounded(m), Lengthens(m, l),
         NEW d \in Seq(Term1), Holds(d, l)
  PROVE  Holds(d, m)
<1>1. Len(d) \in Nat /\ Len(l.entries) \in Nat /\ Len(m.entries) \in Nat
  BY LenProperties, BoundedLog
<1>2. \A i \in 1 .. Len(d) : i \in 1 .. Len(l.entries)
  BY <1>1 DEF Holds
<1>3. Len(d) <= Len(m.entries)
  BY <1>1 DEF Holds, Lengthens
<1>4. QED BY <1>2, <1>3 DEF Holds, Lengthens

LEMMA PromiseLonger ==
  ASSUME NEW l, Bounded(l), NEW m, Bounded(m), Lengthens(m, l),
         NEW r \in Reply, PromisesLog(r, l)
  PROVE  PromisesLog(r, m)
<1>1. r.log \in Seq(Term1) /\ Len(r.log) \in Nat
  BY LenProperties DEF Reply
<1>2. l.stable \in Nat /\ m.stable \in Nat /\ l.stable <= m.stable
  BY BoundedLog DEF Lengthens
<1>3. r.fresh => Holds(r.log, m)
  BY <1>1, HoldsLonger DEF PromisesLog
<1>4. QED BY <1>1, <1>2, <1>3 DEF PromisesLog

LEMMA ContinuesLonger ==
  ASSUME NEW l, Bounded(l), NEW m, Bounded(m), Lengthens(m, l),
         NEW w, Shaped(w), NEW n \in Nat, Continues(w, l, n)
  PROVE  Continues(w, m, n)
<1>1. /\ w.first \in Nat /\ w.last \in Nat /\ w.terms \in Seq(Term1)
      /\ Len(l.entries) \in Nat /\ Len(m.entries) \in Nat
  BY BoundedLog, Numbers DEF Shaped, Work, Term1
<1>2. Len(w.terms) \in Nat
  BY <1>1, LenProperties
<1>3. w.last <= Len(l.entries) /\ w.last <= Len(m.entries)
  BY <1>1 DEF Continues, Lengthens
<1>4. ASSUME NEW k \in 1 .. Len(w.terms)
      PROVE  w.terms[k] = m.entries[w.first + k - 1].term
  <2>1. w.terms # << >>
    BY <1>1, <1>2, EmptySeq
  <2>2. w.first >= 1 /\ w.last = w.first - 1 + Len(w.terms)
    BY <2>1 DEF Shaped
  <2>3. w.first + k - 1 \in 1 .. Len(l.entries)
    <3> DEFINE a == w.first
               len == Len(w.terms)
               e == Len(l.entries)
    <3>1. /\ a \in Nat /\ a >= 1 /\ len \in Nat /\ e \in Nat /\ k \in 1 .. len
          /\ a - 1 + len <= e
      BY <2>2, <1>1, <1>2, <1>3
    <3> HIDE DEF a, len, e
    <3>2. a + k - 1 \in 1 .. e
      BY <3>1
    <3>3. QED BY <3>2 DEF a, e
  <2>4. m.entries[w.first + k - 1].term = l.entries[w.first + k - 1].term
    BY <2>3 DEF Lengthens
  <2>5. QED BY <2>4 DEF Continues
<1>5. QED BY <1>3, <1>4 DEF Continues

LEMMA NewWorkContinues ==
  ASSUME NEW h \in Hard, NEW m, NEW l, Bounded(l), NEW n \in Nat, l.stable <= n
  PROVE  Continues(WorkOf(h, m, l), l, n)
<1> DEFINE w == WorkOf(h, m, l)
<1>1. /\ w.first = l.stable + 1 /\ w.last <= Len(l.entries)
      /\ \A k \in 1 .. Len(w.terms) : w.terms[k] = l.entries[w.first + k - 1].term
  BY WorkOfLog
<1>2. l.stable \in Nat
  BY BoundedLog
<1> HIDE DEF w
<1>3. Continues(w, l, n)
  BY <1>1, <1>2 DEF Continues
<1>4. QED BY <1>3 DEF w

\* A step that writes nothing keeps the order when the log only grows.
LEMMA OrderKept ==
  ASSUME GateTyped, GateTyped', StoredInOrder,
         Lengthens(log', log), log'.stable <= Len(disk.log), disk' = disk,
         \A w \in Works' : w \in Works \/ w = WorkOf(hard', marked', log'),
         \A c \in Range(completions') : c \in Range(completions),
         \A p \in Peer : PromisesLog(staged'["append"][p], log')
  PROVE  StoredInOrder'
<1>1. /\ Bounded(log) /\ Bounded(log') /\ disk.log \in Seq(Term1) /\ hard' \in Hard
  BY DEF GateTyped, Disk
<1>2. Len(disk.log) \in Nat
  BY <1>1, LenProperties
<1>3. Holds(disk.log, log')
  BY <1>1, HoldsLonger DEF StoredInOrder
<1>4. ASSUME NEW w \in Works'
      PROVE  Continues(w, log', Len(disk.log))
  <2>1. CASE w \in Works
    <3>1. Shaped(w) /\ Continues(w, log, Len(disk.log))
      BY <2>1 DEF GateTyped, StoredInOrder
    <3>2. QED BY <3>1, <1>1, <1>2, ContinuesLonger
  <2>2. CASE w = WorkOf(hard', marked', log')
    BY <2>2, <1>1, <1>2, NewWorkContinues
  <2>3. QED BY <2>1, <2>2
<1>5. \A c \in Range(completions') : c.ok => c.last <= Len(disk.log)
  BY DEF StoredInOrder
<1>6. QED BY <1>3, <1>4, <1>5 DEF StoredInOrder

LEMMA Unchanged ==
  ASSUME GateTyped, log' = log
  PROVE  Lengthens(log', log)
<1>1. log.stable \in Nat /\ Len(log.entries) \in Nat
  BY BoundedLog DEF GateTyped
<1>2. QED BY <1>1 DEF Lengthens

\* Steps that leave the log and the replies alone.
LEMMA OrderKeptQuietly ==
  ASSUME GateTyped, GateTyped', StoredInOrder, log' = log, staged' = staged, disk' = disk,
         \A w \in Works' : w \in Works \/ w = WorkOf(hard', marked', log'),
         \A c \in Range(completions') : c \in Range(completions)
  PROVE  StoredInOrder'
<1>1. Lengthens(log', log)
  BY Unchanged
<1>2. log'.stable <= Len(disk.log) /\ \A p \in Peer : PromisesLog(staged'["append"][p], log')
  BY DEF StoredInOrder
<1>3. QED BY <1>1, <1>2, OrderKept

\* A reply that promises the whole log waits for its last entry.
LEMMA StagedPromise ==
  ASSUME NEW l, Bounded(l), NEW h, NEW r \in Reply, NEW requiresHard \in BOOLEAN,
         NEW requiredIndex \in Nat,
         r.fresh => r.log = Terms(l) /\ requiredIndex = Len(l.entries)
  PROVE  PromisesLog(Stage(h, l, r, requiresHard, requiredIndex), l)
<1> DEFINE s == Stage(h, l, r, requiresHard, requiredIndex)
<1>1. /\ s.fresh = r.fresh /\ s.log = r.log
      /\ s.at = IF requiredIndex > l.stable \/ (requiresHard /\ h # marked)
                THEN "later" ELSE "now"
      /\ requiredIndex > l.stable => s.needsIndex = requiredIndex
  BY StageEffect
<1>2. /\ Len(Terms(l)) = Len(l.entries)
      /\ \A i \in 1 .. Len(l.entries) : Terms(l)[i] = l.entries[i].term
  BY TermsOfLog
<1>3. l.stable \in Nat /\ Len(l.entries) \in Nat
  BY BoundedLog
<1> HIDE DEF s
<1>4. ASSUME s.fresh
      PROVE  /\ Holds(s.log, l)
             /\ Len(s.log) <= l.stable \/ (s.at = "later" /\ s.needsIndex = Len(s.log))
  <2>1. s.log = Terms(l) /\ requiredIndex = Len(s.log)
    BY <1>1, <1>2, <1>4
  <2>2. Holds(s.log, l)
    BY <2>1, <1>2, <1>3 DEF Holds
  <2>3. CASE requiredIndex > l.stable
    BY <2>1, <2>2, <2>3, <1>1
  <2>4. CASE ~(requiredIndex > l.stable)
    BY <2>1, <2>2, <2>4, <1>3
  <2>5. QED BY <2>3, <2>4
<1>5. PromisesLog(s, l)
  BY <1>4 DEF PromisesLog
<1>6. QED BY <1>5 DEF s

LEMMA OrderKeptByAnswer ==
  ASSUME GateTyped, GateTyped', DrainTyped, StoredInOrder, Extends(log', log),
         disk' = disk, completions' = completions,
         NEW kind, NEW p, NEW r, NEW requiresHard, NEW requiredIndex,
         Answers(kind, p, r, requiresHard, requiredIndex),
         kind = "append" => (r.fresh => r.log = Terms(log') /\ requiredIndex = Len(log'.entries))
  PROVE  StoredInOrder'
<1>1. Bounded(log) /\ Bounded(log') /\ staged \in [Kind -> [Peer -> Reply]]
  BY DEF GateTyped
<1>2. Lengthens(log', log)
  BY <1>1, BoundedLog DEF Extends, Lengthens
<1>3. log'.stable <= Len(disk.log)
  BY DEF StoredInOrder, Extends
<1>4. \A k \in Kind, q \in Peer :
         staged'[k][q] = IF k = kind /\ q = p
                         THEN Stage(hard', log', r, requiresHard, requiredIndex)
                         ELSE staged[k][q]
  BY <1>1, StageReplyEffect DEF Answers
<1>5. ASSUME NEW q \in Peer
      PROVE  PromisesLog(staged'["append"][q], log')
  <2>1. "append" \in Kind
    BY DEF Kind
  <2>2. CASE kind = "append" /\ q = p
    <3>1. staged'["append"][q] = Stage(hard', log', r, requiresHard, requiredIndex)
      BY <2>1, <2>2, <1>4
    <3>2. PromisesLog(Stage(hard', log', r, requiresHard, requiredIndex), log')
      BY <2>2, <1>1, StagedPromise DEF Answers
    <3>3. QED BY <3>1, <3>2
  <2>3. CASE ~(kind = "append" /\ q = p)
    <3>1. staged'["append"][q] = staged["append"][q]
      BY <2>1, <2>3, <1>4
    <3>2. staged["append"][q] \in Reply /\ PromisesLog(staged["append"][q], log)
      BY <2>1, <1>1 DEF StoredInOrder
    <3>3. QED BY <3>1, <3>2, <1>1, <1>2, PromiseLonger
  <2>4. QED BY <2>2, <2>3
<1>6. QED BY <1>2, <1>3, <1>5, OrderKept DEF DrainTyped

LEMMA OrderKeptByConfirmation ==
  ASSUME GateTyped, GateTyped', DrainTyped, StoredInOrder, NEW c \in Completion, Confirmed(c)
  PROVE  StoredInOrder'
<1>1. /\ Bounded(log) /\ Bounded(log') /\ staged \in [Kind -> [Peer -> Reply]]
      /\ c.last \in Nat /\ log.stable \in Nat /\ Len(log.entries) \in Nat
  BY BoundedLog, Numbers DEF GateTyped, Completion
<1>2. /\ c \in Range(completions) /\ completions' = Tail(completions) /\ completions # << >>
      /\ c.ok /\ c.last \in log.stable .. Len(log.entries)
      /\ log'.entries = log.entries /\ log'.stable = c.last /\ disk' = disk
      /\ \A k \in Kind, q \in Peer : Released(staged'[k][q], staged[k][q])
  BY DEF Confirmed
<1>3. Lengthens(log', log)
  BY <1>1, <1>2 DEF Lengthens
<1>4. log'.stable <= Len(disk.log)
  BY <1>2 DEF StoredInOrder
<1>5. \A d \in Range(completions') : d \in Range(completions)
  BY <1>2, RangeOfTail DEF GateTyped
<1>6. ASSUME NEW p \in Peer
      PROVE  PromisesLog(staged'["append"][p], log')
  <2> DEFINE r == staged["append"][p]
             s == staged'["append"][p]
  <2>1. r \in Reply /\ PromisesLog(r, log) /\ Released(s, r)
    BY <1>1, <1>2 DEF Kind, StoredInOrder
  <2> HIDE DEF r, s
  <2>2. PromisesLog(r, log')
    BY <2>1, <1>1, <1>3, PromiseLonger
  <2>3. CASE s = r
    BY <2>2, <2>3 DEF s
  <2>4. CASE /\ r.at = "later" /\ Ready(r, log')
             /\ s.fresh = r.fresh /\ s.log = r.log
    <3>1. r.needsIndex <= log'.stable
      BY <2>4 DEF Ready
    <3>2. PromisesLog(s, log')
      BY <2>2, <2>4, <3>1 DEF PromisesLog
    <3>3. QED BY <3>2 DEF s
  <2>5. QED BY <2>1, <2>3, <2>4 DEF Released
<1>7. QED BY <1>2, <1>3, <1>4, <1>5, <1>6, OrderKept DEF DrainTyped

\* A write puts on the disk what the log has at those positions.
LEMMA WrittenHolds ==
  ASSUME NEW w, Shaped(w), disk.log \in Seq(Term1), AcceptsEntries(w),
         NEW l, Bounded(l), Holds(disk.log, l), Continues(w, l, Len(disk.log))
  PROVE  Holds(WithEntries(w), l)
<1> DEFINE d == WithEntries(w)
           a == w.first - 1
           n == Len(l.entries)
<1>1. /\ d \in Seq(Term1) /\ Len(d) \in Nat /\ Len(disk.log) <= Len(d)
      /\ \/ d = disk.log
         \/ /\ Len(d) = a + Len(w.terms) /\ a \in Nat /\ a <= Len(disk.log)
            /\ \A i \in 1 .. Len(d) :
                  d[i] = IF i <= a THEN disk.log[i] ELSE w.terms[i - a]
  BY WrittenEntries
<1>2. /\ n \in Nat /\ Len(disk.log) \in Nat /\ Len(disk.log) <= n
      /\ \A i \in 1 .. Len(disk.log) : disk.log[i] = l.entries[i].term
  BY BoundedLog, LenProperties DEF Holds
<1>3. /\ w.terms \in Seq(Term1) /\ w.last \in Nat /\ w.first \in Nat
      /\ w.terms # << >> => w.last = a + Len(w.terms)
      /\ w.last <= n
      /\ \A k \in 1 .. Len(w.terms) : w.terms[k] = l.entries[w.first + k - 1].term
  BY Numbers DEF Shaped, Work, Term1, Continues
<1>4. Len(w.terms) \in Nat /\ (w.terms = << >> => Len(w.terms) = 0)
  BY <1>3, LenProperties
<1> HIDE DEF d
<1>5. CASE d = disk.log
  BY <1>2, <1>5 DEF Holds, d
<1>6. CASE d # disk.log
  <2>1. /\ Len(d) = a + Len(w.terms) /\ a \in Nat /\ a <= Len(disk.log)
        /\ \A i \in 1 .. Len(d) : d[i] = IF i <= a THEN disk.log[i] ELSE w.terms[i - a]
    BY <1>1, <1>6
  <2> HIDE DEF n
  <2>2. Len(d) <= n
    BY <2>1, <1>2, <1>3, <1>4
  <2>3. ASSUME NEW i \in 1 .. Len(d)
        PROVE  d[i] = l.entries[i].term
    <3>1. CASE i <= a
      <4>1. i \in 1 .. Len(disk.log)
        BY <2>1, <3>1, <1>2
      <4>2. QED BY <2>1, <3>1, <4>1, <1>2
    <3>2. CASE ~(i <= a)
      <4>1. i - a \in 1 .. Len(w.terms)
        BY <2>1, <3>2, <1>1, <1>4
      <4>2. w.first + (i - a) - 1 = i
        BY <2>1, <1>3
      <4>3. d[i] = w.terms[i - a]
        BY <2>1, <3>2
      <4> HIDE DEF a
      <4>4. w.terms[i - a] = l.entries[w.first + (i - a) - 1].term
        BY <4>1, <1>3
      <4>5. QED BY <4>2, <4>3, <4>4
    <3>3. QED BY <3>1, <3>2
  <2>4. Holds(d, l)
    BY <2>2, <2>3 DEF Holds, n
  <2>5. QED BY <2>4 DEF d
<1>7. QED BY <1>5, <1>6

LEMMA OrderKeptByWrite ==
  ASSUME GateTyped, GateTyped', StoredInOrder, NEW ok \in BOOLEAN, Wrote(ok),
         Works' \subseteq Works \cup {NoWork}, log' = log, staged' = staged
  PROVE  StoredInOrder'
<1> DEFINE c == [ok |-> ok, hasHard |-> ok /\ writing.hasHard, last |-> writing.last]
<1>1. /\ completions' = Append(completions, c)
      /\ Len(disk.log) <= Len(disk'.log) /\ (ok => writing.last <= Len(disk'.log))
      /\ \/ disk'.log = disk.log
         \/ AcceptsEntries(writing) /\ disk'.log = WithEntries(writing)
  BY DEF Wrote
<1>2. /\ Bounded(log) /\ disk.log \in Seq(Term1) /\ disk'.log \in Seq(Term1)
      /\ completions \in Seq(Completion) /\ writing \in Works /\ Shaped(writing)
  BY DEF GateTyped, Disk, Works
<1>3. /\ Len(disk.log) \in Nat /\ Len(disk'.log) \in Nat /\ log.stable \in Nat
  BY <1>2, LenProperties, BoundedLog
<1>4. c \in Completion
  BY <1>2 DEF Completion, Shaped, Work
<1>5. c.ok => c.last <= Len(disk'.log)
  BY <1>1
<1> HIDE DEF c
<1>6. Range(completions') = Range(completions) \cup {c}
  BY <1>1, <1>2, <1>4, RangeOfAppend
<1>7. Holds(disk'.log, log)
  BY <1>1, <1>2, WrittenHolds DEF StoredInOrder
<1>8. log'.stable <= Len(disk'.log)
  BY <1>1, <1>3 DEF StoredInOrder
<1>9. ASSUME NEW w \in Works'
      PROVE  Continues(w, log', Len(disk'.log))
  <2>1. CASE w \in Works
    <3>1. Continues(w, log, Len(disk.log))
      BY <2>1 DEF StoredInOrder
    <3>2. w.first \in Nat
      BY <2>1 DEF GateTyped, Shaped, Work
    <3>3. w.first <= Len(disk'.log) + 1
      BY <3>1, <3>2, <1>1, <1>3 DEF Continues
    <3>4. QED BY <3>1, <3>3 DEF Continues
  <2>2. CASE w = NoWork
    <3>1. Len(log.entries) \in Nat
      BY <1>2, BoundedLog
    <3>2. w.first = 0 /\ w.last = 0 /\ w.terms = << >> /\ Len(w.terms) = 0
      BY <2>2, EmptySeq DEF NoWork
    <3>3. QED BY <3>1, <3>2, <1>3 DEF Continues
  <2>3. QED BY <2>1, <2>2
<1>10. ASSUME NEW d \in Range(completions'), d.ok
       PROVE  d.last <= Len(disk'.log)
  <2>1. CASE d = c
    BY <2>1, <1>5, <1>10
  <2>2. CASE d \in Range(completions)
    <3>0. d \in Completion
      BY <2>2, <1>2, MembersOfSeq
    <3>1. d.last \in Nat
      BY <3>0, Numbers DEF Completion
    <3>2. d.last <= Len(disk.log)
      BY <2>2, <1>10 DEF StoredInOrder
    <3>3. QED BY <3>1, <3>2, <1>1, <1>3
  <2>3. QED BY <2>1, <2>2, <1>6
<1>11. QED BY <1>7, <1>8, <1>9, <1>10 DEF StoredInOrder

----------------------------------------------------------------------------
\* The hard state, while no request comes before the writes of the last one
\* are over.

\* A reply that promises a vote promises one of the hard state h, and if it has
\* been released one of the stored hard state s.
PromisesVote(r, h, s) ==
    r.fresh => /\ r.hard.vote # Nobody /\ Covers(h, r.hard)
               /\ \/ r.at = "later" /\ r.needsHard
                  \/ Covers(s, r.hard)

WrittenOneByOne ==
    /\ Covers(hard, marked) /\ Covers(disk.hard, marked)
    /\ \A w \in Works : w.hasHard => w.hard = hard
    /\ \A c \in Range(completions) : c.hasHard => disk.hard = hard
    /\ \A p \in Peer : PromisesVote(staged["vote"][p], hard, disk.hard)

LEMMA HardTyped ==
  ASSUME GateTyped
  PROVE  /\ hard \in Hard /\ marked \in Hard /\ disk.hard \in Hard
         /\ staged \in [Kind -> [Peer -> Reply]]
         /\ \A p \in Peer : staged["vote"][p] \in Reply /\ staged["vote"][p].hard \in Hard
  BY DEF GateTyped, Disk, Kind, Reply

\* A later hard state covers what the one before it did.
LEMMA PromiseCarried ==
  ASSUME NEW r \in Reply, NEW h \in Hard, NEW g \in Hard, NEW s \in Hard,
         PromisesVote(r, h, s), Covers(g, h)
  PROVE  PromisesVote(r, g, s)
<1>1. r.hard \in Hard
  BY DEF Reply
<1>2. r.fresh => Covers(g, r.hard)
  BY <1>1, CoversTransitive DEF PromisesVote
<1>3. QED BY <1>2 DEF PromisesVote

\* Nothing is under way: no piece of work is held anywhere.
LEMMA Quiet ==
  ASSUME GateTyped, ~UnderWay
  PROVE  Works = {NoWork} /\ Range(completions) = {}
<1>1. queue = << >> /\ writing = NoWork /\ completions = << >>
  BY DEF UnderWay
<1>2. Range(<< >>) = {}
  BY DEF Range
<1>3. QED BY <1>1, <1>2 DEF Works

\* A drain queues the hard state of now.
LEMMA DrainedHard ==
  ASSUME GateTyped', DrainTyped, \A w \in Works : w.hasHard => w.hard = hard'
  PROVE  \A w \in Works' : w.hasHard => w.hard = hard'
<1>1. hard' \in Hard /\ Bounded(log')
  BY DEF GateTyped
<1>2. LET w == WorkOf(hard', marked', log') IN w.hasHard => w.hard = hard'
  BY <1>1, WorkOfLog
<1>3. QED BY <1>2 DEF DrainTyped

LEMMA OneByOneAfterAnswer ==
  ASSUME GateTyped, GateTyped', DrainTyped, WrittenOneByOne, Handled, ~overlapped',
         Covers(hard', hard),
         NEW kind, NEW p, NEW r, NEW requiresHard, NEW requiredIndex,
         Answers(kind, p, r, requiresHard, requiredIndex), requiresHard <=> hard' # hard,
         kind = "vote" =>
            (r.fresh => r.hard = hard' /\ hard' # hard /\ hard'.vote # Nobody)
  PROVE  WrittenOneByOne'
<1>1. /\ ~UnderWay /\ hard = marked
      /\ marked' = marked /\ disk' = disk /\ completions' = completions
  BY DEF Handled, NeedsPersistence
<1>2. Works = {NoWork} /\ Range(completions) = {} /\ ~NoWork.hasHard
  BY <1>1, Quiet, NoWorkShaped
<1>3. /\ hard \in Hard /\ hard' \in Hard /\ marked \in Hard /\ disk.hard \in Hard
      /\ staged \in [Kind -> [Peer -> Reply]]
      /\ \A q \in Peer : staged["vote"][q] \in Reply
  BY HardTyped DEF GateTyped
<1>4. Covers(hard', marked') /\ Covers(disk'.hard, marked')
  BY <1>1, <1>3 DEF WrittenOneByOne
<1>5. \A w \in Works' : w.hasHard => w.hard = hard'
  BY <1>2, DrainedHard
<1>6. \A c \in Range(completions') : c.hasHard => disk'.hard = hard'
  BY <1>1, <1>2
<1>7. \A k \in Kind, q \in Peer :
         staged'[k][q] = IF k = kind /\ q = p
                         THEN Stage(hard', log', r, requiresHard, requiredIndex)
                         ELSE staged[k][q]
  BY <1>3, StageReplyEffect DEF Answers
<1>8. ASSUME NEW q \in Peer
      PROVE  PromisesVote(staged'["vote"][q], hard', disk'.hard)
  <2>1. "vote" \in Kind
    BY DEF Kind
  <2>2. CASE kind = "vote" /\ q = p
    <3> DEFINE s == Stage(hard', log', r, requiresHard, requiredIndex)
    <3>1. staged'["vote"][q] = s
      BY <2>1, <2>2, <1>7
    <3>2. /\ s.fresh = r.fresh /\ s.hard = r.hard
          /\ s.at = IF requiredIndex > log'.stable \/ (requiresHard /\ hard' # marked)
                    THEN "later" ELSE "now"
          /\ s.needsHard = (requiresHard /\ hard' # marked)
      BY StageEffect DEF Answers
    <3> HIDE DEF s
    <3>3. ASSUME s.fresh
          PROVE  /\ s.hard = hard' /\ hard'.vote # Nobody
                 /\ s.at = "later" /\ s.needsHard
      BY <3>2, <3>3, <2>2, <1>1
    <3>4. Covers(hard', hard')
      BY DEF Covers
    <3>5. PromisesVote(s, hard', disk'.hard)
      BY <3>3, <3>4 DEF PromisesVote
    <3>6. QED BY <3>1, <3>5
  <2>3. CASE ~(kind = "vote" /\ q = p)
    <3>1. staged'["vote"][q] = staged["vote"][q]
      BY <2>1, <2>3, <1>7
    <3>2. staged["vote"][q] \in Reply /\ PromisesVote(staged["vote"][q], hard, disk.hard)
      BY <1>3 DEF WrittenOneByOne
    <3>3. PromisesVote(staged["vote"][q], hard', disk.hard)
      BY <3>2, <1>3, PromiseCarried
    <3>4. QED BY <3>1, <3>3, <1>1
  <2>4. QED BY <2>2, <2>3
<1>9. QED BY <1>4, <1>5, <1>6, <1>8 DEF WrittenOneByOne

\* A step in which the hard state moves on by itself: an election, a failed
\* handler, or none of them.
LEMMA OneByOneKept ==
  ASSUME GateTyped, GateTyped', WrittenOneByOne, Covers(hard', hard),
         marked' = marked, staged' = staged, disk' = disk,
         \A w \in Works' : w.hasHard => w.hard = hard',
         \A c \in Range(completions') : c.hasHard => disk.hard = hard'
  PROVE  WrittenOneByOne'
<1>1. /\ hard \in Hard /\ hard' \in Hard /\ marked \in Hard /\ disk.hard \in Hard
      /\ \A q \in Peer : staged["vote"][q] \in Reply
  BY HardTyped DEF GateTyped
<1>2. Covers(hard', marked') /\ Covers(disk'.hard, marked')
  BY <1>1, CoversTransitive DEF WrittenOneByOne
<1>3. \A q \in Peer : PromisesVote(staged["vote"][q], hard', disk.hard)
  BY <1>1, PromiseCarried DEF WrittenOneByOne
<1>4. QED BY <1>2, <1>3 DEF WrittenOneByOne

LEMMA OneByOneAfterFail ==
  ASSUME GateTyped, GateTyped', WrittenOneByOne, ~overlapped',
         NEW p \in Peer, NEW t \in 1 .. MaxTerm, NEW prev, NEW prevTerm, NEW terms,
         FailAppend(p, t, prev, prevTerm, terms), Covers(hard', hard)
  PROVE  WrittenOneByOne'
<1>1. /\ ~UnderWay /\ marked' = marked /\ disk' = disk /\ completions' = completions
      /\ staged' = staged /\ queue' = queue /\ writing' = writing
  BY DEF FailAppend, Handled
<1>2. Works = {NoWork} /\ Range(completions) = {} /\ ~NoWork.hasHard
  BY <1>1, Quiet, NoWorkShaped
<1>3. Works' = Works
  BY <1>1 DEF Works
<1>4. QED BY <1>1, <1>2, <1>3, OneByOneKept

LEMMA OneByOneAfterTick ==
  ASSUME GateTyped, GateTyped', DrainTyped, WrittenOneByOne, ~overlapped',
         NEW elects \in BOOLEAN, Tick(elects), Covers(hard', hard), ~elects => hard' = hard
  PROVE  WrittenOneByOne'
<1>1. /\ elects => ~UnderWay
      /\ marked' = marked /\ disk' = disk /\ completions' = completions /\ staged' = staged
  BY DEF Tick
<1>2. /\ \A w \in Works : w.hasHard => w.hard = hard'
      /\ \A c \in Range(completions) : c.hasHard => disk.hard = hard'
  <2>1. CASE elects
    BY <2>1, <1>1, Quiet, NoWorkShaped
  <2>2. CASE ~elects
    BY <2>2 DEF WrittenOneByOne
  <2>3. QED BY <2>1, <2>2
<1>3. \A w \in Works' : w.hasHard => w.hard = hard'
  BY <1>2, DrainedHard
<1>4. QED BY <1>1, <1>2, <1>3, OneByOneKept

LEMMA OneByOneQuietly ==
  ASSUME GateTyped, GateTyped', WrittenOneByOne, hard' = hard, marked' = marked,
         staged' = staged, disk' = disk, Works' \subseteq Works,
         Range(completions') \subseteq Range(completions)
  PROVE  WrittenOneByOne'
<1>1. Covers(hard', hard)
  BY DEF Covers
<1>2. /\ \A w \in Works' : w.hasHard => w.hard = hard'
      /\ \A c \in Range(completions') : c.hasHard => disk.hard = hard'
  BY DEF WrittenOneByOne
<1>3. QED BY <1>1, <1>2, OneByOneKept

LEMMA OneByOneAfterWrite ==
  ASSUME GateTyped, GateTyped', WrittenOneByOne, NEW ok \in BOOLEAN, Wrote(ok),
         Works' \subseteq Works \cup {NoWork},
         hard' = hard, marked' = marked, staged' = staged
  PROVE  WrittenOneByOne'
<1> DEFINE c == [ok |-> ok, hasHard |-> ok /\ writing.hasHard, last |-> writing.last]
<1>1. /\ completions' = Append(completions, c)
      /\ disk'.hard = IF ok /\ writing.hasHard THEN writing.hard ELSE disk.hard
  BY DEF Wrote
<1>2. writing \in Works /\ Shaped(writing) /\ completions \in Seq(Completion)
  BY DEF GateTyped, Works
<1>3. c \in Completion
  BY <1>2 DEF Completion, Shaped, Work
<1>4. ok /\ writing.hasHard => disk'.hard = hard
  BY <1>1, <1>2 DEF WrittenOneByOne
<1>5. disk'.hard \in {disk.hard, hard}
  BY <1>1, <1>4
<1>6. Range(completions') = Range(completions) \cup {c}
  <2> HIDE DEF c
  <2>1. QED BY <1>1, <1>2, <1>3, RangeOfAppend
<1>7. \A d \in Range(completions') : d.hasHard => disk'.hard = hard
  <2>1. c.hasHard => disk'.hard = hard
    BY <1>4
  <2> HIDE DEF c
  <2>2. \A d \in Range(completions) : d.hasHard => disk'.hard = hard
    BY <1>5 DEF WrittenOneByOne
  <2>3. QED BY <2>1, <2>2, <1>6
<1>8. \A w \in Works' : w.hasHard => w.hard = hard
  BY NoWorkShaped DEF WrittenOneByOne
<1>9. Covers(hard, marked) /\ Covers(disk'.hard, marked)
  BY <1>5 DEF WrittenOneByOne
<1>10. \A q \in Peer : PromisesVote(staged["vote"][q], hard, disk'.hard)
  BY <1>5 DEF WrittenOneByOne, PromisesVote
<1>11. QED BY <1>7, <1>8, <1>9, <1>10 DEF WrittenOneByOne

LEMMA OneByOneAfterConfirmation ==
  ASSUME GateTyped, GateTyped', DrainTyped, WrittenOneByOne,
         NEW c \in Completion, Confirmed(c)
  PROVE  WrittenOneByOne'
<1>1. /\ c \in Range(completions) /\ completions' = Tail(completions) /\ completions # << >>
      /\ hard' = hard /\ marked' = IF c.hasHard THEN hard ELSE marked
      /\ disk' = disk
      /\ \A k \in Kind, q \in Peer : Released(staged'[k][q], staged[k][q])
  BY DEF Confirmed
<1>2. /\ hard \in Hard /\ marked \in Hard /\ marked' \in Hard /\ disk.hard \in Hard
      /\ \A q \in Peer : staged["vote"][q] \in Reply /\ staged["vote"][q].hard \in Hard
  BY HardTyped DEF GateTyped
<1>3. Covers(hard, marked') /\ Covers(disk.hard, marked')
  <2>1. Covers(hard, hard)
    BY DEF Covers
  <2>2. c.hasHard => disk.hard = hard
    BY <1>1 DEF WrittenOneByOne
  <2>3. QED BY <2>1, <2>2, <1>1 DEF WrittenOneByOne
<1>4. \A w \in Works' : w.hasHard => w.hard = hard'
  BY <1>1, DrainedHard DEF WrittenOneByOne
<1>5. \A d \in Range(completions') : d.hasHard => disk.hard = hard
  BY <1>1, RangeOfTail DEF GateTyped, WrittenOneByOne
<1>6. ASSUME NEW q \in Peer
      PROVE  PromisesVote(staged'["vote"][q], hard, disk.hard)
  <2> DEFINE r == staged["vote"][q]
             s == staged'["vote"][q]
  <2>1. PromisesVote(r, hard, disk.hard) /\ Released(s, r) /\ r.hard \in Hard
    BY <1>1, <1>2 DEF Kind, WrittenOneByOne
  <2> HIDE DEF r, s
  <2>2. CASE s = r
    BY <2>1, <2>2 DEF s
  <2>3. CASE Ready(r, log') /\ s.fresh = r.fresh /\ s.hard = r.hard
    <3>1. r.needsHard => hard = marked'
      BY <2>3 DEF Ready
    <3>2. r.needsHard => Covers(disk.hard, hard)
      BY <3>1, <1>3
    <3>3. ASSUME s.fresh
          PROVE  /\ s.hard.vote # Nobody /\ Covers(hard, s.hard) /\ Covers(disk.hard, s.hard)
      <4>1. /\ r.hard.vote # Nobody /\ Covers(hard, r.hard)
            /\ r.needsHard \/ Covers(disk.hard, r.hard)
        BY <3>3, <2>1, <2>3 DEF PromisesVote
      <4>2. Covers(disk.hard, r.hard)
        BY <4>1, <3>2, <2>1, <1>2, CoversTransitive
      <4>3. QED BY <4>1, <4>2, <2>3
    <3>4. PromisesVote(s, hard, disk.hard)
      BY <3>3 DEF PromisesVote
    <3>5. QED BY <3>4 DEF s
  <2>4. QED BY <2>1, <2>2, <2>3 DEF Released
<1>7. QED BY <1>1, <1>3, <1>4, <1>5, <1>6 DEF WrittenOneByOne

----------------------------------------------------------------------------
\* The inductive invariant.

GateInductive ==
    /\ GateTyped
    /\ ~cut => StoredInOrder
    /\ ~overlapped => WrittenOneByOne

LEMMA GateInductiveInit ==
  ASSUME Init
  PROVE  GateInductive
<1>1. GateTyped
  BY GateTypedInit
<1>2. /\ hard = NoHard /\ marked = NoHard /\ log = EmptyLog
      /\ staged = [k \in Kind |-> [p \in Peer |-> NoReply]]
      /\ queue = << >> /\ writing = NoWork /\ completions = << >>
      /\ disk = [hard |-> NoHard, log |-> << >>]
  BY DEF Init
<1>3. /\ "vote" \in Kind /\ "append" \in Kind /\ ~NoReply.fresh
  BY NoReplyTyped DEF Kind
<1>4. Works = {NoWork} /\ Range(completions) = {}
  BY <1>1, <1>2, Quiet DEF UnderWay
<1>5. \A p \in Peer : ~staged["vote"][p].fresh /\ ~staged["append"][p].fresh
  BY <1>2, <1>3
<1>6. /\ Len(disk.log) = 0 /\ log.stable = 0 /\ Len(log.entries) = 0
  BY <1>2, EmptySeq DEF EmptyLog
<1>7. Continues(NoWork, log, Len(disk.log))
  <2>1. NoWork.first = 0 /\ NoWork.last = 0 /\ Len(NoWork.terms) = 0
    BY EmptySeq DEF NoWork
  <2>2. QED BY <2>1, <1>6 DEF Continues
<1>8. StoredInOrder
  BY <1>4, <1>5, <1>6, <1>7 DEF StoredInOrder, Holds, PromisesLog
<1>9. WrittenOneByOne
  BY <1>2, <1>4, <1>5, NoWorkShaped DEF WrittenOneByOne, Covers, PromisesVote
<1>10. QED BY <1>1, <1>8, <1>9 DEF GateInductive

\* A request that is answered, whichever it is.
LEMMA AnswerStep ==
  ASSUME GateInductive, Handled, DrainCoreOutput,
         hard' \in Hard, Bounded(log'), hard'.commit = log'.commit, cut' \in BOOLEAN,
         Covers(hard', hard), ~cut' => ~cut /\ Extends(log', log),
         NEW kind, NEW p, NEW r, NEW requiresHard, NEW requiredIndex,
         Answers(kind, p, r, requiresHard, requiredIndex), requiresHard <=> hard' # hard,
         kind = "append" => (r.fresh => r.log = Terms(log') /\ requiredIndex = Len(log'.entries)),
         kind = "vote" => (r.fresh => r.hard = hard' /\ hard' # hard /\ hard'.vote # Nobody)
  PROVE  GateInductive'
<1>1. GateTyped /\ GateTyped' /\ DrainTyped
  BY AnswerTyped DEF GateInductive
<1>2. disk' = disk /\ completions' = completions /\ (~overlapped' => ~overlapped)
  BY DEF Handled
<1>3. ASSUME ~cut'
      PROVE  StoredInOrder'
  BY <1>1, <1>2, <1>3, OrderKeptByAnswer DEF GateInductive
<1>4. ASSUME ~overlapped'
      PROVE  WrittenOneByOne'
  BY <1>1, <1>2, <1>4, OneByOneAfterAnswer DEF GateInductive
<1>5. QED BY <1>1, <1>3, <1>4 DEF GateInductive

LEMMA ExtendsItself ==
  ASSUME Bounded(log), log' = log
  PROVE  Extends(log', log)
<1>1. Len(log.entries) \in Nat
  BY BoundedLog
<1>2. QED BY <1>1 DEF Extends

LEMMA VoteStep ==
  ASSUME GateInductive, NEW p \in Peer, NEW t \in 1 .. MaxTerm, NEW upToDate \in BOOLEAN,
         HandleRequestVote(p, t, upToDate)
  PROVE  GateInductive'
<1>1. /\ GateTyped /\ hard \in Hard /\ Bounded(log) /\ hard.commit = log.commit /\ cut \in BOOLEAN
  BY DEF GateInductive, GateTyped
<1>2. Handled /\ DrainCoreOutput /\ log' = log /\ cut' = cut
  BY DEF HandleRequestVote
<1>3. /\ hard' \in Hard /\ hard'.commit = hard.commit /\ Covers(hard', hard)
      /\ \E r \in Reply :
            /\ Answers("vote", p, r, hard' # hard, 0)
            /\ r.fresh => r.hard = hard' /\ hard' # hard /\ hard'.vote # Nobody
  BY <1>1, VoteEffect
<1>4. PICK r \in Reply :
         /\ Answers("vote", p, r, hard' # hard, 0)
         /\ r.fresh => r.hard = hard' /\ hard' # hard /\ hard'.vote # Nobody
  BY <1>3
<1>5. Bounded(log') /\ hard'.commit = log'.commit /\ cut' \in BOOLEAN
      /\ (~cut' => ~cut /\ Extends(log', log))
  BY <1>1, <1>2, <1>3, ExtendsItself
<1>6. QED BY <1>2, <1>3, <1>4, <1>5, AnswerStep

LEMMA RejectStep ==
  ASSUME GateInductive, NEW p \in Peer, NEW t \in 1 .. MaxTerm, RejectAppend(p, t)
  PROVE  GateInductive'
<1>1. /\ GateTyped /\ hard \in Hard /\ Bounded(log) /\ hard.commit = log.commit /\ cut \in BOOLEAN
  BY DEF GateInductive, GateTyped
<1>2. Handled /\ DrainCoreOutput /\ log' = log /\ cut' = cut
  BY DEF RejectAppend
<1>3. /\ hard' \in Hard /\ hard'.commit = hard.commit /\ Covers(hard', hard)
      /\ Answers("append", p, NoReply, hard' # hard, 0) /\ ~NoReply.fresh
  BY <1>1, RejectEffect, NoReplyTyped
<1>4. Bounded(log') /\ hard'.commit = log'.commit /\ cut' \in BOOLEAN
      /\ (~cut' => ~cut /\ Extends(log', log))
  BY <1>1, <1>2, <1>3, ExtendsItself
<1>5. QED BY <1>2, <1>3, <1>4, AnswerStep

LEMMA AcceptStep ==
  ASSUME GateInductive, NEW p \in Peer, NEW t \in 1 .. MaxTerm, NEW prev \in 0 .. MaxIndex,
         NEW prevTerm \in 0 .. t, NEW terms \in TermsUpTo(t, prev, prevTerm),
         NEW commit \in {0, prev + Len(terms)},
         AcceptAppend(p, t, prev, prevTerm, terms, commit)
  PROVE  GateInductive'
<1>1. /\ GateTyped /\ hard \in Hard /\ Bounded(log) /\ cut \in BOOLEAN
  BY DEF GateInductive, GateTyped
<1>2. Handled /\ DrainCoreOutput
  BY DEF AcceptAppend
<1>3. /\ hard' \in Hard /\ Bounded(log') /\ hard'.commit = log'.commit
      /\ Covers(hard', hard)
      /\ cut' \in BOOLEAN /\ (~cut' => ~cut /\ Extends(log', log))
      /\ \E r \in Reply, i \in Nat :
            /\ Answers("append", p, r, hard' # hard, i)
            /\ r.fresh => r.log = Terms(log') /\ i = Len(log'.entries)
  BY <1>1, AcceptEffect
<1>4. PICK r \in Reply, i \in Nat :
         /\ Answers("append", p, r, hard' # hard, i)
         /\ r.fresh => r.log = Terms(log') /\ i = Len(log'.entries)
  BY <1>3
<1>5. QED BY <1>2, <1>3, <1>4, AnswerStep

LEMMA FailStep ==
  ASSUME GateInductive, NEW p \in Peer, NEW t \in 1 .. MaxTerm, NEW prev, NEW prevTerm, NEW terms,
         FailAppend(p, t, prev, prevTerm, terms)
  PROVE  GateInductive'
<1>1. GateTyped /\ GateTyped' /\ Covers(hard', hard)
  BY FailTyped DEF GateInductive
<1>2. /\ log' = log /\ staged' = staged /\ disk' = disk /\ completions' = completions
      /\ queue' = queue /\ writing' = writing /\ cut' = cut
      /\ (~overlapped' => ~overlapped)
  BY DEF FailAppend, Handled
<1>3. Works' = Works
  BY <1>2 DEF Works
<1>4. ASSUME ~cut'
      PROVE  StoredInOrder'
  BY <1>1, <1>2, <1>3, <1>4, OrderKeptQuietly DEF GateInductive
<1>5. ASSUME ~overlapped'
      PROVE  WrittenOneByOne'
  BY <1>1, <1>2, <1>5, OneByOneAfterFail DEF GateInductive
<1>6. QED BY <1>1, <1>4, <1>5 DEF GateInductive

LEMMA TickStep ==
  ASSUME GateInductive, NEW elects \in BOOLEAN, Tick(elects)
  PROVE  GateInductive'
<1>1. /\ GateTyped /\ GateTyped' /\ DrainTyped
      /\ Covers(hard', hard) /\ (~elects => hard' = hard)
  BY TickTyped DEF GateInductive
<1>2. /\ log' = log /\ staged' = staged /\ disk' = disk /\ completions' = completions
      /\ cut' = cut /\ (~overlapped' => ~overlapped)
  BY DEF Tick
<1>3. ASSUME ~cut'
      PROVE  StoredInOrder'
  BY <1>1, <1>2, <1>3, OrderKeptQuietly DEF GateInductive, DrainTyped
<1>4. ASSUME ~overlapped'
      PROVE  WrittenOneByOne'
  BY <1>1, <1>2, <1>4, OneByOneAfterTick DEF GateInductive
<1>5. QED BY <1>1, <1>3, <1>4 DEF GateInductive

LEMMA WriteStep ==
  ASSUME GateInductive, Write
  PROVE  GateInductive'
<1>1. GateTyped /\ GateTyped' /\ Works' \subseteq Works \cup {NoWork}
  BY WriteTyped DEF GateInductive
<1>2. PICK ok \in BOOLEAN : Wrote(ok)
  BY WriteTyped DEF GateInductive
<1>3. /\ log' = log /\ staged' = staged /\ hard' = hard /\ marked' = marked
      /\ cut' = cut /\ overlapped' = overlapped
  BY DEF Write, core, ghosts
<1>4. ASSUME ~cut'
      PROVE  StoredInOrder'
  BY <1>1, <1>2, <1>3, <1>4, OrderKeptByWrite DEF GateInductive
<1>5. ASSUME ~overlapped'
      PROVE  WrittenOneByOne'
  BY <1>1, <1>2, <1>3, <1>5, OneByOneAfterWrite DEF GateInductive
<1>6. QED BY <1>1, <1>4, <1>5 DEF GateInductive

LEMMA ConfirmStep ==
  ASSUME GateInductive, PersistenceConfirmed
  PROVE  GateInductive'
<1>1. GateTyped /\ GateTyped' /\ DrainTyped
  BY ConfirmTyped DEF GateInductive
<1>2. PICK c \in Completion : Confirmed(c)
  BY ConfirmTyped DEF GateInductive
<1>3. cut' = cut /\ overlapped' = overlapped
  BY <1>2 DEF Confirmed
<1>4. ASSUME ~cut'
      PROVE  StoredInOrder'
  BY <1>1, <1>2, <1>3, <1>4, OrderKeptByConfirmation DEF GateInductive
<1>5. ASSUME ~overlapped'
      PROVE  WrittenOneByOne'
  BY <1>1, <1>2, <1>3, <1>5, OneByOneAfterConfirmation DEF GateInductive
<1>6. QED BY <1>1, <1>4, <1>5 DEF GateInductive

\* Steps that change nothing but who holds the work.
LEMMA QuietStep ==
  ASSUME GateInductive, TakeWork \/ PersistenceRefused \/ UNCHANGED vars
  PROVE  GateInductive'
<1>1. /\ hard' = hard /\ marked' = marked /\ log' = log /\ staged' = staged /\ disk' = disk
      /\ cut' = cut /\ overlapped' = overlapped
  BY DEF TakeWork, PersistenceRefused, vars, core, ghosts
<1>2. /\ GateTyped' /\ Works' \subseteq Works
      /\ Range(completions') \subseteq Range(completions)
  <2>1. CASE TakeWork
    BY <2>1, TakeTyped DEF GateInductive, TakeWork
  <2>2. CASE PersistenceRefused
    BY <2>2, RefusedTyped DEF GateInductive
  <2>3. CASE UNCHANGED vars
    BY <2>3, StutterTyped DEF GateInductive, vars
  <2>4. QED BY <2>1, <2>2, <2>3
<1>3. ASSUME ~cut'
      PROVE  StoredInOrder'
  BY <1>1, <1>2, <1>3, OrderKeptQuietly DEF GateInductive
<1>4. ASSUME ~overlapped'
      PROVE  WrittenOneByOne'
  BY <1>1, <1>2, <1>4, OneByOneQuietly DEF GateInductive
<1>5. QED BY <1>2, <1>3, <1>4 DEF GateInductive

LEMMA GateInductiveStep ==
  ASSUME GateInductive, [Next]_vars
  PROVE  GateInductive'
<1>1. ASSUME NEW p \in Peer, NEW t \in 1 .. MaxTerm,
             \/ \E upToDate \in BOOLEAN : HandleRequestVote(p, t, upToDate)
             \/ RejectAppend(p, t)
             \/ \E prev \in 0 .. MaxIndex, prevTerm \in 0 .. t :
                   \E terms \in TermsUpTo(t, prev, prevTerm) :
                       \/ FailAppend(p, t, prev, prevTerm, terms)
                       \/ \E commit \in {0, prev + Len(terms)} :
                             AcceptAppend(p, t, prev, prevTerm, terms, commit)
      PROVE  GateInductive'
  <2>1. ASSUME NEW upToDate \in BOOLEAN, HandleRequestVote(p, t, upToDate)
        PROVE  GateInductive'
    BY <2>1, VoteStep
  <2>2. ASSUME RejectAppend(p, t)
        PROVE  GateInductive'
    BY <2>2, RejectStep
  <2>3. ASSUME NEW prev \in 0 .. MaxIndex, NEW prevTerm \in 0 .. t,
               NEW terms \in TermsUpTo(t, prev, prevTerm),
               FailAppend(p, t, prev, prevTerm, terms)
        PROVE  GateInductive'
    BY <2>3, FailStep
  <2>4. ASSUME NEW prev \in 0 .. MaxIndex, NEW prevTerm \in 0 .. t,
               NEW terms \in TermsUpTo(t, prev, prevTerm),
               NEW commit \in {0, prev + Len(terms)},
               AcceptAppend(p, t, prev, prevTerm, terms, commit)
        PROVE  GateInductive'
    BY <2>4, AcceptStep
  <2>5. QED BY <1>1, <2>1, <2>2, <2>3, <2>4
<1>2. ASSUME NEW elects \in BOOLEAN, Tick(elects)
      PROVE  GateInductive'
  BY <1>2, TickStep
<1>3. CASE Write
  BY <1>3, WriteStep
<1>4. CASE PersistenceConfirmed
  BY <1>4, ConfirmStep
<1>5. CASE TakeWork \/ PersistenceRefused \/ UNCHANGED vars
  BY <1>5, QuietStep
<1>6. QED BY <1>1, <1>2, <1>3, <1>4, <1>5 DEF Next

LEMMA GateInductiveAlways == Spec => []GateInductive
<1>1. Init => GateInductive
  BY GateInductiveInit
<1>2. GateInductive /\ [Next]_vars => GateInductive'
  BY GateInductiveStep
<1>3. QED BY <1>1, <1>2, PTL DEF Spec

----------------------------------------------------------------------------
\* What the checked properties say.

\* Equal prefixes, entry by entry.
LEMMA EqualPrefix ==
  ASSUME NEW S, NEW s \in Seq(S), NEW t \in Seq(S), NEW n \in Nat,
         n <= Len(s), n <= Len(t), \A i \in 1 .. n : s[i] = t[i]
  PROVE  SubSeq(s, 1, n) = SubSeq(t, 1, n)
<1>1. Len(s) \in Nat /\ Len(t) \in Nat
  BY LenProperties
<1>2. /\ SubSeq(s, 1, n) \in Seq(S) /\ Len(SubSeq(s, 1, n)) = n
      /\ \A i \in 1 .. n : SubSeq(s, 1, n)[i] = s[i]
  <2>1. \A i \in 1 .. n : s[i] \in S
    BY <1>1, ElementOfSeq
  <2>2. /\ SubSeq(s, 1, n) \in Seq(S)
        /\ Len(SubSeq(s, 1, n)) = IF 1 <= n THEN n - 1 + 1 ELSE 0
        /\ \A i \in 1 .. n - 1 + 1 : SubSeq(s, 1, n)[i] = s[1 + i - 1]
    BY <2>1, SubSeqProperties
  <2>3. n - 1 + 1 = n /\ \A i \in 1 .. n : 1 + i - 1 = i
    OBVIOUS
  <2>4. QED BY <2>2, <2>3
<1>3. /\ SubSeq(t, 1, n) \in Seq(S) /\ Len(SubSeq(t, 1, n)) = n
      /\ \A i \in 1 .. n : SubSeq(t, 1, n)[i] = t[i]
  <2>1. \A i \in 1 .. n : t[i] \in S
    BY <1>1, ElementOfSeq
  <2>2. /\ SubSeq(t, 1, n) \in Seq(S)
        /\ Len(SubSeq(t, 1, n)) = IF 1 <= n THEN n - 1 + 1 ELSE 0
        /\ \A i \in 1 .. n - 1 + 1 : SubSeq(t, 1, n)[i] = t[1 + i - 1]
    BY <2>1, SubSeqProperties
  <2>3. n - 1 + 1 = n /\ \A i \in 1 .. n : 1 + i - 1 = i
    OBVIOUS
  <2>4. QED BY <2>2, <2>3
<1>4. QED BY <1>2, <1>3, SeqEqual

\* Every variable has its type: the log satisfies ValidateInvariants, and the
\* commit index of the stored hard state is that of an entry the disk has.
THEOREM GateTypeCorrect == Spec => []TypeOK
<1>1. GateTyped => TypeOK
  <2> SUFFICES ASSUME GateTyped
               PROVE  TypeOK
    OBVIOUS
  <2>1. log \in LogRecord /\ ValidateInvariants(log)
    BY DEF GateTyped, Bounded, Plain, WellFormed
  <2>2. \A k \in Kind, p \in Peer : staged[k][p].at \in {"none", "now", "later"}
    BY DEF GateTyped, Reply
  <2>3. writing \in Work /\ disk.hard \in Hard
    BY DEF GateTyped, Works, Shaped, Disk
  <2>4. QED BY <2>1, <2>2, <2>3 DEF GateTyped, TypeOK
<1>2. GateInductive => TypeOK
  BY <1>1 DEF GateInductive
<1>3. QED BY <1>2, GateInductiveAlways, PTL

\* What the core counts as stable is on the disk, position by position, however
\* the writes repeat, overlap and fail, until a conflict cuts the log.
THEOREM StableIsStored == Spec => []StableIsStoredUnlessCut
<1>1. GateInductive => StableIsStoredUnlessCut
  <2> SUFFICES ASSUME GateInductive, ~cut
               PROVE  /\ log.stable <= Len(disk.log)
                      /\ SubSeq(Terms(log), 1, log.stable) = SubSeq(disk.log, 1, log.stable)
    BY DEF StableIsStoredUnlessCut
  <2> DEFINE d == disk.log
             n == log.stable
             ts == Terms(log)
  <2>1. /\ Bounded(log) /\ d \in Seq(Term1) /\ Holds(d, log) /\ n <= Len(d)
    BY DEF GateInductive, GateTyped, Disk, StoredInOrder
  <2>2. /\ ts \in Seq(Term1) /\ Len(ts) = Len(log.entries)
        /\ \A i \in 1 .. Len(log.entries) : ts[i] = log.entries[i].term
    BY <2>1, TermsOfLog
  <2>3. n \in Nat /\ Len(log.entries) \in Nat /\ n <= Len(log.entries) /\ Len(d) \in Nat
    BY <2>1, BoundedLog, LenProperties
  <2>4. \A i \in 1 .. n : d[i] = log.entries[i].term
    BY <2>1, <2>3 DEF Holds
  <2> HIDE DEF d, n, ts
  <2>5. \A i \in 1 .. n : ts[i] = d[i]
    BY <2>2, <2>3, <2>4
  <2>6. n <= Len(ts) /\ n <= Len(d)
    BY <2>1, <2>2, <2>3
  <2>7. SubSeq(ts, 1, n) = SubSeq(d, 1, n)
    BY <2>1, <2>2, <2>3, <2>5, <2>6, EqualPrefix
  <2>8. QED BY <2>6, <2>7 DEF d, n, ts
<1>2. QED BY <1>1, GateInductiveAlways, PTL

\* A released success promises entries that are on the disk, if its own request
\* brought them and no conflict has cut the log.
THEOREM SuccessIsStored == Spec => []LogPromiseStoredUnlessCut
<1>1. GateInductive => LogPromiseStoredUnlessCut
  <2> SUFFICES ASSUME GateInductive, ~cut, NEW p \in Peer,
                      staged["append"][p].at = "now", staged["append"][p].fresh
               PROVE  /\ Len(staged["append"][p].log) <= Len(disk.log)
                      /\ staged["append"][p].log
                            = SubSeq(disk.log, 1, Len(staged["append"][p].log))
    BY DEF LogPromiseStoredUnlessCut
  <2> DEFINE r == staged["append"][p]
             d == disk.log
             s == r.log
             n == Len(s)
  <2>1. /\ Bounded(log) /\ d \in Seq(Term1) /\ Holds(d, log) /\ log.stable <= Len(d)
        /\ PromisesLog(r, log)
    BY DEF GateInductive, GateTyped, Disk, StoredInOrder
  <2>2. s \in Seq(Term1)
    BY DEF GateInductive, GateTyped, Reply, Kind
  <2>3. Holds(s, log) /\ n <= log.stable
    BY <2>1 DEF PromisesLog
  <2>4. n \in Nat /\ Len(d) \in Nat /\ log.stable \in Nat
    BY <2>1, <2>2, BoundedLog, LenProperties
  <2>5. n <= Len(d)
    BY <2>1, <2>3, <2>4
  <2>6. \A i \in 1 .. n : s[i] = d[i]
    BY <2>1, <2>3, <2>4, <2>5 DEF Holds
  <2> HIDE DEF r, d, s
  <2>7. SubSeq(s, 1, n) = SubSeq(d, 1, n)
    <3> HIDE DEF n
    <3>1. n <= Len(s)
      BY <2>4 DEF n
    <3>2. QED BY <2>1, <2>2, <2>4, <2>5, <2>6, <3>1, EqualPrefix
  <2>8. SubSeq(s, 1, n) = s
    <3>1. n <= Len(s) /\ \A i \in 1 .. n : s[i] \in Term1
      BY <2>2, <2>4, ElementOfSeq
    <3>2. /\ SubSeq(s, 1, n) \in Seq(Term1)
          /\ Len(SubSeq(s, 1, n)) = IF 1 <= n THEN n - 1 + 1 ELSE 0
          /\ \A i \in 1 .. n - 1 + 1 : SubSeq(s, 1, n)[i] = s[1 + i - 1]
      BY <2>2, <2>4, <3>1, SubSeqProperties
    <3>3. n - 1 + 1 = n /\ \A i \in 1 .. n : 1 + i - 1 = i
      BY <2>4
    <3>4. Len(SubSeq(s, 1, n)) = Len(s) /\ \A i \in 1 .. Len(s) : SubSeq(s, 1, n)[i] = s[i]
      BY <2>4, <3>2, <3>3
    <3>5. QED BY <2>2, <3>2, <3>4, SeqEqual
  <2>9. QED BY <2>5, <2>7, <2>8 DEF r, d, s
<1>2. QED BY <1>1, GateInductiveAlways, PTL

\* A released vote is on the disk, or a later term is, as long as no request
\* was handled before the writes of the last one were over.
THEOREM VoteIsStored == Spec => []VotePromiseStoredUnlessOverlap
<1>1. GateInductive => VotePromiseStoredUnlessOverlap
  <2> SUFFICES ASSUME GateInductive, ~overlapped, NEW p \in Peer,
                      staged["vote"][p].at = "now", staged["vote"][p].fresh
               PROVE  VoteStored(staged["vote"][p].hard)
    BY DEF VotePromiseStoredUnlessOverlap
  <2> DEFINE h == staged["vote"][p].hard
  <2>1. PromisesVote(staged["vote"][p], hard, disk.hard)
    BY DEF GateInductive, WrittenOneByOne
  <2>2. h.vote # Nobody /\ Covers(disk.hard, h)
    BY <2>1 DEF PromisesVote
  <2> HIDE DEF h
  <2>3. VoteStored(h)
    BY <2>2 DEF Covers, VoteStored
  <2>4. QED BY <2>3 DEF h
<1>2. QED BY <1>1, GateInductiveAlways, PTL
=============================================================================
