------------------------- MODULE RaftRuntimeProofs -------------------------
(***************************************************************************)
(* Proofs about the node of RaftRuntime: nothing is applied before it is   *)
(* stored, the applied index passes no entry that was not applied, and a   *)
(* caller is told of success only when its command is stored and applied.  *)
(*                                                                         *)
(* The inductive invariant says of everything under way, in the four       *)
(* queues, in the hands of a thread or among the pending proposals, what   *)
(* of the log it stands for and how far the disk and the state machine     *)
(* must have come for it (RuntimeInductive).  The log, the disk and the    *)
(* machine only grow, so what is under way stays true while it waits.      *)
(***************************************************************************)
EXTENDS RaftRuntime, SequenceTheorems, FiniteSetTheorems, TLAPS

Entry == {CommandEntry(p) : p \in Proposal} \cup {ChangeEntry(c) : c \in Change}

Hard == [commit : Nat, config : Nat]

Core == [log : Seq(Entry), stable : Nat, applied : Nat, config : Nat, saved : Hard]

Disk == [entries : Seq(Entry), hard : Hard]

\* s is the first entries of l.
Begins(s, l) ==
    /\ Len(s) <= Len(l)
    /\ \A i \in 1 .. Len(s) : s[i] = l[i]

\* Work for a disk with d entries: entries of the log that leave no gap behind
\* what the disk has.
Work == [entries : Seq(Entry), first : Nat \ {0}, hasHard : BOOLEAN, hard : Hard, last : Nat]

WorkFor(l, d) ==
    {w \in Work :
        /\ w.first <= d + 1
        /\ w.last <= w.first - 1 + Len(w.entries)
        /\ w.first - 1 + Len(w.entries) <= Len(l)
        /\ \A k \in 1 .. Len(w.entries) : w.entries[k] = l[w.first - 1 + k]}

\* An entry to apply, one of the first n of the log; the proposal it carries is
\* the one whose command it is.
ApplyFor(l, n) ==
    {w \in [index : 1 .. n, entry : Entry, id : Proposal \cup {0}] :
        /\ w.entry = l[w.index]
        /\ w.id # 0 => w.entry = CommandEntry(w.id)}

\* A completion of a write names entries that the disk has; one of an apply, a
\* command that the machine has.
PersistedFor(d) ==
    {e \in [kind : {"persisted"}, ok : BOOLEAN, hasHard : BOOLEAN, last : Nat] :
        e.ok => e.last <= d}

AppliedFor(l, n, m) ==
    {e \in [kind : {"applied"}, ok : BOOLEAN, index : 1 .. n, id : Proposal \cup {0}] :
        /\ e.ok /\ l[e.index].kind = "COMMAND" => e.index <= m
        /\ e.id # 0 => l[e.index] = CommandEntry(e.id)}

Request == [kind : {"tick"}] \cup [kind : {"proposal"}, id : Proposal]
              \cup [kind : {"change"}, id : Change]

EventFor(l, n, d, m) == Request \cup PersistedFor(d) \cup AppliedFor(l, n, m)

\* A success of proposal p is told once its command has been applied.
ResultFor(p, done) ==
    {r \in [id : {p}, ok : BOOLEAN] :
        r.ok => \E i \in 1 .. Len(done) : done[i] = CommandEntry(p)}

Pending(pend, l) ==
    \A q \in pend : /\ q[1] \in Proposal /\ q[2] \in 1 .. Len(l)
                    /\ l[q[2]] = CommandEntry(q[1])

StoredInOrder ==
    /\ core \in Core /\ disk \in Disk
    /\ Begins(disk.entries, core.log) /\ core.stable <= Len(disk.entries)
    /\ works \in Seq(WorkFor(core.log, Len(disk.entries)))
    /\ writing \in Seq(WorkFor(core.log, Len(disk.entries)))

AppliedInOrder ==
    /\ machine \in Seq(Entry) /\ scheduled \in Nat
    /\ Begins(machine, core.log) /\ Len(machine) <= core.stable
    /\ \A i \in 1 .. core.applied : core.log[i].kind = "COMMAND" => i <= Len(machine)
    /\ core.applied <= core.stable
    /\ Pending(pending, core.log)
    /\ applies \in Seq(ApplyFor(core.log, core.stable)) /\ Len(applies) <= ApplyCap
    /\ applying \in Seq(ApplyFor(core.log, core.stable))

RuntimeInductive ==
    /\ StoredInOrder
    /\ AppliedInOrder
    /\ events \in Seq(EventFor(core.log, core.stable, Len(disk.entries), Len(machine)))
    /\ \A p \in Proposal : emitted[p] \in Seq(ResultFor(p, machine))

----------------------------------------------------------------------------
\* What is under way stays true while the log, the disk and the machine grow.

LEMMA Numbers ==
  /\ ApplyCap \in Nat /\ PersistCap \in Nat /\ EventCap \in Nat
  /\ ResultCap \in Nat /\ Proposal \subseteq Nat
<1>1. Proposal = 1 .. Cardinality(Proposal) /\ IsFiniteSet(Proposal)
  BY RuntimeAssumption
<1>2. Cardinality(Proposal) \in Nat
  BY <1>1, FS_CardinalityType
<1>3. QED BY <1>1, <1>2, RuntimeAssumption

LEMMA BeginsItself ==
  ASSUME NEW S, NEW s \in Seq(S)
  PROVE  Begins(s, s)
  BY LenProperties DEF Begins

LEMMA WiderWork ==
  ASSUME NEW l \in Seq(Entry), NEW k \in Seq(Entry), Begins(l, k),
         NEW d \in Nat, NEW e \in Nat, d <= e
  PROVE  WorkFor(l, d) \subseteq WorkFor(k, e)
<1> SUFFICES ASSUME NEW w \in WorkFor(l, d)
             PROVE  w \in WorkFor(k, e)
  OBVIOUS
<1> DEFINE a == w.first
           n == Len(w.entries)
<1>1. /\ w \in Work /\ a <= d + 1 /\ w.last <= a - 1 + n /\ a - 1 + n <= Len(l)
      /\ \A i \in 1 .. n : w.entries[i] = l[a - 1 + i]
  BY DEF WorkFor
<1>2. a \in Nat \ {0} /\ w.last \in Nat /\ w.entries \in Seq(Entry)
  BY <1>1 DEF Work
<1>3. n \in Nat /\ Len(l) \in Nat /\ Len(k) \in Nat /\ Len(l) <= Len(k)
  BY <1>2, LenProperties DEF Begins
<1> HIDE DEF a, n
<1>4. a <= e + 1 /\ a - 1 + n <= Len(k)
  BY <1>1, <1>2, <1>3
<1>5. \A i \in 1 .. n : a - 1 + i \in 1 .. Len(l)
  BY <1>1, <1>2, <1>3
<1>6. \A i \in 1 .. n : w.entries[i] = k[a - 1 + i]
  BY <1>1, <1>5 DEF Begins
<1>7. QED BY <1>1, <1>4, <1>6 DEF WorkFor, a, n

LEMMA WiderApply ==
  ASSUME NEW l \in Seq(Entry), NEW k \in Seq(Entry), Begins(l, k),
         NEW n \in Nat, NEW m \in Nat, n <= m, n <= Len(l)
  PROVE  ApplyFor(l, n) \subseteq ApplyFor(k, m)
<1> SUFFICES ASSUME NEW w \in ApplyFor(l, n)
             PROVE  w \in ApplyFor(k, m)
  OBVIOUS
<1>1. /\ w \in [index : 1 .. n, entry : Entry, id : Proposal \cup {0}]
      /\ w.entry = l[w.index] /\ (w.id # 0 => w.entry = CommandEntry(w.id))
  BY DEF ApplyFor
<1>2. w.index \in 1 .. n
  BY <1>1
<1>3. w.index \in 1 .. m /\ w.index \in 1 .. Len(l)
  BY <1>2, LenProperties
<1>4. w \in [index : 1 .. m, entry : Entry, id : Proposal \cup {0}]
  BY <1>1, <1>3
<1>5. k[w.index] = l[w.index]
  BY <1>3 DEF Begins
<1>6. QED BY <1>1, <1>4, <1>5 DEF ApplyFor

LEMMA WiderEvent ==
  ASSUME NEW l \in Seq(Entry), NEW k \in Seq(Entry), Begins(l, k),
         NEW n \in Nat, NEW n2 \in Nat, n <= n2, n <= Len(l),
         NEW d \in Nat, NEW d2 \in Nat, d <= d2,
         NEW m \in Nat, NEW m2 \in Nat, m <= m2
  PROVE  EventFor(l, n, d, m) \subseteq EventFor(k, n2, d2, m2)
<1>1. PersistedFor(d) \subseteq PersistedFor(d2)
  <2> SUFFICES ASSUME NEW e \in PersistedFor(d)
               PROVE  e \in PersistedFor(d2)
    OBVIOUS
  <2>1. /\ e \in [kind : {"persisted"}, ok : BOOLEAN, hasHard : BOOLEAN, last : Nat]
        /\ e.ok => e.last <= d
    BY DEF PersistedFor
  <2>2. e.last \in Nat
    BY <2>1
  <2>3. e.ok => e.last <= d2
    BY <2>1, <2>2
  <2>4. QED BY <2>1, <2>3 DEF PersistedFor
<1>2. AppliedFor(l, n, m) \subseteq AppliedFor(k, n2, m2)
  <2> SUFFICES ASSUME NEW e \in AppliedFor(l, n, m)
               PROVE  e \in AppliedFor(k, n2, m2)
    OBVIOUS
  <2>1. /\ e \in [kind : {"applied"}, ok : BOOLEAN, index : 1 .. n, id : Proposal \cup {0}]
        /\ e.ok /\ l[e.index].kind = "COMMAND" => e.index <= m
        /\ e.id # 0 => l[e.index] = CommandEntry(e.id)
    BY DEF AppliedFor
  <2>2. e.index \in 1 .. n
    BY <2>1
  <2>3. e.index \in 1 .. n2 /\ e.index \in 1 .. Len(l) /\ (e.index <= m => e.index <= m2)
    BY <2>2, LenProperties
  <2>4. e \in [kind : {"applied"}, ok : BOOLEAN, index : 1 .. n2, id : Proposal \cup {0}]
    BY <2>1, <2>3
  <2>5. k[e.index] = l[e.index]
    BY <2>3 DEF Begins
  <2>6. QED BY <2>1, <2>3, <2>4, <2>5 DEF AppliedFor
<1>3. QED BY <1>1, <1>2 DEF EventFor

LEMMA WiderResult ==
  ASSUME NEW p, NEW s, NEW t, Begins(s, t), Len(s) \in Nat, Len(t) \in Nat
  PROVE  ResultFor(p, s) \subseteq ResultFor(p, t)
<1> SUFFICES ASSUME NEW r \in ResultFor(p, s), r.ok
             PROVE  \E i \in 1 .. Len(t) : t[i] = CommandEntry(p)
  BY DEF ResultFor
<1>1. PICK i \in 1 .. Len(s) : s[i] = CommandEntry(p)
  BY DEF ResultFor
<1>2. i \in 1 .. Len(t) /\ t[i] = s[i]
  BY <1>1 DEF Begins
<1>3. QED BY <1>1, <1>2

LEMMA PendingStays ==
  ASSUME NEW l \in Seq(Entry), NEW k \in Seq(Entry), Begins(l, k),
         NEW pend, Pending(pend, l)
  PROVE  Pending(pend, k)
<1>1. Len(l) \in Nat /\ Len(k) \in Nat /\ Len(l) <= Len(k)
  BY LenProperties DEF Begins
<1>2. \A q \in pend : q[2] \in 1 .. Len(k) /\ k[q[2]] = l[q[2]]
  BY <1>1 DEF Pending, Begins
<1>3. QED BY <1>2 DEF Pending

----------------------------------------------------------------------------
\* The drain at the end of a handler.

\* What the core would have written takes up the log behind what is stable.
LEMMA PersistenceWorkFits ==
  ASSUME NEW c \in Core, NEW d \in Nat, c.stable <= d, c.stable <= Len(c.log)
  PROVE  PersistenceWork(c) \in WorkFor(c.log, d)
<1> DEFINE w == PersistenceWork(c)
           l == c.log
           a == c.stable + 1
           n == Len(c.log)
           es == SubSeq(l, a, n)
<1>1. l \in Seq(Entry) /\ c.stable \in Nat /\ n \in Nat /\ c.config \in Nat /\ c.saved \in Hard
  BY LenProperties DEF Core
<1>2. \A i \in a .. n : l[i] \in Entry
  BY <1>1, ElementOfSeq
<1>3. /\ es \in Seq(Entry) /\ Len(es) = IF a <= n THEN n - a + 1 ELSE 0
      /\ \A i \in 1 .. n - a + 1 : es[i] = l[a + i - 1]
  <2>1. a \in Int /\ n \in Int
    BY <1>1
  <2> HIDE DEF a, n, l
  <2>2. QED BY <1>2, <2>1, SubSeqProperties
<1>4. HardState(c) \in Hard
  BY <1>1 DEF HardState, Hard
<1>5. /\ w.entries = es /\ w.first = a /\ w.hasHard = (c.saved # HardState(c))
      /\ w.hard = HardState(c) /\ w.last = IF c.stable < n THEN n ELSE 0
      /\ w = [entries |-> w.entries, first |-> w.first, hasHard |-> w.hasHard,
              hard |-> w.hard, last |-> w.last]
  BY DEF PersistenceWork
<1>6. w.first \in Nat \ {0} /\ w.last \in Nat /\ w.hasHard \in BOOLEAN
  BY <1>1, <1>5
<1> HIDE DEF w, es
<1>7. w \in Work
  BY <1>3, <1>4, <1>5, <1>6 DEF Work
<1>8. /\ w.first <= d + 1
      /\ w.last <= w.first - 1 + Len(w.entries)
      /\ w.first - 1 + Len(w.entries) <= n
  <2> DEFINE b == c.stable
  <2>1. /\ b \in Nat /\ n \in Nat /\ b <= n /\ b <= d
        /\ Len(w.entries) = IF b + 1 <= n THEN n - b ELSE 0
        /\ w.first = b + 1 /\ w.last = IF b < n THEN n ELSE 0
    BY <1>1, <1>3, <1>5
  <2> HIDE DEF b, n
  <2>2. QED BY <2>1
<1>9. \A k \in 1 .. Len(w.entries) : w.entries[k] = l[w.first - 1 + k]
  <2>1. \A k \in 1 .. Len(es) : k \in 1 .. n - a + 1 /\ a + k - 1 = a - 1 + k
    BY <1>1, <1>3
  <2> HIDE DEF a, n, l
  <2>2. QED BY <2>1, <1>3, <1>5
<1>10. QED BY <1>7, <1>8, <1>9 DEF WorkFor, w

LEMMA ProposalAtIndex ==
  ASSUME NEW l, NEW pend, Pending(pend, l), NEW i
  PROVE  /\ ProposalAt(pend, i) \in Proposal \cup {0}
         /\ ProposalAt(pend, i) # 0 => l[i] = CommandEntry(ProposalAt(pend, i))
<1>1. CASE \E q \in pend : q[2] = i
  <2> DEFINE q == CHOOSE q \in pend : q[2] = i
  <2>1. q \in pend /\ q[2] = i
    BY <1>1
  <2> HIDE DEF q
  <2>2. ProposalAt(pend, i) = q[1]
    BY <1>1 DEF ProposalAt, q
  <2>3. QED BY <2>1, <2>2 DEF Pending
<1>2. CASE ~\E q \in pend : q[2] = i
  BY <1>2 DEF ProposalAt
<1>3. QED BY <1>1, <1>2

\* What is scheduled is stored, whatever is pending.
LEMMA ScheduleFits ==
  ASSUME NEW c \in Core, c.stable <= Len(c.log), NEW pend, Pending(pend, c.log),
         applies \in Seq(ApplyFor(c.log, c.stable)), Len(applies) <= ApplyCap,
         scheduled \in Nat, ScheduleApplyWork(c, pend)
  PROVE  /\ applies' \in Seq(ApplyFor(c.log, c.stable)) /\ Len(applies') <= ApplyCap
         /\ scheduled' \in Nat
<1> DEFINE room == IF running THEN ApplyCap - Len(applies) ELSE 0
           R == ApplyRange(c)
           first == CHOOSE i \in R : \A j \in R : i <= j
           count == IF Cardinality(R) <= room THEN Cardinality(R) ELSE room
           more == [k \in 1 .. count |-> ApplyWork(c, pend, first + k - 1)]
           T == ApplyFor(c.log, c.stable)
<1>1. /\ c.log \in Seq(Entry) /\ c.stable \in Nat /\ c.applied \in Nat
      /\ Len(c.log) \in Nat /\ Len(applies) \in Nat /\ ApplyCap \in Nat
  BY Numbers, LenProperties DEF Core
<1>2. \/ applies' = applies /\ scheduled' = scheduled
      \/ /\ R # {} /\ room # 0
         /\ applies' = applies \o more /\ scheduled' = first + count - 1
  BY DEF ScheduleApplyWork
<1>3. CASE applies' = applies /\ scheduled' = scheduled
  BY <1>3
<1>4. CASE /\ R # {} /\ room # 0
           /\ applies' = applies \o more /\ scheduled' = first + count - 1
  <2> DEFINE a == IF scheduled > c.applied THEN scheduled + 1 ELSE c.applied + 1
  <2>1. R = a .. c.stable /\ a \in Nat \ {0}
    BY <1>1 DEF ApplyRange
  <2>2. a <= c.stable
    BY <1>1, <1>4, <2>1
  <2>3. Cardinality(R) = c.stable - a + 1
    <3> HIDE DEF a, R
    <3>1. a \in Int /\ c.stable \in Int /\ ~(a > c.stable)
      BY <1>1, <2>1, <2>2
    <3>2. QED BY <2>1, <3>1, FS_Interval
  <2>4. first = a
    <3>1. a \in R /\ \A j \in R : a <= j
      BY <1>1, <2>1, <2>2
    <3>2. first \in R /\ \A j \in R : first <= j
      BY <3>1
    <3> HIDE DEF first, R
    <3>3. first <= a /\ a <= first /\ first \in Int /\ a \in Int
      BY <1>1, <2>1, <3>1, <3>2
    <3> HIDE DEF a
    <3>4. QED BY <3>3
  <2> HIDE DEF R, first
  <2>5. room \in Nat
    BY <1>1
  <2> HIDE DEF room, a
  <2>6. count \in Nat /\ count <= room /\ count <= c.stable - a + 1
    BY <1>1, <2>1, <2>2, <2>3, <2>5
  <2> HIDE DEF count
  <2>7. ASSUME NEW k \in 1 .. count
        PROVE  ApplyWork(c, pend, first + k - 1) \in T
    <3> DEFINE i == first + k - 1
               w == ApplyWork(c, pend, i)
    <3>1. i \in 1 .. c.stable /\ i \in 1 .. Len(c.log)
      BY <1>1, <2>1, <2>4, <2>6
    <3> HIDE DEF i
    <3>2. c.log[i] \in Entry
      BY <1>1, <3>1, ElementOfSeq
    <3>3. /\ ProposalAt(pend, i) \in Proposal \cup {0}
          /\ ProposalAt(pend, i) # 0 => c.log[i] = CommandEntry(ProposalAt(pend, i))
      BY ProposalAtIndex
    <3>4. w = [index |-> i, entry |-> c.log[i], id |-> ProposalAt(pend, i)]
      BY DEF ApplyWork
    <3> HIDE DEF w
    <3>5. w \in T
      BY <3>1, <3>2, <3>3, <3>4 DEF ApplyFor
    <3>6. QED BY <3>5 DEF w, i
  <2>8. more \in Seq(T) /\ Len(more) = count
    <3>1. more \in [1 .. count -> T]
      BY <2>7
    <3>2. QED BY <3>1, <2>6, SeqDef
  <2> HIDE DEF more
  <2>9. applies' \in Seq(T) /\ Len(applies') = Len(applies) + count
    BY <1>4, <2>8, ConcatProperties
  <2>10. Len(applies) + count <= ApplyCap
    BY <1>1, <1>4, <2>5, <2>6 DEF room
  <2>11. scheduled' \in Nat
    BY <1>4, <2>1, <2>4, <2>6
  <2>12. QED BY <2>9, <2>10, <2>11
<1>5. QED BY <1>2, <1>3, <1>4

LEMMA DrainFits ==
  ASSUME NEW c \in Core, NEW d \in Nat, c.stable <= d, c.stable <= Len(c.log),
         NEW pend, Pending(pend, c.log),
         works \in Seq(WorkFor(c.log, d)),
         applies \in Seq(ApplyFor(c.log, c.stable)), Len(applies) <= ApplyCap,
         scheduled \in Nat, DrainCoreOutput(c, pend)
  PROVE  /\ works' \in Seq(WorkFor(c.log, d))
         /\ applies' \in Seq(ApplyFor(c.log, c.stable)) /\ Len(applies') <= ApplyCap
         /\ scheduled' \in Nat
<1>1. PersistenceWork(c) \in WorkFor(c.log, d)
  BY PersistenceWorkFits
<1>2. \/ ScheduleApplyWork(c, pend) /\ works' = works
      \/ ScheduleApplyWork(c, pend) /\ works' = Append(works, PersistenceWork(c))
      \/ works' = works /\ applies' = applies /\ scheduled' = scheduled
  BY DEF DrainCoreOutput
<1>3. works' = works \/ works' = Append(works, PersistenceWork(c))
  BY <1>2
<1>4. works' \in Seq(WorkFor(c.log, d))
  BY <1>1, <1>3, AppendProperties
<1>5. /\ applies' \in Seq(ApplyFor(c.log, c.stable)) /\ Len(applies') <= ApplyCap
      /\ scheduled' \in Nat
  <2>1. CASE ScheduleApplyWork(c, pend)
    BY <2>1, ScheduleFits
  <2>2. CASE works' = works /\ applies' = applies /\ scheduled' = scheduled
    BY <2>2
  <2>3. QED BY <1>2, <2>1, <2>2
<1>6. QED BY <1>4, <1>5

----------------------------------------------------------------------------
\* The protocol thread.

\* What every handler has to show: the disk and the machine are as they were.
LEMMA HandlerKeeps ==
  ASSUME RuntimeInductive, core' \in Core, Begins(core.log, core'.log),
         core.stable <= core'.stable, core'.stable <= Len(disk.entries),
         core'.applied <= core'.stable,
         \A i \in 1 .. core'.applied : core'.log[i].kind = "COMMAND" => i <= Len(machine),
         Pending(pending', core'.log),
         DrainCoreOutput(core', pending') \/ NoDrain,
         events' \in Seq(EventFor(core.log, core.stable, Len(disk.entries), Len(machine))),
         writing' = writing, applying' = applying, disk' = disk, machine' = machine,
         \A p \in Proposal : emitted'[p] \in Seq(ResultFor(p, machine))
  PROVE  RuntimeInductive'
<1> DEFINE l == core.log
           k == core'.log
           d == Len(disk.entries)
           m == Len(machine)
           n == core.stable
           o == core'.stable
<1>1. /\ core \in Core /\ disk \in Disk /\ Begins(disk.entries, l) /\ n <= d
      /\ works \in Seq(WorkFor(l, d)) /\ writing \in Seq(WorkFor(l, d))
      /\ machine \in Seq(Entry) /\ scheduled \in Nat
      /\ Begins(machine, l) /\ m <= n
      /\ applies \in Seq(ApplyFor(l, n)) /\ Len(applies) <= ApplyCap
      /\ applying \in Seq(ApplyFor(l, n))
  BY DEF RuntimeInductive, StoredInOrder, AppliedInOrder
<1>2. /\ l \in Seq(Entry) /\ k \in Seq(Entry) /\ disk.entries \in Seq(Entry)
      /\ n \in Nat /\ o \in Nat
  BY <1>1 DEF Core, Disk
<1>3. /\ Len(l) \in Nat /\ Len(k) \in Nat /\ d \in Nat /\ m \in Nat
  BY <1>1, <1>2, LenProperties
<1>4. Begins(l, k) /\ Len(l) <= Len(k) /\ n <= o /\ o <= d
  BY DEF Begins
<1>5. d <= Len(l)
  BY <1>1 DEF Begins
<1>6. n <= Len(l) /\ o <= Len(k) /\ m <= o
  <2> HIDE DEF l, k, d, m, n, o
  <2>1. QED BY <1>1, <1>2, <1>3, <1>4, <1>5
<1>7. /\ WorkFor(l, d) \subseteq WorkFor(k, d)
      /\ ApplyFor(l, n) \subseteq ApplyFor(k, o)
      /\ EventFor(l, n, d, m) \subseteq EventFor(k, o, d, m)
  <2> HIDE DEF l, k, d, m, n, o
  <2>1. d <= d /\ m <= m
    BY <1>3
  <2>2. WorkFor(l, d) \subseteq WorkFor(k, d)
    BY <1>2, <1>3, <1>4, <2>1, WiderWork
  <2>3. ApplyFor(l, n) \subseteq ApplyFor(k, o)
    BY <1>2, <1>4, <1>6, WiderApply
  <2>4. EventFor(l, n, d, m) \subseteq EventFor(k, o, d, m)
    BY <1>2, <1>3, <1>4, <1>6, <2>1, WiderEvent
  <2>5. QED BY <2>2, <2>3, <2>4
<1>8. Begins(disk.entries, k) /\ Begins(machine, k)
  <2>1. \A i \in 1 .. d : i \in 1 .. Len(l)
    BY <1>3, <1>5
  <2>2. \A i \in 1 .. m : i \in 1 .. Len(l)
    BY <1>2, <1>3, <1>1, <1>6
  <2>3. d <= Len(k) /\ m <= Len(k)
    BY <1>2, <1>3, <1>4, <1>5, <1>6
  <2>4. QED BY <1>1, <1>4, <2>1, <2>2, <2>3 DEF Begins
<1>9. /\ works \in Seq(WorkFor(k, d)) /\ writing \in Seq(WorkFor(k, d))
      /\ applies \in Seq(ApplyFor(k, o)) /\ applying \in Seq(ApplyFor(k, o))
      /\ events' \in Seq(EventFor(k, o, d, m))
  BY <1>1, <1>7, SeqMonotonic
<1>10. /\ works' \in Seq(WorkFor(k, d))
       /\ applies' \in Seq(ApplyFor(k, o)) /\ Len(applies') <= ApplyCap
       /\ scheduled' \in Nat
  <2>1. CASE NoDrain
    BY <2>1, <1>1, <1>9 DEF NoDrain
  <2>2. CASE DrainCoreOutput(core', pending')
    BY <2>2, <1>1, <1>3, <1>4, <1>6, <1>9, DrainFits
  <2>3. QED BY <2>1, <2>2
<1>11. StoredInOrder'
  BY <1>1, <1>4, <1>8, <1>9, <1>10 DEF StoredInOrder
<1>12. AppliedInOrder'
  BY <1>1, <1>6, <1>8, <1>9, <1>10 DEF AppliedInOrder
<1>13. QED BY <1>9, <1>11, <1>12 DEF RuntimeInductive

LEMMA TakenEvent ==
  ASSUME RuntimeInductive, NEW kind, Take(kind)
  PROVE  LET S == EventFor(core.log, core.stable, Len(disk.entries), Len(machine))
         IN  /\ Head(events) \in S /\ Head(events).kind = kind
             /\ events' \in Seq(S)
<1> DEFINE S == EventFor(core.log, core.stable, Len(disk.entries), Len(machine))
<1>1. /\ events \in Seq(S) /\ events # << >> /\ Head(events).kind = kind
      /\ events' = Tail(events)
  BY DEF RuntimeInductive, Take
<1> HIDE DEF S
<1>2. Head(events) \in S /\ Tail(events) \in Seq(S)
  BY <1>1, HeadTailProperties
<1>3. QED BY <1>1, <1>2 DEF S

\* An entry at the end of the log.
LEMMA AppendedCore ==
  ASSUME core \in Core, NEW e \in Entry
  PROVE  LET c == AppendEntry(e)
         IN  /\ c \in Core /\ Begins(core.log, c.log)
             /\ Len(c.log) = Len(core.log) + 1 /\ c.log[Len(core.log) + 1] = e
             /\ c.stable = core.stable /\ c.applied = core.applied
<1> DEFINE c == AppendEntry(e)
           l == core.log
           k == Append(l, e)
<1>1. l \in Seq(Entry) /\ c.log = k /\ c.stable = core.stable /\ c.applied = core.applied
  BY DEF AppendEntry, Core
<1>2. Len(l) \in Nat
  BY <1>1, LenProperties
<1> HIDE DEF l
<1>3. /\ k \in Seq(Entry) /\ Len(k) = Len(l) + 1 /\ k[Len(l) + 1] = e
      /\ \A i \in 1 .. Len(l) : k[i] = l[i]
  BY <1>1, AppendProperties
<1> HIDE DEF k
<1>4. Begins(l, k)
  BY <1>2, <1>3 DEF Begins
<1>5. c \in Core
  BY <1>1, <1>3 DEF AppendEntry, Core, k, l
<1>6. QED BY <1>1, <1>3, <1>4, <1>5 DEF l

LEMMA Beginnings ==
  ASSUME RuntimeInductive
  PROVE  /\ core \in Core /\ core.log \in Seq(Entry) /\ Begins(core.log, core.log)
         /\ core.stable \in Nat /\ core.applied \in Nat
         /\ core.stable <= Len(disk.entries) /\ core.applied <= core.stable
         /\ Len(core.log) \in Nat /\ Len(disk.entries) \in Nat /\ Len(machine) \in Nat
         /\ Len(disk.entries) <= Len(core.log) /\ Len(machine) <= core.stable
         /\ machine \in Seq(Entry) /\ disk.entries \in Seq(Entry) /\ disk \in Disk
         /\ Pending(pending, core.log)
         /\ \A i \in 1 .. core.applied : core.log[i].kind = "COMMAND" => i <= Len(machine)
         /\ \A p \in Proposal : emitted[p] \in Seq(ResultFor(p, machine))
<1>1. /\ core \in Core /\ disk \in Disk /\ core.stable <= Len(disk.entries)
      /\ Begins(disk.entries, core.log)
      /\ machine \in Seq(Entry) /\ Len(machine) <= core.stable
      /\ \A i \in 1 .. core.applied : core.log[i].kind = "COMMAND" => i <= Len(machine)
      /\ core.applied <= core.stable
      /\ Pending(pending, core.log)
      /\ \A p \in Proposal : emitted[p] \in Seq(ResultFor(p, machine))
  BY DEF RuntimeInductive, StoredInOrder, AppliedInOrder
<1>2. /\ core.log \in Seq(Entry) /\ core.stable \in Nat /\ core.applied \in Nat
      /\ disk.entries \in Seq(Entry)
  BY <1>1 DEF Core, Disk
<1>3. Len(core.log) \in Nat /\ Len(disk.entries) \in Nat /\ Len(machine) \in Nat
  BY <1>1, <1>2, LenProperties
<1>4. Begins(core.log, core.log) /\ Len(disk.entries) <= Len(core.log)
  BY <1>1, <1>2, BeginsItself DEF Begins
<1>5. QED BY <1>1, <1>2, <1>3, <1>4

LEMMA TickStep ==
  ASSUME RuntimeInductive, ProcessTick
  PROVE  RuntimeInductive'
<1>1. /\ Take("tick") /\ DrainCoreOutput(core, pending)
      /\ core' = core /\ pending' = pending /\ emitted' = emitted
      /\ writing' = writing /\ applying' = applying /\ disk' = disk /\ machine' = machine
  BY DEF ProcessTick, protocolFrame
<1>2. events' \in Seq(EventFor(core.log, core.stable, Len(disk.entries), Len(machine)))
  BY <1>1, TakenEvent
<1>3. core.stable <= core.stable
  BY Beginnings
<1>4. DrainCoreOutput(core', pending')
  BY <1>1
<1>5. QED BY <1>1, <1>2, <1>3, <1>4, Beginnings, HandlerKeeps

LEMMA EventKinds ==
  ASSUME NEW l, NEW n, NEW d, NEW m, NEW e \in EventFor(l, n, d, m)
  PROVE  /\ e.kind \in {"proposal", "change"} => e.id \in Proposal \cup Change
         /\ e.kind = "proposal" => e.id \in Proposal
         /\ e.kind = "change" => e.id \in Change
         /\ e.kind = "persisted" => e \in PersistedFor(d)
         /\ e.kind = "applied" => e \in AppliedFor(l, n, m)
<1>1. CASE e \in Request
  BY <1>1 DEF Request
<1>2. CASE e \in PersistedFor(d)
  BY <1>2 DEF PersistedFor
<1>3. CASE e \in AppliedFor(l, n, m)
  BY <1>3 DEF AppliedFor
<1>4. QED BY <1>1, <1>2, <1>3 DEF EventFor

LEMMA EmittedFits ==
  ASSUME RuntimeInductive, NEW ids, NEW ok \in BOOLEAN, EmitProposalResults(ids, ok),
         ok => \A p \in ids : \E i \in 1 .. Len(machine) : machine[i] = CommandEntry(p)
  PROVE  \A p \in Proposal : emitted'[p] \in Seq(ResultFor(p, machine))
<1> SUFFICES ASSUME NEW p \in Proposal
             PROVE  emitted'[p] \in Seq(ResultFor(p, machine))
  OBVIOUS
<1>1. emitted[p] \in Seq(ResultFor(p, machine))
  BY Beginnings
<1>2. emitted'[p] = IF p \in ids THEN Append(emitted[p], Result(p, ok)) ELSE emitted[p]
  BY DEF EmitProposalResults
<1>3. CASE p \notin ids
  BY <1>1, <1>2, <1>3
<1>4. CASE p \in ids
  <2>1. Result(p, ok) \in ResultFor(p, machine)
    BY <1>4 DEF Result, ResultFor
  <2> DEFINE T == ResultFor(p, machine)
             r == Result(p, ok)
             s == emitted[p]
  <2> HIDE DEF T, r, s
  <2>2. Append(s, r) \in Seq(T)
    BY <1>1, <2>1, AppendProperties DEF T, r, s
  <2>3. QED BY <1>2, <1>4, <2>2 DEF T, r, s
<1>5. QED BY <1>3, <1>4

LEMMA ProposalStep ==
  ASSUME RuntimeInductive, ProcessProposal
  PROVE  RuntimeInductive'
<1> DEFINE p == Head(events).id
           e == CommandEntry(p)
           c == AppendEntry(e)
<1>1. /\ Take("proposal") /\ core' = c
      /\ pending' = pending \cup {<<p, Len(c.log)>>}
      /\ DrainCoreOutput(c, pending \cup {<<p, Len(c.log)>>})
      /\ emitted' = emitted
      /\ writing' = writing /\ applying' = applying /\ disk' = disk /\ machine' = machine
  BY DEF ProcessProposal, protocolFrame
<1>2. /\ events' \in Seq(EventFor(core.log, core.stable, Len(disk.entries), Len(machine)))
      /\ p \in Proposal
  BY <1>1, TakenEvent, EventKinds
<1>3. e \in Entry
  BY <1>2 DEF Entry
<1>4. /\ c \in Core /\ Begins(core.log, c.log)
      /\ Len(c.log) = Len(core.log) + 1 /\ c.log[Len(core.log) + 1] = e
      /\ c.stable = core.stable /\ c.applied = core.applied
  BY <1>3, Beginnings, AppendedCore
<1> HIDE DEF c, p
<1>5. Pending(pending', c.log)
  <2>1. Pending(pending, c.log)
    <3>1. c.log \in Seq(Entry)
      BY <1>4 DEF Core
    <3>2. QED BY <3>1, <1>4, Beginnings, PendingStays
  <2>2. Len(c.log) \in 1 .. Len(c.log)
    BY <1>4, Beginnings
  <2>3. QED BY <1>1, <1>2, <1>4, <2>1, <2>2 DEF Pending
<1>6. \A i \in 1 .. c.applied : c.log[i].kind = "COMMAND" => i <= Len(machine)
  <2>1. \A i \in 1 .. core.applied : i \in 1 .. Len(core.log)
    BY Beginnings
  <2>2. QED BY <1>4, <2>1, Beginnings DEF Begins
<1>7. DrainCoreOutput(core', pending')
  BY <1>1
<1>8. core.stable <= c.stable /\ c.stable <= Len(disk.entries) /\ c.applied <= c.stable
  BY <1>4, Beginnings
<1>9. QED BY <1>1, <1>2, <1>4, <1>5, <1>6, <1>7, <1>8, Beginnings, HandlerKeeps

LEMMA ChangeStep ==
  ASSUME RuntimeInductive, ProcessMembershipChange
  PROVE  RuntimeInductive'
<1> DEFINE e == ChangeEntry(Head(events).id)
           c == AppendEntry(e)
<1>1. /\ Take("change") /\ pending' = pending /\ emitted' = emitted
      /\ writing' = writing /\ applying' = applying /\ disk' = disk /\ machine' = machine
      /\ \/ core' = core /\ NoDrain
         \/ core' = c /\ DrainCoreOutput(c, pending)
  BY DEF ProcessMembershipChange, protocolFrame
<1>2. /\ events' \in Seq(EventFor(core.log, core.stable, Len(disk.entries), Len(machine)))
      /\ Head(events).id \in Change
  BY <1>1, TakenEvent, EventKinds
<1>3. CASE core' = core /\ NoDrain
  <2>1. core.stable <= core.stable
    BY Beginnings
  <2>2. QED BY <1>1, <1>2, <1>3, <2>1, Beginnings, HandlerKeeps
<1>4. CASE core' = c /\ DrainCoreOutput(c, pending)
  <2>1. e \in Entry
    BY <1>2 DEF Entry
  <2>2. /\ c \in Core /\ Begins(core.log, c.log)
        /\ c.stable = core.stable /\ c.applied = core.applied
    BY <2>1, Beginnings, AppendedCore
  <2> HIDE DEF c
  <2>3. Pending(pending', c.log)
    <3>1. c.log \in Seq(Entry)
      BY <2>2 DEF Core
    <3>2. Pending(pending, c.log)
      BY <3>1, <2>2, Beginnings, PendingStays
    <3>3. QED BY <1>1, <3>2
  <2>4. \A i \in 1 .. c.applied : c.log[i].kind = "COMMAND" => i <= Len(machine)
    <3>1. \A i \in 1 .. core.applied : i \in 1 .. Len(core.log)
      BY Beginnings
    <3>2. QED BY <2>2, <3>1, Beginnings DEF Begins
  <2>5. DrainCoreOutput(core', pending')
    BY <1>1, <1>4
  <2>6. core.stable <= c.stable /\ c.stable <= Len(disk.entries) /\ c.applied <= c.stable
    BY <2>2, Beginnings
  <2>7. QED BY <1>1, <1>2, <1>4, <2>2, <2>3, <2>4, <2>5, <2>6, Beginnings, HandlerKeeps
<1>5. QED BY <1>1, <1>3, <1>4

LEMMA ConfirmedStep ==
  ASSUME RuntimeInductive, PersistenceConfirmed
  PROVE  RuntimeInductive'
<1> DEFINE done == Head(events)
           c == ConfirmPersistence(done)
<1>1. /\ Take("persisted") /\ Confirms(done) /\ core' = c /\ DrainCoreOutput(c, pending)
      /\ pending' = pending /\ emitted' = emitted
      /\ writing' = writing /\ applying' = applying /\ disk' = disk /\ machine' = machine
  BY DEF PersistenceConfirmed, protocolFrame
<1>2. /\ events' \in Seq(EventFor(core.log, core.stable, Len(disk.entries), Len(machine)))
      /\ done \in PersistedFor(Len(disk.entries))
  BY <1>1, TakenEvent, EventKinds
<1> HIDE DEF done
<1>3. done.last \in Nat /\ done.last <= Len(disk.entries) /\ done.last >= core.stable
  BY <1>1, <1>2 DEF PersistedFor, Confirms
<1>4. /\ c.log = core.log /\ c.stable = done.last /\ c.applied = core.applied
      /\ c \in Core
  <2>1. HardState(core) \in Hard
    BY Beginnings DEF HardState, Core, Hard
  <2>2. QED BY <1>3, <2>1, Beginnings DEF ConfirmPersistence, Core
<1> HIDE DEF c
<1>5. core.stable <= c.stable /\ c.stable <= Len(disk.entries) /\ c.applied <= c.stable
  BY <1>3, <1>4, Beginnings
<1>6. DrainCoreOutput(core', pending')
  BY <1>1
<1>7. QED BY <1>1, <1>2, <1>4, <1>5, <1>6, Beginnings, HandlerKeeps

LEMMA FailedStep ==
  ASSUME RuntimeInductive, PersistenceFailed
  PROVE  RuntimeInductive'
<1>1. /\ Take("persisted") /\ core' = core /\ NoDrain
      /\ pending' \subseteq pending
      /\ writing' = writing /\ applying' = applying /\ disk' = disk /\ machine' = machine
      /\ \E ids : EmitProposalResults(ids, FALSE)
  BY DEF PersistenceFailed, protocolFrame
<1>2. events' \in Seq(EventFor(core.log, core.stable, Len(disk.entries), Len(machine)))
  BY <1>1, TakenEvent
<1>3. \A p \in Proposal : emitted'[p] \in Seq(ResultFor(p, machine))
  BY <1>1, EmittedFits
<1>4. Pending(pending', core.log)
  BY <1>1, Beginnings DEF Pending
<1>5. core.stable <= core.stable
  BY Beginnings
<1>6. QED BY <1>1, <1>2, <1>3, <1>4, <1>5, Beginnings, HandlerKeeps

\* What an answered apply leaves: its result is true to the machine.
LEMMA FinishFits ==
  ASSUME RuntimeInductive,
         NEW done \in AppliedFor(core.log, core.stable, Len(machine)), Finish(done)
  PROVE  /\ Pending(pending', core.log) /\ NoDrain
         /\ \A p \in Proposal : emitted'[p] \in Seq(ResultFor(p, machine))
<1>1. /\ pending' \subseteq pending /\ EmitProposalResults({done.id} \ {0}, done.ok) /\ NoDrain
  BY DEF Finish
<1>2. /\ done.ok \in BOOLEAN /\ done.index \in 1 .. core.stable
      /\ done.ok /\ core.log[done.index].kind = "COMMAND" => done.index <= Len(machine)
      /\ done.id # 0 => core.log[done.index] = CommandEntry(done.id)
  BY DEF AppliedFor
<1>3. ASSUME done.ok, NEW p \in {done.id} \ {0}
      PROVE  \E i \in 1 .. Len(machine) : machine[i] = CommandEntry(p)
  <2>1. core.log[done.index] = CommandEntry(p)
    BY <1>2, <1>3
  <2>2. core.log[done.index].kind = "COMMAND"
    BY <2>1 DEF CommandEntry
  <2>3. done.index \in 1 .. Len(machine)
    BY <1>2, <1>3, <2>2, Beginnings
  <2>4. machine[done.index] = core.log[done.index]
    BY <2>3 DEF RuntimeInductive, AppliedInOrder, Begins
  <2>5. QED BY <2>1, <2>3, <2>4
<1>4. \A p \in Proposal : emitted'[p] \in Seq(ResultFor(p, machine))
  <2> DEFINE ids == {done.id} \ {0}
  <2>1. /\ EmitProposalResults(ids, done.ok)
        /\ done.ok => \A p \in ids : \E i \in 1 .. Len(machine) : machine[i] = CommandEntry(p)
    BY <1>1, <1>3
  <2> HIDE DEF ids
  <2>2. QED BY <1>2, <2>1, EmittedFits
<1>5. Pending(pending', core.log)
  BY <1>1, Beginnings DEF Pending
<1>6. QED BY <1>1, <1>4, <1>5

LEMMA ApplyConfirmedStep ==
  ASSUME RuntimeInductive, ApplyConfirmed
  PROVE  RuntimeInductive'
<1> DEFINE done == Head(events)
<1>1. /\ Take("applied") /\ ConfirmsApply(done) /\ Finish(done)
      /\ core' = [core EXCEPT !.applied = done.index,
                 !.config = IF core.log[done.index].kind = "MEMBERSHIP_CHANGE"
                            THEN @ + 1 ELSE @]
      /\ writing' = writing /\ applying' = applying /\ disk' = disk /\ machine' = machine
  BY DEF ApplyConfirmed, protocolFrame
<1>2. /\ events' \in Seq(EventFor(core.log, core.stable, Len(disk.entries), Len(machine)))
      /\ done \in AppliedFor(core.log, core.stable, Len(machine))
  BY <1>1, TakenEvent, EventKinds
<1> HIDE DEF done
<1>3. /\ done.ok /\ done.index = core.applied + 1 /\ done.index \in 1 .. core.stable
      /\ core.log[done.index].kind = "COMMAND" => done.index <= Len(machine)
  BY <1>1, <1>2 DEF AppliedFor, ConfirmsApply
<1>4. /\ core'.log = core.log /\ core'.stable = core.stable /\ core'.applied = done.index
      /\ core' \in Core
  <2> DEFINE g == IF core.log[done.index].kind = "MEMBERSHIP_CHANGE"
                  THEN core.config + 1 ELSE core.config
  <2>1. g \in Nat /\ done.index \in Nat
    BY <1>3, Beginnings DEF Core
  <2>2. core' = [core EXCEPT !.applied = done.index, !.config = g]
    BY <1>1
  <2> HIDE DEF g
  <2>3. QED BY <2>1, <2>2, Beginnings DEF Core
<1>5. \A i \in 1 .. core'.applied : core'.log[i].kind = "COMMAND" => i <= Len(machine)
  <2>1. \A i \in 1 .. core'.applied : i \in 1 .. core.applied \/ i = done.index
    BY <1>3, <1>4, Beginnings
  <2>2. QED BY <1>3, <1>4, <2>1, Beginnings
<1>6. /\ core.stable <= core'.stable /\ core'.stable <= Len(disk.entries)
      /\ core'.applied <= core'.stable
  BY <1>3, <1>4, Beginnings
<1>7. /\ Pending(pending', core.log) /\ NoDrain
      /\ \A p \in Proposal : emitted'[p] \in Seq(ResultFor(p, machine))
  BY <1>1, <1>2, FinishFits
<1>8. QED BY <1>1, <1>2, <1>4, <1>5, <1>6, <1>7, Beginnings, HandlerKeeps

LEMMA ApplyFailedStep ==
  ASSUME RuntimeInductive, ApplyFailed
  PROVE  RuntimeInductive'
<1> DEFINE done == Head(events)
<1>1. /\ Take("applied") /\ Finish(done) /\ core' = core
      /\ writing' = writing /\ applying' = applying /\ disk' = disk /\ machine' = machine
  BY DEF ApplyFailed, protocolFrame
<1>2. /\ events' \in Seq(EventFor(core.log, core.stable, Len(disk.entries), Len(machine)))
      /\ done \in AppliedFor(core.log, core.stable, Len(machine))
  BY <1>1, TakenEvent, EventKinds
<1> HIDE DEF done
<1>3. /\ Pending(pending', core.log) /\ NoDrain
      /\ \A p \in Proposal : emitted'[p] \in Seq(ResultFor(p, machine))
  BY <1>1, <1>2, FinishFits
<1>4. core.stable <= core.stable
  BY Beginnings
<1>5. QED BY <1>1, <1>2, <1>3, <1>4, Beginnings, HandlerKeeps

LEMMA OutOfOrderStep ==
  ASSUME RuntimeInductive, ApplyOutOfOrder
  PROVE  RuntimeInductive'
<1>1. /\ Take("applied") /\ NoDrain /\ core' = core /\ pending' = pending /\ emitted' = emitted
      /\ writing' = writing /\ applying' = applying /\ disk' = disk /\ machine' = machine
  BY DEF ApplyOutOfOrder, protocolFrame
<1>2. events' \in Seq(EventFor(core.log, core.stable, Len(disk.entries), Len(machine)))
  BY <1>1, TakenEvent
<1>3. core.stable <= core.stable
  BY Beginnings
<1>4. QED BY <1>1, <1>2, <1>3, Beginnings, HandlerKeeps

\* A step that leaves the log, the disk, the machine and the queues.
LEMMA NothingMoves ==
  ASSUME RuntimeInductive,
         core' = core, pending' = pending, scheduled' = scheduled, emitted' = emitted,
         works' = works, applies' = applies, writing' = writing, applying' = applying,
         disk' = disk, machine' = machine,
         events' \in Seq(EventFor(core.log, core.stable, Len(disk.entries), Len(machine)))
  PROVE  RuntimeInductive'
<1>1. NoDrain
  BY DEF NoDrain
<1>2. core.stable <= core.stable
  BY Beginnings
<1>3. QED BY <1>1, <1>2, Beginnings, HandlerKeeps

LEMMA ProtocolStep ==
  ASSUME RuntimeInductive, Protocol
  PROVE  RuntimeInductive'
<1>1. CASE ProtocolEnds
  <2>1. /\ core' = core /\ pending' = pending /\ scheduled' = scheduled /\ emitted' = emitted
        /\ works' = works /\ applies' = applies /\ writing' = writing /\ applying' = applying
        /\ disk' = disk /\ machine' = machine /\ events' = events
    BY <1>1 DEF ProtocolEnds, protocolVars, callerVars
  <2>2. QED BY <2>1, NothingMoves DEF RuntimeInductive
<1>2. QED BY <1>1, TickStep, ProposalStep, ChangeStep, ConfirmedStep, FailedStep,
             ApplyConfirmedStep, ApplyFailedStep, OutOfOrderStep DEF Protocol

----------------------------------------------------------------------------
\* The persistence thread, the apply thread and the callers: the core stays, the
\* disk and the machine may grow along the log.
LEMMA WorkerKeeps ==
  ASSUME RuntimeInductive, core' = core, pending' = pending, scheduled' = scheduled,
         emitted' = emitted,
         disk' \in Disk, Begins(disk'.entries, core.log),
         Len(disk.entries) <= Len(disk'.entries),
         machine' \in Seq(Entry), Begins(machine, machine'), Begins(machine', core.log),
         Len(machine') <= core.stable,
         works' \in Seq(WorkFor(core.log, Len(disk.entries))),
         writing' \in Seq(WorkFor(core.log, Len(disk.entries))),
         applies' \in Seq(ApplyFor(core.log, core.stable)), Len(applies') <= ApplyCap,
         applying' \in Seq(ApplyFor(core.log, core.stable)),
         \/ events' = events
         \/ \E e \in EventFor(core.log, core.stable, Len(disk'.entries), Len(machine')) :
                events' = Append(events, e)
  PROVE  RuntimeInductive'
<1> DEFINE l == core.log
           n == core.stable
           d == Len(disk.entries)
           d2 == Len(disk'.entries)
           m == Len(machine)
           m2 == Len(machine')
           S == EventFor(l, n, d2, m2)
<1>1. /\ l \in Seq(Entry) /\ n \in Nat /\ d \in Nat /\ m \in Nat /\ Begins(l, l)
      /\ n <= d /\ d <= Len(l) /\ Len(l) \in Nat
  BY Beginnings
<1>2. d2 \in Nat /\ m2 \in Nat /\ m <= m2 /\ d <= d2
  <2>1. disk'.entries \in Seq(Entry)
    BY DEF Disk
  <2>2. QED BY <2>1, LenProperties DEF Begins
<1>3. n <= Len(l) /\ n <= d2 /\ n <= n
  <2> HIDE DEF l, n, d, d2
  <2>1. QED BY <1>1, <1>2
<1>4. WorkFor(l, d) \subseteq WorkFor(l, d2) /\ EventFor(l, n, d, m) \subseteq S
  <2> HIDE DEF l, n, d, d2, m, m2
  <2>1. QED BY <1>1, <1>2, <1>3, WiderWork, WiderEvent
<1>5. works' \in Seq(WorkFor(l, d2)) /\ writing' \in Seq(WorkFor(l, d2)) /\ events \in Seq(S)
  <2>1. events \in Seq(EventFor(l, n, d, m))
    BY DEF RuntimeInductive
  <2>2. QED BY <2>1, <1>4, SeqMonotonic
<1>6. events' \in Seq(S)
  <2> HIDE DEF S
  <2>1. events' = events \/ \E e \in S : events' = Append(events, e)
    BY DEF S
  <2>2. ASSUME NEW e \in S
        PROVE  Append(events, e) \in Seq(S)
    BY <1>5, AppendProperties
  <2>3. QED BY <1>5, <2>1, <2>2
<1>7. \A p \in Proposal : emitted'[p] \in Seq(ResultFor(p, machine'))
  <2> TAKE p \in Proposal
  <2>1. emitted[p] \in Seq(ResultFor(p, machine))
    BY Beginnings
  <2>2. ResultFor(p, machine) \subseteq ResultFor(p, machine')
    BY <1>1, <1>2, WiderResult
  <2>3. QED BY <2>1, <2>2, SeqMonotonic
<1>8. StoredInOrder'
  BY <1>3, <1>5, Beginnings DEF StoredInOrder
<1>9. AppliedInOrder'
  <2>1. \A i \in 1 .. core.applied : core.log[i].kind = "COMMAND" => i <= m2
    BY <1>1, <1>2, Beginnings
  <2>2. scheduled' \in Nat
    BY DEF RuntimeInductive, AppliedInOrder
  <2>3. QED BY <2>1, <2>2, Beginnings DEF AppliedInOrder
<1>10. QED BY <1>6, <1>7, <1>8, <1>9 DEF RuntimeInductive

\* What WorkerKeeps asks of what a worker leaves alone.
LEMMA Waiting ==
  ASSUME RuntimeInductive
  PROVE  /\ disk \in Disk /\ Begins(disk.entries, core.log)
         /\ Len(disk.entries) <= Len(disk.entries)
         /\ machine \in Seq(Entry) /\ Begins(machine, machine) /\ Begins(machine, core.log)
         /\ Len(machine) <= core.stable
         /\ works \in Seq(WorkFor(core.log, Len(disk.entries)))
         /\ writing \in Seq(WorkFor(core.log, Len(disk.entries)))
         /\ applies \in Seq(ApplyFor(core.log, core.stable)) /\ Len(applies) <= ApplyCap
         /\ applying \in Seq(ApplyFor(core.log, core.stable))
         /\ events \in Seq(EventFor(core.log, core.stable, Len(disk.entries), Len(machine)))
<1>1. Begins(machine, machine) /\ Len(disk.entries) <= Len(disk.entries)
  BY Beginnings, BeginsItself
<1>2. QED BY <1>1 DEF RuntimeInductive, StoredInOrder, AppliedInOrder

LEMMA Taken ==
  ASSUME NEW S, NEW queue \in Seq(S), queue # << >>
  PROVE  /\ Head(queue) \in S /\ Tail(queue) \in Seq(S) /\ <<Head(queue)>> \in Seq(S)
         /\ Len(Tail(queue)) <= Len(queue)
<1>1. /\ Head(queue) \in S /\ Tail(queue) \in Seq(S) /\ Len(Tail(queue)) = Len(queue) - 1
  BY HeadTailProperties
<1>2. Len(queue) \in Nat
  BY LenProperties
<1>3. QED BY <1>1, <1>2

\* Writing makes the disk grow along the log, to what the work says is its last.
LEMMA StoredFits ==
  ASSUME RuntimeInductive, NEW w \in WorkFor(core.log, Len(disk.entries))
  PROVE  /\ Stored(w) \in Disk /\ Begins(Stored(w).entries, core.log)
         /\ Len(disk.entries) <= Len(Stored(w).entries)
         /\ w.last <= Len(Stored(w).entries)
<1> DEFINE l == core.log
           e == disk.entries
           m == Len(e)
           a == w.first
           n == Len(w.entries)
           b == m - a + 2
           more == SubSeq(w.entries, b, n)
           k == e \o more
<1>1. /\ e \in Seq(Entry) /\ m \in Nat /\ Begins(e, l) /\ m <= Len(l) /\ disk \in Disk
      /\ Len(l) \in Nat
  BY Beginnings, Waiting
<1>2. /\ w \in Work /\ a <= m + 1 /\ w.last <= a - 1 + n /\ a - 1 + n <= Len(l)
      /\ \A i \in 1 .. n : w.entries[i] = l[a - 1 + i]
  BY DEF WorkFor
<1>3. a \in Nat \ {0} /\ w.last \in Nat /\ w.entries \in Seq(Entry)
  BY <1>2 DEF Work
<1>4. n \in Nat
  BY <1>3, LenProperties
<1>5. b \in Nat \ {0}
  <2> HIDE DEF a, m
  <2>1. QED BY <1>1, <1>2, <1>3
<1>6. /\ more \in Seq(Entry) /\ Len(more) = IF b <= n THEN n - b + 1 ELSE 0
      /\ \A i \in 1 .. n - b + 1 : more[i] = w.entries[b + i - 1]
  <2> HIDE DEF b
  <2>1. \A i \in b .. n : w.entries[i] \in Entry
    <3>1. \A i \in b .. n : i \in 1 .. n
      BY <1>4, <1>5
    <3>2. QED BY <1>3, <3>1, ElementOfSeq
  <2>2. b \in Int /\ n \in Int
    BY <1>4, <1>5
  <2> HIDE DEF n
  <2>3. QED BY <2>1, <2>2, SubSeqProperties
<1> HIDE DEF more
<1>7. /\ k \in Seq(Entry) /\ Len(k) = m + Len(more)
      /\ \A i \in 1 .. m + Len(more) : k[i] = IF i <= m THEN e[i] ELSE more[i - m]
  <2> HIDE DEF e
  <2>1. QED BY <1>1, <1>6, ConcatProperties
<1>8. m <= Len(k) /\ w.last <= Len(k) /\ Len(k) <= Len(l)
  <2> HIDE DEF a, m, n, k, l
  <2>1. QED BY <1>1, <1>2, <1>3, <1>4, <1>6, <1>7
<1>9. \A i \in 1 .. Len(k) : k[i] = l[i]
  <2> SUFFICES ASSUME NEW i \in 1 .. Len(k)
               PROVE  k[i] = l[i]
    OBVIOUS
  <2>1. CASE i <= m
    <3>1. i \in 1 .. m /\ i \in 1 .. m + Len(more)
      BY <2>1, <1>7
    <3>2. QED BY <3>1, <2>1, <1>1, <1>7 DEF Begins
  <2>2. CASE ~(i <= m)
    <3> DEFINE j == i - m
               h == b + j - 1
    <3>1. /\ j \in 1 .. n - b + 1 /\ h \in 1 .. n /\ a - 1 + h = i
          /\ i \in 1 .. m + Len(more)
      <4> HIDE DEF a, m, n, k, l
      <4>1. QED BY <2>2, <1>1, <1>3, <1>4, <1>5, <1>6, <1>7
    <3>2. k[i] = more[j] /\ more[j] = w.entries[h]
      BY <2>2, <3>1, <1>6, <1>7
    <3>3. w.entries[h] = l[a - 1 + h]
      BY <3>1, <1>2
    <3> HIDE DEF h, j
    <3>4. QED BY <3>1, <3>2, <3>3
  <2>3. QED BY <2>1, <2>2
<1>10. Stored(w) = [disk EXCEPT !.entries = k]
  BY DEF Stored, more
<1> HIDE DEF k
<1>11. Stored(w) \in Disk /\ Stored(w).entries = k
  BY <1>1, <1>7, <1>10 DEF Disk
<1>12. QED BY <1>8, <1>9, <1>11 DEF Begins

LEMMA PersistenceStep ==
  ASSUME RuntimeInductive, Persistence
  PROVE  RuntimeInductive'
<1> DEFINE W == WorkFor(core.log, Len(disk.entries))
           w == Head(writing)
           S == EventFor(core.log, core.stable, Len(disk'.entries), Len(machine))
<1>1. writing \in Seq(W) /\ works \in Seq(W) /\ << >> \in Seq(W)
  BY Waiting
<1>2. CASE TakeWork
  <2>1. /\ writing' = <<Head(works)>> /\ works' = Tail(works) /\ works # << >>
        /\ core' = core /\ pending' = pending /\ scheduled' = scheduled /\ emitted' = emitted
        /\ applies' = applies /\ applying' = applying /\ disk' = disk /\ machine' = machine
        /\ events' = events
    BY <1>2 DEF TakeWork, workerFrame, protocolVars, callerVars
  <2>2. writing' \in Seq(W) /\ works' \in Seq(W)
    <3> HIDE DEF W
    <3>1. QED BY <1>1, <2>1, Taken
  <2>3. QED BY <2>1, <2>2, Waiting, WorkerKeeps
<1>3. CASE WriteWork \/ WriteFails
  <2>1. /\ writing # << >> /\ writing' = << >> /\ works' = works
        /\ core' = core /\ pending' = pending /\ scheduled' = scheduled /\ emitted' = emitted
        /\ applies' = applies /\ applying' = applying /\ machine' = machine
    BY <1>3 DEF WriteWork, WriteFails, workerFrame, protocolVars, callerVars
  <2>2. w \in W
    <3> HIDE DEF W
    <3>1. QED BY <1>1, <2>1, Taken
  <2>3. /\ Stored(w) \in Disk /\ Begins(Stored(w).entries, core.log)
        /\ Len(disk.entries) <= Len(Stored(w).entries)
        /\ w.last <= Len(Stored(w).entries)
        /\ w.last \in Nat /\ w.hard \in Hard /\ w.hasHard \in BOOLEAN
    BY <2>2, StoredFits DEF WorkFor, Work
  <2> HIDE DEF W
  <2>4. /\ disk' \in Disk /\ Begins(disk'.entries, core.log)
        /\ Len(disk.entries) <= Len(disk'.entries)
        /\ \E ok \in BOOLEAN :
              /\ ok => disk'.entries = Stored(w).entries
              /\ events' = events \/ events' = Append(events, PersistDone(w, ok))
    <3>1. CASE WriteWork
      <4> DEFINE d == Stored(w)
                 ok == w.hasHard => AcceptsHardState(d, w.hard)
      <4>1. /\ disk' = IF w.hasHard /\ ok THEN [d EXCEPT !.hard = w.hard] ELSE d
            /\ Complete(PersistDone(w, ok), "persistence")
        BY <3>1 DEF WriteWork
      <4>2. ok \in BOOLEAN
        OBVIOUS
      <4>3. events' = events \/ events' = Append(events, PersistDone(w, ok))
        BY <4>1 DEF Complete
      <4> HIDE DEF d, ok
      <4>4. disk' \in Disk /\ disk'.entries = d.entries
        BY <2>3, <4>1 DEF Disk, d
      <4>5. QED BY <2>3, <4>2, <4>3, <4>4 DEF d
    <3>2. CASE WriteFails
      <4>1. /\ disk' = disk \/ disk' = Stored(w)
            /\ Complete(PersistDone(w, FALSE), "persistence")
        BY <3>2 DEF WriteFails
      <4>2. events' = events \/ events' = Append(events, PersistDone(w, FALSE))
        BY <4>1 DEF Complete
      <4>3. /\ disk' \in Disk /\ Begins(disk'.entries, core.log)
            /\ Len(disk.entries) <= Len(disk'.entries)
        BY <2>3, <4>1, Waiting
      <4>4. QED BY <4>2, <4>3
    <3>3. QED BY <1>3, <3>1, <3>2
  <2>5. PICK ok \in BOOLEAN :
           /\ ok => disk'.entries = Stored(w).entries
           /\ events' = events \/ events' = Append(events, PersistDone(w, ok))
    BY <2>4
  <2>6. PersistDone(w, ok) \in S
    <3> DEFINE e == PersistDone(w, ok)
    <3>1. e = [kind |-> "persisted", ok |-> ok, hasHard |-> w.hasHard, last |-> w.last]
      BY DEF PersistDone
    <3>2. ok => w.last <= Len(disk'.entries)
      BY <2>3, <2>5
    <3> HIDE DEF e
    <3>3. e \in PersistedFor(Len(disk'.entries))
      BY <2>3, <3>1, <3>2 DEF PersistedFor
    <3>4. QED BY <3>3 DEF EventFor, e
  <2>7. \/ events' = events
        \/ \E e \in EventFor(core.log, core.stable, Len(disk'.entries), Len(machine')) :
               events' = Append(events, e)
    BY <2>1, <2>5, <2>6
  <2>8. writing' \in Seq(W) /\ works' \in Seq(W)
    BY <1>1, <2>1
  <2>9. QED BY <2>1, <2>4, <2>7, <2>8, Waiting, WorkerKeeps DEF W
<1>4. CASE PersistenceEnds
  <2>1. /\ core' = core /\ pending' = pending /\ scheduled' = scheduled /\ emitted' = emitted
        /\ works' = works /\ applies' = applies /\ writing' = writing /\ applying' = applying
        /\ disk' = disk /\ machine' = machine /\ events' = events
    BY <1>4 DEF PersistenceEnds, workerFrame, protocolVars, callerVars
  <2>2. QED BY <2>1, Waiting, NothingMoves
<1>5. QED BY <1>2, <1>3, <1>4 DEF Persistence

\* Applying makes the machine grow along the log.
LEMMA AppliedFits ==
  ASSUME RuntimeInductive, NEW w \in ApplyFor(core.log, core.stable),
         w.entry.kind = "COMMAND", MachineAccepts(w)
  PROVE  LET t == Append(machine, w.entry)
         IN  /\ t \in Seq(Entry) /\ Begins(machine, t) /\ Begins(t, core.log)
             /\ Len(t) = w.index
<1> DEFINE m == Len(machine)
           l == core.log
           e == w.entry
           t == Append(machine, e)
<1>1. w.index \in 1 .. core.stable /\ e \in Entry /\ e = l[w.index] /\ w.index = m + 1
  BY DEF ApplyFor, MachineAccepts
<1>2. /\ machine \in Seq(Entry) /\ m \in Nat /\ l \in Seq(Entry) /\ Len(l) \in Nat
      /\ core.stable \in Nat /\ core.stable <= Len(l) /\ Begins(machine, l)
  BY Beginnings, Waiting
<1> HIDE DEF e
<1>3. /\ t \in Seq(Entry) /\ Len(t) = m + 1 /\ t[m + 1] = e
      /\ \A i \in 1 .. m : t[i] = machine[i]
  BY <1>1, <1>2, AppendProperties
<1> HIDE DEF t
<1>4. Begins(machine, t)
  BY <1>2, <1>3 DEF Begins
<1>5. m + 1 <= Len(l)
  BY <1>1, <1>2
<1>6. \A i \in 1 .. m + 1 : t[i] = l[i]
  <2>1. \A i \in 1 .. m + 1 : i \in 1 .. m \/ i = m + 1
    BY <1>2
  <2>2. QED BY <2>1, <1>1, <1>2, <1>3 DEF Begins
<1>7. Begins(t, l)
  BY <1>3, <1>5, <1>6 DEF Begins
<1>8. QED BY <1>1, <1>3, <1>4, <1>7 DEF t, e

LEMMA ApplyingStep ==
  ASSUME RuntimeInductive, Applying
  PROVE  RuntimeInductive'
<1> DEFINE W == ApplyFor(core.log, core.stable)
           w == Head(applying)
<1>1. applying \in Seq(W) /\ applies \in Seq(W) /\ << >> \in Seq(W) /\ Len(applies) <= ApplyCap
  BY Waiting
<1>2. CASE TakeApply
  <2>1. /\ applying' = <<Head(applies)>> /\ applies' = Tail(applies) /\ applies # << >>
        /\ core' = core /\ pending' = pending /\ scheduled' = scheduled /\ emitted' = emitted
        /\ works' = works /\ writing' = writing /\ disk' = disk /\ machine' = machine
        /\ events' = events
    BY <1>2 DEF TakeApply, workerFrame, protocolVars, callerVars
  <2> HIDE DEF W
  <2>2. applying' \in Seq(W) /\ applies' \in Seq(W) /\ Len(applies') <= Len(applies)
    BY <1>1, <2>1, Taken
  <2>3. Len(applies') <= ApplyCap
    <3>1. Len(applies) \in Nat /\ Len(applies') \in Nat /\ ApplyCap \in Nat
      BY <1>1, <2>2, LenProperties, Numbers
    <3>2. QED BY <1>1, <2>2, <3>1
  <2>4. QED BY <2>1, <2>2, <2>3, Waiting, WorkerKeeps DEF W
<1>3. CASE Apply
  <2> DEFINE command == w.entry.kind = "COMMAND"
             ok == command => MachineAccepts(w)
             e == [kind |-> "applied", ok |-> ok, index |-> w.index, id |-> w.id]
  <2>1. /\ applying # << >> /\ applying' = << >> /\ works' = works /\ applies' = applies
        /\ core' = core /\ pending' = pending /\ scheduled' = scheduled /\ emitted' = emitted
        /\ writing' = writing /\ disk' = disk
        /\ machine' = IF command /\ ok THEN Append(machine, w.entry) ELSE machine
        /\ Complete(e, "apply")
    BY <1>3 DEF Apply, workerFrame, protocolVars, callerVars
  <2>2. events' = events \/ events' = Append(events, e)
    BY <2>1 DEF Complete
  <2>3. w \in W
    <3> HIDE DEF W
    <3>1. QED BY <1>1, <2>1, Taken
  <2>4. /\ w.index \in 1 .. core.stable /\ w.entry = core.log[w.index]
        /\ w.id \in Proposal \cup {0}
        /\ w.id # 0 => w.entry = CommandEntry(w.id)
    BY <2>3 DEF ApplyFor
  <2>5. /\ machine' \in Seq(Entry) /\ Begins(machine, machine') /\ Begins(machine', core.log)
        /\ Len(machine') <= core.stable /\ (command /\ ok => w.index <= Len(machine'))
    <3>1. CASE command /\ ok
      <4>1. /\ machine' = Append(machine, w.entry) /\ w.entry.kind = "COMMAND"
            /\ MachineAccepts(w)
        BY <3>1, <2>1
      <4>2. /\ machine' \in Seq(Entry) /\ Begins(machine, machine') /\ Begins(machine', core.log)
            /\ Len(machine') = w.index
        BY <4>1, <2>3, AppliedFits
      <4>3. w.index <= core.stable /\ w.index <= w.index
        BY <2>4, Beginnings
      <4>4. QED BY <4>2, <4>3
    <3>2. CASE ~(command /\ ok)
      BY <3>2, <2>1, Waiting
    <3>3. QED BY <3>1, <3>2
  <2>6. e \in EventFor(core.log, core.stable, Len(disk'.entries), Len(machine'))
    <3>1. ok \in BOOLEAN
      OBVIOUS
    <3>2. ok /\ core.log[w.index].kind = "COMMAND" => w.index <= Len(machine')
      BY <2>4, <2>5
    <3> HIDE DEF ok
    <3>3. e \in AppliedFor(core.log, core.stable, Len(machine'))
      BY <2>4, <3>1, <3>2 DEF AppliedFor
    <3>4. QED BY <3>3 DEF EventFor
  <2> HIDE DEF e
  <2>7. QED BY <1>1, <2>1, <2>2, <2>5, <2>6, Waiting, WorkerKeeps
<1>4. CASE ApplyEnds
  <2>1. /\ core' = core /\ pending' = pending /\ scheduled' = scheduled /\ emitted' = emitted
        /\ works' = works /\ applies' = applies /\ writing' = writing /\ applying' = applying
        /\ disk' = disk /\ machine' = machine /\ events' = events
    BY <1>4 DEF ApplyEnds, workerFrame, protocolVars, callerVars
  <2>2. QED BY <2>1, Waiting, NothingMoves
<1>5. QED BY <1>2, <1>3, <1>4 DEF Applying

LEMMA RuntimeInductiveInit ==
  ASSUME Init
  PROVE  RuntimeInductive
<1>1. /\ core = [log |-> << >>, stable |-> 0, applied |-> 0, config |-> 1,
                 saved |-> [commit |-> 0, config |-> 1]]
      /\ disk = [entries |-> << >>, hard |-> [commit |-> 0, config |-> 0]]
      /\ pending = {} /\ scheduled = 0 /\ machine = << >>
      /\ events = << >> /\ works = << >> /\ applies = << >>
      /\ writing = << >> /\ applying = << >>
      /\ emitted = [p \in Proposal |-> << >>]
  BY DEF Init
<1>2. \A S : << >> \in Seq(S)
  OBVIOUS
<1>3. Len(<< >>) = 0 /\ 0 <= ApplyCap
  BY Numbers
<1>4. core \in Core /\ disk \in Disk
  BY <1>1, <1>2 DEF Core, Disk, Hard
<1>5. Begins(<< >>, << >>)
  BY DEF Begins
<1>6. StoredInOrder
  BY <1>1, <1>2, <1>4, <1>5 DEF StoredInOrder
<1>7. AppliedInOrder
  BY <1>1, <1>2, <1>3, <1>5 DEF AppliedInOrder, Pending
<1>8. QED BY <1>1, <1>2, <1>6, <1>7 DEF RuntimeInductive

\* A request is taken to the end of the event queue.
LEMMA CallerStep ==
  ASSUME RuntimeInductive,
         \/ EnqueueTick \/ \E p \in Proposal : EnqueueProposal(p)
         \/ \E c \in Change : EnqueueMembershipChange(c)
         \/ CollectResult \/ RequestShutdown
  PROVE  RuntimeInductive'
<1> DEFINE S == EventFor(core.log, core.stable, Len(disk.entries), Len(machine))
<1>1. /\ core' = core /\ pending' = pending /\ scheduled' = scheduled /\ emitted' = emitted
      /\ works' = works /\ applies' = applies /\ writing' = writing /\ applying' = applying
      /\ disk' = disk /\ machine' = machine
  BY DEF EnqueueTick, EnqueueProposal, EnqueueMembershipChange, CollectResult,
         RequestShutdown, callerFrame, callerVars, protocolVars
<1>2. events' = events \/ \E e \in Request : events' = Append(events, e)
  <2>1. CASE EnqueueTick
    BY <2>1 DEF EnqueueTick, Enqueue, Request
  <2>2. ASSUME NEW p \in Proposal, EnqueueProposal(p)
        PROVE  \E e \in Request : events' = Append(events, e)
    BY <2>2 DEF EnqueueProposal, Enqueue, Request
  <2>3. ASSUME NEW c \in Change, EnqueueMembershipChange(c)
        PROVE  \E e \in Request : events' = Append(events, e)
    BY <2>3 DEF EnqueueMembershipChange, Enqueue, Request
  <2>4. CASE CollectResult \/ RequestShutdown
    BY <2>4 DEF CollectResult, RequestShutdown, callerFrame
  <2>5. QED BY <2>1, <2>2, <2>3, <2>4
<1>3. events \in Seq(S)
  BY Waiting
<1>4. Request \subseteq S
  BY DEF EventFor
<1> HIDE DEF S
<1>5. ASSUME NEW e \in S
      PROVE  Append(events, e) \in Seq(S)
  BY <1>3, AppendProperties
<1>6. events' \in Seq(S)
  BY <1>2, <1>3, <1>4, <1>5
<1>7. QED BY <1>1, <1>6, NothingMoves DEF S

LEMMA RuntimeInductiveStep ==
  ASSUME RuntimeInductive, [Next]_vars
  PROVE  RuntimeInductive'
<1>1. CASE UNCHANGED vars
  <2>1. /\ core' = core /\ pending' = pending /\ scheduled' = scheduled /\ emitted' = emitted
        /\ works' = works /\ applies' = applies /\ writing' = writing /\ applying' = applying
        /\ disk' = disk /\ machine' = machine /\ events' = events
    BY <1>1 DEF vars, protocolVars, callerVars
  <2>2. QED BY <2>1, Waiting, NothingMoves
<1>2. CASE Next
  BY <1>2, ProtocolStep, PersistenceStep, ApplyingStep, CallerStep DEF Next
<1>3. QED BY <1>1, <1>2

\* Two beginnings of a log, of which one is as long as the other or longer.
LEMMA BeginsBoth ==
  ASSUME NEW l, NEW s \in Seq(Entry), NEW t \in Seq(Entry), Begins(s, l), Begins(t, l),
         Len(s) <= Len(t)
  PROVE  IsPrefixOf(s, t)
<1> DEFINE m == Len(s)
           h == SubSeq(t, 1, m)
<1>1. m \in Nat /\ Len(t) \in Nat
  BY LenProperties
<1>2. \A i \in 1 .. m : i \in 1 .. Len(t)
  BY <1>1
<1>3. /\ h \in Seq(Entry) /\ Len(h) = m /\ \A i \in 1 .. m : h[i] = t[i]
  <2>1. \A i \in 1 .. m : t[i] \in Entry
    BY <1>2, ElementOfSeq
  <2> HIDE DEF m
  <2>2. /\ h \in Seq(Entry) /\ Len(h) = IF 1 <= m THEN m - 1 + 1 ELSE 0
        /\ \A i \in 1 .. m - 1 + 1 : h[i] = t[1 + i - 1]
    BY <1>1, <2>1, SubSeqProperties
  <2>3. /\ (IF 1 <= m THEN m - 1 + 1 ELSE 0) = m
        /\ \A i \in 1 .. m : i \in 1 .. m - 1 + 1 /\ 1 + i - 1 = i
    BY <1>1
  <2>4. QED BY <2>2, <2>3
<1> HIDE DEF h
<1>4. \A i \in 1 .. m : h[i] = s[i]
  BY <1>2, <1>3 DEF Begins
<1>5. h = s
  BY <1>3, <1>4, SeqEqual
<1>6. QED BY <1>5 DEF IsPrefixOf, h

----------------------------------------------------------------------------
\* What the code schedules, writes and applies never breaks the invariant.
THEOREM RuntimeInvariant == Spec => []RuntimeInductive
<1>1. Init => RuntimeInductive
  BY RuntimeInductiveInit
<1>2. RuntimeInductive /\ [Next]_vars => RuntimeInductive'
  BY RuntimeInductiveStep
<1>3. QED BY <1>1, <1>2, PTL DEF Spec

\* The state machine of the node holds the first entries of its storage, whatever
\* the three threads and the callers do in whatever order and whichever storage
\* calls fail: RaftRuntime::ScheduleApplyWork schedules stable entries only, and
\* an entry is stable only after the write that stored it was confirmed.
THEOREM AppliedStored == Spec => []AppliedIsDurable
<1>1. RuntimeInductive => AppliedIsDurable
  <2> SUFFICES ASSUME RuntimeInductive
               PROVE  AppliedIsDurable
    OBVIOUS
  <2>1. Len(machine) <= Len(disk.entries)
    BY Beginnings
  <2>2. QED BY <2>1, Beginnings, Waiting, BeginsBoth DEF AppliedIsDurable
<1>2. QED BY <1>1, RuntimeInvariant, PTL

\* Every command at or below the applied index is in the state machine at its own
\* place: RaftCore::ConfirmApplied moves the index by one at a time, and only for
\* a completion that says the entry was applied.
THEOREM AppliedIndexTrue == Spec => []AppliedIndexIsTrue
<1>1. RuntimeInductive => AppliedIndexIsTrue
  <2> SUFFICES ASSUME RuntimeInductive, NEW i \in 1 .. core.applied,
                      core.log[i].kind = "COMMAND"
               PROVE  i \in DOMAIN machine /\ machine[i] = core.log[i]
    BY DEF AppliedIndexIsTrue
  <2>1. i \in 1 .. Len(machine) /\ DOMAIN machine = 1 .. Len(machine)
    BY Beginnings, LenProperties
  <2>2. QED BY <2>1, Waiting DEF Begins
<1>2. QED BY <1>1, RuntimeInvariant, PTL

\* A success told to a caller of RaftRuntime::EnqueueProposal is true: its own
\* command, not another, has been stored and applied by then, and stays so.
THEOREM SuccessTrue == Spec => []SuccessIsApplied
<1>1. RuntimeInductive => SuccessIsApplied
  <2> SUFFICES ASSUME RuntimeInductive, NEW p \in Proposal, TRUE \in Statuses(p)
               PROVE  /\ \E k \in DOMAIN machine : machine[k].id = p
                      /\ \E k \in DOMAIN disk.entries : disk.entries[k] = CommandEntry(p)
    BY DEF SuccessIsApplied
  <2>1. emitted[p] \in Seq(ResultFor(p, machine))
    BY Beginnings
  <2>2. PICK j \in DOMAIN emitted[p] : emitted[p][j].ok = TRUE
    BY DEF Statuses
  <2>3. emitted[p][j] \in ResultFor(p, machine)
    <3> DEFINE s == emitted[p]
               T == ResultFor(p, machine)
    <3>1. s \in Seq(T) /\ j \in DOMAIN s
      BY <2>1, <2>2
    <3> HIDE DEF s, T
    <3>2. j \in 1 .. Len(s)
      BY <3>1, LenProperties
    <3>3. s[j] \in T
      BY <3>1, <3>2, ElementOfSeq
    <3>4. QED BY <3>3 DEF s, T
  <2>4. PICK i \in 1 .. Len(machine) : machine[i] = CommandEntry(p)
    BY <2>2, <2>3 DEF ResultFor
  <2>5. i \in 1 .. Len(disk.entries)
    BY Beginnings
  <2>6. i \in 1 .. Len(core.log)
    BY Beginnings
  <2>7. disk.entries[i] = CommandEntry(p)
    BY <2>4, <2>5, Waiting DEF Begins
  <2>8. /\ DOMAIN machine = 1 .. Len(machine)
        /\ DOMAIN disk.entries = 1 .. Len(disk.entries)
    BY Beginnings, LenProperties
  <2>9. machine[i].id = p
    BY <2>4 DEF CommandEntry
  <2>10. QED BY <2>4, <2>5, <2>7, <2>8, <2>9
<1>2. QED BY <1>1, RuntimeInvariant, PTL
=============================================================================
