---------------------------- MODULE ProcessProofs ----------------------------
(***************************************************************************)
(* Proofs about one process: what it leaves on the disk and what it does   *)
(* between its start and its end.                                          *)
(*                                                                         *)
(* The files (FileStorage): whatever call a crash or an error cuts short,  *)
(* the next process opens them, finds the log as the calls made it, and    *)
(* sees a storage that does each operation at once and cannot crash        *)
(* (DurableStorage).                                                       *)
(*                                                                         *)
(* The calls and the threads (RpcExchange, ServerApplication): a peer's     *)
(* answers are taken in the order of its requests, and the main thread     *)
(* leaves behind nothing that runs.                                        *)
(***************************************************************************)
EXTENDS FileStorage, ServerApplication, SequenceTheorems, FiniteSetTheorems, TLAPS

\* A log from index 1 on: each record stands at its own index.
Indexed(h) == h \in Seq(Record) /\ \A k \in 1 .. Len(h) : h[k].index = k

\* The records of h above index i, as a log whose snapshot is at i holds them.
Suffix(h, i) == SubSeq(h, i + 1, Len(h))

\* The snapshot of the first i entries of h.
SnapshotOf(h, i) == IF i = 0 THEN << >> ELSE <<h[i]>>

\* The copy in memory of log h with hard state d and the snapshot at m.
Remembered(h, d, m) ==
    [open |-> TRUE, hard |-> d, entries |-> Suffix(h, m), snapshot |-> SnapshotOf(h, m)]

DiskHard == IF files["hard"] = << >> THEN NoHardState ELSE files["hard"][1]

\* The file of the log begins above index s, its snapshot is at b.
OnDisk(s, b) ==
    /\ Indexed(history)
    /\ files = [hard |-> files["hard"], log |-> Suffix(history, s),
                snapshot |-> SnapshotOf(history, b)]
    /\ files["hard"] = << >> \/ \E d \in HardState : files["hard"] = <<d>>
    /\ DiskHard.commit \in b .. Len(history)

\* The calls under way, by what they will leave in memory and in the log.
Saving ==
    \E d \in HardState :
        /\ d.term >= memory.hard.term /\ d.commit \in memory.hard.commit .. Len(history)
        /\ call.todo = <<Replacement("hard", <<d>>)>>
        /\ call.memory = [memory EXCEPT !.hard = d] /\ call.log = history

Logging(m) ==
    /\ Indexed(call.log)
    /\ \/ /\ Len(call.log) > Len(history)
          /\ SubSeq(call.log, 1, Len(history)) = history
       \/ /\ Len(call.log) \in memory.hard.commit .. Len(history)
          /\ SubSeq(history, 1, Len(call.log)) = call.log
    /\ call.todo = <<Replacement("log", Suffix(call.log, m))>>
    /\ call.memory = [memory EXCEPT !.entries = Suffix(call.log, m)]

Compacting(m, b) ==
    \E i \in 1 .. memory.hard.commit :
        /\ m <= i /\ call.log = history
        /\ call.memory = [memory EXCEPT !.snapshot = <<history[i]>>,
                                        !.entries = Suffix(history, i)]
        /\ \/ call.todo = SnapshotReplacements(<<history[i]>>, Suffix(history, i))
           \/ i = b /\ call.todo = <<Replacement("log", Suffix(history, i))>>

UnderWay(m, b) ==
    /\ memory.open
    /\ call = [todo |-> call.todo, stage |-> call.stage, memory |-> call.memory,
               log |-> call.log]
    /\ call.stage \in {"write", "rename"}
    /\ call.stage = "rename" => temp[Target] = Head(call.todo).data
    /\ Saving \/ Logging(m) \/ Compacting(m, b)

\* The log file may begin below the snapshot of the memory, and that one may be
\* below the snapshot of the disk: a call that failed half-way has left it.
StorageAt(s, m, b) ==
    /\ s <= m /\ m <= b
    /\ OnDisk(s, b) /\ DOMAIN temp = File
    /\ memory = Closed \/ memory = Remembered(history, DiskHard, m)
    /\ call = Idle \/ UnderWay(m, b)

StorageInductive == \E s, m, b \in Nat : StorageAt(s, m, b)

----------------------------------------------------------------------------
\* Parts of sequences.

LEMMA SuffixFacts ==
  ASSUME NEW R, NEW h \in Seq(R), NEW i \in 0 .. Len(h)
  PROVE  /\ Suffix(h, i) \in Seq(R) /\ Len(Suffix(h, i)) = Len(h) - i
         /\ \A k \in 1 .. Len(h) - i : Suffix(h, i)[k] = h[i + k]
<1> DEFINE n == Len(h)
           a == i + 1
           t == SubSeq(h, a, n)
<1>1. n \in Nat /\ a \in Nat
  BY LenProperties
<1>2. \A k \in a .. n : h[k] \in R
  <2>1. \A k \in a .. n : k \in 1 .. n
    BY <1>1
  <2>2. QED BY <2>1, ElementOfSeq
<1> HIDE DEF n, a
<1>3. /\ t \in Seq(R) /\ Len(t) = IF a <= n THEN n - a + 1 ELSE 0
      /\ \A k \in 1 .. n - a + 1 : t[k] = h[a + k - 1]
  BY <1>1, <1>2, SubSeqProperties
<1>4. /\ n - a + 1 = n - i /\ (IF a <= n THEN n - a + 1 ELSE 0) = n - i
      /\ \A k \in 1 .. n - i : a + k - 1 = i + k
  BY <1>1 DEF a, n
<1> HIDE DEF t
<1>5. /\ t \in Seq(R) /\ Len(t) = n - i
      /\ \A k \in 1 .. n - i : t[k] = h[i + k]
  BY <1>3, <1>4
<1>6. QED BY <1>5 DEF Suffix, t, a, n

LEMMA PrefixFacts ==
  ASSUME NEW R, NEW h \in Seq(R), NEW n \in 0 .. Len(h)
  PROVE  /\ SubSeq(h, 1, n) \in Seq(R) /\ Len(SubSeq(h, 1, n)) = n
         /\ \A k \in 1 .. n : SubSeq(h, 1, n)[k] = h[k]
<1>1. Len(h) \in Nat
  BY LenProperties
<1>2. \A k \in 1 .. n : h[k] \in R
  BY <1>1, ElementOfSeq
<1>3. /\ SubSeq(h, 1, n) \in Seq(R)
      /\ Len(SubSeq(h, 1, n)) = IF 1 <= n THEN n - 1 + 1 ELSE 0
      /\ \A k \in 1 .. n - 1 + 1 : SubSeq(h, 1, n)[k] = h[1 + k - 1]
  BY <1>1, <1>2, SubSeqProperties
<1>4. /\ n - 1 + 1 = n /\ (IF 1 <= n THEN n - 1 + 1 ELSE 0) = n
      /\ \A k \in 1 .. n : 1 + k - 1 = k
  BY <1>1
<1>5. QED BY <1>3, <1>4

\* A sequence of nothing, and one of everything.
LEMMA WholeAndNothing ==
  ASSUME NEW R, NEW h \in Seq(R)
  PROVE  /\ Suffix(h, Len(h)) = << >> /\ SubSeq(h, 1, Len(h)) = h
         /\ SubSeq(h, Len(h) + 1, Len(h)) = << >>
<1> DEFINE n == Len(h)
<1>1. n \in 0 .. n /\ n \in Nat
  BY LenProperties
<1>2. Suffix(h, n) \in Seq(R) /\ Len(Suffix(h, n)) = 0
  BY <1>1, SuffixFacts
<1>3. Suffix(h, n) = << >>
  BY <1>2, EmptySeq
<1>4. /\ SubSeq(h, 1, n) \in Seq(R) /\ Len(SubSeq(h, 1, n)) = n
      /\ \A k \in 1 .. n : SubSeq(h, 1, n)[k] = h[k]
  BY <1>1, PrefixFacts
<1> HIDE DEF n
<1>5. SubSeq(h, 1, n) = h
  <2>1. Len(h) = n
    BY DEF n
  <2>2. QED BY <1>4, <2>1, SeqEqual
<1>6. QED BY <1>3, <1>5 DEF n, Suffix

LEMMA SuffixOfSuffix ==
  ASSUME NEW R, NEW h \in Seq(R), NEW i \in 0 .. Len(h), NEW j \in i .. Len(h)
  PROVE  Suffix(Suffix(h, i), j - i) = Suffix(h, j)
<1> DEFINE t == Suffix(h, i)
           u == Suffix(t, j - i)
           v == Suffix(h, j)
           n == Len(h)
<1>1. n \in Nat /\ j \in 0 .. n
  BY LenProperties
<1>2. t \in Seq(R) /\ Len(t) = n - i /\ \A k \in 1 .. n - i : t[k] = h[i + k]
  BY SuffixFacts
<1>3. v \in Seq(R) /\ Len(v) = n - j /\ \A k \in 1 .. n - j : v[k] = h[j + k]
  BY <1>1, SuffixFacts
<1> HIDE DEF t, v
<1>4. j - i \in 0 .. Len(t) /\ Len(t) - (j - i) = n - j
  BY <1>1, <1>2
<1>5. /\ u \in Seq(R) /\ Len(u) = Len(t) - (j - i)
      /\ \A k \in 1 .. Len(t) - (j - i) : u[k] = t[j - i + k]
  BY <1>2, <1>4, SuffixFacts
<1>6. \A k \in 1 .. n - j : j - i + k \in 1 .. n - i /\ i + (j - i + k) = j + k
  BY <1>1
<1> HIDE DEF u, n
<1>7. \A k \in 1 .. n - j : u[k] = v[k]
  BY <1>2, <1>3, <1>4, <1>5, <1>6
<1>8. u = v
  BY <1>3, <1>4, <1>5, <1>7, SeqEqual
<1>9. QED BY <1>8 DEF t, u, v

LEMMA SuffixOfConcat ==
  ASSUME NEW R, NEW h \in Seq(R), NEW i \in 0 .. Len(h), NEW e \in Seq(R)
  PROVE  Suffix(h \o e, i) = Suffix(h, i) \o e
<1> DEFINE l == h \o e
           n == Len(h)
           m == Len(e)
           t == Suffix(h, i)
           u == Suffix(l, i)
           v == t \o e
<1>1. n \in Nat /\ m \in Nat /\ i \in Nat /\ i <= n
  BY LenProperties
<1>2. t \in Seq(R) /\ Len(t) = n - i /\ \A k \in 1 .. n - i : t[k] = h[i + k]
  BY SuffixFacts
<1>3. /\ l \in Seq(R) /\ Len(l) = n + m
      /\ \A k \in 1 .. n + m : l[k] = IF k <= n THEN h[k] ELSE e[k - n]
  BY ConcatProperties
<1> HIDE DEF t, l
<1>4. i \in 0 .. Len(l)
  BY <1>1, <1>3
<1>5. /\ u \in Seq(R) /\ Len(u) = n + m - i
      /\ \A k \in 1 .. n + m - i : u[k] = l[i + k]
  <2>1. /\ u \in Seq(R) /\ Len(u) = Len(l) - i
        /\ \A k \in 1 .. Len(l) - i : u[k] = l[i + k]
    BY <1>3, <1>4, SuffixFacts
  <2>2. QED BY <2>1, <1>3
<1>6. /\ v \in Seq(R) /\ Len(v) = Len(t) + m
      /\ \A k \in 1 .. Len(t) + m : v[k] = IF k <= Len(t) THEN t[k] ELSE e[k - Len(t)]
  BY <1>2, ConcatProperties
<1>7. Len(t) + m = n + m - i
  BY <1>1, <1>2
<1> HIDE DEF u, v
<1>8. ASSUME NEW k \in 1 .. n + m - i
      PROVE  u[k] = v[k]
  <2>1. u[k] = l[i + k] /\ v[k] = IF k <= Len(t) THEN t[k] ELSE e[k - Len(t)]
    BY <1>5, <1>6, <1>7
  <2>2. /\ i + k \in 1 .. n + m /\ (k <= Len(t) <=> i + k <= n) /\ (i + k) - n = k - Len(t)
        /\ (k <= Len(t) => k \in 1 .. n - i)
    <3> HIDE DEF n, m
    <3>1. QED BY <1>1, <1>2
  <2> HIDE DEF n, m
  <2>3. CASE k <= Len(t)
    BY <2>1, <2>2, <2>3, <1>2, <1>3
  <2>4. CASE ~(k <= Len(t))
    <3>1. l[i + k] = e[(i + k) - n]
      <4>1. \A j \in 1 .. n + m : ~(j <= n) => l[j] = e[j - n]
        BY <1>3
      <4>2. i + k \in 1 .. n + m /\ ~(i + k <= n)
        BY <2>2, <2>4
      <4>3. QED BY <4>1, <4>2
    <3>2. e[(i + k) - n] = e[k - Len(t)]
      BY <2>2
    <3>3. QED BY <2>1, <2>4, <3>1, <3>2
  <2>5. QED BY <2>3, <2>4
<1>9. u = v
  BY <1>5, <1>6, <1>7, <1>8, SeqEqual
<1>10. QED BY <1>9 DEF l, t, u, v

\* A log one of whose beginnings is h.
LEMMA GrownAndCut ==
  ASSUME NEW h \in Seq(Record), NEW e \in Seq(Record), Indexed(h),
         \A k \in 1 .. Len(e) : e[k].index = Len(h) + k
  PROVE  Indexed(h \o e) /\ SubSeq(h \o e, 1, Len(h)) = h /\ Len(h \o e) = Len(h) + Len(e)
<1> DEFINE l == h \o e
           n == Len(h)
           m == Len(e)
<1>1. n \in Nat /\ m \in Nat
  BY LenProperties
<1>2. /\ l \in Seq(Record) /\ Len(l) = n + m
      /\ \A k \in 1 .. n + m : l[k] = IF k <= n THEN h[k] ELSE e[k - n]
  BY ConcatProperties
<1> HIDE DEF l
<1>3. \A k \in 1 .. n + m : l[k].index = k
  <2> SUFFICES ASSUME NEW k \in 1 .. n + m
               PROVE  l[k].index = k
    OBVIOUS
  <2>1. k \in 1 .. n \/ (k - n \in 1 .. m /\ ~(k <= n) /\ n + (k - n) = k)
    BY <1>1
  <2>2. CASE k \in 1 .. n
    <3>1. l[k] = h[k]
      BY <1>2, <2>2
    <3>2. QED BY <3>1, <2>2 DEF Indexed
  <2>3. CASE k - n \in 1 .. m /\ ~(k <= n) /\ n + (k - n) = k
    BY <1>2, <2>3
  <2>4. QED BY <2>1, <2>2, <2>3
<1>4. Indexed(l)
  BY <1>2, <1>3 DEF Indexed
<1>5. SubSeq(l, 1, n) = h
  <2>1. n \in 0 .. Len(l)
    BY <1>1, <1>2
  <2>2. /\ SubSeq(l, 1, n) \in Seq(Record) /\ Len(SubSeq(l, 1, n)) = n
        /\ \A k \in 1 .. n : SubSeq(l, 1, n)[k] = l[k]
    BY <1>2, <2>1, PrefixFacts
  <2>3. \A k \in 1 .. n : l[k] = h[k]
    BY <1>1, <1>2
  <2> DEFINE p == SubSeq(l, 1, n)
  <2> HIDE DEF p
  <2>4. Len(p) = Len(h) /\ \A k \in 1 .. Len(p) : p[k] = h[k]
    BY <2>2, <2>3 DEF p
  <2>5. p = h
    BY <2>2, <2>4, SeqEqual DEF p
  <2>6. QED BY <2>5 DEF p
<1>6. QED BY <1>2, <1>4, <1>5 DEF l

----------------------------------------------------------------------------
\* The records above and below an index, of a log that begins above index o.

LEMMA AboveFacts ==
  ASSUME NEW r \in Seq(Record), NEW o \in Nat,
         \A k \in 1 .. Len(r) : r[k].index = o + k,
         NEW i \in Nat, o <= i
  PROVE  /\ i - o <= Len(r) => Above(i, r) = Suffix(r, i - o)
         /\ i - o > Len(r) => Above(i, r) = << >>
<1> DEFINE n == Len(r)
           c == i - o
           D == {k \in DOMAIN r : r[k].index > i}
<1>1. n \in Nat /\ c \in Nat /\ DOMAIN r = 1 .. n
  BY LenProperties
<1>2. D = c + 1 .. n
  <2>1. ASSUME NEW k \in 1 .. n
        PROVE  r[k].index > i <=> k \in c + 1 .. n
    BY <1>1
  <2>2. \A k \in c + 1 .. n : k \in 1 .. n
    BY <1>1
  <2>3. QED BY <1>1, <2>1, <2>2
<1> HIDE DEF c, n, D
<1>3. Cardinality(D) = IF c + 1 > n THEN 0 ELSE n - (c + 1) + 1
  <2>1. c + 1 \in Int /\ n \in Int
    BY <1>1
  <2>2. QED BY <1>2, <2>1, FS_Interval
<1>4. Above(i, r) = SubSeq(r, n - Cardinality(D) + 1, n)
  BY DEF Above, n, D
<1>5. CASE c <= n
  <2>1. n - Cardinality(D) + 1 = c + 1
    BY <1>1, <1>3, <1>5
  <2>2. Above(i, r) = Suffix(r, c)
    BY <1>4, <2>1 DEF Suffix, n
  <2>3. ~(c > n)
    BY <1>1, <1>5
  <2>4. QED BY <2>2, <2>3 DEF c, n
<1>6. CASE c > n
  <2>1. n - Cardinality(D) + 1 = n + 1
    BY <1>1, <1>3, <1>6
  <2>2. Above(i, r) = << >>
    BY <1>4, <2>1, WholeAndNothing DEF n
  <2>3. ~(c <= n)
    BY <1>1, <1>6
  <2>4. QED BY <2>2, <2>3 DEF c, n
<1>7. QED BY <1>1, <1>5, <1>6

LEMMA AboveSuffix ==
  ASSUME NEW h, Indexed(h), NEW s \in 0 .. Len(h), NEW b \in s .. Len(h)
  PROVE  Above(b, Suffix(h, s)) = Suffix(h, b)
<1> DEFINE r == Suffix(h, s)
<1>1. h \in Seq(Record) /\ Len(h) \in Nat /\ s \in Nat /\ b \in Nat
  BY LenProperties DEF Indexed
<1>2. r \in Seq(Record) /\ Len(r) = Len(h) - s /\ \A k \in 1 .. Len(h) - s : r[k] = h[s + k]
  BY <1>1, SuffixFacts
<1> HIDE DEF r
<1>3. \A k \in 1 .. Len(r) : r[k].index = s + k
  <2>1. \A k \in 1 .. Len(h) - s : s + k \in 1 .. Len(h)
    BY <1>1
  <2>2. QED BY <1>2, <2>1 DEF Indexed
<1>4. s <= b /\ b - s <= Len(r)
  BY <1>1, <1>2
<1>5. Above(b, r) = Suffix(r, b - s)
  BY <1>1, <1>2, <1>3, <1>4, AboveFacts
<1>6. QED BY <1>1, <1>5, SuffixOfSuffix DEF r

LEMMA BelowSuffix ==
  ASSUME NEW h, Indexed(h), NEW m \in 0 .. Len(h), NEW i \in m + 1 .. Len(h)
  PROVE  Below(i, Suffix(h, m)) = Suffix(SubSeq(h, 1, i - 1), m)
<1> DEFINE r == Suffix(h, m)
           n == Len(r)
           D == {k \in DOMAIN r : r[k].index < i}
           p == SubSeq(h, 1, i - 1)
           u == SubSeq(r, 1, i - 1 - m)
           v == Suffix(p, m)
<1>1. h \in Seq(Record) /\ Len(h) \in Nat /\ m \in Nat /\ i \in Nat
  BY LenProperties DEF Indexed
<1>2. /\ r \in Seq(Record) /\ n = Len(h) - m /\ \A k \in 1 .. Len(h) - m : r[k] = h[m + k]
      /\ DOMAIN r = 1 .. n
  BY <1>1, SuffixFacts, LenProperties
<1> HIDE DEF r
<1>3. D = 1 .. i - 1 - m
  <2>1. ASSUME NEW k \in 1 .. n
        PROVE  r[k].index < i <=> k \in 1 .. i - 1 - m
    <3>1. r[k].index = m + k
      <4>1. m + k \in 1 .. Len(h)
        BY <1>1, <1>2
      <4>2. QED BY <1>2, <4>1 DEF Indexed
    <3>2. QED BY <1>1, <3>1
  <2>2. \A k \in 1 .. i - 1 - m : k \in 1 .. n
    BY <1>1, <1>2
  <2>3. QED BY <1>2, <2>1, <2>2
<1> HIDE DEF n, D
<1>4. Cardinality(D) = i - 1 - m
  <2>1. 1 \in Int /\ i - 1 - m \in Int /\ i - 1 - m >= 0
    BY <1>1
  <2>2. Cardinality(D) = IF 1 > i - 1 - m THEN 0 ELSE i - 1 - m - 1 + 1
    BY <1>3, <2>1, FS_Interval
  <2>3. QED BY <2>1, <2>2
<1>5. Below(i, r) = u
  BY <1>4 DEF Below, D
<1>6. u \in Seq(Record) /\ Len(u) = i - 1 - m /\ \A k \in 1 .. i - 1 - m : u[k] = r[k]
  <2>1. i - 1 - m \in 0 .. Len(r)
    BY <1>1, <1>2 DEF n
  <2>2. QED BY <1>2, <2>1, PrefixFacts
<1>7. p \in Seq(Record) /\ Len(p) = i - 1 /\ \A k \in 1 .. i - 1 : p[k] = h[k]
  <2>1. i - 1 \in 0 .. Len(h)
    BY <1>1
  <2>2. QED BY <1>1, <2>1, PrefixFacts
<1> HIDE DEF p, u
<1>8. /\ v \in Seq(Record) /\ Len(v) = i - 1 - m
      /\ \A k \in 1 .. i - 1 - m : v[k] = p[m + k]
  <2>1. m \in 0 .. Len(p)
    BY <1>1, <1>7
  <2>2. /\ v \in Seq(Record) /\ Len(v) = Len(p) - m
        /\ \A k \in 1 .. Len(p) - m : v[k] = p[m + k]
    BY <1>7, <2>1, SuffixFacts
  <2>3. QED BY <2>2, <1>7
<1> HIDE DEF v
<1>9. \A k \in 1 .. i - 1 - m : u[k] = v[k]
  <2>1. \A k \in 1 .. i - 1 - m : k \in 1 .. Len(h) - m /\ m + k \in 1 .. i - 1
    BY <1>1
  <2>2. QED BY <1>2, <1>6, <1>7, <1>8, <2>1
<1>10. u = v
  BY <1>6, <1>8, <1>9, SeqEqual
<1>11. QED BY <1>5, <1>10 DEF r, p, u, v

----------------------------------------------------------------------------
\* What the memory of a log says, and what a load finds.

LEMMA BoundsTypes == MaxTerm \in Nat /\ MaxIndex \in Nat /\ NoHardState \in HardState
<1>1. MaxTerm \in Nat /\ MaxIndex \in Nat
  BY BoundsAssumption
<1>2. QED BY <1>1 DEF NoHardState, HardState

LEMMA BaseIs ==
  ASSUME NEW h, Indexed(h), NEW b \in 0 .. Len(h), NEW mem, mem.snapshot = SnapshotOf(h, b)
  PROVE  /\ SnapshotIndex(mem) = b
         /\ b = 0 => mem.snapshot = << >>
         /\ b # 0 => mem.snapshot = <<h[b]>> /\ mem.snapshot # << >> /\ mem.snapshot[1] = h[b]
<1>1. CASE b = 0
  BY <1>1 DEF SnapshotIndex, SnapshotOf
<1>2. CASE b # 0
  <2>1. b \in 1 .. Len(h)
    BY <1>2, LenProperties DEF Indexed
  <2>2. mem.snapshot = <<h[b]>> /\ <<h[b]>> # << >>
    BY <1>2 DEF SnapshotOf
  <2>3. h[b].index = b
    BY <2>1 DEF Indexed
  <2>4. QED BY <1>2, <2>2, <2>3 DEF SnapshotIndex
<1>3. QED BY <1>1, <1>2

LEMMA MemoryFacts ==
  ASSUME NEW h, Indexed(h), NEW m \in 0 .. Len(h), NEW mem,
         mem.snapshot = SnapshotOf(h, m), mem.entries = Suffix(h, m)
  PROVE  /\ SnapshotIndex(mem) = m /\ LastLogIndex(mem) = Len(h)
         /\ \A i : HasEntry(mem, i) <=> i \in m + 1 .. Len(h)
         /\ \A i \in m + 1 .. Len(h) : EntryAt(mem, i) = h[i]
<1> DEFINE n == Len(h)
           t == Suffix(h, m)
<1>1. h \in Seq(Record) /\ n \in Nat /\ m \in Nat /\ m <= n
  BY LenProperties DEF Indexed
<1>2. t \in Seq(Record) /\ Len(t) = n - m /\ \A k \in 1 .. n - m : t[k] = h[m + k]
  BY <1>1, SuffixFacts
<1> HIDE DEF t
<1>3. SnapshotIndex(mem) = m
  BY BaseIs
<1>4. \A i \in m + 1 .. n : EntryAt(mem, i) = h[i]
  <2> SUFFICES ASSUME NEW i \in m + 1 .. n
               PROVE  t[i - m] = h[i]
    BY <1>3 DEF EntryAt, t
  <2>1. i - m \in 1 .. n - m /\ m + (i - m) = i
    BY <1>1
  <2>2. t[i - m] = h[m + (i - m)]
    BY <1>2, <2>1
  <2>3. QED BY <2>1, <2>2
<1>5. CASE m = n
  <2>1. t = << >>
    BY <1>1, <1>5, WholeAndNothing DEF t
  <2>2. mem.entries = << >>
    BY <2>1 DEF t
  <2>3. \A i : ~(i \in m + 1 .. n)
    BY <1>1, <1>5
  <2>4. QED BY <1>3, <1>4, <1>5, <2>2, <2>3 DEF LastLogIndex, HasEntry
<1>6. CASE m # n
  <2>1. Len(t) # 0 /\ Len(t) \in 1 .. n - m /\ m + Len(t) = n
    BY <1>1, <1>2, <1>6
  <2>2. t # << >>
    BY <2>1
  <2>3. t[Len(t)] = h[n]
    BY <1>2, <2>1
  <2>4. h[n].index = n
    BY <1>1, <1>6 DEF Indexed
  <2>5. Last(mem.entries).index = n /\ mem.entries # << >>
    BY <2>2, <2>3, <2>4 DEF Last, t
  <2>6. QED BY <1>3, <1>4, <2>5 DEF LastLogIndex, HasEntry
<1>7. QED BY <1>5, <1>6

LEMMA TermFacts ==
  ASSUME NEW h, Indexed(h), NEW m \in 0 .. Len(h), NEW mem,
         mem.snapshot = SnapshotOf(h, m), mem.entries = Suffix(h, m),
         NEW i, NEW t, HasTermAt(mem, i, t)
  PROVE  i \in 1 .. Len(h) /\ m <= i /\ t = h[i].term
<1>1. /\ SnapshotIndex(mem) = m
      /\ HasEntry(mem, i) <=> i \in m + 1 .. Len(h)
      /\ i \in m + 1 .. Len(h) => EntryAt(mem, i) = h[i]
  BY MemoryFacts
<1>2. m \in Nat /\ Len(h) \in Nat
  BY LenProperties DEF Indexed
<1>3. CASE mem.snapshot # << >> /\ i = SnapshotIndex(mem) /\ t = mem.snapshot[1].term
  <2>1. m # 0 /\ mem.snapshot[1] = h[m]
    BY <1>3, BaseIs
  <2>2. QED BY <1>1, <1>2, <1>3, <2>1
<1>4. CASE HasEntry(mem, i) /\ t = EntryAt(mem, i).term
  BY <1>1, <1>2, <1>4
<1>5. QED BY <1>3, <1>4 DEF HasTermAt

LEMMA DiskFacts ==
  ASSUME NEW s \in Nat, NEW b \in Nat, OnDisk(s, b), s <= b
  PROVE  /\ history \in Seq(Record) /\ Len(history) \in Nat
         /\ s \in 0 .. Len(history) /\ b \in s .. Len(history) /\ b \in 0 .. Len(history)
         /\ DiskHard \in HardState /\ DiskHard.commit \in Nat /\ DiskHard.term \in Nat
         /\ b <= DiskHard.commit /\ DiskHard.commit <= Len(history)
         /\ files["log"] = Suffix(history, s) /\ files["snapshot"] = SnapshotOf(history, b)
<1>1. history \in Seq(Record) /\ Len(history) \in Nat
  BY LenProperties DEF OnDisk, Indexed
<1>2. DiskHard \in HardState
  BY BoundsTypes DEF OnDisk, DiskHard
<1>3. DiskHard.commit \in Nat /\ DiskHard.term \in Nat
  BY <1>2, BoundsTypes DEF HardState
<1>4. b <= DiskHard.commit /\ DiskHard.commit <= Len(history)
  BY <1>1 DEF OnDisk
<1>5. files["log"] = Suffix(history, s) /\ files["snapshot"] = SnapshotOf(history, b)
  BY DEF OnDisk
<1>6. s \in 0 .. Len(history) /\ b \in s .. Len(history) /\ b \in 0 .. Len(history)
  BY <1>1, <1>3, <1>4
<1>7. QED BY <1>1, <1>2, <1>3, <1>4, <1>5, <1>6

LEMMA LoadedFacts ==
  ASSUME NEW s \in Nat, NEW b \in Nat, OnDisk(s, b), s <= b
  PROVE  Loaded = Remembered(history, DiskHard, b) /\ SnapshotIndex(Loaded) = b
<1> DEFINE c == [snapshot |-> files["snapshot"]]
<1>1. Indexed(history) /\ c.snapshot = SnapshotOf(history, b)
  BY DiskFacts DEF OnDisk
<1>2. SnapshotIndex(c) = b
  <2> HIDE DEF c
  <2>1. QED BY <1>1, DiskFacts, BaseIs
<1>3. Above(b, files["log"]) = Suffix(history, b)
  BY <1>1, DiskFacts, AboveSuffix
<1>4. Loaded = [open |-> TRUE, snapshot |-> SnapshotOf(history, b), hard |-> DiskHard,
                entries |-> Suffix(history, b)]
  BY <1>2, <1>3, DiskFacts DEF Loaded, DiskHard
<1>5. Loaded = Remembered(history, DiskHard, b)
  BY <1>4 DEF Remembered
<1>6. SnapshotIndex(Loaded) = b
  BY <1>1, <1>4, DiskFacts, BaseIs
<1>7. QED BY <1>5, <1>6

LEMMA DiskLoads ==
  ASSUME NEW s \in Nat, NEW b \in Nat, OnDisk(s, b), s <= b
  PROVE  Loads
<1> DEFINE t == Suffix(history, b)
           n == Len(history)
<1>1. /\ Loaded.entries = t /\ Loaded.hard = DiskHard /\ Loaded.snapshot = SnapshotOf(history, b)
      /\ SnapshotIndex(Loaded) = b
  BY LoadedFacts DEF Remembered
<1>2. Indexed(history) /\ n \in Nat /\ b \in 0 .. n
  BY DiskFacts DEF OnDisk
<1>3. LastLogIndex(Loaded) = n
  BY <1>1, <1>2, MemoryFacts
<1>4. t \in Seq(Record) /\ Len(t) = n - b /\ \A k \in 1 .. n - b : t[k] = history[b + k]
  BY <1>2, DiskFacts, SuffixFacts
<1> HIDE DEF t
<1>5. \A k \in 1 .. n - b : t[k].index = b + k
  <2>1. \A k \in 1 .. n - b : b + k \in 1 .. n
    BY <1>2
  <2>2. QED BY <1>2, <1>4, <2>1 DEF Indexed
<1> HIDE DEF n
<1>6. Contiguous(t)
  <2>1. ASSUME NEW k \in 1 .. Len(t) - 1
        PROVE  t[k + 1].index = t[k].index + 1
    <3>1. k \in 1 .. n - b /\ k + 1 \in 1 .. n - b
      BY <1>2, <1>4
    <3>2. t[k].index = b + k /\ t[k + 1].index = b + (k + 1)
      BY <1>5, <3>1
    <3>3. QED BY <1>2, <3>1, <3>2
  <2>2. QED BY <2>1 DEF Contiguous
<1>7. t # << >> => Head(t).index = b + 1
  <2> SUFFICES ASSUME t # << >>
               PROVE  Head(t).index = b + 1
    OBVIOUS
  <2>1. Head(t) = t[1] /\ Len(t) \in Nat \ {0}
    BY <1>4, EmptySeq, HeadTailProperties
  <2>2. 1 \in 1 .. n - b
    BY <1>2, <1>4, <2>1
  <2>3. QED BY <1>5, <2>1, <2>2
<1>8. Len(files["hard"]) <= 1
  <2> DEFINE f == files["hard"]
  <2>1. f = << >> \/ \E d : f = <<d>>
    BY DEF OnDisk
  <2> HIDE DEF f
  <2>2. Len(f) <= 1
    <3>1. CASE f = << >>
      BY <3>1
    <3>2. ASSUME NEW d, f = <<d>>
          PROVE  Len(f) <= 1
      <4>1. Len(<<d>>) = 1
        OBVIOUS
      <4>2. QED BY <3>2, <4>1
    <3>3. QED BY <2>1, <3>1, <3>2
  <2>3. QED BY <2>2 DEF f
<1>9. Loaded.hard.commit \in SnapshotIndex(Loaded) .. LastLogIndex(Loaded)
  BY <1>1, <1>3 DEF OnDisk, n
<1>10. QED BY <1>1, <1>6, <1>7, <1>8, <1>9 DEF Loads

LEMMA LeastExists ==
  ASSUME NEW T, T \subseteq Nat, T # {}
  PROVE  \E n \in T : \A k \in T : n <= k
<1>1. PICK n \in T : \A k \in T : ~(<<k, n>> \in OpToRel(<, Nat))
  BY WFMin, NatLessThanWellFounded, Zenon
<1>2. ASSUME NEW k \in T
      PROVE  n <= k
  <2>1. k \in Nat /\ n \in Nat /\ ~(<<k, n>> \in OpToRel(<, Nat))
    BY <1>1
  <2>2. QED BY <2>1 DEF OpToRel
<1>3. QED BY <1>2

\* The entries of a batch without gaps have the indexes that follow the first.
LEMMA BatchIndexes ==
  ASSUME NEW es \in Seq(Record), Len(es) >= 1, Contiguous(es)
  PROVE  \A k \in 1 .. Len(es) : es[k].index = es[1].index - 1 + k
<1> DEFINE n == Len(es)
           o == es[1].index - 1
           Bad == {k \in 1 .. n : es[k].index # o + k}
<1>1. n \in Nat /\ \A k \in 1 .. n : es[k] \in Record
  BY LenProperties, ElementOfSeq
<1>2. \A k \in 1 .. n : es[k].index \in Nat
  BY <1>1, BoundsTypes DEF Record
<1>3. 1 \in 1 .. n
  BY <1>1
<1>4. o \in Int /\ es[1].index = o + 1
  BY <1>2, <1>3
<1>5. ASSUME Bad # {}
      PROVE  FALSE
  <2>1. Bad \subseteq Nat
    BY <1>1
  <2> HIDE DEF Bad
  <2>2. PICK k \in Bad : \A j \in Bad : k <= j
    BY <1>5, <2>1, LeastExists
  <2>3. k \in 1 .. n /\ es[k].index # o + k
    BY <2>2 DEF Bad
  <2>4. k # 1
    BY <1>4, <2>3
  <2>5. k - 1 \in 1 .. n /\ k - 1 \in 1 .. n - 1 /\ ~(k <= k - 1) /\ k - 1 + 1 = k
    BY <1>1, <2>3, <2>4
  <2>6. k - 1 \notin Bad
    BY <2>2, <2>5
  <2>7. es[k - 1].index = o + (k - 1)
    BY <2>5, <2>6 DEF Bad
  <2>8. es[k].index = es[k - 1].index + 1
    BY <2>5 DEF Contiguous
  <2>9. es[k].index = o + k
    <3> HIDE DEF o, n
    <3>1. QED BY <1>4, <2>3, <2>7, <2>8
  <2>10. QED BY <2>3, <2>9
<1>6. QED BY <1>5

----------------------------------------------------------------------------
\* What StorageAt says of a storage that is open.
LEMMA AtFacts ==
  ASSUME NEW s \in Nat, NEW m \in Nat, NEW b \in Nat, StorageAt(s, m, b)
  PROVE  /\ s <= m /\ m <= b /\ s <= b /\ OnDisk(s, b) /\ Indexed(history)
         /\ m \in 0 .. Len(history) /\ b \in m .. Len(history)
         /\ m <= DiskHard.commit
         /\ memory.open =>
               /\ memory = Remembered(history, DiskHard, m)
               /\ memory.hard = DiskHard /\ memory.entries = Suffix(history, m)
               /\ memory.snapshot = SnapshotOf(history, m)
               /\ SnapshotIndex(memory) = m /\ LastLogIndex(memory) = Len(history)
<1>1. s <= m /\ m <= b /\ s <= b /\ OnDisk(s, b) /\ Indexed(history)
  BY DEF StorageAt, OnDisk
<1>2. /\ m \in 0 .. Len(history) /\ b \in m .. Len(history) /\ m <= DiskHard.commit
  BY <1>1, DiskFacts
<1>3. ASSUME memory.open
      PROVE  /\ memory = Remembered(history, DiskHard, m)
             /\ memory.hard = DiskHard /\ memory.entries = Suffix(history, m)
             /\ memory.snapshot = SnapshotOf(history, m)
  <2>1. memory # Closed
    BY <1>3 DEF Closed
  <2>2. memory = Remembered(history, DiskHard, m)
    BY <2>1 DEF StorageAt
  <2>3. QED BY <2>2 DEF Remembered
<1>4. memory.open => SnapshotIndex(memory) = m /\ LastLogIndex(memory) = Len(history)
  BY <1>1, <1>2, <1>3, MemoryFacts
<1>5. QED BY <1>1, <1>2, <1>3, <1>4

\* A call that starts changes nothing but what is under way.
LEMMA StartKeeps ==
  ASSUME NEW s \in Nat, NEW m \in Nat, NEW b \in Nat, StorageAt(s, m, b),
         NEW todo, NEW after, NEW log, Begin(todo, after, log),
         (Saving \/ Logging(m) \/ Compacting(m, b))'
  PROVE  StorageAt(s, m, b)'
<1>1. /\ memory.open /\ files' = files /\ temp' = temp /\ memory' = memory /\ history' = history
      /\ call' = [todo |-> todo, stage |-> "write", memory |-> after, log |-> log]
  BY DEF Begin
<1>2. UnderWay(m, b)'
  BY <1>1 DEF UnderWay
<1>3. OnDisk(s, b)' /\ DiskHard' = DiskHard
  BY <1>1 DEF StorageAt, OnDisk, DiskHard
<1>4. QED BY <1>1, <1>2, <1>3 DEF StorageAt

LEMMA SaveHardStateStarts ==
  ASSUME NEW s \in Nat, NEW m \in Nat, NEW b \in Nat, StorageAt(s, m, b),
         NEW h \in HardState, SaveHardState(h)
  PROVE  StorageAt(s, m, b)'
<1>1. Begin(<<Replacement("hard", <<h>>)>>, [memory EXCEPT !.hard = h], history)
  BY DEF SaveHardState
<1>2. /\ memory.open /\ memory' = memory /\ history' = history
      /\ call'.todo = <<Replacement("hard", <<h>>)>>
      /\ call'.memory = [memory EXCEPT !.hard = h] /\ call'.log = history
  BY <1>1 DEF Begin
<1>3. h.term >= memory.hard.term /\ h.commit \in memory.hard.commit .. Len(history)
  BY <1>2, AtFacts DEF SaveHardState, ValidHardState
<1>4. Saving'
  BY <1>2, <1>3 DEF Saving
<1>5. QED BY <1>1, <1>4, StartKeeps

LEMMA AppendEntriesStarts ==
  ASSUME NEW s \in Nat, NEW m \in Nat, NEW b \in Nat, StorageAt(s, m, b),
         NEW es \in Batch, AppendEntries(es)
  PROVE  StorageAt(s, m, b)'
<1> DEFINE new == Above(LastLogIndex(memory), es)
           l == history \o new
           all == memory.entries \o new
           n == Len(history)
           o == es[1].index - 1
<1>1. /\ Begin(<<Replacement("log", all)>>, [memory EXCEPT !.entries = all], l)
      /\ Contiguous(es) /\ new # << >>
      /\ es[1].index \in SnapshotIndex(memory) + 1 .. LastLogIndex(memory) + 1
  BY DEF AppendEntries, ValidEntryBatch
<1>2. /\ memory.open /\ memory' = memory /\ history' = history
      /\ call'.todo = <<Replacement("log", all)>>
      /\ call'.memory = [memory EXCEPT !.entries = all] /\ call'.log = l
  BY <1>1 DEF Begin
<1>3. es \in Seq(Record) /\ Len(es) >= 1
  <2>1. PICK k \in 1 .. MaxBatch : es \in [1 .. k -> Record]
    BY DEF Batch
  <2>2. k \in Nat /\ k >= 1
    BY <2>1, BoundsAssumption
  <2>3. es \in Seq(Record) /\ Len(es) = k
    BY <2>1, <2>2, SeqDef
  <2>4. QED BY <2>2, <2>3
<1>4. /\ SnapshotIndex(memory) = m /\ LastLogIndex(memory) = n /\ history \in Seq(Record)
      /\ n \in Nat /\ Indexed(history) /\ memory.entries = Suffix(history, m)
      /\ m \in 0 .. n
  BY <1>2, AtFacts, LenProperties DEF Indexed
<1>5. o \in Nat /\ o <= n
  BY <1>1, <1>4
<1>6. \A k \in 1 .. Len(es) : es[k].index = o + k
  BY <1>1, <1>3, BatchIndexes
<1> HIDE DEF o
<1>7. Len(es) \in Nat
  BY <1>3, LenProperties
<1>8. n - o <= Len(es) /\ new = Suffix(es, n - o)
  <2>1. /\ n - o <= Len(es) => Above(n, es) = Suffix(es, n - o)
        /\ n - o > Len(es) => Above(n, es) = << >>
    BY <1>3, <1>4, <1>5, <1>6, AboveFacts
  <2>2. new = Above(n, es)
    BY <1>4
  <2> HIDE DEF n, new
  <2>3. QED BY <1>1, <1>4, <1>5, <1>7, <2>1, <2>2
<1> HIDE DEF new
<1>9. /\ new \in Seq(Record) /\ Len(new) = Len(es) - (n - o)
      /\ \A k \in 1 .. Len(es) - (n - o) : new[k] = es[(n - o) + k]
  <2>1. n - o \in 0 .. Len(es)
    <3> HIDE DEF n
    <3>1. QED BY <1>4, <1>5, <1>7, <1>8
  <2>2. QED BY <1>3, <1>8, <2>1, SuffixFacts
<1>10. \A k \in 1 .. Len(new) : new[k].index = n + k
  <2> SUFFICES ASSUME NEW k \in 1 .. Len(new)
               PROVE  new[k].index = n + k
    OBVIOUS
  <2>1. /\ k \in 1 .. Len(es) - (n - o) /\ (n - o) + k \in 1 .. Len(es)
        /\ o + ((n - o) + k) = n + k
    <3> HIDE DEF n
    <3>1. QED BY <1>4, <1>5, <1>7, <1>8, <1>9
  <2>2. new[k] = es[(n - o) + k]
    BY <1>9, <2>1
  <2>3. es[(n - o) + k].index = o + ((n - o) + k)
    BY <1>6, <2>1
  <2>4. QED BY <2>1, <2>2, <2>3
<1>11. Indexed(l) /\ SubSeq(l, 1, n) = history /\ Len(l) = n + Len(new)
  BY <1>4, <1>9, <1>10, GrownAndCut
<1>12. Len(l) > n
  <2>1. Len(new) \in Nat \ {0}
    BY <1>1, <1>9, EmptySeq DEF new
  <2> HIDE DEF n, l
  <2>2. QED BY <1>4, <1>11, <2>1
<1>13. all = Suffix(l, m)
  BY <1>4, <1>9, SuffixOfConcat
<1> HIDE DEF l, all
<1>14. Logging(m)'
  BY <1>2, <1>11, <1>12, <1>13 DEF Logging
<1>15. QED BY <1>1, <1>14, StartKeeps DEF new

LEMMA TruncateSuffixStarts ==
  ASSUME NEW s \in Nat, NEW m \in Nat, NEW b \in Nat, StorageAt(s, m, b),
         NEW i \in 1 .. MaxIndex, TruncateSuffix(i)
  PROVE  StorageAt(s, m, b)'
<1> DEFINE kept == Below(i, memory.entries)
           l == SubSeq(history, 1, i - 1)
           n == Len(history)
<1>1. /\ Begin(<<Replacement("log", kept)>>, [memory EXCEPT !.entries = kept], l)
      /\ i \in memory.hard.commit + 1 .. LastLogIndex(memory)
  BY DEF TruncateSuffix, MayTruncate
<1>2. /\ memory.open /\ memory' = memory /\ history' = history
      /\ call'.todo = <<Replacement("log", kept)>>
      /\ call'.memory = [memory EXCEPT !.entries = kept] /\ call'.log = l
  BY <1>1 DEF Begin
<1>3. /\ memory.hard = DiskHard /\ LastLogIndex(memory) = n /\ history \in Seq(Record)
      /\ n \in Nat /\ Indexed(history) /\ memory.entries = Suffix(history, m)
      /\ m \in 0 .. n /\ m <= DiskHard.commit /\ DiskHard.commit \in Nat
  BY <1>2, AtFacts, DiskFacts
<1>4. i \in m + 1 .. n /\ i - 1 \in 0 .. n /\ i - 1 \in DiskHard.commit .. n
  BY <1>1, <1>3
<1>5. kept = Suffix(l, m)
  BY <1>3, <1>4, BelowSuffix
<1>6. l \in Seq(Record) /\ Len(l) = i - 1 /\ \A k \in 1 .. i - 1 : l[k] = history[k]
  BY <1>3, <1>4, PrefixFacts
<1>7. Indexed(l)
  <2>1. \A k \in 1 .. i - 1 : k \in 1 .. n
    BY <1>3, <1>4
  <2>2. QED BY <1>3, <1>6, <2>1 DEF Indexed
<1>8. /\ Len(l) \in memory.hard.commit .. n
      /\ SubSeq(history, 1, Len(l)) = l
  BY <1>3, <1>4, <1>6
<1> HIDE DEF l, kept
<1>9. Logging(m)'
  BY <1>2, <1>5, <1>7, <1>8 DEF Logging
<1>10. QED BY <1>1, <1>9, StartKeeps

LEMMA SaveSnapshotStarts ==
  ASSUME NEW s \in Nat, NEW m \in Nat, NEW b \in Nat, StorageAt(s, m, b),
         NEW i \in 1 .. MaxIndex, NEW t \in 1 .. MaxTerm, SaveSnapshot(i, t)
  PROVE  StorageAt(s, m, b)'
<1> DEFINE snapshot == <<[index |-> i, term |-> t]>>
           kept == Above(i, memory.entries)
           n == Len(history)
<1>1. /\ Begin(SnapshotReplacements(snapshot, kept),
               [memory EXCEPT !.snapshot = snapshot, !.entries = kept], history)
      /\ i \in 1 .. memory.hard.commit /\ HasTermAt(memory, i, t)
  BY DEF SaveSnapshot, ValidSnapshot
<1>2. /\ memory.open /\ memory' = memory /\ history' = history
      /\ call'.todo = SnapshotReplacements(snapshot, kept)
      /\ call'.memory = [memory EXCEPT !.snapshot = snapshot, !.entries = kept]
      /\ call'.log = history
  BY <1>1 DEF Begin
<1>3. /\ memory.snapshot = SnapshotOf(history, m) /\ memory.entries = Suffix(history, m)
      /\ Indexed(history) /\ m \in 0 .. n /\ n \in Nat /\ history \in Seq(Record)
  BY <1>2, AtFacts, LenProperties DEF Indexed
<1>4. i \in 1 .. n /\ m <= i /\ t = history[i].term
  BY <1>1, <1>3, TermFacts
<1>5. snapshot = <<history[i]>>
  <2>1. history[i] \in Record /\ history[i].index = i
    BY <1>3, <1>4, ElementOfSeq DEF Indexed
  <2>2. history[i] = [index |-> i, term |-> t]
    BY <1>4, <2>1 DEF Record
  <2>3. QED BY <2>2
<1>6. kept = Suffix(history, i)
  <2>1. i \in m .. n
    BY <1>3, <1>4
  <2>2. QED BY <1>3, <2>1, AboveSuffix
<1> HIDE DEF snapshot, kept
<1>7. Compacting(m, b)'
  BY <1>1, <1>2, <1>4, <1>5, <1>6 DEF Compacting
<1>8. QED BY <1>1, <1>7, StartKeeps

----------------------------------------------------------------------------
\* The other steps: a load, a replacement, a failure and a crash.

LEMMA OpenStep ==
  ASSUME NEW s \in Nat, NEW m \in Nat, NEW b \in Nat, StorageAt(s, m, b), Open
  PROVE  StorageAt(s, b, b)'
<1>1. /\ call = Idle /\ memory' = Loaded /\ files' = files /\ temp' = temp
      /\ call' = call /\ history' = history
  BY DEF Open
<1>2. memory' = Remembered(history, DiskHard, b)
  BY <1>1, AtFacts, LoadedFacts
<1>3. OnDisk(s, b)' /\ DiskHard' = DiskHard
  BY <1>1, AtFacts DEF OnDisk, DiskHard
<1>4. s <= b /\ b <= b
  BY AtFacts
<1>5. QED BY <1>1, <1>2, <1>3, <1>4 DEF StorageAt

\* What is under way stays as it is while files, memory and history do.
LEMMA UnderWayStays ==
  ASSUME NEW m, NEW b, Saving \/ Logging(m) \/ Compacting(m, b),
         memory' = memory, history' = history, call'.todo = call.todo,
         call'.memory = call.memory, call'.log = call.log
  PROVE  (Saving \/ Logging(m) \/ Compacting(m, b))'
<1>1. CASE Saving
  BY <1>1 DEF Saving
<1>2. CASE Logging(m)
  BY <1>2 DEF Logging
<1>3. CASE Compacting(m, b)
  BY <1>3 DEF Compacting
<1>4. QED BY <1>1, <1>2, <1>3

LEMMA Targets ==
  ASSUME NEW m, NEW b, Saving \/ Logging(m) \/ Compacting(m, b)
  PROVE  Target \in File
<1>1. CASE Saving
  BY <1>1 DEF Saving, Target, Replacement, File
<1>2. CASE Logging(m)
  BY <1>2 DEF Logging, Target, Replacement, File
<1>3. CASE Compacting(m, b)
  <2>1. PICK i :
           \/ call.todo = SnapshotReplacements(<<history[i]>>, Suffix(history, i))
           \/ call.todo = <<Replacement("log", Suffix(history, i))>>
    BY <1>3 DEF Compacting
  <2>2. Target = "snapshot" \/ Target = "log"
    BY <2>1 DEF SnapshotReplacements, Target, Replacement
  <2>3. QED BY <2>2 DEF File
<1>4. QED BY <1>1, <1>2, <1>3

LEMMA NotIdle ==
  ASSUME NEW s \in Nat, NEW m \in Nat, NEW b \in Nat, StorageAt(s, m, b), call.stage # "none"
  PROVE  UnderWay(m, b) /\ memory.open
  BY DEF StorageAt, Idle, UnderWay

LEMMA WriteTempStep ==
  ASSUME NEW s \in Nat, NEW m \in Nat, NEW b \in Nat, StorageAt(s, m, b), WriteTemp
  PROVE  StorageAt(s, m, b)'
<1>1. /\ call.stage = "write"
      /\ temp' = [temp EXCEPT ![Target] = Head(call.todo).data]
      /\ call' = [call EXCEPT !.stage = "rename"]
      /\ files' = files /\ memory' = memory /\ history' = history
  BY DEF WriteTemp, Written
<1>2. UnderWay(m, b) /\ memory.open /\ DOMAIN temp = File
  BY <1>1, NotIdle DEF StorageAt
<1>3. call = [todo |-> call.todo, stage |-> call.stage, memory |-> call.memory,
              log |-> call.log]
  BY <1>2 DEF UnderWay
<1>4. call' = [todo |-> call.todo, stage |-> "rename", memory |-> call.memory,
               log |-> call.log]
  BY <1>1, <1>3
<1>5. /\ call'.todo = call.todo /\ call'.memory = call.memory /\ call'.log = call.log
      /\ call'.stage = "rename"
  BY <1>4
<1>6. (Saving \/ Logging(m) \/ Compacting(m, b))'
  <2>1. Saving \/ Logging(m) \/ Compacting(m, b)
    BY <1>2 DEF UnderWay
  <2>2. QED BY <2>1, <1>1, <1>5, UnderWayStays
<1>7. DOMAIN temp' = File /\ temp'[Target] = Head(call.todo).data
  <2>1. Target \in File
    BY <1>2, Targets DEF UnderWay
  <2>2. QED BY <2>1, <1>1, <1>2
<1>8. temp'[Target'] = Head(call'.todo).data
  BY <1>5, <1>7 DEF Target
<1>9. UnderWay(m, b)'
  BY <1>1, <1>2, <1>4, <1>5, <1>6, <1>8 DEF UnderWay
<1>10. OnDisk(s, b)' /\ DiskHard' = DiskHard
  BY <1>1, AtFacts DEF OnDisk, DiskHard
<1>11. QED BY <1>1, <1>7, <1>9, <1>10 DEF StorageAt

\* The end of a call, by an error or with the process.
LEMMA FailStep ==
  ASSUME NEW s \in Nat, NEW m \in Nat, NEW b \in Nat, StorageAt(s, m, b), Fail \/ Crash
  PROVE  StorageAt(s, m, b)'
<1>1. /\ call' = Idle /\ files' = files /\ history' = history
      /\ memory' = memory \/ memory' = Closed
      /\ DOMAIN temp' = DOMAIN temp
  BY DEF Fail, Crash
<1>2. OnDisk(s, b)' /\ DiskHard' = DiskHard
  BY <1>1, AtFacts DEF OnDisk, DiskHard
<1>3. QED BY <1>1, <1>2 DEF StorageAt

\* A rename, the last of its call or not.
LEMMA RenameFacts ==
  ASSUME NEW s \in Nat, NEW m \in Nat, NEW b \in Nat, StorageAt(s, m, b), RenameTemp
  PROVE  /\ memory.open /\ UnderWay(m, b)
         /\ DOMAIN temp' = File
         /\ files' = [files EXCEPT ![Target] = Head(call.todo).data]
         /\ call' = IF Tail(call.todo) = << >> THEN Idle
                    ELSE [call EXCEPT !.todo = Tail(call.todo), !.stage = "write"]
         /\ history' = IF Target = "log" THEN call.log ELSE history
         /\ memory' = IF Tail(call.todo) = << >> THEN call.memory ELSE memory
         /\ call = [todo |-> call.todo, stage |-> call.stage, memory |-> call.memory,
                    log |-> call.log]
         /\ files = [hard |-> files["hard"], log |-> files["log"],
                     snapshot |-> files["snapshot"]]
         /\ Saving \/ Logging(m) \/ Compacting(m, b)
<1>1. /\ call.stage = "rename"
      /\ files' = [files EXCEPT ![Target] = temp[Target]]
      /\ temp' = [temp EXCEPT ![Target] = << >>]
      /\ call' = IF Tail(call.todo) = << >> THEN Idle
                 ELSE [call EXCEPT !.todo = Tail(call.todo), !.stage = "write"]
      /\ history' = IF Target = "log" THEN call.log ELSE history
      /\ memory' = IF Tail(call.todo) = << >> THEN call.memory ELSE memory
  BY DEF RenameTemp
<1>2. memory.open /\ UnderWay(m, b)
  BY <1>1, NotIdle
<1>3. temp[Target] = Head(call.todo).data
  BY <1>1, <1>2 DEF UnderWay
<1>4. DOMAIN temp' = File
  BY <1>1 DEF StorageAt
<1>5. files = [hard |-> files["hard"], log |-> files["log"], snapshot |-> files["snapshot"]]
  BY AtFacts DEF OnDisk
<1>6. /\ call = [todo |-> call.todo, stage |-> call.stage, memory |-> call.memory,
                 log |-> call.log]
      /\ Saving \/ Logging(m) \/ Compacting(m, b)
  BY <1>2 DEF UnderWay
<1>7. QED BY <1>1, <1>2, <1>3, <1>4, <1>5, <1>6

LEMMA SavingRename ==
  ASSUME NEW s \in Nat, NEW m \in Nat, NEW b \in Nat, StorageAt(s, m, b), RenameTemp, Saving
  PROVE  /\ StorageAt(s, m, b)' /\ history' = history
         /\ DiskHard'.term >= DiskHard.term
         /\ DiskHard'.commit \in DiskHard.commit .. Len(history)
<1>1. PICK d \in HardState :
         /\ d.term >= memory.hard.term /\ d.commit \in memory.hard.commit .. Len(history)
         /\ call.todo = <<Replacement("hard", <<d>>)>>
         /\ call.memory = [memory EXCEPT !.hard = d] /\ call.log = history
  BY DEF Saving
<1>2. /\ Target = "hard" /\ Head(call.todo).data = <<d>> /\ Tail(call.todo) = << >>
  BY <1>1 DEF Target, Replacement
<1>3. /\ files' = [files EXCEPT !["hard"] = <<d>>] /\ call' = Idle /\ history' = history
      /\ memory' = [memory EXCEPT !.hard = d] /\ DOMAIN temp' = File
      /\ files = [hard |-> files["hard"], log |-> files["log"], snapshot |-> files["snapshot"]]
  BY <1>1, <1>2, RenameFacts
<1>4. files' = [hard |-> <<d>>, log |-> files["log"], snapshot |-> files["snapshot"]]
  BY <1>3
<1>5. files'["hard"] = <<d>> /\ <<d>> # << >> /\ DiskHard' = d
  BY <1>4 DEF DiskHard
<1>6. /\ memory = Remembered(history, DiskHard, m) /\ memory.hard = DiskHard
      /\ b <= DiskHard.commit /\ DiskHard.commit \in Nat /\ b \in Nat
      /\ OnDisk(s, b) /\ s <= m /\ m <= b /\ Len(history) \in Nat
      /\ files["log"] = Suffix(history, s) /\ files["snapshot"] = SnapshotOf(history, b)
  BY AtFacts, DiskFacts, RenameFacts
<1>7. d.commit \in b .. Len(history)
  BY <1>1, <1>6
<1>8. OnDisk(s, b)'
  <2>1. Indexed(history)' /\ DiskHard'.commit \in b .. Len(history')
    BY <1>3, <1>5, <1>6, <1>7 DEF OnDisk
  <2>2. files' = [hard |-> files'["hard"], log |-> Suffix(history', s),
                  snapshot |-> SnapshotOf(history', b)]
    BY <1>3, <1>4, <1>5, <1>6
  <2>3. QED BY <1>5, <2>1, <2>2 DEF OnDisk
<1>9. memory' = Remembered(history', DiskHard', m)
  BY <1>3, <1>5, <1>6 DEF Remembered
<1>10. StorageAt(s, m, b)'
  BY <1>3, <1>6, <1>8, <1>9 DEF StorageAt
<1>11. QED BY <1>1, <1>3, <1>5, <1>6, <1>10

\* Logs that agree up to an index have the same snapshot there.
LEMMA SameSnapshot ==
  ASSUME NEW h, Indexed(h), NEW l, Indexed(l), NEW n \in Nat, n <= Len(h), n <= Len(l),
         SubSeq(h, 1, n) = SubSeq(l, 1, n), NEW b \in 0 .. n
  PROVE  SnapshotOf(h, b) = SnapshotOf(l, b)
<1>1. /\ h \in Seq(Record) /\ l \in Seq(Record) /\ n \in 0 .. Len(h) /\ n \in 0 .. Len(l)
  BY LenProperties DEF Indexed
<1>2. /\ \A k \in 1 .. n : SubSeq(h, 1, n)[k] = h[k]
      /\ \A k \in 1 .. n : SubSeq(l, 1, n)[k] = l[k]
  BY <1>1, PrefixFacts
<1>3. b = 0 \/ b \in 1 .. n
  OBVIOUS
<1>4. QED BY <1>2, <1>3 DEF SnapshotOf

LEMMA LoggingRename ==
  ASSUME NEW s \in Nat, NEW m \in Nat, NEW b \in Nat, StorageAt(s, m, b), RenameTemp,
         Logging(m)
  PROVE  /\ StorageAt(m, m, b)' /\ DiskHard' = DiskHard
         /\ \/ Len(history') > Len(history) /\ SubSeq(history', 1, Len(history)) = history
            \/ /\ Len(history') \in DiskHard.commit .. Len(history)
               /\ history' = SubSeq(history, 1, Len(history'))
<1> DEFINE l == call.log
<1>1. /\ Indexed(l)
      /\ \/ Len(l) > Len(history) /\ SubSeq(l, 1, Len(history)) = history
         \/ /\ Len(l) \in memory.hard.commit .. Len(history)
            /\ SubSeq(history, 1, Len(l)) = l
      /\ call.todo = <<Replacement("log", Suffix(l, m))>>
      /\ call.memory = [memory EXCEPT !.entries = Suffix(l, m)]
  BY DEF Logging
<1>2. /\ Target = "log" /\ Head(call.todo).data = Suffix(l, m) /\ Tail(call.todo) = << >>
  BY <1>1 DEF Target, Replacement
<1>3. /\ files' = [files EXCEPT !["log"] = Suffix(l, m)] /\ call' = Idle /\ history' = l
      /\ memory' = [memory EXCEPT !.entries = Suffix(l, m)] /\ DOMAIN temp' = File
      /\ files = [hard |-> files["hard"], log |-> files["log"], snapshot |-> files["snapshot"]]
  BY <1>1, <1>2, RenameFacts
<1> HIDE DEF l
<1>4. files' = [hard |-> files["hard"], log |-> Suffix(l, m), snapshot |-> files["snapshot"]]
  BY <1>3
<1>5. files'["hard"] = files["hard"] /\ DiskHard' = DiskHard
  BY <1>4 DEF DiskHard
<1>6. /\ memory = Remembered(history, DiskHard, m) /\ memory.hard = DiskHard
      /\ b <= DiskHard.commit /\ DiskHard.commit \in Nat
      /\ DiskHard.commit <= Len(history)
      /\ OnDisk(s, b) /\ m <= b /\ Len(history) \in Nat /\ history \in Seq(Record)
      /\ Indexed(history) /\ files["snapshot"] = SnapshotOf(history, b)
  BY AtFacts, DiskFacts, RenameFacts
<1>7. l \in Seq(Record) /\ Len(l) \in Nat
  BY <1>1, LenProperties DEF Indexed
<1>8. /\ DiskHard.commit <= Len(l)
      /\ \E n \in Nat : /\ n <= Len(history) /\ n <= Len(l) /\ b <= n
                        /\ SubSeq(history, 1, n) = SubSeq(l, 1, n)
  <2>1. CASE Len(l) > Len(history) /\ SubSeq(l, 1, Len(history)) = history
    <3>1. SubSeq(history, 1, Len(history)) = history
      BY <1>6, WholeAndNothing
    <3>2. /\ DiskHard.commit <= Len(l) /\ Len(history) <= Len(history)
          /\ Len(history) <= Len(l) /\ b <= Len(history)
      BY <2>1, <1>6, <1>7
    <3>3. QED BY <2>1, <1>6, <3>1, <3>2
  <2>2. CASE /\ Len(l) \in memory.hard.commit .. Len(history)
             /\ SubSeq(history, 1, Len(l)) = l
    <3>1. SubSeq(l, 1, Len(l)) = l
      BY <1>7, WholeAndNothing
    <3>2. /\ DiskHard.commit <= Len(l) /\ Len(l) <= Len(history)
          /\ Len(l) <= Len(l) /\ b <= Len(l)
      BY <2>2, <1>6, <1>7
    <3>3. QED BY <2>2, <1>7, <3>1, <3>2
  <2>3. QED BY <1>1, <2>1, <2>2 DEF l
<1>9. SnapshotOf(l, b) = SnapshotOf(history, b) /\ SnapshotOf(l, m) = SnapshotOf(history, m)
  <2>1. PICK n \in Nat : /\ n <= Len(history) /\ n <= Len(l) /\ b <= n
                         /\ SubSeq(history, 1, n) = SubSeq(l, 1, n)
    BY <1>8
  <2>2. b \in 0 .. n /\ m \in 0 .. n
    BY <2>1, <1>6
  <2>3. Indexed(l)
    BY <1>1 DEF l
  <2>4. QED BY <2>1, <2>2, <2>3, <1>6, SameSnapshot
<1>10. OnDisk(m, b)'
  <2>1. Indexed(history)'
    BY <1>1, <1>3 DEF l
  <2>2. DiskHard'.commit \in b .. Len(history')
    BY <1>3, <1>5, <1>6, <1>7, <1>8
  <2>3. files' = [hard |-> files'["hard"], log |-> Suffix(history', m),
                  snapshot |-> SnapshotOf(history', b)]
    BY <1>3, <1>4, <1>5, <1>6, <1>9
  <2>4. files'["hard"] = << >> \/ \E d \in HardState : files'["hard"] = <<d>>
    BY <1>5, <1>6 DEF OnDisk
  <2>5. QED BY <2>1, <2>2, <2>3, <2>4 DEF OnDisk
<1>11. memory' = Remembered(history', DiskHard', m)
  BY <1>3, <1>5, <1>6, <1>9 DEF Remembered
<1>12. StorageAt(m, m, b)'
  <2>1. m <= m
    OBVIOUS
  <2>2. QED BY <2>1, <1>3, <1>6, <1>10, <1>11 DEF StorageAt
<1>13. \/ Len(history') > Len(history) /\ SubSeq(history', 1, Len(history)) = history
       \/ /\ Len(history') \in DiskHard.commit .. Len(history)
          /\ history' = SubSeq(history, 1, Len(history'))
  BY <1>1, <1>3, <1>6 DEF l
<1>14. QED BY <1>5, <1>12, <1>13

\* The first rename of SaveSnapshot moves the snapshot of the disk, the second
\* one drops the entries it stands for.
LEMMA CompactingRename ==
  ASSUME NEW s \in Nat, NEW m \in Nat, NEW b \in Nat, StorageAt(s, m, b), RenameTemp,
         Compacting(m, b)
  PROVE  /\ DiskHard' = DiskHard /\ history' = history
         /\ \/ \E i \in 1 .. DiskHard.commit : StorageAt(s, m, i)'
            \/ StorageAt(b, b, b)' /\ files'["snapshot"] = files["snapshot"]
<1>1. PICK i \in 1 .. memory.hard.commit :
         /\ m <= i /\ call.log = history
         /\ call.memory = [memory EXCEPT !.snapshot = <<history[i]>>,
                                         !.entries = Suffix(history, i)]
         /\ \/ call.todo = SnapshotReplacements(<<history[i]>>, Suffix(history, i))
            \/ i = b /\ call.todo = <<Replacement("log", Suffix(history, i))>>
  BY DEF Compacting
<1>2. /\ memory = Remembered(history, DiskHard, m) /\ memory.hard = DiskHard /\ memory.open
      /\ b <= DiskHard.commit /\ DiskHard.commit \in Nat
      /\ DiskHard.commit <= Len(history)
      /\ OnDisk(s, b) /\ s <= m /\ m <= b /\ Len(history) \in Nat
      /\ Indexed(history) /\ files["snapshot"] = SnapshotOf(history, b)
      /\ files["log"] = Suffix(history, s)
  BY AtFacts, DiskFacts, RenameFacts
<1>3. /\ i \in Nat /\ i # 0 /\ i <= DiskHard.commit /\ i \in 1 .. DiskHard.commit
      /\ SnapshotOf(history, i) = <<history[i]>>
  BY <1>1, <1>2 DEF SnapshotOf
<1>4. files = [hard |-> files["hard"], log |-> files["log"], snapshot |-> files["snapshot"]]
  BY RenameFacts
<1>5. files["hard"] = << >> \/ \E d \in HardState : files["hard"] = <<d>>
  BY <1>2 DEF OnDisk
<1>6. CASE call.todo = SnapshotReplacements(<<history[i]>>, Suffix(history, i))
  <2> DEFINE rest == <<Replacement("log", Suffix(history, i))>>
  <2>1. /\ call.todo = <<Replacement("snapshot", <<history[i]>>),
                         Replacement("log", Suffix(history, i))>>
    BY <1>6 DEF SnapshotReplacements
  <2>2. /\ Target = "snapshot" /\ Head(call.todo).data = <<history[i]>>
        /\ Tail(call.todo) = rest /\ rest # << >>
    BY <2>1 DEF Target, Replacement
  <2>3. /\ files' = [files EXCEPT !["snapshot"] = <<history[i]>>]
        /\ call' = [call EXCEPT !.todo = rest, !.stage = "write"]
        /\ call = [todo |-> call.todo, stage |-> call.stage, memory |-> call.memory,
                   log |-> call.log]
        /\ history' = history /\ memory' = memory /\ DOMAIN temp' = File
    BY <2>2, RenameFacts
  <2> HIDE DEF rest
  <2>4. call' = [todo |-> rest, stage |-> "write", memory |-> call.memory, log |-> call.log]
    BY <2>3
  <2>5. files' = [hard |-> files["hard"], log |-> files["log"], snapshot |-> <<history[i]>>]
    BY <2>3, <1>4
  <2>6. files'["hard"] = files["hard"] /\ DiskHard' = DiskHard
    BY <2>5 DEF DiskHard
  <2>7. OnDisk(s, i)'
    <3>1. Indexed(history)' /\ DiskHard'.commit \in i .. Len(history')
      BY <1>2, <1>3, <2>3, <2>6
    <3>2. files' = [hard |-> files'["hard"], log |-> Suffix(history', s),
                    snapshot |-> SnapshotOf(history', i)]
      BY <1>2, <1>3, <2>3, <2>5, <2>6
    <3>3. files'["hard"] = << >> \/ \E d \in HardState : files'["hard"] = <<d>>
      BY <1>5, <2>6
    <3>4. QED BY <3>1, <3>2, <3>3 DEF OnDisk
  <2>8. Compacting(m, i)'
    <3>1. /\ call'.log = history' /\ call'.todo = <<Replacement("log", Suffix(history', i))>>
          /\ call'.memory = [memory' EXCEPT !.snapshot = <<history'[i]>>,
                                            !.entries = Suffix(history', i)]
      BY <1>1, <2>3, <2>4 DEF rest
    <3>2. i \in 1 .. memory'.hard.commit
      BY <1>1, <2>3
    <3>3. QED BY <1>1, <3>1, <3>2 DEF Compacting
  <2>9. UnderWay(m, i)'
    BY <1>2, <2>3, <2>4, <2>8 DEF UnderWay
  <2>10. memory' = Remembered(history', DiskHard', m)
    BY <1>2, <2>3, <2>6
  <2>11. StorageAt(s, m, i)'
    BY <1>1, <1>2, <2>3, <2>7, <2>9, <2>10 DEF StorageAt
  <2>12. QED BY <1>3, <2>3, <2>6, <2>11
<1>7. CASE i = b /\ call.todo = <<Replacement("log", Suffix(history, i))>>
  <2>1. /\ Target = "log" /\ Head(call.todo).data = Suffix(history, b)
        /\ Tail(call.todo) = << >>
    BY <1>7 DEF Target, Replacement
  <2>2. /\ files' = [files EXCEPT !["log"] = Suffix(history, b)] /\ call' = Idle
        /\ history' = history
        /\ memory' = [memory EXCEPT !.snapshot = <<history[b]>>, !.entries = Suffix(history, b)]
        /\ DOMAIN temp' = File
    BY <1>1, <1>7, <2>1, RenameFacts
  <2>3. files' = [hard |-> files["hard"], log |-> Suffix(history, b),
                  snapshot |-> files["snapshot"]]
    BY <2>2, <1>4
  <2>4. /\ files'["hard"] = files["hard"] /\ files'["snapshot"] = files["snapshot"]
        /\ DiskHard' = DiskHard
    BY <2>3 DEF DiskHard
  <2>5. OnDisk(b, b)'
    <3>1. Indexed(history)' /\ DiskHard'.commit \in b .. Len(history')
      BY <1>2, <2>2, <2>4
    <3>2. files' = [hard |-> files'["hard"], log |-> Suffix(history', b),
                    snapshot |-> SnapshotOf(history', b)]
      BY <1>2, <2>2, <2>3, <2>4
    <3>3. files'["hard"] = << >> \/ \E d \in HardState : files'["hard"] = <<d>>
      BY <1>5, <2>4
    <3>4. QED BY <3>1, <3>2, <3>3 DEF OnDisk
  <2>6. memory' = Remembered(history', DiskHard', b)
    BY <1>2, <1>3, <1>7, <2>2, <2>4 DEF Remembered
  <2>7. StorageAt(b, b, b)'
    <3>1. b <= b
      OBVIOUS
    <3>2. QED BY <3>1, <2>2, <2>5, <2>6 DEF StorageAt
  <2>8. QED BY <2>2, <2>4, <2>7
<1>8. QED BY <1>1, <1>6, <1>7

----------------------------------------------------------------------------
\* The invariant, and what each step is to DurableStorage.

LEMMA InductiveInit ==
  ASSUME Init
  PROVE  StorageAt(0, 0, 0)
<1>1. /\ files = [f \in File |-> << >>] /\ temp = [f \in File |-> << >>]
      /\ memory = Closed /\ call = Idle /\ history = << >>
  BY DEF Init
<1>2. /\ files = [hard |-> << >>, log |-> << >>, snapshot |-> << >>]
      /\ files["hard"] = << >>
  BY <1>1 DEF File
<1>3. << >> \in Seq(Record) /\ Len(<< >>) = 0
  OBVIOUS
<1>4. Indexed(history) /\ Suffix(history, 0) = << >> /\ SnapshotOf(history, 0) = << >>
  <2>1. Suffix(<< >>, Len(<< >>)) = << >>
    BY <1>3, WholeAndNothing
  <2>2. QED BY <1>1, <1>3, <2>1 DEF Indexed, SnapshotOf
<1>5. DiskHard.commit = 0
  BY <1>2 DEF DiskHard, NoHardState
<1>6. OnDisk(0, 0)
  <2>1. DiskHard.commit \in 0 .. Len(history)
    BY <1>1, <1>3, <1>5
  <2>2. QED BY <1>2, <1>4, <2>1 DEF OnDisk
<1>7. QED BY <1>1, <1>6 DEF StorageAt

\* A load or a call that starts, writes or fails is no step of DurableStorage; a
\* rename is one of its operations, or none when it is the second of its call.
LEMMA StorageStep ==
  ASSUME StorageInductive, Next
  PROVE  /\ StorageInductive'
         /\ Durable!Next \/ UNCHANGED <<Loaded.hard, history, SnapshotIndex(Loaded)>>
<1>1. PICK s \in Nat, m \in Nat, b \in Nat : StorageAt(s, m, b)
  BY DEF StorageInductive
<1>2. ASSUME files' = files, history' = history
      PROVE  UNCHANGED <<Loaded.hard, history, SnapshotIndex(Loaded)>>
  BY <1>2 DEF Loaded, SnapshotIndex
<1>3. CASE Open
  <2>1. files' = files /\ history' = history
    BY <1>3 DEF Open
  <2>2. QED BY <1>1, <1>2, <1>3, <2>1, OpenStep DEF StorageInductive
<1>4. CASE \/ \E h \in HardState : SaveHardState(h)
           \/ \E es \in Batch : AppendEntries(es)
           \/ \E i \in 1 .. MaxIndex : TruncateSuffix(i)
           \/ \E i \in 1 .. MaxIndex, t \in 1 .. MaxTerm : SaveSnapshot(i, t)
  <2>1. files' = files /\ history' = history
    BY <1>4 DEF SaveHardState, AppendEntries, TruncateSuffix, SaveSnapshot, Begin
  <2>2. StorageAt(s, m, b)'
    BY <1>1, <1>4, SaveHardStateStarts, AppendEntriesStarts, TruncateSuffixStarts,
       SaveSnapshotStarts
  <2>3. QED BY <1>2, <2>1, <2>2 DEF StorageInductive
<1>5. CASE WriteTemp \/ Fail \/ Crash
  <2>1. files' = files /\ history' = history
    BY <1>5 DEF WriteTemp, Fail, Crash
  <2>2. StorageAt(s, m, b)'
    BY <1>1, <1>5, WriteTempStep, FailStep
  <2>3. QED BY <1>2, <2>1, <2>2 DEF StorageInductive
<1>6. CASE RenameTemp
  <2>1. Saving \/ Logging(m) \/ Compacting(m, b)
    BY <1>1, <1>6, RenameFacts
  <2>2. Loaded.hard = DiskHard /\ (Loaded.hard)' = DiskHard'
    BY DEF Loaded, DiskHard
  <2>3. SnapshotIndex(Loaded) = b
    BY <1>1, AtFacts, LoadedFacts
  <2>4. ASSUME NEW k \in Nat, NEW o \in Nat, NEW i \in Nat, StorageAt(o, k, i)'
        PROVE  SnapshotIndex(Loaded)' = i
    <3>1. /\ Indexed(history') /\ DiskHard'.commit \in i .. Len(history')
          /\ files'["snapshot"] = SnapshotOf(history', i)
      BY <2>4 DEF StorageAt, OnDisk
    <3>2. i \in 0 .. Len(history')
      <4>1. Len(history') \in Nat
        BY <3>1, LenProperties DEF Indexed
      <4>2. QED BY <3>1, <4>1
    <3>3. Loaded'.snapshot = files'["snapshot"]
      BY DEF Loaded
    <3>4. SnapshotIndex(Loaded') = i
      BY <3>1, <3>2, <3>3, BaseIs
    <3>5. QED BY <3>4 DEF SnapshotIndex
  <2>5. CASE Saving
    <3>1. /\ StorageAt(s, m, b)' /\ history' = history
          /\ DiskHard'.term >= DiskHard.term
          /\ DiskHard'.commit \in DiskHard.commit .. Len(history)
      BY <1>1, <1>6, <2>5, SavingRename
    <3>2. SnapshotIndex(Loaded)' = b
      BY <1>1, <2>4, <3>1
    <3>3. Durable!SaveHardState
      BY <2>2, <2>3, <3>1, <3>2 DEF Durable!SaveHardState
    <3>4. QED BY <3>1, <3>3 DEF StorageInductive, Durable!Next
  <2>6. CASE Logging(m)
    <3>1. /\ StorageAt(m, m, b)' /\ DiskHard' = DiskHard
          /\ \/ Len(history') > Len(history) /\ SubSeq(history', 1, Len(history)) = history
             \/ /\ Len(history') \in DiskHard.commit .. Len(history)
                /\ history' = SubSeq(history, 1, Len(history'))
      BY <1>1, <1>6, <2>6, LoggingRename
    <3>2. SnapshotIndex(Loaded)' = b
      BY <1>1, <2>4, <3>1
    <3>3. Durable!AppendEntries \/ Durable!TruncateSuffix
      BY <2>2, <2>3, <3>1, <3>2 DEF Durable!AppendEntries, Durable!TruncateSuffix
    <3>4. QED BY <3>1, <3>3 DEF StorageInductive, Durable!Next
  <2>7. CASE Compacting(m, b)
    <3>1. /\ DiskHard' = DiskHard /\ history' = history
          /\ \/ \E i \in 1 .. DiskHard.commit : StorageAt(s, m, i)'
             \/ StorageAt(b, b, b)' /\ files'["snapshot"] = files["snapshot"]
      BY <1>1, <1>6, <2>7, CompactingRename
    <3>2. CASE \E i \in 1 .. DiskHard.commit : StorageAt(s, m, i)'
      <4>1. PICK i \in 1 .. DiskHard.commit : StorageAt(s, m, i)'
        BY <3>2
      <4>2. i \in Nat
        OBVIOUS
      <4>3. SnapshotIndex(Loaded)' = i
        BY <1>1, <2>4, <4>1, <4>2
      <4>4. Durable!SaveSnapshot
        BY <2>2, <3>1, <4>3 DEF Durable!SaveSnapshot
      <4>5. QED BY <4>1, <4>2, <4>4 DEF StorageInductive, Durable!Next
    <3>3. CASE StorageAt(b, b, b)'
      <4>1. SnapshotIndex(Loaded)' = b
        BY <1>1, <2>4, <3>3
      <4>2. UNCHANGED <<Loaded.hard, history, SnapshotIndex(Loaded)>>
        BY <2>2, <2>3, <3>1, <4>1
      <4>3. QED BY <3>3, <4>2 DEF StorageInductive
    <3>4. QED BY <3>1, <3>2, <3>3
  <2>8. QED BY <2>1, <2>5, <2>6, <2>7
<1>7. QED BY <1>3, <1>4, <1>5, <1>6 DEF Next

----------------------------------------------------------------------------
\* At every moment there are a log, a snapshot boundary of the disk and one of
\* the memory that the three files, the copy in memory and the call under way
\* agree on.
THEOREM StorageInvariant == Spec => []StorageInductive
<1>1. Init => StorageInductive
  <2> SUFFICES ASSUME Init
               PROVE  StorageInductive
    OBVIOUS
  <2>1. StorageAt(0, 0, 0) /\ 0 \in Nat
    BY InductiveInit
  <2>2. QED BY <2>1 DEF StorageInductive
<1>2. StorageInductive /\ [Next]_vars => StorageInductive'
  <2> SUFFICES ASSUME StorageInductive, [Next]_vars
               PROVE  StorageInductive'
    OBVIOUS
  <2>1. CASE Next
    BY <2>1, StorageStep
  <2>2. CASE UNCHANGED vars
    <3>1. PICK s \in Nat, m \in Nat, b \in Nat : StorageAt(s, m, b)
      BY DEF StorageInductive
    <3>2. /\ files' = files /\ temp' = temp /\ memory' = memory /\ call' = call
          /\ history' = history
      BY <2>2 DEF vars
    <3>3. OnDisk(s, b)' /\ DiskHard' = DiskHard
      BY <3>1, <3>2 DEF StorageAt, OnDisk, DiskHard
    <3>4. UnderWay(m, b) => UnderWay(m, b)'
      <4>1. Saving => Saving'
        BY <3>2 DEF Saving
      <4>2. Logging(m) => Logging(m)'
        BY <3>2 DEF Logging
      <4>3. Compacting(m, b) => Compacting(m, b)'
        BY <3>2 DEF Compacting
      <4>4. Target' = Target
        BY <3>2 DEF Target
      <4>5. QED BY <3>2, <4>1, <4>2, <4>3, <4>4 DEF UnderWay
    <3>5. StorageAt(s, m, b)'
      BY <3>1, <3>2, <3>3, <3>4 DEF StorageAt
    <3>6. QED BY <3>1, <3>5 DEF StorageInductive
  <2>3. QED BY <2>1, <2>2
<1>3. QED BY <1>1, <1>2, PTL DEF Spec

\* After any crash and any failed operation, in any of the calls, LoadFromDisk
\* opens the three files.
THEOREM EveryCrashLoads == Spec => []AlwaysLoads
<1>1. StorageInductive => AlwaysLoads
  BY AtFacts, DiskLoads DEF StorageInductive, AlwaysLoads
<1>2. QED BY <1>1, StorageInvariant, PTL

\* What LoadFromDisk returns is the log as the calls made it: the entries above
\* the snapshot are its entries, the snapshot stands for the one below them.
THEOREM LoadsTheLog == Spec => []LoadIsFaithful
<1>1. StorageInductive => LoadIsFaithful
  <2> SUFFICES ASSUME StorageInductive
               PROVE  LoadIsFaithful
    OBVIOUS
  <2>1. PICK s \in Nat, m \in Nat, b \in Nat : StorageAt(s, m, b)
    BY DEF StorageInductive
  <2>2. /\ OnDisk(s, b) /\ s <= b /\ Indexed(history) /\ b \in 0 .. Len(history)
    BY <2>1, AtFacts, DiskFacts
  <2>3. Loaded = Remembered(history, DiskHard, b) /\ SnapshotIndex(Loaded) = b
    BY <2>2, LoadedFacts
  <2>4. Loaded.entries = Suffix(history, b) /\ Loaded.snapshot = SnapshotOf(history, b)
    BY <2>3 DEF Remembered
  <2>5. Loaded.snapshot # << >> => Loaded.snapshot[1] = history[b]
    BY <2>4 DEF SnapshotOf
  <2>6. QED BY <2>3, <2>4, <2>5 DEF LoadIsFaithful, Suffix
<1>2. QED BY <1>1, StorageInvariant, PTL

\* Between calls, what FileRaftStorage checks its callers against is what is in
\* the files, but for the snapshot boundary a failed SaveSnapshot leaves behind.
THEOREM MemoryFollows == Spec => []MemoryIsFaithful
<1>1. StorageInductive => MemoryIsFaithful
  <2> SUFFICES ASSUME StorageInductive, memory.open
               PROVE  /\ memory.hard = Loaded.hard
                      /\ memory.entries
                            = SubSeq(history, SnapshotIndex(memory) + 1, Len(history))
                      /\ SnapshotIndex(memory) <= SnapshotIndex(Loaded)
    BY DEF MemoryIsFaithful
  <2>1. PICK s \in Nat, m \in Nat, b \in Nat : StorageAt(s, m, b)
    BY DEF StorageInductive
  <2>2. /\ OnDisk(s, b) /\ s <= b /\ m <= b
        /\ memory.hard = DiskHard /\ memory.entries = Suffix(history, m)
        /\ SnapshotIndex(memory) = m
    BY <2>1, AtFacts
  <2>3. SnapshotIndex(Loaded) = b /\ Loaded.hard = DiskHard
    BY <2>2, LoadedFacts DEF Remembered
  <2>4. QED BY <2>2, <2>3 DEF Suffix
<1>2. QED BY <1>1, StorageInvariant, PTL

\* Three files, replaced one at a time, with a crash or an error possible at any
\* point, are to the next process a storage that does each operation at once:
\* the rename of the one file that says so is that operation.
THEOREM StorageRefinement == Spec => RefinesDurableStorage
<1>1. Init => Durable!Init
  <2> SUFFICES ASSUME Init
               PROVE  Durable!Init
    OBVIOUS
  <2>1. StorageAt(0, 0, 0) /\ 0 \in Nat
    BY InductiveInit
  <2>2. OnDisk(0, 0)
    BY <2>1, AtFacts
  <2>3. SnapshotIndex(Loaded) = 0 /\ Loaded.hard = DiskHard
    BY <2>1, <2>2, LoadedFacts DEF Remembered
  <2>4. DiskHard = [term |-> 0, commit |-> 0] /\ history = << >>
    BY DEF Init, File, DiskHard, NoHardState
  <2>5. QED BY <2>3, <2>4 DEF Durable!Init
<1>2. StorageInductive /\ [Next]_vars
         => [Durable!Next]_<<Loaded.hard, history, SnapshotIndex(Loaded)>>
  <2> SUFFICES ASSUME StorageInductive, [Next]_vars
               PROVE  [Durable!Next]_<<Loaded.hard, history, SnapshotIndex(Loaded)>>
    OBVIOUS
  <2>1. CASE Next
    BY <2>1, StorageStep
  <2>2. CASE UNCHANGED vars
    BY <2>2 DEF vars, Loaded, SnapshotIndex
  <2>3. QED BY <2>1, <2>2
<1>3. QED BY <1>1, <1>2, StorageInvariant, PTL DEF Spec, RefinesDurableStorage, Durable!Spec

----------------------------------------------------------------------------
\* The process: calls, replies and threads.

CallRecord ==
    [state : {"waiting", "taken", "answered", "failed"}, from : Peer \cup Stranger \cup {Nobody},
     kind : Kind, answer : Nat]

\* A message to answer one of the first n calls.
Message(n) == [kind : Kind, to : Peer \cup Stranger \cup {Nobody}, rpc : 1 .. n]

Event(n) == [kind : {"tick", "persisted"}] \cup [kind : {"message"}, rpc : 1 .. n]

ExchangeTypes ==
    /\ runtime \in {"CREATED", "INITIALIZED", "RUNNING", "STOPPING", "STOPPED"}
    /\ ended \subseteq {"protocol", "persistence"}
    /\ rpcs \in Seq(CallRecord) /\ Len(rpcs) <= MaxRpcs
    /\ events \in Seq(Event(Len(rpcs))) /\ Len(events) <= EventCap
    /\ immediate \in Seq(Message(Len(rpcs))) /\ persisted \in Seq(Message(Len(rpcs)))
    /\ outbox \in [Peer -> Seq(Message(Len(rpcs)))]
    /\ \A p \in Peer : Len(outbox[p]) <= PeerCap
    /\ unsaved \subseteq DOMAIN rpcs

\* Whose answers the handlers of peer p have taken, what is in its queue, what is staged for it and
\* what it has still to be heard for, of the requests of kind k.
Given(p, k) ==
    {x \in 0 .. Len(rpcs) : \E s \in DOMAIN rpcs :
        /\ rpcs[s].state \in {"taken", "answered"} /\ rpcs[s].from = p /\ rpcs[s].kind = k
        /\ rpcs[s].answer = x}

Boxed(p, k) ==
    {x \in 1 .. Len(rpcs) : \E i \in DOMAIN outbox[p] :
        outbox[p][i].kind = k /\ outbox[p][i].rpc = x}

Staged == {immediate[i] : i \in DOMAIN immediate} \cup {persisted[i] : i \in DOMAIN persisted}

Prepared(p, k) ==
    {x \in 1 .. Len(rpcs) : \E m \in Staged : m.to = p /\ m.kind = k /\ m.rpc = x}

Asked(p, k) ==
    {x \in 1 .. Len(rpcs) : \E i \in DOMAIN events :
        /\ events[i].kind = "message" /\ events[i].rpc = x
        /\ rpcs[x].from = p /\ rpcs[x].kind = k}

Precedes(A, B) == \A x \in A, y \in B : x <= y

\* An answer goes from the events over the stages and the queue to a handler, and
\* overtakes none of its kind.
InOrder(p, k) ==
    /\ Precedes(Given(p, k), Boxed(p, k) \cup Prepared(p, k) \cup Asked(p, k))
    /\ Precedes(Boxed(p, k), Prepared(p, k) \cup Asked(p, k))
    /\ Precedes(Prepared(p, k), Asked(p, k))

BoxesSorted ==
    \A p \in Peer : \A i, j \in DOMAIN outbox[p] :
        i <= j /\ outbox[p][i].kind = outbox[p][j].kind
        => outbox[p][i].rpc <= outbox[p][j].rpc

EventsSorted ==
    \A i, j \in DOMAIN events :
        i < j /\ events[i].kind = "message" /\ events[j].kind = "message"
        => events[i].rpc < events[j].rpc

OneStaged ==
    /\ \A m, n \in Staged : m.kind = n.kind /\ m.to = n.to => m = n
    /\ \A m \in Staged : m.kind # "snapshot"

AnswersMade ==
    \A s \in DOMAIN rpcs : rpcs[s].state \in {"taken", "answered"} => rpcs[s].answer \in DOMAIN rpcs

AnswersOrdered ==
    /\ \A p \in Peer, k \in Kind : InOrder(p, k)
    /\ BoxesSorted /\ EventsSorted /\ OneStaged /\ AnswersMade

ServerTypes ==
    /\ main \in {"created", "initialized", "starting", "bound", "serving",
                 "draining", "joining", "closing", "exited"}
    /\ lifecycle \in {"off", "initialized", "running"}
    /\ transport \in {"CREATED", "INITIALIZED", "STARTED", "STOPPED"}
    /\ {ticking, pumping} \subseteq {"none", "running", "ended"}

\* What runs at each point of the main thread.
InStep ==
    /\ main = "created" => runtime = "CREATED"
    /\ main = "initialized" => runtime = "INITIALIZED"
    /\ main \in {"starting", "bound", "serving", "draining", "joining"} => runtime = "RUNNING"
    /\ main = "closing" => runtime = "STOPPING"
    /\ main = "exited" => \/ runtime = "CREATED"
                          \/ runtime = "STOPPED" /\ ended = {"protocol", "persistence"}
    /\ accepting => main \in {"bound", "serving"}
    /\ InHandler # {} => main \in {"bound", "serving", "draining"}
    /\ ticking = "running" \/ pumping = "running" => main \in {"serving", "draining", "joining"}

ExchangeFits == ExchangeTypes /\ AnswersOrdered

ServerInductive == ExchangeFits /\ ServerTypes /\ InStep

----------------------------------------------------------------------------
\* The process: what is picked from a sequence, and what a distribution appends.

LEMMA GreatestExists ==
  ASSUME NEW n \in Nat, NEW I \in SUBSET (1 .. n), I # {}
  PROVE  \E m \in I : \A j \in I : j <= m
<1> DEFINE T == {x \in 0 .. n : n - x \in I}
<1>1. T # {}
  <2>1. PICK i \in I : TRUE
    OBVIOUS
  <2>2. n - i \in 0 .. n /\ n - (n - i) = i
    OBVIOUS
  <2>3. n - i \in T
    BY <2>2
  <2>4. QED BY <2>3
<1>2. T \subseteq Nat
  OBVIOUS
<1>3. PICK x \in T : \A y \in T : x <= y
  BY <1>1, <1>2, LeastExists
<1>4. ASSUME NEW j \in I
      PROVE  j <= n - x
  <2>1. n - j \in 0 .. n /\ n - (n - j) = j
    OBVIOUS
  <2>2. x <= n - j
    BY <1>3, <2>1
  <2>3. QED BY <2>2
<1>5. QED BY <1>4

LEMMA SomeOfThem ==
  ASSUME NEW n \in Nat, NEW I \in SUBSET (1 .. n)
  PROVE  IsFiniteSet(I) /\ Cardinality(I) \in Nat
<1>1. IsFiniteSet(1 .. n)
  BY FS_Interval
<1>2. QED BY <1>1, FS_Subset, FS_CardinalityType

\* Each rank up to the size of a set of numbers is that of one of them.
LEMMA RankExists ==
  ASSUME NEW n \in Nat, NEW I \in SUBSET (1 .. n), NEW k \in 1 .. Cardinality(I)
  PROVE  \E i \in I : Cardinality({j \in I : j <= i}) = k
<1> DEFINE Upto(i) == {j \in I : j <= i}
           A == {i \in I : k <= Cardinality(Upto(i))}
<1>1. Cardinality(I) \in Nat /\ \A i : IsFiniteSet(Upto(i)) /\ Cardinality(Upto(i)) \in Nat
  <2>1. \A i : Upto(i) \in SUBSET (1 .. n)
    OBVIOUS
  <2>2. QED BY <2>1, SomeOfThem
<1>2. I # {}
  BY <1>1, FS_EmptySet
<1>3. PICK m \in I : \A j \in I : j <= m
  BY <1>2, GreatestExists
<1>4. Upto(m) = I
  BY <1>3
<1>5. m \in A /\ A \subseteq Nat
  <2>1. k <= Cardinality(Upto(m))
    BY <1>1, <1>4
  <2>2. A \subseteq I /\ I \subseteq Nat
    OBVIOUS
  <2> HIDE DEF Upto
  <2>3. m \in A
    BY <2>1
  <2> HIDE DEF A
  <2>4. QED BY <2>2, <2>3
<1>6. PICK i \in A : \A j \in A : i <= j
  BY <1>5, LeastExists
<1>7. i \in I /\ k <= Cardinality(Upto(i))
  BY <1>6
<1>8. ASSUME Cardinality(Upto(i)) # k
      PROVE  FALSE
  <2> DEFINE B == Upto(i) \ {i}
  <2>1. i \in Upto(i)
    BY <1>7
  <2>2. Cardinality(B) = Cardinality(Upto(i)) - 1
    BY <1>1, <2>1, FS_RemoveElement
  <2>3. k <= Cardinality(B) /\ Cardinality(B) \in Nat
    BY <1>1, <1>7, <1>8, <2>2
  <2>4. B # {} /\ B \in SUBSET (1 .. n)
    <3>1. B \in SUBSET (1 .. n)
      OBVIOUS
    <3> HIDE DEF B
    <3>2. Cardinality(B) # 0
      BY <2>3
    <3>3. QED BY <3>1, <3>2, FS_EmptySet
  <2>5. PICK b \in B : \A j \in B : j <= b
    BY <2>4, GreatestExists
  <2>6. Upto(b) = B
    <3>1. b \in I /\ b <= i /\ b # i /\ I \subseteq Nat
      BY <2>5
    <3>2. ASSUME NEW j \in I, j <= b
          PROVE  j \in B
      BY <1>7, <3>1, <3>2
    <3>3. QED BY <2>5, <3>2
  <2>7. b \in A
    BY <2>3, <2>5, <2>6
  <2>8. i <= b /\ b <= i /\ b # i /\ b \in Nat /\ i \in Nat
    BY <1>5, <1>6, <2>5, <2>7
  <2>9. QED BY <2>8
<1>9. QED BY <1>7, <1>8

LEMMA SelectedFits ==
  ASSUME NEW S, NEW s \in Seq(S), NEW I \in SUBSET DOMAIN s
  PROVE  /\ Selected(s, I) \in Seq(S)
         /\ Cardinality(I) \in Nat /\ Len(Selected(s, I)) = Cardinality(I)
         /\ \A k \in 1 .. Cardinality(I) : \E i \in I : Selected(s, I)[k] = s[i]
<1> DEFINE n == Len(s)
           At(k) == CHOOSE i \in I : Cardinality({j \in I : j <= i}) = k
<1>1. n \in Nat /\ DOMAIN s = 1 .. n /\ \A i \in 1 .. n : s[i] \in S
  BY LenProperties, ElementOfSeq
<1>2. I \in SUBSET (1 .. n)
  BY <1>1
<1> HIDE DEF n
<1>3. Cardinality(I) \in Nat
  BY <1>1, <1>2, SomeOfThem
<1>4. ASSUME NEW k \in 1 .. Cardinality(I)
      PROVE  At(k) \in I
  BY <1>1, <1>2, RankExists
<1>5. Selected(s, I) = [k \in 1 .. Cardinality(I) |-> s[At(k)]]
  BY DEF Selected
<1> HIDE DEF At
<1>6. \A k \in 1 .. Cardinality(I) : Selected(s, I)[k] = s[At(k)] /\ s[At(k)] \in S
  BY <1>1, <1>2, <1>4, <1>5
<1>7. Selected(s, I) \in [1 .. Cardinality(I) -> S]
  BY <1>5, <1>6
<1>8. Selected(s, I) \in Seq(S) /\ Len(Selected(s, I)) = Cardinality(I)
  BY <1>3, <1>7
<1>9. QED BY <1>3, <1>4, <1>6, <1>8

\* Every queue keeps what it has and gets messages that are for it, as many as it
\* has room for.
LEMMA Distributed ==
  ASSUME NEW M, NEW messages \in Seq(M), outbox \in [Peer -> Seq(M)],
         \A p \in Peer : Len(outbox[p]) <= PeerCap,
         DistributeOutputMessages(messages)
  PROVE  /\ outbox' \in [Peer -> Seq(M)]
         /\ \A p \in Peer :
               /\ Len(outbox'[p]) <= PeerCap
               /\ Len(outbox[p]) <= Len(outbox'[p])
               /\ \A i \in 1 .. Len(outbox[p]) : outbox'[p][i] = outbox[p][i]
               /\ \A i \in Len(outbox[p]) + 1 .. Len(outbox'[p]) :
                     \E j \in DOMAIN messages :
                         outbox'[p][i] = messages[j] /\ messages[j].to = p
<1> DEFINE sent == {i \in DOMAIN messages : \A j \in 1 .. i : ~Refuses(messages, j)}
           D(p) == {i \in sent : messages[i].to = p}
<1>1. outbox' = [p \in Peer |-> outbox[p] \o Selected(messages, D(p))]
  BY DEF DistributeOutputMessages
<1>2. ASSUME NEW p \in Peer
      PROVE  /\ outbox'[p] \in Seq(M)
             /\ Len(outbox'[p]) <= PeerCap
             /\ Len(outbox[p]) <= Len(outbox'[p])
             /\ \A i \in 1 .. Len(outbox[p]) : outbox'[p][i] = outbox[p][i]
             /\ \A i \in Len(outbox[p]) + 1 .. Len(outbox'[p]) :
                   \E j \in DOMAIN messages :
                       outbox'[p][i] = messages[j] /\ messages[j].to = p
  <2> DEFINE d == D(p)
             n == Len(messages)
             t == Selected(messages, d)
             q == outbox[p]
  <2>1. d \in SUBSET DOMAIN messages /\ \A i \in d : messages[i].to = p
    OBVIOUS
  <2>2. n \in Nat /\ DOMAIN messages = 1 .. n
    BY LenProperties
  <2>3. q \in Seq(M) /\ Len(q) \in Nat /\ Len(q) <= PeerCap /\ outbox'[p] = q \o t
        /\ PeerCap \in Nat
    BY <1>1, LenProperties, ExchangeAssumption
  <2>4. \A i \in d : ~Refuses(messages, i)
    BY <2>2
  <2>5. Len(q) + Cardinality(d) <= PeerCap
    <3>1. CASE d = {}
      <4>1. Cardinality(d) = 0
        BY <3>1, FS_EmptySet
      <4> HIDE DEF d, q
      <4>2. QED BY <2>3, <4>1
    <3>2. CASE d # {}
      <4>1. d \in SUBSET (1 .. n)
        BY <2>1, <2>2
      <4> HIDE DEF d, n, q
      <4>2. PICK g \in d : \A j \in d : j <= g
        BY <2>2, <3>2, <4>1, GreatestExists
      <4> DEFINE before == {j \in 1 .. g - 1 : messages[j].to = p}
      <4>3. messages[g].to = p
        BY <2>1
      <4>4. Len(outbox[p]) + Cardinality(before) < PeerCap
        <5>1. ~(Len(outbox[p]) + Cardinality(before) >= PeerCap)
          BY <2>4, <4>3 DEF Refuses
        <5>2. before \in SUBSET (1 .. n) /\ g \in 1 .. n
          BY <2>2, <4>1
        <5>3. Cardinality(before) \in Nat
          BY <2>2, <5>2, SomeOfThem
        <5>4. QED BY <2>3, <5>1, <5>3 DEF q
      <4>5. d \subseteq before \cup {g}
        BY <2>1, <4>1, <4>2
      <4>6. g - 1 \in Nat /\ before \in SUBSET (1 .. g - 1) /\ g \notin before
        BY <4>1
      <4> HIDE DEF before
      <4>7. IsFiniteSet(before) /\ Cardinality(before) \in Nat
        BY <4>6, SomeOfThem
      <4>8. IsFiniteSet(before \cup {g})
            /\ Cardinality(before \cup {g}) = Cardinality(before) + 1
        BY <4>6, <4>7, FS_AddElement
      <4>9. Cardinality(d) <= Cardinality(before \cup {g}) /\ Cardinality(d) \in Nat
        BY <2>2, <4>1, <4>5, <4>8, FS_Subset, SomeOfThem
      <4>10. QED BY <2>3, <4>4, <4>7, <4>8, <4>9 DEF q
    <3>3. QED BY <3>1, <3>2
  <2> HIDE DEF d, n, q
  <2>6. /\ t \in Seq(M) /\ Cardinality(d) \in Nat /\ Len(t) = Cardinality(d)
        /\ \A k \in 1 .. Cardinality(d) : \E i \in d : t[k] = messages[i]
    BY <2>1, SelectedFits
  <2> HIDE DEF t
  <2>7. /\ q \o t \in Seq(M) /\ Len(q \o t) = Len(q) + Len(t)
        /\ \A i \in 1 .. Len(q) + Len(t) :
              (q \o t)[i] = IF i <= Len(q) THEN q[i] ELSE t[i - Len(q)]
    BY <2>3, <2>6, ConcatProperties
  <2>8. ASSUME NEW i \in Len(q) + 1 .. Len(q) + Len(t)
        PROVE  \E j \in DOMAIN messages : (q \o t)[i] = messages[j] /\ messages[j].to = p
    <3>1. i - Len(q) \in 1 .. Cardinality(d) /\ i \in 1 .. Len(q) + Len(t) /\ ~(i <= Len(q))
      BY <2>3, <2>6
    <3>2. PICK j \in d : t[i - Len(q)] = messages[j]
      BY <2>6, <3>1
    <3>3. QED BY <2>1, <2>7, <3>1, <3>2
  <2>9. QED BY <2>3, <2>5, <2>6, <2>7, <2>8 DEF q
<1>3. QED BY <1>1, <1>2

----------------------------------------------------------------------------
\* The process: calls and their answers.

\* What the sequences of the exchange are made of.
LEMMA ExchangeFacts ==
  ASSUME ExchangeTypes
  PROVE  /\ Len(rpcs) \in Nat /\ DOMAIN rpcs = 1 .. Len(rpcs)
         /\ \A r \in DOMAIN rpcs : rpcs[r] \in CallRecord
         /\ Len(events) \in Nat /\ DOMAIN events = 1 .. Len(events)
         /\ \A i \in DOMAIN events : events[i] \in Event(Len(rpcs))
         /\ DOMAIN immediate = 1 .. Len(immediate) /\ DOMAIN persisted = 1 .. Len(persisted)
         /\ Staged \subseteq Message(Len(rpcs))
         /\ \A p \in Peer :
               /\ outbox[p] \in Seq(Message(Len(rpcs)))
               /\ Len(outbox[p]) \in Nat /\ DOMAIN outbox[p] = 1 .. Len(outbox[p])
               /\ \A i \in DOMAIN outbox[p] : outbox[p][i] \in Message(Len(rpcs))
<1> DEFINE M == Message(Len(rpcs))
           E == Event(Len(rpcs))
<1>1. /\ rpcs \in Seq(CallRecord) /\ events \in Seq(E)
      /\ immediate \in Seq(M) /\ persisted \in Seq(M) /\ outbox \in [Peer -> Seq(M)]
  BY DEF ExchangeTypes
<1> HIDE DEF M, E
<1>2. /\ Len(rpcs) \in Nat /\ DOMAIN rpcs = 1 .. Len(rpcs)
      /\ \A r \in DOMAIN rpcs : rpcs[r] \in CallRecord
  BY <1>1, LenProperties, ElementOfSeq
<1>3. /\ Len(events) \in Nat /\ DOMAIN events = 1 .. Len(events)
      /\ \A i \in DOMAIN events : events[i] \in E
  BY <1>1, LenProperties, ElementOfSeq
<1>4. /\ DOMAIN immediate = 1 .. Len(immediate) /\ DOMAIN persisted = 1 .. Len(persisted)
      /\ \A i \in DOMAIN immediate : immediate[i] \in M
      /\ \A i \in DOMAIN persisted : persisted[i] \in M
  BY <1>1, LenProperties, ElementOfSeq
<1>5. Staged \subseteq M
  BY <1>4 DEF Staged
<1>6. ASSUME NEW p \in Peer
      PROVE  /\ outbox[p] \in Seq(M)
             /\ Len(outbox[p]) \in Nat /\ DOMAIN outbox[p] = 1 .. Len(outbox[p])
             /\ \A i \in DOMAIN outbox[p] : outbox[p][i] \in M
  <2>1. outbox[p] \in Seq(M)
    BY <1>1
  <2>2. QED BY <2>1, LenProperties, ElementOfSeq
<1>7. QED BY <1>2, <1>3, <1>4, <1>5, <1>6 DEF M, E

\* A drain sends what is staged behind what a queue holds.
LEMMA DrainOrders ==
  ASSUME ExchangeFits, ExchangeTypes', rpcs' = rpcs,
         DistributeOutputMessages(immediate' \o persisted') \/ UNCHANGED outbox,
         EventsSorted', OneStaged',
         \A p \in Peer, k \in Kind :
            /\ Asked(p, k)' \subseteq Asked(p, k)
            /\ Prepared(p, k)' \subseteq Prepared(p, k) \cup Asked(p, k)
            /\ Precedes(Prepared(p, k)', Asked(p, k)')
  PROVE  AnswersOrdered'
<1> DEFINE M == Message(Len(rpcs))
           messages == immediate' \o persisted'
<1>1. /\ ExchangeTypes /\ AnswersOrdered /\ M = Message(Len(rpcs))'
      /\ Len(rpcs) = Len(rpcs)' /\ Len(rpcs) \in Nat
  BY ExchangeFacts DEF ExchangeFits
<1>2. messages \in Seq(M) /\ DOMAIN messages = 1 .. Len(messages)
      /\ \A j \in DOMAIN messages : messages[j] \in Staged' /\ messages[j] \in M
  <2>1. immediate' \in Seq(M) /\ persisted' \in Seq(M)
    BY <1>1 DEF ExchangeTypes
  <2> HIDE DEF M
  <2>2. /\ messages \in Seq(M) /\ Len(messages) = Len(immediate') + Len(persisted')
        /\ \A i \in 1 .. Len(immediate') + Len(persisted') :
              messages[i] = IF i <= Len(immediate') THEN immediate'[i]
                            ELSE persisted'[i - Len(immediate')]
    BY <2>1, ConcatProperties
  <2>3. /\ DOMAIN messages = 1 .. Len(messages)
        /\ DOMAIN immediate' = 1 .. Len(immediate') /\ Len(immediate') \in Nat
        /\ DOMAIN persisted' = 1 .. Len(persisted') /\ Len(persisted') \in Nat
    BY <2>1, <2>2, LenProperties
  <2> HIDE DEF messages
  <2>4. ASSUME NEW j \in DOMAIN messages
        PROVE  messages[j] \in Staged'
    <3>1. CASE j <= Len(immediate')
      <4>1. j \in DOMAIN immediate' /\ messages[j] = immediate'[j]
        BY <2>2, <2>3, <3>1
      <4>2. QED BY <4>1 DEF Staged
    <3>2. CASE ~(j <= Len(immediate'))
      <4>1. /\ j - Len(immediate') \in DOMAIN persisted'
            /\ messages[j] = persisted'[j - Len(immediate')]
        BY <2>2, <2>3, <3>2
      <4>2. QED BY <4>1 DEF Staged
    <3>3. QED BY <3>1, <3>2
  <2>5. \A j \in DOMAIN messages : messages[j] \in M
    BY <2>2, <2>3, ElementOfSeq
  <2>6. QED BY <2>2, <2>3, <2>4, <2>5
<1> HIDE DEF messages
<1>3. ASSUME NEW p \in Peer
      PROVE  /\ Len(outbox[p]) \in Nat /\ DOMAIN outbox[p] = 1 .. Len(outbox[p])
             /\ \A i \in DOMAIN outbox[p] : outbox[p][i] \in M
             /\ Len(outbox'[p]) \in Nat /\ DOMAIN outbox'[p] = 1 .. Len(outbox'[p])
             /\ Len(outbox[p]) <= Len(outbox'[p])
             /\ \A i \in DOMAIN outbox[p] : outbox'[p][i] = outbox[p][i]
             /\ \A i \in DOMAIN outbox'[p] : outbox'[p][i] \in M
             /\ \A i \in DOMAIN outbox'[p] \ DOMAIN outbox[p] :
                   outbox'[p][i] \in Staged' /\ outbox'[p][i].to = p
  <2>1. /\ Len(outbox[p]) \in Nat /\ DOMAIN outbox[p] = 1 .. Len(outbox[p])
        /\ \A i \in DOMAIN outbox[p] : outbox[p][i] \in M
    BY <1>1, ExchangeFacts
  <2>2. CASE UNCHANGED outbox
    BY <2>1, <2>2
  <2>3. CASE DistributeOutputMessages(messages)
    <3>1. outbox \in [Peer -> Seq(M)] /\ \A q \in Peer : Len(outbox[q]) <= PeerCap
      BY <1>1 DEF ExchangeTypes
    <3> HIDE DEF M
    <3>2. /\ outbox' \in [Peer -> Seq(M)]
          /\ Len(outbox[p]) <= Len(outbox'[p])
          /\ \A i \in 1 .. Len(outbox[p]) : outbox'[p][i] = outbox[p][i]
          /\ \A i \in Len(outbox[p]) + 1 .. Len(outbox'[p]) :
                \E j \in DOMAIN messages :
                    outbox'[p][i] = messages[j] /\ messages[j].to = p
      BY <1>2, <2>3, <3>1, Distributed
    <3>3. outbox'[p] \in Seq(M)
      BY <3>2
    <3>4. /\ Len(outbox'[p]) \in Nat /\ DOMAIN outbox'[p] = 1 .. Len(outbox'[p])
          /\ \A i \in DOMAIN outbox'[p] : outbox'[p][i] \in M
      BY <3>3, LenProperties, ElementOfSeq
    <3>5. ASSUME NEW i \in DOMAIN outbox'[p] \ DOMAIN outbox[p]
          PROVE  outbox'[p][i] \in Staged' /\ outbox'[p][i].to = p
      <4>1. i \in Len(outbox[p]) + 1 .. Len(outbox'[p])
        BY <2>1, <3>4
      <4>2. QED BY <1>2, <3>2, <4>1
    <3>6. QED BY <2>1, <3>2, <3>4, <3>5
  <2>4. QED BY <2>2, <2>3 DEF messages
<1> HIDE DEF M
<1>4. ASSUME NEW p \in Peer, NEW k \in Kind
      PROVE  Boxed(p, k)' \subseteq Boxed(p, k) \cup Prepared(p, k)'
  <2> SUFFICES ASSUME NEW x \in Boxed(p, k)'
               PROVE  x \in Boxed(p, k) \cup Prepared(p, k)'
    OBVIOUS
  <2>1. PICK i \in DOMAIN outbox'[p] : outbox'[p][i].kind = k /\ outbox'[p][i].rpc = x
    BY DEF Boxed
  <2>2. x \in 1 .. Len(rpcs)
    BY <1>1 DEF Boxed
  <2>3. CASE i \in DOMAIN outbox[p]
    BY <1>3, <2>1, <2>2, <2>3 DEF Boxed
  <2>4. CASE i \notin DOMAIN outbox[p]
    BY <1>1, <1>3, <2>1, <2>2, <2>4 DEF Prepared
  <2>5. QED BY <2>3, <2>4
<1>5. ASSUME NEW p \in Peer, NEW k \in Kind
      PROVE  InOrder(p, k)'
  <2>1. InOrder(p, k)
    BY <1>1 DEF AnswersOrdered
  <2>2. Given(p, k)' = Given(p, k)
    BY DEF Given
  <2>3. \A x \in Prepared(p, k)', y \in Prepared(p, k)' : x = y /\ x \in Nat
    BY <1>1 DEF Prepared, OneStaged
  <2>4. QED BY <1>4, <2>1, <2>2, <2>3 DEF InOrder, Precedes
<1>6. BoxesSorted'
  <2> SUFFICES ASSUME NEW p \in Peer, NEW i \in DOMAIN outbox'[p], NEW j \in DOMAIN outbox'[p],
                      i <= j, outbox'[p][i].kind = outbox'[p][j].kind
               PROVE  outbox'[p][i].rpc <= outbox'[p][j].rpc
    BY DEF BoxesSorted
  <2>1. outbox'[p][i] \in M /\ outbox'[p][j] \in M
    BY <1>3
  <2>2. PICK k \in Kind : /\ outbox'[p][j].kind = k
                         /\ outbox'[p][i].rpc \in 1 .. Len(rpcs)
                         /\ outbox'[p][j].rpc \in 1 .. Len(rpcs)
    BY <2>1 DEF M, Message
  <2>3. CASE j \in DOMAIN outbox[p]
    <3>1. i \in DOMAIN outbox[p]
      BY <1>3, <2>3
    <3>2. QED BY <1>1, <1>3, <2>3, <3>1 DEF AnswersOrdered, BoxesSorted
  <2>4. CASE j \notin DOMAIN outbox[p]
    <3>1. outbox'[p][j].rpc \in Prepared(p, k)' /\ outbox'[p][j] \in Staged'
      BY <1>1, <1>3, <2>2, <2>4 DEF Prepared
    <3>2. CASE i \in DOMAIN outbox[p]
      <4>1. outbox'[p][i].rpc \in Boxed(p, k)
        BY <1>3, <2>2, <3>2 DEF Boxed
      <4>2. QED BY <1>1, <2>2, <3>1, <4>1 DEF AnswersOrdered, InOrder, Precedes
    <3>3. CASE i \notin DOMAIN outbox[p]
      <4>1. outbox'[p][i] \in Staged' /\ outbox'[p][i].to = p /\ outbox'[p][j].to = p
        BY <1>3, <2>4, <3>3
      <4>2. outbox'[p][i] = outbox'[p][j]
        BY <3>1, <4>1 DEF OneStaged
      <4>3. QED BY <2>2, <4>2
    <3>4. QED BY <3>2, <3>3
  <2>5. QED BY <2>3, <2>4
<1>7. AnswersMade'
  BY <1>1 DEF AnswersOrdered, AnswersMade
<1>8. QED BY <1>5, <1>6, <1>7 DEF AnswersOrdered

\* The protocol thread takes the oldest event; no later one is an earlier request.
LEMMA TakenEvents ==
  ASSUME ExchangeFits, NEW kind, Take(kind)
  PROVE  /\ UNCHANGED <<runtime, ended, accepting, rpcs>>
         /\ events' \in Seq(Event(Len(rpcs))) /\ Len(events') <= EventCap
         /\ EventsSorted'
         /\ \A p, k : Asked(p, k)' \subseteq Asked(p, k)
         /\ kind = "message" =>
               /\ Head(events).rpc \in DOMAIN rpcs
               /\ Head(events).rpc \in
                     Asked(rpcs[Head(events).rpc].from, rpcs[Head(events).rpc].kind)
               /\ \A p, k : \A x \in Asked(p, k)' : Head(events).rpc < x
<1> DEFINE E == Event(Len(rpcs))
<1>1. /\ events # << >> /\ Head(events).kind = kind /\ events' = Tail(events)
      /\ UNCHANGED <<runtime, ended, accepting, rpcs>>
  BY DEF Take
<1>2. /\ events \in Seq(E) /\ Len(events) <= EventCap /\ EventsSorted
      /\ EventCap \in Nat /\ Len(rpcs) \in Nat /\ DOMAIN rpcs = 1 .. Len(rpcs)
  BY ExchangeFacts, ExchangeAssumption DEF ExchangeFits, ExchangeTypes, AnswersOrdered
<1> HIDE DEF E
<1>3. /\ Head(events) = events[1] /\ events[1] \in E
      /\ Len(events) \in Nat \ {0} /\ DOMAIN events = 1 .. Len(events)
      /\ \A i \in DOMAIN events : events[i] \in E
  BY <1>1, <1>2, EmptySeq, LenProperties, ElementOfSeq
<1>4. /\ events' \in Seq(E) /\ Len(events') = Len(events) - 1
      /\ \A i \in 1 .. Len(events') : events'[i] = events[i + 1]
  BY <1>1, <1>2, HeadTailProperties
<1>5. DOMAIN events' = 1 .. Len(events') /\ Len(events') <= EventCap
  BY <1>2, <1>3, <1>4, LenProperties
<1>6. \A i \in DOMAIN events' : i + 1 \in DOMAIN events /\ i + 1 > 1 /\ events'[i] = events[i + 1]
  BY <1>3, <1>4, <1>5
<1>7. EventsSorted'
  <2>1. \A i, j \in DOMAIN events' : i < j => i + 1 < j + 1
    BY <1>3, <1>4, <1>5
  <2>2. QED BY <1>2, <1>6, <2>1 DEF EventsSorted
<1>8. ASSUME NEW p, NEW k
      PROVE  Asked(p, k)' \subseteq Asked(p, k)
  BY <1>1, <1>6 DEF Asked
<1>9. ASSUME kind = "message"
      PROVE  /\ Head(events).rpc \in DOMAIN rpcs
             /\ Head(events).rpc \in
                   Asked(rpcs[Head(events).rpc].from, rpcs[Head(events).rpc].kind)
             /\ \A p, k : \A x \in Asked(p, k)' : Head(events).rpc < x
  <2>1. 1 \in DOMAIN events /\ events[1].kind = "message" /\ events[1].rpc \in 1 .. Len(rpcs)
    BY <1>1, <1>3, <1>9 DEF E, Event
  <2>2. events[1].rpc \in Asked(rpcs[events[1].rpc].from, rpcs[events[1].rpc].kind)
    BY <2>1 DEF Asked
  <2>3. ASSUME NEW p, NEW k, NEW x \in Asked(p, k)'
        PROVE  events[1].rpc < x
    <3>1. PICK i \in DOMAIN events' : events'[i].kind = "message" /\ events'[i].rpc = x
      BY DEF Asked
    <3>2. QED BY <1>2, <1>6, <2>1, <3>1 DEF EventsSorted
  <2>4. QED BY <1>2, <1>3, <2>1, <2>2, <2>3
<1>10. QED BY <1>1, <1>4, <1>5, <1>7, <1>8, <1>9 DEF E

\* An event that is no request asks for nothing.
LEMMA AddedEvent ==
  ASSUME ExchangeFits, NEW e \in [kind : {"tick", "persisted"}], Accepts,
         events' = Append(events, e), rpcs' = rpcs
  PROVE  /\ events' \in Seq(Event(Len(rpcs))) /\ Len(events') <= EventCap
         /\ EventsSorted'
         /\ \A p, k : Asked(p, k)' \subseteq Asked(p, k)
<1> DEFINE E == Event(Len(rpcs))
<1>1. /\ events \in Seq(E) /\ EventsSorted /\ EventCap \in Nat /\ e \in E
      /\ Len(events) \in Nat /\ DOMAIN events = 1 .. Len(events) /\ Len(events) < EventCap
      /\ e.kind # "message"
  BY ExchangeFacts, ExchangeAssumption
  DEF ExchangeFits, ExchangeTypes, AnswersOrdered, Event, Accepts
<1> HIDE DEF E
<1>2. /\ events' \in Seq(E) /\ Len(events') = Len(events) + 1
      /\ \A i \in 1 .. Len(events) : events'[i] = events[i]
      /\ events'[Len(events) + 1] = e
  BY <1>1, AppendProperties
<1>3. DOMAIN events' = 1 .. Len(events) + 1
  BY <1>2, LenProperties
<1>4. \A i \in DOMAIN events' : events'[i].kind = "message"
          => i \in DOMAIN events /\ events'[i] = events[i]
  BY <1>1, <1>2, <1>3
<1>5. EventsSorted'
  BY <1>1, <1>4 DEF EventsSorted
<1>6. ASSUME NEW p, NEW k
      PROVE  Asked(p, k)' \subseteq Asked(p, k)
  BY <1>4 DEF Asked
<1>7. QED BY <1>1, <1>2, <1>5, <1>6 DEF E

LEMMA DrainTypes ==
  ASSUME ExchangeTypes, rpcs' = rpcs,
         immediate' \in Seq(Message(Len(rpcs))), persisted' \in Seq(Message(Len(rpcs))),
         DistributeOutputMessages(immediate' \o persisted') \/ UNCHANGED outbox
  PROVE  /\ outbox' \in [Peer -> Seq(Message(Len(rpcs)))]
         /\ \A p \in Peer : Len(outbox'[p]) <= PeerCap
<1> DEFINE M == Message(Len(rpcs))
           messages == immediate' \o persisted'
<1>1. /\ outbox \in [Peer -> Seq(M)] /\ immediate' \in Seq(M) /\ persisted' \in Seq(M)
      /\ \A p \in Peer : Len(outbox[p]) <= PeerCap
  BY DEF ExchangeTypes
<1> HIDE DEF M
<1>2. messages \in Seq(M)
  BY <1>1, ConcatProperties
<1>3. CASE DistributeOutputMessages(messages)
  <2> HIDE DEF messages
  <2>1. QED BY <1>1, <1>2, <1>3, Distributed DEF M
<1>4. CASE UNCHANGED outbox
  BY <1>1, <1>4 DEF M
<1>5. QED BY <1>3, <1>4

LEMMA SelectedMessages ==
  ASSUME NEW M, NEW s \in Seq(M), NEW I \in SUBSET DOMAIN s
  PROVE  /\ Selected(s, I) \in Seq(M)
         /\ \A k \in DOMAIN Selected(s, I) : \E i \in I : Selected(s, I)[k] = s[i]
<1>1. /\ Selected(s, I) \in Seq(M) /\ Len(Selected(s, I)) = Cardinality(I)
      /\ \A k \in 1 .. Cardinality(I) : \E i \in I : Selected(s, I)[k] = s[i]
  BY SelectedFits
<1>2. DOMAIN Selected(s, I) = 1 .. Len(Selected(s, I))
  BY <1>1, LenProperties
<1>3. QED BY <1>1, <1>2

\* The newest message of its kind to its node is the only one staged.
LEMMA Stages ==
  ASSUME ExchangeTypes, NEW m \in Message(Len(rpcs)), NEW waits \in BOOLEAN,
         StageMessage(m, waits)
  PROVE  /\ immediate' \in Seq(Message(Len(rpcs))) /\ persisted' \in Seq(Message(Len(rpcs)))
         /\ Staged' \subseteq {x \in Staged : x.kind # m.kind \/ x.to # m.to} \cup {m}
<1> DEFINE M == Message(Len(rpcs))
           rest == {x \in Staged : x.kind # m.kind \/ x.to # m.to}
<1>1. m \in M /\ immediate \in Seq(M) /\ persisted \in Seq(M)
  BY DEF ExchangeTypes
<1> HIDE DEF M
<1>2. ASSUME NEW s \in Seq(M), \A i \in DOMAIN s : s[i] \in Staged
      PROVE  /\ Others(s, m) \in Seq(M) /\ Append(Others(s, m), m) \in Seq(M)
             /\ \A k \in DOMAIN Others(s, m) : Others(s, m)[k] \in rest
             /\ \A k \in DOMAIN Append(Others(s, m), m) :
                   Append(Others(s, m), m)[k] \in rest \cup {m}
  <2> DEFINE I == {i \in DOMAIN s : s[i].kind # m.kind \/ s[i].to # m.to}
             o == Others(s, m)
  <2>1. o = Selected(s, I)
    BY DEF Others
  <2>2. \A i \in I : s[i] \in rest
    BY <1>2
  <2>3. I \in SUBSET DOMAIN s
    OBVIOUS
  <2> HIDE DEF I, rest, o
  <2>4. o \in Seq(M) /\ \A k \in DOMAIN o : o[k] \in rest
    BY <2>1, <2>2, <2>3, SelectedMessages
  <2>5. /\ Append(o, m) \in Seq(M) /\ Len(Append(o, m)) = Len(o) + 1
        /\ \A k \in 1 .. Len(o) : Append(o, m)[k] = o[k]
        /\ Append(o, m)[Len(o) + 1] = m
    BY <1>1, <2>4, AppendProperties
  <2>6. /\ DOMAIN o = 1 .. Len(o) /\ Len(o) \in Nat
        /\ DOMAIN Append(o, m) = 1 .. Len(o) + 1
    BY <2>4, <2>5, LenProperties
  <2>7. \A k \in DOMAIN Append(o, m) : Append(o, m)[k] \in rest \cup {m}
    BY <2>4, <2>5, <2>6
  <2>8. QED BY <2>4, <2>5, <2>7 DEF o
<1>3. /\ \A i \in DOMAIN immediate : immediate[i] \in Staged
      /\ \A i \in DOMAIN persisted : persisted[i] \in Staged
  BY DEF Staged
<1> HIDE DEF rest
<1>4. /\ immediate' \in Seq(M) /\ persisted' \in Seq(M)
      /\ \A i \in DOMAIN immediate' : immediate'[i] \in rest \cup {m}
      /\ \A i \in DOMAIN persisted' : persisted'[i] \in rest \cup {m}
  <2>1. CASE waits
    BY <1>1, <1>2, <1>3, <2>1 DEF StageMessage
  <2>2. CASE ~waits
    BY <1>1, <1>2, <1>3, <2>2 DEF StageMessage
  <2>3. QED BY <2>1, <2>2
<1>5. Staged' \subseteq rest \cup {m}
  BY <1>4 DEF Staged
<1>6. QED BY <1>4, <1>5 DEF M, rest

\* A confirmation stages nothing new.
LEMMA Reclassified ==
  ASSUME ExchangeTypes, NEW ready, ReclassifyBlockedMessages(ready)
  PROVE  /\ immediate' \in Seq(Message(Len(rpcs))) /\ persisted' \in Seq(Message(Len(rpcs)))
         /\ Staged' \subseteq Staged
<1> DEFINE M == Message(Len(rpcs))
           released == {k \in DOMAIN persisted : persisted[k].rpc \in ready}
           out == Selected(persisted, released)
           kept == DOMAIN persisted \ released
<1>1. immediate \in Seq(M) /\ persisted \in Seq(M)
  BY DEF ExchangeTypes
<1> HIDE DEF M
<1>2. immediate' = immediate \o out /\ persisted' = Selected(persisted, kept)
  BY DEF ReclassifyBlockedMessages
<1>3. released \in SUBSET DOMAIN persisted /\ kept \in SUBSET DOMAIN persisted
  OBVIOUS
<1> HIDE DEF released, kept, out
<1>4. /\ out \in Seq(M) /\ \A k \in DOMAIN out : out[k] \in Staged
      /\ persisted' \in Seq(M) /\ \A k \in DOMAIN persisted' : persisted'[k] \in Staged
  BY <1>1, <1>2, <1>3, SelectedMessages DEF out, Staged
<1>5. /\ immediate' \in Seq(M) /\ Len(immediate') = Len(immediate) + Len(out)
      /\ \A i \in 1 .. Len(immediate) + Len(out) :
            immediate'[i] = IF i <= Len(immediate) THEN immediate[i] ELSE out[i - Len(immediate)]
  BY <1>1, <1>2, <1>4, ConcatProperties
<1>6. /\ DOMAIN immediate' = 1 .. Len(immediate) + Len(out)
      /\ DOMAIN immediate = 1 .. Len(immediate) /\ Len(immediate) \in Nat
      /\ DOMAIN out = 1 .. Len(out) /\ Len(out) \in Nat
  BY <1>1, <1>4, <1>5, LenProperties
<1>7. ASSUME NEW i \in DOMAIN immediate'
      PROVE  immediate'[i] \in Staged
  <2>1. CASE i <= Len(immediate)
    <3>1. i \in DOMAIN immediate /\ immediate'[i] = immediate[i]
      BY <1>5, <1>6, <2>1
    <3>2. QED BY <3>1 DEF Staged
  <2>2. CASE ~(i <= Len(immediate))
    <3>1. i - Len(immediate) \in DOMAIN out /\ immediate'[i] = out[i - Len(immediate)]
      BY <1>5, <1>6, <2>2
    <3>2. QED BY <1>4, <3>1
  <2>3. QED BY <2>1, <2>2
<1>8. Staged' \subseteq Staged
  BY <1>4, <1>7 DEF Staged
<1>9. QED BY <1>4, <1>5, <1>8 DEF M

\* A step that stages and sends nothing.
LEMMA KeepsOrder ==
  ASSUME ExchangeFits, ExchangeTypes', UNCHANGED <<rpcs, immediate, persisted, outbox>>,
         EventsSorted', \A p, k : Asked(p, k)' \subseteq Asked(p, k)
  PROVE  ExchangeFits'
<1>1. Staged' = Staged
  BY DEF Staged
<1>2. OneStaged'
  BY <1>1 DEF ExchangeFits, AnswersOrdered, OneStaged
<1>3. ASSUME NEW p \in Peer, NEW k \in Kind
      PROVE  /\ Asked(p, k)' \subseteq Asked(p, k)
             /\ Prepared(p, k)' \subseteq Prepared(p, k) \cup Asked(p, k)
             /\ Precedes(Prepared(p, k)', Asked(p, k)')
  <2>1. Prepared(p, k)' = Prepared(p, k)
    BY <1>1 DEF Prepared
  <2>2. Precedes(Prepared(p, k), Asked(p, k))
    BY DEF ExchangeFits, AnswersOrdered, InOrder
  <2>3. QED BY <2>1, <2>2 DEF Precedes
<1>4. AnswersOrdered'
  BY <1>2, <1>3, DrainOrders
<1>5. QED BY <1>4 DEF ExchangeFits

\* A step of the protocol thread that stages no request but the one it has taken,
\* and drains.
LEMMA DrainFits ==
  ASSUME ExchangeFits, NEW kind, Take(kind), DrainCoreOutput,
         unsaved' \subseteq DOMAIN rpcs,
         immediate' \in Seq(Message(Len(rpcs))), persisted' \in Seq(Message(Len(rpcs))),
         OneStaged',
         \A p \in Peer, k \in Kind :
            /\ Prepared(p, k)' \subseteq Prepared(p, k) \cup Asked(p, k)
            /\ Precedes(Prepared(p, k)', Asked(p, k)')
  PROVE  ExchangeFits'
<1>1. /\ UNCHANGED <<runtime, ended, accepting, rpcs>>
      /\ events' \in Seq(Event(Len(rpcs))) /\ Len(events') <= EventCap
      /\ EventsSorted'
      /\ \A p, k : Asked(p, k)' \subseteq Asked(p, k)
  BY TakenEvents
<1>2. ExchangeTypes /\ AnswersOrdered
  BY DEF ExchangeFits
<1>3. DistributeOutputMessages(immediate' \o persisted') \/ UNCHANGED outbox
  BY DEF DrainCoreOutput
<1>4. /\ outbox' \in [Peer -> Seq(Message(Len(rpcs)))]
      /\ \A p \in Peer : Len(outbox'[p]) <= PeerCap
  BY <1>1, <1>2, <1>3, DrainTypes
<1>5. ExchangeTypes'
  BY <1>1, <1>2, <1>4 DEF ExchangeTypes
<1>6. AnswersOrdered'
  BY <1>1, <1>3, <1>5, DrainOrders
<1>7. QED BY <1>5, <1>6 DEF ExchangeFits

LEMMA TickFits ==
  ASSUME ExchangeFits, ProcessTick
  PROVE  ExchangeFits'
<1>1. Take("tick") /\ DrainCoreOutput /\ UNCHANGED coreVars
  BY DEF ProcessTick
<1>2. Staged' = Staged
  BY <1>1 DEF Staged, coreVars
<1>3. UNCHANGED rpcs /\ \A p, k : Asked(p, k)' \subseteq Asked(p, k)
  BY <1>1, TakenEvents
<1>4. OneStaged'
  BY <1>2 DEF ExchangeFits, AnswersOrdered, OneStaged
<1>5. ASSUME NEW p \in Peer, NEW k \in Kind
      PROVE  /\ Prepared(p, k)' \subseteq Prepared(p, k) \cup Asked(p, k)
             /\ Precedes(Prepared(p, k)', Asked(p, k)')
  <2>1. Prepared(p, k)' = Prepared(p, k)
    BY <1>2, <1>3 DEF Prepared
  <2>2. Precedes(Prepared(p, k), Asked(p, k))
    BY DEF ExchangeFits, AnswersOrdered, InOrder
  <2>3. QED BY <1>3, <2>1, <2>2 DEF Precedes
<1>6. /\ unsaved' \subseteq DOMAIN rpcs
      /\ immediate' \in Seq(Message(Len(rpcs))) /\ persisted' \in Seq(Message(Len(rpcs)))
  BY <1>1 DEF ExchangeFits, ExchangeTypes, coreVars
<1>7. QED BY <1>1, <1>4, <1>5, <1>6, DrainFits

LEMMA RequestFits ==
  ASSUME ExchangeFits, NEW waits \in BOOLEAN, HandleRequest(waits)
  PROVE  ExchangeFits'
<1> DEFINE r == Head(events).rpc
           m == Reply(r)
<1>1. /\ Take("message") /\ rpcs[r].kind # "snapshot" /\ DrainCoreOutput
      /\ StageMessage(m, waits)
      /\ unsaved' = IF waits THEN unsaved \cup {r} ELSE unsaved
  BY DEF HandleRequest
<1>2. /\ UNCHANGED rpcs /\ r \in DOMAIN rpcs
      /\ r \in Asked(rpcs[r].from, rpcs[r].kind)
      /\ \A p, k : Asked(p, k)' \subseteq Asked(p, k)
      /\ \A p, k : \A x \in Asked(p, k)' : r < x
  BY <1>1, TakenEvents
<1>3. ExchangeTypes /\ AnswersOrdered
  BY DEF ExchangeFits
<1>4. rpcs[r] \in CallRecord /\ DOMAIN rpcs = 1 .. Len(rpcs)
  BY <1>2, <1>3, ExchangeFacts
<1>5. /\ m \in Message(Len(rpcs)) /\ m.kind # "snapshot"
      /\ m.kind = rpcs[r].kind /\ m.to = rpcs[r].from /\ m.rpc = r
  BY <1>1, <1>2, <1>4 DEF Reply, Message, CallRecord
<1> HIDE DEF m
<1>6. /\ immediate' \in Seq(Message(Len(rpcs))) /\ persisted' \in Seq(Message(Len(rpcs)))
      /\ Staged' \subseteq {x \in Staged : x.kind # m.kind \/ x.to # m.to} \cup {m}
  BY <1>1, <1>3, <1>5, Stages
<1>7. OneStaged'
  BY <1>3, <1>5, <1>6 DEF AnswersOrdered, OneStaged
<1> HIDE DEF r
<1>8. ASSUME NEW p \in Peer, NEW k \in Kind
      PROVE  /\ Prepared(p, k)' \subseteq Prepared(p, k) \cup Asked(p, k)
             /\ Precedes(Prepared(p, k)', Asked(p, k)')
  <2>1. Precedes(Prepared(p, k), Asked(p, k))
    BY <1>3 DEF AnswersOrdered, InOrder
  <2>2. ASSUME NEW x \in Prepared(p, k)'
        PROVE  x \in Prepared(p, k) \/ (x = r /\ p = rpcs[r].from /\ k = rpcs[r].kind)
    <3>1. PICK n \in Staged' : n.to = p /\ n.kind = k /\ n.rpc = x
      BY DEF Prepared
    <3>2. x \in 1 .. Len(rpcs)
      BY <1>2 DEF Prepared
    <3>3. CASE n \in Staged
      BY <3>1, <3>2, <3>3 DEF Prepared
    <3>4. CASE n = m
      BY <1>5, <3>1, <3>4
    <3>5. QED BY <1>6, <3>3, <3>4
  <2>3. r \in Int /\ \A x \in Asked(p, k)' : x \in Int
    BY <1>2, <1>4 DEF Asked
  <2>4. \A x \in Asked(p, k)' : r <= x
    BY <1>2, <2>3
  <2>5. QED BY <1>2, <2>1, <2>2, <2>4 DEF Precedes
<1>9. unsaved' \subseteq DOMAIN rpcs
  BY <1>1, <1>2, <1>3 DEF ExchangeTypes
<1>10. QED BY <1>1, <1>6, <1>7, <1>8, <1>9, DrainFits

LEMMA ConfirmedFits ==
  ASSUME ExchangeFits, NEW ready, PersistenceConfirmed(ready)
  PROVE  ExchangeFits'
<1>1. /\ Take("persisted") /\ ReclassifyBlockedMessages(ready) /\ DrainCoreOutput
      /\ UNCHANGED unsaved
  BY DEF PersistenceConfirmed
<1>2. ExchangeTypes /\ AnswersOrdered
  BY DEF ExchangeFits
<1>3. UNCHANGED rpcs /\ \A p, k : Asked(p, k)' \subseteq Asked(p, k)
  BY <1>1, TakenEvents
<1>4. /\ immediate' \in Seq(Message(Len(rpcs))) /\ persisted' \in Seq(Message(Len(rpcs)))
      /\ Staged' \subseteq Staged
  BY <1>1, <1>2, Reclassified
<1>5. OneStaged'
  BY <1>2, <1>4 DEF AnswersOrdered, OneStaged
<1>6. ASSUME NEW p \in Peer, NEW k \in Kind
      PROVE  /\ Prepared(p, k)' \subseteq Prepared(p, k) \cup Asked(p, k)
             /\ Precedes(Prepared(p, k)', Asked(p, k)')
  <2>1. Prepared(p, k)' \subseteq Prepared(p, k)
    BY <1>3, <1>4 DEF Prepared
  <2>2. Precedes(Prepared(p, k), Asked(p, k))
    BY <1>2 DEF AnswersOrdered, InOrder
  <2>3. QED BY <1>3, <2>1, <2>2 DEF Precedes
<1>7. unsaved' \subseteq DOMAIN rpcs
  BY <1>1, <1>2 DEF ExchangeTypes
<1>8. QED BY <1>1, <1>4, <1>5, <1>6, <1>7, DrainFits

LEMMA SnapshotFits ==
  ASSUME ExchangeFits, NEW changed \in BOOLEAN, HandleInstallSnapshot(changed)
  PROVE  ExchangeFits'
<1> DEFINE r == Head(events).rpc
           m == Reply(r)
           M == Message(Len(rpcs))
           messages == <<m>>
<1>1. /\ Take("message") /\ rpcs[r].kind = "snapshot"
      /\ DistributeOutputMessages(messages) /\ UNCHANGED <<immediate, persisted>>
      /\ unsaved' \subseteq unsaved \cup {r}
  BY DEF HandleInstallSnapshot
<1>2. /\ UNCHANGED <<runtime, ended, accepting, rpcs>>
      /\ events' \in Seq(Event(Len(rpcs))) /\ Len(events') <= EventCap
      /\ EventsSorted'
      /\ r \in DOMAIN rpcs /\ r \in Asked(rpcs[r].from, rpcs[r].kind)
      /\ \A p, k : Asked(p, k)' \subseteq Asked(p, k)
      /\ \A p, k : \A x \in Asked(p, k)' : r < x
  BY <1>1, TakenEvents
<1>3. ExchangeTypes /\ AnswersOrdered
  BY DEF ExchangeFits
<1>4. rpcs[r] \in CallRecord /\ DOMAIN rpcs = 1 .. Len(rpcs) /\ Len(rpcs) \in Nat
  BY <1>2, <1>3, ExchangeFacts
<1>5. m \in M /\ m.kind = "snapshot" /\ m.to = rpcs[r].from /\ m.rpc = r
  BY <1>1, <1>2, <1>4 DEF Reply, Message, CallRecord
<1> HIDE DEF m
<1>6. messages \in Seq(M) /\ DOMAIN messages = {1} /\ messages[1] = m
  BY <1>5
<1> HIDE DEF r, M, messages
<1>7. /\ outbox \in [Peer -> Seq(M)]
      /\ \A p \in Peer : Len(outbox[p]) <= PeerCap
  BY <1>3 DEF ExchangeTypes, M
<1>8. /\ outbox' \in [Peer -> Seq(M)]
      /\ \A p \in Peer :
            /\ Len(outbox'[p]) <= PeerCap
            /\ Len(outbox[p]) <= Len(outbox'[p])
            /\ \A i \in 1 .. Len(outbox[p]) : outbox'[p][i] = outbox[p][i]
            /\ \A i \in Len(outbox[p]) + 1 .. Len(outbox'[p]) :
                  outbox'[p][i] = m /\ m.to = p
  <2>1. /\ outbox' \in [Peer -> Seq(M)]
        /\ \A p \in Peer :
              /\ Len(outbox'[p]) <= PeerCap
              /\ Len(outbox[p]) <= Len(outbox'[p])
              /\ \A i \in 1 .. Len(outbox[p]) : outbox'[p][i] = outbox[p][i]
              /\ \A i \in Len(outbox[p]) + 1 .. Len(outbox'[p]) :
                    \E j \in DOMAIN messages :
                        outbox'[p][i] = messages[j] /\ messages[j].to = p
    BY <1>1, <1>6, <1>7, Distributed
  <2>2. QED BY <1>6, <2>1
<1>9. ExchangeTypes'
  BY <1>1, <1>2, <1>3, <1>8 DEF ExchangeTypes, M
<1>10. Staged' = Staged
  BY <1>1 DEF Staged
<1>11. OneStaged'
  BY <1>3, <1>10 DEF AnswersOrdered, OneStaged
<1>12. ASSUME NEW p \in Peer
       PROVE  /\ Len(outbox[p]) \in Nat /\ DOMAIN outbox[p] = 1 .. Len(outbox[p])
              /\ \A i \in DOMAIN outbox[p] :
                    outbox[p][i] \in M /\ i \in DOMAIN outbox'[p] /\ outbox'[p][i] = outbox[p][i]
              /\ DOMAIN outbox'[p] \subseteq Nat
              /\ \A i \in DOMAIN outbox'[p] : \A j \in DOMAIN outbox[p] :
                    i <= j => i \in DOMAIN outbox[p]
              /\ \A i \in DOMAIN outbox'[p] \ DOMAIN outbox[p] :
                    outbox'[p][i] = m /\ m.to = p
  <2>1. outbox[p] \in Seq(M) /\ outbox'[p] \in Seq(M)
    BY <1>7, <1>8
  <2>2. /\ Len(outbox[p]) \in Nat /\ DOMAIN outbox[p] = 1 .. Len(outbox[p])
        /\ Len(outbox'[p]) \in Nat /\ DOMAIN outbox'[p] = 1 .. Len(outbox'[p])
        /\ \A i \in DOMAIN outbox[p] : outbox[p][i] \in M
    BY <2>1, LenProperties, ElementOfSeq
  <2>3. \A i \in DOMAIN outbox'[p] \ DOMAIN outbox[p] : i \in Len(outbox[p]) + 1 .. Len(outbox'[p])
    BY <2>2
  <2>4. QED BY <1>8, <2>2, <2>3
<1>13. ASSUME NEW p \in Peer, NEW k \in Kind
       PROVE  Boxed(p, k)' \subseteq
                  Boxed(p, k) \cup (IF p = rpcs[r].from /\ k = "snapshot" THEN {r} ELSE {})
  <2> SUFFICES ASSUME NEW x \in Boxed(p, k)', x \notin Boxed(p, k)
               PROVE  x = r /\ p = rpcs[r].from /\ k = "snapshot"
    OBVIOUS
  <2>1. PICK i \in DOMAIN outbox'[p] : outbox'[p][i].kind = k /\ outbox'[p][i].rpc = x
    BY DEF Boxed
  <2>2. x \in 1 .. Len(rpcs)
    BY <1>2 DEF Boxed
  <2>3. i \notin DOMAIN outbox[p]
    BY <1>12, <2>1, <2>2 DEF Boxed
  <2>4. QED BY <1>5, <1>12, <2>1, <2>3
<1>14. ASSUME NEW p \in Peer, NEW k \in Kind
       PROVE  InOrder(p, k)'
  <2>1. InOrder(p, k)
    BY <1>3 DEF AnswersOrdered
  <2>2. Given(p, k)' = Given(p, k) /\ Prepared(p, k)' = Prepared(p, k)
    BY <1>2, <1>10 DEF Given, Prepared
  <2>3. Prepared(p, "snapshot") = {}
    BY <1>3 DEF AnswersOrdered, OneStaged, Prepared
  <2>4. Asked(p, k)' \subseteq Asked(p, k) /\ \A y \in Asked(p, k)' : r <= y
    <3>1. r \in Int /\ \A x \in Asked(p, k)' : x \in Int
      BY <1>2, <1>4 DEF Asked
    <3>2. QED BY <1>2, <3>1
  <2>5. CASE p = rpcs[r].from /\ k = "snapshot"
    <3>1. r \in Asked(p, k) /\ Boxed(p, k)' \subseteq Boxed(p, k) \cup {r} /\ Prepared(p, k) = {}
      BY <1>1, <1>2, <1>13, <2>3, <2>5
    <3>2. QED BY <2>1, <2>2, <2>4, <3>1 DEF InOrder, Precedes
  <2>6. CASE ~(p = rpcs[r].from /\ k = "snapshot")
    <3>1. Boxed(p, k)' \subseteq Boxed(p, k)
      BY <1>13, <2>6
    <3>2. QED BY <2>1, <2>2, <2>4, <3>1 DEF InOrder, Precedes
  <2>7. QED BY <2>5, <2>6
<1>15. BoxesSorted'
  <2> SUFFICES ASSUME NEW p \in Peer, NEW i \in DOMAIN outbox'[p], NEW j \in DOMAIN outbox'[p],
                      i <= j, outbox'[p][i].kind = outbox'[p][j].kind
               PROVE  outbox'[p][i].rpc <= outbox'[p][j].rpc
    BY DEF BoxesSorted
  <2>1. CASE j \in DOMAIN outbox[p]
    <3>1. i \in DOMAIN outbox[p]
      BY <1>12, <2>1
    <3>2. QED BY <1>3, <1>12, <2>1, <3>1 DEF AnswersOrdered, BoxesSorted
  <2>2. CASE j \notin DOMAIN outbox[p]
    <3>1. outbox'[p][j] = m /\ p = rpcs[r].from
      BY <1>5, <1>12, <2>2
    <3>2. CASE i \in DOMAIN outbox[p]
      <4>1. /\ outbox'[p][i] = outbox[p][i] /\ outbox[p][i].kind = "snapshot"
            /\ outbox[p][i].rpc \in 1 .. Len(rpcs)
        BY <1>5, <1>12, <3>1, <3>2 DEF M, Message
      <4>2. outbox[p][i].rpc \in Boxed(p, "snapshot")
        BY <3>2, <4>1 DEF Boxed
      <4>3. Precedes(Boxed(p, "snapshot"), Asked(p, "snapshot"))
        BY <1>3 DEF AnswersOrdered, InOrder, Precedes, Kind
      <4>4. r \in Asked(p, "snapshot")
        BY <1>1, <1>2, <3>1
      <4>5. QED BY <1>5, <3>1, <4>1, <4>2, <4>3, <4>4 DEF Precedes
    <3>3. CASE i \notin DOMAIN outbox[p]
      <4>1. outbox'[p][i] = m /\ m.rpc \in Int
        BY <1>2, <1>4, <1>5, <1>12, <3>3
      <4>2. QED BY <3>1, <4>1
    <3>4. QED BY <3>2, <3>3
  <2>3. QED BY <2>1, <2>2
<1>16. AnswersMade'
  BY <1>2, <1>3 DEF AnswersOrdered, AnswersMade
<1>17. QED
  BY <1>2, <1>9, <1>11, <1>14, <1>15, <1>16 DEF ExchangeFits, AnswersOrdered

\* An event that is taken and changes nothing else.
LEMMA TakenFits ==
  ASSUME ExchangeFits, NEW kind, Take(kind), UNCHANGED <<coreVars, outbox>>
  PROVE  ExchangeFits'
<1>1. /\ UNCHANGED <<runtime, ended, accepting, rpcs>>
      /\ events' \in Seq(Event(Len(rpcs))) /\ Len(events') <= EventCap
      /\ EventsSorted'
      /\ \A p, k : Asked(p, k)' \subseteq Asked(p, k)
  BY TakenEvents
<1>2. ExchangeTypes'
  BY <1>1 DEF ExchangeFits, ExchangeTypes, coreVars
<1>3. QED BY <1>1, <1>2, KeepsOrder DEF coreVars

\* An event that is no request, put behind the others.
LEMMA AddedFits ==
  ASSUME ExchangeFits, NEW e \in [kind : {"tick", "persisted"}], Accepts,
         events' = Append(events, e), unsaved' \subseteq unsaved,
         UNCHANGED <<runtime, ended, accepting, rpcs, immediate, persisted, outbox>>
  PROVE  ExchangeFits'
<1>1. /\ events' \in Seq(Event(Len(rpcs))) /\ Len(events') <= EventCap
      /\ EventsSorted'
      /\ \A p, k : Asked(p, k)' \subseteq Asked(p, k)
  BY AddedEvent
<1>2. ExchangeTypes'
  BY <1>1 DEF ExchangeFits, ExchangeTypes
<1>3. QED BY <1>1, <1>2, KeepsOrder

\* The states of the runtime, its threads and what is written order nothing.
LEMMA StillFits ==
  ASSUME ExchangeFits, UNCHANGED <<rpcs, events, immediate, persisted, outbox>>,
         unsaved' \subseteq unsaved,
         runtime' \in {"CREATED", "INITIALIZED", "RUNNING", "STOPPING", "STOPPED"},
         ended' \subseteq {"protocol", "persistence"}
  PROVE  ExchangeFits'
<1>1. ExchangeTypes'
  BY DEF ExchangeFits, ExchangeTypes
<1>2. EventsSorted' /\ \A p, k : Asked(p, k)' \subseteq Asked(p, k)
  BY DEF ExchangeFits, AnswersOrdered, EventsSorted, Asked
<1>3. QED BY <1>1, <1>2, KeepsOrder

LEMMA ProtocolFits ==
  ASSUME ExchangeFits, Protocol
  PROVE  ExchangeFits'
<1>1. CASE ProcessTick
  BY <1>1, TickFits
<1>2. CASE \E waits \in BOOLEAN : HandleRequest(waits)
  BY <1>2, RequestFits
<1>3. CASE \E changed \in BOOLEAN : HandleInstallSnapshot(changed)
  BY <1>3, SnapshotFits
<1>4. CASE RefuseRequest
  BY <1>4, TakenFits DEF RefuseRequest
<1>5. CASE \E ready \in SUBSET DOMAIN rpcs : PersistenceConfirmed(ready)
  BY <1>5, ConfirmedFits
<1>6. CASE PersistenceRefused
  BY <1>6, TakenFits DEF PersistenceRefused
<1>7. CASE ProtocolEnds
  <2>1. /\ UNCHANGED <<runtime, rpcs, events, immediate, persisted, unsaved, outbox>>
        /\ ended' = ended \cup {"protocol"}
    BY <1>7 DEF ProtocolEnds, coreVars
  <2>2. QED BY <2>1, StillFits DEF ExchangeFits, ExchangeTypes
<1>8. QED BY <1>1, <1>2, <1>3, <1>4, <1>5, <1>6, <1>7 DEF Protocol

LEMMA PersistenceFits ==
  ASSUME ExchangeFits,
         (\E done \in SUBSET unsaved : Write(done)) \/ PersistenceEnds
  PROVE  ExchangeFits'
<1>1. ASSUME NEW done \in SUBSET unsaved, Write(done)
      PROVE  ExchangeFits'
  <2>1. /\ UNCHANGED <<runtime, accepting, rpcs, immediate, persisted, outbox>>
        /\ unsaved' \subseteq unsaved
        /\ \/ Accepts /\ events' = Append(events, [kind |-> "persisted"]) /\ UNCHANGED ended
           \/ ended' = ended \cup {"persistence"} /\ UNCHANGED events
    BY <1>1 DEF Write
  <2>2. CASE Accepts /\ events' = Append(events, [kind |-> "persisted"]) /\ UNCHANGED ended
    <3>1. [kind |-> "persisted"] \in [kind : {"tick", "persisted"}]
      OBVIOUS
    <3>2. QED BY <2>1, <2>2, <3>1, AddedFits
  <2>3. CASE ended' = ended \cup {"persistence"} /\ UNCHANGED events
    BY <2>1, <2>3, StillFits DEF ExchangeFits, ExchangeTypes
  <2>4. QED BY <2>1, <2>2, <2>3
<1>2. CASE PersistenceEnds
  <2>1. /\ UNCHANGED <<runtime, rpcs, events, immediate, persisted, unsaved, outbox>>
        /\ ended' = ended \cup {"persistence"}
    BY <1>2 DEF PersistenceEnds, coreVars
  <2>2. QED BY <2>1, StillFits DEF ExchangeFits, ExchangeTypes
<1>3. QED BY <1>1, <1>2

\* A handler or the pump takes the oldest message of a queue; what is behind it
\* is not older, of its kind.
LEMMA TakenMessage ==
  ASSUME ExchangeFits, NEW p \in Peer, HasMessage(p),
         outbox' = [outbox EXCEPT ![p] = Tail(@)], Len(rpcs)' = Len(rpcs)
  PROVE  /\ outbox' \in [Peer -> Seq(Message(Len(rpcs)))]
         /\ \A q \in Peer : Len(outbox'[q]) <= PeerCap
         /\ BoxesSorted'
         /\ \A q \in Peer, k \in Kind : Boxed(q, k)' \subseteq Boxed(q, k)
         /\ Head(outbox[p]) \in Message(Len(rpcs))
         /\ Head(outbox[p]).rpc \in Boxed(p, Head(outbox[p]).kind)
         /\ \A k : k = Head(outbox[p]).kind => \A x \in Boxed(p, k)' : Head(outbox[p]).rpc <= x
<1> DEFINE M == Message(Len(rpcs))
           m == Head(outbox[p])
<1>1. /\ outbox \in [Peer -> Seq(M)] /\ \A q \in Peer : Len(outbox[q]) <= PeerCap
      /\ BoxesSorted /\ PeerCap \in Nat /\ outbox[p] # << >>
  BY ExchangeAssumption DEF ExchangeFits, ExchangeTypes, AnswersOrdered, HasMessage
<1>2. /\ outbox[p] \in Seq(M)
      /\ Len(outbox[p]) \in Nat /\ DOMAIN outbox[p] = 1 .. Len(outbox[p])
      /\ \A i \in DOMAIN outbox[p] : outbox[p][i] \in M
  BY ExchangeFacts DEF ExchangeFits
<1> HIDE DEF M
<1>3. /\ m = outbox[p][1] /\ Len(outbox[p]) # 0
      /\ Tail(outbox[p]) \in Seq(M) /\ Len(Tail(outbox[p])) = Len(outbox[p]) - 1
      /\ \A i \in 1 .. Len(Tail(outbox[p])) : Tail(outbox[p])[i] = outbox[p][i + 1]
  BY <1>1, <1>2, EmptySeq, HeadTailProperties
<1>4. /\ outbox'[p] = Tail(outbox[p]) /\ outbox' \in [Peer -> Seq(M)]
      /\ \A q \in Peer \ {p} : outbox'[q] = outbox[q]
  BY <1>1, <1>3
<1>5. \A q \in Peer : Len(outbox'[q]) <= PeerCap
  BY <1>1, <1>2, <1>3, <1>4
<1>6. DOMAIN outbox'[p] = 1 .. Len(outbox[p]) - 1
  BY <1>3, <1>4, LenProperties
<1>7. \A i \in DOMAIN outbox'[p] :
         i + 1 \in DOMAIN outbox[p] /\ 1 <= i + 1 /\ outbox'[p][i] = outbox[p][i + 1]
  BY <1>2, <1>3, <1>4, <1>6
<1>8. BoxesSorted'
  <2> SUFFICES ASSUME NEW q \in Peer, NEW i \in DOMAIN outbox'[q], NEW j \in DOMAIN outbox'[q],
                      i <= j, outbox'[q][i].kind = outbox'[q][j].kind
               PROVE  outbox'[q][i].rpc <= outbox'[q][j].rpc
    BY DEF BoxesSorted
  <2>1. CASE q = p
    <3>1. i + 1 <= j + 1
      BY <1>2, <1>6, <2>1
    <3>2. QED BY <1>1, <1>7, <2>1, <3>1 DEF BoxesSorted
  <2>2. CASE q # p
    BY <1>1, <1>4, <2>2 DEF BoxesSorted
  <2>3. QED BY <2>1, <2>2
<1>9. ASSUME NEW q \in Peer, NEW k \in Kind
      PROVE  Boxed(q, k)' \subseteq Boxed(q, k)
  <2>1. CASE q = p
    BY <1>7, <2>1 DEF Boxed
  <2>2. CASE q # p
    BY <1>4, <2>2 DEF Boxed
  <2>3. QED BY <2>1, <2>2
<1>10. 1 \in DOMAIN outbox[p] /\ m \in M
  BY <1>2, <1>3
<1>11. m.rpc \in Boxed(p, m.kind)
  BY <1>3, <1>10 DEF Boxed, M, Message
<1>12. ASSUME NEW k, k = m.kind, NEW x \in Boxed(p, k)'
       PROVE  m.rpc <= x
  <2>1. PICK i \in DOMAIN outbox'[p] : outbox'[p][i].kind = k /\ outbox'[p][i].rpc = x
    BY DEF Boxed
  <2>2. /\ i + 1 \in DOMAIN outbox[p] /\ 1 <= i + 1
        /\ outbox[p][1].kind = outbox[p][i + 1].kind /\ outbox[p][i + 1].rpc = x
    BY <1>3, <1>7, <1>12, <2>1
  <2>3. outbox[p][1].rpc <= outbox[p][i + 1].rpc
    BY <1>1, <1>10, <2>2 DEF BoxesSorted
  <2>4. QED BY <1>3, <2>2, <2>3
<1>13. QED BY <1>4, <1>5, <1>8, <1>9, <1>10, <1>11, <1>12 DEF M

\* The pump loses a message.
LEMMA PumpFits ==
  ASSUME ExchangeFits, NEW p \in Peer, PumpMessage(p)
  PROVE  ExchangeFits'
<1>1. /\ HasMessage(p) /\ outbox' = [outbox EXCEPT ![p] = Tail(@)]
      /\ UNCHANGED <<runtime, ended, accepting, rpcs, events, immediate, persisted, unsaved>>
  BY DEF PumpMessage, coreVars
<1>2. /\ outbox' \in [Peer -> Seq(Message(Len(rpcs)))]
      /\ \A q \in Peer : Len(outbox'[q]) <= PeerCap
      /\ BoxesSorted'
      /\ \A q \in Peer, k \in Kind : Boxed(q, k)' \subseteq Boxed(q, k)
  BY <1>1, TakenMessage
<1>3. ExchangeTypes'
  BY <1>1, <1>2 DEF ExchangeFits, ExchangeTypes
<1>4. EventsSorted' /\ OneStaged' /\ AnswersMade' /\ Staged' = Staged
  BY <1>1
  DEF ExchangeFits, AnswersOrdered, EventsSorted, OneStaged, AnswersMade, Staged
<1>5. ASSUME NEW q \in Peer, NEW k \in Kind
      PROVE  InOrder(q, k)'
  <2>1. Given(q, k)' = Given(q, k) /\ Prepared(q, k)' = Prepared(q, k) /\ Asked(q, k)' = Asked(q, k)
    BY <1>1, <1>4 DEF Given, Prepared, Asked
  <2>2. InOrder(q, k)
    BY DEF ExchangeFits, AnswersOrdered
  <2>3. QED BY <1>2, <2>1, <2>2 DEF InOrder, Precedes
<1>6. QED BY <1>2, <1>3, <1>4, <1>5 DEF ExchangeFits, AnswersOrdered

----------------------------------------------------------------------------
\* A handler takes a message, returns it, or fails.

LEMMA CallSet ==
  ASSUME ExchangeTypes, NEW r \in DOMAIN rpcs, NEW state \in {"taken", "answered", "failed"},
         NEW answer \in Nat, SetCall(r, state, answer)
  PROVE  /\ rpcs' \in Seq(CallRecord) /\ Len(rpcs') = Len(rpcs) /\ DOMAIN rpcs' = DOMAIN rpcs
         /\ \A s \in DOMAIN rpcs :
               rpcs'[s].from = rpcs[s].from /\ rpcs'[s].kind = rpcs[s].kind
         /\ rpcs'[r].state = state /\ rpcs'[r].answer = answer
         /\ \A s \in DOMAIN rpcs : s # r => rpcs'[s] = rpcs[s]
         /\ UNCHANGED <<runtime, ended, accepting, events, immediate, persisted, unsaved>>
<1>1. /\ rpcs \in Seq(CallRecord) /\ Len(rpcs) \in Nat /\ DOMAIN rpcs = 1 .. Len(rpcs)
      /\ rpcs[r] \in CallRecord
  BY ExchangeFacts DEF ExchangeTypes
<1> DEFINE c == [rpcs[r] EXCEPT !.state = state, !.answer = answer]
<1>2. /\ c \in CallRecord /\ c.from = rpcs[r].from /\ c.kind = rpcs[r].kind
      /\ c.state = state /\ c.answer = answer
  BY <1>1 DEF CallRecord
<1>3. rpcs' = [rpcs EXCEPT ![r] = c]
  BY DEF SetCall
<1> HIDE DEF c
<1>4. rpcs' \in Seq(CallRecord) /\ Len(rpcs') = Len(rpcs)
  BY <1>1, <1>2, <1>3, ExceptSeq
<1>5. DOMAIN rpcs' = DOMAIN rpcs /\ rpcs'[r] = c /\ \A s \in DOMAIN rpcs : s # r => rpcs'[s] = rpcs[s]
  BY <1>3
<1>6. QED BY <1>2, <1>4, <1>5 DEF SetCall, coreVars

\* What else that leaves as it was.
LEMMA CallSetKeeps ==
  ASSUME ExchangeFits, NEW r \in DOMAIN rpcs, NEW state \in {"taken", "answered", "failed"},
         NEW answer \in Nat, SetCall(r, state, answer)
  PROVE  /\ \A p, k : Prepared(p, k)' = Prepared(p, k) /\ Asked(p, k)' = Asked(p, k)
         /\ EventsSorted' /\ OneStaged'
<1>1. /\ Len(rpcs') = Len(rpcs) /\ DOMAIN rpcs' = DOMAIN rpcs
      /\ \A s \in DOMAIN rpcs : rpcs'[s].from = rpcs[s].from /\ rpcs'[s].kind = rpcs[s].kind
      /\ UNCHANGED <<runtime, ended, accepting, events, immediate, persisted, unsaved>>
      /\ DOMAIN rpcs = 1 .. Len(rpcs)
  BY CallSet, ExchangeFacts DEF ExchangeFits
<1>2. Staged' = Staged
  BY <1>1 DEF Staged
<1>3. ASSUME NEW p, NEW k
      PROVE  Prepared(p, k)' = Prepared(p, k) /\ Asked(p, k)' = Asked(p, k)
  BY <1>1, <1>2 DEF Prepared, Asked
<1>4. QED BY <1>1, <1>2, <1>3 DEF ExchangeFits, AnswersOrdered, EventsSorted, OneStaged

\* A return that answers nothing.
LEMMA FailFits ==
  ASSUME ExchangeFits, NEW r \in DOMAIN rpcs, SetCall(r, "failed", 0),
         outbox' \in [Peer -> Seq(Message(Len(rpcs)))],
         \A q \in Peer : Len(outbox'[q]) <= PeerCap,
         BoxesSorted', \A q \in Peer, k \in Kind : Boxed(q, k)' \subseteq Boxed(q, k)
  PROVE  ExchangeFits'
<1>1. /\ rpcs' \in Seq(CallRecord) /\ Len(rpcs') = Len(rpcs) /\ DOMAIN rpcs' = DOMAIN rpcs
      /\ \A s \in DOMAIN rpcs :
            rpcs'[s].from = rpcs[s].from /\ rpcs'[s].kind = rpcs[s].kind
      /\ rpcs'[r].state = "failed"
      /\ \A s \in DOMAIN rpcs : s # r => rpcs'[s] = rpcs[s]
      /\ UNCHANGED <<runtime, ended, accepting, events, immediate, persisted, unsaved>>
  BY CallSet DEF ExchangeFits
<1>2. /\ \A p, k : Prepared(p, k)' = Prepared(p, k) /\ Asked(p, k)' = Asked(p, k)
      /\ EventsSorted' /\ OneStaged'
  BY CallSetKeeps
<1>3. ExchangeTypes'
  BY <1>1 DEF ExchangeFits, ExchangeTypes
<1>4. AnswersMade'
  BY <1>1 DEF ExchangeFits, AnswersOrdered, AnswersMade
<1>5. ASSUME NEW q \in Peer, NEW k \in Kind
      PROVE  InOrder(q, k)'
  <2>1. Given(q, k)' \subseteq Given(q, k)
    BY <1>1 DEF Given
  <2>2. InOrder(q, k)
    BY DEF ExchangeFits, AnswersOrdered
  <2>3. QED BY <1>2, <2>1, <2>2 DEF InOrder, Precedes
<1>6. QED BY <1>2, <1>3, <1>4, <1>5 DEF ExchangeFits, AnswersOrdered

\* What a handler takes for an answer is behind no answer of its kind.
LEMMA PollFits ==
  ASSUME ExchangeFits, NEW r \in Waiting, Poll(r)
  PROVE  ExchangeFits'
<1> PICK p : p = rpcs[r].from
  OBVIOUS
<1> PICK m : m = Head(outbox[p])
  OBVIOUS
<1>1. /\ r \in DOMAIN rpcs /\ p \in Peer /\ HasMessage(p)
      /\ outbox' = [outbox EXCEPT ![p] = Tail(@)]
      /\ \/ m.kind = rpcs[r].kind /\ SetCall(r, "taken", m.rpc)
         \/ m.kind # rpcs[r].kind /\ SetCall(r, "failed", 0)
  BY DEF Poll, Waiting, HasMessage
<1>2. ExchangeTypes /\ AnswersOrdered /\ DOMAIN rpcs = 1 .. Len(rpcs)
  BY ExchangeFacts DEF ExchangeFits
<1>3. Len(rpcs) = Len(rpcs)'
  BY <1>1 DEF SetCall
<1>4. /\ outbox' \in [Peer -> Seq(Message(Len(rpcs)))]
      /\ \A q \in Peer : Len(outbox'[q]) <= PeerCap
      /\ BoxesSorted'
      /\ \A q \in Peer, k \in Kind : Boxed(q, k)' \subseteq Boxed(q, k)
      /\ m \in Message(Len(rpcs)) /\ m.rpc \in Boxed(p, m.kind)
  BY <1>1, <1>3, TakenMessage
<1>5. ASSUME NEW k, k = m.kind
      PROVE  \A x \in Boxed(p, k)' : m.rpc <= x
  BY <1>1, <1>3, <1>5, TakenMessage
<1>6. m.kind \in Kind /\ m.rpc \in 1 .. Len(rpcs)
  BY <1>4 DEF Message
<1>7. CASE m.kind # rpcs[r].kind /\ SetCall(r, "failed", 0)
  BY <1>1, <1>4, <1>7, FailFits
<1>8. CASE m.kind = rpcs[r].kind /\ SetCall(r, "taken", m.rpc)
  <2>1. m.rpc \in Nat /\ m.rpc \in DOMAIN rpcs
    BY <1>2, <1>6
  <2>2. /\ rpcs' \in Seq(CallRecord) /\ Len(rpcs') = Len(rpcs) /\ DOMAIN rpcs' = DOMAIN rpcs
        /\ \A s \in DOMAIN rpcs :
              rpcs'[s].from = rpcs[s].from /\ rpcs'[s].kind = rpcs[s].kind
        /\ rpcs'[r].answer = m.rpc
        /\ \A s \in DOMAIN rpcs : s # r => rpcs'[s] = rpcs[s]
        /\ UNCHANGED <<runtime, ended, accepting, events, immediate, persisted, unsaved>>
    BY <1>1, <1>2, <1>8, <2>1, CallSet
  <2>3. /\ \A q, k : Prepared(q, k)' = Prepared(q, k) /\ Asked(q, k)' = Asked(q, k)
        /\ EventsSorted' /\ OneStaged'
    BY <1>1, <1>8, <2>1, CallSetKeeps
  <2>4. ExchangeTypes'
    BY <1>2, <1>4, <2>2 DEF ExchangeTypes
  <2>5. AnswersMade'
    BY <1>2, <2>1, <2>2 DEF AnswersOrdered, AnswersMade
  <2>6. ASSUME NEW q \in Peer, NEW k \in Kind
        PROVE  InOrder(q, k)'
    <3>1. InOrder(q, k)
      BY <1>2 DEF AnswersOrdered
    <3>2. \A x \in Given(q, k)' : x \in Given(q, k) \/ (x = m.rpc /\ q = p /\ k = m.kind)
      BY <1>8, <2>2 DEF Given
    <3>3. CASE q = p /\ k = m.kind
      <4>1. m.rpc \in Boxed(q, k) /\ \A x \in Boxed(q, k)' : m.rpc <= x
        BY <1>4, <1>5, <3>3
      <4>2. QED BY <1>4, <2>3, <3>1, <3>2, <4>1 DEF InOrder, Precedes
    <3>4. CASE ~(q = p /\ k = m.kind)
      BY <1>4, <2>3, <3>1, <3>2, <3>4 DEF InOrder, Precedes
    <3>5. QED BY <3>3, <3>4
  <2>7. QED BY <1>4, <2>3, <2>4, <2>5, <2>6 DEF ExchangeFits, AnswersOrdered
<1>9. QED BY <1>1, <1>7, <1>8

\* A handler returns what it holds: it keeps its place among the answers.
LEMMA FillFits ==
  ASSUME ExchangeFits, NEW r \in DOMAIN rpcs, FillResponse(r)
  PROVE  ExchangeFits'
<1>1. ExchangeTypes /\ AnswersOrdered /\ rpcs[r].state = "taken" /\ UNCHANGED outbox
      /\ DOMAIN rpcs = 1 .. Len(rpcs) /\ rpcs[r] \in CallRecord
  BY ExchangeFacts DEF ExchangeFits, FillResponse, Taken
<1>2. rpcs[r].answer \in Nat /\ SetCall(r, "answered", rpcs[r].answer)
  BY <1>1 DEF CallRecord, FillResponse
<1>3. /\ rpcs' \in Seq(CallRecord) /\ Len(rpcs') = Len(rpcs) /\ DOMAIN rpcs' = DOMAIN rpcs
      /\ \A s \in DOMAIN rpcs :
            rpcs'[s].from = rpcs[s].from /\ rpcs'[s].kind = rpcs[s].kind
      /\ rpcs'[r].state = "answered" /\ rpcs'[r].answer = rpcs[r].answer
      /\ \A s \in DOMAIN rpcs : s # r => rpcs'[s] = rpcs[s]
      /\ UNCHANGED <<runtime, ended, accepting, events, immediate, persisted, unsaved>>
  BY <1>1, <1>2, CallSet
<1>4. /\ \A p, k : Prepared(p, k)' = Prepared(p, k) /\ Asked(p, k)' = Asked(p, k)
      /\ EventsSorted' /\ OneStaged'
  BY <1>2, CallSetKeeps
<1>5. ExchangeTypes' /\ BoxesSorted'
  BY <1>1, <1>3 DEF ExchangeTypes, AnswersOrdered, BoxesSorted
<1>6. \A s \in DOMAIN rpcs : rpcs'[s].state \in {"taken", "answered"} =>
         rpcs[s].state \in {"taken", "answered"} /\ rpcs'[s].answer = rpcs[s].answer
  BY <1>1, <1>3
<1>7. AnswersMade'
  BY <1>1, <1>3, <1>6 DEF AnswersOrdered, AnswersMade
<1>8. ASSUME NEW q \in Peer, NEW k \in Kind
      PROVE  InOrder(q, k)'
  <2>1. Given(q, k)' \subseteq Given(q, k) /\ Boxed(q, k)' = Boxed(q, k)
    BY <1>1, <1>3, <1>6 DEF Given, Boxed
  <2>2. InOrder(q, k)
    BY <1>1 DEF AnswersOrdered
  <2>3. QED BY <1>4, <2>1, <2>2 DEF InOrder, Precedes
<1>9. QED BY <1>4, <1>5, <1>7, <1>8 DEF ExchangeFits, AnswersOrdered

LEMMA HandlerFits ==
  ASSUME ExchangeFits, NEW r \in InHandler, Handler(r)
  PROVE  ExchangeFits'
<1>0. r \in DOMAIN rpcs
  BY DEF InHandler, Waiting, Taken
<1>1. CASE Poll(r)
  BY <1>1, PollFits DEF Poll
<1>4. CASE FillResponse(r)
  BY <1>0, <1>4, FillFits
<1>2. CASE Expire(r)
  <2>1. SetCall(r, "failed", 0) /\ UNCHANGED outbox /\ r \in DOMAIN rpcs
    BY <1>2 DEF Expire, Waiting
  <2>2. Len(rpcs) = Len(rpcs)'
    BY <2>1 DEF SetCall
  <2>3. /\ BoxesSorted' /\ \A q \in Peer, k \in Kind : Boxed(q, k)' \subseteq Boxed(q, k)
        /\ outbox' \in [Peer -> Seq(Message(Len(rpcs)))]
        /\ \A q \in Peer : Len(outbox'[q]) <= PeerCap
    BY <2>1, <2>2 DEF ExchangeFits, ExchangeTypes, AnswersOrdered, BoxesSorted, Boxed
  <2>4. QED BY <2>1, <2>3, FailFits
<1>3. QED BY <1>1, <1>2, <1>4 DEF Handler

----------------------------------------------------------------------------
\* A call.

LEMMA WiderSeq ==
  ASSUME NEW A, NEW B, A \subseteq B, NEW s \in Seq(A)
  PROVE  s \in Seq(B)
<1>1. Len(s) \in Nat /\ s \in [1 .. Len(s) -> A]
  BY LenProperties
<1>2. s \in [1 .. Len(s) -> B]
  BY <1>1
<1>3. QED BY <1>1, <1>2

\* A new call is younger than all there are.
LEMMA CallOrders ==
  ASSUME ExchangeFits, NEW c \in CallRecord, c.state \notin {"taken", "answered"},
         Len(rpcs) < MaxRpcs, rpcs' = Append(rpcs, c),
         \/ Accepts /\ events' = Append(events, [kind |-> "message", rpc |-> Len(rpcs) + 1])
         \/ UNCHANGED events,
         UNCHANGED <<runtime, ended, accepting, immediate, persisted, unsaved, outbox>>
  PROVE  ExchangeFits'
<1>1. ExchangeTypes /\ AnswersOrdered /\ MaxRpcs \in Nat /\ EventCap \in Nat
  BY ExchangeAssumption DEF ExchangeFits
<1> PICK n : n = Len(rpcs)
  OBVIOUS
<1>2. /\ n \in Nat /\ DOMAIN rpcs = 1 .. n
      /\ Len(events) \in Nat /\ DOMAIN events = 1 .. Len(events)
      /\ \A i \in DOMAIN events : events[i] \in Event(n)
      /\ Staged \subseteq Message(n)
      /\ \A p \in Peer : \A i \in DOMAIN outbox[p] : outbox[p][i] \in Message(n)
  BY <1>1, ExchangeFacts
<1>3. /\ rpcs' \in Seq(CallRecord) /\ Len(rpcs') = n + 1
      /\ \A s \in 1 .. n : rpcs'[s] = rpcs[s]
      /\ rpcs'[n + 1] = c
  BY <1>1, AppendProperties DEF ExchangeTypes
<1>4. DOMAIN rpcs' = 1 .. n + 1
  BY <1>3, LenProperties
<1>5. Message(n) \subseteq Message(n + 1) /\ Event(n) \subseteq Event(n + 1)
  BY <1>2 DEF Message, Event
<1>6. /\ events \in Seq(Event(n + 1))
      /\ immediate \in Seq(Message(n + 1)) /\ persisted \in Seq(Message(n + 1))
      /\ \A p \in Peer : outbox[p] \in Seq(Message(n + 1))
  <2>1. /\ events \in Seq(Event(n))
        /\ immediate \in Seq(Message(n)) /\ persisted \in Seq(Message(n))
        /\ \A p \in Peer : outbox[p] \in Seq(Message(n))
    BY <1>1 DEF ExchangeTypes
  <2>2. QED BY <1>5, <2>1, WiderSeq
<1> DEFINE e == [kind |-> "message", rpc |-> n + 1]
<1>7. e \in Event(n + 1)
  BY <1>2 DEF Event
<1> HIDE DEF e
<1>8. /\ events' \in Seq(Event(n + 1)) /\ Len(events') <= EventCap
      /\ DOMAIN events \subseteq DOMAIN events' /\ DOMAIN events' \subseteq Nat
      /\ \A i \in DOMAIN events : events'[i] = events[i]
      /\ \A i \in DOMAIN events' \ DOMAIN events : events'[i] = e
      /\ \A i, j \in DOMAIN events' : i < j => i \in DOMAIN events
  <2>1. CASE UNCHANGED events
    BY <1>1, <1>2, <1>6, <2>1 DEF ExchangeTypes
  <2>2. CASE Accepts /\ events' = Append(events, e)
    <3>1. /\ events' \in Seq(Event(n + 1)) /\ Len(events') = Len(events) + 1
          /\ \A i \in 1 .. Len(events) : events'[i] = events[i]
          /\ events'[Len(events) + 1] = e
      BY <1>6, <1>7, <2>2, AppendProperties
    <3>2. DOMAIN events' = 1 .. Len(events) + 1 /\ Len(events) < EventCap
      BY <2>2, <3>1, LenProperties DEF Accepts
    <3>3. QED BY <1>1, <1>2, <3>1, <3>2
  <2>3. QED BY <2>1, <2>2 DEF e
<1>9. ExchangeTypes'
  <2>1. outbox' \in [Peer -> Seq(Message(n + 1))]
    BY <1>1, <1>6 DEF ExchangeTypes
  <2>2. QED BY <1>1, <1>2, <1>3, <1>4, <1>6, <1>8, <2>1 DEF ExchangeTypes
<1>10. EventsSorted'
  <2> SUFFICES ASSUME NEW i \in DOMAIN events', NEW j \in DOMAIN events', i < j,
                      events'[i].kind = "message", events'[j].kind = "message"
               PROVE  events'[i].rpc < events'[j].rpc
    BY DEF EventsSorted
  <2>1. i \in DOMAIN events /\ events[i].kind = "message" /\ events'[i] = events[i]
    BY <1>8
  <2>2. CASE j \in DOMAIN events
    BY <1>1, <1>8, <2>1, <2>2 DEF AnswersOrdered, EventsSorted
  <2>3. CASE j \notin DOMAIN events
    <3>1. events'[j].rpc = n + 1
      BY <1>8, <2>3 DEF e
    <3>2. events[i].rpc \in 1 .. n
      BY <1>2, <2>1 DEF Event
    <3>3. QED BY <1>2, <2>1, <3>1, <3>2
  <2>4. QED BY <2>2, <2>3
<1>11. OneStaged' /\ BoxesSorted' /\ Staged' = Staged
  BY <1>1 DEF AnswersOrdered, OneStaged, BoxesSorted, Staged
<1>12. AnswersMade'
  BY <1>1, <1>2, <1>3, <1>4 DEF AnswersOrdered, AnswersMade
<1>13. ASSUME NEW p \in Peer, NEW k \in Kind
       PROVE  InOrder(p, k)'
  <2>1. InOrder(p, k)
    BY <1>1 DEF AnswersOrdered
  <2>2. Given(p, k)' \subseteq Given(p, k) /\ \A x \in Given(p, k) : x \in 0 .. n
    BY <1>1, <1>2, <1>3, <1>4 DEF Given, AnswersOrdered, AnswersMade
  <2>3. Boxed(p, k)' \subseteq Boxed(p, k) /\ \A x \in Boxed(p, k) : x \in 1 .. n
    BY <1>2 DEF Boxed, Message
  <2>4. Prepared(p, k)' \subseteq Prepared(p, k) /\ \A x \in Prepared(p, k) : x \in 1 .. n
    BY <1>2, <1>11 DEF Prepared, Message
  <2>5. Asked(p, k)' \subseteq Asked(p, k) \cup {n + 1}
    <3> SUFFICES ASSUME NEW x \in Asked(p, k)', x # n + 1
                 PROVE  x \in Asked(p, k)
      OBVIOUS
    <3>1. x \in 1 .. n /\ rpcs'[x] = rpcs[x]
      BY <1>2, <1>3, <1>4 DEF Asked
    <3>2. PICK i \in DOMAIN events' : events'[i].kind = "message" /\ events'[i].rpc = x
      BY DEF Asked
    <3>3. i \in DOMAIN events
      BY <1>8, <3>2 DEF e
    <3>4. rpcs'[x].from = p /\ rpcs'[x].kind = k
      BY DEF Asked
    <3>5. QED BY <1>2, <1>8, <3>1, <3>2, <3>3, <3>4 DEF Asked
  <2>6. \A x \in Given(p, k) \cup Boxed(p, k) \cup Prepared(p, k) : x <= n + 1
    BY <1>2, <2>2, <2>3, <2>4
  <2>7. QED BY <2>1, <2>2, <2>3, <2>4, <2>5, <2>6 DEF InOrder, Precedes
<1>14. QED
  BY <1>9, <1>10, <1>11, <1>12, <1>13 DEF ExchangeFits, AnswersOrdered

LEMMA CallFits ==
  ASSUME ExchangeFits, NEW request \in Request, Call(request)
  PROVE  ExchangeFits'
<1>1. NoCall \in CallRecord /\ NoCall.state = "failed"
  BY DEF NoCall, CallRecord, Kind
<1>2. Internal(request) \in CallRecord /\ Internal(request).state = "waiting"
  BY DEF Internal, NoCall, CallRecord, Kind, Request
<1>3. /\ Len(rpcs) < MaxRpcs
      /\ UNCHANGED <<runtime, ended, accepting, immediate, persisted, unsaved, outbox>>
  BY DEF Call, coreVars
<1>4. CASE /\ Accepts /\ rpcs' = Append(rpcs, Internal(request))
           /\ events' = Append(events, [kind |-> "message", rpc |-> Len(rpcs) + 1])
  BY <1>2, <1>3, <1>4, CallOrders
<1>5. CASE rpcs' = Append(rpcs, NoCall) /\ UNCHANGED events
  BY <1>1, <1>3, <1>5, CallOrders
<1>6. QED BY <1>4, <1>5 DEF Call

----------------------------------------------------------------------------
\* The steps of the process.

\* Calls, threads and the protocol: they neither start nor stop the runtime, end
\* its threads while it has any, and wait for an answer while calls are taken.
LEMMA ExchangeStep ==
  ASSUME ExchangeFits, ExchangeNext
  PROVE  /\ ExchangeFits'
         /\ UNCHANGED <<runtime, accepting>>
         /\ UNCHANGED ended \/ runtime \in {"RUNNING", "STOPPING"}
         /\ InHandler' \subseteq InHandler \/ accepting
<1>1. CASE Protocol
  <2>1. /\ UNCHANGED <<runtime, accepting, rpcs>>
        /\ UNCHANGED ended \/ runtime \in {"RUNNING", "STOPPING"}
    BY <1>1
    DEF Protocol, ProcessTick, HandleRequest, HandleInstallSnapshot, RefuseRequest,
        PersistenceConfirmed, PersistenceRefused, ProtocolEnds, Take
  <2>2. QED BY <1>1, <2>1, ProtocolFits DEF InHandler, Waiting, Taken
<1>2. CASE (\E done \in SUBSET unsaved : Write(done)) \/ PersistenceEnds
  <2>1. /\ UNCHANGED <<runtime, accepting, rpcs>>
        /\ UNCHANGED ended \/ runtime \in {"RUNNING", "STOPPING"}
    BY <1>2 DEF Write, PersistenceEnds
  <2>2. QED BY <1>2, <2>1, PersistenceFits DEF InHandler, Waiting, Taken
<1>3. ASSUME NEW request \in Request, Call(request)
      PROVE  ExchangeFits' /\ UNCHANGED <<runtime, accepting, ended>> /\ accepting
  BY <1>3, CallFits DEF Call
<1>4. ASSUME NEW r \in InHandler, Handler(r)
      PROVE  /\ ExchangeFits' /\ UNCHANGED <<runtime, accepting, ended>>
             /\ InHandler' \subseteq InHandler
  <2>1. r \in DOMAIN rpcs
    BY DEF InHandler, Waiting, Taken
  <2>2. PICK state \in {"taken", "answered", "failed"}, answer \in Nat : SetCall(r, state, answer)
    <3>1. CASE Expire(r)
      BY <3>1 DEF Expire
    <3>2. CASE Poll(r)
      <4>1. /\ rpcs[r].from \in Peer /\ HasMessage(rpcs[r].from)
            /\ \/ SetCall(r, "taken", Head(outbox[rpcs[r].from]).rpc)
               \/ SetCall(r, "failed", 0)
        BY <3>2 DEF Poll, HasMessage
      <4>2. outbox[rpcs[r].from] \in Seq(Message(Len(rpcs))) /\ outbox[rpcs[r].from] # << >>
        BY <4>1 DEF ExchangeFits, ExchangeTypes, HasMessage
      <4>3. Head(outbox[rpcs[r].from]) \in Message(Len(rpcs))
        BY <4>2, HeadTailProperties
      <4>4. Head(outbox[rpcs[r].from]).rpc \in Nat
        BY <4>3, ExchangeFacts DEF ExchangeFits, Message
      <4>5. QED BY <4>1, <4>4
    <3>3. CASE FillResponse(r)
      <4>1. rpcs[r] \in CallRecord
        BY <2>1, ExchangeFacts DEF ExchangeFits
      <4>2. QED BY <3>3, <4>1 DEF FillResponse, CallRecord
    <3>4. QED BY <1>4, <3>1, <3>2, <3>3 DEF Handler
  <2>3. /\ UNCHANGED <<runtime, accepting, ended>>
        /\ DOMAIN rpcs' = DOMAIN rpcs /\ rpcs'[r].state = state
        /\ \A s \in DOMAIN rpcs : s # r => rpcs'[s] = rpcs[s]
    BY <2>1, <2>2, CallSet DEF ExchangeFits
  <2>4. InHandler' \subseteq InHandler
    BY <2>3 DEF InHandler, Waiting, Taken
  <2>5. QED BY <1>4, <2>3, <2>4, HandlerFits
<1>5. QED BY <1>1, <1>2, <1>3, <1>4 DEF ExchangeNext

LEMMA MainStep ==
  ASSUME ServerInductive, Main
  PROVE  ServerInductive'
<1>1. ExchangeFits /\ ExchangeTypes /\ ServerTypes /\ InStep
  BY DEF ServerInductive, ExchangeFits
<1>2. ASSUME UNCHANGED lifeFrame,
             runtime' \in {"CREATED", "INITIALIZED", "RUNNING", "STOPPING", "STOPPED"},
             UNCHANGED ended
      PROVE  ExchangeFits' /\ InHandler' = InHandler
  <2>1. /\ UNCHANGED <<rpcs, events, immediate, persisted, unsaved, outbox>>
        /\ ended' \subseteq {"protocol", "persistence"}
    BY <1>1, <1>2 DEF lifeFrame, coreVars, ExchangeTypes
  <2>2. QED BY <1>1, <1>2, <2>1, StillFits DEF InHandler, Waiting, Taken
<1>3. ASSUME UNCHANGED exchangeVars
      PROVE  ExchangeFits' /\ InHandler' = InHandler /\ UNCHANGED <<runtime, ended, accepting>>
  <2>1. UNCHANGED <<lifeFrame, runtime, ended, accepting>>
    BY <1>3 DEF exchangeVars, lifeFrame
  <2>2. QED BY <1>1, <1>2, <2>1 DEF ExchangeTypes
<1>4. ASSUME NEW valid \in BOOLEAN, Initialize(valid)
      PROVE  ServerInductive'
  <2>1. runtime = "CREATED" /\ main = "created"
    BY <1>1, <1>4 DEF Initialize, InStep
  <2>2. /\ UNCHANGED <<ended, lifeFrame, accepting, ticking, pumping>>
        /\ \/ main' = "initialized" /\ runtime' = "INITIALIZED"
           \/ main' = "exited" /\ UNCHANGED runtime
    BY <1>4 DEF Initialize, RuntimeInitialize, threads
  <2>3. ExchangeFits' /\ InHandler' = InHandler
    BY <1>2, <2>1, <2>2
  <2>4. ServerTypes'
    BY <1>1, <1>4, <2>2
    DEF ServerTypes, Initialize, LifecycleInitialize, TransportInitialize
  <2>5. InStep'
    BY <1>1, <2>1, <2>2, <2>3 DEF InStep
  <2>6. QED BY <2>3, <2>4, <2>5 DEF ServerInductive
<1>5. CASE Start
  <2>1. /\ main = "initialized" /\ main' = "starting" /\ runtime' = "RUNNING"
        /\ UNCHANGED <<ended, lifeFrame, accepting, ticking, pumping>>
        /\ lifecycle' = "running" /\ transport' = "STARTED"
    BY <1>5 DEF Start, RuntimeStart, LifecycleStart, TransportStart, threads
  <2>2. ExchangeFits' /\ InHandler' = InHandler
    BY <1>2, <2>1
  <2>3. QED BY <1>1, <2>1, <2>2 DEF ServerInductive, ServerTypes, InStep
<1>6. CASE StartGrpcServer
  <2>1. /\ main = "starting" /\ main' = "bound" /\ accepting'
        /\ UNCHANGED <<runtime, ended, lifeFrame, ticking, pumping, lifecycle, transport>>
    BY <1>6 DEF StartGrpcServer, threads
  <2>2. ExchangeFits' /\ InHandler' = InHandler
    BY <1>1, <1>2, <2>1 DEF ExchangeTypes
  <2>3. QED BY <1>1, <2>1, <2>2 DEF ServerInductive, ServerTypes, InStep
<1>7. CASE FailToBind
  <2>1. /\ main = "starting" /\ main' = "closing" /\ runtime' = "STOPPING"
        /\ UNCHANGED <<ended, lifeFrame, accepting, ticking, pumping, lifecycle, transport>>
    BY <1>7 DEF FailToBind, RequestShutdown, threads
  <2>2. ExchangeFits' /\ InHandler' = InHandler
    BY <1>2, <2>1
  <2>3. QED BY <1>1, <2>1, <2>2 DEF ServerInductive, ServerTypes, InStep
<1>8. CASE StartThreads
  <2>1. /\ main = "bound" /\ main' = "serving" /\ ticking' = "running" /\ pumping' = "running"
        /\ UNCHANGED <<exchangeVars, lifecycle, transport>>
    BY <1>8 DEF StartThreads
  <2>2. ExchangeFits' /\ InHandler' = InHandler /\ UNCHANGED <<runtime, ended, accepting>>
    BY <1>3, <2>1
  <2>3. QED BY <1>1, <2>1, <2>2 DEF ServerInductive, ServerTypes, InStep
<1>9. CASE BeginStop
  <2>1. /\ main = "serving" /\ main' = "draining" /\ ~accepting'
        /\ UNCHANGED <<runtime, ended, lifeFrame, ticking, pumping, lifecycle, transport>>
    BY <1>9 DEF BeginStop, threads
  <2>2. ExchangeFits' /\ InHandler' = InHandler
    BY <1>1, <1>2, <2>1 DEF ExchangeTypes
  <2>3. QED BY <1>1, <2>1, <2>2 DEF ServerInductive, ServerTypes, InStep
<1>10. CASE WaitForHandlers
  <2>1. /\ main = "draining" /\ main' = "joining" /\ InHandler = {}
        /\ UNCHANGED <<exchangeVars, ticking, pumping, lifecycle, transport>>
    BY <1>10 DEF WaitForHandlers, stopFrame, threads
  <2>2. ExchangeFits' /\ InHandler' = InHandler /\ UNCHANGED <<runtime, ended, accepting>>
    BY <1>3, <2>1
  <2>3. QED BY <1>1, <2>1, <2>2 DEF ServerInductive, ServerTypes, InStep
<1>11. CASE JoinThreads
  <2>1. /\ main = "joining" /\ main' = "closing" /\ runtime' = "STOPPING"
        /\ ticking = "ended" /\ pumping = "ended"
        /\ UNCHANGED <<ended, lifeFrame, accepting, ticking, pumping, lifecycle, transport>>
    BY <1>11 DEF JoinThreads, RequestShutdown, threads
  <2>2. ExchangeFits' /\ InHandler' = InHandler
    BY <1>2, <2>1
  <2>3. QED BY <1>1, <2>1, <2>2 DEF ServerInductive, ServerTypes, InStep
<1>12. CASE Finish
  <2>1. /\ main = "closing" /\ main' = "exited" /\ runtime' = "STOPPED"
        /\ ended = {"protocol", "persistence"} /\ lifecycle' = "off"
        /\ transport' = IF transport = "CREATED" THEN transport ELSE "STOPPED"
        /\ UNCHANGED <<ended, lifeFrame, accepting, ticking, pumping>>
    BY <1>12 DEF Finish, WaitForShutdown, LifecycleStop, TransportStop, threads
  <2>2. ExchangeFits' /\ InHandler' = InHandler
    BY <1>2, <2>1
  <2>3. QED BY <1>1, <2>1, <2>2 DEF ServerInductive, ServerTypes, InStep
<1>13. QED
  BY <1>4, <1>5, <1>6, <1>7, <1>8, <1>9, <1>10, <1>11, <1>12 DEF Main

LEMMA ThreadStep ==
  ASSUME ServerInductive, TickLoop \/ PeerPumpLoop \/ HandleSignal \/ UNCHANGED processVars
  PROVE  ServerInductive'
<1>1. ExchangeFits /\ ServerTypes /\ InStep
  BY DEF ServerInductive
<1>2. ASSUME UNCHANGED exchangeVars
      PROVE  ExchangeFits' /\ InHandler' = InHandler /\ UNCHANGED <<runtime, ended, accepting>>
  <2>1. UNCHANGED <<runtime, ended, accepting, rpcs, events, immediate, persisted, unsaved, outbox>>
    BY <1>2 DEF exchangeVars, coreVars
  <2>2. QED BY <1>1, <2>1, StillFits DEF ExchangeFits, ExchangeTypes, InHandler, Waiting, Taken
<1>3. CASE TickLoop
  <2>1. /\ ticking = "running" /\ UNCHANGED <<main, lifecycle, transport, pumping>>
        /\ \/ ticking' = "ended" /\ UNCHANGED exchangeVars
           \/ EnqueueTick /\ UNCHANGED ticking
    BY <1>3 DEF TickLoop
  <2>2. CASE ticking' = "ended" /\ UNCHANGED exchangeVars
    <3>1. ExchangeFits' /\ InHandler' = InHandler /\ UNCHANGED <<runtime, ended, accepting>>
      BY <1>2, <2>2
    <3>2. QED BY <1>1, <2>1, <2>2, <3>1 DEF ServerInductive, ServerTypes, InStep
  <2>3. CASE EnqueueTick /\ UNCHANGED ticking
    <3>1. /\ Accepts /\ events' = Append(events, [kind |-> "tick"])
          /\ UNCHANGED <<runtime, ended, accepting, rpcs, immediate, persisted, unsaved, outbox>>
      BY <2>3 DEF EnqueueTick, coreVars
    <3>2. [kind |-> "tick"] \in [kind : {"tick", "persisted"}]
      OBVIOUS
    <3>3. ExchangeFits' /\ InHandler' = InHandler
      BY <1>1, <3>1, <3>2, AddedFits DEF InHandler, Waiting, Taken
    <3>4. QED BY <1>1, <2>1, <2>3, <3>1, <3>3 DEF ServerInductive, ServerTypes, InStep
  <2>4. QED BY <2>1, <2>2, <2>3
<1>4. CASE PeerPumpLoop
  <2>1. /\ pumping = "running" /\ UNCHANGED <<main, lifecycle, transport, ticking>>
        /\ \/ (\E p \in Peer : PumpMessage(p)) /\ UNCHANGED pumping
           \/ pumping' = "ended" /\ UNCHANGED exchangeVars
    BY <1>4 DEF PeerPumpLoop
  <2>2. CASE pumping' = "ended" /\ UNCHANGED exchangeVars
    <3>1. ExchangeFits' /\ InHandler' = InHandler /\ UNCHANGED <<runtime, ended, accepting>>
      BY <1>2, <2>2
    <3>2. QED BY <1>1, <2>1, <2>2, <3>1 DEF ServerInductive, ServerTypes, InStep
  <2>3. CASE (\E p \in Peer : PumpMessage(p)) /\ UNCHANGED pumping
    <3>1. PICK p \in Peer : PumpMessage(p)
      BY <2>3
    <3>2. ExchangeFits' /\ InHandler' = InHandler /\ UNCHANGED <<runtime, ended, accepting>>
      BY <1>1, <3>1, PumpFits DEF PumpMessage, InHandler, Waiting, Taken
    <3>3. QED BY <1>1, <2>1, <2>3, <3>2 DEF ServerInductive, ServerTypes, InStep
  <2>4. QED BY <2>1, <2>2, <2>3
<1>5. CASE HandleSignal \/ UNCHANGED processVars
  <2>1. UNCHANGED <<exchangeVars, main, lifecycle, transport, ticking, pumping>>
    BY <1>5 DEF HandleSignal, processVars, serverVars
  <2>2. ExchangeFits' /\ InHandler' = InHandler /\ UNCHANGED <<runtime, ended, accepting>>
    BY <1>2, <2>1
  <2>3. QED BY <1>1, <2>1, <2>2 DEF ServerInductive, ServerTypes, InStep
<1>6. QED BY <1>3, <1>4, <1>5

LEMMA ServerStep ==
  ASSUME ServerInductive, [ServerNext]_processVars
  PROVE  ServerInductive'
<1>1. CASE ExchangeNext /\ UNCHANGED serverVars
  <2>1. ExchangeFits /\ ServerTypes /\ InStep
    BY DEF ServerInductive
  <2>2. UNCHANGED <<main, lifecycle, transport, ticking, pumping>>
    BY <1>1 DEF serverVars
  <2>3. /\ ExchangeFits'
        /\ UNCHANGED <<runtime, accepting>>
        /\ UNCHANGED ended \/ runtime \in {"RUNNING", "STOPPING"}
        /\ InHandler' \subseteq InHandler \/ accepting
    BY <1>1, <2>1, ExchangeStep
  <2>4. ServerTypes'
    BY <2>1, <2>2 DEF ServerTypes
  <2>5. InHandler' # {} => main \in {"bound", "serving", "draining"}
    BY <2>1, <2>3 DEF InStep
  <2>6. InStep'
    BY <2>1, <2>2, <2>3, <2>5 DEF InStep
  <2>7. QED BY <2>3, <2>4, <2>6 DEF ServerInductive
<1>2. CASE Main
  BY <1>2, MainStep
<1>3. CASE TickLoop \/ PeerPumpLoop \/ HandleSignal \/ UNCHANGED processVars
  BY <1>3, ThreadStep
<1>4. QED BY <1>1, <1>2, <1>3 DEF ServerNext

LEMMA ServerBegins == ServerInit => ServerInductive
<1> SUFFICES ASSUME ServerInit
             PROVE  ServerInductive
  OBVIOUS
<1>1. /\ runtime = "CREATED" /\ ended = {} /\ ~accepting
      /\ rpcs = << >> /\ events = << >> /\ immediate = << >> /\ persisted = << >>
      /\ unsaved = {} /\ outbox = [p \in Peer |-> << >>]
      /\ main = "created" /\ lifecycle = "off" /\ transport = "CREATED"
      /\ ticking = "none" /\ pumping = "none"
  BY DEF ServerInit, ExchangeInit
<1>2. Len(<< >>) = 0 /\ DOMAIN << >> = {} /\ \A S : << >> \in Seq(S)
  OBVIOUS
<1>3. {EventCap, PeerCap, MaxRpcs} \subseteq Nat
  BY ExchangeAssumption
<1>4. ExchangeTypes
  <2>1. outbox \in [Peer -> Seq(Message(Len(rpcs)))]
    BY <1>1, <1>2
  <2>2. QED BY <1>1, <1>2, <1>3, <2>1 DEF ExchangeTypes
<1>5. Staged = {}
  BY <1>1, <1>2 DEF Staged
<1>6. ASSUME NEW p \in Peer, NEW k \in Kind
      PROVE  InOrder(p, k)
  <2>1. Given(p, k) = {} /\ Boxed(p, k) = {} /\ Prepared(p, k) = {} /\ Asked(p, k) = {}
    BY <1>1, <1>2, <1>5 DEF Given, Boxed, Prepared, Asked
  <2>2. QED BY <2>1 DEF InOrder, Precedes
<1>7. BoxesSorted /\ EventsSorted /\ OneStaged /\ AnswersMade
  BY <1>1, <1>2, <1>5 DEF BoxesSorted, EventsSorted, OneStaged, AnswersMade
<1>8. InHandler = {}
  BY <1>1, <1>2 DEF InHandler, Waiting, Taken
<1>9. ServerTypes /\ InStep
  BY <1>1, <1>8 DEF ServerTypes, InStep
<1>10. QED BY <1>4, <1>6, <1>7, <1>9 DEF ServerInductive, ExchangeFits, AnswersOrdered

\* What the main thread has started, the queues hold and the answers promise, at
\* every moment of the process.
THEOREM ServerInvariant == ServerSpec => []ServerInductive
<1>1. ServerInductive /\ [ServerNext]_processVars => ServerInductive'
  BY ServerStep
<1>2. QED BY <1>1, ServerBegins, PTL DEF ServerSpec

\* The variables have their types and the queues their capacities, whatever the
\* peers, the calls and the capacities are.
THEOREM ServerTypeCorrect == ServerSpec => []ServerTypeOK
<1>1. ServerInductive => ServerTypeOK
  BY DEF ServerInductive, ExchangeFits, ExchangeTypes, ServerTypes, ServerTypeOK
<1>2. QED BY <1>1, ServerInvariant, PTL

\* When the main thread leaves, no handler waits and no thread runs, however it
\* came to leave: after the configuration, after the ports or after a signal.
THEOREM ExitIsClean == ServerSpec => []ExitedIsUnused
<1>1. ServerInductive => ExitedIsUnused
  BY DEF ServerInductive, ExchangeFits, ExchangeTypes, ServerTypes, InStep, ExitedIsUnused
<1>2. QED BY <1>1, ServerInvariant, PTL

\* Only a handler takes, what heads the queue of its caller; everything of its kind
\* that handlers of the caller have taken is older.
LEMMA AnswerIsNewest ==
  ASSUME ServerInductive, [ServerNext]_processVars, NEW r \in Waiting,
         rpcs'[r].state = "taken", NEW s \in DOMAIN rpcs,
         rpcs[s].state \in {"taken", "answered"}, rpcs[s].from = rpcs[r].from, rpcs[s].kind = rpcs[r].kind
  PROVE  rpcs[s].answer <= rpcs'[r].answer
<1>1. ExchangeFits /\ ExchangeTypes /\ AnswersOrdered
  BY DEF ServerInductive, ExchangeFits
<1>2. r \in DOMAIN rpcs /\ rpcs[r].state = "waiting"
  BY DEF Waiting
<1>3. DOMAIN rpcs = 1 .. Len(rpcs) /\ rpcs[r] \in CallRecord /\ Len(rpcs) \in Nat
  BY <1>1, <1>2, ExchangeFacts
<1>4. rpcs'[r] # rpcs[r]
  BY <1>2
<1>5. \/ \E request \in Request : Call(request)
      \/ \E q \in InHandler : Handler(q)
  BY <1>4
  DEF ServerNext, Main, Initialize, Start, StartGrpcServer, FailToBind, StartThreads, BeginStop,
      WaitForHandlers, JoinThreads, Finish, stopFrame, RuntimeInitialize, RuntimeStart,
      RequestShutdown, WaitForShutdown, lifeFrame, processVars, exchangeVars, ExchangeNext,
      Protocol, ProcessTick, HandleRequest, HandleInstallSnapshot, RefuseRequest,
      PersistenceConfirmed, PersistenceRefused, ProtocolEnds, Take, Write, PersistenceEnds,
      TickLoop, EnqueueTick, PeerPumpLoop, PumpMessage, HandleSignal
<1>6. ASSUME NEW request \in Request, Call(request)
      PROVE  FALSE
  <2>1. PICK c \in {NoCall, Internal(request)} : rpcs' = Append(rpcs, c)
    BY <1>6 DEF Call
  <2>2. rpcs'[r] = rpcs[r]
    BY <1>2, <1>3, <2>1
  <2>3. QED BY <1>4, <2>2
<1>7. ASSUME NEW q \in InHandler, Handler(q)
      PROVE  rpcs[s].answer <= rpcs'[r].answer
  <2>1. q = r
    BY <1>2, <1>4, <1>7 DEF Handler, Poll, Expire, FillResponse, SetCall, InHandler, Waiting, Taken
  <2>2. PICK p : p = rpcs[r].from
    OBVIOUS
  <2>3. PICK m : m = Head(outbox[p])
    OBVIOUS
  <2>4. /\ p \in Peer /\ HasMessage(p) /\ outbox' = [outbox EXCEPT ![p] = Tail(@)]
        /\ m.kind = rpcs[r].kind /\ SetCall(r, "taken", m.rpc)
    <3>1. ~SetCall(r, "failed", 0)
      BY <1>1, <1>2, CallSet
    <3>2. Poll(r)
      BY <1>2, <1>7, <2>1, <3>1 DEF Handler, Expire, FillResponse, Taken
    <3>3. QED BY <2>2, <2>3, <3>1, <3>2 DEF Poll, HasMessage
  <2>5. Len(rpcs) = Len(rpcs)'
    BY <2>4 DEF SetCall
  <2>6. m.rpc \in Boxed(p, m.kind) /\ m \in Message(Len(rpcs))
    BY <1>1, <2>3, <2>4, <2>5, TakenMessage
  <2>7. rpcs'[r].answer = m.rpc
    <3>1. m.rpc \in Nat
      BY <1>3, <2>6 DEF Message
    <3>2. QED BY <1>1, <1>2, <2>4, <3>1, CallSet
  <2>8. m.kind \in Kind /\ Precedes(Given(p, m.kind), Boxed(p, m.kind))
    <3>1. m.kind \in Kind
      BY <2>6 DEF Message
    <3>2. QED BY <1>1, <2>4, <3>1 DEF AnswersOrdered, InOrder, Precedes
  <2>9. rpcs[s].answer \in Given(p, m.kind)
    <3>1. rpcs[s].answer \in DOMAIN rpcs
      BY <1>1 DEF AnswersOrdered, AnswersMade
    <3>2. QED BY <1>3, <2>2, <2>4, <3>1 DEF Given
  <2>10. QED BY <2>6, <2>7, <2>8, <2>9 DEF Precedes
<1>8. QED BY <1>5, <1>6, <1>7

\* The handlers of a peer take the answers of one kind in the order of the requests,
\* whatever is replaced, sent again, taken by another handler or lost.
THEOREM AnswersInOrder == ServerSpec => AnswersTakenInOrder
<1> DEFINE Newest ==
      \A r \in Waiting : rpcs'[r].state = "taken" =>
         \A s \in DOMAIN rpcs :
            /\ rpcs[s].state \in {"taken", "answered"}
            /\ rpcs[s].from = rpcs[r].from /\ rpcs[s].kind = rpcs[r].kind
            => rpcs[s].answer <= rpcs'[r].answer
<1>1. ServerInductive /\ [ServerNext]_processVars => [Newest]_exchangeVars
  BY AnswerIsNewest
<1>2. QED BY <1>1, ServerInvariant, PTL DEF ServerSpec, AnswersTakenInOrder
=============================================================================
