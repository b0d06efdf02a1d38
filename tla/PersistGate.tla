----------------------------- MODULE PersistGate -----------------------------
(***************************************************************************)
(* Replies that wait for a write: a follower's RaftCore stages each reply  *)
(* behind the hard state and the entries it promises (StageMessage), the   *)
(* runtime queues the writes (DrainCoreOutput), the persistence thread     *)
(* does them, and a confirmation releases what waited for it.              *)
(*                                                                         *)
(* The gate is what the core offers its driver: raft_core_test.cpp sends a *)
(* reply once it is among the immediate messages.  The drain of RaftRuntime *)
(* distributes those that still wait as well (raft_runtime.cpp:945), so    *)
(* what is said here of the gate is not true of what the node sends.       *)
(*                                                                         *)
(* Inputs are any requests peers can make: votes, AppendEntries, repeated  *)
(* and out of order.  The event queue has room for completions up to       *)
(* MaxCompletions; RaftRuntime has what happens when it has none.          *)
(***************************************************************************)
EXTENDS RaftLog, FiniteSets

CONSTANTS Peer, Self, Nobody,
          QueueLimit,       \* capacity of the persistence queue
          MaxTerm, MaxIndex,\* bounds: terms and indexes of requests
          MaxCompletions,   \* bound: completions not yet processed
          MaxRequests       \* bound: requests of peers

ASSUME GateAssumption ==
    /\ Self \notin Peer /\ Nobody \notin Peer \cup {Self}
    /\ {QueueLimit, MaxTerm, MaxIndex, MaxCompletions, MaxRequests} \subseteq Nat
    /\ 1 .. MaxTerm \subseteq Term
    /\ Payload # {}

VARIABLES
    hard,         \* hard_state_
    marked,       \* persisted_hard_state_
    log,          \* log_
    staged,       \* immediate_messages_ and persisted_messages_
    queue,        \* persistence_queue_
    writing,      \* what the persistence thread has taken
    completions,  \* its completions in the event queue
    disk,         \* the storage: a hard state and a log
    requests,     \* requests handled, for the bound
    cut,          \* ghost: entries have been cut off the log
    overlapped,   \* ghost: a request was handled while a write was under way
    missed        \* ghost: an event left a hard state that it did not queue

core == <<hard, marked, log, staged>>
ghosts == <<requests, cut, overlapped, missed>>
vars == <<core, queue, writing, completions, disk, ghosts>>

Hard == [term : 0 .. MaxTerm, vote : Peer \cup {Self, Nobody}, commit : 0 .. MaxIndex]
NoHard == [term |-> 0, vote |-> Nobody, commit |-> 0]

Kind == {"vote", "append"}   \* the two kinds of reply

\* A reply: whether it is there and where it waits, what it waits for, and
\* (ghost) what it promises and whether its own request made that change.
NoReply == [at |-> "none", needsHard |-> FALSE, needsIndex |-> 0,
            hard |-> NoHard, log |-> << >>, fresh |-> FALSE]

Terms(l) == [k \in DOMAIN l.entries |-> l.entries[k].term]

----------------------------------------------------------------------------
\* Staging.

\* Broken variant, for mutation: entries do not hold a reply back.
StageBehindHardState(h, l, reply, requiresHard, requiredIndex) ==
    [reply EXCEPT !.at = IF requiresHard /\ h # marked THEN "later" ELSE "now",
                  !.needsHard = requiresHard /\ h # marked]

\* Broken variant, for mutation: the hard state does not hold a reply back.
StageBehindLog(h, l, reply, requiresHard, requiredIndex) ==
    [reply EXCEPT !.at = IF requiredIndex > l.stable THEN "later" ELSE "now",
                  !.needsIndex = IF requiredIndex > l.stable THEN requiredIndex ELSE 0]

\* Where a reply goes, given the hard state and the log its handler leaves.
Stage(h, l, reply, requiresHard, requiredIndex) ==
    LET onLog == requiredIndex > l.stable
        onHard == requiresHard /\ h # marked
    IN  [reply EXCEPT !.at = IF onLog \/ onHard THEN "later" ELSE "now",
                      !.needsHard = onHard,
                      !.needsIndex = IF onLog THEN requiredIndex ELSE 0]

\* A staged reply takes the place of one of its kind to the same peer.
StageReply(kind, p, reply, requiresHard, requiredIndex) ==
    staged' = [staged EXCEPT ![kind][p] =
                  Stage(hard', log', reply, requiresHard, requiredIndex)]

Ready(reply, l) ==
    /\ reply.needsHard => hard = marked'
    /\ reply.needsIndex <= l.stable

ReclassifyBlockedMessages ==
    staged' = [k \in Kind |-> [p \in Peer |->
        IF staged[k][p].at = "later" /\ Ready(staged[k][p], log')
        THEN [staged[k][p] EXCEPT !.at = "now", !.needsHard = FALSE, !.needsIndex = 0]
        ELSE staged[k][p]]]

----------------------------------------------------------------------------
\* DrainCoreOutput: every unstored entry, and the hard state if it is not the
\* one marked, in one piece of work; on a full queue, nothing.

\* Broken variant, for mutation: a hard state is written only with entries.
NeedsPersistenceOfLog(h, m, l) == l.stable < LastIndex(l)

NeedsPersistence(h, m, l) == h # m \/ l.stable < LastIndex(l)

WorkOf(h, m, l) ==
    [hasHard |-> h # m, hard |-> h, first |-> l.stable + 1,
     terms |-> SubSeq(Terms(l), l.stable + 1, LastIndex(l)),
     last |-> IF l.stable < LastIndex(l) THEN LastIndex(l) ELSE 0]

NoWork == [hasHard |-> FALSE, hard |-> NoHard, first |-> 0, terms |-> << >>, last |-> 0]

DrainCoreOutput ==
    LET needed == NeedsPersistence(hard', marked', log')
    IN  /\ queue' = IF needed /\ Len(queue) < QueueLimit
                    THEN Append(queue, WorkOf(hard', marked', log')) ELSE queue
        /\ missed' = (missed \/ (needed /\ Len(queue) >= QueueLimit))

UnderWay == queue # << >> \/ writing # NoWork \/ completions # << >>

\* A request: its handler has run, and the drain after it.
Handled ==
    /\ requests < MaxRequests /\ requests' = requests + 1
    /\ overlapped' = (overlapped \/ UnderWay \/ NeedsPersistence(hard, marked, log))
    /\ UNCHANGED <<marked, writing, completions, disk>>

----------------------------------------------------------------------------
\* Requests of peers, and the clock.

InTerm(t) == IF t > hard.term THEN [hard EXCEPT !.term = t, !.vote = Nobody] ELSE hard

\* HandleRequestVote; upToDate: IsCandidateLogUpToDate.
HandleRequestVote(p, t, upToDate) ==
    LET h == InTerm(t)
        granted == t >= hard.term /\ upToDate /\ h.vote \in {Nobody, p}
    IN  /\ Handled
        /\ hard' = IF t < hard.term THEN hard
                   ELSE IF granted THEN [h EXCEPT !.vote = p] ELSE h
        /\ UNCHANGED <<log, cut>>
        /\ StageReply("vote", p,
                      IF granted /\ hard' # hard
                      THEN [NoReply EXCEPT !.hard = hard', !.fresh = TRUE] ELSE NoReply,
                      hard' # hard, 0)
        /\ DrainCoreOutput

\* A rejection: the term is an earlier one, or the previous entry is missing,
\* as it can be in any term.
RejectAppend(p, t) ==
    /\ Handled
    /\ hard' = InTerm(t)
    /\ UNCHANGED <<log, cut>>
    /\ StageReply("append", p, NoReply, hard' # hard, 0)
    /\ DrainCoreOutput

Entries(prev, terms) ==
    [k \in DOMAIN terms |->
        [index |-> prev + k, term |-> terms[k], payload |-> CHOOSE v \in Payload : TRUE]]

Merged(es) ==
    LET at == FindConflict(log, es)
        kept == IF at > LastIndex(log) THEN log ELSE TruncateSuffix(log, at)
    IN  IF at = 0 THEN log
        ELSE AppendTo(kept, SubSeq(es, at - es[1].index + 1, Len(es)))

Conflicts(es) == FindConflict(log, es) \in 1 .. LastIndex(log)

\* The reply names the last index of the log; it waits for the log only when
\* that has grown.
AcceptAppend(p, t, prev, prevTerm, terms, commit) ==
    LET es == Entries(prev, terms)
        merged == Merged(es)
        target == LesserOf(commit, LastIndex(merged))
        advanced == IF target > merged.commit THEN AdvanceCommitTo(merged, target) ELSE merged
        grown == LastIndex(advanced) > LastIndex(log)
    IN  /\ Handled
        /\ t >= hard.term /\ Matches(log, prev, prevTerm)
        /\ Conflicts(es) => CanTruncateSuffix(log, FindConflict(log, es))
        /\ log' = advanced
        /\ hard' = [InTerm(t) EXCEPT !.commit = advanced.commit]
        /\ cut' = (cut \/ Conflicts(es))
        /\ StageReply("append", p,
                      IF grown THEN [NoReply EXCEPT !.log = Terms(advanced), !.fresh = TRUE]
                      ELSE NoReply,
                      hard' # hard, IF grown THEN LastIndex(advanced) ELSE 0)
        /\ DrainCoreOutput

\* A committed entry is to be cut: the handler fails after it has taken the
\* term over, and there is neither a reply nor a drain.
FailAppend(p, t, prev, prevTerm, terms) ==
    LET es == Entries(prev, terms)
    IN  /\ Handled
        /\ t >= hard.term /\ Matches(log, prev, prevTerm)
        /\ Conflicts(es) /\ ~CanTruncateSuffix(log, FindConflict(log, es))
        /\ hard' = InTerm(t)
        /\ missed' = (missed \/ hard' # hard)
        /\ UNCHANGED <<log, staged, cut, queue>>

\* ProcessTick: time passes, and perhaps the node stands for election.
Tick(elects) ==
    /\ elects => hard.term < MaxTerm
    /\ hard' = IF elects THEN [hard EXCEPT !.term = @ + 1, !.vote = Self] ELSE hard
    /\ overlapped' = (overlapped \/ (elects /\ UnderWay))
    /\ UNCHANGED <<marked, log, staged, writing, completions, disk, requests, cut>>
    /\ DrainCoreOutput

----------------------------------------------------------------------------
\* PersistenceLoop.

TakeWork ==
    /\ writing = NoWork /\ queue # << >>
    /\ writing' = Head(queue) /\ queue' = Tail(queue)
    /\ UNCHANGED <<core, completions, disk, ghosts>>

\* AppendEntries of the storage skips what it has and overwrites nothing.
AcceptsEntries(w) ==
    w.terms # << >> =>
        /\ w.first <= Len(disk.log) + 1
        /\ \A k \in DOMAIN w.terms :
              w.first + k - 1 <= Len(disk.log) => disk.log[w.first + k - 1] = w.terms[k]

WithEntries(w) ==
    IF w.terms = << >> \/ w.last <= Len(disk.log) THEN disk.log
    ELSE SubSeq(disk.log, 1, w.first - 1) \o w.terms

AcceptsHardState(w, l) ==
    w.hasHard => /\ w.hard.term >= disk.hard.term
                 /\ w.hard.commit \in disk.hard.commit .. Len(l)

\* The entries, then the hard state; a refusal of either makes the completion
\* an error.
Write ==
    LET written == IF AcceptsEntries(writing) THEN WithEntries(writing) ELSE disk.log
        ok == AcceptsEntries(writing) /\ AcceptsHardState(writing, written)
    IN  /\ writing # NoWork /\ Len(completions) < MaxCompletions
        /\ disk' = [log |-> written,
                    hard |-> IF ok /\ writing.hasHard THEN writing.hard ELSE disk.hard]
        /\ completions' = Append(completions,
              [ok |-> ok, hasHard |-> ok /\ writing.hasHard, last |-> writing.last])
        /\ writing' = NoWork
        /\ UNCHANGED <<core, queue, ghosts>>

----------------------------------------------------------------------------
\* ProcessPersistenceCompletion.

Confirms(c) == c.ok /\ c.last \in log.stable .. LastIndex(log)

\* Broken variant, for mutation: all that is in the log is taken for stored.
StableAfterAll(c) == LastIndex(log)

StableAfter(c) == c.last

\* The hard state of now is marked, whichever was written.
ConfirmPersistence(c) ==
    /\ marked' = IF c.hasHard THEN hard ELSE marked
    /\ log' = AdvanceStableTo(log, StableAfter(c))
    /\ UNCHANGED hard
    /\ ReclassifyBlockedMessages

PersistenceConfirmed ==
    /\ completions # << >> /\ Confirms(Head(completions))
    /\ ConfirmPersistence(Head(completions))
    /\ completions' = Tail(completions)
    /\ DrainCoreOutput
    /\ UNCHANGED <<writing, disk, requests, cut, overlapped>>

\* A write of a hard state alone names index 0: with stable entries the core
\* refuses it, and the state stays unmarked.
PersistenceRefused ==
    /\ completions # << >> /\ ~Confirms(Head(completions))
    /\ completions' = Tail(completions)
    /\ UNCHANGED <<core, queue, writing, disk, ghosts>>

----------------------------------------------------------------------------
Init ==
    /\ hard = NoHard /\ marked = NoHard /\ log = EmptyLog
    /\ staged = [k \in Kind |-> [p \in Peer |-> NoReply]]
    /\ queue = << >> /\ writing = NoWork /\ completions = << >>
    /\ disk = [hard |-> NoHard, log |-> << >>]
    /\ requests = 0 /\ cut = FALSE /\ overlapped = FALSE /\ missed = FALSE

\* The entries of a request: terms that do not fall, up to that of its sender.
TermsUpTo(t, prev, prevTerm) ==
    {<< >>} \cup
    (IF prev < MaxIndex THEN {<<a>> : a \in GreaterOf(prevTerm, 1) .. t} ELSE {})

Next ==
    \/ \E p \in Peer, t \in 1 .. MaxTerm :
          \/ \E upToDate \in BOOLEAN : HandleRequestVote(p, t, upToDate)
          \/ RejectAppend(p, t)
          \/ \E prev \in 0 .. MaxIndex, prevTerm \in 0 .. t :
                \E terms \in TermsUpTo(t, prev, prevTerm) :
                    \/ FailAppend(p, t, prev, prevTerm, terms)
                    \/ \E commit \in {0, prev + Len(terms)} :
                          AcceptAppend(p, t, prev, prevTerm, terms, commit)
    \/ \E elects \in BOOLEAN : Tick(elects)
    \/ TakeWork \/ Write \/ PersistenceConfirmed \/ PersistenceRefused

Spec == Init /\ [][Next]_vars

\* The two threads loop until they are stopped, and the server ticks for ever.
Fairness ==
    /\ WF_vars(Tick(FALSE))
    /\ WF_vars(TakeWork) /\ WF_vars(Write)
    /\ WF_vars(PersistenceConfirmed \/ PersistenceRefused)

FairSpec == Spec /\ Fairness

----------------------------------------------------------------------------
Work == [hasHard : BOOLEAN, hard : Hard, first : Nat, terms : Seq(1 .. MaxTerm),
         last : 0 .. MaxIndex]

TypeOK ==
    /\ hard \in Hard /\ marked \in Hard
    /\ log \in LogRecord /\ ValidateInvariants(log)
    /\ \A k \in Kind, p \in Peer : staged[k][p].at \in {"none", "now", "later"}
    /\ queue \in Seq(Work) /\ Len(queue) <= QueueLimit /\ writing \in Work
    /\ Len(completions) <= MaxCompletions
    /\ requests <= MaxRequests
    /\ disk.hard \in Hard /\ disk.hard.commit <= Len(disk.log)

\* Writes overlap, repeat and fail, and requests arrive between them: what the
\* core counts as stable is stored, as long as no conflict has cut the log (the
\* storage is never told of a cut, raft_runtime.cpp:1126).
StableIsStoredUnlessCut ==
    ~cut => /\ log.stable <= Len(disk.log)
            /\ SubSeq(Terms(log), 1, log.stable) = SubSeq(disk.log, 1, log.stable)

\* A success that is released promises entries that are stored (spec.md FR-012),
\* if its own request brought them.  One that brings nothing new is released at
\* once, whatever is still unstored, and in place of the reply that waited.
LogPromiseStoredUnlessCut ==
    ~cut => \A p \in Peer :
        LET reply == staged["append"][p]
        IN  reply.at = "now" /\ reply.fresh =>
                /\ Len(reply.log) <= Len(disk.log)
                /\ reply.log = SubSeq(disk.log, 1, Len(reply.log))

VoteStored(h) ==
    disk.hard.term > h.term \/ (disk.hard.term = h.term /\ disk.hard.vote = h.vote)

\* A vote that is released is stored, if every write was over before the next
\* request came: a confirmation marks the hard state of now, and releases what
\* waits for one that has not been written.
VotePromiseStoredUnlessOverlap ==
    ~overlapped => \A p \in Peer :
        LET reply == staged["vote"][p]
        IN  reply.at = "now" /\ reply.fresh => VoteStored(reply.hard)

\* The last term, vote and commit index reach the disk, unless an event that
\* changed them queued no write, its drain finding the queue full or its handler
\* failing: the confirmation of an older write marks what was never queued, and
\* nothing queues it again.
HardStateWrittenUnlessMissed == <>[](cut \/ missed \/ disk.hard = hard)
=============================================================================
