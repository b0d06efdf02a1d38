---------------------------- MODULE RaftRuntime ----------------------------
(***************************************************************************)
(* The node that server/server.cpp runs: one RaftCore that is the only     *)
(* voter and leads from the start, driven by RaftRuntime                   *)
(* (raft/raft_runtime.cpp).  Three threads work behind bounded queues: the *)
(* protocol thread owns the core, the persistence thread the storage, the  *)
(* apply thread calls the state machine.  Callers enqueue proposals, ticks *)
(* and membership changes and collect results.                             *)
(*                                                                         *)
(* With one voter Propose commits what it appends (TryAdvanceCommitIndex), *)
(* so the commit index is the last index, and no message is ever staged.   *)
(* Nothing is truncated.  A process that stops does not come back: Server  *)
(* Initialize refuses a storage that is not empty.                         *)
(***************************************************************************)
EXTENDS Integers, Sequences, FiniteSets

CONSTANTS Proposal,     \* the proposals callers make, by id; ids start at 1
          Change,       \* the AddLearner requests
          Refused,      \* proposals whose command the state machine refuses
          EventCap,     \* event_queue_capacity
          PersistCap,   \* persistence_queue_capacity
          ApplyCap,     \* apply_queue_capacity
          ResultCap,    \* proposal_result_queue_capacity
          MaxTicks,     \* bound: ticks waiting in the event queue
          MaxFaults     \* bound: storage calls that fail

ASSUME RuntimeAssumption ==
    /\ Proposal = 1 .. Cardinality(Proposal) /\ IsFiniteSet(Proposal)
    /\ IsFiniteSet(Change) /\ Refused \subseteq Proposal
    /\ EventCap \in Nat /\ PersistCap \in Nat /\ ApplyCap \in Nat
    /\ ResultCap \in Nat /\ MaxTicks \in Nat /\ MaxFaults \in Nat

VARIABLES
    core,       \* RaftCore: log, stable and applied index, configuration id,
                \* and the hard state it believes persisted
    pending,    \* pending_proposals_: <<proposal, index>>
    changing,   \* pending_membership_changes_: the index of the only one, or 0
    scheduled,  \* next_apply_schedule_
    events, works, applies, results,   \* the four bounded queues
    writing,    \* the work the persistence thread has in hand: none or one
    applying,   \* the work the apply thread has in hand: none or one
    disk,       \* the storage: entries and hard state
    machine,    \* the commands the state machine has applied, in order; its
                \* last applied index is their number
    running,    \* RuntimeState RUNNING, all queues open
    stopped,    \* the threads that have ended
    caller,     \* what the caller of each proposal knows
    emitted,    \* ghost: the results emitted for each proposal, in order
    faults      \* ghost: storage failures so far

protocolVars == <<core, pending, changing, scheduled>>
callerVars == <<caller, results, emitted>>
vars == <<protocolVars, callerVars, events, works, applies, writing, applying,
          disk, machine, running, stopped, faults>>

Thread == {"protocol", "persistence", "apply"}

CommandEntry(p) == [kind |-> "COMMAND", id |-> p]
ChangeEntry(c)  == [kind |-> "MEMBERSHIP_CHANGE", id |-> c]

HardState(c) == [commit |-> Len(c.log), config |-> c.config]

\* BoundedQueue::Push succeeds.
Accepts(queue, cap) == running /\ Len(queue) < cap

----------------------------------------------------------------------------
\* Results.

Result(p, ok) == [id |-> p, ok |-> ok]

ResultsOf(ids, ok) ==
    SelectSeq([p \in Proposal |-> Result(p, ok)], LAMBDA r : r.id \in ids)

\* EmitProposalResult for each of ids: what does not fit the buffer is dropped.
EmitProposalResults(ids, ok) ==
    /\ results' = LET all == results \o ResultsOf(ids, ok)
                  IN  IF Len(all) <= ResultCap THEN all ELSE SubSeq(all, 1, ResultCap)
    /\ emitted' = [p \in Proposal |->
           IF p \in ids THEN Append(emitted[p], Result(p, ok)) ELSE emitted[p]]

----------------------------------------------------------------------------
\* DrainCoreOutput, after a handler has left core c and pending proposals pend.

NeedsPersistence(c) == c.saved # HardState(c) \/ c.stable < Len(c.log)

PersistenceWork(c) ==
    [entries  |-> SubSeq(c.log, c.stable + 1, Len(c.log)),
     first    |-> c.stable + 1,
     hasHard  |-> c.saved # HardState(c),
     hard     |-> HardState(c),
     last     |-> IF c.stable < Len(c.log) THEN Len(c.log) ELSE 0]

\* Broken variant, for mutation: a proposal is paired with the entry before its own.
ProposalAfter(pend, i) ==
    IF \E q \in pend : q[2] = i + 1 THEN (CHOOSE q \in pend : q[2] = i + 1)[1] ELSE 0

\* The proposal waiting for index i, or 0.
ProposalAt(pend, i) ==
    IF \E q \in pend : q[2] = i THEN (CHOOSE q \in pend : q[2] = i)[1] ELSE 0

ApplyWork(c, pend, i) ==
    [index |-> i, entry |-> c.log[i], id |-> ProposalAt(pend, i)]

\* Broken variant, for mutation: what has been scheduled is scheduled again.
ScheduleFromApplied(c) == c.applied + 1 .. c.stable

\* Broken variant, for mutation: the last stored entry is left out.
ScheduleBelowStable(c) ==
    (IF scheduled > c.applied THEN scheduled + 1 ELSE c.applied + 1) .. c.stable - 1

\* Broken variant, for mutation: committed entries are applied before they are
\* stored.
ScheduleCommitted(c) ==
    (IF scheduled > c.applied THEN scheduled + 1 ELSE c.applied + 1) .. Len(c.log)

\* The committed and stored entries that have not been scheduled yet.
ApplyRange(c) ==
    (IF scheduled > c.applied THEN scheduled + 1 ELSE c.applied + 1) .. c.stable

ScheduleApplyWork(c, pend) ==
    LET room == IF running THEN ApplyCap - Len(applies) ELSE 0
        first == CHOOSE i \in ApplyRange(c) : \A j \in ApplyRange(c) : i <= j
        count == IF Cardinality(ApplyRange(c)) <= room
                 THEN Cardinality(ApplyRange(c)) ELSE room
    IN  IF ApplyRange(c) = {} \/ room = 0 THEN UNCHANGED <<applies, scheduled>>
        ELSE /\ applies' = applies \o
                    [k \in 1 .. count |-> ApplyWork(c, pend, first + k - 1)]
             /\ scheduled' = first + count - 1

\* Nothing is applied while the persistence queue has no room for work.
DrainCoreOutput(c, pend) ==
    IF ~NeedsPersistence(c)
    THEN ScheduleApplyWork(c, pend) /\ UNCHANGED works
    ELSE IF Accepts(works, PersistCap)
    THEN ScheduleApplyWork(c, pend) /\ works' = Append(works, PersistenceWork(c))
    ELSE UNCHANGED <<works, applies, scheduled>>

NoDrain == UNCHANGED <<works, applies, scheduled>>

----------------------------------------------------------------------------
\* The protocol thread: ProtocolLoop takes one event and handles it.

Take(kind) == /\ "protocol" \notin stopped
              /\ events # << >> /\ Head(events).kind = kind
              /\ events' = Tail(events)

protocolFrame == <<writing, applying, disk, machine, running, stopped, caller, faults>>

ProcessTick ==
    /\ Take("tick")
    /\ DrainCoreOutput(core, pending)
    /\ UNCHANGED <<protocolFrame, core, pending, changing, results, emitted>>

AppendEntry(entry) == [core EXCEPT !.log = Append(@, entry)]

ProcessProposal ==
    LET c == AppendEntry(CommandEntry(Head(events).id))
        pend == pending \cup {<<Head(events).id, Len(c.log)>>}
    IN  /\ Take("proposal")
        /\ core' = c /\ pending' = pend
        /\ DrainCoreOutput(c, pend)
        /\ UNCHANGED <<protocolFrame, changing, results, emitted>>

\* AddLearner; a second change is refused while one is pending.
ProcessMembershipChange ==
    LET c == AppendEntry(ChangeEntry(Head(events).id))
    IN  /\ Take("change")
        /\ IF changing # 0 THEN UNCHANGED <<core, changing>> /\ NoDrain
           ELSE /\ core' = c /\ changing' = Len(c.log)
                /\ DrainCoreOutput(c, pending)
        /\ UNCHANGED <<protocolFrame, pending, results, emitted>>

\* RaftCore::ConfirmPersistence accepts the completion.  A work that held only a
\* hard state confirms index 0, which a core with stored entries refuses.
Confirms(done) == done.ok /\ done.last >= core.stable

\* What is taken for persisted is the hard state of now, not the one written.
ConfirmPersistence(done) ==
    [core EXCEPT !.saved = IF done.hasHard THEN HardState(core) ELSE @,
                 !.stable = done.last]

PersistenceConfirmed ==
    LET done == Head(events)
        c == ConfirmPersistence(done)
    IN  /\ Take("persisted") /\ Confirms(done)
        /\ core' = c
        /\ DrainCoreOutput(c, pending)
        /\ UNCHANGED <<protocolFrame, pending, changing, results, emitted>>

\* The proposals of the batch fail; the entries stay and will be written again.
PersistenceFailed ==
    LET done == Head(events)
        failed == {q \in pending : done.last # 0 /\ q[2] <= done.last}
    IN  /\ Take("persisted") /\ ~Confirms(done)
        /\ pending' = pending \ failed
        /\ EmitProposalResults({q[1] : q \in failed}, FALSE)
        /\ NoDrain
        /\ UNCHANGED <<protocolFrame, core, changing>>

Finish(done) ==
    /\ pending' = {q \in pending : q[1] # done.id}
    /\ changing' = IF changing = done.index THEN 0 ELSE changing
    /\ EmitProposalResults({done.id} \ {0}, done.ok)
    /\ NoDrain

\* Broken variant, for mutation: the applied index moves on after a failure.
ConfirmAnyApply(done) == done.index = core.applied + 1

\* Broken variant, for mutation: off by one.
ConfirmAppliedAgain(done) == done.ok /\ done.index = core.applied

ConfirmsApply(done) == done.ok /\ done.index = core.applied + 1

\* A membership entry takes effect in the core when it is confirmed applied.
ApplyConfirmed ==
    LET done == Head(events)
    IN  /\ Take("applied") /\ ConfirmsApply(done)
        /\ core' = [core EXCEPT !.applied = done.index,
               !.config = IF core.log[done.index].kind = "MEMBERSHIP_CHANGE"
                          THEN @ + 1 ELSE @]
        /\ Finish(done)
        /\ UNCHANGED protocolFrame

\* The applied index stays, the result is a failure.
ApplyFailed ==
    LET done == Head(events)
    IN  /\ Take("applied") /\ ~ConfirmsApply(done) /\ ~done.ok
        /\ Finish(done)
        /\ UNCHANGED <<protocolFrame, core>>

\* An entry applied after one that failed: not the next index, dropped silently.
ApplyOutOfOrder ==
    /\ Take("applied") /\ ~ConfirmsApply(Head(events)) /\ Head(events).ok
    /\ NoDrain
    /\ UNCHANGED <<protocolFrame, core, pending, changing, results, emitted>>

ProtocolEnds ==
    /\ "protocol" \notin stopped /\ ~running /\ events = << >>
    /\ stopped' = stopped \cup {"protocol"}
    /\ UNCHANGED <<protocolVars, callerVars, events, works, applies, writing,
                   applying, disk, machine, running, faults>>

Protocol ==
    \/ ProcessTick
    \/ ProcessProposal
    \/ ProcessMembershipChange
    \/ PersistenceConfirmed
    \/ PersistenceFailed
    \/ ApplyConfirmed
    \/ ApplyFailed
    \/ ApplyOutOfOrder
    \/ ProtocolEnds

----------------------------------------------------------------------------
\* The persistence thread: PersistenceLoop.

workerFrame == <<protocolVars, callerVars, running>>

TakeWork ==
    /\ "persistence" \notin stopped /\ writing = << >> /\ works # << >>
    /\ writing' = <<Head(works)>> /\ works' = Tail(works)
    /\ UNCHANGED <<workerFrame, events, applies, applying, disk, machine, stopped, faults>>

\* A completion that finds the event queue full or closed ends its thread.
Complete(event, thread) ==
    IF Accepts(events, EventCap)
    THEN events' = Append(events, event) /\ UNCHANGED stopped
    ELSE stopped' = stopped \cup {thread} /\ UNCHANGED events

\* AppendEntries skips what is stored already.
Stored(work) ==
    [disk EXCEPT !.entries = @ \o
        SubSeq(work.entries, Len(@) - work.first + 2, Len(work.entries))]

\* SaveHardState refuses to go back and to commit what is not stored.
AcceptsHardState(d, hard) == hard.commit >= d.hard.commit /\ hard.commit <= Len(d.entries)

PersistDone(work, ok) ==
    [kind |-> "persisted", ok |-> ok, hasHard |-> work.hasHard, last |-> work.last]

WriteWork ==
    LET work == Head(writing)
        d == Stored(work)
        ok == work.hasHard => AcceptsHardState(d, work.hard)
    IN  /\ writing # << >>
        /\ disk' = IF work.hasHard /\ ok THEN [d EXCEPT !.hard = work.hard] ELSE d
        /\ Complete(PersistDone(work, ok), "persistence")
        /\ writing' = << >>
        /\ UNCHANGED <<workerFrame, works, applies, applying, machine, faults>>

\* The storage fails, before or after the entries are written.
WriteFails ==
    /\ writing # << >> /\ faults < MaxFaults
    /\ disk' \in {disk} \cup (IF Head(writing).hasHard THEN {Stored(Head(writing))} ELSE {})
    /\ Complete(PersistDone(Head(writing), FALSE), "persistence")
    /\ writing' = << >> /\ faults' = faults + 1
    /\ UNCHANGED <<workerFrame, works, applies, applying, machine>>

PersistenceEnds ==
    /\ "persistence" \notin stopped /\ ~running /\ works = << >> /\ writing = << >>
    /\ stopped' = stopped \cup {"persistence"}
    /\ UNCHANGED <<workerFrame, events, works, applies, writing, applying, disk, machine, faults>>

Persistence == TakeWork \/ WriteWork \/ WriteFails \/ PersistenceEnds

----------------------------------------------------------------------------
\* The apply thread: ApplyLoop.

TakeApply ==
    /\ "apply" \notin stopped /\ applying = << >> /\ applies # << >>
    /\ applying' = <<Head(applies)>> /\ applies' = Tail(applies)
    /\ UNCHANGED <<workerFrame, events, works, writing, disk, machine, stopped, faults>>

\* MetadataStateMachine::Apply takes the next index only, and not every command.
\* Entries that are no commands never reach it.
MachineAccepts(work) == work.index = Len(machine) + 1 /\ work.entry.id \notin Refused

Apply ==
    LET work == Head(applying)
        command == work.entry.kind = "COMMAND"
        ok == command => MachineAccepts(work)
    IN  /\ applying # << >>
        /\ machine' = IF command /\ ok THEN Append(machine, work.entry) ELSE machine
        /\ Complete([kind |-> "applied", ok |-> ok, index |-> work.index,
                     id |-> work.id], "apply")
        /\ applying' = << >>
        /\ UNCHANGED <<workerFrame, works, applies, writing, disk, faults>>

\* Broken variant, for mutation: the thread waits until everything is applied.
ApplyEndsCaughtUp ==
    /\ "apply" \notin stopped /\ ~running /\ applies = << >> /\ applying = << >>
    /\ Len(machine) = Len(core.log)
    /\ stopped' = stopped \cup {"apply"}
    /\ UNCHANGED <<workerFrame, events, works, applies, writing, applying, disk, machine, faults>>

ApplyEnds ==
    /\ "apply" \notin stopped /\ ~running /\ applies = << >> /\ applying = << >>
    /\ stopped' = stopped \cup {"apply"}
    /\ UNCHANGED <<workerFrame, events, works, applies, writing, applying, disk, machine, faults>>

Applying == TakeApply \/ Apply \/ ApplyEnds

----------------------------------------------------------------------------
\* Callers.  A refused enqueue changes nothing: the caller may try again.

callerFrame == <<protocolVars, works, applies, writing, applying, disk, machine,
                 stopped, faults>>

Enqueue(event) == Accepts(events, EventCap) /\ events' = Append(events, event)

EnqueueTick ==
    /\ Len(SelectSeq(events, LAMBDA e : e.kind = "tick")) < MaxTicks
    /\ Enqueue([kind |-> "tick"])
    /\ UNCHANGED <<callerFrame, callerVars, running>>

EnqueueProposal(p) ==
    /\ caller[p] = "new"
    /\ Enqueue([kind |-> "proposal", id |-> p])
    /\ caller' = [caller EXCEPT ![p] = "waiting"]
    /\ UNCHANGED <<callerFrame, results, emitted, running>>

\* Each request is made once: its id is on its way or in the log afterwards.
EnqueueMembershipChange(c) ==
    /\ \A k \in DOMAIN core.log : core.log[k] # ChangeEntry(c)
    /\ \A k \in DOMAIN events : events[k].kind # "change"
    /\ Enqueue([kind |-> "change", id |-> c])
    /\ UNCHANGED <<callerFrame, callerVars, running>>

\* CollectProposalResults: a result nobody waits for is dropped.
CollectResult ==
    /\ results # << >>
    /\ LET r == Head(results)
       IN  caller' = [caller EXCEPT ![r.id] =
               IF @ = "waiting" THEN IF r.ok THEN "ok" ELSE "failed" ELSE @]
    /\ results' = Tail(results)
    /\ UNCHANGED <<callerFrame, events, emitted, running>>

RequestShutdown ==
    /\ running /\ running' = FALSE
    /\ UNCHANGED <<callerFrame, callerVars, events>>

----------------------------------------------------------------------------
Init ==
    /\ core = [log |-> << >>, stable |-> 0, applied |-> 0, config |-> 1,
               saved |-> [commit |-> 0, config |-> 1]]
    /\ pending = {} /\ changing = 0 /\ scheduled = 0
    /\ events = << >> /\ works = << >> /\ applies = << >> /\ results = << >>
    /\ writing = << >> /\ applying = << >>
    /\ disk = [entries |-> << >>, hard |-> [commit |-> 0, config |-> 0]]
    /\ machine = << >> /\ running = TRUE /\ stopped = {}
    /\ caller = [p \in Proposal |-> "new"]
    /\ emitted = [p \in Proposal |-> << >>]
    /\ faults = 0

Next ==
    \/ Protocol
    \/ Persistence
    \/ Applying
    \/ EnqueueTick
    \/ \E p \in Proposal : EnqueueProposal(p)
    \/ \E c \in Change : EnqueueMembershipChange(c)
    \/ CollectResult
    \/ RequestShutdown

Spec == Init /\ [][Next]_vars

\* Every thread that has something to do eventually does it, the tick thread
\* keeps ticking and callers keep polling.  Nothing makes a caller propose,
\* change the membership or shut down, or the storage fail.
FairSpec ==
    /\ Spec
    /\ WF_vars(Protocol) /\ WF_vars(Applying)
    /\ WF_vars(TakeWork \/ WriteWork \/ PersistenceEnds)
    /\ WF_vars(EnqueueTick) /\ WF_vars(CollectResult)

----------------------------------------------------------------------------
IsPrefixOf(s, t) == Len(s) <= Len(t) /\ SubSeq(t, 1, Len(s)) = s

Statuses(p) == {emitted[p][k].ok : k \in DOMAIN emitted[p]}

\* Every queue respects its capacity, whatever the three threads and the callers
\* push at the same time, and the indexes of the log are ordered.
TypeOK ==
    /\ Len(events) <= EventCap /\ Len(works) <= PersistCap
    /\ Len(applies) <= ApplyCap /\ Len(results) <= ResultCap
    /\ core.applied \in 0 .. core.stable /\ core.stable \in 0 .. Len(core.log)
    /\ scheduled \in core.applied .. Len(core.log) \cup {0}
    /\ pending \subseteq Proposal \X DOMAIN core.log
    /\ changing \in 0 .. Len(core.log)
    /\ stopped \subseteq Thread
    /\ caller \in [Proposal -> {"new", "waiting", "ok", "failed"}]

\* The state machine is never ahead of the storage: what it has applied are the
\* first entries the storage holds, in order and each once (spec.md FR-013; T038
\* limits apply scheduling to stable entries).  An entry that is no command ends
\* it, since the machine is not told of one and refuses what follows.
AppliedIsDurable == IsPrefixOf(machine, disk.entries)

\* The applied index never passes an entry whose application failed: every
\* command at or below it is in the state machine (T023: an apply failure blocks
\* the applied index).
AppliedIndexIsTrue ==
    \A i \in 1 .. core.applied :
        core.log[i].kind = "COMMAND" => i \in DOMAIN machine /\ machine[i] = core.log[i]

\* A caller is told of success only when its command is stored and applied.
SuccessIsApplied ==
    \A p \in Proposal : TRUE \in Statuses(p) =>
        /\ \E k \in DOMAIN machine : machine[k].id = p
        /\ \E k \in DOMAIN disk.entries : disk.entries[k] = CommandEntry(p)

\* No proposal gets two final results (T025: "delivered only once").
ResultOnce == \A p \in Proposal : Len(emitted[p]) <= 1

\* Every accepted proposal is answered unless the node shuts down.
EveryProposalAnswered ==
    \A p \in Proposal : caller[p] = "waiting" ~> (caller[p] # "waiting" \/ ~running)

\* Every entry of the log is applied in the end, unless the node shuts down
\* (spec.md SC-002: every committed proposal is applied exactly once).
EveryEntryApplied ==
    \A i \in 1 .. Cardinality(Proposal) + Cardinality(Change) :
        (i <= Len(core.log)) ~> (i <= core.applied \/ ~running)

\* After RequestShutdown all three threads end, whatever is still queued.
ShutdownEnds == ~running ~> stopped = Thread
=============================================================================
