# A verification project for the cross-platform Raft metadata service

These TLA+ modules model `src/cross-platform-raft`: a Raft library in C++ (`src/raft`), the metadata state machine and
control plane on top of it (`src/metadata`, `src/store`), and the process that hosts them (`src/server`). Every
definition is translated from the source, and the map in `PROJECT.json` names the lines each one stands for. Below,
file names without a directory are files of `src/cross-platform-raft/src`.

## 1. Inventory

| Part | State it keeps | Operations | Interacts with | Correct when |
|---|---|---|---|---|
| RaftLog (`raft/raft_log.cpp`) | entries above the snapshot boundary, boundary index and term, stable, commit and applied index | Append, FindConflict, TruncateSuffix, AdvanceStableTo, AdvanceCommitTo, AdvanceAppliedTo, UpdateSnapshotBoundary, queries | owned by RaftCore | indexes stay ordered and contiguous, committed entries are never cut, compaction is invisible above the boundary |
| RaftCore (`raft/raft_core.cpp`) | role, hard state (term, vote, commit, configuration), leader, progress of each peer, staged messages, log, membership | Tick, StartElection, BecomeLeader, Propose, HandleRequestVote(+Response), HandleAppendEntries(+Response), Build*ForPeer, ConfirmPersistence, ConfirmApplied, membership changes, UpdateSnapshotBoundary | called serially by RaftRuntime; talks to its peers through messages the runtime distributes | one leader per term, logs match, committed entries agree and stay, learners do not count |
| Membership (`raft/raft_membership.cpp`) | current and next configuration, learners, transition, id | build and apply AddLearner, Promote, Remove, Finalize | used by RaftCore | quorums of successive configurations intersect, one change at a time, no change is stuck |
| RaftRuntime (`raft/raft_runtime.cpp`, `common/bounded_queue.h`) | event, persistence, apply and peer queues, pending proposals and changes, next index to schedule, result buffer | Enqueue*, ProtocolLoop with one handler per event, PersistenceLoop, ApplyLoop, DrainCoreOutput, RequestShutdown | owns three threads; core, storage and state machine are called from one thread each | nothing is applied or answered before it is stored, each entry is applied once and in order, every caller is answered once, shutdown ends |
| FileRaftStorage, MemoryRaftStorage (`raft/*_storage.cpp`) | hard state, entries, snapshot; three files | Open, Load, SaveHardState, AppendEntries, TruncateSuffix, SaveSnapshot | called by the persistence thread | what was reported stored survives a crash, and only that |
| Metadata state machine (`metadata/metadata_state_machine.cpp`) | records, stores, tasks, last applied index and term | Apply, CreateSnapshot, RestoreSnapshot, queries | called by the apply thread; read by the service | the same entries give the same state; a snapshot restores it |
| Metadata service (`metadata/metadata_service.cpp`) | proposal and command counters, cached results, abandoned proposals | Propose and wait, Query, store commands, heartbeats | enqueues into the runtime, polls its results, reads the state machine | a caller gets the result of its own command; a retry is not a second command |
| Store registry and tasks (`store/*.cpp`) | stores and tasks with state, owner and generation | register, update, remove; create, assign, complete, restore | owned by the state machine | a task has one owner and one final result |
| RPC adapters, transport (`rpc/*.cpp`, `transport/*.cpp`) | connections | convert, call, send | between processes | a message arrives as it was sent, or not at all |
| Server (`server/*.cpp`) | the objects above, two threads | Initialize, Start, Stop, TickLoop, PeerPumpLoop | builds and drives everything | threads end in the order of their dependencies |
| Configuration, platform, common, tools | a parsed file; none | load, file and process calls, status values, clients | used by the above | - |

What makes it hard: messages between cores are reordered, lost and built again; three threads and any number of callers
share bounded queues that refuse what does not fit; every drain of the core queues its unstored entries again; the
storage fails between two writes; completions arrive after the core has moved on; a shutdown arrives at any moment.
`PROJECT.json` lists each hazard at its line with the properties that watch it, or the reason why none does.

Two facts about the source shape the models. There is **no driver for more than one voter** in the repository: nothing
sends RequestVote or counts grants (`VoteResponseAction` is returned and ignored by the runtime), and
`server.cpp:397-435` builds a cluster of exactly one voter that is leader from the start. And **a process does not come
back**: `server.cpp:140-145` refuses a storage that is not empty, and `RaftCore::Initialize` starts with an empty log.

## 2. Modules

| Module | Models | Extends / uses |
|---|---|---|
| `RaftLog` | `RaftLog` as a record and operators: one `Can...` operator per refusal, one operator per effect | - |
| `RaftLogApi` | an object of that class: one action per call that succeeds, any arguments | `RaftLog`, `INSTANCE CommittedLog` |
| `CommittedLog` | abstract: a sequence that only grows at its end and is consumed in order | - |
| `RaftLogLemmas` | what each operator of `RaftLog` does to a well-formed log, and to one without a snapshot | `RaftLog`, `TLAPS`, library theorems |
| `RaftLogProofs` | theorems about `RaftLogApi` | `RaftLogApi`, `RaftLogLemmas` |
| `RaftCore` | a cluster of `RaftCore` objects and a network | `RaftLog` |
| `RaftCoreProofs` | theorems about `RaftCore`: types, progress and elections, then, without the leaks, that logs match, commits agree and leaders have them | `RaftCore`, `RaftLogLemmas` |
| `Membership` | configurations: which changes are legal, what each builds, who counts | - |
| `MembershipProofs` | theorems about `Membership`, and about `MembershipChange`: under one leader what is reported, under many that changes follow each other and commits agree | `MembershipChange`, `TLAPS`, library theorems |
| `MembershipChange` | nodes that append, replicate and apply changes, each at its own pace, and the runtime that reports them | `Membership` |
| `PersistGate` | the core, drain and persistence thread of a node with peers: which reply waits for which write | `RaftLog` |
| `PersistGateProofs` | theorems about `PersistGate` | `PersistGate`, `RaftLogLemmas` |
| `RaftRuntime` | the node the server runs: three threads, bounded queues, storage, callers | - |
| `RaftRuntimeProofs` | theorems about `RaftRuntime` | `RaftRuntime`, `TLAPS`, library theorems |
| `DurableStorage` | abstract: a storage whose operations happen at once and that cannot crash | - |
| `FileStorage` | three files, replaced one after the other, under failures and crashes | `INSTANCE DurableStorage` |
| `RpcExchange` | how peers are answered: event queue, staged messages, peer queues, RPC handlers | - |
| `ServerApplication` | the process around it: main thread, signal, tick thread, pump, transport, lifecycle | `RpcExchange` |
| `ProcessProofs` | theorems about one process: `FileStorage`, the refinement included, then `RpcExchange` and `ServerApplication` | `FileStorage`, `ServerApplication`, `TLAPS`, library theorems |
| `Maps` | a `std::map` as a function: `With`, `Without` | - |
| `StoreRegistry`, `TaskManager` | the two objects of `store/` as operators on their state | `Maps` |
| `MetadataStateMachine` | the state machine: records, both objects and the applied index, `Apply`, snapshots | both |
| `ReplicatedMetadata` | a replica of it on each node, fed with one committed log, with heartbeats of each node's own | `MetadataStateMachine` |
| `MetadataService` | the services and their callers over the replicas, with as much of Raft as decides who is answered | `ReplicatedMetadata` |
| `MetadataProofs` | theorems about `ReplicatedMetadata` and `MetadataService` | `MetadataService`, `TLAPS`, library theorems |
| `MC...` | instances for TLC (inputs, symmetry, view, constraint) | the module of that name |

A node with peers is modelled from three sides, each with what the others leave out: `RaftCore` has many nodes and
immediate replies, `PersistGate` one node and what its replies wait for, `RpcExchange` one node and how
a staged reply reaches the peer that asked.

**RaftLog.** The C++ object holds a sentinel entry at the boundary and a vector; the record holds `snapshotIndex`,
`snapshotTerm` and the entries above it. A call that returns an error changes nothing, so the action's guard is the
`Can...` operator and the refused call is a stutter. `ValidateInvariants` is the class's own invariant, translated.

**RaftCore.** One action per handler and outcome: `HandleRequestVote` grants or refuses, `RefuseVote` is its early
return, `HandleAppendEntries` is split into `RefuseStaleAppend`, `LeaderRefusesAppend`, `RejectMismatch`, `AcceptAppend`
and `FailAppend` in the order of its returns, the response handler into success, rejection and dropped.
`SendRequestVote`, the tally `votes` and the moment of `BecomeLeader` are the driver's, written from the contract the
core offers (`RECORDED_GRANT`); the map marks what is external. `elected` and `leaks` are ghosts: they record, and no
guard reads them. Replies appear on the network in the step that handles the request; the staging of messages behind
persistence is in `PersistGate`. Nodes do not crash, since a core that is initialized again is a new one. The
membership is fixed (`MembershipChange` has it changing) and logs are not compacted here. `Learner` is empty
in the runs: that learners do not count is a matter of `MembershipChange`, where nodes become voters and cease to be.
`FollowCommit` takes the smaller of the leader's commit index and the last index as the code does; with the requests the
core builds, the commit index it names is never larger.

**Membership.** `Membership` holds a configuration as the record the code keeps (voters, learners, the next ones while
a transition is active, an id) and one `Can...`/`Build...` pair per request. In `MembershipChange` a change takes effect
on a node when that node applies it (`TakeEffect`), not when it is appended, so nodes count with different configurations;
`HasQuorum` is a majority of each configuration the deciding node has. An election that succeeds is one step; its quorum is the
driver's, as in `RaftCore`. `pending` is the runtime's request under way: `ApplyAndFinalize` begins its second phase,
`ApplyAndReport` answers the caller. `leaks` and `hollow` are ghosts.

A request and its answer are one step, `Replicate`, one per outcome of `HandleAppendEntries`: the node takes entries, or the entry before
them does not match (`Mismatch`), or the node leads an earlier term, takes over the later one and goes on leading (`Usurp`); what changes
nothing (a request of an earlier term, one to a leader of the same) is a stutter. The request may be any that the leader can have built since
its election (`Sent`): the log to entry `k`, so a heartbeat or one of long ago, with the commit index `i` of that time.
`Answer` reaches the leader or not. The answer names the end of the follower's log, whatever the request covered. That is
enough, for a term never grows smaller: a request handled after its leader was deposed tells nobody who comes later more than if it had been handled before
that, and a node that still takes it is not in a later term. An answer is taken when it is given: its leader learns of it earlier than
from a slow network, or never. What this leaves out is an answer on its way while its sender is removed and returns
as a member of the same leader, and a learner that is taken for caught up by a leader with such an answer still to come.

**PersistGate.** `hard` and `log` are the core's, `marked` is `persisted_hard_state_`, `staged` the newest reply of each kind
to each peer and where it waits. One action is a request with the `DrainCoreOutput` at its end, a tick, or a step of the
persistence thread. `queue`, `writing` and `completions` are the write's way out and back. Each reply carries two
ghosts: what it promises and whether its own request brought it. `cut`, `overlapped` and `missed` record that
the log was cut on a conflict, that a request came while a write was on its way, and that an event changed the hard state and
queued no write. A leader's own proposals and what they send are left to the other modules.

**FileStorage.** A call that passes its checks becomes a list of file replacements and the memory it leaves if all
succeed. Each replacement is `WriteTemp` and `RenameTemp` (`AtomicReplace`); between any two steps the operation may `Fail`
or the process `Crash`, in the middle of a write too. `Loads` and `Loaded` are what `Open` makes of the
files. `history` is a ghost, the log as the calls have made it. A rename is taken to last once made: the code does not sync the
directory, so a power loss can undo one, and that is not modelled. A torn tail of the log file, which the code repairs,
cannot come from these replacements.

**RpcExchange and ServerApplication.** A message is known by the call it answers. A handler enqueues its request and polls
`outbox` of its caller (`Poll`, `Expire`). It takes a message under the lock of the queue and returns it to the caller when it gets to
it (`FillResponse`), so two handlers of one caller may take in one order and return in the other. The protocol thread stages a reply and distributes *everything*
staged (`DrainCoreOutput`) up to the first message that a queue refuses (`Refuses`), and the pump takes from the same queues what the transport then refuses to send (`CanSend`). Nothing in `src/` makes the core of a
running node build a request, so replies are all there is. A write is abstracted to the set of calls whose changes
are not yet stored. `ServerApplication` adds the main thread, one action per step of `Initialize`, `Start` and `Stop` at which
another thread can act, and what drives the rest.

**RaftRuntime.** `core` abstracts the single-voter core: its log, stable and applied index, configuration id and the
hard state it takes for persisted; its commit index is the last index, since `Propose` commits at once with one voter. An
action is one event handled by `ProtocolLoop` with the `DrainCoreOutput` at its end, one item taken or finished by a
worker, or one call of a caller. Handlers are atomic: the core is touched by the protocol thread alone, and of the
queues a handler sees only whether there is room, which the model reads once per handler. Closing the queues is one
step, where `RequestShutdown` closes them one after the other under no common lock. A storage failure may come before
the entries are written or between them and the hard state. The commands `Refused` are those whose
business check fails (a generation mismatch, say): `MetadataStateMachine::Apply` returns an error and keeps its index.

**The control plane.** `StoreRegistry` and `TaskManager` are mutex-protected objects, so each call is one operator from a
state to an outcome. `MetadataStateMachine.Apply` is the whole of `Apply`: the index check, the command, the record it
writes and the applied index, in that order, with what a late error leaves behind. `Encoded` is what the encoding of a
result does to it: the heartbeat is dropped, and the store id of a command of tasks, which nobody initialises
(`metadata_state_machine.cpp:626`, `store_types.h:27`), is any value. An opaque payload is written in the shape of a result.
`Arguments` and `ValidCommand` are what a command of each kind carries and what `ValidateStoreBusinessCommand` lets through, but for sizes and capacities.

In `MetadataService` a node's Raft log is the first `known` committed entries and a `tail` of its own proposals.
`pending` is `pending_proposals_`: the index a proposal was given, which nothing removes when the entry is cut off.
`Collect` is one turn of `TakeProposalResult` (of any number of results; the code takes up to 64), `Timeout`
is `AbandonProposal`, `ReadOutcome` the query after it; between them other callers, nodes and leaders act.
`outcome` is a ghost. A request that has a target is a client's of the Metadata RPC (`Direct`): `Propose` takes the command as it
was decoded (`metadata_rpc_service.cpp:291-303`), of any kind and aimed at any record, and the client reads nothing
back. For the others the service makes the target of kind and id, and reads its record afterwards. Payloads that `DecodeStoreBusinessResult`
refuses are `NoAnswer` (`Decodes`). That several nodes lead in turn needs the driver `RaftCore` assumes as well. Left out: shutdown and full
queues (in `RaftRuntime`), terms, sizes, `AssignTask` (only tests call it).

## 3. Runs

| Run | Instance | Checks | Size |
|---|---|---|---|
| `raft_log` | terms 0..2, 2 payloads, 4 indexes, batches of 2 | `TypeOK`, `LogInvariant`, `CompactionFaithful`, refinement of `CommittedLog` | 40 k states |
| `raft_reorder` | 3 voters, terms to 2, 2 entries, 2 messages in flight | `ElectionSafety`, `LogMatchingUnlessUsurped` | 450 k states |
| `raft_terms` | 3 voters, terms to 4, 1 proposal per log length, 1 message in flight | `ProgressWithinLog`, `StateMachineSafetyUnlessLeak`, `LeaderCompletenessUnlessLeak`, `CommittedNeverRewritten` | 1.3 M states |
| `membership` | 3 nodes that leave, return as learners and are promoted, up to 5 changes, 2 leaders | `ChangesFollowUnlessLeak`, `CommittedAgreementUnlessLeak`, `ReportHoldsUnderOneLeader`, `CommittedOnVotersUnlessLeak` | 520 k states |
| `file_storage` | logs of 3 entries, 2 terms, batches of 2, any failures and crashes | `AlwaysLoads`, `LoadIsFaithful`, `MemoryIsFaithful`, refinement of `DurableStorage` | 600 k states |
| `persist_gate` | 1 peer, 2 terms, logs of 2, 3 requests, 1 queued write | `StableIsStoredUnlessCut`, `LogPromiseStoredUnlessCut`, `VotePromiseStoredUnlessOverlap`, `HardStateWrittenUnlessMissed` | 490 k states |
| `server` | 1 peer and a node that is none, 2 calls, an event queue of 1, peer queues of 2 | `ExitedIsUnused`, `AnswersTakenInOrder`, `SignalEndsProcess` | 490 k states |
| `answer_stored` | as `server` | `AnswerIsStored`: **violated** | - |
| `runtime` | 2 proposals (one refused), 1 membership change, queues of 1 and 2, 1 storage failure, shutdown | `AppliedIsDurable`, `AppliedIndexIsTrue`, `SuccessIsApplied` | 3.7 M states |
| `runtime_live` | 2 proposals, nothing fails, an event queue of 10 | `ResultOnce`, `EveryProposalAnswered`, `EveryEntryApplied`, `ShutdownEnds` | 80 k states |
| `metadata_replicas` | 2 replicas, any 4 of 11 commands, results of 1 task, snapshots of 3 items | `ReplicasAgree`, `SnapshotFaithful`, `StopsAtFirstRefusal`, `HandedOutOnce`, `ResultFinal` | 590 k states |
| `metadata_service` | 2 nodes, 2 callers, 3 calls of 3 kinds, two payloads of a client, caches of 1 | `OwnResultUnlessCut`, `ResultKept`, `AnswerFromTarget` | 1.2 M states |

Every specification has a type invariant; `raft_log` checks it and the proofs use it, and each of the other passing instances also passes
with its own added to the INVARIANTS of the configuration.

What `answer_stored` shows: the drain that queues a write distributes the replies that wait for it together with the
others (`raft_runtime.cpp:945`), so an RPC handler may return a vote or an acknowledgement whose write is still queued, where
FR-012 (`spec.md:104`) says it must not be sent before. `PersistGate` therefore speaks of the moment the *core* releases a
reply, and `RpcExchange` of the moments it is taken from the peer's queue and handed out.

`AnswersTakenInOrder` is about the first of these two, since the second keeps no order: an answer older than one the peer has had can
reach it if two of its calls were in handlers at a time. A peer that waits for one answer before its next call gets them in order.

Five more configurations are counterexamples to replay, `tlc -config X.cfg M`, each of a disagreement between the code
and the feature's documents that shapes the properties above:

* `MCTwoLeaders.cfg` (`MCRaftCore`, `OneLeaderPerTerm`). `HandleAppendEntries` makes a leader adopt the term of a later
  request, but only a candidate steps down (`raft_core.cpp:882-896`). The old leader goes on in a term that has its own leader.
* `MCCommittedAgreement.cfg` (`MCRaftCore`, `CommittedAgreementUnlessUsurped`). A success response names the end of the
  follower's log (`raft_core.cpp:989`), not the end of what the request covered. A leader whose heartbeat matches a short
  prefix counts the follower's old suffix as copies of its own entries.
* `MCMembershipAgreement.cfg` (`MCMembershipChange`, `ChangesPreserveAgreement`). A node counts with the configuration it
  has *applied*, and may be elected while committed changes wait to be applied; its quorum then need not meet
  that of a configuration two changes on. Neither of the two leaks above occurs in it (`HastyAlone`).
* `MCOwnSuccess.cfg` (`MCMetadataService`, `OwnSuccess`). A proposal is remembered by the index of its entry. When another
  leader's entry takes that index, the caller is told that its command succeeded (`raft_runtime.cpp:1002`). This needs the
  write of the lost entry to be confirmed after the cut, or never queued (`raft_runtime.cpp:931`); a storage that already
  holds it refuses the new one, and the caller is told of a failure.
* `MCEntryNotApplied.cfg` (`MCRaftRuntime`, `EveryEntryApplied`). The server's callback answers OK for a membership entry
  without telling the state machine (`server.cpp:182-189`), which then refuses the next command for a gap in the indexes, and every one after it.

`ResultOnce` holds in `runtime_live` because nothing fails there. Every drain queues the unstored entries again; when a
repetition fails after the first write was confirmed, the caller is told of a failure, and the entry is applied and reported
a success.

### The exceptions in the names

A property named `...Unless...` holds except after a step that a ghost records, and so says that this step is the *only* way
to go wrong:

* `leaks` of `RaftCore`: a leader was made to share a later leader's term (`"usurped"`, also in `...UnlessUsurped`), or counted
  entries it had not checked (`"unverified"`). `CommittedNeverRewritten` and `ElectionSafety` hold with the leaks.
* `leaks` of `MembershipChange`: the same two, and a node was elected that knew a change to be committed and had not applied it
  (`"hasty"`). `"unverified"` is recorded when the follower takes the request, since the leader may count the answer later, when its own
  log has become as long. `ReportHoldsUnderOneLeader` is the like for the answer to a change: a deposed leader reports OK for a first phase.
* `cut`, `overlapped`, `missed` of `PersistGate`. The storage is not told of a cut (`raft_runtime.cpp:1126`), so after one
  nothing is claimed of what it holds. A confirmation marks the hard state of *now* as written (`raft_core.cpp:1368`), so a vote may be released by the
  write of an older one (`overlapped`), and a hard state that no write was queued for is taken for stored and never written (`missed`).
* "Cut" in `OwnResultUnlessCut` of `MetadataService`: the proposal was cut from the log.

### Bounds, and why they are enough

* Three voters are the smallest cluster where two majorities differ, two messages the fewest that overtake each other,
  and four terms are needed for the history in which an entry of an earlier term reaches a majority and is then
  overwritten. `raft_terms` gives up reordering for terms, `raft_reorder` terms for reordering. Both
  bounds are guards of the specification (`MaxTerm`, `MaxLog`, `MaxInFlight`). Each property has a mutant of the code
  that the same instance catches: a vote granted twice, a merge that keeps a conflicting suffix, a commit by counting an older term.
* `raft_reorder` stops a behaviour at a leak (`LeakFree`): `LogMatchingUnlessUsurped` claims nothing after a usurpation, and
  `ElectionSafety` also holds beyond leaks (proved, `OneElectionPerTerm`; add it to `MCRaftTerms.cfg` to see it checked).
  `View` drops the progress table of a node that does not lead and the tally of one that is no candidate, both overwritten before they are next read; `Symmetry` permutes voters, and learners.
  Two messages are on the way at once while the logs hold at most three entries between them (`OvertakenOnShortLogs`), one when they hold more.
  The theorems of section 4 know none of these bounds.
* Runtime queues of one and two places fill up in every way: a full persistence queue ends a drain early, a full
  event queue ends a worker thread, a full result buffer drops a result. One storage failure suffices since a failed
  write leaves the state any other failed write would. Ticks beyond one in the queue only repeat a drain.
* Four commands reach what the state machine's properties need: two tasks created and polled in two steps, a task
  polled and reported twice, a store stopped and removed and its address taken again. Results of one task at most let a
  poll be refused after it took effect. `SnapshotFaithful` says nothing above the record limit, where the code refuses
  what it saved (hazard at `metadata_state_machine.cpp:834`).
* Two callers on two nodes with three calls (one at most creates a task or is a client's, which writes the record of the first poll, an outcome or
  not one, `OnlyPollsBut1`; the others poll) collect each other's results, time out, and see an
  index reused by another leader. `View` drops what a call that was given up has left behind. With caches of one place the limit is reached, and the exception of `ResultKept`
  (`Forgotten`) says how far it may be felt.
* With an event queue of 8 places `runtime_live` fails: two proposals leave enough completions of repeated
  writes to fill it, a completion is dropped and its thread ends. 10 places hold every completion. The capacity is a
  setting, and nothing in the code relates it to the other queues (hazard at `raft_runtime.cpp:1150`).
* `membership`: three nodes are enough for a voter to leave, come back and be promoted while the other two disagree about the
  configuration; with two terms each of two leaders can finish what the other began. A change is requested in a log of up to 4 entries, its second phase
  follows, so five changes fit; beside an entry of another kind, two do (`PlainInShortLogs`). The instance stops at a leak (`LeakFree`); the counterexamples beyond are
  `MCMembershipAgreement.cfg` and the two of `RaftCore`.
* `file_storage`: three entries with snapshots at any of them, batches of two that overlap what is stored, and any number of failures and crashes;
  the specification needs no bound but the log's.
* `persist_gate`: one queued, one running and one completed write, and three requests in two terms: enough for a write to be confirmed after a newer
  state, to be repeated and to find the queue full. One peer, since replies to different peers are staged
  apart from each other.
* `server`: with two calls, one place in the event queue and two for a peer, replies are copied, replaced, left behind by a
  call that expired and taken by the other handler, and both queues fill up; the node that is no peer ends the distribution.

### Fairness

`FairSpec` of `RaftRuntime` has weak fairness for each of the three threads (they loop until their queue is closed),
for ticks (`TickLoop` sleeps and enqueues for ever) and for polling (`MetadataService::Propose` polls until it has an
answer). Nothing obliges anyone to propose, to shut down, or the storage to fail; a failed write counts as no progress of
the fair persistence thread.

`FairSpec` of `PersistGate` has the persistence thread, the completions it leads to and ticks; nothing makes a peer send a request.

`FairSpec` of `ServerApplication` has the main thread, ticks, the protocol thread, and of the other threads only that they *end*: the pump
and the persistence thread when they are told to stop, a handler at an answer or its deadline (`ResolveDeadline` gives every call one; `Shutdown`
of the gRPC server has none of its own). Calls and the signal come or do not.

The specifications of `RaftCore` and `MembershipChange` state no fairness, since no driver in the source
justifies any, and the project claims no liveness of the cluster. Nor is it claimed that a node with peers applies what it commits: `GetOutput`
copies the staged messages and nothing clears them, so with two of them staged a fair schedule can keep a peer's queue full
whenever a drain runs, and a drain that meets a full peer queue schedules no apply work.

## 4. Proofs

Every theorem holds for all values of the constants that satisfy the named assumptions of the modules; TLC evaluates the
assumptions in the runs of those modules. They ask no more than that sets are finite where members are counted,
that reserved values are no nodes, that proposals are numbered, that the terms and payloads a model uses belong to its
log, that commands are ones the service's validation lets through, and that bounds are numbers. A name in parentheses is the property of a run that the theorem states.

### The log (`RaftLogLemmas`, `RaftLogProofs`)

* `LogTypeCorrect`: `Spec => []TypeOK`.
* `LogInvariantHolds`: `Spec => []LogInvariant`, the class's `ValidateInvariants`.
* `CompactionIsFaithful`: the same for `CompactionFaithful`, against a history variable that compaction does not touch.
* `LogRefinesCommittedLog`: `RaftLogApi` implements `CommittedLog`, whose sequence is the committed part of the
  history and whose read position is the applied index.

`TypeOK` alone is inductive once it says that entries carry a term above 0 (`ValidateEntries` refuses
0). The order of the indexes is not: that `TruncateSuffix` keeps `commit <= stable <= last` needs
its guard above the commit index together with the lowering of the stable index, so `TypeOK /\ LogInvariant` is shown to
be inductive, one lemma per operation. The refinement needs in addition that the record and the history agree above the
boundary (`CompactionFaithful`), since the committed entries of the record alone do not survive compaction. The lemmas
about the methods stand apart, since `RaftCoreProofs` and `PersistGateProofs` cite them for the logs inside their models.

### The cluster (`RaftCoreProofs`)

For any finite set of servers, any of them learners, and any network the model allows. The first four need no exception:

* `CoreTypeCorrect`: types, and that each log passes `ValidateInvariants`.
* `ProgressStaysWithinLog` (`ProgressWithinLog`): no answer moves a leader's view of a peer beyond its own log.
* `CommittedStays` (`CommittedNeverRewritten`): no node replaces or drops an entry it has committed, even with the leaks.
* `OneElectionPerTerm` (`ElectionSafety`): one election per term, even with the leaks.
* `LogsMatch` (`LogMatchingUnlessUsurped`), `StateMachineSafety` (`StateMachineSafetyUnlessLeak`) and `LeaderCompleteness`
  (`LeaderCompletenessUnlessLeak`): up to the leaks that the code has (section 3).

`CoreInductive` (types and progress) is inductive as it stands: `TypeOK` must say of each message what it may carry, and
a response of a peer must be compared with a log that may have been cut since. The other arguments are about the past,
which the state forgets: a node that answers in a later term forgets the vote of the earlier one, and a deposed leader's
log may be gone. The model has no ghosts for this. The invariants say instead that *there are* histories which the state
agrees with, and each step shows how they grow:

* *ballots*, the vote of every node in every term. `Ballots` says `votedFor` is the last line of it, and that grants on the way, tallies and
  elections are covered by it. A vote is never taken back, and two majorities share a voter.
* *led*, the log of each term's leader. `Matching`: every log, up to any of its entries, is the log of the
  leader of that entry's term (`Traced`), and a request carries a piece of its leader's log (`Fragment`).
* *acked*, how far each node has acknowledged each leader's log. `Acknowledged`: a prefix that a majority has
  acknowledged, or still can since voters have not left the term, *may be chosen*; every later leader has it, and what a node
  or a request calls committed was chosen. The
  code commits by counting only entries of the leader's own term (`Own`), and this is where it matters.
* *base*, the log each candidate asked for votes with. `VotedFor`: a voter compares its log with the one
  the request describes, so who is elected has what a majority of its voters had acknowledged.

`CommitInductive` is the four together as long as `leaks` is empty: with a usurped leader or an unverified acknowledgement
there need be no such histories, which the two counterexamples of section 3 show, so the exception cannot be dropped.

### Configurations (`MembershipProofs`)

For any finite set of nodes and any valid configuration:

* `SuccessorIsValid`: each change the code builds is a valid configuration again.
* `SuccessiveQuorumsMeet`: a quorum of a configuration and a quorum of the change built from it share a node that votes in both. In a
  change of one phase and in the first of two, both quorums hold a majority of the old voters, in the second phase one of the new
  voters, and two majorities of one finite set meet. The theorem is about *adjacent* configurations; that nodes which decide stay that
  close is what the theorems at the end of this part show, and what a leak takes away.

For any nodes, any changes in any order and any lag between what a node has, commits and applies:

* `OneLeaderInFirstTerm`: `Spec => []ReportInductive`.
* `ReportHolds` (`ReportHoldsUnderOneLeader`): until a second leader is elected, a change reported OK is in force and over.

`ReportInductive` says, besides the types, what is so while no node has seen a second term (`FirstTerm`). One node
at most was elected (`ElectedOnce`): a majority of the first voters is in term 1, so no second one can vote in it. All others neither
lead nor wait for an answer (`Quiet`). On the leader, the change waited for is the only one between `applied` and the end
of its log, and a legal change of the configuration it has applied. So the entry that the completion finds at the index is the one that
was asked for; after a first phase the leader, which that phase never removes, goes on to the second; and OK is reported for the
end of a change alone. A second term ends this: a deposed leader reports OK for a first phase (section 3).

For any nodes, any number of leaders, any changes and any lag, until one of the three `leaks` of section 3:

* `ClusterHasHistory`: `Spec => []ChangeInductive`, the inductive invariant of the other three.
* `ChangesFollow` (`ChangesFollowUnlessLeak`): each change in a log is a legal one of the change before it there.
* `ChangesKeepAgreement` (`CommittedAgreementUnlessLeak`): no two nodes commit different entries.
* `LeaderCommittedOnVoters` (`CommittedOnVotersUnlessLeak`): what a leader with a stable configuration has committed is
  in the logs of a majority of its voters, whichever leader committed it, and under whichever configuration.

As for `RaftCore`, `HasHistory` says there is a history the state agrees with: the log `led[t]` of each term's leader, how far
each node has acknowledged it (`acked`), the elections that were won (`won`: how long the winner's log was, how much of it the winner had
applied, who voted) and the commits (`done`: which entry of its own term, and what the leader had applied when it counted). The configuration
of a node is the one its log leaves in force at its applied index (`ConfAt`), so an election and a commit are each a quorum of a
configuration that the history names. Raft's argument, that every later leader has what was committed (`Complete`), then turns on
whether two such quorums meet (`LaterHas`):

* A leader appends a change only when it holds no other that it has not applied (`HasPendingMembershipChange`), so no log holds two
  changes beyond what its node knows to be committed (`OneChange`). For a committing leader, and for a winner that is not
  hasty, the same is true beyond what it has *applied*.
* Suppose a leader that had applied its log up to `a` committed an entry, and a later winner that had applied up to `b` misses it. What lies below `a`
  was committed earlier, so by induction the winner has it. If `b <= a`, the winner's log holds at most one change between them. If
  `a < b`, what lies below `b` was committed by some leader, and either that leader's log or the first one's would show the winner had
  the entry, unless all of it is in the first one's log, below the entry; which holds at most one change there. So the two configurations
  are equal or adjacent, and `SuccessiveQuorumsMeet` gives a node that acknowledged the entry and voted for the winner.
* That voter compares logs as in `RaftCore`; what it acknowledged it still has, unless a leader in between lost it (`Lost`,
  `Remembered`), and by induction none did.

A usurped leader has no log of its own in `led`, and a copy counted unchecked no place in `acked`, as in `RaftCore`. A hasty winner breaks the second step, as `MCMembershipAgreement.cfg` shows: its quorum may be one of a
configuration that two later ones have left behind. So none of the exceptions can be dropped.

### Replies and writes (`PersistGateProofs`)

For any number of peers, requests and queued writes:

* `GateTypeCorrect`: types, with `ValidateInvariants` of the log, and a commit index on the disk that the disk has entries for.
* `StableIsStored` (`StableIsStoredUnlessCut`), `SuccessIsStored` (`LogPromiseStoredUnlessCut`) and `VoteIsStored`
  (`VotePromiseStoredUnlessOverlap`).

`GateInductive` has two halves with a condition each, because the entries and the hard state go wrong in different
ways. While nothing was `cut`, the disk is a prefix of the log, and each piece of work (queued, being written, or written
and not yet confirmed) carries entries of the log that leave no gap behind the disk (`StoredInOrder`): a repeated write is
harmless, and a confirmation, early or late, marks no entry the disk lacks. While no request `overlapped` a write, all
writes under way are of the hard state of now (`WrittenOneByOne`), which is what a confirmation takes for granted.

### The node the server runs (`RaftRuntimeProofs`)

For any number of proposals and membership changes, queues of any capacity and any number of storage failures:

* `RuntimeInvariant`: `Spec => []RuntimeInductive`.
* `AppliedStored` (`AppliedIsDurable`): the state machine has applied a prefix of what the disk holds.
* `AppliedIndexTrue` (`AppliedIndexIsTrue`): the applied index passes no command that the machine does not hold at that place.
* `SuccessTrue` (`SuccessIsApplied`): a caller is told of success only for its own command, stored and applied.

The three threads communicate by four queues, so the invariant is about what is *in* them: every event, write and apply
task, in a queue or in a thread's hands, and every pending proposal is typed by what it stands for (a piece of the log at
its index, with the disk or the machine having come so far). These sets only widen when log, disk and machine grow,
which they do in every step, so an item that waits stays good whatever the other threads do.

### The files (`ProcessProofs`)

For logs, terms and batches of any size:

* `StorageInvariant`: `Spec => []StorageInductive`.
* `EveryCrashLoads` (`AlwaysLoads`), `LoadsTheLog` (`LoadIsFaithful`) and `MemoryFollows` (`MemoryIsFaithful`).
* `StorageRefinement` (`RefinesDurableStorage`): the three files implement a storage whose operations happen at once.

A `SaveSnapshot` that fails or crashes between its two files leaves three boundaries apart: the log file begins
above `s`, the memory's snapshot is at `m`, the disk's at `b`. `StorageAt(s, m, b)` says `s <= m <= b <= commit`
and gives the content of everything as parts of the history: the files, the memory, and for the call under way the
replacements it has still to make. A load, a start, a write of a temporary file, a failure and a crash are no
steps of `DurableStorage`; the rename that replaces the hard state, the log or the snapshot is the abstract operation, and
the second rename of `SaveSnapshot` is none, since the entries it drops are below `b`.

### The process (`ProcessProofs`)

For any peers, strangers, calls and capacities of the queues:

* `ServerInvariant`: `ServerSpec => []ServerInductive`, and from it `ServerTypeCorrect` (`ServerTypeOK`).
* `ExitIsClean` (`ExitedIsUnused`) and `AnswersInOrder` (`AnswersTakenInOrder`).

`ServerInductive` has two parts. `InStep` says what runs at each point of the main thread: the state of the runtime, whether
calls are taken, whether a handler may wait and whether the tick thread and the pump may run; `ExitedIsUnused` is what it says of the last point.

The other part, `AnswersOrdered`, follows an answer on its way. For a peer and a kind of request, four sets hold the calls whose answers its
handlers have taken (`Given`), that stand in its queue (`Boxed`), that are staged (`Prepared`) and that are still events (`Asked`), and no element of one is
above an element of the next. No set is emptied into the next: a drain copies what is staged into the queue and keeps it, a handler takes an answer that
was for another, the pump takes one for nobody. What makes the order survive the copies is `OneStaged`: `StageMessage` leaves at
most one message of a kind to a node, so a drain can repeat an answer and never bring back an older one. The reply to a snapshot is
not staged and passes by those of the other kinds; `OneStaged` says that none of its own kind is there to be passed.
`Distributed` is the lemma about a distribution that a full queue or an unknown node ends halfway: what each queue gets is behind what it had, and for its peer.

### The control plane (`MetadataProofs`)

For any number of nodes, stores, tasks and entries, any commands that pass validation, any results and limits. Of the replicas (`ReplicaSpec`):

* `ReplicasFollowLog`: `ReplicaSpec => []ReplicasFit`, and from it `ReplicaTypesCorrect`.
* `ReplicasAgreeAlways` (`ReplicasAgree`): replicas that were handed the same entries agree.
* `SnapshotsFaithful` (`SnapshotFaithful`): what is saved passes the checks of the restore and is what comes back.
* `RefusalsFinal` (`StopsAtFirstRefusal`): all replicas stop at the same entry, for good.
* `TasksHandedOutOnce` (`HandedOutOnce`) and `ResultsFinal` (`ResultFinal`): a task has one owner and one final result.

`ReplicasAgree` compares two replicas only when both were handed as many entries, so it says nothing of the step with which one catches up.
`ReplicasFit` says instead that *there is* a history `h` of the log, a machine for each of its prefixes, each the result of `Apply` to the one
before; that every replica is `h[tried]` up to what replicas may differ in (`Same`: heartbeats, and the
junk of a store id); and that the recorded outcomes are `h`'s. A step of the replica that is ahead adds a machine to the history, one of any other
takes the step that is there already, and either needs that `Apply` respects `Same` (`ApplySame`): heartbeats are read by no
command, which for a registry with its addresses, for the limit on results and for a record that is written over takes an argument per
command. Each machine of the history also accounts for the commands behind it: which were refused
(`Refusals`), which poll took each task (`TakenOnce`), which command wrote each record and what it left there (`RecordsTrue`).
The snapshot needs what the two objects keep among themselves: `RegistryFits` (addresses index the stores), and `TasksFit`,
where sequence numbers are distinct and below the next one, so that an exported set of tasks passes `ValidateTaskRecord` and its checks for duplicates.

Of the services and their callers (`Spec` of `MetadataService`):

* `ServiceKeeps`: `Spec => []ServiceFits`.
* `ServedReplicasAgree`: the four invariants of the replicas, with services that propose to them.
* `ResultsReachTheirCaller` (`OwnResultUnlessCut`): nobody is told of another's command, unless its own was cut from the log.
* `ResultsWait` (`ResultKept`): a result stays in reach of the caller that waits for it.
* `AnswersFromTarget` (`AnswerFromTarget`): what is read as the outcome is what an applied command has left in that target, the caller's own or a later one;
  a store command of the same kind and id, or one that a client of the Metadata RPC aimed there.
* `ServiceTypesCorrect` (`Spec => []TypeOK`): both caches keep to their limit, and every id is one that was given. No run lists `TypeOK`.

`ServiceFits` has three parts. `Base`: a proposal is in one place, the event queue, the tail or the committed part of the log, at one
index, and moves only from one to the next or away. `LedgerFits`: whatever names a proposal and an index (`pending`, results on the way,
cached ones) names the index of its place, if it has one; this is what a cut takes away, since `pending` still names the
index that another entry gets. `CallersFit`: callers that wait at a node wait for different proposals, each is where its result can
still come from (`Kept`), and what was told or read is about an entry the node has applied. So the eleven actions are each checked against the places of a proposal, not
against the other callers.

The limit of a cache needs one thing more (`OnePlace`): `TrimResultCache` counts ids, the model's cache is a set of results, and the two
numbers are the same only because no id has two results. A proposal that has left the queue is pending or has one result, and is answered
only out of `pending`, which it then leaves. (In `RaftRuntime`, where a failed write answers twice, this is `ResultOnce`; the map
`cached_results_` would keep the earlier of the two.)

### Only model-checked

* All liveness (`EveryProposalAnswered`, `EveryEntryApplied`, `ShutdownEnds`, `SignalEndsProcess`, `HardStateWrittenUnlessMissed`): fairness and ENABLED
  are out of the prover's reach.
* `ResultOnce`, which is true of the instance of `runtime_live` and not of `RaftRuntime` (section 3).
* What follows a leak: little is claimed, and the runs stop there (`LeakFree`).

## 5. Not modelled, and why

* Byte formats (`raft_snapshot.cpp`, `metadata_command.cpp`, `raft_membership.cpp`'s codec, the encoders of the storage), parsing of
  configuration, ports, logging, placement and command-line tools keep no state whose order matters.
* Snapshots between peers. The core has no handler of them, and the runtime's writes to the storage on the protocol thread
  (`raft_runtime.cpp:644`) beside the persistence thread (`plan.md:220` has all of it on one): a data race with no defined
  outcome to state a property of. `RpcExchange` has its reply. Nothing but tests builds one, and the
  runtime's check wants the snapshot at or below the commit index and its term in the log, which a follower that needs it does not have.
* Recovery of a core. `FileStorage` shows what a load returns; `server.cpp:140-145` then refuses to start unless it is empty.
* `TruncateSuffix` of the storage is in `FileStorage` although the runtime never calls it, which is what `cut` in `PersistGate` records.
* Power loss that undoes a rename (`AtomicReplace` syncs the file, not its directory).

## 6. Plan

Heartbeats and progress of a leader with peers in `PersistGate`, once a driver in the source sends them.
