---------------------------- MODULE RpcExchange ----------------------------
(***************************************************************************)
(* How a node answers its peers: the unary RPCs of rpc/raft_rpc_service.cpp *)
(* over the queues of RaftRuntime.  A handler enqueues its request as an   *)
(* event and polls the queue of messages to the caller until there is one; *)
(* the protocol thread lets the core stage a reply and distributes every   *)
(* staged message again after each event; the pump of server/server.cpp    *)
(* takes messages from the same queues, to send them.                      *)
(*                                                                         *)
(* A message is known by the RPC it answers; PersistGate has what its      *)
(* reply says and when it may leave.  Nothing in src/ makes the core of a  *)
(* running node build a request (the callers of BuildAppendEntriesForPeer  *)
(* are tests), so every message to a peer is a reply.                      *)
(***************************************************************************)
EXTENDS Integers, Sequences, FiniteSets

CONSTANTS Peer,      \* the other members at start, each with a queue
          Stranger,  \* nodes outside that configuration, which may call too
          Nobody,    \* kInvalidNodeId
          EventCap,  \* event_queue_capacity
          PeerCap,   \* peer_queue_capacity
          MaxRpcs,   \* bound: calls
          MaxTicks   \* bound: ticks waiting in the event queue

ASSUME ExchangeAssumption ==
    /\ Peer \cap Stranger = {} /\ Nobody \notin Peer \cup Stranger
    /\ IsFiniteSet(Peer \cup Stranger)
    /\ {EventCap, PeerCap, MaxRpcs, MaxTicks} \subseteq Nat

VARIABLES
    runtime,    \* state_ of RaftRuntime
    ended,      \* the threads of the runtime that have ended
    accepting,  \* the gRPC server takes calls
    rpcs,       \* the calls, in the order in which they were made
    events,     \* event_queue_
    immediate,  \* immediate_messages_
    persisted,  \* persisted_messages_
    unsaved,    \* the calls whose changes are still to be written
    outbox      \* peer_queues_

coreVars == <<immediate, persisted, unsaved>>
exchangeVars == <<runtime, ended, accepting, rpcs, events, coreVars, outbox>>

Kind == {"vote", "append", "snapshot"}
NoCall == [state |-> "failed", from |-> Nobody, kind |-> "vote", answer |-> 0]

\* The calls whose handlers poll, those whose handlers have a message, and both.
Waiting == {r \in DOMAIN rpcs : rpcs[r].state = "waiting"}
Taken == {r \in DOMAIN rpcs : rpcs[r].state = "taken"}
InHandler == Waiting \cup Taken

\* The elements of s at the indexes I, in their order.
Selected(s, I) ==
    [k \in 1 .. Cardinality(I) |->
        s[CHOOSE i \in I : Cardinality({j \in I : j <= i}) = k]]

Reply(r) == [kind |-> rpcs[r].kind, to |-> rpcs[r].from, rpc |-> r]

----------------------------------------------------------------------------
\* RaftRuntime's queues.

Accepts == runtime = "RUNNING" /\ Len(events) < EventCap

\* The queue of message i is unknown, closed, or full with what went before it.
Refuses(messages, i) ==
    LET p == messages[i].to
    IN  \/ p \notin Peer \/ runtime # "RUNNING"
        \/ Len(outbox[p]) + Cardinality({j \in 1 .. i - 1 : messages[j].to = p}) >= PeerCap

\* The first message that is refused ends the distribution.
DistributeOutputMessages(messages) ==
    LET sent == {i \in DOMAIN messages : \A j \in 1 .. i : ~Refuses(messages, j)}
    IN  outbox' = [p \in Peer |->
            outbox[p] \o Selected(messages, {i \in sent : messages[i].to = p})]

\* Everything staged goes out, what waits for a write included; nothing is taken
\* back, so the next drain sends it again.  The persistence queue comes first:
\* when it has no room for what is to be written, nothing goes out.
DrainCoreOutput ==
    \/ DistributeOutputMessages(immediate' \o persisted')
    \/ unsaved' # {} /\ UNCHANGED outbox

----------------------------------------------------------------------------
\* RaftCore's staging.

Others(messages, m) ==
    Selected(messages, {i \in DOMAIN messages :
                           messages[i].kind # m.kind \/ messages[i].to # m.to})

\* Broken variant, for mutation: a message that waits is not replaced.
StageBesideWaiting(m, waits) ==
    /\ immediate' = IF waits THEN Others(immediate, m) ELSE Append(Others(immediate, m), m)
    /\ persisted' = IF waits THEN Append(Others(persisted, m), m) ELSE persisted

\* The newest message of a kind to a node replaces the older one.
StageMessage(m, waits) ==
    /\ immediate' = IF waits THEN Others(immediate, m) ELSE Append(Others(immediate, m), m)
    /\ persisted' = IF waits THEN Append(Others(persisted, m), m) ELSE Others(persisted, m)

ReclassifyBlockedMessages(ready) ==
    LET released == {k \in DOMAIN persisted : persisted[k].rpc \in ready}
    IN  /\ immediate' = immediate \o Selected(persisted, released)
        /\ persisted' = Selected(persisted, DOMAIN persisted \ released)

----------------------------------------------------------------------------
\* The protocol thread.

Take(kind) ==
    /\ runtime \in {"RUNNING", "STOPPING"} /\ "protocol" \notin ended
    /\ events # << >> /\ Head(events).kind = kind
    /\ events' = Tail(events)
    /\ UNCHANGED <<runtime, ended, accepting, rpcs>>

ProcessTick ==
    /\ Take("tick")
    /\ UNCHANGED coreVars
    /\ DrainCoreOutput

\* HandleRequestVote or HandleAppendEntries has staged a reply, which waits if
\* the request has changed the hard state or the log.
HandleRequest(waits) ==
    LET r == Head(events).rpc
    IN  /\ Take("message") /\ rpcs[r].kind # "snapshot"
        /\ unsaved' = IF waits THEN unsaved \cup {r} ELSE unsaved
        /\ StageMessage(Reply(r), waits)
        /\ DrainCoreOutput

\* The reply to a snapshot is not staged, and waits for nothing; BecomeFollower may
\* have changed the hard state, which the next drain writes.
HandleInstallSnapshot(changed) ==
    LET r == Head(events).rpc
    IN  /\ Take("message") /\ rpcs[r].kind = "snapshot"
        /\ DistributeOutputMessages(<<Reply(r)>>)
        /\ unsaved' = IF changed THEN unsaved \cup {r} ELSE unsaved
        /\ UNCHANGED <<immediate, persisted>>

\* The core refuses the request: no reply, no drain.
RefuseRequest ==
    /\ Take("message")
    /\ UNCHANGED <<coreVars, outbox>>

\* ConfirmPersistence; PersistGate has which replies it releases.
PersistenceConfirmed(ready) ==
    /\ Take("persisted")
    /\ ready \subseteq {persisted[k].rpc : k \in DOMAIN persisted}
    /\ ReclassifyBlockedMessages(ready)
    /\ UNCHANGED unsaved
    /\ DrainCoreOutput

\* The core does not accept the index that was written: no drain.
PersistenceRefused ==
    /\ Take("persisted")
    /\ UNCHANGED <<coreVars, outbox>>

\* The queue is closed and empty.
ProtocolEnds ==
    /\ runtime = "STOPPING" /\ "protocol" \notin ended /\ events = << >>
    /\ ended' = ended \cup {"protocol"}
    /\ UNCHANGED <<runtime, accepting, rpcs, events, coreVars, outbox>>

Protocol ==
    \/ ProcessTick
    \/ \E waits \in BOOLEAN : HandleRequest(waits)
    \/ \E changed \in BOOLEAN : HandleInstallSnapshot(changed)
    \/ RefuseRequest
    \/ \E ready \in SUBSET DOMAIN rpcs : PersistenceConfirmed(ready)
    \/ PersistenceRefused
    \/ ProtocolEnds

----------------------------------------------------------------------------
\* The persistence thread: a piece of work and its completion, for which the
\* thread ends when the event queue is full or closed.  A write that fails is one
\* that is not made.

Write(done) ==
    /\ runtime \in {"RUNNING", "STOPPING"} /\ "persistence" \notin ended
    /\ done # {} /\ done \subseteq unsaved
    /\ unsaved' = unsaved \ done
    /\ IF Accepts THEN events' = Append(events, [kind |-> "persisted"]) /\ UNCHANGED ended
       ELSE ended' = ended \cup {"persistence"} /\ UNCHANGED events
    /\ UNCHANGED <<runtime, accepting, rpcs, immediate, persisted, outbox>>

\* The queue is closed and empty; work it had no room for is not written.
PersistenceEnds ==
    /\ runtime = "STOPPING" /\ "persistence" \notin ended
    /\ ended' = ended \cup {"persistence"}
    /\ UNCHANGED <<runtime, accepting, rpcs, events, coreVars, outbox>>

----------------------------------------------------------------------------
\* DispatchUnaryRequest: a handler per call.

Request == [from : Peer \cup Stranger \cup {Nobody}, kind : Kind, wellFormed : BOOLEAN]

\* Indexes and terms that contradict each other make a request malformed.
ValidateRequest(request) == request.from # Nobody /\ request.wellFormed

\* ToInternalMessage: the sender is the one the request names.
Internal(request) ==
    [NoCall EXCEPT !.state = "waiting", !.from = request.from, !.kind = request.kind]

\* A request that is malformed, or finds the runtime not running or its queue
\* full, returns at once.
Call(request) ==
    /\ accepting /\ Len(rpcs) < MaxRpcs
    /\ IF ValidateRequest(request) /\ Accepts
       THEN /\ rpcs' = Append(rpcs, Internal(request))
            /\ events' = Append(events, [kind |-> "message", rpc |-> Len(rpcs) + 1])
       ELSE rpcs' = Append(rpcs, NoCall) /\ UNCHANGED events
    /\ UNCHANGED <<runtime, ended, accepting, coreVars, outbox>>

SetCall(r, state, answer) ==
    /\ rpcs' = [rpcs EXCEPT ![r].state = state, ![r].answer = answer]
    /\ UNCHANGED <<runtime, ended, accepting, events, coreVars>>

HasMessage(p) == p \in Peer /\ outbox[p] # << >>

\* WaitForPeerResponse: the oldest message to the caller is taken for the answer,
\* and lost, with an error, if it is of another kind than was asked for.
Poll(r) ==
    LET p == rpcs[r].from
        m == Head(outbox[p])
    IN  /\ r \in Waiting /\ runtime = "RUNNING" /\ HasMessage(p)
        /\ outbox' = [outbox EXCEPT ![p] = Tail(@)]
        /\ IF m.kind = rpcs[r].kind THEN SetCall(r, "taken", m.rpc) ELSE SetCall(r, "failed", 0)

\* The handler returns what it has taken, when it gets to it: the queue is not
\* locked any more, and another handler of the caller may return first.
FillResponse(r) == r \in Taken /\ SetCall(r, "answered", rpcs[r].answer) /\ UNCHANGED outbox

\* Broken variant, for mutation: the handler waits until there is a message.
NeverExpire(r) == r \in Waiting /\ runtime # "RUNNING" /\ SetCall(r, "failed", 0) /\ UNCHANGED outbox

\* The runtime has stopped, or there is no message and the deadline has passed.
Expire(r) ==
    /\ r \in Waiting
    /\ runtime # "RUNNING" \/ ~HasMessage(rpcs[r].from)
    /\ SetCall(r, "failed", 0)
    /\ UNCHANGED outbox

Handler(r) == Poll(r) \/ FillResponse(r) \/ Expire(r)

----------------------------------------------------------------------------
\* The runtime's own life.

lifeFrame == <<rpcs, events, coreVars, outbox>>

RuntimeInitialize == runtime = "CREATED" /\ runtime' = "INITIALIZED" /\ UNCHANGED <<ended, lifeFrame>>

RuntimeStart == runtime = "INITIALIZED" /\ runtime' = "RUNNING" /\ UNCHANGED <<ended, lifeFrame>>

\* The queues are closed: what is in them is still taken out, nothing comes in.
RequestShutdown == runtime = "RUNNING" /\ runtime' = "STOPPING" /\ UNCHANGED <<ended, lifeFrame>>

WaitForShutdown ==
    /\ ended = {"protocol", "persistence"}
    /\ runtime' = "STOPPED" /\ UNCHANGED <<ended, lifeFrame>>

----------------------------------------------------------------------------
\* The threads of server/server.cpp that drive the runtime.

EnqueueTick ==
    /\ Accepts
    /\ Len(SelectSeq(events, LAMBDA e : e.kind = "tick")) < MaxTicks
    /\ events' = Append(events, [kind |-> "tick"])
    /\ UNCHANGED <<runtime, ended, accepting, rpcs, coreVars, outbox>>

\* ValidateRequestMessage of the transport: a reply goes out with its RPC, never
\* by itself.
CanSend(m) == m.kind \notin Kind

\* The pump sends what it takes; the reply it has taken is lost.
PumpMessage(p) ==
    /\ HasMessage(p) /\ ~CanSend(Head(outbox[p]))
    /\ outbox' = [outbox EXCEPT ![p] = Tail(@)]
    /\ UNCHANGED <<runtime, ended, accepting, rpcs, events, coreVars>>

----------------------------------------------------------------------------
\* The queues are those of the members at start (RaftRuntime::Initialize).
ExchangeInit ==
    /\ runtime = "CREATED" /\ ended = {} /\ accepting = FALSE
    /\ rpcs = << >> /\ events = << >>
    /\ immediate = << >> /\ persisted = << >> /\ unsaved = {}
    /\ outbox = [p \in Peer |-> << >>]

\* What calls, threads and the protocol do, the runtime's own life apart.
ExchangeNext ==
    \/ Protocol
    \/ \E done \in SUBSET unsaved : Write(done)
    \/ PersistenceEnds
    \/ \E request \in Request : Call(request)
    \/ \E r \in InHandler : Handler(r)

----------------------------------------------------------------------------
\* The handlers of a peer take the answers of one kind in the order of the requests
\* they answer, whatever is replaced, copied, taken by the pump or lost on the way.
\* So an answer is older than one the peer has had only if both were in handlers at
\* a time, and a leader that waits for the answer to one call before it makes the
\* next never sees a success or a conflict that would move a peer's progress back.
AnswersTakenInOrder ==
    [][\A r \in Waiting : rpcs'[r].state = "taken" =>
         \A s \in DOMAIN rpcs :
            /\ rpcs[s].state \in {"taken", "answered"}
            /\ rpcs[s].from = rpcs[r].from /\ rpcs[s].kind = rpcs[r].kind
            => rpcs[s].answer <= rpcs'[r].answer]_exchangeVars

\* An answer is handed out once what it promises is stored: spec.md FR-012,
\* "MUST NOT be sent until the required persistence has completed successfully".
AnswerIsStored ==
    \A r \in DOMAIN rpcs : rpcs[r].state = "answered" => rpcs[r].answer \notin unsaved
=============================================================================
