-------------------------- MODULE MetadataService --------------------------
(***************************************************************************)
(* metadata/metadata_service.cpp on every node, over the replicas of       *)
(* ReplicatedMetadata: callers propose a command, wait for its result,     *)
(* give up at a deadline, and read the outcome of a store command back     *)
(* from the record of its target.  A client of the Metadata RPC            *)
(* (rpc/metadata_rpc_service.cpp) proposes a command as it encoded it,     *)
(* with a kind and a target of its choice, and reads nothing back.         *)
(*                                                                         *)
(* Of Raft this keeps what decides which result a proposal gets: a node    *)
(* that leads, or still believes it does, puts the proposal behind the     *)
(* entries its log holds and remembers the index; only what is committed   *)
(* there answers it, or a write of it that fails.  A node whose log is     *)
(* overtaken by another leader's loses what it has not committed.  That a  *)
(* failed write is answered twice is left to RaftRuntime (ResultOnce).     *)
(***************************************************************************)
EXTENDS ReplicatedMetadata, Functions

CONSTANTS Caller,
          Request,      \* what callers ask for: with a target, it is what a client
                        \* of the Metadata RPC sends; without, target and id are set
          ResultCap,    \* kMaxCachedProposalResults
          MaxCalls      \* bound: calls made, to all nodes together

ASSUME ServiceAssumption ==
    /\ ResultCap \in Nat /\ MaxCalls \in Nat
    /\ \A request \in Request :
          /\ "kind" \in DOMAIN request /\ Arguments[request.kind] \subseteq DOMAIN request
          /\ ValidCommand(request)
          /\ request.kind = "OPAQUE" => "target" \in DOMAIN request

VARIABLES
    events,         \* proposals in the event queue of each runtime
    known,          \* how many committed entries the log of each node holds
    tail,           \* the proposals of its own it holds after them
    pending,        \* pending_proposals_: [pid, index]
    results,        \* results waiting in each runtime: [pid, index, ok]
    cached,         \* cached_results_
    abandoned,      \* abandoned_proposals_
    nextProposal,   \* next_proposal_id_
    nextCommand,    \* next_store_command_id_
    caller          \* what each caller is doing

raftVars == <<events, known, tail, pending>>
cacheVars == <<cached, abandoned>>
counters == <<nextProposal, nextCommand>>
vars == <<replicaVars, raftVars, results, cacheVars, counters, caller>>

----------------------------------------------------------------------------
\* Calls.

\* MetadataRpcServiceAdapter's Propose: the client has chosen all of the command.
Direct(request) == "target" \in DOMAIN request

\* NextGeneratedCommandId: polls and reports are numbered by the node; other
\* commands carry the id their caller chose.
Generated(request) ==
    ~Direct(request) /\ request.kind \in {"POLL_TASKS", "REPORT_TASK_RESULT"}

\* The command that is proposed for a request; the target that ProposeStoreCommand
\* is given is made of its kind and id.
Command(n, request) ==
    LET id == IF Generated(request) THEN nextCommand[n] ELSE request.id
    IN  IF Direct(request) THEN request
        ELSE With(With(request, "id", id), "target", <<request.kind, id>>)

\* Propose, up to EnqueueProposal.
StartCall(c, n, request) ==
    /\ caller[c].phase \in {"idle", "answered"}
    /\ LET p == [node |-> n, pid |-> nextProposal[n], cmd |-> Command(n, request),
                 reads |-> ~Direct(request)]
       IN  /\ events' = [events EXCEPT ![n] = Append(@, p)]
           /\ caller' = [caller EXCEPT ![c] = [phase |-> "waiting", proposal |-> p]]
    /\ nextProposal' = [nextProposal EXCEPT ![n] = @ + 1]
    /\ nextCommand' = IF Generated(request)
                      THEN [nextCommand EXCEPT ![n] = @ + 1] ELSE nextCommand
    /\ UNCHANGED <<replicaVars, known, tail, pending, results, cacheVars>>

----------------------------------------------------------------------------
\* Runtime and Raft.

Result(pid, i, ok) == [pid |-> pid, index |-> i, ok |-> ok]

Emit(n, r) == results' = [results EXCEPT ![n] = @ \cup {r}]

\* ProcessProposal at a node that leads, or has not heard that it does not.
Accept(n) ==
    /\ events[n] # <<>>
    /\ LET p == Head(events[n])
       IN  /\ tail' = [tail EXCEPT ![n] = Append(@, p)]
           /\ pending' = [pending EXCEPT ![n] = @ \cup
                  {[pid |-> p.pid, index |-> known[n] + Len(tail[n]) + 1]}]
    /\ events' = [events EXCEPT ![n] = Tail(@)]
    /\ UNCHANGED <<replicaVars, known, results, cacheVars, counters, caller>>

\* ProcessProposal at any other node.
Refuse(n) ==
    /\ events[n] # <<>>
    /\ Emit(n, Result(Head(events[n]).pid, 0, FALSE))
    /\ events' = [events EXCEPT ![n] = Tail(@)]
    /\ UNCHANGED <<replicaVars, known, tail, pending, cacheVars, counters, caller>>

\* The first proposal that n holds is committed.
Commit(n) ==
    /\ tail[n] # <<>> /\ known[n] = Len(log)
    /\ Append_(Head(tail[n]))
    /\ tail' = [tail EXCEPT ![n] = Tail(@)]
    /\ known' = [known EXCEPT ![n] = @ + 1]
    /\ UNCHANGED <<sm, tried, outcome, events, pending, results, cacheVars, counters,
                   caller>>

\* An entry committed by another leader reaches the log of n, in the place of what
\* n holds there; the index of a proposal that is cut off stays in pending.
Learn(n) ==
    /\ known[n] < Len(log)
    /\ known' = [known EXCEPT ![n] = @ + 1]
    /\ tail' = [tail EXCEPT ![n] = <<>>]
    /\ UNCHANGED <<replicaVars, events, pending, results, cacheVars, counters, caller>>

\* A write up to index i fails, of the disk or because the storage, which nobody
\* tells of a cut, still holds what was cut off.
WriteFails(n) ==
    \E i \in {q.index : q \in pending[n]} :
        LET failed == {q \in pending[n] : q.index <= i}
        IN  /\ pending' = [pending EXCEPT ![n] = @ \ failed]
            /\ results' = [results EXCEPT ![n] = @ \cup
                   {Result(q.pid, q.index, FALSE) : q \in failed}]
            /\ UNCHANGED <<replicaVars, events, known, tail, cacheVars, counters, caller>>

\* ScheduleApplyWork: the proposal that the entry at index i answers, the first of
\* those remembered there.
AnsweredBy(n, i) ==
    {q \in pending[n] : q.index = i /\ \A p \in pending[n] : p.index = i => q.pid <= p.pid}

\* The apply thread and ProcessApplyCompletion.
ApplyNext(n) ==
    LET i == tried[n] + 1
    IN  /\ tried[n] < known[n]
        /\ \E ok \in BOOLEAN :
              /\ PassNext(n, ok)
              /\ results' = [results EXCEPT ![n] = @ \cup
                     {Result(q.pid, i, ok) : q \in AnsweredBy(n, i)}]
        /\ pending' = [pending EXCEPT ![n] = @ \ AnsweredBy(n, i)]
        /\ UNCHANGED <<events, known, tail, cacheVars, counters, caller>>

----------------------------------------------------------------------------
\* TakeProposalResult and the rest of Propose, for the waiting caller c.

Waits(c) == caller[c].phase = "waiting"
NodeOf(c) == caller[c].proposal.node

\* TrimResultCache: beyond ResultCap the smallest ids go.
TrimIds(pids) == {p \in pids : Cardinality({q \in pids : q >= p}) <= ResultCap}
TrimResults(rs) == {r \in rs : r.pid \in TrimIds({q.pid : q \in rs})}

\* Propose returns r to caller c; ProposeStoreCommand reads the record of an accepted
\* command next.
Receive(c, r) ==
    caller' = [caller EXCEPT ![c] =
        [phase |-> IF r.ok /\ @.proposal.reads THEN "querying" ELSE "answered",
         proposal |-> @.proposal, status |-> IF r.ok THEN "OK" ELSE "REFUSED",
         index |-> r.index, answer |-> NoAnswer]]

\* Broken variant, for mutation: any result will do.
MineOrAny(c, r) == TRUE

Mine(c, r) == r.pid = caller[c].proposal.pid

\* Its result was collected by another caller of the node.
TakeCached(c) ==
    /\ Waits(c)
    /\ \E r \in cached[NodeOf(c)] :
          /\ Mine(c, r)
          /\ cached' = [cached EXCEPT ![NodeOf(c)] = @ \ {r}]
          /\ Receive(c, r)
    /\ UNCHANGED <<replicaVars, raftVars, results, abandoned, counters>>

\* Broken variant, for mutation: what is not the caller's is thrown away.
KeepNone(c, rs) == {}

\* The collected results other callers may still wait for.
Keep(c, rs) == {r \in rs : ~Mine(c, r) /\ r.pid \notin abandoned[NodeOf(c)]}

\* It collects what the runtime has; its own result may be among it.
Collect(c) ==
    LET n == NodeOf(c)
        own == {r \in results[n] : Mine(c, r)}
    IN  /\ Waits(c) /\ results[n] # {}
        /\ ~\E r \in cached[n] : Mine(c, r)
        /\ results' = [results EXCEPT ![n] = {}]
        /\ cached' = [cached EXCEPT ![n] = TrimResults(@ \cup Keep(c, results[n]))]
        /\ abandoned' = [abandoned EXCEPT ![n] =
                            TrimIds(@ \ {r.pid : r \in results[n] \ own})]
        /\ IF own = {} THEN UNCHANGED caller ELSE \E r \in own : Receive(c, r)
        /\ UNCHANGED <<replicaVars, raftVars, counters>>

\* The deadline passes: AbandonProposal.
Timeout(c) ==
    LET n == NodeOf(c)
        p == caller[c].proposal
    IN  /\ Waits(c)
        /\ cached' = [cached EXCEPT ![n] = TrimResults({r \in @ : r.pid # p.pid})]
        /\ abandoned' = [abandoned EXCEPT ![n] = TrimIds(@ \cup {p.pid})]
        /\ caller' = [caller EXCEPT ![c] =
               [phase |-> "answered", proposal |-> p, status |-> "RETRY_LATER",
                index |-> 0, answer |-> NoAnswer]]
        /\ UNCHANGED <<replicaVars, raftVars, results, counters>>

\* DecodeStoreBusinessResult: NoAnswer stands for a payload that is no result.
Decodes(payload) == payload.store # NoInfo

\* ProposeStoreCommand reads the outcome from the record of the target, if there is
\* one and it is an outcome, as it is by now.
ReadOutcome(c) ==
    LET records == sm[NodeOf(c)].records
        target == caller[c].proposal.cmd.target
    IN  /\ caller[c].phase = "querying"
        /\ caller' = IF target \in DOMAIN records /\ Decodes(records[target].payload)
                     THEN [caller EXCEPT ![c].phase = "answered",
                                         ![c].answer = records[target].payload]
                     ELSE [caller EXCEPT ![c].phase = "answered",
                                         ![c].status = "UNREAD"]
        /\ UNCHANGED <<replicaVars, raftVars, results, cacheVars, counters>>

\* The calls that have been made, for their bound.
CallsMade == FoldFunction(LAMBDA next, calls : calls + next - 1, 0, nextProposal)

Init ==
    /\ ReplicaInit
    /\ events = [n \in Node |-> <<>>] /\ tail = [n \in Node |-> <<>>]
    /\ known = [n \in Node |-> 0] /\ pending = [n \in Node |-> {}]
    /\ results = [n \in Node |-> {}] /\ cached = [n \in Node |-> {}]
    /\ abandoned = [n \in Node |-> {}]
    /\ nextProposal = [n \in Node |-> 1] /\ nextCommand = [n \in Node |-> 1]
    /\ caller = [c \in Caller |-> [phase |-> "idle"]]

Next ==
    \/ \E n \in Node : Accept(n) \/ Refuse(n) \/ Commit(n) \/ Learn(n)
                     \/ WriteFails(n) \/ ApplyNext(n)
    \/ \E c \in Caller :
          \/ /\ CallsMade < MaxCalls
             /\ \E n \in Node, request \in Request : StartCall(c, n, request)
          \/ TakeCached(c) \/ Collect(c) \/ Timeout(c) \/ ReadOutcome(c)

Spec == Init /\ [][Next]_vars

----------------------------------------------------------------------------
\* Every variable keeps to its range: ids are those that have been given, no replica
\* is ahead of its node's log, and each cache keeps to its limit.
TypeOK ==
    /\ ReplicaTypeOK
    /\ \A i \in DOMAIN log :
          log[i].node \in Node /\ log[i].pid \in 1 .. nextProposal[log[i].node] - 1
    /\ \A n \in Node :
          /\ tried[n] <= known[n] /\ known[n] <= Len(log)
          /\ nextCommand[n] \in 1 .. nextProposal[n]
          /\ {q.pid : q \in pending[n]} \subseteq 1 .. nextProposal[n] - 1
          /\ Cardinality(cached[n]) <= ResultCap
          /\ abandoned[n] \subseteq 1 .. nextProposal[n] - 1
          /\ Cardinality(abandoned[n]) <= ResultCap
    /\ \A c \in Caller : caller[c].phase \in {"idle", "waiting", "querying", "answered"}

Resolved(c) ==
    caller[c].phase \in {"querying", "answered"} /\ caller[c].status # "RETRY_LATER"

Committed(p) == \E i \in DOMAIN log : log[i] = p

\* The index a caller is told is that of its own proposal, if that was committed,
\* and success means that the entry there was applied: a result never reaches
\* another caller of the node, however the callers collect, cache and give up.  A
\* proposal that was cut off has no index (see OwnSuccess), and a refusal promises
\* nothing: what could not be written may still be committed.
OwnResultUnlessCut ==
    \A c \in Caller : Resolved(c) /\ caller[c].index > 0 =>
        LET i == caller[c].index
        IN  /\ Committed(caller[c].proposal) =>
                  i \in DOMAIN log /\ log[i] = caller[c].proposal
            /\ caller[c].status # "REFUSED" => i <= tried[NodeOf(c)] /\ outcome[i].ok

\* Propose success means the entry is committed and applied
\* (contracts/interfaces-and-services.md:104).
OwnSuccess ==
    \A c \in Caller :
        Resolved(c) /\ caller[c].status = "OK" => Committed(caller[c].proposal)

\* Pid p of node n is so old that the caches may have forgotten it.
Forgotten(n, pid) == pid + ResultCap < nextProposal[n]

\* The result of an applied proposal whose caller still waits is where that caller
\* will look, unless ResultCap later calls were made or a proposal that was cut off
\* got the answer of its index.
ResultKept ==
    \A c \in Caller : Waits(c) =>
        LET n == NodeOf(c)
            p == caller[c].proposal
        IN  \A i \in 1 .. tried[n] : log[i] = p =>
                \/ \E r \in results[n] \cup cached[n] : r.pid = p.pid
                \/ [pid |-> p.pid, index |-> i] \in pending[n]
                \/ Forgotten(n, p.pid)

\* The outcome that applying log[i] leaves in its record.
Left(i) == IF log[i].cmd.kind = "OPAQUE" THEN log[i].cmd.payload ELSE outcome[i].answer

\* What a caller reads as the outcome of its store command is what an applied
\* command has left in its target, its own command or one committed later or by
\* another node: a store command of the same kind and id, or one that a client of
\* the Metadata RPC aimed there.
AnswerFromTarget ==
    \A c \in Caller :
        caller[c].phase = "answered" /\ caller[c].status = "OK"
        /\ caller[c].proposal.reads
        => \E i \in 1 .. sm[NodeOf(c)].last :
              /\ log[i].cmd.target = caller[c].proposal.cmd.target
              /\ log[i].reads => log[i].cmd.kind = caller[c].proposal.cmd.kind
              /\ Committed(caller[c].proposal) => i >= caller[c].index
              /\ caller[c].answer.tasks = Left(i).tasks
              /\ caller[c].answer.duplicate = Left(i).duplicate
=============================================================================
