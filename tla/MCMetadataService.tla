------------------------- MODULE MCMetadataService -------------------------
(* Instances of MetadataService small enough for TLC. *)
EXTENDS MetadataService

CONSTANTS n1, n2, c1, c2, s1, t1

Create(t) == [kind |-> "CREATE_TASK", id |-> t, task |-> t, content |-> "x"]
Poll(s, max) == [kind |-> "POLL_TASKS", store |-> s, max |-> max]

\* A client of the Metadata RPC writes the record of the first poll.
Put(payload) == [kind |-> "OPAQUE", id |-> "o", target |-> <<"POLL_TASKS", 1>>,
                 expected |-> 0, payload |-> payload]

Requests == {Create(t1), Poll(s1, 1), Put(Answer(NoStore, <<>>, TRUE)), Put(NoAnswer)}

CreateRequests == {Create(t1)}

\* A call that was given up, or answered without an index, is overwritten before
\* it is read again, and no property is about it.
View ==
    <<replicaVars, raftVars, results, cacheVars, counters,
      [c \in Caller |->
          IF caller[c].phase = "answered" /\ caller[c].index = 0
          THEN [phase |-> "idle"] ELSE caller[c]]>>

\* One call at most is not a poll.
OnlyPollsBut1 ==
    CallsMade - FoldFunction(LAMBDA next, polls : polls + next - 1, 0, nextCommand) <= 1

Alike == Permutations(Node) \cup Permutations(Caller)
=============================================================================
