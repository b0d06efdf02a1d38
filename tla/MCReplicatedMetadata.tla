------------------------ MODULE MCReplicatedMetadata ------------------------
(* Instances of ReplicatedMetadata small enough for TLC. *)
EXTENDS ReplicatedMetadata

CONSTANTS n1, n2, s1, s2, a1, t1, t2, j1, j2

For(target, request) ==
    [cmd |-> [id |-> target, target |-> <<request.kind, target>>] @@ request]

Register(s, a) == For(s, [kind |-> "REGISTER_STORE", store |-> s, address |-> a])
Stop(s, g)  == For(s, [kind |-> "UPDATE_STORE_STATE", store |-> s, generation |-> g])
Removal(s, g) == For(s, [kind |-> "REMOVE_STORE", store |-> s, generation |-> g])
Create(t) == For(t, [kind |-> "CREATE_TASK", task |-> t, content |-> "x"])
Poll(s, max) == For("p", [kind |-> "POLL_TASKS", store |-> s, max |-> max])
Done(s, t, final) ==
    For("d", [kind |-> "REPORT_TASK_RESULT", store |-> s, task |-> t,
              final |-> final, result |-> "y"])
Opaque(expected) ==
    For("o", [kind |-> "OPAQUE", expected |-> expected, payload |-> Answer("z", <<>>, FALSE)])

Entries ==
    {Register(s1, a1), Register(s2, a1), Stop(s1, 1), Removal(s1, 1),
     Create(t1), Create(t2), Poll(s1, 1), Poll(s2, 2),
     Done(s1, t1, "SUCCESS"), Done(s1, t1, "FAILED"), Opaque(1)}

Alike == Permutations(Node) \cup Permutations(Junk)
=============================================================================
