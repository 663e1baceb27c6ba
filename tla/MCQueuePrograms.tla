-------------------------- MODULE MCQueuePrograms --------------------------
(* Small programs for QueuePrograms. *)
EXTENDS QueuePrograms, TLC

CONSTANTS q1, q2, s1, s2, s3, v1, p1, h1, d1, d2

MCHeap == [pageable |-> {p1}, pinned |-> {h1}, device |-> {d1, d2}]

MCBuilds ==
    {[backend |-> "cuda", policy |-> "Asynchronous"], [backend |-> "hip", policy |-> "Caching"],
     [backend |-> "cuda", policy |-> "Synchronous"], [backend |-> "cpu", policy |-> "Synchronous"]}

Symmetry == Permutations(Queues) \cup Permutations(Slots) \cup Permutations({d1, d2})
=============================================================================
