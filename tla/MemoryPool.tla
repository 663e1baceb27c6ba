----------------------------- MODULE MemoryPool -----------------------------
(***************************************************************************)
(* What a queue-ordered memory pool promises its clients, with nothing     *)
(* said of bins, caches, events or locks: a buffer has at most one owner,  *)
(* the owner's work on it runs in the owner's queue, and it is handed out  *)
(* only when no earlier owner's work can still run beside the new owner's. *)
(***************************************************************************)
CONSTANTS Addr, Queues, ReuseSameQueue, None

VARIABLES
    owner,  \* the queue the buffer at each address is handed out to, or None
    work    \* the queues with pending work on the buffer at each address

vars == <<owner, work>>

Init ==
    /\ owner = [a \in Addr |-> None]
    /\ work = [a \in Addr |-> {}]

HandOut(a, q) ==
    /\ owner[a] = None
    /\ work[a] \subseteq IF ReuseSameQueue THEN {q} ELSE {}
    /\ owner' = [owner EXCEPT ![a] = q]
    /\ UNCHANGED work

TakeBack(a) ==
    /\ owner[a] # None
    /\ owner' = [owner EXCEPT ![a] = None]
    /\ UNCHANGED work

Submit(a) ==
    /\ owner[a] # None
    /\ work' = [work EXCEPT ![a] = @ \cup {owner[a]}]
    /\ UNCHANGED owner

Finish(a, q) ==
    /\ q \in work[a]
    /\ work' = [work EXCEPT ![a] = @ \ {q}]
    /\ UNCHANGED owner

Next ==
    \E a \in Addr :
        \/ TakeBack(a) \/ Submit(a)
        \/ \E q \in Queues : HandOut(a, q) \/ Finish(a, q)

Spec == Init /\ [][Next]_vars

TypeOK ==
    /\ owner \in [Addr -> Queues \cup {None}]
    /\ work \in [Addr -> SUBSET Queues]

(* All the work pending on a buffer in use is in its owner's queue, where   *)
(* the device runs it in the order it was submitted.                        *)
WorkInOwnersQueue ==
    \A a \in Addr : owner[a] # None => work[a] \subseteq {owner[a]}
=============================================================================
