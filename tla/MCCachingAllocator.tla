------------------------- MODULE MCCachingAllocator -------------------------
(***************************************************************************)
(* Small instances of CachingAllocator: the bins hold 2 and 4 bytes, and   *)
(* the clients' requests fall inside a bin, on its boundary and beyond the *)
(* largest bin.                                                            *)
(***************************************************************************)
EXTENDS CachingAllocator, TLC

CONSTANTS t1, t2, a1, a2, a3, q1, q2, d1, d2

MCBinBytes == [bin \in Bins |-> 2 ^ bin]

OneDevice  == q1 :> d1 @@ q2 :> d1     \* device memory: all queues on its device
TwoDevices == q1 :> d1 @@ q2 :> d2     \* pinned host memory: any device's queue
OneQueue   == q1 :> d1

Symmetry == Permutations(Addr) \cup Permutations(Threads)
=============================================================================
