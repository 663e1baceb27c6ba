----------------------- MODULE CachingAllocatorProofs -----------------------
(***************************************************************************)
(* Proofs about CachingAllocator, for any threads, queues, devices, bins,  *)
(* sizes and limits.                                                       *)
(***************************************************************************)
EXTENDS CachingAllocator, SequenceTheorems, FiniteSetTheorems, TLAPS

(* The mutex is held exactly by a call inside its critical section.         *)
MutexHeld ==
    \A t \in Threads : mutex_ = t <=> pc[t] \in {"scan", "flushing", "drop"}

(* What a call's local descriptor holds at each point of the call.          *)
LocalBlock ==
    \A t \in Threads :
        /\ pc[t] \in {"insert", "drop"} => block[t].buffer # None
        /\ pc[t] \notin {"insert", "drop", "unwind", "free"} => block[t].buffer = None
        /\ pc[t] \in {"reuse", "scan", "new", "retry", "insert"} =>
            /\ block[t].bytes = BinBytes[block[t].bin]
            /\ block[t].requested <= block[t].bytes
        /\ pc[t] \in {"flush", "flushing"} /\ ~destroyed =>
            /\ block[t].bytes = BinBytes[block[t].bin]
            /\ block[t].requested <= block[t].bytes

(* A block in a container is filed under its own buffer and bin.            *)
WellFiled ==
    /\ \A a \in Addr : live_blocks_[a] # None =>
        /\ live_blocks_[a].buffer = a
        /\ live_blocks_[a].bytes = BinBytes[live_blocks_[a].bin]
        /\ live_blocks_[a].event = QueueDevice[live_blocks_[a].queue]
    /\ \A i \in DOMAIN cached_blocks_ :
        /\ cached_blocks_[i].buffer \in Addr
        /\ cached_blocks_[i].bytes = BinBytes[cached_blocks_[i].bin]

(* The buffers in the clients' hands are live.                              *)
HeldIsLive ==
    \A a \in Addr : held[a] # None =>
        /\ live_blocks_[a] # None
        /\ live_blocks_[a].queue = held[a].queue
        /\ live_blocks_[a].bytes >= held[a].bytes

(* A buffer on its way through free is live and no longer in a client's     *)
(* hands; no two calls free the same buffer.                                *)
FreeingIsLive ==
    \A t \in Threads : pc[t] = "free" /\ block[t].buffer # None =>
        /\ live_blocks_[block[t].buffer] # None
        /\ held[block[t].buffer] = None
        /\ \A u \in Threads : pc[u] = "free" /\ block[u].buffer = block[t].buffer => u = t

(* After the destructor was called there are no live blocks, only the call  *)
(* that empties the cache.                                                  *)
ShutDown ==
    destroyed =>
        /\ \A a \in Addr : live_blocks_[a] = None
        /\ \A t \in Threads : pc[t] \in {"idle", "flush", "flushing"}
        /\ cached_blocks_ = << >> \/ \E t \in Threads : pc[t] \in {"flush", "flushing"}

IInv ==
    /\ TypeOK /\ MutexHeld /\ LocalBlock /\ WellFiled
    /\ HeldIsLive /\ FreeingIsLive /\ ShutDown /\ SoleOwner /\ EventGuardsWork

-----------------------------------------------------------------------------
(* RemoveAt, by which a cached block is erased, keeps the other elements in *)
(* their order.                                                             *)
LEMMA RemoveAtProperties ==
    ASSUME NEW S, NEW s \in Seq(S), NEW i \in 1 .. Len(s)
    PROVE  /\ RemoveAt(s, i) \in Seq(S)
           /\ Len(RemoveAt(s, i)) = Len(s) - 1
           /\ \A j \in 1 .. Len(s) - 1 :
                RemoveAt(s, i)[j] = IF j < i THEN s[j] ELSE s[j + 1]
<1> DEFINE front == SubSeq(s, 1, i - 1)
           back  == SubSeq(s, i + 1, Len(s))
<1>1. /\ front \in Seq(S) /\ Len(front) = i - 1
      /\ \A j \in 1 .. i - 1 : front[j] = s[j]
    OBVIOUS
<1>2. /\ back \in Seq(S) /\ Len(back) = Len(s) - i
      /\ \A j \in 1 .. Len(s) - i : back[j] = s[i + j]
    OBVIOUS
<1> HIDE DEF front, back
<1>3. /\ front \o back \in Seq(S)
      /\ Len(front \o back) = Len(front) + Len(back)
      /\ \A j \in 1 .. Len(front) + Len(back) :
            (front \o back)[j] = IF j <= Len(front) THEN front[j] ELSE back[j - Len(front)]
    BY <1>1, <1>2, ConcatProperties
<1>4. ASSUME NEW j \in 1 .. Len(s) - 1
      PROVE  (front \o back)[j] = IF j < i THEN s[j] ELSE s[j + 1]
    <2>1. CASE j < i
        BY <1>1, <1>2, <1>3, <2>1
    <2>2. CASE ~(j < i)
        <3> DEFINE k == j - (i - 1)
        <3>1. k \in 1 .. Len(s) - i /\ i + k = j + 1 /\ ~(j <= Len(front)) /\ k = j - Len(front)
            BY <1>1, <2>2
        <3>2. (front \o back)[j] = back[k]
            BY <1>1, <1>2, <1>3, <3>1
        <3>3. back[k] = s[j + 1]
            BY <1>2, <3>1
        <3> QED
            BY <2>2, <3>2, <3>3
    <2> QED
        BY <2>1, <2>2
<1>5. RemoveAt(s, i) = front \o back
    BY DEF RemoveAt, front, back
<1> QED
    BY <1>1, <1>2, <1>3, <1>4, <1>5

(* A queue after an operation was submitted to it.                          *)
LEMMA Appended ==
    ASSUME NEW S, NEW s \in Seq(S), NEW e \in S
    PROVE  /\ DOMAIN Append(s, e) = DOMAIN s \cup {Len(s) + 1}
           /\ \A i \in DOMAIN s : i \in Int /\ Len(s) + 1 > i /\ Append(s, e)[i] = s[i]
           /\ Append(s, e)[Len(s) + 1] = e
OBVIOUS

(* A queue after the operation at its head was executed.                    *)
LEMMA Shifted ==
    ASSUME NEW S, NEW s \in Seq(S), s # << >>
    PROVE  /\ \A k \in DOMAIN Tail(s) :
                k \in Int /\ k + 1 \in DOMAIN s /\ Tail(s)[k] = s[k + 1]
           /\ \A m \in DOMAIN s : \A k \in Int : k >= 1 /\ m > k + 1 =>
                m - 1 \in DOMAIN Tail(s) /\ m - 1 > k /\ Tail(s)[m - 1] = s[m]
           /\ \A m \in DOMAIN s :
                m = 1 \/ (m - 1 \in DOMAIN Tail(s) /\ Tail(s)[m - 1] = s[m])
           /\ \A k \in DOMAIN Tail(s) : k >= 1
<1>1. /\ Len(s) \in Nat \ {0} /\ DOMAIN s = 1 .. Len(s)
      /\ Tail(s) \in Seq(S) /\ Len(Tail(s)) = Len(s) - 1
      /\ DOMAIN Tail(s) = 1 .. Len(s) - 1
      /\ \A k \in 1 .. Len(s) - 1 : Tail(s)[k] = s[k + 1]
    BY HeadTailProperties, EmptySeq
<1> QED
    BY <1>1

(* Erasing a cached block leaves the others, each once.                     *)
LEMMA ErasedBlocks ==
    ASSUME TypeOK, NEW i \in DOMAIN cached_blocks_, cached_blocks_' = Erased(i)
    PROVE  /\ DOMAIN cached_blocks_' = 1 .. Len(cached_blocks_) - 1
           /\ \A j \in DOMAIN cached_blocks_' :
                \E k \in DOMAIN cached_blocks_ \ {i} : cached_blocks_'[j] = cached_blocks_[k]
           /\ \A k \in DOMAIN cached_blocks_ \ {i} :
                \E j \in DOMAIN cached_blocks_' : cached_blocks_'[j] = cached_blocks_[k]
           /\ \A j1, j2 \in DOMAIN cached_blocks_' : j1 # j2 =>
                \E k1, k2 \in DOMAIN cached_blocks_ \ {i} :
                    /\ k1 # k2
                    /\ cached_blocks_'[j1] = cached_blocks_[k1]
                    /\ cached_blocks_'[j2] = cached_blocks_[k2]
<1> DEFINE from(j) == IF j < i THEN j ELSE j + 1
           to(k)   == IF k < i THEN k ELSE k - 1
<1>1. /\ cached_blocks_ \in Seq(BlockDescriptor) /\ i \in 1 .. Len(cached_blocks_)
      /\ Len(cached_blocks_) \in Nat
    BY DEF TypeOK
<1>2. /\ DOMAIN cached_blocks_' = 1 .. Len(cached_blocks_) - 1
      /\ \A j \in 1 .. Len(cached_blocks_) - 1 :
            cached_blocks_'[j] = IF j < i THEN cached_blocks_[j] ELSE cached_blocks_[j + 1]
    <2>1. /\ RemoveAt(cached_blocks_, i) \in Seq(BlockDescriptor)
          /\ Len(RemoveAt(cached_blocks_, i)) = Len(cached_blocks_) - 1
          /\ \A j \in 1 .. Len(cached_blocks_) - 1 :
                RemoveAt(cached_blocks_, i)[j] =
                    IF j < i THEN cached_blocks_[j] ELSE cached_blocks_[j + 1]
        BY <1>1, RemoveAtProperties
    <2>2. cached_blocks_' = RemoveAt(cached_blocks_, i)
        BY DEF Erased
    <2> QED
        BY <2>1, <2>2
<1>3. ASSUME NEW j \in DOMAIN cached_blocks_'
      PROVE  from(j) \in DOMAIN cached_blocks_ \ {i} /\ cached_blocks_'[j] = cached_blocks_[from(j)]
    BY <1>1, <1>2
<1>4. ASSUME NEW k \in DOMAIN cached_blocks_ \ {i}
      PROVE  to(k) \in DOMAIN cached_blocks_' /\ cached_blocks_'[to(k)] = cached_blocks_[k]
    BY <1>1, <1>2
<1>5. \A j1, j2 \in DOMAIN cached_blocks_' : j1 # j2 => from(j1) # from(j2)
    BY <1>1, <1>2
<1> HIDE DEF from, to
<1>6. ASSUME NEW j1 \in DOMAIN cached_blocks_', NEW j2 \in DOMAIN cached_blocks_', j1 # j2
      PROVE  \E k1, k2 \in DOMAIN cached_blocks_ \ {i} :
                    /\ k1 # k2
                    /\ cached_blocks_'[j1] = cached_blocks_[k1]
                    /\ cached_blocks_'[j2] = cached_blocks_[k2]
    BY <1>3, <1>5, <1>6
<1> QED
    BY <1>2, <1>3, <1>4, <1>6

(* Recaching a block puts it behind the others.                             *)
LEMMA AppendedBlocks ==
    ASSUME TypeOK, NEW b \in BlockDescriptor, cached_blocks_' = Append(cached_blocks_, b)
    PROVE  /\ DOMAIN cached_blocks_' = DOMAIN cached_blocks_ \cup {Len(cached_blocks_) + 1}
           /\ Len(cached_blocks_) + 1 \notin DOMAIN cached_blocks_
           /\ \A j \in DOMAIN cached_blocks_ : cached_blocks_'[j] = cached_blocks_[j]
           /\ cached_blocks_'[Len(cached_blocks_) + 1] = b
<1>1. cached_blocks_ \in Seq(BlockDescriptor)
    BY DEF TypeOK
<1> QED
    BY <1>1

(* Erasing a cached block leaves the other buffers cached as they were.     *)
LEMMA CachedAtErased ==
    ASSUME TypeOK, SoleOwner, NEW i \in DOMAIN cached_blocks_, cached_blocks_' = Erased(i)
    PROVE  \A a \in Addr :
            /\ \A j1, j2 \in CachedAt'[a] : j1 = j2
            /\ a = cached_blocks_[i].buffer => CachedAt'[a] = {}
            /\ a # cached_blocks_[i].buffer => (CachedAt'[a] = {} <=> CachedAt[a] = {})
<1>1. \A a \in Addr : \A k1, k2 \in DOMAIN cached_blocks_ :
        cached_blocks_[k1].buffer = a /\ cached_blocks_[k2].buffer = a => k1 = k2
    BY DEF SoleOwner, CachedAt
<1>2. /\ \A j \in DOMAIN cached_blocks_' :
            \E k \in DOMAIN cached_blocks_ \ {i} : cached_blocks_'[j] = cached_blocks_[k]
      /\ \A k \in DOMAIN cached_blocks_ \ {i} :
            \E j \in DOMAIN cached_blocks_' : cached_blocks_'[j] = cached_blocks_[k]
      /\ \A j1, j2 \in DOMAIN cached_blocks_' : j1 # j2 =>
            \E k1, k2 \in DOMAIN cached_blocks_ \ {i} :
                /\ k1 # k2
                /\ cached_blocks_'[j1] = cached_blocks_[k1]
                /\ cached_blocks_'[j2] = cached_blocks_[k2]
    BY ErasedBlocks
<1> QED
    BY <1>1, <1>2 DEF CachedAt

(* Recaching a block that is not cached adds its buffer to the cached ones. *)
LEMMA CachedAtAppended ==
    ASSUME TypeOK, SoleOwner, NEW b \in BlockDescriptor, CachedAt[b.buffer] = {},
           cached_blocks_' = Append(cached_blocks_, b)
    PROVE  \A a \in Addr :
            /\ \A j1, j2 \in CachedAt'[a] : j1 = j2
            /\ a = b.buffer => CachedAt'[a] # {}
            /\ a # b.buffer => (CachedAt'[a] = {} <=> CachedAt[a] = {})
<1>1. \A a \in Addr : \A k1, k2 \in DOMAIN cached_blocks_ :
        cached_blocks_[k1].buffer = a /\ cached_blocks_[k2].buffer = a => k1 = k2
    BY DEF SoleOwner, CachedAt
<1>2. /\ DOMAIN cached_blocks_' = DOMAIN cached_blocks_ \cup {Len(cached_blocks_) + 1}
      /\ Len(cached_blocks_) + 1 \notin DOMAIN cached_blocks_
      /\ \A j \in DOMAIN cached_blocks_ : cached_blocks_'[j] = cached_blocks_[j]
      /\ cached_blocks_'[Len(cached_blocks_) + 1] = b
    BY AppendedBlocks
<1>3. \A j \in DOMAIN cached_blocks_ : cached_blocks_[j].buffer = b.buffer => b.buffer \notin Addr
    BY DEF CachedAt
<1>4. CachedAt' =
        [a \in Addr |-> {j \in DOMAIN cached_blocks_' : cached_blocks_'[j].buffer = a}]
    BY DEF CachedAt
<1>5. ASSUME NEW a \in Addr, a = b.buffer
      PROVE  CachedAt'[a] = {Len(cached_blocks_) + 1}
    BY <1>2, <1>3, <1>4, <1>5
<1>6. ASSUME NEW a \in Addr, a # b.buffer
      PROVE  CachedAt'[a] = CachedAt[a]
    BY <1>2, <1>4, <1>6 DEF CachedAt
<1> QED
    BY <1>5, <1>6 DEF SoleOwner

(* A step that leaves the containers, the driver's memory and the owning    *)
(* calls alone leaves the ownership alone.                                  *)
LEMMA OwnershipStays ==
    ASSUME SoleOwner, UNCHANGED <<live_blocks_, cached_blocks_, memory>>, OwnedBy' = OwnedBy
    PROVE  SoleOwner'
<1>1. CachedAt' = CachedAt
    BY DEF CachedAt
<1> QED
    BY <1>1 DEF SoleOwner

(* A step that leaves the containers and the queues alone, and the calls    *)
(* that drop a block where they are, leaves the pending work guarded.       *)
LEMMA WorkStaysGuarded ==
    ASSUME EventGuardsWork,
           UNCHANGED <<live_blocks_, cached_blocks_, queue>>,
           \A u \in Threads : pc[u] = "drop" => pc'[u] = "drop" /\ block'[u] = block[u]
    PROVE  EventGuardsWork'
<1>1. CachedAt' = CachedAt
    BY DEF CachedAt
<1>2. \A a \in Addr : \A u \in OwnedBy[a] : pc[u] = "drop" => u \in OwnedBy'[a]
    BY DEF OwnedBy
<1>3. \A a \in Addr : \A u \in OwnedBy[a] : u \in Threads
    BY DEF OwnedBy
<1> QED
    BY <1>1, <1>2, <1>3 DEF EventGuardsWork

(* No work is pending on a buffer that no container and no dropping call    *)
(* owns.                                                                    *)
LEMMA NoWorkUnowned ==
    ASSUME EventGuardsWork, NEW a \in Addr, live_blocks_[a] = None, CachedAt[a] = {},
           \A u \in OwnedBy[a] : pc[u] # "drop"
    PROVE  \A q \in Queues : \A k \in DOMAIN queue[q] : queue[q][k] # Use(a)
BY DEF EventGuardsWork

(* A step that changes the owner of one buffer, on which no work is         *)
(* pending, leaves the pending work guarded.                                *)
LEMMA UnusedBufferMoves ==
    ASSUME EventGuardsWork, UNCHANGED queue, NEW x,
           \A q \in Queues : \A k \in DOMAIN queue[q] : queue[q][k] # Use(x),
           \A a \in Addr \ {x} :
            /\ live_blocks_'[a] = live_blocks_[a]
            /\ \A i \in CachedAt[a] : \E j \in CachedAt'[a] : cached_blocks_'[j] = cached_blocks_[i]
            /\ \A u \in OwnedBy[a] : pc[u] = "drop" =>
                u \in OwnedBy'[a] /\ pc'[u] = "drop" /\ block'[u] = block[u]
    PROVE  EventGuardsWork'
<1> SUFFICES ASSUME NEW q \in Queues, NEW k \in DOMAIN queue[q], NEW a \in Addr,
                    queue[q][k] = Use(a)
             PROVE  \/ live_blocks_'[a] # None /\ live_blocks_'[a].queue = q
                    \/ /\ \E i \in CachedAt'[a] : cached_blocks_'[i].queue = q
                       /\ \E m \in DOMAIN queue[q] : m > k /\ queue[q][m] = Record(a)
                    \/ \E t \in OwnedBy'[a] : pc'[t] = "drop" /\ block'[t].queue = q
    BY DEF EventGuardsWork
<1>1. a # x
    OBVIOUS
<1>2. \/ live_blocks_[a] # None /\ live_blocks_[a].queue = q
      \/ /\ \E i \in CachedAt[a] : cached_blocks_[i].queue = q
         /\ \E m \in DOMAIN queue[q] : m > k /\ queue[q][m] = Record(a)
      \/ \E t \in OwnedBy[a] : pc[t] = "drop" /\ block[t].queue = q
    BY DEF EventGuardsWork
<1> QED
    BY <1>1, <1>2

(* A fresh descriptor is a descriptor.                                      *)
LEMMA NoBlockYetType == NoBlockYet \in BlockDescriptor
BY BinsAssumption, LimitsAssumption, NoneAssumption DEF NoBlockYet, BlockDescriptor, Bins

(* Returning from a call keeps the types of the thread's state.             *)
LEMMA ReturnType ==
    ASSUME TypeOK, NEW t \in Threads, Return(t)
    PROVE  /\ pc' \in [Threads -> Labels]
           /\ block' \in [Threads -> BlockDescriptor]
           /\ iblock' \in [Threads -> Nat \ {0}]
BY NoBlockYetType DEF TypeOK, Return, Goto, SetBlock, Labels

Accounting == [free : Int, live : Int, requested : Int]

(* The accounting operators return accounting records.                      *)
LEMMA AccountingType ==
    ASSUME NEW c \in Accounting, NEW b \in BlockDescriptor
    PROVE  /\ WithLive(c, b) \in Accounting /\ WithoutLive(c, b) \in Accounting
           /\ Cached(c, b) \in Accounting   /\ Uncached(c, b) \in Accounting
<1>1. b.bytes \in Int /\ b.requested \in Int
    BY DEF BlockDescriptor
<1>2. WithLive(c, b) \in Accounting
    BY <1>1 DEF Accounting, WithLive
<1>3. WithoutLive(c, b) \in Accounting
    BY <1>1 DEF Accounting, WithoutLive
<1>4. Cached(c, b) \in Accounting
    BY <1>1 DEF Accounting, Cached
<1>5. Uncached(c, b) \in Accounting
    BY <1>1 DEF Accounting, Uncached
<1> QED
    BY <1>2, <1>3, <1>4, <1>5

(* The invariant holds when the allocator is constructed.                   *)
LEMMA InitIInv == Init => IInv
<1> SUFFICES ASSUME Init PROVE IInv
    OBVIOUS
<1> USE DEF Init
<1>1. TypeOK
    <2>1. /\ queue \in [Queues -> Seq(Operations)] /\ cached_blocks_ \in Seq(BlockDescriptor)
        OBVIOUS
    <2>2. block \in [Threads -> BlockDescriptor]
        BY NoBlockYetType
    <2>3. pc \in [Threads -> Labels] /\ iblock \in [Threads -> Nat \ {0}]
        BY DEF Labels
    <2>4. cached_bytes_ \in [free : Int, live : Int, requested : Int]
        OBVIOUS
    <2> QED
        BY <2>1, <2>2, <2>3, <2>4 DEF TypeOK
<1>2. MutexHeld
    BY NoneAssumption DEF MutexHeld
<1>3. LocalBlock
    BY DEF LocalBlock, NoBlockYet
<1>4. WellFiled
    BY DEF WellFiled
<1>5. HeldIsLive /\ FreeingIsLive
    BY DEF HeldIsLive, FreeingIsLive
<1>6. ShutDown
    BY DEF ShutDown
<1>7. SoleOwner
    BY DEF SoleOwner, CachedAt, OwnedBy
<1>8. EventGuardsWork
    BY DEF EventGuardsWork
<1> QED
    BY <1>1, <1>2, <1>3, <1>4, <1>5, <1>6, <1>7, <1>8 DEF IInv

-----------------------------------------------------------------------------
(* Inductive steps, action by action.                                       *)

(* Every step keeps the types.                                              *)
LEMMA TypeStep ==
    ASSUME IInv, [Next]_vars
    PROVE  TypeOK'
<1> USE NoBlockYetType DEF IInv, TypeOK, allocator, threads, Goto, SetBlock, Return, Labels
<1>1. ASSUME NEW t \in Threads, Allocate(t) PROVE TypeOK'
    <2>1. PICK bytes \in RequestSizes, q \in Queues, bin \in Bins :
        block' = [block EXCEPT ![t] = Requested(bytes, q, bin)]
        BY <1>1 DEF Allocate
    <2>2. Requested(bytes, q, bin) \in BlockDescriptor
        BY BinsAssumption, LimitsAssumption DEF Requested, BlockDescriptor
    <2> QED
        BY <1>1, <2>1, <2>2 DEF Allocate
<1>2. ASSUME NEW t \in Threads, AllocateTooLarge(t) PROVE TypeOK'
    BY <1>2 DEF AllocateTooLarge
<1>3. ASSUME NEW t \in Threads, Free(t) PROVE TypeOK'
    <2>1. PICK ptr \in {a \in Addr : held[a] # None} \cup {None} :
        /\ block' = [block EXCEPT ![t] = [NoBlockYet EXCEPT !.buffer = ptr]]
        /\ held' = [a \in Addr |-> IF a = ptr THEN None ELSE held[a]]
        BY <1>3 DEF Free
    <2>2. [NoBlockYet EXCEPT !.buffer = ptr] \in BlockDescriptor
        BY DEF BlockDescriptor
    <2>3. held' \in [Addr -> [bytes : Nat, queue : Queues] \cup {None}]
        BY <2>1
    <2> QED
        BY <1>3, <2>1, <2>2, <2>3 DEF Free
<1>4. ASSUME NEW t \in Threads, Destroy(t) PROVE TypeOK'
    BY <1>4 DEF Destroy
<1>5. ASSUME NEW t \in Threads, BeginScan(t) PROVE TypeOK'
    BY <1>5 DEF BeginScan
<1>6. ASSUME NEW t \in Threads, SkipCached(t) PROVE TypeOK'
    <2>1. iblock' \in [Threads -> Nat \ {0}]
        BY <1>6 DEF SkipCached
    <2> QED
        BY <1>6, <2>1 DEF SkipCached
<1>7. ASSUME NEW t \in Threads, ReuseCached(t) PROVE TypeOK'
    <2> DEFINE b == Reused(t)
    <2>1. iblock[t] \in 1 .. Len(cached_blocks_) /\ Scanned(t) \in BlockDescriptor
        BY <1>7 DEF ReuseCached, Scanned
    <2>2. b \in BlockDescriptor /\ block[t].requested \in Nat /\ b.queue \in Queues
        BY <2>1, LimitsAssumption DEF Reused, BlockDescriptor
    <2>3. live_blocks_' \in [Addr -> BlockDescriptor \cup {None}]
        BY <1>7, <2>2 DEF ReuseCached, InsertLiveBlock
    <2>4. cached_bytes_' \in Accounting
        BY <1>7, <2>2, AccountingType DEF ReuseCached, Accounting
    <2>5. held' \in [Addr -> [bytes : Nat, queue : Queues] \cup {None}]
        BY <1>7, <2>2 DEF ReuseCached
    <2>6. cached_blocks_' \in Seq(BlockDescriptor)
        BY <1>7, <2>1, RemoveAtProperties DEF ReuseCached, Erased
    <2> QED
        BY <1>7, <2>3, <2>4, <2>5, <2>6 DEF ReuseCached, Accounting
<1>8. ASSUME NEW t \in Threads, ReuseThrows(t) PROVE TypeOK'
    BY <1>8 DEF ReuseThrows
<1>9. ASSUME NEW t \in Threads, NothingToReuse(t) PROVE TypeOK'
    BY <1>9 DEF NothingToReuse
<1>10. ASSUME NEW t \in Threads, AllocateBuffer(t) PROVE TypeOK'
    <2>1. PICK a \in Addr :
        /\ memory' = [memory EXCEPT ![a] = block[t].bytes]
        /\ block' = [block EXCEPT ![t] = [block[t] EXCEPT !.buffer = a]]
        BY <1>10 DEF AllocateBuffer
    <2>2. [block[t] EXCEPT !.buffer = a] \in BlockDescriptor /\ block[t].bytes \in Nat
        BY DEF BlockDescriptor
    <2> QED
        BY <1>10, <2>1, <2>2 DEF AllocateBuffer
<1>11. ASSUME NEW t \in Threads, OutOfMemory(t) PROVE TypeOK'
    BY <1>11 DEF OutOfMemory
<1>12. ASSUME NEW t \in Threads, InsertLive(t) PROVE TypeOK'
    <2> DEFINE b == [block[t] EXCEPT !.event = QueueDevice[block[t].queue]]
    <2>1. b \in BlockDescriptor /\ b.requested \in Nat /\ b.bytes \in Nat /\ b.queue \in Queues
        BY LimitsAssumption DEF BlockDescriptor
    <2>2. live_blocks_' \in [Addr -> BlockDescriptor \cup {None}]
        BY <1>12, <2>1 DEF InsertLive, InsertLiveBlock
    <2>3. cached_bytes_' \in Accounting
        BY <1>12, <2>1, AccountingType DEF InsertLive, Accounting
    <2>4. held' \in [Addr -> [bytes : Nat, queue : Queues] \cup {None}]
        BY <1>12, <2>1 DEF InsertLive
    <2> QED
        BY <1>12, <2>2, <2>3, <2>4 DEF InsertLive, Accounting
<1>13. ASSUME NEW t \in Threads, CreateEventThrows(t) PROVE TypeOK'
    BY <1>13 DEF CreateEventThrows
<1>14. ASSUME NEW t \in Threads, Unwind(t) PROVE TypeOK'
    <2> DEFINE x == block[t].buffer
    <2>2. memory' = memory \/ memory' = [memory EXCEPT ![x] = 0]
        BY <1>14 DEF Unwind
    <2>3. memory \in [Addr -> Nat]
        OBVIOUS
    <2> HIDE DEF IInv, TypeOK, x
    <2>1. memory' \in [Addr -> Nat]
        BY <2>2, <2>3
    <2> USE DEF IInv, TypeOK
    <2> QED
        BY <1>14, <2>1 DEF Unwind
<1>15. ASSUME NEW t \in Threads, BeginFlush(t) PROVE TypeOK'
    BY <1>15 DEF BeginFlush
<1>16. ASSUME NEW t \in Threads, FlushOne(t) PROVE TypeOK'
    <2>1. PICK i \in DOMAIN cached_blocks_ :
        /\ cached_bytes_' = Uncached(cached_bytes_, cached_blocks_[i])
        /\ memory' = [memory EXCEPT ![cached_blocks_[i].buffer] = 0]
        /\ cached_blocks_' = Erased(i)
        BY <1>16 DEF FlushOne
    <2>2. cached_blocks_[i] \in BlockDescriptor
        OBVIOUS
    <2>3. cached_bytes_' \in Accounting
        BY <2>1, <2>2, AccountingType DEF Accounting
    <2>4. cached_blocks_' \in Seq(BlockDescriptor)
        BY <2>1, RemoveAtProperties DEF Erased
    <2> QED
        BY <1>16, <2>1, <2>3, <2>4 DEF FlushOne, Accounting
<1>17. ASSUME NEW t \in Threads, EndFlush(t) PROVE TypeOK'
    <2>1. CASE destroyed
        <3>1. Return(t)
            BY <1>17, <2>1 DEF EndFlush
        <3>2. /\ pc' \in [Threads -> Labels] /\ block' \in [Threads -> BlockDescriptor]
              /\ iblock' \in [Threads -> Nat \ {0}]
            BY <3>1, ReturnType
        <3> QED
            BY <1>17, <3>2 DEF EndFlush
    <2>2. CASE ~destroyed
        BY <1>17, <2>2 DEF EndFlush
    <2> QED
        BY <2>1, <2>2
<1>18. ASSUME NEW t \in Threads, FreeNotLive(t) PROVE TypeOK'
    BY <1>18 DEF FreeNotLive
<1>19. ASSUME NEW t \in Threads, Recache(t) PROVE TypeOK'
    <2> DEFINE b == Freed(t)
    <2>1. b \in BlockDescriptor /\ b.buffer \in Addr /\ b.queue \in Queues
        BY <1>19 DEF Recache, Freed, IsLive, WellFiled, BlockDescriptor
    <2>2. cached_bytes_' \in Accounting
        BY <1>19, <2>1, AccountingType DEF Recache, Accounting
    <2>3. queue' \in [Queues -> Seq(Operations)]
        <3>1. queue[b.queue] \in Seq(Operations) /\ Record(b.buffer) \in Operations
            BY <2>1 DEF Operations
        <3>2. Append(queue[b.queue], Record(b.buffer)) \in Seq(Operations)
            BY <3>1
        <3> QED
            BY <1>19, <2>1, <3>2 DEF Recache, Enqueued
    <2>4. live_blocks_' \in [Addr -> BlockDescriptor \cup {None}]
        BY <1>19, <2>1 DEF Recache, EraseLiveBlock
    <2>5. cached_blocks_' \in Seq(BlockDescriptor)
        BY <1>19, <2>1 DEF Recache
    <2> QED
        BY <1>19, <2>2, <2>3, <2>4, <2>5 DEF Recache, Accounting
<1>20. ASSUME NEW t \in Threads, Drop(t) PROVE TypeOK'
    <2> DEFINE b == Freed(t)
    <2>1. b \in BlockDescriptor
        BY <1>20 DEF Drop, Freed, IsLive
    <2>2. cached_bytes_' \in Accounting
        BY <1>20, <2>1, AccountingType DEF Drop, Accounting
    <2>3. live_blocks_' \in [Addr -> BlockDescriptor \cup {None}]
        BY <1>20, <2>1 DEF Drop, EraseLiveBlock
    <2> QED
        BY <1>20, <2>1, <2>2, <2>3 DEF Drop, Accounting
<1>21. ASSUME NEW t \in Threads, ReleaseDropped(t) PROVE TypeOK'
    <2>1. memory' \in [Addr -> Nat] /\ block' \in [Threads -> BlockDescriptor]
        BY <1>21 DEF ReleaseDropped
    <2> QED
        BY <1>21, <2>1 DEF ReleaseDropped
<1>22. ASSUME NEW a \in Addr, Submit(a) PROVE TypeOK'
    <2>1. held[a].queue \in Queues /\ Use(a) \in Operations
        BY <1>22 DEF Submit, Operations
    <2>2. queue' \in [Queues -> Seq(Operations)]
        BY <1>22, <2>1 DEF Submit
    <2> QED
        BY <1>22, <2>2 DEF Submit
<1>23. ASSUME NEW q \in Queues, Execute(q) PROVE TypeOK'
    <2>1. Tail(queue[q]) \in Seq(Operations)
        BY <1>23 DEF Execute
    <2>2. queue' \in [Queues -> Seq(Operations)]
        BY <1>23, <2>1 DEF Execute
    <2> QED
        BY <1>23, <2>2 DEF Execute
<1>24. ASSUME UNCHANGED vars PROVE TypeOK'
    BY <1>24 DEF vars
<1> QED
    BY <1>1, <1>2, <1>3, <1>4, <1>5, <1>6, <1>7, <1>8, <1>9, <1>10, <1>11, <1>12, <1>13, <1>14, <1>15, <1>16, <1>17, <1>18, <1>19, <1>20, <1>21, <1>22, <1>23, <1>24 DEF Next, Step, Exit

(* Every step keeps the mutex with the call in its critical section.        *)
LEMMA MutexStep ==
    ASSUME IInv, [Next]_vars
    PROVE  MutexHeld'
<1> USE NoneAssumption DEF IInv, TypeOK, MutexHeld, allocator, threads, Goto, SetBlock, Return
<1>1. ASSUME NEW t \in Threads, Allocate(t) PROVE MutexHeld'
    BY <1>1 DEF Allocate
<1>2. ASSUME NEW t \in Threads, AllocateTooLarge(t) PROVE MutexHeld'
    BY <1>2 DEF AllocateTooLarge
<1>3. ASSUME NEW t \in Threads, Free(t) PROVE MutexHeld'
    BY <1>3 DEF Free
<1>4. ASSUME NEW t \in Threads, Destroy(t) PROVE MutexHeld'
    BY <1>4 DEF Destroy
<1>5. ASSUME NEW t \in Threads, BeginScan(t) PROVE MutexHeld'
    BY <1>5 DEF BeginScan
<1>6. ASSUME NEW t \in Threads, SkipCached(t) PROVE MutexHeld'
    BY <1>6 DEF SkipCached
<1>7. ASSUME NEW t \in Threads, ReuseCached(t) PROVE MutexHeld'
    BY <1>7 DEF ReuseCached
<1>8. ASSUME NEW t \in Threads, ReuseThrows(t) PROVE MutexHeld'
    BY <1>8 DEF ReuseThrows
<1>9. ASSUME NEW t \in Threads, NothingToReuse(t) PROVE MutexHeld'
    BY <1>9 DEF NothingToReuse
<1>10. ASSUME NEW t \in Threads, AllocateBuffer(t) PROVE MutexHeld'
    BY <1>10 DEF AllocateBuffer
<1>11. ASSUME NEW t \in Threads, OutOfMemory(t) PROVE MutexHeld'
    BY <1>11 DEF OutOfMemory
<1>12. ASSUME NEW t \in Threads, InsertLive(t) PROVE MutexHeld'
    BY <1>12 DEF InsertLive
<1>13. ASSUME NEW t \in Threads, CreateEventThrows(t) PROVE MutexHeld'
    BY <1>13 DEF CreateEventThrows
<1>14. ASSUME NEW t \in Threads, Unwind(t) PROVE MutexHeld'
    BY <1>14 DEF Unwind
<1>15. ASSUME NEW t \in Threads, BeginFlush(t) PROVE MutexHeld'
    BY <1>15 DEF BeginFlush
<1>16. ASSUME NEW t \in Threads, FlushOne(t) PROVE MutexHeld'
    BY <1>16 DEF FlushOne
<1>17. ASSUME NEW t \in Threads, EndFlush(t) PROVE MutexHeld'
    BY <1>17 DEF EndFlush
<1>18. ASSUME NEW t \in Threads, FreeNotLive(t) PROVE MutexHeld'
    BY <1>18 DEF FreeNotLive
<1>19. ASSUME NEW t \in Threads, Recache(t) PROVE MutexHeld'
    BY <1>19 DEF Recache
<1>20. ASSUME NEW t \in Threads, Drop(t) PROVE MutexHeld'
    BY <1>20 DEF Drop
<1>21. ASSUME NEW t \in Threads, ReleaseDropped(t) PROVE MutexHeld'
    BY <1>21 DEF ReleaseDropped
<1>22. ASSUME NEW a \in Addr, Submit(a) PROVE MutexHeld'
    BY <1>22 DEF Submit
<1>23. ASSUME NEW q \in Queues, Execute(q) PROVE MutexHeld'
    BY <1>23 DEF Execute
<1>24. ASSUME UNCHANGED vars PROVE MutexHeld'
    BY <1>24 DEF vars
<1> QED
    BY <1>1, <1>2, <1>3, <1>4, <1>5, <1>6, <1>7, <1>8, <1>9, <1>10, <1>11, <1>12, <1>13, <1>14, <1>15, <1>16, <1>17, <1>18, <1>19, <1>20, <1>21, <1>22, <1>23, <1>24 DEF Next, Step, Exit

(* Every step keeps the local descriptors as they should be.                *)
LEMMA LocalBlockStep ==
    ASSUME IInv, TypeOK', [Next]_vars
    PROVE  LocalBlock'
<1> USE NoneAssumption, NoBlockYetType DEF IInv, TypeOK, LocalBlock, allocator, threads, Goto, SetBlock, Return
<1>1. ASSUME NEW t \in Threads, Allocate(t) PROVE LocalBlock'
    <2> HIDE DEF LocalBlock, IInv, TypeOK
    <2>1. PICK bytes \in RequestSizes, q \in Queues, bin \in Bins :
        /\ IsBinFor(bin, bytes)
        /\ block' = [block EXCEPT ![t] = Requested(bytes, q, bin)]
        BY <1>1 DEF Allocate
    <2>2. bytes <= BinBytes[bin]
        BY <2>1 DEF IsBinFor
    <2> USE DEF LocalBlock, IInv, TypeOK
    <2> QED
        BY <1>1, <2>1, <2>2 DEF Allocate, Requested
<1>2. ASSUME NEW t \in Threads, AllocateTooLarge(t) PROVE LocalBlock'
    BY <1>2 DEF AllocateTooLarge, ShutDown, NoBlockYet
<1>3. ASSUME NEW t \in Threads, Free(t) PROVE LocalBlock'
    BY <1>3 DEF Free, ShutDown, NoBlockYet
<1>4. ASSUME NEW t \in Threads, Destroy(t) PROVE LocalBlock'
    BY <1>4 DEF Destroy, ShutDown, NoBlockYet
<1>5. ASSUME NEW t \in Threads, BeginScan(t) PROVE LocalBlock'
    BY <1>5 DEF BeginScan, ShutDown, NoBlockYet
<1>6. ASSUME NEW t \in Threads, SkipCached(t) PROVE LocalBlock'
    BY <1>6 DEF SkipCached, ShutDown, NoBlockYet
<1>7. ASSUME NEW t \in Threads, ReuseCached(t) PROVE LocalBlock'
    BY <1>7 DEF ReuseCached, ShutDown, NoBlockYet
<1>8. ASSUME NEW t \in Threads, ReuseThrows(t) PROVE LocalBlock'
    BY <1>8 DEF ReuseThrows, ShutDown, NoBlockYet
<1>9. ASSUME NEW t \in Threads, NothingToReuse(t) PROVE LocalBlock'
    BY <1>9 DEF NothingToReuse, ShutDown, NoBlockYet
<1>10. ASSUME NEW t \in Threads, AllocateBuffer(t) PROVE LocalBlock'
    BY <1>10 DEF AllocateBuffer, ShutDown, NoBlockYet
<1>11. ASSUME NEW t \in Threads, OutOfMemory(t) PROVE LocalBlock'
    BY <1>11 DEF OutOfMemory, ShutDown, NoBlockYet
<1>12. ASSUME NEW t \in Threads, InsertLive(t) PROVE LocalBlock'
    BY <1>12 DEF InsertLive, ShutDown, NoBlockYet
<1>13. ASSUME NEW t \in Threads, CreateEventThrows(t) PROVE LocalBlock'
    BY <1>13 DEF CreateEventThrows, ShutDown, NoBlockYet
<1>14. ASSUME NEW t \in Threads, Unwind(t) PROVE LocalBlock'
    BY <1>14 DEF Unwind, ShutDown, NoBlockYet
<1>15. ASSUME NEW t \in Threads, BeginFlush(t) PROVE LocalBlock'
    BY <1>15 DEF BeginFlush, ShutDown, NoBlockYet
<1>16. ASSUME NEW t \in Threads, FlushOne(t) PROVE LocalBlock'
    BY <1>16 DEF FlushOne, ShutDown, NoBlockYet
<1>17. ASSUME NEW t \in Threads, EndFlush(t) PROVE LocalBlock'
    BY <1>17 DEF EndFlush, ShutDown, NoBlockYet
<1>18. ASSUME NEW t \in Threads, FreeNotLive(t) PROVE LocalBlock'
    BY <1>18 DEF FreeNotLive, ShutDown, NoBlockYet
<1>19. ASSUME NEW t \in Threads, Recache(t) PROVE LocalBlock'
    BY <1>19 DEF Recache, ShutDown, NoBlockYet
<1>20. ASSUME NEW t \in Threads, Drop(t) PROVE LocalBlock'
    <2>1. Freed(t).buffer # None
        BY <1>20 DEF Drop, Freed, IsLive, WellFiled
    <2> QED
        BY <1>20, <2>1 DEF Drop
<1>21. ASSUME NEW t \in Threads, ReleaseDropped(t) PROVE LocalBlock'
    BY <1>21 DEF ReleaseDropped, ShutDown, NoBlockYet
<1>22. ASSUME NEW a \in Addr, Submit(a) PROVE LocalBlock'
    BY <1>22 DEF Submit, ShutDown, NoBlockYet
<1>23. ASSUME NEW q \in Queues, Execute(q) PROVE LocalBlock'
    BY <1>23 DEF Execute, ShutDown, NoBlockYet
<1>24. ASSUME UNCHANGED vars PROVE LocalBlock'
    BY <1>24 DEF vars
<1> QED
    BY <1>1, <1>2, <1>3, <1>4, <1>5, <1>6, <1>7, <1>8, <1>9, <1>10, <1>11, <1>12, <1>13, <1>14, <1>15, <1>16, <1>17, <1>18, <1>19, <1>20, <1>21, <1>22, <1>23, <1>24 DEF Next, Step, Exit

(* Every step keeps the blocks filed under their buffers and bins.          *)
LEMMA WellFiledStep ==
    ASSUME IInv, TypeOK', [Next]_vars
    PROVE  WellFiled'
<1> USE NoneAssumption DEF IInv, TypeOK, WellFiled, allocator, threads
<1>1. ASSUME NEW t \in Threads, Allocate(t) PROVE WellFiled'
    BY <1>1 DEF Allocate
<1>2. ASSUME NEW t \in Threads, AllocateTooLarge(t) PROVE WellFiled'
    BY <1>2 DEF AllocateTooLarge
<1>3. ASSUME NEW t \in Threads, Free(t) PROVE WellFiled'
    BY <1>3 DEF Free
<1>4. ASSUME NEW t \in Threads, Destroy(t) PROVE WellFiled'
    BY <1>4 DEF Destroy
<1>5. ASSUME NEW t \in Threads, BeginScan(t) PROVE WellFiled'
    BY <1>5 DEF BeginScan
<1>6. ASSUME NEW t \in Threads, SkipCached(t) PROVE WellFiled'
    BY <1>6 DEF SkipCached
<1>7. ASSUME NEW t \in Threads, ReuseCached(t) PROVE WellFiled'
    <2> DEFINE b == Reused(t)
    <2>1. iblock[t] \in DOMAIN cached_blocks_
        BY <1>7 DEF ReuseCached
    <2>2. /\ b.buffer \in Addr /\ b.bytes = BinBytes[b.bin]
          /\ b.event = QueueDevice[b.queue] /\ b.queue = block[t].queue
        BY <2>1 DEF Reused, Scanned, BlockDescriptor
    <2>3. live_blocks_' = [live_blocks_ EXCEPT ![b.buffer] = b]
        BY <1>7 DEF ReuseCached, InsertLiveBlock
    <2>4. \A j \in DOMAIN cached_blocks_' :
            \E k \in DOMAIN cached_blocks_ : cached_blocks_'[j] = cached_blocks_[k]
        BY <1>7, <2>1, ErasedBlocks DEF ReuseCached
    <2>5. ASSUME NEW a \in Addr, live_blocks_'[a] # None
          PROVE  /\ live_blocks_'[a].buffer = a
                 /\ live_blocks_'[a].bytes = BinBytes[live_blocks_'[a].bin]
                 /\ live_blocks_'[a].event = QueueDevice[live_blocks_'[a].queue]
        <3>1. CASE a = b.buffer
            <4>1. live_blocks_'[a] = b
                BY <2>2, <2>3, <3>1
            <4> HIDE DEF b
            <4> QED
                BY <2>2, <3>1, <4>1
        <3>2. CASE a # b.buffer
            <4>1. live_blocks_'[a] = live_blocks_[a]
                BY <2>3, <3>2
            <4> HIDE DEF b
            <4> QED
                BY <2>5, <4>1
        <3> QED
            BY <3>1, <3>2
    <2>6. ASSUME NEW j \in DOMAIN cached_blocks_'
          PROVE  /\ cached_blocks_'[j].buffer \in Addr
                 /\ cached_blocks_'[j].bytes = BinBytes[cached_blocks_'[j].bin]
        BY <2>4, <2>6
    <2> QED
        BY <2>5, <2>6
<1>8. ASSUME NEW t \in Threads, ReuseThrows(t) PROVE WellFiled'
    BY <1>8 DEF ReuseThrows
<1>9. ASSUME NEW t \in Threads, NothingToReuse(t) PROVE WellFiled'
    BY <1>9 DEF NothingToReuse
<1>10. ASSUME NEW t \in Threads, AllocateBuffer(t) PROVE WellFiled'
    BY <1>10 DEF AllocateBuffer
<1>11. ASSUME NEW t \in Threads, OutOfMemory(t) PROVE WellFiled'
    BY <1>11 DEF OutOfMemory
<1>12. ASSUME NEW t \in Threads, InsertLive(t) PROVE WellFiled'
    <2> DEFINE b == [block[t] EXCEPT !.event = QueueDevice[block[t].queue]]
    <2>1. /\ b.buffer \in Addr /\ b.bytes = BinBytes[b.bin]
          /\ b.event = QueueDevice[b.queue]
        BY <1>12 DEF InsertLive, LocalBlock, BlockDescriptor
    <2>2. live_blocks_' = [live_blocks_ EXCEPT ![b.buffer] = b]
        BY <1>12 DEF InsertLive, InsertLiveBlock
    <2> QED
        BY <1>12, <2>1, <2>2 DEF InsertLive
<1>13. ASSUME NEW t \in Threads, CreateEventThrows(t) PROVE WellFiled'
    BY <1>13 DEF CreateEventThrows
<1>14. ASSUME NEW t \in Threads, Unwind(t) PROVE WellFiled'
    BY <1>14 DEF Unwind
<1>15. ASSUME NEW t \in Threads, BeginFlush(t) PROVE WellFiled'
    BY <1>15 DEF BeginFlush
<1>16. ASSUME NEW t \in Threads, FlushOne(t) PROVE WellFiled'
    <2>1. PICK i \in DOMAIN cached_blocks_ : cached_blocks_' = Erased(i)
        BY <1>16 DEF FlushOne
    <2>2. \A j \in DOMAIN cached_blocks_' :
            \E k \in DOMAIN cached_blocks_ : cached_blocks_'[j] = cached_blocks_[k]
        BY <2>1, ErasedBlocks
    <2> QED
        BY <1>16, <2>2 DEF FlushOne
<1>17. ASSUME NEW t \in Threads, EndFlush(t) PROVE WellFiled'
    BY <1>17 DEF EndFlush
<1>18. ASSUME NEW t \in Threads, FreeNotLive(t) PROVE WellFiled'
    BY <1>18 DEF FreeNotLive
<1>19. ASSUME NEW t \in Threads, Recache(t) PROVE WellFiled'
    <2> DEFINE b == Freed(t)
    <2>1. /\ b.buffer = block[t].buffer /\ b.buffer \in Addr /\ b \in BlockDescriptor
          /\ b.bytes = BinBytes[b.bin]
        BY <1>19 DEF Recache, Freed, IsLive
    <2>2. live_blocks_' = [live_blocks_ EXCEPT ![b.buffer] = None]
        BY <1>19 DEF Recache, EraseLiveBlock
    <2>3. cached_blocks_' = Append(cached_blocks_, b)
        BY <1>19 DEF Recache
    <2>4. \A j \in DOMAIN cached_blocks_' :
            cached_blocks_'[j] = b \/ \E k \in DOMAIN cached_blocks_ : cached_blocks_'[j] = cached_blocks_[k]
        BY <2>1, <2>3, AppendedBlocks
    <2>5. \A a \in Addr : live_blocks_'[a] # None => live_blocks_'[a] = live_blocks_[a]
        BY <2>2
    <2>6. \A j \in DOMAIN cached_blocks_' :
            /\ cached_blocks_'[j].buffer \in Addr
            /\ cached_blocks_'[j].bytes = BinBytes[cached_blocks_'[j].bin]
        BY <2>1, <2>4
    <2> QED
        BY <2>5, <2>6
<1>20. ASSUME NEW t \in Threads, Drop(t) PROVE WellFiled'
    <2>1. live_blocks_' = [live_blocks_ EXCEPT ![Freed(t).buffer] = None]
        BY <1>20 DEF Drop, EraseLiveBlock
    <2> QED
        BY <1>20, <2>1 DEF Drop
<1>21. ASSUME NEW t \in Threads, ReleaseDropped(t) PROVE WellFiled'
    BY <1>21 DEF ReleaseDropped
<1>22. ASSUME NEW a \in Addr, Submit(a) PROVE WellFiled'
    BY <1>22 DEF Submit
<1>23. ASSUME NEW q \in Queues, Execute(q) PROVE WellFiled'
    BY <1>23 DEF Execute
<1>24. ASSUME UNCHANGED vars PROVE WellFiled'
    BY <1>24 DEF vars
<1> QED
    BY <1>1, <1>2, <1>3, <1>4, <1>5, <1>6, <1>7, <1>8, <1>9, <1>10, <1>11, <1>12, <1>13, <1>14, <1>15, <1>16, <1>17, <1>18, <1>19, <1>20, <1>21, <1>22, <1>23, <1>24 DEF Next, Step, Exit

(* Every step keeps the clients' buffers live.                              *)
LEMMA HeldIsLiveStep ==
    ASSUME IInv, TypeOK', [Next]_vars
    PROVE  HeldIsLive'
<1> USE NoneAssumption, NoBlockYetType DEF IInv, TypeOK, HeldIsLive, allocator, threads, Goto, SetBlock, Return
<1>1. ASSUME NEW t \in Threads, Allocate(t) PROVE HeldIsLive'
    BY <1>1 DEF Allocate
<1>2. ASSUME NEW t \in Threads, AllocateTooLarge(t) PROVE HeldIsLive'
    BY <1>2 DEF AllocateTooLarge
<1>3. ASSUME NEW t \in Threads, Free(t) PROVE HeldIsLive'
    BY <1>3 DEF Free
<1>4. ASSUME NEW t \in Threads, Destroy(t) PROVE HeldIsLive'
    BY <1>4 DEF Destroy
<1>5. ASSUME NEW t \in Threads, BeginScan(t) PROVE HeldIsLive'
    BY <1>5 DEF BeginScan
<1>6. ASSUME NEW t \in Threads, SkipCached(t) PROVE HeldIsLive'
    BY <1>6 DEF SkipCached
<1>7. ASSUME NEW t \in Threads, ReuseCached(t) PROVE HeldIsLive'
    <2> DEFINE b == Reused(t)
    <2>1. iblock[t] \in DOMAIN cached_blocks_
        BY <1>7 DEF ReuseCached
    <2>2. cached_blocks_[iblock[t]] \in BlockDescriptor
        BY <2>1
    <2>3. /\ b.buffer = cached_blocks_[iblock[t]].buffer /\ b.queue = block[t].queue
          /\ b.bytes = cached_blocks_[iblock[t]].bytes
        BY <2>2 DEF Reused, Scanned, BlockDescriptor
    <2>4. b.buffer \in Addr /\ b.bytes = BinBytes[block[t].bin]
        BY <1>7, <2>1, <2>3 DEF ReuseCached, Reusable, Scanned, WellFiled
    <2>5. block[t].requested <= b.bytes
        BY <1>7, <2>4 DEF ReuseCached, LocalBlock
    <2>6. live_blocks_[b.buffer] = None
        BY <2>1, <2>3, <2>4 DEF SoleOwner, CachedAt
    <2>7. b \in BlockDescriptor
        BY <2>2, LimitsAssumption DEF Reused, Scanned, BlockDescriptor
    <2>8. b # None
        BY <2>7
    <2>9. /\ live_blocks_' = [live_blocks_ EXCEPT ![b.buffer] = b]
          /\ held' = [held EXCEPT ![b.buffer] = [bytes |-> block[t].requested, queue |-> b.queue]]
          /\ pc' = [pc EXCEPT ![t] = "idle"]
          /\ block' = [block EXCEPT ![t] = NoBlockYet]
        BY <1>7 DEF ReuseCached, InsertLiveBlock
    <2>10. block[t].requested \in Nat /\ b.bytes \in Nat
        BY <2>7 DEF BlockDescriptor
    <2> HIDE DEF b
    <2> QED
        BY <2>4, <2>5, <2>8, <2>9, <2>10
<1>8. ASSUME NEW t \in Threads, ReuseThrows(t) PROVE HeldIsLive'
    BY <1>8 DEF ReuseThrows
<1>9. ASSUME NEW t \in Threads, NothingToReuse(t) PROVE HeldIsLive'
    BY <1>9 DEF NothingToReuse
<1>10. ASSUME NEW t \in Threads, AllocateBuffer(t) PROVE HeldIsLive'
    BY <1>10 DEF AllocateBuffer
<1>11. ASSUME NEW t \in Threads, OutOfMemory(t) PROVE HeldIsLive'
    BY <1>11 DEF OutOfMemory
<1>12. ASSUME NEW t \in Threads, InsertLive(t) PROVE HeldIsLive'
    <2> DEFINE b == [block[t] EXCEPT !.event = QueueDevice[block[t].queue]]
    <2>1. block[t] \in BlockDescriptor
        OBVIOUS
    <2>2. b \in BlockDescriptor
        BY <2>1, LimitsAssumption DEF BlockDescriptor
    <2>3. /\ b.buffer = block[t].buffer /\ b.queue = block[t].queue
          /\ b.requested = block[t].requested /\ b.bytes = block[t].bytes
          /\ b.requested \in Nat /\ b.bytes \in Nat
        BY <2>1 DEF BlockDescriptor
    <2>4. b.buffer \in Addr
        BY <1>12, <2>1, <2>3 DEF InsertLive, LocalBlock, BlockDescriptor
    <2>5. b.requested <= b.bytes
        BY <1>12, <2>3 DEF InsertLive, LocalBlock
    <2>6. live_blocks_[b.buffer] = None
        BY <1>12, <2>3, <2>4 DEF InsertLive, SoleOwner, OwnedBy
    <2>8. b # None
        BY <2>2
    <2>9. /\ live_blocks_' = [live_blocks_ EXCEPT ![b.buffer] = b]
          /\ held' = [held EXCEPT ![b.buffer] = [bytes |-> b.requested, queue |-> b.queue]]
          /\ pc' = [pc EXCEPT ![t] = "idle"]
          /\ block' = [block EXCEPT ![t] = NoBlockYet]
        BY <1>12 DEF InsertLive, InsertLiveBlock
    <2> HIDE DEF b
    <2> QED
        BY <2>3, <2>4, <2>5, <2>8, <2>9
<1>13. ASSUME NEW t \in Threads, CreateEventThrows(t) PROVE HeldIsLive'
    BY <1>13 DEF CreateEventThrows
<1>14. ASSUME NEW t \in Threads, Unwind(t) PROVE HeldIsLive'
    BY <1>14 DEF Unwind
<1>15. ASSUME NEW t \in Threads, BeginFlush(t) PROVE HeldIsLive'
    BY <1>15 DEF BeginFlush
<1>16. ASSUME NEW t \in Threads, FlushOne(t) PROVE HeldIsLive'
    BY <1>16 DEF FlushOne
<1>17. ASSUME NEW t \in Threads, EndFlush(t) PROVE HeldIsLive'
    BY <1>17 DEF EndFlush
<1>18. ASSUME NEW t \in Threads, FreeNotLive(t) PROVE HeldIsLive'
    BY <1>18 DEF FreeNotLive
<1>19. ASSUME NEW t \in Threads, Recache(t) PROVE HeldIsLive'
    <2>1. block[t].buffer \in Addr /\ Freed(t).buffer = block[t].buffer
        BY <1>19 DEF Recache, Freed, IsLive, WellFiled
    <2>2. /\ live_blocks_' = [live_blocks_ EXCEPT ![block[t].buffer] = None]
          /\ held' = held
        BY <1>19, <2>1 DEF Recache, EraseLiveBlock
    <2>3. held[block[t].buffer] = None
        BY <1>19, <2>1 DEF Recache, FreeingIsLive
    <2> QED
        BY <2>1, <2>2, <2>3
<1>20. ASSUME NEW t \in Threads, Drop(t) PROVE HeldIsLive'
    <2>1. block[t].buffer \in Addr /\ Freed(t).buffer = block[t].buffer
        BY <1>20 DEF Drop, Freed, IsLive, WellFiled
    <2>2. /\ live_blocks_' = [live_blocks_ EXCEPT ![block[t].buffer] = None]
          /\ held' = held
        BY <1>20, <2>1 DEF Drop, EraseLiveBlock
    <2>3. held[block[t].buffer] = None
        BY <1>20, <2>1 DEF Drop, FreeingIsLive
    <2> QED
        BY <2>1, <2>2, <2>3
<1>21. ASSUME NEW t \in Threads, ReleaseDropped(t) PROVE HeldIsLive'
    BY <1>21 DEF ReleaseDropped
<1>22. ASSUME NEW a \in Addr, Submit(a) PROVE HeldIsLive'
    BY <1>22 DEF Submit
<1>23. ASSUME NEW q \in Queues, Execute(q) PROVE HeldIsLive'
    BY <1>23 DEF Execute
<1>24. ASSUME UNCHANGED vars PROVE HeldIsLive'
    BY <1>24 DEF vars
<1> QED
    BY <1>1, <1>2, <1>3, <1>4, <1>5, <1>6, <1>7, <1>8, <1>9, <1>10, <1>11, <1>12, <1>13, <1>14, <1>15, <1>16, <1>17, <1>18, <1>19, <1>20, <1>21, <1>22, <1>23, <1>24 DEF Next, Step, Exit

(* Every step keeps the buffers on their way through free live.             *)
LEMMA FreeingIsLiveStep ==
    ASSUME IInv, TypeOK', [Next]_vars
    PROVE  FreeingIsLive'
<1> USE NoneAssumption, NoBlockYetType DEF IInv, TypeOK, FreeingIsLive, allocator, threads, Goto, SetBlock, Return
<1>1. ASSUME NEW t \in Threads, Allocate(t) PROVE FreeingIsLive'
    BY <1>1 DEF Allocate
<1>2. ASSUME NEW t \in Threads, AllocateTooLarge(t) PROVE FreeingIsLive'
    BY <1>2 DEF AllocateTooLarge
<1>3. ASSUME NEW t \in Threads, Free(t) PROVE FreeingIsLive'
    <2>1. PICK ptr \in {a \in Addr : held[a] # None} \cup {None} :
            /\ block' = [block EXCEPT ![t] = [NoBlockYet EXCEPT !.buffer = ptr]]
            /\ held' = [a \in Addr |-> IF a = ptr THEN None ELSE held[a]]
        BY <1>3 DEF Free
    <2>2. [NoBlockYet EXCEPT !.buffer = ptr].buffer = ptr
        BY DEF NoBlockYet
    <2>3. pc' = [pc EXCEPT ![t] = "free"] /\ pc[t] = "idle" /\ live_blocks_' = live_blocks_
        BY <1>3 DEF Free
    <2>4. /\ block'[t].buffer = ptr
          /\ \A u \in Threads \ {t} : pc'[u] = pc[u] /\ block'[u] = block[u]
        BY <2>1, <2>2, <2>3
    <2>5. ptr # None => live_blocks_[ptr] # None /\ held'[ptr] = None
        BY <2>1 DEF HeldIsLive
    <2>6. \A u \in Threads : pc[u] = "free" /\ block[u].buffer # None =>
            block[u].buffer # ptr /\ held'[block[u].buffer] = None
        BY <2>1 DEF BlockDescriptor
    <2> QED
        BY <2>3, <2>4, <2>5, <2>6
<1>4. ASSUME NEW t \in Threads, Destroy(t) PROVE FreeingIsLive'
    BY <1>4 DEF Destroy
<1>5. ASSUME NEW t \in Threads, BeginScan(t) PROVE FreeingIsLive'
    BY <1>5 DEF BeginScan
<1>6. ASSUME NEW t \in Threads, SkipCached(t) PROVE FreeingIsLive'
    BY <1>6 DEF SkipCached
<1>7. ASSUME NEW t \in Threads, ReuseCached(t) PROVE FreeingIsLive'
    <2> DEFINE b == Reused(t)
    <2>1. iblock[t] \in DOMAIN cached_blocks_
        BY <1>7 DEF ReuseCached
    <2>2. cached_blocks_[iblock[t]] \in BlockDescriptor
        BY <2>1
    <2>3. /\ b.buffer = cached_blocks_[iblock[t]].buffer /\ b.queue = block[t].queue
          /\ b.bytes = cached_blocks_[iblock[t]].bytes
        BY <2>2 DEF Reused, Scanned, BlockDescriptor
    <2>4. b.buffer \in Addr /\ b.bytes = BinBytes[block[t].bin]
        BY <1>7, <2>1, <2>3 DEF ReuseCached, Reusable, Scanned, WellFiled
    <2>5. block[t].requested <= b.bytes
        BY <1>7, <2>4 DEF ReuseCached, LocalBlock
    <2>6. live_blocks_[b.buffer] = None
        BY <2>1, <2>3, <2>4 DEF SoleOwner, CachedAt
    <2>7. b \in BlockDescriptor
        BY <2>2, LimitsAssumption DEF Reused, Scanned, BlockDescriptor
    <2>8. b # None
        BY <2>7
    <2>9. /\ live_blocks_' = [live_blocks_ EXCEPT ![b.buffer] = b]
          /\ held' = [held EXCEPT ![b.buffer] = [bytes |-> block[t].requested, queue |-> b.queue]]
          /\ pc' = [pc EXCEPT ![t] = "idle"]
          /\ block' = [block EXCEPT ![t] = NoBlockYet]
        BY <1>7 DEF ReuseCached, InsertLiveBlock
    <2>10. block[t].requested \in Nat /\ b.bytes \in Nat
        BY <2>7 DEF BlockDescriptor
    <2> HIDE DEF b
    <2>11. \A u \in Threads : pc'[u] = "free" => u # t /\ pc[u] = "free" /\ block'[u] = block[u]
        BY <2>9
    <2>12. \A u \in Threads : pc[u] = "free" => block[u].buffer # b.buffer
        BY <2>4, <2>6
    <2>21. \A u \in Threads : pc[u] = "free" /\ block[u].buffer # None => block[u].buffer \in Addr
        BY DEF BlockDescriptor
    <2> SUFFICES ASSUME NEW u \in Threads, pc'[u] = "free", block'[u].buffer # None
                 PROVE  /\ live_blocks_'[block'[u].buffer] # None
                        /\ held'[block'[u].buffer] = None
                        /\ \A v \in Threads :
                            pc'[v] = "free" /\ block'[v].buffer = block'[u].buffer => v = u
        BY DEF FreeingIsLive
    <2>22. /\ u # t /\ pc[u] = "free" /\ block'[u] = block[u] /\ block[u].buffer \in Addr
           /\ live_blocks_[block[u].buffer] # None /\ held[block[u].buffer] = None
           /\ \A v \in Threads : pc[v] = "free" /\ block[v].buffer = block[u].buffer => v = u
        BY <2>11, <2>21
    <2>23. \A v \in Threads :
             pc'[v] = "free" /\ block'[v].buffer = block'[u].buffer => v = u
        BY <2>11, <2>22
    <2> HIDE DEF IInv, FreeingIsLive
    <2>24. block[u].buffer # b.buffer
        BY <2>12, <2>22
    <2> QED
        BY <2>4, <2>9, <2>22, <2>23, <2>24
<1>8. ASSUME NEW t \in Threads, ReuseThrows(t) PROVE FreeingIsLive'
    BY <1>8 DEF ReuseThrows
<1>9. ASSUME NEW t \in Threads, NothingToReuse(t) PROVE FreeingIsLive'
    BY <1>9 DEF NothingToReuse
<1>10. ASSUME NEW t \in Threads, AllocateBuffer(t) PROVE FreeingIsLive'
    BY <1>10 DEF AllocateBuffer
<1>11. ASSUME NEW t \in Threads, OutOfMemory(t) PROVE FreeingIsLive'
    BY <1>11 DEF OutOfMemory
<1>12. ASSUME NEW t \in Threads, InsertLive(t) PROVE FreeingIsLive'
    <2> DEFINE b == [block[t] EXCEPT !.event = QueueDevice[block[t].queue]]
    <2>1. block[t] \in BlockDescriptor
        OBVIOUS
    <2>2. b \in BlockDescriptor
        BY <2>1, LimitsAssumption DEF BlockDescriptor
    <2>3. /\ b.buffer = block[t].buffer /\ b.queue = block[t].queue
          /\ b.requested = block[t].requested /\ b.bytes = block[t].bytes
          /\ b.requested \in Nat /\ b.bytes \in Nat
        BY <2>1 DEF BlockDescriptor
    <2>4. b.buffer \in Addr
        BY <1>12, <2>1, <2>3 DEF InsertLive, LocalBlock, BlockDescriptor
    <2>5. b.requested <= b.bytes
        BY <1>12, <2>3 DEF InsertLive, LocalBlock
    <2>6. live_blocks_[b.buffer] = None
        BY <1>12, <2>3, <2>4 DEF InsertLive, SoleOwner, OwnedBy
    <2>8. b # None
        BY <2>2
    <2>9. /\ live_blocks_' = [live_blocks_ EXCEPT ![b.buffer] = b]
          /\ held' = [held EXCEPT ![b.buffer] = [bytes |-> b.requested, queue |-> b.queue]]
          /\ pc' = [pc EXCEPT ![t] = "idle"]
          /\ block' = [block EXCEPT ![t] = NoBlockYet]
        BY <1>12 DEF InsertLive, InsertLiveBlock
    <2> HIDE DEF b
    <2>11. \A u \in Threads : pc'[u] = "free" => u # t /\ pc[u] = "free" /\ block'[u] = block[u]
        BY <2>9
    <2>12. \A u \in Threads : pc[u] = "free" => block[u].buffer # b.buffer
        BY <2>4, <2>6
    <2>21. \A u \in Threads : pc[u] = "free" /\ block[u].buffer # None => block[u].buffer \in Addr
        BY DEF BlockDescriptor
    <2> SUFFICES ASSUME NEW u \in Threads, pc'[u] = "free", block'[u].buffer # None
                 PROVE  /\ live_blocks_'[block'[u].buffer] # None
                        /\ held'[block'[u].buffer] = None
                        /\ \A v \in Threads :
                            pc'[v] = "free" /\ block'[v].buffer = block'[u].buffer => v = u
        BY DEF FreeingIsLive
    <2>22. /\ u # t /\ pc[u] = "free" /\ block'[u] = block[u] /\ block[u].buffer \in Addr
           /\ live_blocks_[block[u].buffer] # None /\ held[block[u].buffer] = None
           /\ \A v \in Threads : pc[v] = "free" /\ block[v].buffer = block[u].buffer => v = u
        BY <2>11, <2>21
    <2>23. \A v \in Threads :
             pc'[v] = "free" /\ block'[v].buffer = block'[u].buffer => v = u
        BY <2>11, <2>22
    <2> HIDE DEF IInv, FreeingIsLive
    <2>24. block[u].buffer # b.buffer
        BY <2>12, <2>22
    <2> QED
        BY <2>4, <2>9, <2>22, <2>23, <2>24
<1>13. ASSUME NEW t \in Threads, CreateEventThrows(t) PROVE FreeingIsLive'
    BY <1>13 DEF CreateEventThrows
<1>14. ASSUME NEW t \in Threads, Unwind(t) PROVE FreeingIsLive'
    BY <1>14 DEF Unwind
<1>15. ASSUME NEW t \in Threads, BeginFlush(t) PROVE FreeingIsLive'
    BY <1>15 DEF BeginFlush
<1>16. ASSUME NEW t \in Threads, FlushOne(t) PROVE FreeingIsLive'
    BY <1>16 DEF FlushOne
<1>17. ASSUME NEW t \in Threads, EndFlush(t) PROVE FreeingIsLive'
    <2>1. CASE destroyed
        <3>1. live_blocks_' = live_blocks_ /\ held' = held
            BY <1>17, <2>1 DEF EndFlush
        <3>2. \A u \in Threads : pc'[u] = "free" => pc[u] = "free" /\ block'[u] = block[u]
            BY <1>17, <2>1 DEF EndFlush
        <3> QED
            BY <3>1, <3>2
    <2>2. CASE ~destroyed
        BY <1>17, <2>2 DEF EndFlush
    <2> QED
        BY <2>1, <2>2
<1>18. ASSUME NEW t \in Threads, FreeNotLive(t) PROVE FreeingIsLive'
    BY <1>18 DEF FreeNotLive
<1>19. ASSUME NEW t \in Threads, Recache(t) PROVE FreeingIsLive'
    <2>1. block[t].buffer \in Addr /\ Freed(t).buffer = block[t].buffer
        BY <1>19 DEF Recache, Freed, IsLive, WellFiled
    <2>2. live_blocks_' = [live_blocks_ EXCEPT ![block[t].buffer] = None] /\ held' = held
        BY <1>19, <2>1 DEF Recache, EraseLiveBlock
    <2>3. \A u \in Threads : pc'[u] = "free" => u # t /\ pc[u] = "free" /\ block'[u] = block[u]
        BY <1>19 DEF Recache
    <2>4. \A u \in Threads : pc[u] = "free" /\ block[u].buffer = block[t].buffer => u = t
        BY <1>19, <2>1 DEF Recache
    <2>21. \A u \in Threads : pc[u] = "free" /\ block[u].buffer # None => block[u].buffer \in Addr
        BY DEF BlockDescriptor
    <2> SUFFICES ASSUME NEW u \in Threads, pc'[u] = "free", block'[u].buffer # None
                 PROVE  /\ live_blocks_'[block'[u].buffer] # None
                        /\ held'[block'[u].buffer] = None
                        /\ \A v \in Threads :
                            pc'[v] = "free" /\ block'[v].buffer = block'[u].buffer => v = u
        BY DEF FreeingIsLive
    <2>22. /\ u # t /\ pc[u] = "free" /\ block'[u] = block[u] /\ block[u].buffer \in Addr
           /\ live_blocks_[block[u].buffer] # None /\ held[block[u].buffer] = None
           /\ \A v \in Threads : pc[v] = "free" /\ block[v].buffer = block[u].buffer => v = u
        BY <2>3, <2>21
    <2>23. \A v \in Threads :
             pc'[v] = "free" /\ block'[v].buffer = block'[u].buffer => v = u
        BY <2>3, <2>22
    <2> HIDE DEF IInv, FreeingIsLive
    <2>24. block[u].buffer # block[t].buffer
        BY <2>4, <2>22
    <2> QED
        BY <2>1, <2>2, <2>22, <2>23, <2>24
<1>20. ASSUME NEW t \in Threads, Drop(t) PROVE FreeingIsLive'
    <2>1. block[t].buffer \in Addr /\ Freed(t).buffer = block[t].buffer
        BY <1>20 DEF Drop, Freed, IsLive, WellFiled
    <2>2. live_blocks_' = [live_blocks_ EXCEPT ![block[t].buffer] = None] /\ held' = held
        BY <1>20, <2>1 DEF Drop, EraseLiveBlock
    <2>3. \A u \in Threads : pc'[u] = "free" => u # t /\ pc[u] = "free" /\ block'[u] = block[u]
        BY <1>20 DEF Drop
    <2>4. \A u \in Threads : pc[u] = "free" /\ block[u].buffer = block[t].buffer => u = t
        BY <1>20, <2>1 DEF Drop
    <2>21. \A u \in Threads : pc[u] = "free" /\ block[u].buffer # None => block[u].buffer \in Addr
        BY DEF BlockDescriptor
    <2> SUFFICES ASSUME NEW u \in Threads, pc'[u] = "free", block'[u].buffer # None
                 PROVE  /\ live_blocks_'[block'[u].buffer] # None
                        /\ held'[block'[u].buffer] = None
                        /\ \A v \in Threads :
                            pc'[v] = "free" /\ block'[v].buffer = block'[u].buffer => v = u
        BY DEF FreeingIsLive
    <2>22. /\ u # t /\ pc[u] = "free" /\ block'[u] = block[u] /\ block[u].buffer \in Addr
           /\ live_blocks_[block[u].buffer] # None /\ held[block[u].buffer] = None
           /\ \A v \in Threads : pc[v] = "free" /\ block[v].buffer = block[u].buffer => v = u
        BY <2>3, <2>21
    <2>23. \A v \in Threads :
             pc'[v] = "free" /\ block'[v].buffer = block'[u].buffer => v = u
        BY <2>3, <2>22
    <2> HIDE DEF IInv, FreeingIsLive
    <2>24. block[u].buffer # block[t].buffer
        BY <2>4, <2>22
    <2> QED
        BY <2>1, <2>2, <2>22, <2>23, <2>24
<1>21. ASSUME NEW t \in Threads, ReleaseDropped(t) PROVE FreeingIsLive'
    BY <1>21 DEF ReleaseDropped
<1>22. ASSUME NEW a \in Addr, Submit(a) PROVE FreeingIsLive'
    BY <1>22 DEF Submit
<1>23. ASSUME NEW q \in Queues, Execute(q) PROVE FreeingIsLive'
    BY <1>23 DEF Execute
<1>24. ASSUME UNCHANGED vars PROVE FreeingIsLive'
    BY <1>24 DEF vars
<1> QED
    BY <1>1, <1>2, <1>3, <1>4, <1>5, <1>6, <1>7, <1>8, <1>9, <1>10, <1>11, <1>12, <1>13, <1>14, <1>15, <1>16, <1>17, <1>18, <1>19, <1>20, <1>21, <1>22, <1>23, <1>24 DEF Next, Step, Exit

(* Every step after the destructor only empties the cache.                  *)
LEMMA ShutDownStep ==
    ASSUME IInv, [Next]_vars
    PROVE  ShutDown'
<1> USE NoneAssumption DEF IInv, TypeOK, ShutDown, allocator, threads, Goto, SetBlock, Return
<1>1. ASSUME NEW t \in Threads, Allocate(t) PROVE ShutDown'
    BY <1>1 DEF Allocate
<1>2. ASSUME NEW t \in Threads, AllocateTooLarge(t) PROVE ShutDown'
    BY <1>2 DEF AllocateTooLarge
<1>3. ASSUME NEW t \in Threads, Free(t) PROVE ShutDown'
    BY <1>3 DEF Free
<1>4. ASSUME NEW t \in Threads, Destroy(t) PROVE ShutDown'
    BY <1>4 DEF Destroy
<1>5. ASSUME NEW t \in Threads, BeginScan(t) PROVE ShutDown'
    BY <1>5 DEF BeginScan
<1>6. ASSUME NEW t \in Threads, SkipCached(t) PROVE ShutDown'
    BY <1>6 DEF SkipCached
<1>7. ASSUME NEW t \in Threads, ReuseCached(t) PROVE ShutDown'
    BY <1>7 DEF ReuseCached
<1>8. ASSUME NEW t \in Threads, ReuseThrows(t) PROVE ShutDown'
    BY <1>8 DEF ReuseThrows
<1>9. ASSUME NEW t \in Threads, NothingToReuse(t) PROVE ShutDown'
    BY <1>9 DEF NothingToReuse
<1>10. ASSUME NEW t \in Threads, AllocateBuffer(t) PROVE ShutDown'
    BY <1>10 DEF AllocateBuffer
<1>11. ASSUME NEW t \in Threads, OutOfMemory(t) PROVE ShutDown'
    BY <1>11 DEF OutOfMemory
<1>12. ASSUME NEW t \in Threads, InsertLive(t) PROVE ShutDown'
    BY <1>12 DEF InsertLive
<1>13. ASSUME NEW t \in Threads, CreateEventThrows(t) PROVE ShutDown'
    BY <1>13 DEF CreateEventThrows
<1>14. ASSUME NEW t \in Threads, Unwind(t) PROVE ShutDown'
    BY <1>14 DEF Unwind
<1>15. ASSUME NEW t \in Threads, BeginFlush(t) PROVE ShutDown'
    BY <1>15 DEF BeginFlush
<1>16. ASSUME NEW t \in Threads, FlushOne(t) PROVE ShutDown'
    BY <1>16 DEF FlushOne
<1>17. ASSUME NEW t \in Threads, EndFlush(t) PROVE ShutDown'
    BY <1>17 DEF EndFlush, CacheEmpty
<1>18. ASSUME NEW t \in Threads, FreeNotLive(t) PROVE ShutDown'
    BY <1>18 DEF FreeNotLive
<1>19. ASSUME NEW t \in Threads, Recache(t) PROVE ShutDown'
    BY <1>19 DEF Recache
<1>20. ASSUME NEW t \in Threads, Drop(t) PROVE ShutDown'
    BY <1>20 DEF Drop
<1>21. ASSUME NEW t \in Threads, ReleaseDropped(t) PROVE ShutDown'
    BY <1>21 DEF ReleaseDropped
<1>22. ASSUME NEW a \in Addr, Submit(a) PROVE ShutDown'
    BY <1>22 DEF Submit
<1>23. ASSUME NEW q \in Queues, Execute(q) PROVE ShutDown'
    BY <1>23 DEF Execute
<1>24. ASSUME UNCHANGED vars PROVE ShutDown'
    BY <1>24 DEF vars
<1> QED
    BY <1>1, <1>2, <1>3, <1>4, <1>5, <1>6, <1>7, <1>8, <1>9, <1>10, <1>11, <1>12, <1>13, <1>14, <1>15, <1>16, <1>17, <1>18, <1>19, <1>20, <1>21, <1>22, <1>23, <1>24 DEF Next, Step, Exit

(* Every step keeps the buffers with one owner each.                        *)
LEMMA SoleOwnerStep ==
    ASSUME IInv, TypeOK', [Next]_vars
    PROVE  SoleOwner'
<1> USE NoneAssumption DEF IInv, TypeOK, allocator, threads, Goto, SetBlock, Return
<1>1. ASSUME NEW t \in Threads, Allocate(t) PROVE SoleOwner'
    <2>1. OwnedBy' = OwnedBy
        BY <1>1 DEF Allocate, OwnedBy
    <2> QED
        BY <1>1, <2>1, OwnershipStays DEF Allocate
<1>2. ASSUME NEW t \in Threads, AllocateTooLarge(t) PROVE SoleOwner'
    <2>1. pc[t] = "idle" /\ block[t].buffer \notin Addr
        BY <1>2 DEF AllocateTooLarge, LocalBlock
    <2>2. pc' = [pc EXCEPT ![t] = "unwind"] /\ block' = block
        BY <1>2 DEF AllocateTooLarge
    <2> HIDE DEF IInv
    <2>3. OwnedBy' = OwnedBy
        BY <2>1, <2>2 DEF OwnedBy
    <2> QED
        BY <1>2, <2>3, OwnershipStays DEF AllocateTooLarge, IInv
<1>3. ASSUME NEW t \in Threads, Free(t) PROVE SoleOwner'
    <2>1. OwnedBy' = OwnedBy
        BY <1>3 DEF Free, OwnedBy
    <2> QED
        BY <1>3, <2>1, OwnershipStays DEF Free
<1>4. ASSUME NEW t \in Threads, Destroy(t) PROVE SoleOwner'
    <2>1. OwnedBy' = OwnedBy
        BY <1>4 DEF Destroy, OwnedBy
    <2> QED
        BY <1>4, <2>1, OwnershipStays DEF Destroy
<1>5. ASSUME NEW t \in Threads, BeginScan(t) PROVE SoleOwner'
    <2>1. OwnedBy' = OwnedBy
        BY <1>5 DEF BeginScan, OwnedBy
    <2> QED
        BY <1>5, <2>1, OwnershipStays DEF BeginScan
<1>6. ASSUME NEW t \in Threads, SkipCached(t) PROVE SoleOwner'
    <2>1. OwnedBy' = OwnedBy
        BY <1>6 DEF SkipCached, OwnedBy
    <2> QED
        BY <1>6, <2>1, OwnershipStays DEF SkipCached
<1>7. ASSUME NEW t \in Threads, ReuseCached(t) PROVE SoleOwner'
    <2> DEFINE i == iblock[t]
               x == cached_blocks_[i].buffer
    <2>1. i \in DOMAIN cached_blocks_ /\ cached_blocks_' = Erased(i)
        BY <1>7 DEF ReuseCached
    <2>2. x \in Addr /\ i \in CachedAt[x]
        BY <2>1 DEF WellFiled, CachedAt
    <2>3. \A a \in Addr :
            /\ \A j1, j2 \in CachedAt'[a] : j1 = j2
            /\ a = x => CachedAt'[a] = {}
            /\ a # x => (CachedAt'[a] = {} <=> CachedAt[a] = {})
        BY <2>1, CachedAtErased
    <2>4. \A a \in Addr : OwnedBy'[a] = OwnedBy[a]
        BY <1>7 DEF ReuseCached, OwnedBy, LocalBlock, NoBlockYet
    <2>5. cached_blocks_[i] \in BlockDescriptor
        BY <2>1
    <2>6. Reused(t) \in BlockDescriptor
        BY <2>5, LimitsAssumption DEF Reused, Scanned, BlockDescriptor
    <2>7. Reused(t).buffer = x
        BY <2>5 DEF Reused, Scanned, BlockDescriptor
    <2>8. live_blocks_' = [live_blocks_ EXCEPT ![x] = Reused(t)]
        BY <1>7, <2>7 DEF ReuseCached, InsertLiveBlock
    <2>9. memory' = memory
        BY <1>7 DEF ReuseCached
    <2> HIDE DEF x, i
    <2>10. \A a \in Addr : live_blocks_'[a] = IF a = x THEN Reused(t) ELSE live_blocks_[a]
        BY <2>2, <2>8
    <2>11. Reused(t) # None
        BY <2>6
    <2>12. SoleOwner
        OBVIOUS
    <2> HIDE DEF IInv, TypeOK
    <2> QED
        BY <2>2, <2>3, <2>4, <2>9, <2>10, <2>11, <2>12 DEF SoleOwner
<1>8. ASSUME NEW t \in Threads, ReuseThrows(t) PROVE SoleOwner'
    <2>1. pc[t] = "scan" /\ block[t].buffer \notin Addr
        BY <1>8 DEF ReuseThrows, LocalBlock
    <2>2. pc' = [pc EXCEPT ![t] = "unwind"] /\ block' = block
        BY <1>8 DEF ReuseThrows
    <2> HIDE DEF IInv
    <2>3. OwnedBy' = OwnedBy
        BY <2>1, <2>2 DEF OwnedBy
    <2> QED
        BY <1>8, <2>3, OwnershipStays DEF ReuseThrows, IInv
<1>9. ASSUME NEW t \in Threads, NothingToReuse(t) PROVE SoleOwner'
    <2>1. OwnedBy' = OwnedBy
        BY <1>9 DEF NothingToReuse, OwnedBy
    <2> QED
        BY <1>9, <2>1, OwnershipStays DEF NothingToReuse
<1>10. ASSUME NEW t \in Threads, AllocateBuffer(t) PROVE SoleOwner'
    <2>1. PICK x \in Addr :
            /\ memory[x] = 0
            /\ memory' = [memory EXCEPT ![x] = block[t].bytes]
            /\ block' = [block EXCEPT ![t] = [block[t] EXCEPT !.buffer = x]]
        <3> HIDE DEF IInv
        <3> QED
            BY <1>10 DEF AllocateBuffer
    <2>2. block[t].bytes # 0
        BY <1>10, BinsAssumption DEF AllocateBuffer, LocalBlock, BlockDescriptor
    <2>3. \A a \in Addr : CachedAt'[a] = CachedAt[a]
        BY <1>10 DEF AllocateBuffer, CachedAt
    <2>4. OwnedBy[x] = {}
        BY <2>1 DEF SoleOwner
    <2>5. \A a \in Addr : OwnedBy'[a] = IF a = x THEN OwnedBy[a] \cup {t} ELSE OwnedBy[a]
        BY <1>10, <2>1 DEF AllocateBuffer, OwnedBy, BlockDescriptor
    <2>6. \A a \in Addr : OwnedBy'[a] = IF a = x THEN {t} ELSE OwnedBy[a]
        BY <2>4, <2>5
    <2>7. live_blocks_' = live_blocks_
        BY <1>10 DEF AllocateBuffer
    <2>8. \A a \in Addr : memory'[a] = IF a = x THEN block[t].bytes ELSE memory[a]
        BY <2>1
    <2>9. SoleOwner
        OBVIOUS
    <2> HIDE DEF IInv, TypeOK
    <2> QED
        BY <2>1, <2>2, <2>3, <2>4, <2>6, <2>7, <2>8, <2>9 DEF SoleOwner
<1>11. ASSUME NEW t \in Threads, OutOfMemory(t) PROVE SoleOwner'
    <2>1. OwnedBy' = OwnedBy
        BY <1>11 DEF OutOfMemory, OwnedBy, LocalBlock, NoBlockYet
    <2> QED
        BY <1>11, <2>1, OwnershipStays DEF OutOfMemory
<1>12. ASSUME NEW t \in Threads, InsertLive(t) PROVE SoleOwner'
    <2> DEFINE x == block[t].buffer
               b == [block[t] EXCEPT !.event = QueueDevice[block[t].queue]]
    <2>1. x \in Addr /\ \A a \in Addr : t \in OwnedBy[a] <=> a = x
        BY <1>12 DEF InsertLive, LocalBlock, OwnedBy, BlockDescriptor
    <2>12. block[t] \in BlockDescriptor /\ QueueDevice[block[t].queue] \in Devices
        BY LimitsAssumption DEF BlockDescriptor
    <2>13. b \in BlockDescriptor
        BY <2>12 DEF BlockDescriptor
    <2>2. b \in BlockDescriptor /\ b.buffer = x
        BY <2>12, <2>13 DEF BlockDescriptor
    <2>6. live_blocks_' = [live_blocks_ EXCEPT ![x] = b]
        BY <1>12, <2>2 DEF InsertLive, InsertLiveBlock
    <2>3. \A a \in Addr : CachedAt'[a] = CachedAt[a]
        BY <1>12 DEF InsertLive, CachedAt
    <2>4. \A a \in Addr : OwnedBy'[a] = OwnedBy[a] \ {t}
        BY <1>12 DEF InsertLive, OwnedBy, NoBlockYet
    <2>8. memory' = memory
        BY <1>12 DEF InsertLive
    <2> HIDE DEF b
    <2>10. \A a \in Addr : live_blocks_'[a] = IF a = x THEN b ELSE live_blocks_[a]
        BY <2>6
    <2>11. b # None
        BY <2>2
    <2>5. x \in Addr => OwnedBy[x] = {t} /\ OwnedBy'[x] = {}
        BY <2>1, <2>4 DEF SoleOwner
    <2>7. \A a \in Addr : a # x => OwnedBy'[a] = OwnedBy[a]
        BY <1>12, <2>1 DEF InsertLive, OwnedBy, NoBlockYet
    <2>9. SoleOwner
        OBVIOUS
    <2> HIDE DEF x
    <2> HIDE DEF IInv, TypeOK
    <2> QED
        BY <2>1, <2>3, <2>5, <2>7, <2>8, <2>9, <2>10, <2>11 DEF SoleOwner
<1>13. ASSUME NEW t \in Threads, CreateEventThrows(t) PROVE SoleOwner'
    <2>1. OwnedBy' = OwnedBy
        BY <1>13 DEF CreateEventThrows, OwnedBy
    <2> QED
        BY <1>13, <2>1, OwnershipStays DEF CreateEventThrows
<1>14. ASSUME NEW t \in Threads, Unwind(t) PROVE SoleOwner'
    <2> DEFINE x == block[t].buffer
    <2>1. \A a \in Addr : t \in OwnedBy[a] <=> a = x
        BY <1>14 DEF Unwind, OwnedBy
    <2>2. \A a \in Addr : memory'[a] = IF a = x THEN 0 ELSE memory[a]
        BY <1>14 DEF Unwind
    <2>3. \A a \in Addr : CachedAt'[a] = CachedAt[a]
        BY <1>14 DEF Unwind, CachedAt
    <2>4. \A a \in Addr : OwnedBy'[a] = OwnedBy[a] \ {t}
        BY <1>14 DEF Unwind, OwnedBy, NoBlockYet
    <2>6. live_blocks_' = live_blocks_
        BY <1>14 DEF Unwind
    <2>5. x \in Addr => OwnedBy[x] = {t} /\ OwnedBy'[x] = {}
        BY <2>1, <2>4 DEF SoleOwner
    <2>7. \A a \in Addr : a # x => OwnedBy'[a] = OwnedBy[a]
        BY <1>14, <2>1 DEF Unwind, OwnedBy, NoBlockYet
    <2>9. SoleOwner
        OBVIOUS
    <2> HIDE DEF x
    <2> HIDE DEF IInv, TypeOK
    <2> QED
        BY <2>2, <2>3, <2>5, <2>6, <2>7, <2>9 DEF SoleOwner
<1>15. ASSUME NEW t \in Threads, BeginFlush(t) PROVE SoleOwner'
    <2>1. OwnedBy' = OwnedBy
        BY <1>15 DEF BeginFlush, OwnedBy
    <2> QED
        BY <1>15, <2>1, OwnershipStays DEF BeginFlush
<1>16. ASSUME NEW t \in Threads, FlushOne(t) PROVE SoleOwner'
    <2>1. PICK i \in DOMAIN cached_blocks_ :
            /\ memory' = [memory EXCEPT ![cached_blocks_[i].buffer] = 0]
            /\ cached_blocks_' = Erased(i)
        BY <1>16 DEF FlushOne
    <2> DEFINE x == cached_blocks_[i].buffer
    <2>2. x \in Addr /\ i \in CachedAt[x]
        BY DEF WellFiled, CachedAt
    <2>3. \A a \in Addr :
            /\ \A j1, j2 \in CachedAt'[a] : j1 = j2
            /\ a = x => CachedAt'[a] = {}
            /\ a # x => (CachedAt'[a] = {} <=> CachedAt[a] = {})
        BY <2>1, CachedAtErased
    <2>4. \A a \in Addr : OwnedBy'[a] = OwnedBy[a]
        BY <1>16 DEF FlushOne, OwnedBy
    <2>5. live_blocks_' = live_blocks_
        BY <1>16 DEF FlushOne
    <2> HIDE DEF x
    <2>6. memory' = [memory EXCEPT ![x] = 0]
        BY <2>1 DEF x
    <2>7. \A a \in Addr : memory'[a] = IF a = x THEN 0 ELSE memory[a]
        BY <2>6
    <2>8. SoleOwner
        OBVIOUS
    <2> HIDE DEF IInv, TypeOK
    <2> QED
        BY <2>2, <2>3, <2>4, <2>5, <2>7, <2>8 DEF SoleOwner
<1>17. ASSUME NEW t \in Threads, EndFlush(t) PROVE SoleOwner'
    <2>1. OwnedBy' = OwnedBy
        BY <1>17 DEF EndFlush, OwnedBy
    <2> QED
        BY <1>17, <2>1, OwnershipStays DEF EndFlush
<1>18. ASSUME NEW t \in Threads, FreeNotLive(t) PROVE SoleOwner'
    <2>1. OwnedBy' = OwnedBy
        BY <1>18 DEF FreeNotLive, OwnedBy, LocalBlock, NoBlockYet
    <2> QED
        BY <1>18, <2>1, OwnershipStays DEF FreeNotLive
<1>19. ASSUME NEW t \in Threads, Recache(t) PROVE SoleOwner'
    <2> DEFINE x == block[t].buffer
               b == Freed(t)
    <2>1. x \in Addr /\ live_blocks_[x] # None /\ b = live_blocks_[x] /\ b \in BlockDescriptor
        BY <1>19 DEF Recache, IsLive, Freed
    <2>2. b.buffer = x
        BY <2>1 DEF WellFiled
    <2>3. live_blocks_' = [live_blocks_ EXCEPT ![x] = None]
        BY <1>19, <2>2 DEF Recache, EraseLiveBlock
    <2>4. CachedAt[b.buffer] = {}
        BY <2>1, <2>2 DEF SoleOwner
    <2>5. cached_blocks_' = Append(cached_blocks_, b)
        BY <1>19 DEF Recache
    <2> HIDE DEF x, b
    <2>6. \A a \in Addr :
            /\ \A j1, j2 \in CachedAt'[a] : j1 = j2
            /\ a = x => CachedAt'[a] # {}
            /\ a # x => (CachedAt'[a] = {} <=> CachedAt[a] = {})
        BY <2>1, <2>2, <2>4, <2>5, CachedAtAppended
    <2>7. \A a \in Addr : OwnedBy'[a] = OwnedBy[a]
        BY <1>19 DEF Recache, OwnedBy, NoBlockYet
    <2>8. memory' = memory
        BY <1>19 DEF Recache
    <2> QED
        BY <2>1, <2>3, <2>6, <2>7, <2>8 DEF SoleOwner
<1>20. ASSUME NEW t \in Threads, Drop(t) PROVE SoleOwner'
    <2> DEFINE x == block[t].buffer
               b == Freed(t)
    <2>1. x \in Addr /\ live_blocks_[x] # None /\ b = live_blocks_[x] /\ b \in BlockDescriptor
        BY <1>20 DEF Drop, IsLive, Freed
    <2>2. b.buffer = x
        BY <2>1 DEF WellFiled
    <2>3. live_blocks_' = [live_blocks_ EXCEPT ![x] = None]
        BY <1>20, <2>2 DEF Drop, EraseLiveBlock
    <2>4. \A a \in Addr : CachedAt'[a] = CachedAt[a]
        BY <1>20 DEF Drop, CachedAt
    <2>5. \A a \in Addr : OwnedBy'[a] = IF a = x THEN OwnedBy[a] \cup {t} ELSE OwnedBy[a]
        BY <1>20, <2>2 DEF Drop, OwnedBy
    <2>6. memory' = memory
        BY <1>20 DEF Drop
    <2> HIDE DEF x, b
    <2>7. \A a \in Addr : live_blocks_'[a] = IF a = x THEN None ELSE live_blocks_[a]
        BY <2>1, <2>3
    <2>8. OwnedBy[x] = {}
        BY <2>1 DEF SoleOwner
    <2>9. \A a \in Addr : OwnedBy'[a] = IF a = x THEN {t} ELSE OwnedBy[a]
        BY <2>5, <2>8
    <2>10. SoleOwner
        OBVIOUS
    <2> HIDE DEF IInv, TypeOK
    <2> QED
        BY <2>1, <2>4, <2>6, <2>7, <2>8, <2>9, <2>10 DEF SoleOwner
<1>21. ASSUME NEW t \in Threads, ReleaseDropped(t) PROVE SoleOwner'
    <2> DEFINE x == block[t].buffer
    <2>1. \A a \in Addr : t \in OwnedBy[a] <=> a = x
        BY <1>21 DEF ReleaseDropped, OwnedBy
    <2>2. \A a \in Addr : memory'[a] = IF a = x THEN 0 ELSE memory[a]
        BY <1>21 DEF ReleaseDropped
    <2>3. \A a \in Addr : CachedAt'[a] = CachedAt[a]
        BY <1>21 DEF ReleaseDropped, CachedAt
    <2>4. \A a \in Addr : OwnedBy'[a] = OwnedBy[a] \ {t}
        BY <1>21 DEF ReleaseDropped, OwnedBy, NoBlockYet
    <2>6. live_blocks_' = live_blocks_
        BY <1>21 DEF ReleaseDropped
    <2>5. x \in Addr => OwnedBy[x] = {t} /\ OwnedBy'[x] = {}
        BY <2>1, <2>4 DEF SoleOwner
    <2>7. \A a \in Addr : a # x => OwnedBy'[a] = OwnedBy[a]
        BY <1>21, <2>1 DEF ReleaseDropped, OwnedBy, NoBlockYet
    <2>9. SoleOwner
        OBVIOUS
    <2> HIDE DEF x
    <2> HIDE DEF IInv, TypeOK
    <2> QED
        BY <2>2, <2>3, <2>5, <2>6, <2>7, <2>9 DEF SoleOwner
<1>22. ASSUME NEW a \in Addr, Submit(a) PROVE SoleOwner'
    <2>1. OwnedBy' = OwnedBy
        BY <1>22 DEF Submit, OwnedBy
    <2> QED
        BY <1>22, <2>1, OwnershipStays DEF Submit
<1>23. ASSUME NEW q \in Queues, Execute(q) PROVE SoleOwner'
    <2>1. OwnedBy' = OwnedBy
        BY <1>23 DEF Execute, OwnedBy
    <2> QED
        BY <1>23, <2>1, OwnershipStays DEF Execute
<1>24. ASSUME UNCHANGED vars PROVE SoleOwner'
    <2>1. OwnedBy' = OwnedBy
        BY <1>24 DEF vars, OwnedBy
    <2> QED
        BY <1>24, <2>1, OwnershipStays DEF vars
<1> QED
    BY <1>1, <1>2, <1>3, <1>4, <1>5, <1>6, <1>7, <1>8, <1>9, <1>10, <1>11, <1>12, <1>13, <1>14, <1>15, <1>16, <1>17, <1>18, <1>19, <1>20, <1>21, <1>22, <1>23, <1>24 DEF Next, Step, Exit

(* Every step keeps the pending work guarded.                               *)
LEMMA EventGuardsWorkStep ==
    ASSUME IInv, TypeOK', [Next]_vars
    PROVE  EventGuardsWork'
<1> USE NoneAssumption DEF IInv, TypeOK, allocator, threads, Goto, SetBlock, Return
<1>1. ASSUME NEW t \in Threads, Allocate(t) PROVE EventGuardsWork'
    BY <1>1, WorkStaysGuarded DEF Allocate
<1>2. ASSUME NEW t \in Threads, AllocateTooLarge(t) PROVE EventGuardsWork'
    BY <1>2, WorkStaysGuarded DEF AllocateTooLarge
<1>3. ASSUME NEW t \in Threads, Free(t) PROVE EventGuardsWork'
    BY <1>3, WorkStaysGuarded DEF Free
<1>4. ASSUME NEW t \in Threads, Destroy(t) PROVE EventGuardsWork'
    BY <1>4, WorkStaysGuarded DEF Destroy
<1>5. ASSUME NEW t \in Threads, BeginScan(t) PROVE EventGuardsWork'
    BY <1>5, WorkStaysGuarded DEF BeginScan
<1>6. ASSUME NEW t \in Threads, SkipCached(t) PROVE EventGuardsWork'
    BY <1>6, WorkStaysGuarded DEF SkipCached
<1>7. ASSUME NEW t \in Threads, ReuseCached(t) PROVE EventGuardsWork'
    <2> DEFINE i == iblock[t]
               x == cached_blocks_[i].buffer
    <2>1. i \in DOMAIN cached_blocks_ /\ cached_blocks_' = Erased(i)
        BY <1>7 DEF ReuseCached
    <2>2. x \in Addr /\ i \in CachedAt[x] /\ live_blocks_[x] = None
        BY <2>1 DEF WellFiled, CachedAt, SoleOwner
    <2>3. \A a \in Addr : \A u \in OwnedBy[a] : pc[u] = "drop" =>
            u \in OwnedBy'[a] /\ pc'[u] = "drop" /\ block'[u] = block[u]
        BY <1>7 DEF ReuseCached, OwnedBy
    <2>4. \A k \in DOMAIN cached_blocks_ \ {i} :
            \E j \in DOMAIN cached_blocks_' : cached_blocks_'[j] = cached_blocks_[k]
        BY <2>1, ErasedBlocks
    <2>5. CachedAt' =
            [a \in Addr |-> {j \in DOMAIN cached_blocks_' : cached_blocks_'[j].buffer = a}]
        BY DEF CachedAt
    <2>6. \A a \in Addr \ {x} : \A k \in CachedAt[a] :
            \E j \in CachedAt'[a] : cached_blocks_'[j] = cached_blocks_[k]
        BY <2>4, <2>5 DEF CachedAt
    <2>7. cached_blocks_[i] \in BlockDescriptor
        BY <2>1
    <2>8. /\ Reused(t) \in BlockDescriptor /\ Reused(t).buffer = x
          /\ Reused(t).queue = block[t].queue
        BY <2>7, LimitsAssumption DEF Reused, Scanned, BlockDescriptor
    <2>9. live_blocks_' = [live_blocks_ EXCEPT ![x] = Reused(t)] /\ queue' = queue
        BY <1>7, <2>8 DEF ReuseCached, InsertLiveBlock
    <2>10. cached_blocks_[i].queue = block[t].queue \/ IsComplete(x)
        BY <1>7 DEF ReuseCached, Reusable, Scanned
    <2>11. \A j \in CachedAt[x] : j = i
        BY <2>2 DEF SoleOwner
    <2>12. OwnedBy[x] = {}
        BY <2>2 DEF SoleOwner
    <2> HIDE DEF x, i
    <2>13. \A a \in Addr : live_blocks_'[a] = IF a = x THEN Reused(t) ELSE live_blocks_[a]
        BY <2>2, <2>9
    <2>14. Reused(t) # None
        BY <2>8
    <2>15. EventGuardsWork
        OBVIOUS
    <2> HIDE DEF IInv, TypeOK
    <2>16. CASE IsComplete(x)
        <3>1. \A q \in Queues : \A k \in DOMAIN queue[q] : queue[q][k] # Use(x)
            BY <2>2, <2>12, <2>15, <2>16 DEF EventGuardsWork, IsComplete, PendingOn
        <3> QED
            BY <2>3, <2>6, <2>9, <2>13, <2>15, <3>1, UnusedBufferMoves
    <2>17. CASE cached_blocks_[i].queue = block[t].queue
        <3> SUFFICES ASSUME NEW q \in Queues, NEW k \in DOMAIN queue'[q], NEW a \in Addr,
                            queue'[q][k] = Use(a)
                     PROVE  \/ live_blocks_'[a] # None /\ live_blocks_'[a].queue = q
                            \/ /\ \E j \in CachedAt'[a] : cached_blocks_'[j].queue = q
                               /\ \E m \in DOMAIN queue'[q] : m > k /\ queue'[q][m] = Record(a)
                            \/ \E u \in OwnedBy'[a] : pc'[u] = "drop" /\ block'[u].queue = q
            BY DEF EventGuardsWork
        <3>1. k \in DOMAIN queue[q] /\ queue[q][k] = Use(a)
            BY <2>9
        <3>2. \/ live_blocks_[a] # None /\ live_blocks_[a].queue = q
              \/ /\ \E j \in CachedAt[a] : cached_blocks_[j].queue = q
                 /\ \E m \in DOMAIN queue[q] : m > k /\ queue[q][m] = Record(a)
              \/ \E u \in OwnedBy[a] : pc[u] = "drop" /\ block[u].queue = q
            BY <2>15, <3>1 DEF EventGuardsWork
        <3>3. CASE a = x
            BY <2>2, <2>8, <2>11, <2>12, <2>13, <2>14, <2>17, <3>2, <3>3
        <3>4. CASE a # x
            BY <2>3, <2>6, <2>9, <2>13, <3>2, <3>4
        <3> QED
            BY <3>3, <3>4
    <2> QED
        BY <2>10, <2>16, <2>17
<1>8. ASSUME NEW t \in Threads, ReuseThrows(t) PROVE EventGuardsWork'
    BY <1>8, WorkStaysGuarded DEF ReuseThrows
<1>9. ASSUME NEW t \in Threads, NothingToReuse(t) PROVE EventGuardsWork'
    BY <1>9, WorkStaysGuarded DEF NothingToReuse
<1>10. ASSUME NEW t \in Threads, AllocateBuffer(t) PROVE EventGuardsWork'
    BY <1>10, WorkStaysGuarded DEF AllocateBuffer
<1>11. ASSUME NEW t \in Threads, OutOfMemory(t) PROVE EventGuardsWork'
    BY <1>11, WorkStaysGuarded DEF OutOfMemory
<1>12. ASSUME NEW t \in Threads, InsertLive(t) PROVE EventGuardsWork'
    <2> DEFINE x == block[t].buffer
    <2>1. x \in Addr /\ t \in OwnedBy[x] /\ pc[t] = "insert"
        BY <1>12 DEF InsertLive, LocalBlock, OwnedBy, BlockDescriptor
    <2>2. [block[t] EXCEPT !.event = QueueDevice[block[t].queue]].buffer = x
        BY DEF BlockDescriptor
    <2>6. queue' = queue /\ \A a \in Addr \ {x} : live_blocks_'[a] = live_blocks_[a]
        BY <1>12, <2>2 DEF InsertLive, InsertLiveBlock
    <2>3. \A a \in Addr : \A u \in OwnedBy[a] : pc[u] = "drop" =>
            u \in OwnedBy'[a] /\ pc'[u] = "drop" /\ block'[u] = block[u]
        BY <1>12 DEF InsertLive, OwnedBy
    <2>4. CachedAt' = CachedAt /\ cached_blocks_' = cached_blocks_
        BY <1>12 DEF InsertLive, CachedAt
    <2>7. /\ live_blocks_[x] = None /\ CachedAt[x] = {}
          /\ \A u \in OwnedBy[x] : u = t
        BY <2>1 DEF SoleOwner
    <2>8. \A q \in Queues : \A k \in DOMAIN queue[q] : queue[q][k] # Use(x)
        BY <2>1, <2>7, NoWorkUnowned
    <2> HIDE DEF x
    <2> HIDE DEF IInv, TypeOK
    <2> QED
        BY <2>3, <2>4, <2>6, <2>8, UnusedBufferMoves DEF IInv
<1>13. ASSUME NEW t \in Threads, CreateEventThrows(t) PROVE EventGuardsWork'
    BY <1>13, WorkStaysGuarded DEF CreateEventThrows
<1>14. ASSUME NEW t \in Threads, Unwind(t) PROVE EventGuardsWork'
    BY <1>14, WorkStaysGuarded DEF Unwind
<1>15. ASSUME NEW t \in Threads, BeginFlush(t) PROVE EventGuardsWork'
    BY <1>15, WorkStaysGuarded DEF BeginFlush
<1>16. ASSUME NEW t \in Threads, FlushOne(t) PROVE EventGuardsWork'
    <2>1. PICK i \in DOMAIN cached_blocks_ :
            CanRelease(cached_blocks_[i].buffer) /\ cached_blocks_' = Erased(i)
        BY <1>16 DEF FlushOne
    <2> DEFINE x == cached_blocks_[i].buffer
    <2>3. \A a \in Addr : \A u \in OwnedBy[a] : pc[u] = "drop" =>
            u \in OwnedBy'[a] /\ pc'[u] = "drop" /\ block'[u] = block[u]
        BY <1>16 DEF FlushOne, OwnedBy
    <2>4. /\ \A k \in DOMAIN cached_blocks_ \ {i} :
                \E j \in DOMAIN cached_blocks_' : cached_blocks_'[j] = cached_blocks_[k]
        BY <2>1, ErasedBlocks
    <2>5. CachedAt' =
            [a \in Addr |-> {j \in DOMAIN cached_blocks_' : cached_blocks_'[j].buffer = a}]
        BY DEF CachedAt
    <2>6. \A a \in Addr \ {x} : \A k \in CachedAt[a] :
            \E j \in CachedAt'[a] : cached_blocks_'[j] = cached_blocks_[k]
        BY <2>4, <2>5 DEF CachedAt
    <2>7. \A q \in Queues : \A k \in DOMAIN queue[q] : queue[q][k] # Use(x)
        BY <2>1 DEF CanRelease, PendingOn
    <2>8. queue' = queue /\ live_blocks_' = live_blocks_
        BY <1>16 DEF FlushOne
    <2> HIDE DEF x
    <2> HIDE DEF IInv, TypeOK
    <2> QED
        BY <2>3, <2>6, <2>7, <2>8, UnusedBufferMoves DEF IInv
<1>17. ASSUME NEW t \in Threads, EndFlush(t) PROVE EventGuardsWork'
    BY <1>17, WorkStaysGuarded DEF EndFlush
<1>18. ASSUME NEW t \in Threads, FreeNotLive(t) PROVE EventGuardsWork'
    BY <1>18, WorkStaysGuarded DEF FreeNotLive
<1>19. ASSUME NEW t \in Threads, Recache(t) PROVE EventGuardsWork'
    <2> DEFINE x == block[t].buffer
               b == Freed(t)
    <2>1. x \in Addr /\ live_blocks_[x] # None /\ b = live_blocks_[x] /\ b \in BlockDescriptor
        BY <1>19 DEF Recache, IsLive, Freed
    <2>2. b.buffer = x /\ b.queue \in Queues
        BY <2>1 DEF WellFiled, BlockDescriptor
    <2>3. \A a \in Addr : \A u \in OwnedBy[a] : pc[u] = "drop" =>
            u \in OwnedBy'[a] /\ pc'[u] = "drop" /\ block'[u] = block[u]
        BY <1>19 DEF Recache, OwnedBy
    <2>4. cached_blocks_' = Append(cached_blocks_, b)
        BY <1>19 DEF Recache
    <2>5. CachedAt' =
            [a \in Addr |-> {j \in DOMAIN cached_blocks_' : cached_blocks_'[j].buffer = a}]
        BY DEF CachedAt
    <2> HIDE DEF x, b
    <2>6. /\ \E j \in CachedAt'[x] : cached_blocks_'[j] = b
          /\ \A a \in Addr : \A j \in CachedAt[a] :
                j \in CachedAt'[a] /\ cached_blocks_'[j] = cached_blocks_[j]
        <3>1. /\ DOMAIN cached_blocks_' = DOMAIN cached_blocks_ \cup {Len(cached_blocks_) + 1}
              /\ \A j \in DOMAIN cached_blocks_ : cached_blocks_'[j] = cached_blocks_[j]
              /\ cached_blocks_'[Len(cached_blocks_) + 1] = b
            BY <2>1, <2>4, AppendedBlocks
        <3> QED
            BY <2>1, <2>2, <2>5, <3>1 DEF CachedAt
    <2>7. queue' = [queue EXCEPT ![b.queue] = Append(queue[b.queue], Record(x))]
        BY <1>19, <2>2 DEF Recache, Enqueued, b
    <2>8. \A a \in Addr \ {x} : live_blocks_'[a] = live_blocks_[a]
        BY <1>19, <2>2 DEF Recache, EraseLiveBlock, b
    <2>9. CachedAt[x] = {} /\ OwnedBy[x] = {}
        BY <2>1 DEF SoleOwner
    <2>10. /\ EventGuardsWork
           /\ queue[b.queue] \in Seq(Operations)
           /\ \A q \in Queues : queue'[q] = IF q = b.queue THEN Append(queue[q], Record(x)) ELSE queue[q]
        BY <2>2, <2>7
    <2> HIDE DEF IInv, TypeOK
    <2> SUFFICES ASSUME NEW q \in Queues, NEW k \in DOMAIN queue'[q], NEW a \in Addr,
                        queue'[q][k] = Use(a)
                 PROVE  \/ live_blocks_'[a] # None /\ live_blocks_'[a].queue = q
                        \/ /\ \E i \in CachedAt'[a] : cached_blocks_'[i].queue = q
                           /\ \E m \in DOMAIN queue'[q] : m > k /\ queue'[q][m] = Record(a)
                        \/ \E u \in OwnedBy'[a] : pc'[u] = "drop" /\ block'[u].queue = q
        BY DEF EventGuardsWork
    <2>11. /\ k \in DOMAIN queue[q] /\ queue[q][k] = Use(a)
           /\ \A m \in DOMAIN queue[q] : m \in DOMAIN queue'[q] /\ queue'[q][m] = queue[q][m]
           /\ q = b.queue => \E m \in DOMAIN queue'[q] : m > k /\ queue'[q][m] = Record(x)
        <3>1. Record(x) \in Operations /\ Record(x) # Use(a)
            BY <2>1 DEF Operations, Use, Record
        <3>2. CASE q = b.queue
            <4>1. queue[q] \in Seq(Operations) /\ queue'[q] = Append(queue[q], Record(x))
                BY <2>10, <3>2
            <4>2. /\ DOMAIN queue'[q] = DOMAIN queue[q] \cup {Len(queue[q]) + 1}
                  /\ \A m \in DOMAIN queue[q] :
                        m \in Int /\ Len(queue[q]) + 1 > m /\ queue'[q][m] = queue[q][m]
                  /\ queue'[q][Len(queue[q]) + 1] = Record(x)
                BY <3>1, <4>1, Appended
            <4> QED
                BY <3>1, <4>2
        <3>3. CASE q # b.queue
            BY <2>10, <3>3
        <3> QED
            BY <3>2, <3>3
    <2>12. \/ live_blocks_[a] # None /\ live_blocks_[a].queue = q
           \/ /\ \E i \in CachedAt[a] : cached_blocks_[i].queue = q
              /\ \E m \in DOMAIN queue[q] : m > k /\ queue[q][m] = Record(a)
           \/ \E u \in OwnedBy[a] : pc[u] = "drop" /\ block[u].queue = q
        BY <2>10, <2>11 DEF EventGuardsWork
    <2>13. CASE a = x
        BY <2>1, <2>6, <2>9, <2>11, <2>12, <2>13
    <2>14. CASE a # x
        BY <2>3, <2>6, <2>8, <2>11, <2>12, <2>14
    <2> QED
        BY <2>13, <2>14
<1>20. ASSUME NEW t \in Threads, Drop(t) PROVE EventGuardsWork'
    <2> DEFINE x == block[t].buffer
               b == Freed(t)
    <2>1. x \in Addr /\ live_blocks_[x] # None /\ b = live_blocks_[x] /\ b \in BlockDescriptor
        BY <1>20 DEF Drop, IsLive, Freed
    <2>2. b.buffer = x
        BY <2>1 DEF WellFiled
    <2>3. \A a \in Addr : \A u \in OwnedBy[a] : pc[u] = "drop" =>
            u \in OwnedBy'[a] /\ pc'[u] = "drop" /\ block'[u] = block[u]
        BY <1>20 DEF Drop, OwnedBy
    <2>4. CachedAt' = CachedAt /\ cached_blocks_' = cached_blocks_
        BY <1>20 DEF Drop, CachedAt
    <2>5. t \in OwnedBy'[x] /\ pc'[t] = "drop" /\ block'[t] = b
        BY <1>20, <2>1, <2>2 DEF Drop, OwnedBy
    <2>6. /\ \A a \in Addr \ {x} : live_blocks_'[a] = live_blocks_[a]
          /\ queue' = queue
        BY <1>20, <2>2 DEF Drop, EraseLiveBlock
    <2>7. CachedAt[x] = {} /\ OwnedBy[x] = {}
        BY <2>1 DEF SoleOwner
    <2> HIDE DEF x, b
    <2>8. EventGuardsWork
        OBVIOUS
    <2> HIDE DEF IInv, TypeOK
    <2> SUFFICES ASSUME NEW q \in Queues, NEW k \in DOMAIN queue'[q], NEW a \in Addr,
                        queue'[q][k] = Use(a)
                 PROVE  \/ live_blocks_'[a] # None /\ live_blocks_'[a].queue = q
                        \/ /\ \E i \in CachedAt'[a] : cached_blocks_'[i].queue = q
                           /\ \E m \in DOMAIN queue'[q] : m > k /\ queue'[q][m] = Record(a)
                        \/ \E u \in OwnedBy'[a] : pc'[u] = "drop" /\ block'[u].queue = q
        BY DEF EventGuardsWork
    <2>9. \/ live_blocks_[a] # None /\ live_blocks_[a].queue = q
          \/ /\ \E i \in CachedAt[a] : cached_blocks_[i].queue = q
             /\ \E m \in DOMAIN queue[q] : m > k /\ queue[q][m] = Record(a)
          \/ \E u \in OwnedBy[a] : pc[u] = "drop" /\ block[u].queue = q
        BY <2>6, <2>8 DEF EventGuardsWork
    <2>10. CASE a = x
        BY <2>1, <2>5, <2>7, <2>9, <2>10
    <2>11. CASE a # x
        BY <2>3, <2>4, <2>6, <2>9, <2>11
    <2> QED
        BY <2>10, <2>11
<1>21. ASSUME NEW t \in Threads, ReleaseDropped(t) PROVE EventGuardsWork'
    <2> DEFINE x == block[t].buffer
    <2>3. \A a \in Addr \ {x} : \A u \in OwnedBy[a] : pc[u] = "drop" =>
            u \in OwnedBy'[a] /\ pc'[u] = "drop" /\ block'[u] = block[u]
        BY <1>21 DEF ReleaseDropped, OwnedBy
    <2>4. CachedAt' = CachedAt /\ cached_blocks_' = cached_blocks_
        BY <1>21 DEF ReleaseDropped, CachedAt
    <2>7. \A q \in Queues : \A k \in DOMAIN queue[q] : queue[q][k] # Use(x)
        BY <1>21 DEF ReleaseDropped, CanRelease, PendingOn
    <2>8. queue' = queue /\ live_blocks_' = live_blocks_
        BY <1>21 DEF ReleaseDropped
    <2> HIDE DEF x
    <2> HIDE DEF IInv, TypeOK
    <2> QED
        BY <2>3, <2>4, <2>7, <2>8, UnusedBufferMoves DEF IInv
<1>22. ASSUME NEW a \in Addr, Submit(a) PROVE EventGuardsWork'
    <2> DEFINE p == held[a].queue
    <2>1. p \in Queues /\ live_blocks_[a] # None /\ live_blocks_[a].queue = p
        BY <1>22 DEF Submit, HeldIsLive
    <2>2. \A q \in Queues : queue'[q] = IF q = p THEN Append(queue[q], Use(a)) ELSE queue[q]
        BY <1>22, <2>1 DEF Submit
    <2>3. /\ live_blocks_' = live_blocks_ /\ cached_blocks_' = cached_blocks_
          /\ CachedAt' = CachedAt /\ OwnedBy' = OwnedBy /\ pc' = pc /\ block' = block
        BY <1>22 DEF Submit, CachedAt, OwnedBy
    <2>4. EventGuardsWork /\ queue[p] \in Seq(Operations)
        BY <2>1
    <2> HIDE DEF IInv, TypeOK, p
    <2> SUFFICES ASSUME NEW q \in Queues, NEW k \in DOMAIN queue'[q], NEW c \in Addr,
                        queue'[q][k] = Use(c)
                 PROVE  \/ live_blocks_'[c] # None /\ live_blocks_'[c].queue = q
                        \/ /\ \E i \in CachedAt'[c] : cached_blocks_'[i].queue = q
                           /\ \E m \in DOMAIN queue'[q] : m > k /\ queue'[q][m] = Record(c)
                        \/ \E u \in OwnedBy'[c] : pc'[u] = "drop" /\ block'[u].queue = q
        BY DEF EventGuardsWork
    <2>5. /\ \/ k \in DOMAIN queue[q] /\ queue[q][k] = Use(c)
             \/ q = p /\ c = a
          /\ \A m \in DOMAIN queue[q] : m \in DOMAIN queue'[q] /\ queue'[q][m] = queue[q][m]
        <3>1. Use(a) \in Operations /\ Use(a).addr = a /\ Use(c).addr = c
            BY DEF Operations, Use
        <3>2. CASE q = p
            <4>2. queue[q] \in Seq(Operations) /\ queue'[q] = Append(queue[q], Use(a))
                BY <2>2, <2>4, <3>2
            <4>1. /\ DOMAIN queue'[q] = DOMAIN queue[q] \cup {Len(queue[q]) + 1}
                  /\ \A m \in DOMAIN queue[q] : queue'[q][m] = queue[q][m]
                  /\ queue'[q][Len(queue[q]) + 1] = Use(a)
                BY <3>1, <4>2, Appended
            <4> QED
                BY <3>1, <3>2, <4>1
        <3>3. CASE q # p
            BY <2>2, <3>3
        <3> QED
            BY <3>2, <3>3
    <2>7. CASE k \in DOMAIN queue[q] /\ queue[q][k] = Use(c)
        <3>1. \/ live_blocks_[c] # None /\ live_blocks_[c].queue = q
              \/ /\ \E i \in CachedAt[c] : cached_blocks_[i].queue = q
                 /\ \E m \in DOMAIN queue[q] : m > k /\ queue[q][m] = Record(c)
              \/ \E u \in OwnedBy[c] : pc[u] = "drop" /\ block[u].queue = q
            BY <2>4, <2>7 DEF EventGuardsWork
        <3> QED
            BY <2>3, <2>5, <3>1
    <2>8. CASE q = p /\ c = a
        BY <2>1, <2>3, <2>8
    <2> QED
        BY <2>5, <2>7, <2>8
<1>23. ASSUME NEW q \in Queues, Execute(q) PROVE EventGuardsWork'
    <2>1. \A p \in Queues : queue'[p] = IF p = q THEN Tail(queue[p]) ELSE queue[p]
        BY <1>23 DEF Execute
    <2>2. /\ live_blocks_' = live_blocks_ /\ cached_blocks_' = cached_blocks_
          /\ CachedAt' = CachedAt /\ OwnedBy' = OwnedBy /\ pc' = pc /\ block' = block
        BY <1>23 DEF Execute, CachedAt, OwnedBy
    <2>3. EventGuardsWork /\ queue[q] \in Seq(Operations) /\ queue[q] # << >>
        BY <1>23 DEF Execute
    <2> HIDE DEF IInv, TypeOK
    <2> SUFFICES ASSUME NEW p \in Queues, NEW k \in DOMAIN queue'[p], NEW a \in Addr,
                        queue'[p][k] = Use(a)
                 PROVE  \/ live_blocks_'[a] # None /\ live_blocks_'[a].queue = p
                        \/ /\ \E i \in CachedAt'[a] : cached_blocks_'[i].queue = p
                           /\ \E m \in DOMAIN queue'[p] : m > k /\ queue'[p][m] = Record(a)
                        \/ \E u \in OwnedBy'[a] : pc'[u] = "drop" /\ block'[u].queue = p
        BY DEF EventGuardsWork
    <2>4. CASE p # q
        BY <2>1, <2>2, <2>3, <2>4 DEF EventGuardsWork
    <2>5. CASE p = q
        <3>1. /\ k + 1 \in DOMAIN queue[p] /\ queue[p][k + 1] = Use(a)
              /\ \A m \in DOMAIN queue[p] : m > k + 1 =>
                    m - 1 \in DOMAIN queue'[p] /\ m - 1 > k /\ queue'[p][m - 1] = queue[p][m]
            <4>1. queue[p] \in Seq(Operations) /\ queue[p] # << >> /\ queue'[p] = Tail(queue[p])
                BY <2>1, <2>3, <2>5
            <4>2. /\ \A j \in DOMAIN queue'[p] :
                        j \in Int /\ j >= 1 /\ j + 1 \in DOMAIN queue[p] /\ queue'[p][j] = queue[p][j + 1]
                  /\ \A m \in DOMAIN queue[p] : \A j \in Int : j >= 1 /\ m > j + 1 =>
                        m - 1 \in DOMAIN queue'[p] /\ m - 1 > j /\ queue'[p][m - 1] = queue[p][m]
                BY <4>1, Shifted
            <4> QED
                BY <4>2
        <3>2. \/ live_blocks_[a] # None /\ live_blocks_[a].queue = p
              \/ /\ \E i \in CachedAt[a] : cached_blocks_[i].queue = p
                 /\ \E m \in DOMAIN queue[p] : m > k + 1 /\ queue[p][m] = Record(a)
              \/ \E u \in OwnedBy[a] : pc[u] = "drop" /\ block[u].queue = p
            BY <2>3, <3>1 DEF EventGuardsWork
        <3> QED
            BY <2>2, <3>1, <3>2
    <2> QED
        BY <2>4, <2>5
<1>24. ASSUME UNCHANGED vars PROVE EventGuardsWork'
    BY <1>24, WorkStaysGuarded DEF vars
<1> QED
    BY <1>1, <1>2, <1>3, <1>4, <1>5, <1>6, <1>7, <1>8, <1>9, <1>10, <1>11, <1>12, <1>13, <1>14, <1>15, <1>16, <1>17, <1>18, <1>19, <1>20, <1>21, <1>22, <1>23, <1>24 DEF Next, Step, Exit

-----------------------------------------------------------------------------
(* Every step preserves the invariant.                                      *)
LEMMA IInvStep == IInv /\ [Next]_vars => IInv'
<1> SUFFICES ASSUME IInv, [Next]_vars PROVE IInv'
    OBVIOUS
<1>1. TypeOK'
    BY TypeStep
<1>2. MutexHeld'
    BY MutexStep
<1>3. LocalBlock'
    BY <1>1, LocalBlockStep
<1>4. WellFiled'
    BY <1>1, WellFiledStep
<1>5. HeldIsLive'
    BY <1>1, HeldIsLiveStep
<1>6. FreeingIsLive'
    BY <1>1, FreeingIsLiveStep
<1>7. ShutDown'
    BY ShutDownStep
<1>8. SoleOwner'
    BY <1>1, SoleOwnerStep
<1>9. EventGuardsWork'
    BY <1>1, EventGuardsWorkStep
<1> QED
    BY <1>1, <1>2, <1>3, <1>4, <1>5, <1>6, <1>7, <1>8, <1>9 DEF IInv

(* The inductive invariant holds in every reachable state.                  *)
THEOREM Invariance == Spec => []IInv
BY InitIInv, IInvStep, PTL DEF Spec

(* Every variable of the allocator keeps its type.                          *)
THEOREM TypeCorrect == Spec => []TypeOK
BY Invariance, PTL DEF IInv

(* No buffer is handed out twice, released twice or leaked: whatever the    *)
(* threads do between try_reuse, the driver's calls, the flush and free,    *)
(* an allocated buffer has exactly one owner.                               *)
THEOREM BuffersHaveOneOwner == Spec => []SoleOwner
BY Invariance, PTL DEF IInv

(* The event recorded in free guards all the work the earlier owners of a   *)
(* cached buffer submitted.                                                 *)
THEOREM PendingWorkIsGuarded == Spec => []EventGuardsWork
BY Invariance, PTL DEF IInv

(* What allocate returned stays live until its holder frees it, is large    *)
(* enough, and has an event of its queue's device.                          *)
THEOREM HeldBlocksServe == Spec => []HeldBlockServes
<1>1. IInv => HeldBlockServes
    BY NoneAssumption DEF IInv, HeldIsLive, WellFiled, HeldBlockServes
<1> QED
    BY <1>1, Invariance, PTL

(* free finds the block of a buffer its caller held, in every interleaving. *)
THEOREM FreeFindsHeldBlocks == Spec => []HeldFreeSucceeds
<1>1. IInv => HeldFreeSucceeds
    BY NoneAssumption DEF IInv, TypeOK, BlockDescriptor, FreeingIsLive, HeldFreeSucceeds, IsLive
<1> QED
    BY <1>1, Invariance, PTL

(* After the destructor no buffer is left allocated.                        *)
THEOREM DestructorLeaksNothing == Spec => []DestructorReleasesAll
<1> SUFFICES ASSUME IInv, destroyed, \A t \in Threads : pc[t] = "idle"
             PROVE  \A a \in Addr : memory[a] = 0
    BY Invariance, PTL DEF DestructorReleasesAll
<1>1. cached_blocks_ = << >> /\ \A a \in Addr : live_blocks_[a] = None
    BY DEF IInv, ShutDown
<1>2. \A a \in Addr : CachedAt[a] = {} /\ OwnedBy[a] = {}
    BY <1>1 DEF CachedAt, OwnedBy
<1> QED
    BY <1>1, <1>2 DEF IInv, SoleOwner

(* The cached bytes never exceed max_cached_bytes_.                         *)
THEOREM CacheStaysWithinLimit == Spec => []CacheWithinLimit
<1>1. Init => CacheWithinLimit
    BY LimitsAssumption DEF Init, CacheWithinLimit
<1>2. IInv /\ CacheWithinLimit /\ [Next]_vars => CacheWithinLimit'
    <2> SUFFICES ASSUME IInv, CacheWithinLimit, [Next]_vars
                 PROVE  CacheWithinLimit'
        OBVIOUS
    <2> USE LimitsAssumption DEF CacheWithinLimit
    <2>1. cached_bytes_ \in [free : Int, live : Int, requested : Int]
        BY DEF IInv, TypeOK
    <2>10. \A i \in DOMAIN cached_blocks_ : cached_blocks_[i] \in BlockDescriptor
        BY DEF IInv, TypeOK
    <2>2. \A i \in DOMAIN cached_blocks_ :
            cached_blocks_[i] \in BlockDescriptor /\ cached_blocks_[i].bytes \in Nat
        BY <2>10 DEF BlockDescriptor
    <2>3. ASSUME NEW t \in Threads, ReuseCached(t) PROVE CacheWithinLimit'
        <3>1. iblock[t] \in DOMAIN cached_blocks_
            BY <2>3 DEF ReuseCached, IInv, TypeOK
        <3>2. Reused(t).bytes \in Nat
            BY <2>2, <3>1 DEF Reused, Scanned, BlockDescriptor
        <3>3. cached_bytes_'.free = cached_bytes_.free - Reused(t).bytes
            BY <2>1, <2>3 DEF ReuseCached, Uncached, WithLive
        <3> QED
            BY <2>1, <3>2, <3>3
    <2>4. ASSUME NEW t \in Threads, InsertLive(t) PROVE CacheWithinLimit'
        BY <2>4 DEF InsertLive, WithLive
    <2>5. ASSUME NEW t \in Threads, FlushOne(t) PROVE CacheWithinLimit'
        <3>1. PICK i \in DOMAIN cached_blocks_ :
                cached_bytes_' = Uncached(cached_bytes_, cached_blocks_[i])
            BY <2>5 DEF FlushOne
        <3>2. cached_bytes_'.free = cached_bytes_.free - cached_blocks_[i].bytes
            BY <2>1, <3>1 DEF Uncached
        <3> QED
            BY <2>1, <2>2, <3>2
    <2>6. ASSUME NEW t \in Threads, Recache(t) PROVE CacheWithinLimit'
        <3>1. cached_bytes_'.free = cached_bytes_.free + Freed(t).bytes
            BY <2>1, <2>6 DEF Recache, Cached, WithoutLive
        <3> QED
            BY <2>6, <3>1 DEF Recache, FitsInCache
    <2>7. ASSUME NEW t \in Threads, Drop(t) PROVE CacheWithinLimit'
        BY <2>7 DEF Drop, WithoutLive
    <2>8. ASSUME UNCHANGED cached_bytes_ PROVE CacheWithinLimit'
        BY <2>8
    <2>9. \/ \E t \in Threads : ReuseCached(t) \/ InsertLive(t) \/ FlushOne(t)
                                 \/ Recache(t) \/ Drop(t)
          \/ UNCHANGED cached_bytes_
        BY DEF Next, Step, Exit, vars, allocator, Allocate, AllocateTooLarge, Free, Destroy,
               BeginScan, SkipCached, ReuseThrows, NothingToReuse, AllocateBuffer,
               OutOfMemory, CreateEventThrows, Unwind, BeginFlush, EndFlush, FreeNotLive,
               ReleaseDropped, Submit, Execute
    <2> QED
        BY <2>3, <2>4, <2>5, <2>6, <2>7, <2>8, <2>9
<1> QED
    BY <1>1, <1>2, Invariance, PTL DEF Spec

-----------------------------------------------------------------------------
(* Accounting.  The counters are sums over finite functions, whose laws     *)
(* follow from a minimal counterexample: a least set for which the law      *)
(* fails is refuted by the law for the set without one element.             *)

(* A set of subsets of a finite set has a smallest one: what the sums below *)
(* use in place of induction.                                               *)
LEMMA MinimalSubset ==
    ASSUME NEW S, IsFiniteSet(S), NEW bad \in SUBSET (SUBSET S), bad # {}
    PROVE  \E T \in bad : \A U \in bad : U \subseteq T => U = T
<1>1. FiniteSubsetsOf(S) = SUBSET S
    BY FS_FiniteSubsetsOfFinite
<1>2. IsWellFoundedOn(StrictSubsetOrdering(S), SUBSET S)
    BY <1>1, FS_StrictSubsetOrderingWellFounded
<1>3. PICK T \in bad : \A U \in bad : ~ (<<U, T>> \in StrictSubsetOrdering(S))
    BY <1>2, WFMin
<1>4. ASSUME NEW U \in bad, U \subseteq T PROVE U = T
    BY <1>3, <1>4 DEF StrictSubsetOrdering
<1> QED
    BY <1>4

(* What the recursion of a sum makes of a finite set of indices.            *)
Pick(s) == CHOOSE x \in s : TRUE

Summed(g, f, S) ==
    g = [s \in SUBSET S |-> IF s = {} THEN 0 ELSE f[Pick(s)] + g[s \ {Pick(s)}]]

(* A sum is computed by the recursion, if there is a function it defines.   *)
LEMMA SumIs ==
    ASSUME NEW f, NEW S, \E g : Summed(g, f, S)
    PROVE  \E g : Summed(g, f, S) /\ SumFunctionOnSet(f, S) = g[S]
<1> DEFINE iter == CHOOSE g : Summed(g, f, S)
<1>1. Summed(iter, f, S)
    OBVIOUS
<1>2. SumFunctionOnSet(f, S) = iter[S]
    BY DEF SumFunctionOnSet, FoldFunctionOnSet, MapThenFoldSet, Summed, Pick
<1> QED
    BY <1>1, <1>2

(* The element taken first is one of the set's.                             *)
LEMMA PickIn == \A s : s # {} => Pick(s) \in s
    BY DEF Pick

(* The recursion over a set and over a part of it agree on the part.        *)
LEMMA SummedUnique ==
    ASSUME NEW S, IsFiniteSet(S), NEW f, NEW T \in SUBSET S, NEW g, Summed(g, f, S),
           NEW h, Summed(h, f, T)
    PROVE  \A U \in SUBSET T : g[U] = h[U]
<1> DEFINE bad == {U \in SUBSET T : g[U] # h[U]}
<1> SUFFICES ASSUME bad # {} PROVE FALSE
    OBVIOUS
<1>1. \E U \in bad : \A V \in bad : V \subseteq U => V = U
    <2>1. bad \in SUBSET (SUBSET T)
        OBVIOUS
    <2> HIDE DEF bad
    <2> QED
        BY <2>1, MinimalSubset, FS_Subset
<1> PICK U \in bad : \A V \in bad : V \subseteq U => V = U
    BY <1>1
<1>2. U # {}
    BY DEF Summed
<1>3. Pick(U) \in U
    BY <1>2, PickIn
<1> DEFINE V == U \ {Pick(U)}
<1>4. g[V] = h[V]
    <2>1. V \in SUBSET T /\ V # U
        BY <1>3
    <2> QED
        BY <1>1, <2>1
<1>5. g[U] = f[Pick(U)] + g[V] /\ h[U] = f[Pick(U)] + h[V]
    BY <1>2 DEF Summed
<1> QED
    BY <1>4, <1>5

(* The recursion over a finite set defines a function.                      *)
LEMMA SummedExists ==
    ASSUME NEW S, IsFiniteSet(S), NEW f
    PROVE  \A T \in SUBSET S : \E g : Summed(g, f, T)
<1> DEFINE bad == {T \in SUBSET S : ~ \E g : Summed(g, f, T)}
<1> SUFFICES ASSUME bad # {} PROVE FALSE
    OBVIOUS
<1>1. \E T \in bad : \A V \in bad : V \subseteq T => V = T
    <2>1. bad \in SUBSET (SUBSET S)
        OBVIOUS
    <2> HIDE DEF bad
    <2> QED
        BY <2>1, MinimalSubset
<1> PICK T \in bad : \A V \in bad : V \subseteq T => V = T
    BY <1>1
<1> DEFINE value(U) == SumFunctionOnSet(f, U)
           g == [s \in SUBSET T |-> IF s = {} THEN 0 ELSE f[Pick(s)] + value(s \ {Pick(s)})]
<1>2. ASSUME NEW U \in SUBSET T, U # T
      PROVE  \E h : Summed(h, f, U) /\ value(U) = h[U]
    <2>1. \E h : Summed(h, f, U)
        BY <1>1, <1>2
    <2> QED
        BY <2>1, SumIs
<1>3. ASSUME NEW U \in SUBSET T, U # T
      PROVE  g[U] = value(U)
    <2>1. PICK h : Summed(h, f, U) /\ value(U) = h[U]
        BY <1>2, <1>3
    <2> HIDE DEF value
    <2>2. CASE U = {}
        BY <2>1, <2>2 DEF Summed
    <2>3. CASE U # {}
        <3> DEFINE V == U \ {Pick(U)}
        <3>1. Pick(U) \in U
            BY <2>3, PickIn
        <3>2. V \in SUBSET T /\ V # T /\ V \in SUBSET U
            BY <3>1
        <3>3. PICK k : Summed(k, f, V) /\ value(V) = k[V]
            <4> HIDE DEF V
            <4> QED
                BY <1>2, <3>2
        <3>4. IsFiniteSet(U)
            BY FS_Subset
        <3>5. h[V] = k[V]
            <4> HIDE DEF V
            <4> QED
                BY <2>1, <3>2, <3>3, <3>4, SummedUnique
        <3>6. h[U] = f[Pick(U)] + h[V]
            BY <2>1, <2>3 DEF Summed
        <3>7. g[U] = f[Pick(U)] + value(V)
            BY <2>3
        <3> QED
            BY <2>1, <3>3, <3>5, <3>6, <3>7
    <2> QED
        BY <2>2, <2>3
<1>4. ASSUME NEW s \in SUBSET T, s # {}
      PROVE  g[s \ {Pick(s)}] = value(s \ {Pick(s)})
    <2>1. Pick(s) \in s
        BY <1>4, PickIn
    <2>2. s \ {Pick(s)} \in SUBSET T /\ s \ {Pick(s)} # T
        BY <2>1
    <2> HIDE DEF g, value
    <2> QED
        BY <1>3, <2>2
<1>5. Summed(g, f, T)
    <2> DEFINE body == [s \in SUBSET T |-> IF s = {} THEN 0 ELSE f[Pick(s)] + g[s \ {Pick(s)}]]
    <2>1. ASSUME NEW s \in SUBSET T PROVE g[s] = body[s]
        <3>1. CASE s = {}
            BY <3>1
        <3>2. CASE s # {}
            <4>1. g[s] = f[Pick(s)] + value(s \ {Pick(s)})
                BY <3>2
            <4>2. body[s] = f[Pick(s)] + g[s \ {Pick(s)}]
                BY <3>2
            <4> QED
                BY <1>4, <3>2, <4>1, <4>2
        <3> QED
            BY <3>1, <3>2
    <2>2. g = body
        <3>1. g = [s \in SUBSET T |-> g[s]] /\ body = [s \in SUBSET T |-> body[s]]
            OBVIOUS
        <3> HIDE DEF g, body
        <3> QED
            BY <2>1, <3>1
    <2> QED
        BY <2>2 DEF Summed
<1> QED
    BY <1>1, <1>5

(* The sum of a finite set takes any element first.                         *)
LEMMA SumFirst ==
    ASSUME NEW S, IsFiniteSet(S), NEW f
    PROVE  /\ SumFunctionOnSet(f, {}) = 0
           /\ S # {} => SumFunctionOnSet(f, S) = f[Pick(S)] + SumFunctionOnSet(f, S \ {Pick(S)})
<1>1. ASSUME NEW T \in SUBSET S
      PROVE  \E g : Summed(g, f, T) /\ SumFunctionOnSet(f, T) = g[T]
    BY SummedExists, SumIs
<1>2. SumFunctionOnSet(f, {}) = 0
    <2>1. PICK g : Summed(g, f, {}) /\ SumFunctionOnSet(f, {}) = g[{}]
        BY <1>1
    <2> QED
        BY <2>1 DEF Summed
<1>3. ASSUME S # {}
      PROVE  SumFunctionOnSet(f, S) = f[Pick(S)] + SumFunctionOnSet(f, S \ {Pick(S)})
    <2> DEFINE T == S \ {Pick(S)}
    <2>1. PICK g : Summed(g, f, S) /\ SumFunctionOnSet(f, S) = g[S]
        BY <1>1
    <2>2. PICK h : Summed(h, f, T) /\ SumFunctionOnSet(f, T) = h[T]
        BY <1>1
    <2>3. g[T] = h[T]
        <3>1. T \in SUBSET S
            OBVIOUS
        <3> HIDE DEF T
        <3> QED
            BY <2>1, <2>2, <3>1, SummedUnique
    <2>4. g[S] = f[Pick(S)] + g[T]
        BY <1>3, <2>1 DEF Summed
    <2> QED
        BY <2>1, <2>2, <2>3, <2>4
<1> QED
    BY <1>2, <1>3

(* A sum of integers over any part of a finite set is an integer.           *)
LEMMA SumType ==
    ASSUME NEW S, IsFiniteSet(S), NEW f, \A x \in S : f[x] \in Int
    PROVE  \A T \in SUBSET S : SumFunctionOnSet(f, T) \in Int
<1>0. SumFunctionOnSet(f, {}) = 0
    BY SumFirst
<1> DEFINE bad == {T \in SUBSET S : SumFunctionOnSet(f, T) \notin Int}
<1> SUFFICES ASSUME bad # {} PROVE FALSE
    OBVIOUS
<1>1. \E T \in bad : \A V \in bad : V \subseteq T => V = T
    <2>1. bad \in SUBSET (SUBSET S)
        OBVIOUS
    <2> HIDE DEF bad
    <2> QED
        BY <2>1, MinimalSubset
<1> PICK T \in bad : \A V \in bad : V \subseteq T => V = T
    BY <1>1
<1>2. IsFiniteSet(T)
    BY FS_Subset
<1>3. T # {}
    <2>1. SumFunctionOnSet(f, {}) \in Int
        BY <1>0
    <2>2. SumFunctionOnSet(f, T) \notin Int
        OBVIOUS
    <2> HIDE DEF bad
    <2> QED
        BY <2>1, <2>2
<1>4. Pick(T) \in T
    BY <1>3, PickIn
<1>5. T \ {Pick(T)} \in SUBSET S /\ T \ {Pick(T)} # T
    BY <1>4
<1>6. SumFunctionOnSet(f, T \ {Pick(T)}) \in Int
    BY <1>1, <1>5
<1>7. SumFunctionOnSet(f, T) = f[Pick(T)] + SumFunctionOnSet(f, T \ {Pick(T)})
    BY <1>2, <1>3, SumFirst
<1>8. f[Pick(T)] \in Int
    BY <1>4
<1> QED
    BY <1>6, <1>7, <1>8

(* A sum depends only on the values at its indices.                         *)
LEMMA SumSame ==
    ASSUME NEW S, IsFiniteSet(S), NEW f, NEW g, \A x \in S : f[x] = g[x]
    PROVE  SumFunctionOnSet(f, S) = SumFunctionOnSet(g, S)
<1> DEFINE bad == {T \in SUBSET S : SumFunctionOnSet(f, T) # SumFunctionOnSet(g, T)}
<1> SUFFICES ASSUME bad # {} PROVE FALSE
    OBVIOUS
<1>1. \E T \in bad : \A V \in bad : V \subseteq T => V = T
    <2>1. bad \in SUBSET (SUBSET S)
        OBVIOUS
    <2> HIDE DEF bad
    <2> QED
        BY <2>1, MinimalSubset
<1> PICK T \in bad : \A V \in bad : V \subseteq T => V = T
    BY <1>1
<1>2. IsFiniteSet(T)
    BY FS_Subset
<1>3. T # {}
    BY <1>2, SumFirst
<1>4. Pick(T) \in T
    BY <1>3, PickIn
<1>5. T \ {Pick(T)} \in SUBSET S /\ T \ {Pick(T)} # T
    BY <1>4
<1>6. SumFunctionOnSet(f, T \ {Pick(T)}) = SumFunctionOnSet(g, T \ {Pick(T)})
    BY <1>1, <1>5
<1>7. /\ SumFunctionOnSet(f, T) = f[Pick(T)] + SumFunctionOnSet(f, T \ {Pick(T)})
      /\ SumFunctionOnSet(g, T) = g[Pick(T)] + SumFunctionOnSet(g, T \ {Pick(T)})
    BY <1>2, <1>3, SumFirst
<1>8. f[Pick(T)] = g[Pick(T)]
    BY <1>4
<1> QED
    BY <1>6, <1>7, <1>8

(* The sum over a set is that over the others plus any one element's value. *)
LEMMA SumWithout ==
    ASSUME NEW S, IsFiniteSet(S), NEW f, \A x \in S : f[x] \in Int, NEW x \in S
    PROVE  SumFunctionOnSet(f, S) = SumFunctionOnSet(f, S \ {x}) + f[x]
<1> DEFINE sum(T) == SumFunctionOnSet(f, T)
           bad == {T \in SUBSET S : \E y \in T : sum(T) # sum(T \ {y}) + f[y]}
<1> SUFFICES ASSUME bad # {} PROVE FALSE
    OBVIOUS
<1>1. \E T \in bad : \A V \in bad : V \subseteq T => V = T
    <2>1. bad \in SUBSET (SUBSET S)
        OBVIOUS
    <2> HIDE DEF bad
    <2> QED
        BY <2>1, MinimalSubset
<1> PICK T \in bad : \A V \in bad : V \subseteq T => V = T
    BY <1>1
<1>2. PICK y \in T : sum(T) # sum(T \ {y}) + f[y]
    OBVIOUS
<1>3. IsFiniteSet(T) /\ T # {}
    BY FS_Subset
<1>t. \A U \in SUBSET S : sum(U) \in Int
    BY SumType
<1> DEFINE p == Pick(T)
<1>4. p \in T
    BY <1>3, PickIn
<1>5. sum(T) = f[p] + sum(T \ {p})
    BY <1>3, SumFirst
<1>6. p # y
    <2> SUFFICES ASSUME p = y PROVE FALSE
        OBVIOUS
    <2>1. sum(T \ {p}) \in Int /\ f[p] \in Int
        BY <1>4, <1>t
    <2> HIDE DEF sum, p, bad
    <2>2. f[p] + sum(T \ {p}) = sum(T \ {p}) + f[p]
        BY <2>1
    <2> QED
        BY <1>2, <1>5, <2>2
<1> HIDE DEF sum, p
<1>7. sum(T \ {p}) = sum((T \ {p}) \ {y}) + f[y]
    <2>1. T \ {p} \notin bad
        <3>1. T \ {p} # T /\ T \ {p} \subseteq T
            BY <1>4
        <3> QED
            BY <1>1, <3>1
    <2>2. T \ {p} \in SUBSET S /\ y \in T \ {p}
        BY <1>6
    <2> QED
        BY <2>1, <2>2
<1>8. sum(T \ {y}) = sum((T \ {y}) \ {p}) + f[p]
    <2>1. T \ {y} \notin bad
        <3>1. T \ {y} # T /\ T \ {y} \subseteq T
            OBVIOUS
        <3> QED
            BY <1>1, <3>1
    <2>2. T \ {y} \in SUBSET S /\ p \in T \ {y}
        BY <1>4, <1>6
    <2> QED
        BY <2>1, <2>2
<1>9. (T \ {y}) \ {p} = (T \ {p}) \ {y}
    OBVIOUS
<1>10. sum((T \ {p}) \ {y}) \in Int /\ f[y] \in Int /\ f[p] \in Int
    <2>1. (T \ {p}) \ {y} \in SUBSET S
        OBVIOUS
    <2> QED
        BY <1>4, <1>t, <2>1
<1> DEFINE r == sum((T \ {p}) \ {y})
           k == f[y]
           l == f[p]
<1>11. sum(T) = l + (r + k) /\ sum(T \ {y}) = r + l
    BY <1>5, <1>7, <1>8, <1>9
<1>12. r \in Int /\ k \in Int /\ l \in Int
    BY <1>10
<1>13. sum(T) # sum(T \ {y}) + k
    BY <1>2
<1> HIDE DEF r, k, l, bad
<1>14. l + (r + k) = (r + l) + k
    BY <1>12
<1> QED
    BY <1>11, <1>13, <1>14

(* The sum of a function whose domain gains an element ...                  *)
LEMMA SumExtended ==
    ASSUME NEW f, NEW g, NEW x, IsFiniteSet(DOMAIN f), x \notin DOMAIN f,
           DOMAIN g = DOMAIN f \cup {x}, \A y \in DOMAIN g : g[y] \in Int,
           \A y \in DOMAIN f : g[y] = f[y]
    PROVE  SumFunction(g) = SumFunction(f) + g[x]
<1> DEFINE D == DOMAIN f
           E == DOMAIN g
<1>1. IsFiniteSet(E) /\ x \in E /\ E \ {x} = D
    BY FS_AddElement
<1>2. SumFunctionOnSet(g, E) = SumFunctionOnSet(g, E \ {x}) + g[x]
    <2> HIDE DEF E
    <2>1. \A y \in E : g[y] \in Int
        BY DEF E
    <2> QED
        BY <1>1, <2>1, SumWithout
<1>3. SumFunctionOnSet(g, D) = SumFunctionOnSet(f, D)
    <2>1. \A y \in D : g[y] = f[y]
        OBVIOUS
    <2>2. IsFiniteSet(D)
        OBVIOUS
    <2> HIDE DEF D
    <2> QED
        BY <2>1, <2>2, SumSame
<1> QED
    BY <1>1, <1>2, <1>3 DEF SumFunction

(* ... is an integer.                                                       *)
LEMMA SumFunctionType ==
    ASSUME NEW f, IsFiniteSet(DOMAIN f), \A y \in DOMAIN f : f[y] \in Int
    PROVE  SumFunction(f) \in Int
<1> DEFINE D == DOMAIN f
<1>1. IsFiniteSet(D) /\ \A y \in D : f[y] \in Int
    OBVIOUS
<1> HIDE DEF D
<1>2. SumFunctionOnSet(f, D) \in Int
    BY <1>1, SumType
<1> QED
    BY <1>2 DEF SumFunction, D

(* The sum of the first k values.                                           *)
LEMMA SumTo ==
    ASSUME NEW k \in Nat \ {0}, NEW f, \A j \in 1 .. k : f[j] \in Int
    PROVE  SumFunctionOnSet(f, 1 .. k) = SumFunctionOnSet(f, 1 .. k - 1) + f[k]
<1> DEFINE S == 1 .. k
<1>1. IsFiniteSet(S) /\ k \in S /\ S \ {k} = 1 .. k - 1 /\ \A j \in S : f[j] \in Int
    BY FS_Interval
<1> HIDE DEF S
<1>2. SumFunctionOnSet(f, S) = SumFunctionOnSet(f, S \ {k}) + f[k]
    BY <1>1, SumWithout
<1> QED
    BY <1>1, <1>2 DEF S

(* The sum of a list that loses an element.                                 *)
LEMMA SumRemoved ==
    ASSUME NEW n \in Nat \ {0}, NEW f, \A j \in 1 .. n : f[j] \in Int, DOMAIN f = 1 .. n,
           NEW i \in 1 .. n, NEW g, DOMAIN g = 1 .. n - 1,
           \A j \in 1 .. n - 1 : g[j] = IF j < i THEN f[j] ELSE f[j + 1]
    PROVE  SumFunction(g) = SumFunction(f) - f[i]
<1> DEFINE before(k) == SumFunctionOnSet(f, 1 .. k + 1)
           after(k)  == SumFunctionOnSet(g, 1 .. k)
           bad == {T \in SUBSET (1 .. n - 1) :
                    \E k \in i - 1 .. n - 1 : T = 1 .. k /\ after(k) # before(k) - f[i]}
<1>f. \A k \in Nat : IsFiniteSet(1 .. k)
    BY FS_Interval
<1>g. \A j \in 1 .. n - 1 : g[j] \in Int
    OBVIOUS
<1>b. \A k \in i - 1 .. n - 1 : k \in Nat /\ before(k) \in Int /\ after(k) \in Int
    <2> TAKE k \in i - 1 .. n - 1
    <2>1. k \in Nat /\ 1 .. k + 1 \in SUBSET (1 .. n) /\ 1 .. k \in SUBSET (1 .. n - 1)
        OBVIOUS
    <2>2. IsFiniteSet(1 .. n) /\ IsFiniteSet(1 .. n - 1)
        BY <1>f
    <2>3. \A T \in SUBSET (1 .. n) : SumFunctionOnSet(f, T) \in Int
        BY <2>2, SumType
    <2>4. \A T \in SUBSET (1 .. n - 1) : SumFunctionOnSet(g, T) \in Int
        BY <1>g, <2>2, SumType
    <2> QED
        BY <2>1, <2>3, <2>4
<1>1. ASSUME NEW k \in i - 1 .. n - 1, after(k) # before(k) - f[i]
      PROVE  FALSE
    <2>0. 1 .. k \in bad
        BY <1>1
    <2>1. \E T \in bad : \A U \in bad : U \subseteq T => U = T
        <3> DEFINE S == 1 .. n - 1
        <3>1. IsFiniteSet(S)
            <4>1. n - 1 \in Nat
                OBVIOUS
            <4> QED
                BY <1>f, <4>1
        <3>2. bad \in SUBSET (SUBSET S)
            OBVIOUS
        <3> HIDE DEF bad, S
        <3>3. bad # {}
            BY <2>0
        <3> QED
            BY <3>1, <3>2, <3>3, MinimalSubset
    <2>2. PICK T \in bad : \A U \in bad : U \subseteq T => U = T
        BY <2>1
    <2>3. PICK m \in i - 1 .. n - 1 : T = 1 .. m /\ after(m) # before(m) - f[i]
        BY <2>2
    <2>4. CASE m = i - 1
        <3>1. after(m) = SumFunctionOnSet(f, 1 .. m)
            <4>1. \A j \in 1 .. m : g[j] = f[j]
                BY <2>4
            <4>2. IsFiniteSet(1 .. m)
                BY <1>b, <1>f
            <4> QED
                BY <4>1, <4>2, SumSame
        <3>2. before(m) = SumFunctionOnSet(f, 1 .. m) + f[i]
            <4>1. m + 1 = i /\ m = i - 1 /\ i \in Nat \ {0} /\ \A j \in 1 .. i : f[j] \in Int
                BY <2>4
            <4>2. SumFunctionOnSet(f, 1 .. i) = SumFunctionOnSet(f, 1 .. i - 1) + f[i]
                BY <4>1, SumTo
            <4> QED
                BY <4>1, <4>2
        <3>3. after(m) \in Int /\ f[i] \in Int
            BY <1>b
        <3> HIDE DEF before, after
        <3> QED
            BY <2>3, <3>1, <3>2, <3>3
    <2>5. CASE m # i - 1
        <3>1. /\ m - 1 \in i - 1 .. n - 1 /\ m \in 1 .. n - 1
              /\ 1 .. m - 1 \in SUBSET (1 .. n - 1) /\ 1 .. m - 1 \subseteq T /\ 1 .. m - 1 # T
            BY <2>3, <2>5
        <3>2. 1 .. m - 1 \notin bad
            <4> HIDE DEF bad
            <4> QED
                BY <2>2, <3>1
        <3>3. after(m - 1) = before(m - 1) - f[i]
            <4> HIDE DEF after, before
            <4> QED
                BY <3>1, <3>2
        <3>4. after(m) = after(m - 1) + g[m]
            <4>1. m \in Nat \ {0} /\ \A j \in 1 .. m : g[j] \in Int
                BY <1>g, <3>1
            <4> QED
                BY <4>1, SumTo
        <3>5. before(m) = before(m - 1) + f[m + 1]
            <4>1. m + 1 \in Nat \ {0} /\ \A j \in 1 .. m + 1 : f[j] \in Int
                BY <3>1
            <4>2. SumFunctionOnSet(f, 1 .. m + 1) = SumFunctionOnSet(f, 1 .. (m + 1) - 1) + f[m + 1]
                BY <4>1, SumTo
            <4>3. (m + 1) - 1 = (m - 1) + 1
                BY <4>1
            <4> QED
                BY <4>2, <4>3
        <3>6. g[m] = f[m + 1] /\ g[m] \in Int /\ f[i] \in Int
            BY <1>g, <2>5, <3>1
        <3>7. after(m - 1) \in Int /\ before(m - 1) \in Int
            BY <1>b, <3>1
        <3> HIDE DEF before, after
        <3> DEFINE a == after(m - 1)
                   c == before(m - 1)
                   d == g[m]
                   e == f[i]
        <3>8. after(m) = a + d /\ before(m) = c + d /\ a = c - e
            BY <3>3, <3>4, <3>5, <3>6
        <3>9. a \in Int /\ c \in Int /\ d \in Int /\ e \in Int
            BY <3>6, <3>7
        <3>10. after(m) # before(m) - e
            BY <2>3
        <3> HIDE DEF a, c, d, e
        <3> QED
            BY <3>8, <3>9, <3>10
    <2> QED
        BY <2>4, <2>5
<1>2. after(n - 1) = before(n - 1) - f[i]
    <2>1. n - 1 \in i - 1 .. n - 1
        OBVIOUS
    <2> HIDE DEF after, before
    <2> QED
        BY <1>1, <2>1
<1>3. (n - 1) + 1 = n
    OBVIOUS
<1> QED
    BY <1>2, <1>3 DEF SumFunction

(* A block that becomes live adds its bytes and its request.                *)
LEMMA LiveInserted ==
    ASSUME TypeOK, IsFiniteSet(Live), NEW b \in BlockDescriptor, b.buffer \in Addr,
           live_blocks_[b.buffer] = None,
           live_blocks_' = [live_blocks_ EXCEPT ![b.buffer] = b]
    PROVE  /\ IsFiniteSet(Live')
           /\ SumFunction(LiveSizes') = SumFunction(LiveSizes) + b.bytes
           /\ SumFunction(LiveRequests') = SumFunction(LiveRequests) + b.requested
<1> DEFINE x == b.buffer
<1>1. /\ x \in Addr /\ b \in BlockDescriptor /\ b # None
      /\ live_blocks_ \in [Addr -> BlockDescriptor \cup {None}]
      /\ live_blocks_' = [live_blocks_ EXCEPT ![x] = b] /\ live_blocks_[x] = None
    BY NoneAssumption DEF TypeOK
<1> HIDE DEF x
<1>2. x \notin Live /\ Live' = Live \cup {x}
    BY <1>1 DEF Live
<1>3. /\ live_blocks_'[x] = b
      /\ \A a \in Live : live_blocks_'[a] = live_blocks_[a]
      /\ \A a \in Live' : live_blocks_'[a] \in BlockDescriptor
    BY <1>1 DEF Live
<1>4. \A d \in BlockDescriptor : d.bytes \in Int /\ d.requested \in Int
    BY DEF BlockDescriptor
<1>5. IsFiniteSet(Live')
    BY <1>2, FS_AddElement
<1>6. SumFunction(LiveSizes') = SumFunction(LiveSizes) + b.bytes
    <2> DEFINE f == LiveSizes
               g == [a \in Live' |-> live_blocks_'[a].bytes]
    <2>1. DOMAIN f = Live /\ DOMAIN g = Live' /\ g[x] = b.bytes
        BY <1>2, <1>3 DEF LiveSizes
    <2>2. \A y \in DOMAIN g : g[y] \in Int
        BY <1>3, <1>4
    <2>3. \A y \in DOMAIN f : g[y] = f[y]
        BY <1>2, <1>3 DEF LiveSizes
    <2>4. LiveSizes' = g
        BY DEF LiveSizes
    <2> HIDE DEF f, g
    <2>5. SumFunction(g) = SumFunction(f) + g[x]
        BY <1>2, <2>1, <2>2, <2>3, SumExtended
    <2> QED
        BY <2>1, <2>4, <2>5 DEF f
<1>7. SumFunction(LiveRequests') = SumFunction(LiveRequests) + b.requested
    <2> DEFINE f == LiveRequests
               g == [a \in Live' |-> live_blocks_'[a].requested]
    <2>1. DOMAIN f = Live /\ DOMAIN g = Live' /\ g[x] = b.requested
        BY <1>2, <1>3 DEF LiveRequests
    <2>2. \A y \in DOMAIN g : g[y] \in Int
        BY <1>3, <1>4
    <2>3. \A y \in DOMAIN f : g[y] = f[y]
        BY <1>2, <1>3 DEF LiveRequests
    <2>4. LiveRequests' = g
        BY DEF LiveRequests
    <2> HIDE DEF f, g
    <2>5. SumFunction(g) = SumFunction(f) + g[x]
        BY <1>2, <2>1, <2>2, <2>3, SumExtended
    <2> QED
        BY <2>1, <2>4, <2>5 DEF f
<1> QED
    BY <1>5, <1>6, <1>7

(* A block that leaves the live ones takes its bytes and its request along. *)
LEMMA LiveErased ==
    ASSUME TypeOK, IsFiniteSet(Live), NEW x \in Live,
           live_blocks_' = [live_blocks_ EXCEPT ![x] = None]
    PROVE  /\ IsFiniteSet(Live')
           /\ SumFunction(LiveSizes') = SumFunction(LiveSizes) - live_blocks_[x].bytes
           /\ SumFunction(LiveRequests') = SumFunction(LiveRequests) - live_blocks_[x].requested
<1> DEFINE rest == Live \ {x}
<1>1. /\ x \in Addr
      /\ live_blocks_ \in [Addr -> BlockDescriptor \cup {None}]
    BY DEF TypeOK, Live
<1>2. Live' = rest /\ x \notin rest /\ Live = rest \cup {x}
    BY <1>1 DEF Live
<1>3. /\ \A a \in rest : live_blocks_'[a] = live_blocks_[a]
      /\ \A a \in Live : live_blocks_[a] \in BlockDescriptor
    BY <1>1 DEF Live
<1>4. \A d \in BlockDescriptor : d.bytes \in Int /\ d.requested \in Int
    BY DEF BlockDescriptor
<1>5. IsFiniteSet(rest)
    BY FS_Subset
<1> HIDE DEF rest
<1>6. SumFunction(LiveSizes') = SumFunction(LiveSizes) - live_blocks_[x].bytes
    <2> DEFINE f == [a \in rest |-> live_blocks_[a].bytes]
               g == LiveSizes
    <2>1. DOMAIN f = rest /\ DOMAIN g = Live /\ g[x] = live_blocks_[x].bytes
        BY DEF LiveSizes
    <2>2. /\ \A y \in DOMAIN g : g[y] \in Int
          /\ \A y \in DOMAIN f : f[y] \in Int
        BY <1>2, <1>3, <1>4 DEF LiveSizes
    <2>3. \A y \in DOMAIN f : g[y] = f[y]
        BY <1>2, <1>3 DEF LiveSizes
    <2>4. LiveSizes' = f
        BY <1>2, <1>3 DEF LiveSizes
    <2> HIDE DEF f, g
    <2>5. SumFunction(g) = SumFunction(f) + g[x]
        BY <1>2, <1>5, <2>1, <2>2, <2>3, SumExtended
    <2>6. SumFunction(f) \in Int /\ g[x] \in Int
        BY <1>2, <1>5, <2>1, <2>2, SumFunctionType
    <2>7. SumFunction(f) = SumFunction(g) - g[x]
        BY <2>5, <2>6
    <2> QED
        BY <2>1, <2>4, <2>7 DEF g
<1>7. SumFunction(LiveRequests') = SumFunction(LiveRequests) - live_blocks_[x].requested
    <2> DEFINE f == [a \in rest |-> live_blocks_[a].requested]
               g == LiveRequests
    <2>1. DOMAIN f = rest /\ DOMAIN g = Live /\ g[x] = live_blocks_[x].requested
        BY DEF LiveRequests
    <2>2. /\ \A y \in DOMAIN g : g[y] \in Int
          /\ \A y \in DOMAIN f : f[y] \in Int
        BY <1>2, <1>3, <1>4 DEF LiveRequests
    <2>3. \A y \in DOMAIN f : g[y] = f[y]
        BY <1>2, <1>3 DEF LiveRequests
    <2>4. LiveRequests' = f
        BY <1>2, <1>3 DEF LiveRequests
    <2> HIDE DEF f, g
    <2>5. SumFunction(g) = SumFunction(f) + g[x]
        BY <1>2, <1>5, <2>1, <2>2, <2>3, SumExtended
    <2>6. SumFunction(f) \in Int /\ g[x] \in Int
        BY <1>2, <1>5, <2>1, <2>2, SumFunctionType
    <2>7. SumFunction(f) = SumFunction(g) - g[x]
        BY <2>5, <2>6
    <2> QED
        BY <2>1, <2>4, <2>7 DEF g
<1>8. IsFiniteSet(Live')
    BY <1>2, <1>5
<1> QED
    BY <1>6, <1>7, <1>8

(* A block that leaves the cache takes its bytes along.                     *)
LEMMA CachedErased ==
    ASSUME TypeOK, NEW i \in DOMAIN cached_blocks_, cached_blocks_' = Erased(i)
    PROVE  SumFunction(CachedSizes') = SumFunction(CachedSizes) - cached_blocks_[i].bytes
<1> DEFINE n == Len(cached_blocks_)
           f == CachedSizes
           g == [j \in DOMAIN cached_blocks_' |-> cached_blocks_'[j].bytes]
<1>1. /\ cached_blocks_ \in Seq(BlockDescriptor) /\ i \in 1 .. n
      /\ DOMAIN cached_blocks_ = 1 .. n /\ n \in Nat \ {0}
    BY DEF TypeOK
<1>2. /\ cached_blocks_' \in Seq(BlockDescriptor) /\ Len(cached_blocks_') = n - 1
      /\ \A j \in 1 .. n - 1 :
            cached_blocks_'[j] = IF j < i THEN cached_blocks_[j] ELSE cached_blocks_[j + 1]
    BY <1>1, RemoveAtProperties DEF Erased
<1>3. DOMAIN cached_blocks_' = 1 .. n - 1
    BY <1>2
<1>4. \A j \in 1 .. n : f[j] \in Int /\ f[j] = cached_blocks_[j].bytes
    <2>1. \A d \in BlockDescriptor : d.bytes \in Int
        BY DEF BlockDescriptor
    <2>2. \A j \in 1 .. n : cached_blocks_[j] \in BlockDescriptor
        BY <1>1
    <2>3. \A j \in 1 .. n : f[j] = cached_blocks_[j].bytes
        BY <1>1 DEF CachedSizes
    <2> QED
        BY <2>1, <2>2, <2>3
<1>5. DOMAIN f = 1 .. n /\ DOMAIN g = 1 .. n - 1
    BY <1>1, <1>3 DEF CachedSizes
<1>6. \A j \in 1 .. n - 1 : g[j] = IF j < i THEN f[j] ELSE f[j + 1]
    <2> TAKE j \in 1 .. n - 1
    <2>1. g[j] = cached_blocks_'[j].bytes /\ j \in 1 .. n /\ j + 1 \in 1 .. n
        BY <1>1, <1>3
    <2> QED
        BY <1>2, <1>4, <2>1
<1>7. CachedSizes' = g
    BY DEF CachedSizes
<1> HIDE DEF f, g, n
<1>8. SumFunction(g) = SumFunction(f) - f[i]
    BY <1>1, <1>4, <1>5, <1>6, SumRemoved
<1> QED
    BY <1>1, <1>4, <1>7, <1>8 DEF f

(* A block that enters the cache adds its bytes.                            *)
LEMMA CachedAppended ==
    ASSUME TypeOK, NEW b \in BlockDescriptor, cached_blocks_' = Append(cached_blocks_, b)
    PROVE  SumFunction(CachedSizes') = SumFunction(CachedSizes) + b.bytes
<1> DEFINE x == Len(cached_blocks_) + 1
           f == CachedSizes
           g == [j \in DOMAIN cached_blocks_' |-> cached_blocks_'[j].bytes]
<1>1. /\ DOMAIN cached_blocks_' = DOMAIN cached_blocks_ \cup {x}
      /\ x \notin DOMAIN cached_blocks_
      /\ \A j \in DOMAIN cached_blocks_ : cached_blocks_'[j] = cached_blocks_[j]
      /\ cached_blocks_'[x] = b
    BY AppendedBlocks
<1>2. IsFiniteSet(DOMAIN cached_blocks_)
    <2>1. Len(cached_blocks_) \in Nat /\ DOMAIN cached_blocks_ = 1 .. Len(cached_blocks_)
        BY DEF TypeOK
    <2> QED
        BY <2>1, FS_Interval
<1>3. \A j \in DOMAIN cached_blocks_ : cached_blocks_[j] \in BlockDescriptor
    BY DEF TypeOK
<1>4. \A d \in BlockDescriptor : d.bytes \in Int
    BY DEF BlockDescriptor
<1>5. \A y \in DOMAIN g : g[y] \in Int
    BY <1>1, <1>3, <1>4
<1>6. DOMAIN f = DOMAIN cached_blocks_ /\ DOMAIN g = DOMAIN cached_blocks_' /\ g[x] = b.bytes
    BY <1>1 DEF CachedSizes
<1>7. \A y \in DOMAIN f : g[y] = f[y]
    BY <1>1 DEF CachedSizes
<1>8. CachedSizes' = g
    BY DEF CachedSizes
<1> HIDE DEF f, g, x
<1>9. SumFunction(g) = SumFunction(f) + g[x]
    BY <1>1, <1>2, <1>5, <1>6, <1>7, SumExtended
<1> QED
    BY <1>6, <1>8, <1>9 DEF f

(* The live blocks are finitely many, as each was entered by a step.        *)
FinitelyLive == IsFiniteSet(Live)

(* Every step accounts for the blocks it moves.                             *)
LEMMA AccountingStep ==
    ASSUME IInv, FinitelyLive, AccountingExact, [Next]_vars
    PROVE  FinitelyLive' /\ AccountingExact'
<1>1. TypeOK /\ cached_bytes_ \in Accounting /\ IsFiniteSet(Live)
    BY DEF IInv, TypeOK, Accounting, FinitelyLive
<1>2. /\ SumFunction(LiveSizes) \in Int /\ SumFunction(LiveRequests) \in Int
      /\ SumFunction(CachedSizes) \in Int
    BY <1>1 DEF AccountingExact, Accounting
<1>3. \A b \in BlockDescriptor : b.bytes \in Int /\ b.requested \in Int
    BY DEF BlockDescriptor
<1>4. /\ \A a \in Live : live_blocks_[a] \in BlockDescriptor /\ live_blocks_[a].buffer = a
      /\ \A i \in DOMAIN cached_blocks_ : cached_blocks_[i] \in BlockDescriptor
    BY DEF IInv, TypeOK, WellFiled, Live
<1>5. ASSUME NEW t \in Threads, ReuseCached(t) PROVE FinitelyLive' /\ AccountingExact'
    <2> DEFINE i == iblock[t]
               b == Reused(t)
    <2>1. /\ i \in DOMAIN cached_blocks_ /\ cached_blocks_' = Erased(i)
          /\ live_blocks_' = [live_blocks_ EXCEPT ![b.buffer] = b]
          /\ cached_bytes_' = Uncached(WithLive(cached_bytes_, b), b)
        BY <1>5 DEF ReuseCached, IInv, TypeOK, InsertLiveBlock
    <2>2. /\ b \in BlockDescriptor /\ b.buffer = cached_blocks_[i].buffer
          /\ b.bytes = cached_blocks_[i].bytes /\ b.requested = cached_blocks_[i].requested
        <3> DEFINE c == cached_blocks_[i]
        <3>1. b = [c EXCEPT !.queue = block[t].queue, !.event = QueueDevice[block[t].queue]]
            BY DEF Reused, Scanned
        <3>2. c \in BlockDescriptor /\ block[t].queue \in Queues
            BY <1>1, <1>4, <2>1 DEF TypeOK, BlockDescriptor
        <3>3. QueueDevice[block[t].queue] \in Devices
            BY <3>2, LimitsAssumption
        <3> HIDE DEF b, c
        <3>4. b \in BlockDescriptor /\ b.buffer = c.buffer /\ b.bytes = c.bytes
              /\ b.requested = c.requested
            BY <3>1, <3>2, <3>3 DEF BlockDescriptor
        <3> QED
            BY <3>4 DEF c
    <2>3. b.buffer \in Addr /\ live_blocks_[b.buffer] = None
        <3>1. b.buffer \in Addr /\ i \in CachedAt[b.buffer]
            BY <2>1, <2>2 DEF IInv, WellFiled, CachedAt
        <3> QED
            BY <3>1 DEF IInv, SoleOwner
    <2> HIDE DEF b, i
    <2>4. /\ IsFiniteSet(Live')
          /\ SumFunction(LiveSizes') = SumFunction(LiveSizes) + b.bytes
          /\ SumFunction(LiveRequests') = SumFunction(LiveRequests) + b.requested
        BY <1>1, <2>1, <2>2, <2>3, LiveInserted
    <2>5. SumFunction(CachedSizes') = SumFunction(CachedSizes) - b.bytes
        BY <1>1, <2>1, <2>2, CachedErased
    <2>6. /\ cached_bytes_'.free = cached_bytes_.free - b.bytes
          /\ cached_bytes_'.live = cached_bytes_.live + b.bytes
          /\ cached_bytes_'.requested = cached_bytes_.requested + b.requested
        BY <2>1 DEF Uncached, WithLive
    <2> QED
        BY <2>4, <2>5, <2>6 DEF AccountingExact, FinitelyLive
<1>6. ASSUME NEW t \in Threads, InsertLive(t) PROVE FinitelyLive' /\ AccountingExact'
    <2> DEFINE b == [block[t] EXCEPT !.event = QueueDevice[block[t].queue]]
    <2>1. /\ live_blocks_' = [live_blocks_ EXCEPT ![b.buffer] = b]
          /\ cached_bytes_' = WithLive(cached_bytes_, b)
          /\ cached_blocks_' = cached_blocks_
        BY <1>6 DEF InsertLive, InsertLiveBlock
    <2>2. b \in BlockDescriptor /\ b.buffer = block[t].buffer
        BY <1>1, LimitsAssumption DEF BlockDescriptor, TypeOK
    <2>3. b.buffer \in Addr /\ live_blocks_[b.buffer] = None
        <3>1. pc[t] = "insert" /\ block[t].buffer # None
            BY <1>6 DEF InsertLive, IInv, LocalBlock
        <3>2. block[t].buffer \in Addr
            BY <1>1, <3>1 DEF BlockDescriptor, TypeOK
        <3>3. t \in OwnedBy[block[t].buffer]
            BY <3>1, <3>2 DEF OwnedBy
        <3> QED
            BY <2>2, <3>2, <3>3 DEF IInv, SoleOwner
    <2> HIDE DEF b
    <2>4. /\ IsFiniteSet(Live')
          /\ SumFunction(LiveSizes') = SumFunction(LiveSizes) + b.bytes
          /\ SumFunction(LiveRequests') = SumFunction(LiveRequests) + b.requested
        BY <1>1, <2>1, <2>2, <2>3, LiveInserted
    <2>5. CachedSizes' = CachedSizes
        BY <2>1 DEF CachedSizes
    <2>6. /\ cached_bytes_'.free = cached_bytes_.free
          /\ cached_bytes_'.live = cached_bytes_.live + b.bytes
          /\ cached_bytes_'.requested = cached_bytes_.requested + b.requested
        BY <2>1 DEF WithLive
    <2> QED
        BY <2>4, <2>5, <2>6 DEF AccountingExact, FinitelyLive
<1>7. ASSUME NEW t \in Threads, FlushOne(t) PROVE FinitelyLive' /\ AccountingExact'
    <2>1. PICK i \in DOMAIN cached_blocks_ :
            /\ cached_bytes_' = Uncached(cached_bytes_, cached_blocks_[i])
            /\ cached_blocks_' = Erased(i)
        BY <1>7 DEF FlushOne
    <2>2. live_blocks_' = live_blocks_
        BY <1>7 DEF FlushOne
    <2>3. Live' = Live /\ LiveSizes' = LiveSizes /\ LiveRequests' = LiveRequests
        BY <2>2 DEF Live, LiveSizes, LiveRequests
    <2>4. SumFunction(CachedSizes') = SumFunction(CachedSizes) - cached_blocks_[i].bytes
        BY <1>1, <2>1, CachedErased
    <2>5. /\ cached_bytes_'.free = cached_bytes_.free - cached_blocks_[i].bytes
          /\ cached_bytes_'.live = cached_bytes_.live
          /\ cached_bytes_'.requested = cached_bytes_.requested
        BY <1>1, <2>1 DEF Uncached, Accounting
    <2> QED
        BY <2>3, <2>4, <2>5 DEF AccountingExact, FinitelyLive
<1>8. ASSUME NEW t \in Threads, Recache(t) PROVE FinitelyLive' /\ AccountingExact'
    <2> DEFINE x == block[t].buffer
               b == live_blocks_[x]
    <2>1. x \in Live /\ b \in BlockDescriptor /\ b.buffer = x
        BY <1>4, <1>8 DEF Recache, IsLive, Live
    <2>2. /\ live_blocks_' = [live_blocks_ EXCEPT ![x] = None]
          /\ cached_bytes_' = Cached(WithoutLive(cached_bytes_, b), b)
          /\ cached_blocks_' = Append(cached_blocks_, b)
        BY <1>8, <2>1 DEF Recache, Freed, EraseLiveBlock
    <2> HIDE DEF x
    <2>3. /\ IsFiniteSet(Live')
          /\ SumFunction(LiveSizes') = SumFunction(LiveSizes) - b.bytes
          /\ SumFunction(LiveRequests') = SumFunction(LiveRequests) - b.requested
        BY <1>1, <2>1, <2>2, LiveErased
    <2> HIDE DEF b
    <2>4. SumFunction(CachedSizes') = SumFunction(CachedSizes) + b.bytes
        BY <1>1, <2>1, <2>2, CachedAppended
    <2>5. /\ cached_bytes_'.free = cached_bytes_.free + b.bytes
          /\ cached_bytes_'.live = cached_bytes_.live - b.bytes
          /\ cached_bytes_'.requested = cached_bytes_.requested - b.requested
        BY <2>2 DEF Cached, WithoutLive
    <2> QED
        BY <2>3, <2>4, <2>5 DEF AccountingExact, FinitelyLive
<1>9. ASSUME NEW t \in Threads, Drop(t) PROVE FinitelyLive' /\ AccountingExact'
    <2> DEFINE x == block[t].buffer
               b == live_blocks_[x]
    <2>1. x \in Live /\ b \in BlockDescriptor /\ b.buffer = x
        BY <1>4, <1>9 DEF Drop, IsLive, Live
    <2>2. /\ live_blocks_' = [live_blocks_ EXCEPT ![x] = None]
          /\ cached_bytes_' = WithoutLive(cached_bytes_, b)
          /\ cached_blocks_' = cached_blocks_
        BY <1>9, <2>1 DEF Drop, Freed, EraseLiveBlock
    <2> HIDE DEF x
    <2>3. /\ IsFiniteSet(Live')
          /\ SumFunction(LiveSizes') = SumFunction(LiveSizes) - b.bytes
          /\ SumFunction(LiveRequests') = SumFunction(LiveRequests) - b.requested
        BY <1>1, <2>1, <2>2, LiveErased
    <2>4. CachedSizes' = CachedSizes
        BY <2>2 DEF CachedSizes
    <2>5. /\ cached_bytes_'.free = cached_bytes_.free
          /\ cached_bytes_'.live = cached_bytes_.live - b.bytes
          /\ cached_bytes_'.requested = cached_bytes_.requested - b.requested
        BY <2>2 DEF WithoutLive
    <2> QED
        BY <2>3, <2>4, <2>5 DEF AccountingExact, FinitelyLive
<1>10. ASSUME UNCHANGED <<cached_bytes_, cached_blocks_, live_blocks_>>
       PROVE  FinitelyLive' /\ AccountingExact'
    <2>1. /\ Live' = Live /\ LiveSizes' = LiveSizes /\ LiveRequests' = LiveRequests
          /\ CachedSizes' = CachedSizes
        BY <1>10 DEF Live, LiveSizes, LiveRequests, CachedSizes
    <2> QED
        BY <1>10, <2>1 DEF AccountingExact, FinitelyLive
<1>11. \/ \E t \in Threads : ReuseCached(t) \/ InsertLive(t) \/ FlushOne(t)
                              \/ Recache(t) \/ Drop(t)
       \/ UNCHANGED <<cached_bytes_, cached_blocks_, live_blocks_>>
    BY DEF Next, Step, Exit, vars, allocator, Allocate, AllocateTooLarge, Free, Destroy,
           BeginScan, SkipCached, ReuseThrows, NothingToReuse, AllocateBuffer,
           OutOfMemory, CreateEventThrows, Unwind, BeginFlush, EndFlush, FreeNotLive,
           ReleaseDropped, Submit, Execute
<1> QED
    BY <1>5, <1>6, <1>7, <1>8, <1>9, <1>10, <1>11

(* The counters are the sums over the two containers in every reachable     *)
(* state, whatever the threads interleave.                                  *)
THEOREM AccountingIsExact == Spec => []AccountingExact
<1>1. Init => FinitelyLive /\ AccountingExact
    <2> SUFFICES ASSUME Init PROVE FinitelyLive /\ AccountingExact
        OBVIOUS
    <2>1. /\ Live = {} /\ DOMAIN cached_blocks_ = {} /\ IsFiniteSet({})
          /\ DOMAIN LiveSizes = {} /\ DOMAIN LiveRequests = {} /\ DOMAIN CachedSizes = {}
        BY FS_EmptySet DEF Init, Live, LiveSizes, LiveRequests, CachedSizes
    <2>2. \A f : SumFunctionOnSet(f, {}) = 0
        BY <2>1, SumFirst
    <2>3. /\ SumFunction(LiveSizes) = 0 /\ SumFunction(LiveRequests) = 0
          /\ SumFunction(CachedSizes) = 0
        BY <2>1, <2>2 DEF SumFunction
    <2>4. cached_bytes_.free = 0 /\ cached_bytes_.live = 0 /\ cached_bytes_.requested = 0
        BY DEF Init
    <2> QED
        BY <2>1, <2>3, <2>4 DEF AccountingExact, FinitelyLive
<1>2. IInv /\ (FinitelyLive /\ AccountingExact) /\ [Next]_vars
        => (FinitelyLive /\ AccountingExact)'
    BY AccountingStep
<1> QED
    BY <1>1, <1>2, Invariance, PTL DEF Spec

-----------------------------------------------------------------------------
(* Hand-over and the memory pool                                            *)

(* The step that makes the buffer at x live hands it out from the cache,    *)
(* where the scan found it reusable, or fresh from the driver.              *)
LEMMA HandOut ==
    ASSUME IInv, [Next]_vars, NEW x \in Addr,
           live_blocks_[x] = None, live_blocks_'[x] # None
    PROVE  \E t \in Threads :
            \/ /\ ReuseCached(t)
               /\ cached_blocks_[iblock[t]].buffer = x
               /\ live_blocks_'[x].queue = block[t].queue
            \/ InsertLive(t) /\ block[t].buffer = x
<1>1. \/ \E t \in Threads : ReuseCached(t) \/ InsertLive(t) \/ Recache(t) \/ Drop(t)
      \/ UNCHANGED live_blocks_
    BY DEF Next, Step, Exit, vars, allocator, Allocate, AllocateTooLarge, Free, Destroy,
           BeginScan, SkipCached, ReuseThrows, NothingToReuse, AllocateBuffer,
           OutOfMemory, CreateEventThrows, Unwind, BeginFlush, FlushOne, EndFlush,
           FreeNotLive, ReleaseDropped, Submit, Execute
<1>2. live_blocks_ \in [Addr -> BlockDescriptor \cup {None}]
    BY DEF IInv, TypeOK
<1>3. ASSUME NEW t \in Threads, ReuseCached(t)
      PROVE  /\ cached_blocks_[iblock[t]].buffer = x
             /\ live_blocks_'[x].queue = block[t].queue
    <2>1. iblock[t] \in DOMAIN cached_blocks_
        BY <1>3 DEF ReuseCached, IInv, TypeOK
    <2>2. cached_blocks_[iblock[t]] \in BlockDescriptor
        BY <2>1 DEF IInv, TypeOK
    <2>3. /\ Reused(t).buffer = cached_blocks_[iblock[t]].buffer
          /\ Reused(t).queue = block[t].queue
        BY <2>2 DEF Reused, Scanned, BlockDescriptor
    <2>4. live_blocks_' = [live_blocks_ EXCEPT ![Reused(t).buffer] = Reused(t)]
        BY <1>3 DEF ReuseCached, InsertLiveBlock
    <2> QED
        BY <1>2, <2>3, <2>4
<1>4. ASSUME NEW t \in Threads, InsertLive(t)
      PROVE  block[t].buffer = x
    <2>1. block[t] \in BlockDescriptor
        BY DEF IInv, TypeOK
    <2>2. [block[t] EXCEPT !.event = QueueDevice[block[t].queue]].buffer = block[t].buffer
        BY <2>1 DEF BlockDescriptor
    <2>3. \A a \in Addr : a # block[t].buffer => live_blocks_'[a] = live_blocks_[a]
        BY <1>2, <1>4, <2>2 DEF InsertLive, InsertLiveBlock
    <2> QED
        BY <2>3
<1>5. ASSUME NEW t \in Threads, Recache(t) \/ Drop(t)
      PROVE  FALSE
    <2>1. \A a \in Addr : live_blocks_'[a] # None => live_blocks_'[a] = live_blocks_[a]
        BY <1>2, <1>5 DEF Recache, Drop, EraseLiveBlock
    <2> QED
        BY <2>1
<1> QED
    BY <1>1, <1>3, <1>4, <1>5

(* A buffer that becomes live has no pending work but, where the allocator  *)
(* may reuse it at once, work ahead in its new owner's queue.               *)
LEMMA HandOverStep ==
    ASSUME IInv, [Next]_vars, NEW x \in Addr,
           live_blocks_[x] = None, live_blocks_'[x] # None,
           NEW q \in Queues, PendingOn(Use(x), q)
    PROVE  ReuseSameQueue /\ q = live_blocks_'[x].queue
<1>1. \/ /\ \E i \in CachedAt[x] : cached_blocks_[i].queue = q
         /\ PendingOn(Record(x), q)
      \/ \E u \in OwnedBy[x] : pc[u] = "drop"
    BY DEF IInv, EventGuardsWork, PendingOn
<1>2. SoleOwner
    BY DEF IInv
<1>3. ASSUME NEW t \in Threads, InsertLive(t), block[t].buffer = x
      PROVE  FALSE
    <2>1. t \in OwnedBy[x] /\ pc[t] = "insert"
        BY <1>3 DEF InsertLive, OwnedBy
    <2>2. CachedAt[x] = {} /\ \A u \in OwnedBy[x] : u = t
        BY <1>2, <2>1 DEF SoleOwner
    <2> QED
        BY <1>1, <2>1, <2>2
<1>4. ASSUME NEW t \in Threads, ReuseCached(t), cached_blocks_[iblock[t]].buffer = x,
             live_blocks_'[x].queue = block[t].queue
      PROVE  ReuseSameQueue /\ q = live_blocks_'[x].queue
    <2>1. iblock[t] \in CachedAt[x]
        BY <1>4 DEF ReuseCached, IInv, TypeOK, CachedAt
    <2>2. OwnedBy[x] = {} /\ \A i \in CachedAt[x] : i = iblock[t]
        BY <1>2, <2>1 DEF SoleOwner
    <2>3. cached_blocks_[iblock[t]].queue = q /\ ~IsComplete(x)
        BY <1>1, <2>2 DEF IsComplete
    <2> QED
        BY <1>4, <2>3 DEF ReuseCached, Reusable, Scanned
<1> QED
    BY <1>3, <1>4, HandOut

(* Two owners' work on one buffer never runs in two queues at once.         *)
THEOREM HandOverWaitsForWork == Spec => HandOver
<1>1. IInv /\ [Next]_vars =>
        [\A a \in Addr : live_blocks_[a] = None /\ live_blocks_'[a] # None =>
            \A q \in Queues : PendingOn(Use(a), q) =>
                ReuseSameQueue /\ q = live_blocks_'[a].queue]_vars
    BY HandOverStep
<1> QED
    BY <1>1, Invariance, PTL DEF Spec, HandOver

(* The scan leaves no block behind that it could hand to the same queue.    *)
ScanComplete ==
    \A t \in Threads : pc[t] = "scan" =>
        \A i \in DOMAIN cached_blocks_ : i < iblock[t] =>
            ~ /\ ReuseSameQueue
              /\ cached_blocks_[i].bin = block[t].bin
              /\ cached_blocks_[i].queue = block[t].queue

(* A request goes to the driver only if no cached block of its bin was last *)
(* used in its queue.                                                       *)
THEOREM SameQueueBlockIsFound == Spec => SameQueueBlockFound
<1>1. Init => ScanComplete
    BY DEF Init, ScanComplete
<1>2. IInv /\ ScanComplete /\ [Next]_vars => ScanComplete'
    <2> SUFFICES ASSUME IInv, ScanComplete, [Next]_vars
                 PROVE  ScanComplete'
        OBVIOUS
    <2>1. /\ pc \in [Threads -> Labels] /\ iblock \in [Threads -> Nat \ {0}]
          /\ block \in [Threads -> BlockDescriptor] /\ Len(cached_blocks_) \in Nat
          /\ DOMAIN cached_blocks_ = 1 .. Len(cached_blocks_)
        BY DEF IInv, TypeOK
    <2>2. ASSUME NEW t \in Threads, BeginScan(t) PROVE ScanComplete'
        BY <2>1, <2>2 DEF BeginScan, ScanComplete, Goto
    <2>3. ASSUME NEW t \in Threads, SkipCached(t) PROVE ScanComplete'
        <3>1. ~ /\ ReuseSameQueue
                /\ cached_blocks_[iblock[t]].bin = block[t].bin
                /\ cached_blocks_[iblock[t]].queue = block[t].queue
            BY <2>3 DEF SkipCached, Reusable, Scanned
        <3>2. /\ cached_blocks_' = cached_blocks_ /\ pc' = pc /\ block' = block
              /\ iblock' = [iblock EXCEPT ![t] = iblock[t] + 1]
            BY <2>3 DEF SkipCached, allocator
        <3> QED
            BY <2>1, <3>1, <3>2 DEF ScanComplete
    <2>4. ASSUME NEW t \in Threads, \A u \in Threads : pc'[u] # "scan" PROVE ScanComplete'
        BY <2>4 DEF ScanComplete
    <2>5. ASSUME cached_blocks_' = cached_blocks_,
                 \A u \in Threads : pc'[u] = "scan" =>
                    pc[u] = "scan" /\ block'[u] = block[u] /\ iblock'[u] = iblock[u]
          PROVE  ScanComplete'
        BY <2>5 DEF ScanComplete
    <2>6. ASSUME NEW t \in Threads, ReuseCached(t) \/ FlushOne(t) \/ Recache(t)
          PROVE  \A u \in Threads : pc'[u] # "scan"
        <3>1. pc[t] \in {"scan", "flushing"} => mutex_ = t
            BY DEF IInv, MutexHeld
        <3>2. \A u \in Threads : pc[u] = "scan" => mutex_ = u
            BY DEF IInv, MutexHeld
        <3> QED
            BY <2>1, <2>6, <3>1, <3>2, NoneAssumption
               DEF ReuseCached, FlushOne, Recache, Return, Goto, threads
    <2>7. ASSUME NEW t \in Threads,
                 \/ Allocate(t) \/ AllocateTooLarge(t) \/ Free(t) \/ Destroy(t)
                 \/ ReuseThrows(t) \/ NothingToReuse(t) \/ AllocateBuffer(t)
                 \/ OutOfMemory(t) \/ InsertLive(t) \/ CreateEventThrows(t) \/ Unwind(t)
                 \/ BeginFlush(t) \/ FreeNotLive(t) \/ Drop(t) \/ ReleaseDropped(t)
          PROVE  ScanComplete'
        <3>1. cached_blocks_' = cached_blocks_
            BY <2>7 DEF allocator, Allocate, AllocateTooLarge, Free, Destroy, ReuseThrows,
                        NothingToReuse, AllocateBuffer, OutOfMemory, InsertLive,
                        CreateEventThrows, Unwind, BeginFlush, FreeNotLive, Drop,
                        ReleaseDropped
        <3>2. /\ \A u \in Threads \ {t} : pc'[u] = pc[u] /\ block'[u] = block[u] /\ iblock'[u] = iblock[u]
              /\ pc'[t] # "scan"
            BY <2>1, <2>7
               DEF allocator, Allocate, AllocateTooLarge, Free, Destroy, ReuseThrows,
                   NothingToReuse, AllocateBuffer, OutOfMemory, InsertLive,
                   CreateEventThrows, Unwind, BeginFlush, FreeNotLive, Drop,
                   ReleaseDropped, Goto, SetBlock, Return
        <3> QED
            BY <2>5, <3>1, <3>2
    <2>8. ASSUME NEW t \in Threads, EndFlush(t) PROVE ScanComplete'
        <3>1. \A u \in Threads \ {t} : pc'[u] = pc[u] /\ block'[u] = block[u] /\ iblock'[u] = iblock[u]
            BY <2>1, <2>8 DEF EndFlush, Goto, SetBlock, Return
        <3>2. pc'[t] # "scan" /\ cached_blocks_' = cached_blocks_
            BY <2>1, <2>8 DEF EndFlush, Goto, Return
        <3> QED
            BY <2>5, <3>1, <3>2
    <2>9. ASSUME UNCHANGED <<cached_blocks_, pc, block, iblock>> PROVE ScanComplete'
        BY <2>9 DEF ScanComplete
    <2>10. \/ \E t \in Threads : BeginScan(t) \/ SkipCached(t)
           \/ \E t \in Threads : ReuseCached(t) \/ FlushOne(t) \/ Recache(t)
           \/ \E t \in Threads :
                 \/ Allocate(t) \/ AllocateTooLarge(t) \/ Free(t) \/ Destroy(t)
                 \/ ReuseThrows(t) \/ NothingToReuse(t) \/ AllocateBuffer(t)
                 \/ OutOfMemory(t) \/ InsertLive(t) \/ CreateEventThrows(t) \/ Unwind(t)
                 \/ BeginFlush(t) \/ FreeNotLive(t) \/ Drop(t) \/ ReleaseDropped(t)
           \/ \E t \in Threads : EndFlush(t)
           \/ UNCHANGED <<cached_blocks_, pc, block, iblock>>
        <3>1. ASSUME NEW a \in Addr, Submit(a)
              PROVE  UNCHANGED <<cached_blocks_, pc, block, iblock>>
            BY <3>1 DEF Submit, allocator, threads
        <3>2. ASSUME NEW q \in Queues, Execute(q)
              PROVE  UNCHANGED <<cached_blocks_, pc, block, iblock>>
            BY <3>2 DEF Execute, allocator, threads
        <3>3. ASSUME UNCHANGED vars
              PROVE  UNCHANGED <<cached_blocks_, pc, block, iblock>>
            BY <3>3 DEF vars, allocator, threads
        <3> QED
            BY <3>1, <3>2, <3>3 DEF Next, Step, Exit
    <2> QED
        BY <2>2, <2>3, <2>4, <2>6, <2>7, <2>8, <2>9, <2>10
<1>3. IInv /\ ScanComplete /\ [Next]_vars =>
        [\A t \in Threads : pc[t] = "scan" /\ pc'[t] = "new" =>
            ~ \E i \in DOMAIN cached_blocks_ :
                /\ ReuseSameQueue
                /\ cached_blocks_[i].bin = block[t].bin
                /\ cached_blocks_[i].queue = block[t].queue]_vars
    <2> SUFFICES ASSUME IInv, ScanComplete, [Next]_vars, NEW t \in Threads,
                        pc[t] = "scan", pc'[t] = "new",
                        NEW i \in DOMAIN cached_blocks_
                 PROVE  ~ /\ ReuseSameQueue
                          /\ cached_blocks_[i].bin = block[t].bin
                          /\ cached_blocks_[i].queue = block[t].queue
        OBVIOUS
    <2>1. /\ pc \in [Threads -> Labels] /\ iblock \in [Threads -> Nat \ {0}]
          /\ Len(cached_blocks_) \in Nat
          /\ DOMAIN cached_blocks_ = 1 .. Len(cached_blocks_)
        BY DEF IInv, TypeOK
    <2>2. NothingToReuse(t)
        BY <2>1 DEF Next, Step, Exit, vars, allocator, threads, Allocate, AllocateTooLarge,
                    Free, Destroy, BeginScan, SkipCached, ReuseCached, ReuseThrows,
                    NothingToReuse, AllocateBuffer, OutOfMemory, InsertLive,
                    CreateEventThrows, Unwind, BeginFlush, FlushOne, EndFlush, FreeNotLive,
                    Recache, Drop, ReleaseDropped, Submit, Execute, Goto, Return
    <2> QED
        BY <2>1, <2>2 DEF NothingToReuse, ScanComplete
<1> QED
    BY <1>1, <1>2, <1>3, Invariance, PTL DEF Spec, SameQueueBlockFound

-----------------------------------------------------------------------------
(* The allocator implements the memory pool                                 *)

(* A step that hands the buffer at x to the queue of b, and leaves the work *)
(* alone, is a hand-out of the pool.                                        *)
LEMMA PoolHandOut ==
    ASSUME IInv, [Next]_vars, UNCHANGED queue, NEW x \in Addr, NEW b \in BlockDescriptor,
           live_blocks_[x] = None, live_blocks_' = [live_blocks_ EXCEPT ![x] = b]
    PROVE  Pool!Next
<1>1. live_blocks_ \in [Addr -> BlockDescriptor \cup {None}]
    BY DEF IInv, TypeOK
<1>2. b # None /\ b.queue \in Queues
    BY NoneAssumption DEF BlockDescriptor
<1>3. live_blocks_'[x] = b
    BY <1>1
<1>4. poolWork' = poolWork
    BY DEF poolWork, PendingOn
<1>5. poolOwner' = [poolOwner EXCEPT ![x] = b.queue]
    BY <1>1, <1>2 DEF poolOwner
<1>6. poolOwner[x] = None
    BY DEF poolOwner
<1>7. poolWork[x] \subseteq IF ReuseSameQueue THEN {b.queue} ELSE {}
    <2> SUFFICES ASSUME NEW q \in Queues, PendingOn(Use(x), q)
                 PROVE  ReuseSameQueue /\ q = b.queue
        BY DEF poolWork
    <2> QED
        BY <1>2, <1>3, HandOverStep
<1>8. Pool!HandOut(x, b.queue)
    BY <1>4, <1>5, <1>6, <1>7 DEF Pool!HandOut
<1> QED
    BY <1>2, <1>8 DEF Pool!Next

(* A step that takes the live block at x out of the live ones, and leaves   *)
(* the pending uses alone, takes the buffer back.                           *)
LEMMA PoolTakeBack ==
    ASSUME TypeOK, NEW x \in Addr, live_blocks_[x] # None,
           live_blocks_' = [live_blocks_ EXCEPT ![x] = None],
           \A a \in Addr : \A q \in Queues : PendingOn(Use(a), q)' <=> PendingOn(Use(a), q)
    PROVE  Pool!Next
<1>1. live_blocks_ \in [Addr -> BlockDescriptor \cup {None}]
    BY DEF TypeOK
<1>2. poolWork' = poolWork
    BY DEF poolWork
<1>3. poolOwner' = [poolOwner EXCEPT ![x] = None]
    BY <1>1 DEF poolOwner
<1>4. poolOwner[x] # None
    BY <1>1, NoneAssumption DEF poolOwner, BlockDescriptor
<1>5. Pool!TakeBack(x)
    BY <1>2, <1>3, <1>4 DEF Pool!TakeBack
<1> QED
    BY <1>5 DEF Pool!Next

(* Whatever the allocator, its clients and the device do is a step of the   *)
(* pool, or none of the pool's business.                                    *)
LEMMA PoolStep ==
    ASSUME IInv, [Next]_vars
    PROVE  [Pool!Next]_(Pool!vars)
<1>1. /\ live_blocks_ \in [Addr -> BlockDescriptor \cup {None}]
      /\ block \in [Threads -> BlockDescriptor]
      /\ queue \in [Queues -> Seq(Operations)]
      /\ held \in [Addr -> [bytes : Nat, queue : Queues] \cup {None}]
      /\ TypeOK /\ SoleOwner
    BY DEF IInv, TypeOK
<1>2. ASSUME UNCHANGED <<live_blocks_, queue>>
      PROVE  UNCHANGED Pool!vars
    BY <1>2 DEF Pool!vars, poolOwner, poolWork, PendingOn
<1>3. ASSUME NEW t \in Threads, ReuseCached(t) PROVE Pool!Next
    <2>1. iblock[t] \in DOMAIN cached_blocks_
        BY <1>3 DEF ReuseCached, IInv, TypeOK
    <2>2. cached_blocks_[iblock[t]] \in BlockDescriptor
        BY <2>1 DEF IInv, TypeOK
    <2>3. /\ Reused(t) \in BlockDescriptor
          /\ Reused(t).buffer = cached_blocks_[iblock[t]].buffer
        BY <1>1, <2>2, LimitsAssumption DEF Reused, Scanned, BlockDescriptor
    <2>4. Reused(t).buffer \in Addr /\ iblock[t] \in CachedAt[Reused(t).buffer]
        BY <2>1, <2>3 DEF IInv, WellFiled, CachedAt
    <2>5. live_blocks_[Reused(t).buffer] = None
        BY <1>1, <2>4 DEF SoleOwner
    <2>6. /\ live_blocks_' = [live_blocks_ EXCEPT ![Reused(t).buffer] = Reused(t)]
          /\ queue' = queue
        BY <1>3 DEF ReuseCached, InsertLiveBlock
    <2> QED
        BY <2>3, <2>4, <2>5, <2>6, PoolHandOut
<1>4. ASSUME NEW t \in Threads, InsertLive(t) PROVE Pool!Next
    <2> DEFINE b == [block[t] EXCEPT !.event = QueueDevice[block[t].queue]]
    <2>1. block[t] \in BlockDescriptor /\ QueueDevice[block[t].queue] \in Devices
        BY <1>1, LimitsAssumption DEF BlockDescriptor
    <2>2. b \in BlockDescriptor /\ b.buffer = block[t].buffer
        BY <2>1 DEF BlockDescriptor
    <2>3. block[t].buffer \in Addr /\ t \in OwnedBy[block[t].buffer]
        BY <1>4, <2>1 DEF InsertLive, IInv, LocalBlock, OwnedBy, BlockDescriptor
    <2>4. live_blocks_[b.buffer] = None
        BY <1>1, <2>2, <2>3 DEF SoleOwner
    <2>5. live_blocks_' = [live_blocks_ EXCEPT ![b.buffer] = b] /\ queue' = queue
        BY <1>4 DEF InsertLive, InsertLiveBlock
    <2> HIDE DEF b
    <2> QED
        BY <2>2, <2>3, <2>4, <2>5, PoolHandOut
<1>5. ASSUME NEW t \in Threads, Recache(t) PROVE Pool!Next
    <2> DEFINE x == block[t].buffer
               b == Freed(t)
    <2>1. x \in Addr /\ live_blocks_[x] # None /\ b = live_blocks_[x]
        BY <1>5 DEF Recache, IsLive, Freed
    <2>2. b.buffer = x /\ b \in BlockDescriptor
        BY <1>1, <2>1 DEF IInv, WellFiled
    <2>3. live_blocks_' = [live_blocks_ EXCEPT ![x] = None]
        BY <1>5, <2>2 DEF Recache, EraseLiveBlock
    <2>4. queue' = [queue EXCEPT ![b.queue] = Append(queue[b.queue], Record(b.buffer))]
        BY <1>5 DEF Recache, Enqueued
    <2> HIDE DEF x, b
    <2>5. ASSUME NEW a \in Addr, NEW q \in Queues
          PROVE  PendingOn(Use(a), q)' <=> PendingOn(Use(a), q)
        <3>1. CASE q # b.queue
            BY <1>1, <2>4, <3>1 DEF PendingOn
        <3>2. CASE q = b.queue
            <4>1. /\ queue[q] \in Seq(Operations)
                  /\ queue'[q] = Append(queue[q], Record(b.buffer))
                BY <1>1, <2>4, <3>2
            <4>2. Record(b.buffer) \in Operations /\ Record(b.buffer) # Use(a)
                BY <2>1, <2>2 DEF Operations, Record, Use
            <4>3. /\ DOMAIN queue'[q] = DOMAIN queue[q] \cup {Len(queue[q]) + 1}
                  /\ \A i \in DOMAIN queue[q] : queue'[q][i] = queue[q][i]
                  /\ queue'[q][Len(queue[q]) + 1] = Record(b.buffer)
                BY <4>1, <4>2, Appended
            <4> QED
                BY <4>2, <4>3 DEF PendingOn
        <3> QED
            BY <3>1, <3>2
    <2> QED
        BY <1>1, <2>1, <2>3, <2>5, PoolTakeBack
<1>6. ASSUME NEW t \in Threads, Drop(t) PROVE Pool!Next
    <2> DEFINE x == block[t].buffer
    <2>1. x \in Addr /\ live_blocks_[x] # None /\ Freed(t) = live_blocks_[x]
        BY <1>6 DEF Drop, IsLive, Freed
    <2>2. Freed(t).buffer = x
        BY <2>1 DEF IInv, WellFiled
    <2>3. live_blocks_' = [live_blocks_ EXCEPT ![x] = None] /\ queue' = queue
        BY <1>6, <2>2 DEF Drop, EraseLiveBlock
    <2> HIDE DEF x
    <2>4. \A a \in Addr : \A q \in Queues : PendingOn(Use(a), q)' <=> PendingOn(Use(a), q)
        BY <2>3 DEF PendingOn
    <2> QED
        BY <1>1, <2>1, <2>3, <2>4, PoolTakeBack
<1>7. ASSUME NEW a \in Addr, Submit(a) PROVE Pool!Next
    <2> DEFINE p == held[a].queue
    <2>1. /\ p \in Queues /\ live_blocks_[a] # None /\ live_blocks_[a].queue = p
          /\ live_blocks_' = live_blocks_
          /\ queue' = [queue EXCEPT ![p] = Append(queue[p], Use(a))]
        BY <1>1, <1>7 DEF Submit, IInv, HeldIsLive, allocator
    <2> HIDE DEF p
    <2>2. poolOwner' = poolOwner /\ poolOwner[a] = p /\ p # None
        BY <2>1, NoneAssumption DEF poolOwner
    <2>3. ASSUME NEW c \in Addr, NEW q \in Queues
          PROVE  PendingOn(Use(c), q)' <=> PendingOn(Use(c), q) \/ (q = p /\ c = a)
        <3>1. CASE q # p
            BY <1>1, <2>1, <3>1 DEF PendingOn
        <3>2. CASE q = p
            <4>1. queue[q] \in Seq(Operations) /\ queue'[q] = Append(queue[q], Use(a))
                BY <1>1, <2>1, <3>2
            <4>2. Use(a) \in Operations /\ (Use(a) = Use(c) <=> a = c)
                BY DEF Operations, Use
            <4>3. /\ DOMAIN queue'[q] = DOMAIN queue[q] \cup {Len(queue[q]) + 1}
                  /\ \A i \in DOMAIN queue[q] : queue'[q][i] = queue[q][i]
                  /\ queue'[q][Len(queue[q]) + 1] = Use(a)
                BY <4>1, <4>2, Appended
            <4> QED
                BY <3>2, <4>2, <4>3 DEF PendingOn
        <3> QED
            BY <3>1, <3>2
    <2>4. poolWork' = [poolWork EXCEPT ![a] = poolWork[a] \cup {poolOwner[a]}]
        BY <2>1, <2>2, <2>3 DEF poolWork
    <2>5. Pool!Submit(a)
        BY <2>2, <2>4 DEF Pool!Submit
    <2> QED
        BY <2>5 DEF Pool!Next
<1>8. ASSUME NEW q \in Queues, Execute(q) PROVE Pool!Next \/ UNCHANGED Pool!vars
    <2> DEFINE op == queue[q][1]
    <2>1. /\ queue[q] # << >> /\ queue[q] \in Seq(Operations)
          /\ queue' = [queue EXCEPT ![q] = Tail(queue[q])]
          /\ live_blocks_' = live_blocks_
        BY <1>1, <1>8 DEF Execute, allocator
    <2>2. poolOwner' = poolOwner
        BY <2>1 DEF poolOwner
    <2>3. ASSUME NEW a \in Addr, NEW p \in Queues
          PROVE  /\ PendingOn(Use(a), p)' => PendingOn(Use(a), p)
                 /\ PendingOn(Use(a), p) =>
                        PendingOn(Use(a), p)' \/ (p = q /\ op = Use(a))
        <3>1. CASE p # q
            BY <1>1, <2>1, <3>1 DEF PendingOn
        <3>2. CASE p = q
            <4>1. queue'[q] = Tail(queue[q])
                BY <1>1, <2>1
            <4>2. /\ \A k \in DOMAIN Tail(queue[q]) :
                        k + 1 \in DOMAIN queue[q] /\ Tail(queue[q])[k] = queue[q][k + 1]
                  /\ \A m \in DOMAIN queue[q] :
                        m = 1 \/ (m - 1 \in DOMAIN Tail(queue[q]) /\ Tail(queue[q])[m - 1] = queue[q][m])
                BY <2>1, Shifted
            <4>3. \A i \in DOMAIN queue[q] : i = 1 \/
                    (i - 1 \in DOMAIN queue'[q] /\ queue'[q][i - 1] = queue[q][i])
                BY <4>1, <4>2
            <4>4. \A i \in DOMAIN queue'[q] :
                    i + 1 \in DOMAIN queue[q] /\ queue'[q][i] = queue[q][i + 1]
                BY <4>1, <4>2
            <4> QED
                BY <3>2, <4>3, <4>4 DEF PendingOn
        <3> QED
            BY <3>1, <3>2
    <2> HIDE DEF op
    <2>4. CASE \E a \in Addr : op = Use(a) /\ PendingOn(Use(a), q) /\ ~PendingOn(Use(a), q)'
        <3>1. PICK a \in Addr : /\ op = Use(a) /\ PendingOn(Use(a), q)
                                /\ ~PendingOn(Use(a), q)'
            BY <2>4
        <3>2. \A c \in Addr : Use(c) = Use(a) <=> c = a
            BY DEF Use
        <3>3. q \in poolWork[a]
            BY <3>1 DEF poolWork
        <3>4. poolWork' = [poolWork EXCEPT ![a] = poolWork[a] \ {q}]
            BY <2>3, <3>1, <3>2 DEF poolWork
        <3>5. Pool!Finish(a, q)
            BY <2>2, <3>3, <3>4 DEF Pool!Finish
        <3> QED
            BY <3>5 DEF Pool!Next
    <2>5. CASE ~ \E a \in Addr : op = Use(a) /\ PendingOn(Use(a), q) /\ ~PendingOn(Use(a), q)'
        <3>1. \A a \in Addr : \A p \in Queues : PendingOn(Use(a), p)' <=> PendingOn(Use(a), p)
            BY <2>3, <2>5
        <3>2. poolWork' = poolWork
            BY <3>1 DEF poolWork
        <3> QED
            BY <2>2, <3>2 DEF Pool!vars
    <2> QED
        BY <2>4, <2>5
<1>9. \/ \E t \in Threads : ReuseCached(t) \/ InsertLive(t) \/ Recache(t) \/ Drop(t)
      \/ \E a \in Addr : Submit(a)
      \/ \E q \in Queues : Execute(q)
      \/ UNCHANGED <<live_blocks_, queue>>
    BY DEF Next, Step, Exit, vars, allocator, Allocate, AllocateTooLarge, Free, Destroy,
           BeginScan, SkipCached, ReuseThrows, NothingToReuse, AllocateBuffer,
           OutOfMemory, CreateEventThrows, Unwind, BeginFlush, FlushOne, EndFlush,
           FreeNotLive, ReleaseDropped
<1> QED
    BY <1>2, <1>3, <1>4, <1>5, <1>6, <1>7, <1>8, <1>9

(* The allocator implements the memory pool: whatever happens inside it, a  *)
(* client sees buffers handed out, used in one queue and taken back.        *)
THEOREM AllocatorImplementsPool == Spec => ImplementsPool
<1>1. Init => Pool!Init
    <2> SUFFICES ASSUME Init PROVE Pool!Init
        OBVIOUS
    <2>1. poolOwner = [a \in Addr |-> None]
        BY DEF Init, poolOwner
    <2>2. poolWork = [a \in Addr |-> {}]
        BY DEF Init, poolWork, PendingOn
    <2> QED
        BY <2>1, <2>2 DEF Pool!Init
<1>2. IInv /\ [Next]_vars => [Pool!Next]_(Pool!vars)
    BY PoolStep
<1> QED
    BY <1>1, <1>2, Invariance, PTL DEF Spec, ImplementsPool, Pool!Spec
=============================================================================
