-------------------------- MODULE CachingAllocator --------------------------
(***************************************************************************)
(* The caching memory allocator of caching_alloc.h: a pool of memory       *)
(* buffers binned by size, shared by the host threads of a process.  A     *)
(* freed block is kept in the cache together with an event recorded on the *)
(* queue its last owner used, so it can be handed out again once the work  *)
(* queued before the event is done - or at once, to the same queue.        *)
(*                                                                         *)
(* Three parties act: host threads inside allocate, free and the           *)
(* destructor; the threads' client code, which submits work that uses the  *)
(* buffers it holds; and the device, which executes every queue in order.  *)
(* One action stands for one step between two points where another party   *)
(* can interfere: taking or releasing mutex_, testing one event, one call  *)
(* of the memory driver.                                                   *)
(***************************************************************************)
EXTENDS Integers, Sequences, SequencesExt, FiniteSetsExt

CONSTANTS
    Threads,            \* host threads
    Addr,               \* addresses the driver can place a buffer at
    Queues,             \* work queues
    Devices,            \* synchronisation devices
    QueueDevice,        \* alpaka::getDev of each queue
    MinBin, MaxBin,     \* exponents of the smallest and the largest bin
    BinBytes,           \* bytes of each bin, growing with the bin
    RequestSizes,       \* sizes the clients ask for
    DeviceMemory,       \* bytes the driver can hand out
    MaxCachedBytes,     \* limit on the cached bytes, after cache_size
    ReuseSameQueue,     \* reuse_same_queue_allocations_
    QueueBound,         \* clients stop submitting to a queue this long
    None                \* no thread, no address, no event, no block

Bins == MinBin .. MaxBin

ASSUME BinsAssumption ==
    /\ MinBin \in Nat /\ MaxBin \in Nat /\ MinBin <= MaxBin
    /\ BinBytes \in [Bins -> Nat \ {0}]
    /\ \A b, c \in Bins : b < c => BinBytes[b] < BinBytes[c]

ASSUME LimitsAssumption ==
    /\ Queues # {}
    /\ RequestSizes \subseteq Nat
    /\ DeviceMemory \in Nat /\ MaxCachedBytes \in Nat /\ QueueBound \in Nat
    /\ ReuseSameQueue \in BOOLEAN
    /\ QueueDevice \in [Queues -> Devices]

(* struct BlockDescriptor.  A block's event is created for a device and is  *)
(* only ever recorded for this block: it is named by the block's address,   *)
(* and `event' holds the device it was created on.                          *)
BlockDescriptor ==
    [buffer : Addr \cup {None}, queue : Queues, event : Devices \cup {None},
     bytes : Nat, requested : Nat, bin : Bins]

ASSUME NoneAssumption ==
    /\ None \notin Threads /\ None \notin Addr /\ None \notin Devices
    /\ None \notin Queues
    /\ None \notin BlockDescriptor

VARIABLES
    mutex_,         \* the thread that holds the mutex, or None
    cached_bytes_,  \* struct CachedBytes
    cached_blocks_, \* freed blocks, in the order they were inserted
    live_blocks_,   \* block in use at each address, or None
    destroyed,      \* the destructor has been called
    pc,             \* where each thread is
    block,          \* the descriptor local to each thread's call
    iblock,         \* position of try_reuse_cached_block's scan
    held,           \* what the client was promised at each address it holds
    memory,         \* driver: bytes allocated at each address, 0 if none
    queue           \* device: operations submitted and not yet executed

allocator == <<mutex_, cached_bytes_, cached_blocks_, live_blocks_, destroyed>>
threads   == <<pc, block, iblock>>
vars      == <<allocator, threads, held, memory, queue>>

-----------------------------------------------------------------------------
(* The memory driver and the device, as the allocator uses them.            *)

Use(a)    == [kind |-> "use", addr |-> a]      \* work that accesses a buffer
Record(a) == [kind |-> "event", addr |-> a]    \* the event of a block
Operations == {Use(a) : a \in Addr} \cup {Record(a) : a \in Addr}

PendingOn(op, q) == \E i \in DOMAIN queue[q] : queue[q][i] = op

(* alpaka::isComplete: a recorded event completes when its queue reaches    *)
(* it; an event that was never recorded is complete.                        *)
IsComplete(a) == \A q \in Queues : ~PendingOn(Record(a), q)

MemoryInUse == MapThenSumSet(LAMBDA a : memory[a], Addr)
Fits(bytes) == MemoryInUse + bytes <= DeviceMemory

(* Freeing a buffer waits until the device is done with it (cudaFree and    *)
(* cudaFreeHost synchronise).                                               *)
CanRelease(a) == \A q \in Queues : ~PendingOn(Use(a), q) /\ ~PendingOn(Record(a), q)

-----------------------------------------------------------------------------
NoBlockYet ==
    [buffer |-> None, queue |-> CHOOSE q \in Queues : TRUE, event |-> None,
     bytes |-> 0, requested |-> 0, bin |-> MinBin]

Init ==
    /\ mutex_ = None
    /\ cached_bytes_ = [free |-> 0, live |-> 0, requested |-> 0]
    /\ cached_blocks_ = << >>
    /\ live_blocks_ = [a \in Addr |-> None]
    /\ destroyed = FALSE
    /\ pc = [t \in Threads |-> "idle"]
    /\ block = [t \in Threads |-> NoBlockYet]
    /\ iblock = [t \in Threads |-> 1]
    /\ held = [a \in Addr |-> None]
    /\ memory = [a \in Addr |-> 0]
    /\ queue = [q \in Queues |-> << >>]

Goto(t, label) == pc' = [pc EXCEPT ![t] = label]
SetBlock(t, b) == block' = [block EXCEPT ![t] = b]

(* The call of t ends and its locals are gone.                              *)
Return(t) ==
    /\ Goto(t, "idle")
    /\ SetBlock(t, NoBlockYet)
    /\ iblock' = [iblock EXCEPT ![t] = 1]

(* Mutants of the operators below, each a plausible slip.                   *)
BlockNotInserted(b) == live_blocks_' = live_blocks_
NotErased(i)        == cached_blocks_
RequestedKept(c, b) == [c EXCEPT !.live = @ - b.bytes]

InsertLiveBlock(b) == live_blocks_' = [live_blocks_ EXCEPT ![b.buffer] = b]
EraseLiveBlock(b)  == live_blocks_' = [live_blocks_ EXCEPT ![b.buffer] = None]
Erased(i)          == RemoveAt(cached_blocks_, i)

(* The accounting of a block that enters or leaves live_blocks_ and         *)
(* cached_blocks_.                                                          *)
WithLive(c, b) ==
    [free |-> c.free, live |-> c.live + b.bytes, requested |-> c.requested + b.requested]
WithoutLive(c, b) ==
    [free |-> c.free, live |-> c.live - b.bytes, requested |-> c.requested - b.requested]
Cached(c, b)   == [c EXCEPT !.free = @ + b.bytes]
Uncached(c, b) == [c EXCEPT !.free = @ - b.bytes]

-----------------------------------------------------------------------------
(* allocate(bytes, queue)                                                   *)

(* findBin: the smallest bin that holds the request.                        *)
OneByteShort(bin, bytes) ==      \* mutant: off by one at the bin's size
    /\ bytes <= BinBytes[bin] + 1
    /\ \A smaller \in Bins : smaller < bin => BinBytes[smaller] + 1 < bytes

IsBinFor(bin, bytes) ==
    /\ bytes <= BinBytes[bin]
    /\ \A smaller \in Bins : smaller < bin => BinBytes[smaller] < bytes

(* The descriptor of a request, before it has a buffer and an event.        *)
Requested(bytes, q, bin) ==
    [buffer |-> None, queue |-> q, event |-> None,
     bytes |-> BinBytes[bin], requested |-> bytes, bin |-> bin]

Allocate(t) ==
    /\ pc[t] = "idle" /\ ~destroyed
    /\ \E bytes \in RequestSizes, q \in Queues, bin \in Bins :
        /\ Len(queue[q]) < QueueBound
        /\ IsBinFor(bin, bytes)
        /\ SetBlock(t, Requested(bytes, q, bin))
    /\ Goto(t, "reuse")
    /\ UNCHANGED <<allocator, iblock, held, memory, queue>>

(* findBin throws when the request exceeds the largest bin.                 *)
AllocateTooLarge(t) ==
    /\ pc[t] = "idle" /\ ~destroyed
    /\ \E bytes \in RequestSizes : bytes > BinBytes[MaxBin]
    /\ Goto(t, "unwind")
    /\ UNCHANGED <<allocator, block, iblock, held, memory, queue>>

ScanFromZero(t) ==               \* mutant: the scan starts before begin()
    /\ pc[t] = "reuse" /\ mutex_ = None
    /\ mutex_' = t
    /\ iblock' = [iblock EXCEPT ![t] = 0]
    /\ Goto(t, "scan")
    /\ UNCHANGED <<cached_bytes_, cached_blocks_, live_blocks_, destroyed, block,
                   held, memory, queue>>

(* try_reuse_cached_block: the scan of the cached blocks, under the mutex.  *)
BeginScan(t) ==
    /\ pc[t] = "reuse" /\ mutex_ = None
    /\ mutex_' = t
    /\ iblock' = [iblock EXCEPT ![t] = 1]
    /\ Goto(t, "scan")
    /\ UNCHANGED <<cached_bytes_, cached_blocks_, live_blocks_, destroyed, block,
                   held, memory, queue>>

Scanned(t) == cached_blocks_[iblock[t]]

AnyQueueReusable(t) ==           \* mutant: the queues are not compared
    /\ Scanned(t).bin = block[t].bin
    /\ ReuseSameQueue \/ IsComplete(Scanned(t).buffer)

EventNotTested(t) ==             \* mutant: every block of the bin is ready
    Scanned(t).bin = block[t].bin

OnlyCompleteReusable(t) ==       \* mutant: a block of the same queue is passed over
    /\ Scanned(t).bin = block[t].bin
    /\ IsComplete(Scanned(t).buffer)

Reusable(t) ==
    /\ Scanned(t).bin = block[t].bin
    /\ \/ ReuseSameQueue /\ Scanned(t).queue = block[t].queue
       \/ IsComplete(Scanned(t).buffer)

SkipCached(t) ==
    /\ pc[t] = "scan" /\ iblock[t] <= Len(cached_blocks_)
    /\ ~Reusable(t)
    /\ iblock' = [iblock EXCEPT ![t] = iblock[t] + 1]
    /\ UNCHANGED <<allocator, pc, block, held, memory, queue>>

(* The descriptor of the cached block replaces the caller's, except for the *)
(* queue; the event is replaced if it belongs to another device.            *)
EventKept(t) ==                  \* mutant: the event stays on the old device
    [Scanned(t) EXCEPT !.queue = block[t].queue]

Reused(t) ==
    [Scanned(t) EXCEPT !.queue = block[t].queue,
                       !.event = QueueDevice[block[t].queue]]

ReuseCached(t) ==
    /\ pc[t] = "scan" /\ iblock[t] <= Len(cached_blocks_)
    /\ Reusable(t)
    /\ LET b == Reused(t) IN
        /\ InsertLiveBlock(b)
        /\ cached_bytes_' = Uncached(WithLive(cached_bytes_, b), b)
        /\ held' = [held EXCEPT ![b.buffer] = [bytes |-> block[t].requested,
                                               queue |-> b.queue]]
    /\ cached_blocks_' = Erased(iblock[t])
    /\ mutex_' = None
    /\ Return(t)
    /\ UNCHANGED <<destroyed, memory, queue>>

(* Creating the event for the other device throws.                          *)
ReuseThrows(t) ==
    /\ pc[t] = "scan" /\ iblock[t] <= Len(cached_blocks_)
    /\ Reusable(t)
    /\ Scanned(t).event # QueueDevice[block[t].queue]
    /\ mutex_' = None
    /\ Goto(t, "unwind")
    /\ UNCHANGED <<cached_bytes_, cached_blocks_, live_blocks_, destroyed, block,
                   iblock, held, memory, queue>>

StillLocked(t) ==                \* mutant: the mutex is kept for the whole call
    /\ pc[t] = "scan" /\ iblock[t] > Len(cached_blocks_)
    /\ Goto(t, "new")
    /\ UNCHANGED <<allocator, block, iblock, held, memory, queue>>

NothingToReuse(t) ==
    /\ pc[t] = "scan" /\ iblock[t] > Len(cached_blocks_)
    /\ mutex_' = None
    /\ Goto(t, "new")
    /\ UNCHANGED <<cached_bytes_, cached_blocks_, live_blocks_, destroyed, block,
                   iblock, held, memory, queue>>

(* allocate_new_block: the driver is called without the mutex; if it has    *)
(* no room, the cache is emptied and the driver is asked once more.         *)
AllocateBuffer(t) ==
    /\ pc[t] \in {"new", "retry"}
    /\ Fits(block[t].bytes)
    /\ \E a \in Addr :
        /\ memory[a] = 0
        /\ memory' = [memory EXCEPT ![a] = block[t].bytes]
        /\ SetBlock(t, [block[t] EXCEPT !.buffer = a])
    /\ Goto(t, "insert")
    /\ UNCHANGED <<allocator, iblock, held, queue>>

OutOfMemory(t) ==
    /\ pc[t] \in {"new", "retry"}
    /\ ~Fits(block[t].bytes)
    /\ Goto(t, IF pc[t] = "new" THEN "flush" ELSE "unwind")
    /\ UNCHANGED <<allocator, block, iblock, held, memory, queue>>

(* Create the event and, under the mutex, enter the block as live.          *)
InsertLive(t) ==
    /\ pc[t] = "insert" /\ mutex_ = None
    /\ LET b == [block[t] EXCEPT !.event = QueueDevice[block[t].queue]] IN
        /\ InsertLiveBlock(b)
        /\ cached_bytes_' = WithLive(cached_bytes_, b)
        /\ held' = [held EXCEPT ![b.buffer] = [bytes |-> b.requested,
                                               queue |-> b.queue]]
    /\ Return(t)
    /\ UNCHANGED <<mutex_, cached_blocks_, destroyed, memory, queue>>

CreateEventThrows(t) ==
    /\ pc[t] = "insert"
    /\ Goto(t, "unwind")
    /\ UNCHANGED <<allocator, block, iblock, held, memory, queue>>

(* An exception leaves the call; the local block releases its buffer.       *)
Unwind(t) ==
    /\ pc[t] = "unwind"
    /\ IF block[t].buffer = None
       THEN memory' = memory
       ELSE /\ CanRelease(block[t].buffer)
            /\ memory' = [memory EXCEPT ![block[t].buffer] = 0]
    /\ Return(t)
    /\ UNCHANGED <<allocator, held, queue>>

-----------------------------------------------------------------------------
(* free_all_cached, called by allocate_new_block and by the destructor      *)

BeginFlush(t) ==
    /\ pc[t] = "flush" /\ mutex_ = None
    /\ mutex_' = t
    /\ Goto(t, "flushing")
    /\ UNCHANGED <<cached_bytes_, cached_blocks_, live_blocks_, destroyed, block,
                   iblock, held, memory, queue>>

(* cached_blocks_.begin(): the oldest block of the smallest bin in use.     *)
IsFirstCached(i) ==
    \A j \in DOMAIN cached_blocks_ \ {i} :
        \/ cached_blocks_[i].bin < cached_blocks_[j].bin
        \/ cached_blocks_[i].bin = cached_blocks_[j].bin /\ i < j

FlushOne(t) ==
    /\ pc[t] = "flushing"
    /\ \E i \in DOMAIN cached_blocks_ :
        /\ IsFirstCached(i)
        /\ CanRelease(cached_blocks_[i].buffer)
        /\ cached_bytes_' = Uncached(cached_bytes_, cached_blocks_[i])
        /\ memory' = [memory EXCEPT ![cached_blocks_[i].buffer] = 0]
        /\ cached_blocks_' = Erased(i)
    /\ UNCHANGED <<mutex_, live_blocks_, destroyed, threads, held, queue>>

OneBlockLeft == Len(cached_blocks_) <= 1   \* mutant: the loop ends one block early

CacheEmpty == cached_blocks_ = << >>

EndFlush(t) ==
    /\ pc[t] = "flushing" /\ CacheEmpty
    /\ mutex_' = None
    /\ IF destroyed THEN Return(t)
                    ELSE Goto(t, "retry") /\ UNCHANGED <<block, iblock>>
    /\ UNCHANGED <<cached_bytes_, cached_blocks_, live_blocks_, destroyed, held,
                   memory, queue>>

-----------------------------------------------------------------------------
(* free(ptr)                                                                *)

(* The last reference to a buffer goes away and its deleter calls free; or  *)
(* free is called on a pointer the allocator never returned.                *)
Free(t) ==
    /\ pc[t] = "idle" /\ ~destroyed
    /\ \E ptr \in {a \in Addr : held[a] # None} \cup {None} :
        /\ SetBlock(t, [NoBlockYet EXCEPT !.buffer = ptr])
        /\ held' = [a \in Addr |-> IF a = ptr THEN None ELSE held[a]]
    /\ Goto(t, "free")
    /\ UNCHANGED <<allocator, iblock, memory, queue>>

IsLive(ptr) == ptr \in Addr /\ live_blocks_[ptr] # None

FreeNotLive(t) ==
    /\ pc[t] = "free" /\ mutex_ = None
    /\ ~IsLive(block[t].buffer)
    /\ SetBlock(t, NoBlockYet)
    /\ Goto(t, "unwind")
    /\ UNCHANGED <<allocator, iblock, held, memory, queue>>

(* Take the block at ptr out of the live blocks.                            *)
Freed(t) == live_blocks_[block[t].buffer]

SomeRoomInCache(b) == cached_bytes_.free <= MaxCachedBytes   \* mutant: b not counted

FitsInCache(b) == cached_bytes_.free + b.bytes <= MaxCachedBytes

(* The event is recorded behind everything submitted to the block's queue.  *)
EventNotRecorded(b) == queue     \* mutant

Enqueued(b) == [queue EXCEPT ![b.queue] = Append(@, Record(b.buffer))]

Recache(t) ==
    /\ pc[t] = "free" /\ mutex_ = None
    /\ IsLive(block[t].buffer)
    /\ FitsInCache(Freed(t))
    /\ LET b == Freed(t) IN
        /\ EraseLiveBlock(b)
        /\ cached_bytes_' = Cached(WithoutLive(cached_bytes_, b), b)
        /\ queue' = Enqueued(b)
        /\ cached_blocks_' = Append(cached_blocks_, b)
    /\ Return(t)
    /\ UNCHANGED <<mutex_, destroyed, held, memory>>

(* The cache is full, or enqueueing the event throws: the block goes out of *)
(* scope, which releases its buffer while the mutex is still held.          *)
Drop(t) ==
    /\ pc[t] = "free" /\ mutex_ = None
    /\ IsLive(block[t].buffer)
    /\ LET b == Freed(t) IN
        /\ EraseLiveBlock(b)
        /\ cached_bytes_' = WithoutLive(cached_bytes_, b)
        /\ SetBlock(t, b)
    /\ mutex_' = t
    /\ Goto(t, "drop")
    /\ UNCHANGED <<cached_blocks_, destroyed, iblock, held, memory, queue>>

ReleaseDropped(t) ==
    /\ pc[t] = "drop"
    /\ CanRelease(block[t].buffer)
    /\ memory' = [memory EXCEPT ![block[t].buffer] = 0]
    /\ mutex_' = None
    /\ Return(t)
    /\ UNCHANGED <<cached_bytes_, cached_blocks_, live_blocks_, destroyed, held, queue>>

-----------------------------------------------------------------------------
(* ~CachingAllocator, at the end of the process: no call is in progress and *)
(* no block is live, as the destructor asserts.                             *)
Destroy(t) ==
    /\ ~destroyed
    /\ \A u \in Threads : pc[u] = "idle"
    /\ \A a \in Addr : live_blocks_[a] = None
    /\ destroyed' = TRUE
    /\ Goto(t, "flush")
    /\ UNCHANGED <<mutex_, cached_bytes_, cached_blocks_, live_blocks_, block,
                   iblock, held, memory, queue>>

-----------------------------------------------------------------------------
(* The clients, who submit every operation on a buffer to the queue it was  *)
(* allocated with, and the device.                                          *)
Submit(a) ==
    /\ held[a] # None
    /\ Len(queue[held[a].queue]) < QueueBound
    /\ queue' = [queue EXCEPT ![held[a].queue] = Append(@, Use(a))]
    /\ UNCHANGED <<allocator, threads, held, memory>>

Execute(q) ==
    /\ queue[q] # << >>
    /\ queue' = [queue EXCEPT ![q] = Tail(@)]
    /\ UNCHANGED <<allocator, threads, held, memory>>

(* The steps of a call that is in progress.                                 *)
Step(t) ==
    \/ BeginScan(t) \/ SkipCached(t) \/ ReuseCached(t) \/ ReuseThrows(t)
    \/ NothingToReuse(t) \/ AllocateBuffer(t) \/ OutOfMemory(t)
    \/ InsertLive(t) \/ CreateEventThrows(t) \/ Unwind(t)
    \/ BeginFlush(t) \/ FlushOne(t) \/ EndFlush(t)
    \/ FreeNotLive(t) \/ Recache(t) \/ Drop(t) \/ ReleaseDropped(t)

(* The process is over.                                                     *)
Exit ==
    /\ destroyed
    /\ \A t \in Threads : pc[t] = "idle"
    /\ \A q \in Queues : queue[q] = << >>
    /\ UNCHANGED vars

Next ==
    \/ \E t \in Threads :
        Allocate(t) \/ AllocateTooLarge(t) \/ Free(t) \/ Destroy(t) \/ Step(t)
    \/ \E a \in Addr : Submit(a)
    \/ \E q \in Queues : Execute(q)
    \/ Exit

Spec == Init /\ [][Next]_vars

(* Every thread in a call is scheduled and the device executes its queues;  *)
(* a thread that waits for the mutex may lose it to others for ever.        *)
Fairness ==
    /\ \A t \in Threads : WF_vars(Step(t))
    /\ \A q \in Queues : WF_vars(Execute(q))

FairSpec == Spec /\ Fairness

-----------------------------------------------------------------------------
(* Properties                                                               *)

Labels == {"idle", "reuse", "scan", "new", "retry", "insert", "unwind",
           "flush", "flushing", "free", "drop"}

(* Every variable has its type.                                             *)
TypeOK ==
    /\ mutex_ \in Threads \cup {None}
    /\ cached_bytes_ \in [free : Int, live : Int, requested : Int]
    /\ cached_blocks_ \in Seq(BlockDescriptor)
    /\ live_blocks_ \in [Addr -> BlockDescriptor \cup {None}]
    /\ destroyed \in BOOLEAN
    /\ pc \in [Threads -> Labels]
    /\ block \in [Threads -> BlockDescriptor]
    /\ iblock \in [Threads -> Nat \ {0}]
    /\ held \in [Addr -> [bytes : Nat, queue : Queues] \cup {None}]
    /\ memory \in [Addr -> Nat]
    /\ queue \in [Queues -> Seq(Operations)]

(* The cached blocks of the buffer at each address, and the calls whose     *)
(* local block owns it.                                                     *)
CachedAt ==
    [a \in Addr |-> {i \in DOMAIN cached_blocks_ : cached_blocks_[i].buffer = a}]

OwnedBy ==
    [a \in Addr |-> {t \in Threads : /\ pc[t] \in {"insert", "drop", "unwind"}
                                     /\ block[t].buffer = a}]

(* A buffer the driver allocated has exactly one owner - the live blocks,   *)
(* one cached block or one call in progress - and a buffer that was         *)
(* released has none: no double hand-out, no double release, no leak.       *)
SoleOwner ==
    \A a \in Addr :
        /\ memory[a] = 0 <=> /\ live_blocks_[a] = None
                             /\ CachedAt[a] = {} /\ OwnedBy[a] = {}
        /\ live_blocks_[a] # None => CachedAt[a] = {} /\ OwnedBy[a] = {}
        /\ CachedAt[a] # {} => OwnedBy[a] = {}
        /\ \A i, j \in CachedAt[a] : i = j
        /\ \A t, u \in OwnedBy[a] : t = u

(* The addresses with a live block, and the bytes each block accounts for.  *)
Live         == {a \in Addr : live_blocks_[a] # None}
LiveSizes    == [a \in Live |-> live_blocks_[a].bytes]
LiveRequests == [a \in Live |-> live_blocks_[a].requested]
CachedSizes  == [i \in DOMAIN cached_blocks_ |-> cached_blocks_[i].bytes]

(* CachedBytes says what is in the two containers, whatever the order of    *)
(* reuse, OOM flush, recaching and dropping: free and live are the bytes of *)
(* the cached and live blocks, requested the bytes their descriptors asked. *)
AccountingExact ==
    /\ cached_bytes_.free = SumFunction(CachedSizes)
    /\ cached_bytes_.live = SumFunction(LiveSizes)
    /\ cached_bytes_.requested = SumFunction(LiveRequests)

(* The cache never holds more than max_cached_bytes_ (line 195).            *)
CacheWithinLimit == cached_bytes_.free <= MaxCachedBytes

(* Work pending on a buffer was submitted to the queue of the block that    *)
(* owns the buffer, and a cached block's work is followed by its event: the *)
(* event completing means the work is done (lines 197 and 281).             *)
EventGuardsWork ==
    \A q \in Queues : \A k \in DOMAIN queue[q] : \A a \in Addr :
        queue[q][k] = Use(a) =>
            \/ live_blocks_[a] # None /\ live_blocks_[a].queue = q
            \/ /\ \E i \in CachedAt[a] : cached_blocks_[i].queue = q
               /\ \E m \in DOMAIN queue[q] : m > k /\ queue[q][m] = Record(a)
            \/ \E t \in OwnedBy[a] : pc[t] = "drop" /\ block[t].queue = q

(* A buffer is handed to a new owner only when its earlier owners' work is  *)
(* done or, where reuse_same_queue_allocations_ allows it, is ahead of the  *)
(* new owner's work in the same queue (lines 118-119, 280-281).             *)
HandOver ==
    [][\A a \in Addr : live_blocks_[a] = None /\ live_blocks_'[a] # None =>
        \A q \in Queues : PendingOn(Use(a), q) =>
            ReuseSameQueue /\ q = live_blocks_'[a].queue]_vars

(* What a client holds is a live block, on the queue it asked for, at least *)
(* as large as it asked for - although a reused block carries the request   *)
(* of an earlier client - whose event belongs to its queue's device, as     *)
(* enqueueing the event in free needs (lines 197, 289).                     *)
HeldBlockServes ==
    \A a \in Addr : held[a] # None =>
        /\ live_blocks_[a] # None
        /\ live_blocks_[a].queue = held[a].queue
        /\ live_blocks_[a].bytes >= held[a].bytes
        /\ live_blocks_[a].event = QueueDevice[held[a].queue]

(* A client that frees a buffer it holds is never told that it is not live  *)
(* (line 184): nothing another thread does takes the block away.            *)
HeldFreeSucceeds ==
    \A t \in Threads : pc[t] = "free" /\ block[t].buffer # None =>
        IsLive(block[t].buffer)

(* A request goes to the driver only after a scan that left no cached block *)
(* of its bin and queue behind.                                             *)
SameQueueBlockFound ==
    [][\A t \in Threads : pc[t] = "scan" /\ pc'[t] = "new" =>
        ~ \E i \in DOMAIN cached_blocks_ :
            /\ ReuseSameQueue
            /\ cached_blocks_[i].bin = block[t].bin
            /\ cached_blocks_[i].queue = block[t].queue]_vars

(* Once the destructor is done, the driver has all its memory back.         *)
DestructorReleasesAll ==
    destroyed /\ (\A t \in Threads : pc[t] = "idle") => \A a \in Addr : memory[a] = 0

(* The mutex is always released again, though flushing and dropping a block *)
(* wait for the device with the mutex held.                                 *)
MutexReleased == \A t \in Threads : mutex_ = t ~> mutex_ # t

(* "total bytes requested and currently in use on this device" (line 104):  *)
(* what the clients that hold or are freeing a buffer asked for.            *)
RequestedIsInUse ==
    (\A t \in Threads : pc[t] # "free") =>
        cached_bytes_.requested =
            MapThenSumSet(LAMBDA a : held[a].bytes, {a \in Addr : held[a] # None})

(* The allocator is a memory pool: bins, cache, events, flushes and locks   *)
(* only choose which hand-outs happen.                                      *)
poolOwner ==
    [a \in Addr |-> IF live_blocks_[a] = None THEN None ELSE live_blocks_[a].queue]
poolWork == [a \in Addr |-> {q \in Queues : PendingOn(Use(a), q)}]

Pool == INSTANCE MemoryPool WITH owner <- poolOwner, work <- poolWork

ImplementsPool == Pool!Spec
=============================================================================
