--------------------------- MODULE QueuePrograms ---------------------------
(***************************************************************************)
(* Programs on queues.  A host thread makes portable collections, fills    *)
(* them, copies between them, calls algorithms on them and destroys them.  *)
(* What it does on a queue runs later, in the order of the queue, and      *)
(* refers to memory by address; the buffer of a collection may be gone by  *)
(* then, and its memory handed to another.  "meant" is what the same calls *)
(* would have left behind had each been done at once.                      *)
(***************************************************************************)
EXTENDS Integers, Sequences

CONSTANTS Queues,
          Slots,       \* names of collections
          NumCols,     \* columns of a collection
          Values,      \* what a client writes into a column
          Heap,        \* the memory there is, by kind of buffer
          Builds,      \* back ends and allocator policies
          MaxCalls,    \* bound on the calls of a program
          MaxAlgorithms  \* bound on the calls of algorithms among them

Kinds == {"pageable", "pinned", "device"}
Backends == {"cuda", "hip", "cpu"}
Policies == {"Synchronous", "Asynchronous", "Caching"}
Columns == 1 .. NumCols
Blocks == UNION {Heap[k] : k \in Kinds}

ASSUME QueueAssumption ==
    /\ NumCols \in Nat \ {0}
    /\ MaxCalls \in Nat /\ MaxAlgorithms \in Nat
    /\ Blocks # {} /\ \A k, l \in Kinds : k # l => Heap[k] \cap Heap[l] = {}
    /\ Builds \subseteq [backend : Backends, policy : Policies]
    /\ \A b \in Builds : b.backend = "cpu" => b.policy = "Synchronous"

VARIABLES build,      \* the build the program runs in
          slot,       \* the collections: kind, queue and block of each
          memory,     \* what is in each column of each block
          queue,      \* the tasks of each queue that have not run
          host,       \* the queue the host thread waits for, and what it does then
          answer,     \* what the last algorithm with a result returned, and was meant to
          meant,      \* the columns of the collections, call by call
          calls,      \* calls so far
          launched  \* calls of algorithms so far

vars == <<build, slot, memory, queue, host, answer, meant, calls, launched>>

Empty == [kind |-> "none"]
Ready == [queue |-> {}, then |-> {}]
Blocked(q, then) == [queue |-> {q}, then |-> then]

Live == {s \in Slots : slot[s] # Empty}

(***************************************************************************)
(* Operations.  The same operation works on a store of slots, which is     *)
(* what is meant, and on the store of blocks, which is what happens.       *)
(***************************************************************************)
Undefined == <<"undefined">>
Garbage == [c \in Columns |-> Undefined]

Operation(name, from, to, columns, returns) ==
    [name |-> name, from |-> from, to |-> to, columns |-> columns, returns |-> returns]

Result(o, store, c) ==
    LET args == [j \in DOMAIN o.from |-> store[o.from[j]][c]]
    IN  IF o.name = "memcpy" THEN args[1]
        ELSE IF \E j \in DOMAIN args : args[j] = Undefined THEN Undefined
        ELSE <<o.name>> \o args

Effect(o, store) ==
    [b \in DOMAIN store |-> [c \in Columns |->
        IF b \in o.to /\ c \in o.columns THEN Result(o, store, c) ELSE store[b][c]]]

(* What o returns to the host: nothing, or a value. *)
Returned(o, store) == IF o.returns THEN {Result(o, store, c) : c \in o.columns} ELSE {}

Touches(o) == o.to \cup {o.from[j] : j \in DOMAIN o.from}

(* The addresses in the views of the collections. *)
Bound(o, slots) ==
    [o EXCEPT !.from = [j \in DOMAIN o.from |-> slots[o.from[j]].block],
              !.to = {slots[s].block : s \in o.to}]

Task(o, slots) == [call |-> o, run |-> Bound(o, slots), meant |-> Returned(o, meant)]

(***************************************************************************)
(* What the client of the library sees to: the order of its queues, and    *)
(* that the host stays away from what a queue still works on.              *)
(***************************************************************************)
Pending(q) == {queue[q][j] : j \in DOMAIN queue[q]}

Conflicts(task, o) ==
    task.call.to \cap Touches(o) # {} \/ Touches(task.call) \cap o.to # {}

ClearOf(queues, o) == \A r \in queues : \A t \in Pending(r) : ~Conflicts(t, o)

(* A device buffer that is given back in the order of a queue is used on   *)
(* that queue, and without one only when nothing is left to do there.      *)
OwnQueue(q, o) == \A s \in Touches(o) : slot[s].kind = "device" => slot[s].queue \subseteq {q}

OwnQueueIdle(o) ==
    \A s \in Touches(o) : slot[s].kind = "device" => \A q \in slot[s].queue : queue[q] = <<>>

(* What a task does to memory, and what it returns. *)
Perform(t) ==
    /\ memory' = Effect(t.run, memory)
    /\ answer' = IF t.run.returns THEN [got |-> Returned(t.run, memory), meant |-> t.meant] ELSE answer

(***************************************************************************)
(* The ways a call is done.                                                *)
(***************************************************************************)
Free == host = Ready /\ calls < MaxCalls

Call(o) ==
    /\ Free
    /\ calls' = calls + 1
    /\ meant' = Effect(o, meant)

(* By the host, now. *)
OnHost(o) ==
    /\ Call(o)
    /\ ClearOf(Queues, o)
    /\ OwnQueueIdle(o)
    /\ Perform(Task(o, slot))
    /\ UNCHANGED <<build, slot, queue, host>>

(* By tasks on queue q, one for each set of columns; the call may wait. *)
OnQueue(q, o, parts, waits) ==
    /\ Call(o)
    /\ ClearOf(Queues \ {q}, o)
    /\ OwnQueue(q, o)
    /\ queue' = [queue EXCEPT ![q] = @ \o
            [j \in DOMAIN parts |-> Task([o EXCEPT !.columns = parts[j]], slot)]]
    /\ host' = IF waits THEN Blocked(q, {}) ELSE Ready
    /\ UNCHANGED <<build, slot, memory, answer>>

RunsAtOnce(q, o) ==    \* for a mutant
    /\ Call(o)
    /\ ClearOf(Queues \ {q}, o)
    /\ Perform(Task(o, slot))
    /\ UNCHANGED <<build, slot, queue, host>>

(* By the host, after what is on queue q. *)
AfterQueue(q, o) ==
    /\ Call(o)
    /\ ClearOf(Queues \ {q}, o)
    /\ host' = Blocked(q, {Task(o, slot)})
    /\ UNCHANGED <<build, slot, memory, queue, answer>>

(***************************************************************************)
(* Buffers.                                                                *)
(***************************************************************************)
Releases(task, block) == task.run.name = "release" /\ task.run.to = {block}

(* Which allocators hand out again what tasks of the same queue still use: *)
(* on the device the next user is a task of that queue too.                *)
ReusesAlways(kind) == TRUE    \* for a mutant
ReusesSameQueue(kind) == kind = "device"

Allocatable(kind, on) ==
    {b \in Heap[kind] :
        /\ \A s \in Live : slot[s].block # b
        /\ \A r \in Queues : \A t \in Pending(r) :
            Releases(t, b) => ReusesSameQueue(kind) /\ on = {r}}

(* The buffers that are given back in the order of the queue they are      *)
(* made on.                                                                *)
QueueOrdered(kind) ==
    \/ kind = "device" /\ build.policy = "Asynchronous"
    \/ kind = "pinned" /\ build.policy = "Caching"

(* A CPU has no memory of its own, and device buffers on a queue do not    *)
(* come from the caching allocator.                                        *)
Make(s, kind, on, b) ==
    /\ slot[s] = Empty
    /\ \A r \in Queues : \A t \in Pending(r) : s \notin Touches(t.call)
    /\ kind = "device" => build.backend # "cpu" /\ (on = {} \/ build.policy # "Caching")
    /\ b \in Allocatable(kind, on)
    /\ slot' = [slot EXCEPT ![s] =
            [kind |-> kind, queue |-> IF QueueOrdered(kind) THEN on ELSE {}, block |-> b]]

(* A block that is handed out before its release has run stays handed out. *)
KeepsRelease(tasks, b) == tasks    \* for a mutant
WithoutRelease(tasks, b) ==
    [j \in DOMAIN tasks |->
        IF Releases(tasks[j], b) THEN [tasks[j] EXCEPT !.run.to = {}] ELSE tasks[j]]

(* Pageable memory has no queue, pinned memory always does. *)
Construct(s, kind, on) ==
    /\ kind = "pageable" => on = {}
    /\ kind = "pinned" => on # {}
    /\ Call(Operation("make", <<>>, {}, {}, FALSE))
    /\ \E b \in Heap[kind] :
        /\ Make(s, kind, on, b)
        /\ queue' = [r \in Queues |-> WithoutRelease(queue[r], b)]
    /\ UNCHANGED <<build, memory, host, answer>>

(* The destructor: the buffer goes back to its allocator at once or, in    *)
(* the order of its queue, after the tasks that are there.                 *)
Destroy(s) ==
    LET o == Operation("release", <<>>, {s}, {}, FALSE)
    IN  /\ Free /\ s \in Live
        /\ ClearOf(Queues \ slot[s].queue, o)
        /\ queue' = [q \in Queues |->
                        IF q \in slot[s].queue THEN Append(queue[q], Task(o, slot)) ELSE queue[q]]
        /\ slot' = [slot EXCEPT ![s] = Empty]
        /\ meant' = [meant EXCEPT ![s] = Garbage]
        /\ calls' = calls + 1
        /\ UNCHANGED <<build, memory, host, answer>>

(* copyAsync: a device buffer and one memcpy. *)
CopyToDevice(q, d, s) ==
    LET o == Operation("memcpy", <<s>>, {d}, Columns, FALSE)
    IN  /\ Call(o)
        /\ s \in Live /\ slot[s].kind # "device"
        /\ ClearOf(Queues \ {q}, o)
        /\ \E b \in Heap["device"] :
            /\ Make(d, "device", {q}, b)
            /\ queue' = [r \in Queues |-> WithoutRelease(queue[r], b) \o
                            (IF r = q THEN <<Task(o, slot')>> ELSE <<>>)]
        /\ UNCHANGED <<build, memory, host, answer>>

(***************************************************************************)
(* Operations of the collections.                                          *)
(***************************************************************************)
InHostMemory(s) == s \in Live /\ slot[s].kind # "device"

(* The client writes a column through the view. *)
Fill(s, c, v) == InHostMemory(s) /\ OnHost(Operation(v, <<>>, {s}, {c}, FALSE))

Zero(s) == Operation("zero", <<>>, {s}, Columns, FALSE)
ZeroInitialise(s) == InHostMemory(s) /\ OnHost(Zero(s))
ZeroInitialiseOn(q, s) == s \in Live /\ OnQueue(q, Zero(s), <<Columns>>, FALSE)

Copy(d, s) == Operation("memcpy", <<s>>, {d}, Columns, FALSE)
DeepCopy(d, s) == InHostMemory(d) /\ InHostMemory(s) /\ d # s /\ OnHost(Copy(d, s))

(* One memcpy per column. *)
DeepCopyOn(q, d, s) ==
    d \in Live /\ s \in Live /\ d # s /\ OnQueue(q, Copy(d, s), [c \in Columns |-> {c}], FALSE)

(***************************************************************************)
(* Algorithms, on memory the accelerator of the build reads: s into d.     *)
(***************************************************************************)
Accessible(o) ==
    \A s \in Touches(o) : s \in Live /\ (build.backend # "cpu" => slot[s].kind = "device")

(* The overload without a queue does not know of any. *)
WithoutQueue(o) == Accessible(o) /\ OnHost(o)

(* The overload with a queue: par_nosync in CUDA, par in HIP. *)
WithQueue(q, o, waits) ==
    /\ Accessible(o)
    /\ IF build.backend = "cpu" THEN AfterQueue(q, o)
       ELSE OnQueue(q, o, <<o.columns>>, waits \/ o.returns)

Algorithm(q, o) == WithQueue(q, o, build.backend = "hip") \/ WithoutQueue(o)

ForEach(q, s, c) == Algorithm(q, Operation("for_each", <<s>>, {s}, {c}, FALSE))
Sort(q, s, c) == Algorithm(q, Operation("sort", <<s>>, {s}, {c}, FALSE))
Transform(q, s, d, c) ==
    \/ Algorithm(q, Operation("transform", <<s>>, {d}, {c}, FALSE))
    \/ Algorithm(q, Operation("transform", <<s, d>>, {d}, {c}, FALSE))
Scan(q, s, d, c) ==
    \/ Algorithm(q, Operation("inclusive_scan", <<s>>, {d}, {c}, FALSE))
    \/ Algorithm(q, Operation("exclusive_scan", <<s>>, {d}, {c}, FALSE))
CopyIf(q, s, d, c) == Algorithm(q, Operation("copy_if", <<s>>, {d}, {c}, TRUE))
CountIf(q, s, c) == Algorithm(q, Operation("count_if", <<s>>, {}, {c}, TRUE))
Reduce(q, s, c) == Algorithm(q, Operation("reduce", <<s>>, {}, {c}, TRUE))
Extrema(q, s, c) == Algorithm(q, Operation("minmax_element", <<s>>, {}, {c}, TRUE))

(* With an initial value the policies are the other way round. *)
InclusiveScanInit(q, s, d, c) ==
    LET o == Operation("inclusive_scan_init", <<s>>, {d}, {c}, FALSE)
    IN  WithQueue(q, o, build.backend = "cuda") \/ WithoutQueue(o)

(***************************************************************************)
(* The system.                                                             *)
(***************************************************************************)
Init ==
    /\ build \in Builds
    /\ slot = [s \in Slots |-> Empty]
    /\ memory = [b \in Blocks |-> Garbage]
    /\ queue = [q \in Queues |-> <<>>]
    /\ host = Ready
    /\ answer = [got |-> {}, meant |-> {}]
    /\ meant = [s \in Slots |-> Garbage]
    /\ calls = 0 /\ launched = 0

Wait(q) ==
    /\ Call(Operation("wait", <<>>, {}, {}, FALSE))
    /\ host' = Blocked(q, {})
    /\ UNCHANGED <<build, slot, memory, queue, answer>>

(* The first task of q runs. *)
Run(q) ==
    /\ queue[q] # <<>>
    /\ Perform(Head(queue[q]))
    /\ queue' = [queue EXCEPT ![q] = Tail(@)]
    /\ UNCHANGED <<build, slot, host, meant, calls, launched>>

(* The queue the host waits for has run dry. *)
Resume ==
    /\ \E q \in host.queue : queue[q] = <<>>
    /\ IF host.then = {} THEN UNCHANGED <<memory, answer>>
       ELSE \E t \in host.then : Perform(t)
    /\ host' = Ready
    /\ UNCHANGED <<build, slot, queue, meant, calls, launched>>

Collections ==
    \/ \E s \in Slots : Destroy(s) \/ ZeroInitialise(s)
    \/ \E s \in Slots, c \in Columns, v \in Values : Fill(s, c, v)
    \/ \E s, d \in Slots : DeepCopy(d, s)
    \/ \E s \in Slots, kind \in Kinds, on \in {{}} \cup {{q} : q \in Queues} : Construct(s, kind, on)
    \/ \E q \in Queues, s \in Slots : ZeroInitialiseOn(q, s)
    \/ \E q \in Queues, s, d \in Slots : DeepCopyOn(q, d, s) \/ CopyToDevice(q, d, s)

Algorithms ==
    \/ \E q \in Queues, s \in Slots, c \in Columns :
        ForEach(q, s, c) \/ Sort(q, s, c) \/ CountIf(q, s, c) \/ Reduce(q, s, c) \/ Extrema(q, s, c)
    \/ \E q \in Queues, s, d \in Slots, c \in Columns :
        Transform(q, s, d, c) \/ Scan(q, s, d, c) \/ InclusiveScanInit(q, s, d, c) \/ CopyIf(q, s, d, c)

Next ==
    \/ Resume
    \/ \E q \in Queues : Run(q)
    \/ Free /\ UNCHANGED launched /\ \E q \in Queues : Wait(q)
    \/ Free /\ UNCHANGED launched /\ Collections
    \/ Free /\ launched < MaxAlgorithms /\ launched' = launched + 1 /\ Algorithms

Spec == Init /\ [][Next]_vars

(***************************************************************************)
(* Properties.                                                             *)
(***************************************************************************)
(* The type invariant: a block belongs to one collection at most, and is   *)
(* not also on its way back to the allocator.                              *)
TypeOK ==
    /\ build \in Builds
    /\ \A s \in Live :
        /\ slot[s].kind \in Kinds /\ slot[s].queue \subseteq Queues
        /\ slot[s].block \in Heap[slot[s].kind]
        /\ \A r \in Live : r # s => slot[r].block # slot[s].block
        /\ \A q \in Queues : \A t \in Pending(q) : ~Releases(t, slot[s].block)
    /\ host.queue \subseteq Queues /\ calls \in 0 .. MaxCalls /\ launched \in 0 .. MaxAlgorithms

(* Asynchrony does not show: once nothing that writes a collection is      *)
(* outstanding, its columns hold what the calls of the program mean, in    *)
(* every build, whatever was destroyed and reused in between.              *)
Outstanding == host.then \cup UNION {Pending(q) : q \in Queues}

MemoryFollowsTheProgram ==
    \A s \in Live : \A c \in Columns :
        meant[s][c] # Undefined /\ (\A t \in Outstanding : s \notin t.call.to) =>
            memory[slot[s].block][c] = meant[s][c]

(* An algorithm that returns a value returns it for the data its place in  *)
(* the program means, in every build.                                      *)
AnswersFollowTheProgram ==
    answer.got = answer.meant \/ Undefined \in answer.meant
=============================================================================
