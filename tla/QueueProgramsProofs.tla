------------------------ MODULE QueueProgramsProofs ------------------------
(***************************************************************************)
(* A theorem about QueuePrograms, for any queues, collections, blocks and  *)
(* builds, and programs of any length: a block has one owner.              *)
(*                                                                         *)
(* The steps are of three kinds: those that leave the collections alone    *)
(* and queue no release, those that give a collection a block, and the     *)
(* destructor.                                                             *)
(***************************************************************************)
EXTENDS QueuePrograms, TLAPS

Collection == [kind : Kinds, queue : SUBSET Queues, block : Blocks]

IsTask(t) == "run" \in DOMAIN t /\ {"name", "to"} \subseteq DOMAIN t.run

(* The shapes that TypeOK takes for granted. *)
Shapes ==
    /\ slot \in [Slots -> Collection \cup {Empty}]
    /\ DOMAIN queue = Queues
    /\ \A q \in Queues : queue[q] \in Seq(Pending(q)) /\ \A t \in Pending(q) : IsTask(t)

(* No block has two collections, nor a collection and a release.           *)
Owned ==
    \A s \in Live :
        /\ slot[s].block \in Heap[slot[s].kind]
        /\ \A r \in Live : r # s => slot[r].block # slot[s].block
        /\ \A q \in Queues : \A t \in Pending(q) : ~Releases(t, slot[s].block)

Counts ==
    /\ build \in Builds
    /\ host.queue \subseteq Queues
    /\ calls \in 0 .. MaxCalls

IInv == Shapes /\ Owned /\ Counts /\ launched \in 0 .. MaxAlgorithms

-----------------------------------------------------------------------------
(* Sequences.                                                              *)

Elements(u) == {u[j] : j \in DOMAIN u}

LEMMA OverItsElements ==
    ASSUME NEW S, NEW u \in Seq(S)
    PROVE  u \in Seq(Elements(u))
  BY DEF Elements

LEMMA Listed ==
    ASSUME NEW n \in Nat, NEW w, w = [j \in 1 .. n |-> w[j]]
    PROVE  w \in Seq(Elements(w))
<1>1. \A j \in 1 .. n : w[j] \in Elements(w)
  <2>1. DOMAIN w = 1 .. n
    OBVIOUS
  <2> QED
    BY <2>1 DEF Elements
<1>2. w \in [1 .. n -> Elements(w)]
  BY <1>1
<1> QED
  BY <1>2

LEMMA Joined ==
    ASSUME NEW S, NEW T, NEW u \in Seq(S), NEW w \in Seq(T), NEW x, x = u \o w
    PROVE  x \in Seq(Elements(x)) /\ Elements(x) \subseteq Elements(u) \cup Elements(w)
<1>1. u \in Seq(S \cup T) /\ w \in Seq(S \cup T)
  OBVIOUS
<1>2. x \in Seq(S \cup T) /\ Len(x) = Len(u) + Len(w)
  BY <1>1
<1>3. ASSUME NEW j \in DOMAIN x PROVE x[j] \in Elements(u) \cup Elements(w)
  <2>1. j \in 1 .. Len(u) + Len(w) /\ Len(u) \in Nat /\ Len(w) \in Nat
    BY <1>2
  <2>2. CASE j <= Len(u)
    <3>1. j \in DOMAIN u /\ x[j] = u[j]
      BY <2>1, <2>2
    <3> QED
      BY <3>1 DEF Elements
  <2>3. CASE j > Len(u)
    <3>1. j - Len(u) \in DOMAIN w /\ x[j] = w[j - Len(u)]
      BY <2>1, <2>3
    <3> QED
      BY <3>1 DEF Elements
  <2> QED
    BY <2>1, <2>2, <2>3
<1>4. Elements(x) \subseteq Elements(u) \cup Elements(w)
  BY <1>3 DEF Elements
<1> QED
  BY <1>2, <1>4, OverItsElements

LEMMA OneElement ==
    ASSUME NEW e
    PROVE  <<e>> \in Seq({e}) /\ Elements(<<e>>) = {e}
<1>1. <<e>> \in Seq({e}) /\ DOMAIN <<e>> = {1} /\ <<e>>[1] = e
  OBVIOUS
<1> QED
  BY <1>1 DEF Elements

LEMMA Shorter ==
    ASSUME NEW S, NEW u \in Seq(S), u # <<>>
    PROVE  Tail(u) \in Seq(Elements(Tail(u))) /\ Elements(Tail(u)) \subseteq Elements(u)
<1>1. Tail(u) \in Seq(S) /\ Len(Tail(u)) = Len(u) - 1 /\ Len(u) \in Nat \ {0}
  OBVIOUS
<1>2. ASSUME NEW j \in DOMAIN Tail(u) PROVE \E i \in DOMAIN u : Tail(u)[j] = u[i]
  <2>1. j \in 1 .. Len(u) - 1 /\ Tail(u)[j] = u[j + 1] /\ j + 1 \in 1 .. Len(u)
    BY <1>1
  <2> QED
    BY <2>1
<1>3. Elements(Tail(u)) \subseteq Elements(u)
  BY <1>2 DEF Elements
<1> QED
  BY <1>1, <1>3, OverItsElements

LEMMA PendingElements ==
    ASSUME NEW q \in Queues
    PROVE  Pending(q) = Elements(queue[q]) /\ Pending(q)' = Elements(queue'[q])
  BY DEF Pending, Elements

-----------------------------------------------------------------------------
(* Tasks.                                                                  *)

(* What is put on a queue is an operation under a name of its own.         *)
Named(o) ==
    \E name, from, to, columns, returns :
        name # "release" /\ o = Operation(name, from, to, columns, returns)

LEMMA TaskOf ==
    ASSUME NEW o, Named(o), NEW slots, NEW columns
    PROVE  /\ IsTask(Task(o, slots)) /\ Task(o, slots).run.name # "release"
           /\ LET p == [o EXCEPT !.columns = columns]
              IN  IsTask(Task(p, slots)) /\ Task(p, slots).run.name # "release"
<1> DEFINE p == [o EXCEPT !.columns = columns]
<1>1. ASSUME NEW x, {"name", "from", "to"} \subseteq DOMAIN x, x.name # "release"
      PROVE  IsTask(Task(x, slots)) /\ Task(x, slots).run.name # "release"
  <2>1. /\ {"name", "to"} \subseteq DOMAIN Bound(x, slots)
        /\ Bound(x, slots).name = x.name
    BY <1>1 DEF Bound
  <2>2. "run" \in DOMAIN Task(x, slots) /\ Task(x, slots).run = Bound(x, slots)
    BY DEF Task
  <2> QED
    BY <1>1, <2>1, <2>2 DEF IsTask
<1>2. {"name", "from", "to"} \subseteq DOMAIN o /\ o.name # "release"
  BY DEF Named, Operation
<1>3. {"name", "from", "to"} \subseteq DOMAIN p /\ p.name # "release"
  BY <1>2
<1> QED
  BY <1>1, <1>2, <1>3

-----------------------------------------------------------------------------
(* Steps that leave the collections alone and queue no release.            *)
Quiet ==
    /\ slot' = slot
    /\ DOMAIN queue' = Queues
    /\ \A q \in Queues :
        /\ queue'[q] \in Seq(Pending(q)')
        /\ \A t \in Pending(q)' : t \in Pending(q) \/ (IsTask(t) /\ t.run.name # "release")

LEMMA QuietKeeps ==
    ASSUME Shapes, Owned, Quiet
    PROVE  Shapes' /\ Owned'
<1>1. Live' = Live
  BY DEF Quiet, Live
<1>2. Shapes'
  BY DEF Quiet, Shapes
<1>3. ASSUME NEW s \in Live', NEW q \in Queues, NEW t \in Pending(q)'
      PROVE  ~Releases(t, slot'[s].block)
  <2>1. t \in Pending(q) \/ t.run.name # "release"
    BY <1>3 DEF Quiet
  <2>2. slot' = slot /\ s \in Live
    BY <1>1, <1>3 DEF Quiet
  <2> QED
    BY <2>1, <2>2 DEF Owned, Releases
<1>4. \A s \in Live' : /\ slot'[s].block \in Heap[slot'[s].kind]
                       /\ \A r \in Live' : r # s => slot'[r].block # slot'[s].block
  BY <1>1 DEF Owned, Quiet
<1>5. Owned'
  BY <1>3, <1>4 DEF Owned
<1> QED
  BY <1>2, <1>5

LEMMA SameQueuesQuiet ==
    ASSUME Shapes, UNCHANGED <<slot, queue>>
    PROVE  Quiet
  BY DEF Shapes, Quiet, Pending

LEMMA CallCounts ==
    ASSUME Counts, NEW o, Call(o), build' = build, host'.queue \subseteq Queues
    PROVE  Counts'
  BY QueueAssumption DEF Counts, Call, Free

LEMMA OnHostQuiet ==
    ASSUME IInv, NEW o, OnHost(o)
    PROVE  Quiet /\ Counts'
<1>1. Call(o) /\ UNCHANGED <<build, slot, queue, host>>
  BY DEF OnHost
<1>2. Shapes /\ Counts /\ host.queue \subseteq Queues
  BY DEF IInv, Counts
<1> QED
  BY <1>1, <1>2, SameQueuesQuiet, CallCounts

LEMMA AfterQueueQuiet ==
    ASSUME IInv, NEW q \in Queues, NEW o, AfterQueue(q, o)
    PROVE  Quiet /\ Counts'
<1>1. Call(o) /\ UNCHANGED <<build, slot, queue>> /\ host' = Blocked(q, {Task(o, slot)})
  BY DEF AfterQueue
<1>2. Shapes /\ Counts /\ host'.queue \subseteq Queues
  BY <1>1 DEF IInv, Blocked
<1> QED
  BY <1>1, <1>2, SameQueuesQuiet, CallCounts

LEMMA OnQueueQuiet ==
    ASSUME IInv, NEW q \in Queues, NEW o, Named(o), NEW C, NEW parts \in Seq(C),
           NEW waits, OnQueue(q, o, parts, waits)
    PROVE  Quiet /\ Counts'
<1> DEFINE tasks == [j \in DOMAIN parts |-> Task([o EXCEPT !.columns = parts[j]], slot)]
<1>1. /\ Call(o) /\ build' = build /\ slot' = slot
      /\ queue' = [queue EXCEPT ![q] = @ \o tasks]
      /\ host' = IF waits THEN Blocked(q, {}) ELSE Ready
  BY DEF OnQueue
<1>2. \A j \in DOMAIN parts : IsTask(tasks[j]) /\ tasks[j].run.name # "release"
  BY TaskOf
<1>3. tasks \in Seq(Elements(tasks)) /\ DOMAIN tasks = DOMAIN parts
  <2>1. Len(parts) \in Nat /\ DOMAIN parts = 1 .. Len(parts)
    OBVIOUS
  <2>2. DOMAIN tasks = DOMAIN parts /\ tasks = [j \in DOMAIN parts |-> tasks[j]]
    OBVIOUS
  <2> HIDE DEF tasks
  <2> QED
    BY <2>1, <2>2, Listed
<1> HIDE DEF tasks
<1>4. host'.queue \subseteq Queues
  BY <1>1 DEF Blocked, Ready
<1>5. Counts'
  BY <1>1, <1>4, CallCounts DEF IInv
<1>6. DOMAIN queue = Queues /\ \A r \in Queues : queue[r] \in Seq(Pending(r))
  BY DEF IInv, Shapes
<1>7. DOMAIN queue' = Queues /\ queue'[q] = queue[q] \o tasks /\ \A r \in Queues \ {q} : queue'[r] = queue[r]
  BY <1>1, <1>6
<1>8. ASSUME NEW r \in Queues
      PROVE  /\ queue'[r] \in Seq(Pending(r)')
             /\ \A t \in Pending(r)' : t \in Pending(r) \/ (IsTask(t) /\ t.run.name # "release")
  <2>1. CASE r = q
    <3>1. queue[q] \in Seq(Pending(q)) /\ queue'[q] = queue[q] \o tasks
      BY <1>6, <1>7
    <3>2. /\ queue'[q] \in Seq(Elements(queue'[q]))
          /\ Elements(queue'[q]) \subseteq Elements(queue[q]) \cup Elements(tasks)
      BY <1>3, <3>1, Joined
    <3>3. \A t \in Elements(tasks) : IsTask(t) /\ t.run.name # "release"
      BY <1>2, <1>3 DEF Elements
    <3> QED
      BY <2>1, <3>2, <3>3, PendingElements
  <2>2. CASE r # q
    BY <1>6, <1>7, <2>2 DEF Pending, Elements
  <2> QED
    BY <2>1, <2>2
<1> QED
  BY <1>1, <1>5, <1>7, <1>8 DEF Quiet

LEMMA RunQuiet ==
    ASSUME IInv, NEW q \in Queues, Run(q)
    PROVE  Quiet /\ Counts'
<1>1. /\ UNCHANGED <<build, slot, host, calls>> /\ queue[q] # <<>>
      /\ queue' = [queue EXCEPT ![q] = Tail(@)]
  BY DEF Run
<1>2. Counts'
  BY <1>1 DEF IInv, Counts
<1>3. DOMAIN queue = Queues /\ \A r \in Queues : queue[r] \in Seq(Pending(r))
  BY DEF IInv, Shapes
<1>4. DOMAIN queue' = Queues /\ queue'[q] = Tail(queue[q]) /\ \A r \in Queues \ {q} : queue'[r] = queue[r]
  BY <1>1, <1>3
<1>5. ASSUME NEW r \in Queues
      PROVE  queue'[r] \in Seq(Pending(r)') /\ Pending(r)' \subseteq Pending(r)
  <2>1. CASE r = q
    <3>1. queue'[q] \in Seq(Elements(queue'[q])) /\ Elements(queue'[q]) \subseteq Elements(queue[q])
      BY <1>1, <1>3, <1>4, Shorter
    <3> QED
      BY <2>1, <3>1, PendingElements
  <2>2. CASE r # q
    BY <1>3, <1>4, <2>2 DEF Pending, Elements
  <2> QED
    BY <2>1, <2>2
<1> QED
  BY <1>1, <1>2, <1>4, <1>5 DEF Quiet

(* Algorithms: on the host, now or after a queue, or a task.                *)
LEMMA WithQueueQuiet ==
    ASSUME IInv, NEW q \in Queues, NEW o, Named(o), NEW waits, WithQueue(q, o, waits)
    PROVE  Quiet /\ Counts'
<1>1. CASE build.backend = "cpu"
  BY <1>1, AfterQueueQuiet DEF WithQueue
<1>2. CASE build.backend # "cpu"
  <2>1. OnQueue(q, o, <<o.columns>>, waits \/ o.returns)
    BY <1>2 DEF WithQueue
  <2>2. <<o.columns>> \in Seq({o.columns})
    OBVIOUS
  <2> QED
    BY <2>1, <2>2, OnQueueQuiet
<1> QED
  BY <1>1, <1>2

LEMMA AlgorithmsQuiet ==
    ASSUME IInv, Algorithms
    PROVE  Quiet /\ Counts'
<1> DEFINE Done(q, o) == (\E waits : WithQueue(q, o, waits)) \/ WithoutQueue(o)
<1>1. ASSUME NEW q \in Queues, NEW o, Named(o), Done(q, o) PROVE Quiet /\ Counts'
  <2>1. CASE \E waits : WithQueue(q, o, waits)
    BY <1>1, <2>1, WithQueueQuiet
  <2>2. CASE WithoutQueue(o)
    BY <2>2, OnHostQuiet DEF WithoutQueue
  <2> QED
    BY <1>1, <2>1, <2>2
<1>2. \A name, from, to, columns, returns :
          name # "release" => Named(Operation(name, from, to, columns, returns))
  BY DEF Named
<1>3. \A q, o : Algorithm(q, o) => Done(q, o)
  BY DEF Algorithm
<1> HIDE DEF Done
<1>4. PICK q \in Queues, s \in Slots, d \in Slots, c \in Columns :
          \/ ForEach(q, s, c) \/ Sort(q, s, c) \/ CountIf(q, s, c) \/ Reduce(q, s, c) \/ Extrema(q, s, c)
          \/ Transform(q, s, d, c) \/ Scan(q, s, d, c) \/ InclusiveScanInit(q, s, d, c) \/ CopyIf(q, s, d, c)
  BY DEF Algorithms
<1>5. CASE ForEach(q, s, c)
  BY <1>1, <1>2, <1>3, <1>5 DEF ForEach
<1>6. CASE Sort(q, s, c)
  BY <1>1, <1>2, <1>3, <1>6 DEF Sort
<1>7. CASE CountIf(q, s, c)
  BY <1>1, <1>2, <1>3, <1>7 DEF CountIf
<1>8. CASE Reduce(q, s, c)
  BY <1>1, <1>2, <1>3, <1>8 DEF Reduce
<1>9. CASE Extrema(q, s, c)
  BY <1>1, <1>2, <1>3, <1>9 DEF Extrema
<1>10. CASE Transform(q, s, d, c)
  BY <1>1, <1>2, <1>3, <1>10 DEF Transform
<1>11. CASE Scan(q, s, d, c)
  BY <1>1, <1>2, <1>3, <1>11 DEF Scan
<1>12. CASE InclusiveScanInit(q, s, d, c)
  <2>1. Done(q, Operation("inclusive_scan_init", <<s>>, {d}, {c}, FALSE))
    BY <1>12 DEF InclusiveScanInit, Done
  <2> QED
    BY <1>1, <1>2, <2>1
<1>13. CASE CopyIf(q, s, d, c)
  BY <1>1, <1>2, <1>3, <1>13 DEF CopyIf
<1> QED
  BY <1>4, <1>5, <1>6, <1>7, <1>8, <1>9, <1>10, <1>11, <1>12, <1>13

-----------------------------------------------------------------------------
(* Steps that give a collection a block: the releases of the block that    *)
(* are still queued release nothing any more.                              *)

LEMMA Neutralised ==
    ASSUME NEW S, NEW u \in Seq(S), NEW b,
           \A j \in DOMAIN u : IsTask(u[j])
    PROVE  LET w == WithoutRelease(u, b)
           IN  /\ w \in Seq(Elements(w))
               /\ \A t \in Elements(w) :
                      /\ IsTask(t)
                      /\ \/ t.run.to = {}
                         \/ t \in Elements(u) /\ ~Releases(t, b)
<1> DEFINE w == WithoutRelease(u, b)
<1>1. DOMAIN w = DOMAIN u
  BY DEF WithoutRelease
<1>2. w \in Seq(Elements(w))
  <2>1. Len(u) \in Nat /\ DOMAIN u = 1 .. Len(u)
    OBVIOUS
  <2>2. w = [j \in DOMAIN u |-> w[j]]
    BY DEF WithoutRelease
  <2> HIDE DEF w
  <2> QED
    BY <2>1, <2>2, Listed
<1>3. ASSUME NEW j \in DOMAIN w
      PROVE  /\ IsTask(w[j])
             /\ \/ w[j].run.to = {}
                \/ w[j] \in Elements(u) /\ ~Releases(w[j], b)
  <2>1. CASE Releases(u[j], b)
    <3>1. w[j] = [u[j] EXCEPT !.run.to = {}]
      BY <1>1, <2>1 DEF WithoutRelease
    <3>2. IsTask(u[j])
      BY <1>1
    <3> QED
      BY <3>1, <3>2 DEF IsTask
  <2>2. CASE ~Releases(u[j], b)
    <3>1. w[j] = u[j]
      BY <1>1, <2>2 DEF WithoutRelease
    <3>2. IsTask(u[j]) /\ u[j] \in Elements(u)
      BY <1>1 DEF Elements
    <3> QED
      BY <2>2, <3>1, <3>2
  <2> QED
    BY <2>1, <2>2
<1> HIDE DEF w
<1>4. \A t \in Elements(w) : \E j \in DOMAIN w : t = w[j]
  BY DEF Elements
<1>5. \A t \in Elements(w) : IsTask(t) /\ (t.run.to = {} \/ (t \in Elements(u) /\ ~Releases(t, b)))
  BY <1>3, <1>4
<1> QED
  BY <1>2, <1>5 DEF w

LEMMA MakeKeeps ==
    ASSUME Shapes, Owned, NEW s \in Slots, NEW kind \in Kinds, NEW on \in SUBSET Queues, NEW b,
           Make(s, kind, on, b),
           DOMAIN queue' = Queues,
           \A q \in Queues :
               /\ queue'[q] \in Seq(Pending(q)')
               /\ \A t \in Pending(q)' :
                      /\ IsTask(t)
                      /\ \/ t.run.name # "release"
                         \/ t.run.to = {}
                         \/ t \in Pending(q) /\ ~Releases(t, b)
    PROVE  Shapes' /\ Owned'
<1> DEFINE new == [kind |-> kind, queue |-> IF QueueOrdered(kind) THEN on ELSE {}, block |-> b]
<1>1. /\ slot[s] = Empty /\ slot' = [slot EXCEPT ![s] = new]
      /\ b \in Heap[kind] /\ \A r \in Live : slot[r].block # b
  BY DEF Make, Allocatable
<1>2. new \in Collection /\ new # Empty
  BY <1>1 DEF Collection, Blocks, Empty
<1>3. slot'[s] = new /\ \A r \in Slots \ {s} : slot'[r] = slot[r]
  BY <1>1 DEF Shapes
<1>4. slot' \in [Slots -> Collection \cup {Empty}]
  BY <1>1, <1>2 DEF Shapes
<1>5. Shapes'
  BY <1>4 DEF Shapes
<1>6. new.block = b /\ new.kind = kind
  OBVIOUS
<1> HIDE DEF new
<1>7. Live' = Live \cup {s} /\ s \notin Live
  BY <1>1, <1>2, <1>3 DEF Live
<1>8. ASSUME NEW r \in Live'
      PROVE  /\ slot'[r].block \in Heap[slot'[r].kind]
             /\ \A x \in Live' : x # r => slot'[x].block # slot'[r].block
             /\ \A q \in Queues : \A t \in Pending(q)' : ~Releases(t, slot'[r].block)
  <2>1. Live \subseteq Slots /\ (r = s \/ r \in Live)
    BY <1>7 DEF Live
  <2>2. slot'[r].block \in Heap[slot'[r].kind]
    BY <1>1, <1>3, <1>6, <2>1, <1>7 DEF Owned
  <2>3. \A x \in Live' : x # r => slot'[x].block # slot'[r].block
    BY <1>1, <1>3, <1>6, <1>7, <2>1 DEF Owned
  <2>4. ASSUME NEW q \in Queues, NEW t \in Pending(q)' PROVE ~Releases(t, slot'[r].block)
    <3>1. \/ t.run.name # "release"
          \/ t.run.to = {}
          \/ t \in Pending(q) /\ ~Releases(t, b)
      BY <2>4
    <3>2. CASE t.run.name # "release" \/ t.run.to = {}
      BY <3>2 DEF Releases
    <3>3. CASE t \in Pending(q) /\ ~Releases(t, b)
      <4>1. CASE r = s
        BY <1>3, <1>6, <3>3, <4>1
      <4>2. CASE r \in Live
        BY <1>3, <1>7, <2>1, <3>3, <4>2 DEF Owned
      <4> QED
        BY <2>1, <4>1, <4>2
    <3> QED
      BY <3>1, <3>2, <3>3
  <2> QED
    BY <2>2, <2>3, <2>4
<1>9. Owned'
  BY <1>8 DEF Owned
<1> QED
  BY <1>5, <1>9

LEMMA QueuedTasks ==
    ASSUME Shapes, NEW q \in Queues
    PROVE  queue[q] \in Seq(Pending(q)) /\ \A j \in DOMAIN queue[q] : queue[q][j] \in Pending(q) /\ IsTask(queue[q][j])
  BY DEF Shapes, Pending

LEMMA ConstructKeeps ==
    ASSUME IInv, NEW s \in Slots, NEW kind \in Kinds, NEW on \in SUBSET Queues, Construct(s, kind, on)
    PROVE  Shapes' /\ Owned' /\ Counts'
<1>1. PICK b \in Heap[kind] :
          Make(s, kind, on, b) /\ queue' = [r \in Queues |-> WithoutRelease(queue[r], b)]
  BY DEF Construct
<1>2. Counts'
  <2>1. Call(Operation("make", <<>>, {}, {}, FALSE)) /\ build' = build /\ host' = host
    BY DEF Construct
  <2>2. host'.queue \subseteq Queues
    BY <2>1 DEF IInv, Counts
  <2> QED
    BY <2>1, <2>2, CallCounts DEF IInv
<1>3. ASSUME NEW q \in Queues
      PROVE  /\ queue'[q] \in Seq(Pending(q)')
             /\ \A t \in Pending(q)' :
                    /\ IsTask(t)
                    /\ \/ t.run.to = {}
                       \/ t \in Pending(q) /\ ~Releases(t, b)
  <2> DEFINE w == WithoutRelease(queue[q], b)
  <2>1. /\ w \in Seq(Elements(w))
        /\ \A t \in Elements(w) : /\ IsTask(t)
                                   /\ \/ t.run.to = {}
                                      \/ t \in Elements(queue[q]) /\ ~Releases(t, b)
    BY QueuedTasks, Neutralised DEF IInv
  <2>2. queue'[q] = w
    BY <1>1
  <2> HIDE DEF w
  <2> QED
    BY <2>1, <2>2, PendingElements
<1>4. DOMAIN queue' = Queues
  BY <1>1
<1> QED
  BY <1>1, <1>2, <1>3, <1>4, MakeKeeps DEF IInv

LEMMA CopyToDeviceKeeps ==
    ASSUME IInv, NEW q \in Queues, NEW d \in Slots, NEW s \in Slots, CopyToDevice(q, d, s)
    PROVE  Shapes' /\ Owned' /\ Counts'
<1> DEFINE o == Operation("memcpy", <<s>>, {d}, Columns, FALSE)
           more(r) == IF r = q THEN <<Task(o, slot')>> ELSE <<>>
<1>1. /\ Call(o) /\ build' = build /\ host' = host
      /\ \E b \in Heap["device"] :
            Make(d, "device", {q}, b) /\ queue' = [r \in Queues |-> WithoutRelease(queue[r], b) \o more(r)]
  BY DEF CopyToDevice
<1>2. PICK b \in Heap["device"] :
          Make(d, "device", {q}, b) /\ queue' = [r \in Queues |-> WithoutRelease(queue[r], b) \o more(r)]
  BY <1>1
<1>3. IsTask(Task(o, slot')) /\ Task(o, slot').run.name # "release"
  <2>1. Named(o)
    BY DEF Named
  <2> QED
    BY <2>1, TaskOf
<1> HIDE DEF o
<1>4. Counts'
  <2>1. host'.queue \subseteq Queues
    BY <1>1 DEF IInv, Counts
  <2> QED
    BY <1>1, <2>1, CallCounts DEF IInv
<1>5. ASSUME NEW r \in Queues
      PROVE  /\ queue'[r] \in Seq(Pending(r)')
             /\ \A t \in Pending(r)' :
                    /\ IsTask(t)
                    /\ \/ t.run.name # "release"
                       \/ t.run.to = {}
                       \/ t \in Pending(r) /\ ~Releases(t, b)
  <2> DEFINE w == WithoutRelease(queue[r], b)
             n == more(r)
  <2>1. /\ w \in Seq(Elements(w))
        /\ \A t \in Elements(w) : /\ IsTask(t)
                                   /\ \/ t.run.to = {}
                                      \/ t \in Elements(queue[r]) /\ ~Releases(t, b)
    BY QueuedTasks, Neutralised DEF IInv
  <2>2. n \in Seq({Task(o, slot')}) /\ \A t \in Elements(n) : t = Task(o, slot')
    <3>1. CASE r = q
      <4>1. n = <<Task(o, slot')>>
        BY <3>1
      <4> HIDE DEF n
      <4> QED
        BY <4>1, OneElement
    <3>2. CASE r # q
      <4>1. n = <<>>
        BY <3>2
      <4> HIDE DEF n
      <4> QED
        BY <4>1 DEF Elements
    <3> QED
      BY <3>1, <3>2
  <2>3. queue'[r] = w \o n
    BY <1>2
  <2> HIDE DEF w, n
  <2>4. /\ queue'[r] \in Seq(Elements(queue'[r]))
        /\ Elements(queue'[r]) \subseteq Elements(w) \cup Elements(n)
    BY <2>1, <2>2, <2>3, Joined
  <2> QED
    BY <1>3, <2>1, <2>2, <2>4, PendingElements
<1>6. DOMAIN queue' = Queues
  BY <1>2
<1> QED
  BY <1>2, <1>4, <1>5, <1>6, MakeKeeps DEF IInv, Kinds

-----------------------------------------------------------------------------
(* The destructor: the block leaves its only owner.                        *)
LEMMA DestroyKeeps ==
    ASSUME IInv, NEW s \in Slots, Destroy(s)
    PROVE  Shapes' /\ Owned' /\ Counts'
<1> DEFINE o == Operation("release", <<>>, {s}, {}, FALSE)
           task == Task(o, slot)
<1>1. /\ s \in Live /\ slot' = [slot EXCEPT ![s] = Empty]
      /\ queue' = [q \in Queues |->
                      IF q \in slot[s].queue THEN Append(queue[q], task) ELSE queue[q]]
      /\ Free /\ calls' = calls + 1 /\ UNCHANGED <<build, host>>
  BY DEF Destroy
<1>2. IsTask(task) /\ task.run.to = {slot[s].block}
  BY DEF Operation, Task, Bound, IsTask
<1> HIDE DEF task
<1>3. Counts'
  BY <1>1, QueueAssumption DEF IInv, Counts, Free
<1>4. Live' = Live \ {s} /\ \A r \in Live' : slot'[r] = slot[r]
  BY <1>1 DEF Live, IInv, Shapes
<1>5. ASSUME NEW q \in Queues
      PROVE  /\ queue'[q] \in Seq(Pending(q)')
             /\ \A t \in Pending(q)' : t \in Pending(q) \/ t = task
  <2>1. queue[q] \in Seq(Pending(q))
    BY QueuedTasks DEF IInv
  <2>2. CASE q \notin slot[s].queue
    BY <1>1, <2>1, <2>2 DEF Pending, Elements
  <2>3. CASE q \in slot[s].queue
    <3>1. queue'[q] = queue[q] \o <<task>>
      BY <1>1, <2>1, <2>3
    <3>2. <<task>> \in Seq({task}) /\ Elements(<<task>>) = {task}
      BY OneElement
    <3>3. /\ queue'[q] \in Seq(Elements(queue'[q]))
          /\ Elements(queue'[q]) \subseteq Elements(queue[q]) \cup Elements(<<task>>)
      BY <2>1, <3>1, <3>2, Joined
    <3> QED
      BY <3>2, <3>3, PendingElements
  <2> QED
    BY <2>2, <2>3
<1>6. Shapes'
  <2>1. slot' \in [Slots -> Collection \cup {Empty}]
    BY <1>1 DEF IInv, Shapes
  <2>2. DOMAIN queue' = Queues
    BY <1>1
  <2> QED
    BY <1>2, <1>5, <2>1, <2>2 DEF IInv, Shapes
<1>7. ASSUME NEW r \in Live', NEW q \in Queues, NEW t \in Pending(q)'
      PROVE  ~Releases(t, slot'[r].block)
  <2>1. slot'[r] = slot[r] /\ r \in Live /\ r # s
    BY <1>4, <1>7
  <2>2. slot[r].block # slot[s].block
    BY <1>1, <2>1 DEF IInv, Owned
  <2>3. CASE t \in Pending(q)
    BY <2>1, <2>3 DEF IInv, Owned
  <2>4. CASE t = task
    BY <1>2, <2>1, <2>2, <2>4 DEF Releases
  <2> QED
    BY <1>5, <1>7, <2>3, <2>4
<1>8. \A r \in Live' : /\ slot'[r].block \in Heap[slot'[r].kind]
                       /\ \A x \in Live' : x # r => slot'[x].block # slot'[r].block
  BY <1>4 DEF IInv, Owned
<1> QED
  BY <1>3, <1>6, <1>7, <1>8 DEF Owned

-----------------------------------------------------------------------------
LEMMA InitKeeps == Init => IInv
<1> SUFFICES ASSUME Init PROVE IInv
  OBVIOUS
<1>1. Live = {}
  BY DEF Init, Live
<1>2. \A q \in Queues : queue[q] = <<>> /\ Pending(q) = {}
  <2>1. \A q \in Queues : queue[q] = <<>>
    BY DEF Init
  <2>2. ASSUME NEW q \in Queues PROVE queue[q] = <<>> /\ Pending(q) = {}
    <3>1. queue[q] = <<>> /\ DOMAIN <<>> = {}
      BY <2>1
    <3> QED
      BY <3>1 DEF Pending
  <2> QED
    BY <2>2
<1>3. Shapes
  BY <1>2 DEF Init, Shapes
<1>4. Counts /\ launched \in 0 .. MaxAlgorithms
  BY QueueAssumption DEF Init, Counts, Ready
<1> QED
  BY <1>1, <1>3, <1>4 DEF IInv, Owned

LEMMA CollectionsKeep ==
    ASSUME IInv, Collections
    PROVE  Shapes' /\ Owned' /\ Counts'
<1> DEFINE Goal == Shapes' /\ Owned' /\ Counts'
<1>1. ASSUME Quiet, Counts' PROVE Goal
  BY <1>1, QuietKeeps DEF IInv
<1>2. ASSUME NEW s \in Slots, ZeroInitialise(s) PROVE Goal
  BY <1>1, <1>2, OnHostQuiet DEF ZeroInitialise
<1>3. ASSUME NEW s \in Slots, NEW c \in Columns, NEW v \in Values, Fill(s, c, v) PROVE Goal
  BY <1>1, <1>3, OnHostQuiet DEF Fill
<1>4. ASSUME NEW s \in Slots, NEW d \in Slots, DeepCopy(d, s) PROVE Goal
  BY <1>1, <1>4, OnHostQuiet DEF DeepCopy
<1>5. ASSUME NEW q \in Queues, NEW s \in Slots, ZeroInitialiseOn(q, s) PROVE Goal
  <2>1. OnQueue(q, Zero(s), <<Columns>>, FALSE)
    BY <1>5 DEF ZeroInitialiseOn
  <2>2. Named(Zero(s))
    BY DEF Named, Zero
  <2>3. <<Columns>> \in Seq({Columns})
    OBVIOUS
  <2> QED
    BY <1>1, <2>1, <2>2, <2>3, OnQueueQuiet
<1>6. ASSUME NEW q \in Queues, NEW s \in Slots, NEW d \in Slots, DeepCopyOn(q, d, s) PROVE Goal
  <2> DEFINE parts == [c \in Columns |-> {c}]
  <2>1. OnQueue(q, Copy(d, s), parts, FALSE)
    BY <1>6 DEF DeepCopyOn
  <2>2. parts \in Seq({{c} : c \in Columns})
    BY QueueAssumption DEF Columns
  <2>3. Named(Copy(d, s))
    BY DEF Named, Copy
  <2> HIDE DEF parts
  <2> QED
    BY <1>1, <2>1, <2>2, <2>3, OnQueueQuiet
<1>7. ASSUME NEW s \in Slots, NEW kind \in Kinds, NEW on \in {{}} \cup {{q} : q \in Queues},
             Construct(s, kind, on)
      PROVE  Goal
  <2>1. on \in SUBSET Queues
    OBVIOUS
  <2> QED
    BY <1>7, <2>1, ConstructKeeps
<1>8. ASSUME NEW q \in Queues, NEW s \in Slots, NEW d \in Slots, CopyToDevice(q, d, s) PROVE Goal
  BY <1>8, CopyToDeviceKeeps
<1>9. ASSUME NEW s \in Slots, Destroy(s) PROVE Goal
  BY <1>9, DestroyKeeps
<1> HIDE DEF Goal
<1>10. Goal
  BY <1>2, <1>3, <1>4, <1>5, <1>6, <1>7, <1>8, <1>9 DEF Collections
<1> QED
  BY <1>10 DEF Goal

LEMMA NextKeeps == IInv /\ [Next]_vars => IInv'
<1> SUFFICES ASSUME IInv, [Next]_vars PROVE IInv'
  OBVIOUS
<1>1. ASSUME Quiet, Counts', launched' \in 0 .. MaxAlgorithms PROVE IInv'
  BY <1>1, QuietKeeps DEF IInv
<1>2. ASSUME UNCHANGED launched PROVE launched' \in 0 .. MaxAlgorithms
  BY <1>2 DEF IInv
<1>3. CASE Resume
  <2>1. UNCHANGED <<build, slot, queue, calls, launched>> /\ host' = Ready
    BY <1>3 DEF Resume
  <2>2. Counts' /\ Quiet
    BY <2>1, SameQueuesQuiet DEF IInv, Counts, Ready
  <2> QED
    BY <1>1, <1>2, <2>1, <2>2
<1>4. ASSUME NEW q \in Queues, Run(q) PROVE IInv'
  BY <1>1, <1>2, <1>4, RunQuiet DEF Run
<1>5. ASSUME NEW q \in Queues, UNCHANGED launched, Wait(q) PROVE IInv'
  <2>1. /\ Call(Operation("wait", <<>>, {}, {}, FALSE))
        /\ UNCHANGED <<build, slot, queue>> /\ host' = Blocked(q, {})
    BY <1>5 DEF Wait
  <2>2. Quiet /\ host'.queue \subseteq Queues
    BY <2>1, SameQueuesQuiet DEF IInv, Blocked
  <2>3. Counts'
    BY <2>1, <2>2, CallCounts DEF IInv
  <2> QED
    BY <1>1, <1>2, <1>5, <2>2, <2>3
<1>6. CASE UNCHANGED launched /\ Collections
  BY <1>2, <1>6, CollectionsKeep DEF IInv
<1>7. CASE launched < MaxAlgorithms /\ launched' = launched + 1 /\ Algorithms
  <2>1. launched' \in 0 .. MaxAlgorithms
    BY <1>7, QueueAssumption DEF IInv
  <2> QED
    BY <1>1, <1>7, <2>1, AlgorithmsQuiet
<1>8. CASE UNCHANGED vars
  <2>1. UNCHANGED <<build, slot, queue, host, calls, launched>>
    BY <1>8 DEF vars
  <2>2. Quiet /\ Counts'
    BY <2>1, SameQueuesQuiet DEF IInv, Counts
  <2> QED
    BY <1>1, <1>2, <2>1, <2>2
<1> QED
  BY <1>3, <1>4, <1>5, <1>6, <1>7, <1>8 DEF Next

LEMMA OwnersAreTyped == IInv => TypeOK
<1> SUFFICES ASSUME IInv PROVE TypeOK
  OBVIOUS
<1>1. ASSUME NEW s \in Live PROVE slot[s].kind \in Kinds /\ slot[s].queue \subseteq Queues
  <2>1. slot[s] \in Collection
    BY <1>1 DEF IInv, Shapes, Live
  <2> QED
    BY <2>1 DEF Collection
<1> QED
  BY <1>1 DEF IInv, Owned, Counts, TypeOK

(* In every program a block belongs to one collection at most, and none    *)
(* that belongs to a collection is also on its way back to the allocator:  *)
(* neither the policies nor the reuse of a block before its release has    *)
(* run on its queue lead to two owners.                                    *)
THEOREM BlocksHaveOneOwner == Spec => []TypeOK
<1>1. Spec => []IInv
  BY InitKeeps, NextKeeps, PTL DEF Spec
<1> QED
  BY <1>1, OwnersAreTyped, PTL
=============================================================================
