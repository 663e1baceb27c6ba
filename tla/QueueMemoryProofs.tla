------------------------- MODULE QueueMemoryProofs ------------------------
(***************************************************************************)
(* Programs on queues leave in memory what their calls mean, and return    *)
(* it, however long they are: the steps of QueuePrograms preserve the      *)
(* invariant of QueueMemory.                                               *)
(***************************************************************************)
EXTENDS QueueMemory, QueueProgramsProofs

(* The queue a buffer is made on, if any.                                    *)
OneQueueOrNone == {{}} \cup {{q} : q \in Queues}

(* The tasks that are going to run: those of the queues, and behind the     *)
(* queue the host waits for what it does then.                              *)
Lined(Q, qu, ho) ==
    \A q \in Queues :
        \/ Q[q] = qu[q] /\ (q \in ho.queue => ho.then = {})
        \/ q \in ho.queue /\ \E t : ho.then = {t} /\ Q[q] = Append(qu[q], t)

Follow(sl, mem, mn, qu, ho) ==
    \E Q, be, G : Lined(Q, qu, ho) /\ World(sl, mem, Q, mn, be, G)

Waits(ho) ==
    \/ ho = Ready
    \/ \E q \in Queues : ho = Blocked(q, {}) \/ \E t : ho = Blocked(q, {t})

(* Device buffers that are given back in the order of a queue.              *)
Devices ==
    \A s \in Live :
        /\ slot[s].queue = {} \/ \E q \in Queues : slot[s].queue = {q}
        /\ slot[s].kind = "device" =>
            build.backend # "cpu" /\ (slot[s].queue # {} => build.policy = "Asynchronous")

DeviceReleases ==
    \A q \in Queues : \A t \in Pending(q) : \A b \in Heap["device"] :
        Releases(t, b) => build.policy = "Asynchronous"

Followed ==
    /\ DOMAIN memory = Blocks /\ DOMAIN meant = Slots /\ Waits(host)
    /\ Right(answer.got, answer.meant)
    /\ Follow(slot, memory, meant, queue, host)

MInv == IInv /\ Devices /\ DeviceReleases /\ Followed

-----------------------------------------------------------------------------
(* Steps that leave collections and releases alone preserve both.           *)
LEMMA QuietDevices ==
    ASSUME Devices, DeviceReleases, Quiet, build' = build
    PROVE  Devices' /\ DeviceReleases'
<1>1. slot' = slot /\ Live' = Live
  BY DEF Quiet, Live
<1>2. Devices'
  BY <1>1 DEF Devices
<1>3. ASSUME NEW q \in Queues, NEW t \in Pending(q)', NEW b \in Heap["device"], Releases(t, b)
      PROVE  build'.policy = "Asynchronous"
  <2>1. t \in Pending(q)
    BY <1>3 DEF Quiet, Releases
  <2> QED
    BY <1>3, <2>1 DEF DeviceReleases
<1> QED
  BY <1>2, <1>3 DEF DeviceReleases

(* When the host is free, the tasks that are going to run are those of the  *)
(* queues.                                                                  *)
LEMMA LinedWhenReady ==
    ASSUME NEW Q, Lined(Q, queue, host), host = Ready
    PROVE  \A q \in Queues : Q[q] = queue[q]
  BY DEF Lined, Ready

(* Or when the host does nothing after its wait.                            *)
LEMMA LinedWithout ==
    ASSUME NEW Q, NEW qu, NEW ho, \A q \in Queues : Q[q] = qu[q], ho.then = {}
    PROVE  Lined(Q, qu, ho)
  BY DEF Lined

(* The tasks of a queue, by their places.                                   *)
LEMMA QueuedAre ==
    ASSUME Shapes, NEW q \in Queues
    PROVE  /\ queue[q] \in Seq(Pending(q)) /\ Len(queue[q]) \in Nat
           /\ \A i \in 1 .. Len(queue[q]) : queue[q][i] \in Pending(q)
           /\ \A t \in Pending(q) : \E i \in 1 .. Len(queue[q]) : t = queue[q][i]
<1>1. queue[q] \in Seq(Pending(q))
  BY DEF Shapes
<1>2. Len(queue[q]) \in Nat /\ DOMAIN queue[q] = 1 .. Len(queue[q])
  BY <1>1
<1> QED
  BY <1>1, <1>2 DEF Pending

(* What the client sees to, by the places of the tasks.                     *)
LEMMA ClearOfQueue ==
    ASSUME Shapes, NEW q \in Queues, NEW Q, Q[q] = queue[q], NEW o, ClearOf({q}, o)
    PROVE  Clear(Q, q, o)
<1>1. ASSUME NEW i \in 1 .. Len(Q[q]) PROVE ~Conflicts(Q[q][i], o)
  <2>1. queue[q][i] \in Pending(q)
    BY QueuedAre
  <2> QED
    BY <2>1 DEF ClearOf
<1> QED
  BY <1>1 DEF Clear, Conflicts, Uses, Writes

(* The task made of o by the addresses in the views.                        *)
Plain(o) == \E name, from, to, columns, returns : o = Operation(name, from, to, columns, returns)

(* It is bound to the blocks the collections have.                          *)
LEMMA BoundPlaces ==
    ASSUME NEW o, Plain(o), IsCall(o), NEW sl, NEW be, Placed(sl, be), Touches(o) \subseteq LiveIn(sl)
    PROVE  /\ Places(o, Bound(o, sl), be) /\ Bound(o, sl).name = o.name
           /\ Bound(o, sl).columns = o.columns /\ Bound(o, sl).returns = o.returns
<1>1. PICK name, from, to, columns, returns : o = Operation(name, from, to, columns, returns)
  BY DEF Plain
<1>2. o = [name |-> name, from |-> from, to |-> to, columns |-> columns, returns |-> returns]
  BY <1>1 DEF Operation
<1>3. /\ Bound(o, sl).name = o.name /\ Bound(o, sl).columns = o.columns /\ Bound(o, sl).returns = o.returns
      /\ Bound(o, sl).from = [j \in DOMAIN o.from |-> sl[o.from[j]].block]
      /\ Bound(o, sl).to = {sl[s].block : s \in o.to}
  BY <1>2 DEF Bound
<1>4. \A s \in Touches(o) : sl[s].block = be[s]
  BY DEF Placed
<1>5. \A j \in DOMAIN o.from : sl[o.from[j]].block = be[o.from[j]]
  BY <1>4 DEF Touches
<1>6. {sl[s].block : s \in o.to} = {be[s] : s \in o.to}
  BY <1>4 DEF Touches
<1> QED
  BY <1>3, <1>5, <1>6 DEF Places

(* Effect on the collections.                                               *)
LEMMA EffectSteps ==
    ASSUME NEW o, NEW x, DOMAIN x = Slots
    PROVE  Steps(o, x, Effect(o, x)) /\ DOMAIN Effect(o, x) = Slots
  BY DEF Steps, Effect

(* Effect on the blocks, for an operation known by its columns.             *)
LEMMA EffectOnBlocks ==
    ASSUME NEW p, NEW mem, DOMAIN mem = Blocks, NEW columns, p.columns = columns
    PROVE  /\ DOMAIN Effect(p, mem) = Blocks
           /\ \A b \in Blocks, c \in Columns :
                  Effect(p, mem)[b][c] = IF b \in p.to /\ c \in columns THEN Result(p, mem, c) ELSE mem[b][c]
  BY DEF Effect

(* The invariant sees queues only through their tasks.                      *)
LEMMA SameQueues ==
    ASSUME NEW sl, NEW mem, NEW Q, NEW mn, NEW be, NEW G, World(sl, mem, Q, mn, be, G),
           NEW Q2, \A q \in Queues : Q2[q] = Q[q]
    PROVE  World(sl, mem, Q2, mn, be, G)
<1>1. \A q \in Queues : \A i : Uses(Q2, q, i) = Uses(Q, q, i) /\ Writes(Q2, q, i) = Writes(Q, q, i)
  BY DEF Uses, Writes
<1>2. \A q \in Queues : \A s : InUse(Q2, q, s) <=> InUse(Q, q, s)
  BY <1>1 DEF InUse
<1>3. Tasks(Q2, be) /\ Chain(Q2, G) /\ Answers(Q2, G) /\ Starts(mem, Q2, be, G) /\ Ends(sl, Q2, mn, G)
  BY <1>2 DEF World, Tasks, Chain, Answers, Starts, Ends
<1>4. Separate(Q2) /\ Keeps(Q2, G) /\ Holds(sl, mem, Q2, mn, be)
  BY <1>1 DEF World, Separate, Keeps, Holds
<1>5. OwnQueues(sl, Q2) /\ ReusedLater(sl, Q2, be, G)
  BY <1>1 DEF World, OwnQueues, ReusedLater
<1>6. UsedInTurn(sl, Q2, be, G)
  BY <1>1 DEF World, UsedInTurn
<1>7. ReleasedLater(sl, Q2, be)
  BY <1>1 DEF World, ReleasedLater
<1> QED
  BY <1>3, <1>4, <1>5, <1>6, <1>7 DEF World

-----------------------------------------------------------------------------
(* A call done by the host at once.                                         *)
LEMMA OnHostFollowed ==
    ASSUME MInv, NEW o, Plain(o), IsCall(o), Touches(o) \subseteq Live, OnHost(o)
    PROVE  Followed'
<1>1. /\ host = Ready /\ meant' = Effect(o, meant) /\ ClearOf(Queues, o) /\ OwnQueueIdle(o)
      /\ Perform(Task(o, slot)) /\ UNCHANGED <<build, slot, queue, host>>
  BY DEF OnHost, Call, Free
<1>2. IInv /\ Shapes /\ DOMAIN memory = Blocks /\ DOMAIN meant = Slots /\ Waits(host)
      /\ Right(answer.got, answer.meant) /\ Follow(slot, memory, meant, queue, host)
  BY DEF MInv, IInv, Followed
<1>3. PICK Q, be, G : Lined(Q, queue, host) /\ World(slot, memory, Q, meant, be, G)
  BY <1>2 DEF Follow
<1>4. \A q \in Queues : Q[q] = queue[q]
  BY <1>1, <1>3, LinedWhenReady
<1> DEFINE p == Bound(o, slot)
           mem2 == Effect(p, memory)
<1>5. Task(o, slot).run = p /\ Task(o, slot).meant = Returned(o, meant)
  BY DEF Task
<1>6. Placed(slot, be) /\ Touches(o) \subseteq LiveIn(slot)
  BY <1>3 DEF World, LiveIn, Live
<1>7. Places(o, p, be) /\ p.columns = o.columns /\ p.returns = o.returns
  BY <1>6, BoundPlaces
<1>8. memory' = mem2
      /\ answer' = IF p.returns THEN [got |-> Returned(p, memory), meant |-> Returned(o, meant)] ELSE answer
  BY <1>1, <1>5 DEF Perform
<1>9. DOMAIN mem2 = Blocks /\ \A b \in Blocks, c \in Columns :
          mem2[b][c] = IF b \in p.to /\ c \in o.columns THEN Result(p, memory, c) ELSE memory[b][c]
  BY <1>2, <1>7, EffectOnBlocks
<1> HIDE DEF p, mem2
<1>10. Proper(o, slot)
  BY <1>6 DEF Proper
<1>11. \A q \in Queues : Clear(Q, q, o)
  <2>1. ASSUME NEW q \in Queues PROVE Clear(Q, q, o)
    <3>1. ClearOf({q}, o)
      BY <1>1 DEF ClearOf
    <3> QED
      BY <1>2, <1>4, <3>1, ClearOfQueue
  <2> QED
    BY <2>1
<1>12. \A s \in o.to : slot[s].kind = "device" => \A q \in slot[s].queue \cap Queues : Len(Q[q]) = 0
  <2>1. ASSUME NEW s \in o.to, slot[s].kind = "device", NEW q \in slot[s].queue \cap Queues
        PROVE  Len(Q[q]) = 0
    <3>1. queue[q] = <<>>
      BY <1>1, <2>1 DEF OwnQueueIdle, Touches
    <3> QED
      BY <1>4, <3>1
  <2> QED
    BY <2>1
<1>13. Steps(o, meant, meant') /\ DOMAIN meant' = Slots
  BY <1>1, <1>2, EffectSteps
<1>14. \E G2 : World(slot, mem2, Q, meant', be, G2)
  BY <1>3, <1>7, <1>9, <1>10, <1>11, <1>12, <1>13, HostKeeps
<1>15. Follow(slot, memory, meant, queue, host)'
  <2>1. Lined(Q, queue', host')
    BY <1>1, <1>3
  <2> QED
    BY <1>1, <1>8, <1>14, <2>1 DEF Follow
<1>16. Right(answer'.got, answer'.meant)
  <2>1. Right(Returned(p, memory), Returned(o, meant))
    BY <1>3, <1>7, <1>10, <1>11, AnswerAtOnce
  <2> QED
    BY <1>2, <1>8, <2>1
<1> QED
  BY <1>1, <1>2, <1>8, <1>9, <1>13, <1>15, <1>16 DEF Followed

(* What waits changes in what is meant.                                     *)
LEMMA NothingMeant ==
    ASSUME NEW sl, NEW mem, NEW Q, NEW mn, NEW be, NEW G, World(sl, mem, Q, mn, be, G),
           NEW mn2, \A s \in Slots, c \in Columns : mn2[s][c] = mn[s][c]
    PROVE  World(sl, mem, Q, mn2, be, G)
<1>1. \A s \in LiveIn(sl) : s \in Slots
  BY DEF LiveIn
<1>2. Ends(sl, Q, mn2, G) /\ Forgotten(sl, mn2)
  BY <1>1 DEF World, Ends, Forgotten
<1>3. Holds(sl, mem, Q, mn2, be)
  BY <1>1 DEF World, Holds
<1> QED
  BY <1>2, <1>3 DEF World

(* A call that writes nothing means nothing.                                *)
LEMMA EmptyCall ==
    ASSUME NEW o, o.to = {}, NEW x, DOMAIN x = Slots
    PROVE  \A s \in Slots, c \in Columns : Effect(o, x)[s][c] = x[s][c]
  BY DEF Effect

(* The host starts to wait.                                                 *)
LEMMA WaitFollowed ==
    ASSUME MInv, NEW q \in Queues, Wait(q)
    PROVE  Followed'
<1> DEFINE o == Operation("wait", <<>>, {}, {}, FALSE)
<1>1. /\ host = Ready /\ meant' = Effect(o, meant) /\ host' = Blocked(q, {})
      /\ UNCHANGED <<build, slot, memory, queue, answer>>
  BY DEF Wait, Call, Free
<1>2. DOMAIN memory = Blocks /\ DOMAIN meant = Slots
      /\ Right(answer.got, answer.meant) /\ Follow(slot, memory, meant, queue, host)
  BY DEF MInv, Followed
<1>3. PICK Q, be, G : Lined(Q, queue, host) /\ World(slot, memory, Q, meant, be, G)
  BY <1>2 DEF Follow
<1>4. \A r \in Queues : Q[r] = queue[r]
  BY <1>1, <1>3, LinedWhenReady
<1>5. o.to = {}
  BY DEF Operation
<1> HIDE DEF o
<1>6. \A s \in Slots, c \in Columns : meant'[s][c] = meant[s][c]
  BY <1>1, <1>2, <1>5, EmptyCall
<1>7. World(slot, memory, Q, meant', be, G)
  BY <1>3, <1>6, NothingMeant
<1>8. Lined(Q, queue', host')
  <2>1. \A r \in Queues : Q[r] = queue'[r]
    BY <1>1, <1>4
  <2>2. host'.then = {}
    BY <1>1 DEF Blocked
  <2> QED
    BY <2>1, <2>2, LinedWithout
<1>9. Follow(slot, memory, meant, queue, host)'
  BY <1>1, <1>7, <1>8 DEF Follow
<1>10. DOMAIN meant' = Slots /\ Waits(host)'
  BY <1>1, <1>2 DEF Effect, Waits
<1> QED
  BY <1>1, <1>2, <1>9, <1>10 DEF Followed

-----------------------------------------------------------------------------
(* A call made of tasks.                                                    *)
LEMMA TaskIsAppended ==
    ASSUME NEW o, Named(o), IsCall(o), NEW sl, NEW be, Placed(sl, be), Touches(o) \subseteq LiveIn(sl),
           NEW columns \in SUBSET o.columns,
           NEW t, t = [call |-> [o EXCEPT !.columns = columns],
                       run |-> Bound([o EXCEPT !.columns = columns], sl),
                       meant |-> Returned([o EXCEPT !.columns = columns], meant)]
    PROVE  Appended(t, o, columns, meant, be)
<1> DEFINE p == [o EXCEPT !.columns = columns]
<1>1. PICK name, from, to, cols, returns :
          name # "release" /\ o = [name |-> name, from |-> from, to |-> to, columns |-> cols, returns |-> returns]
  BY DEF Named, Operation
<1>2. p = [name |-> name, from |-> from, to |-> to, columns |-> columns, returns |-> returns]
  BY <1>1
<1>3. /\ p.name = o.name /\ p.from = o.from /\ p.to = o.to /\ p.columns = columns /\ p.returns = o.returns
      /\ p.name # "release"
  BY <1>1, <1>2
<1>4. Plain(p)
  <2>1. name # "release" /\ p = Operation(name, from, to, columns, returns)
    BY <1>1, <1>2 DEF Operation
  <2> QED
    BY <2>1 DEF Plain
<1>5. t.call = p /\ t.run = Bound(p, sl) /\ t.meant = Returned(p, meant)
  OBVIOUS
<1> HIDE DEF p
<1>6. IsCall(p)
  BY <1>3 DEF IsCall
<1>7. Touches(p) \subseteq LiveIn(sl)
  BY <1>3 DEF Touches
<1>8. /\ Places(p, Bound(p, sl), be) /\ Bound(p, sl).name = p.name
      /\ Bound(p, sl).columns = p.columns /\ Bound(p, sl).returns = p.returns
  BY <1>4, <1>6, <1>7, BoundPlaces
<1>9. IsQueued(t, be)
  BY <1>3, <1>5, <1>6, <1>8 DEF IsQueued
<1> QED
  BY <1>3, <1>5, <1>9 DEF Appended

(* An operation is queued.                                                  *)
LEMMA OnQueueFollowed ==
    ASSUME MInv, NEW q \in Queues, NEW o, Named(o), IsCall(o), Touches(o) \subseteq Live,
           NEW C, NEW parts \in Seq(C), Parts(o, Len(parts), parts),
           NEW waits, OnQueue(q, o, parts, waits)
    PROVE  Followed'
<1> DEFINE task(j) == Task([o EXCEPT !.columns = parts[j]], slot)
           tasks == [j \in DOMAIN parts |-> task(j)]
           m == Len(parts)
<1>1. /\ host = Ready /\ meant' = Effect(o, meant) /\ ClearOf(Queues \ {q}, o) /\ OwnQueue(q, o)
      /\ queue' = [queue EXCEPT ![q] = @ \o tasks]
      /\ host' = (IF waits THEN Blocked(q, {}) ELSE Ready)
      /\ UNCHANGED <<build, slot, memory, answer>>
  BY DEF OnQueue, Call, Free
<1>2. IInv /\ Shapes /\ DOMAIN memory = Blocks /\ DOMAIN meant = Slots
      /\ Right(answer.got, answer.meant) /\ Follow(slot, memory, meant, queue, host)
  BY DEF MInv, IInv, Followed
<1>3. PICK Q, be, G : Lined(Q, queue, host) /\ World(slot, memory, Q, meant, be, G)
  BY <1>2 DEF Follow
<1>4. \A r \in Queues : Q[r] = queue[r]
  BY <1>1, <1>3, LinedWhenReady
<1>5. Placed(slot, be) /\ Touches(o) \subseteq LiveIn(slot)
  BY <1>3 DEF World, LiveIn, Live
<1>6. ASSUME NEW j \in 1 .. m PROVE Appended(task(j), o, parts[j], meant, be)
  <2>1. parts[j] \subseteq o.columns
    BY DEF Parts
  <2>2. task(j) = [call |-> [o EXCEPT !.columns = parts[j]],
                   run |-> Bound([o EXCEPT !.columns = parts[j]], slot),
                   meant |-> Returned([o EXCEPT !.columns = parts[j]], meant)]
    BY DEF Task
  <2> HIDE DEF task
  <2> QED
    BY <1>5, <2>1, <2>2, TaskIsAppended
<1>7. m \in Nat \ {0} /\ DOMAIN parts = 1 .. m
  BY DEF Parts
<1>8. tasks \in Seq(Elements(tasks)) /\ Len(tasks) = m /\ \A j \in 1 .. m : tasks[j] = task(j)
  <2>1. tasks = [j \in 1 .. m |-> tasks[j]] /\ \A j \in 1 .. m : tasks[j] = task(j)
    BY <1>7
  <2> HIDE DEF tasks, task, m
  <2>2. tasks \in Seq(Elements(tasks))
    BY <1>7, <2>1, Listed
  <2>3. DOMAIN tasks = 1 .. m
    BY <2>1
  <2> QED
    BY <1>7, <2>1, <2>2, <2>3
<1>9. queue[q] \in Seq(Pending(q)) /\ DOMAIN queue = Queues
  BY <1>2, QueuedAre DEF Shapes
<1> HIDE DEF tasks, task, m
<1>10. queue'[q] = queue[q] \o tasks /\ \A r \in Queues \ {q} : queue'[r] = queue[r]
  BY <1>1, <1>9
<1>11. Len(queue'[q]) = Len(queue[q]) + m
       /\ (\A i \in 1 .. Len(queue[q]) : queue'[q][i] = queue[q][i])
       /\ \A j \in 1 .. m : queue'[q][Len(queue[q]) + j] = tasks[j]
  <2> DEFINE T == Pending(q) \cup Elements(tasks)
             u == queue[q]
  <2>1. u \in Seq(T) /\ tasks \in Seq(T)
    BY <1>8, <1>9
  <2>2. Len(u \o tasks) = Len(u) + m
        /\ (\A i \in 1 .. Len(u) : (u \o tasks)[i] = u[i])
        /\ \A j \in 1 .. m : (u \o tasks)[Len(u) + j] = tasks[j]
    <3> HIDE DEF T, u
    <3> QED
      BY <1>7, <1>8, <2>1
  <2> QED
    BY <1>10, <2>2
<1>12. Proper(o, slot)
  BY <1>5 DEF Proper
<1>13. \A r \in Queues \ {q} : Clear(Q, r, o)
  <2>1. ASSUME NEW r \in Queues \ {q} PROVE Clear(Q, r, o)
    <3>1. ClearOf({r}, o)
      BY <1>1 DEF ClearOf
    <3> QED
      BY <1>2, <1>4, <3>1, ClearOfQueue
  <2> QED
    BY <2>1
<1>14. \A s \in Touches(o) : slot[s].kind = "device" => slot[s].queue \subseteq {q}
  BY <1>1 DEF OwnQueue
<1>15. Steps(o, meant, meant') /\ DOMAIN meant' = Slots
  BY <1>1, <1>2, EffectSteps
<1> DEFINE Q2 == queue'
<1>16. /\ Len(Q2[q]) = Len(Q[q]) + m /\ \A i \in 1 .. Len(Q[q]) : Q2[q][i] = Q[q][i]
       /\ \A j \in 1 .. m : Appended(Q2[q][Len(Q[q]) + j], o, parts[j], meant, be)
       /\ \A r \in Queues \ {q} : Q2[r] = Q[r]
  BY <1>4, <1>6, <1>8, <1>10, <1>11
<1>17. Parts(o, m, parts)
  BY DEF m
<1> HIDE DEF Q2
<1>18. \E G2 : World(slot, memory, Q2, meant', be, G2)
  BY <1>3, <1>12, <1>13, <1>14, <1>15, <1>16, <1>17, AppendKeeps
<1>19. host'.then = {} /\ Waits(host')
  BY <1>1 DEF Blocked, Ready, Waits
<1>20. Lined(Q2, queue', host')
  <2>1. \A r \in Queues : Q2[r] = queue'[r]
    BY DEF Q2
  <2> QED
    BY <1>19, <2>1, LinedWithout
<1>21. Follow(slot, memory, meant, queue, host)'
  BY <1>1, <1>18, <1>20 DEF Follow
<1> QED
  BY <1>1, <1>2, <1>15, <1>19, <1>21 DEF Followed

(* A call made of one task.                                                 *)
LEMMA AppendOne ==
    ASSUME NEW sl, NEW mem, NEW Q, NEW mn, NEW be, NEW G, World(sl, mem, Q, mn, be, G),
           NEW q \in Queues, NEW o, Proper(o, sl), \A r \in Queues \ {q} : Clear(Q, r, o),
           \A s \in Touches(o) : sl[s].kind = "device" => sl[s].queue \subseteq {q},
           NEW t, Appended(t, o, o.columns, mn, be), NEW S, Q[q] \in Seq(S),
           NEW Q2, Q2[q] = Append(Q[q], t), \A r \in Queues \ {q} : Q2[r] = Q[r],
           NEW mn2, Steps(o, mn, mn2)
    PROVE  \E G2 : World(sl, mem, Q2, mn2, be, G2)
<1> DEFINE parts == <<o.columns>>
           u == Q[q]
<1>1. parts[1] = o.columns /\ \A j \in 1 .. 1 : j = 1
  OBVIOUS
<1>2. u \in Seq(S \cup {t})
  OBVIOUS
<1>3. /\ Len(Append(u, t)) = Len(u) + 1 /\ \A i \in 1 .. Len(u) : Append(u, t)[i] = u[i]
      /\ Append(u, t)[Len(u) + 1] = t
  <2> HIDE DEF u
  <2> QED
    BY <1>2
<1> HIDE DEF parts
<1>4. Parts(o, 1, parts)
  BY <1>1 DEF Parts
<1>5. /\ Len(Q2[q]) = Len(Q[q]) + 1 /\ \A i \in 1 .. Len(Q[q]) : Q2[q][i] = Q[q][i]
      /\ \A j \in 1 .. 1 : Appended(Q2[q][Len(Q[q]) + j], o, parts[j], mn, be)
  BY <1>1, <1>3
<1> QED
  BY <1>4, <1>5, AppendKeeps

(* A call done after a queue.                                               *)
LEMMA AfterQueueFollowed ==
    ASSUME MInv, NEW q \in Queues, NEW o, Named(o), IsCall(o), Touches(o) \subseteq Live,
           build.backend = "cpu", AfterQueue(q, o)
    PROVE  Followed'
<1> DEFINE t == Task(o, slot)
<1>1. /\ host = Ready /\ meant' = Effect(o, meant) /\ ClearOf(Queues \ {q}, o)
      /\ host' = Blocked(q, {t}) /\ UNCHANGED <<build, slot, memory, queue, answer>>
  BY DEF AfterQueue, Call, Free
<1>2. IInv /\ Shapes /\ Devices /\ DOMAIN memory = Blocks /\ DOMAIN meant = Slots
      /\ Right(answer.got, answer.meant) /\ Follow(slot, memory, meant, queue, host)
  BY DEF MInv, IInv, Followed
<1>3. PICK Q, be, G : Lined(Q, queue, host) /\ World(slot, memory, Q, meant, be, G)
  BY <1>2 DEF Follow
<1>4. \A r \in Queues : Q[r] = queue[r]
  BY <1>1, <1>3, LinedWhenReady
<1>5. Placed(slot, be) /\ Touches(o) \subseteq LiveIn(slot) /\ Proper(o, slot)
  BY <1>3 DEF World, LiveIn, Live, Proper
<1>6. Appended(t, o, o.columns, meant, be)
  <2>1. [o EXCEPT !.columns = o.columns] = o
    BY DEF Named, Operation
  <2>2. t = [call |-> [o EXCEPT !.columns = o.columns],
             run |-> Bound([o EXCEPT !.columns = o.columns], slot),
             meant |-> Returned([o EXCEPT !.columns = o.columns], meant)]
    BY <2>1 DEF Task
  <2> HIDE DEF t
  <2> QED
    BY <1>5, <2>2, TaskIsAppended
<1> HIDE DEF t
<1> DEFINE Q2 == [r \in Queues |-> IF r = q THEN Append(queue[q], t) ELSE queue[r]]
<1>7. Q[q] \in Seq(Pending(q))
  BY <1>2, <1>4, QueuedAre
<1>8. Q2[q] = Append(Q[q], t) /\ \A r \in Queues \ {q} : Q2[r] = Q[r]
  BY <1>4
<1> HIDE DEF Q2
<1>9. \A r \in Queues \ {q} : Clear(Q, r, o)
  <2>1. ASSUME NEW r \in Queues \ {q} PROVE Clear(Q, r, o)
    <3>1. ClearOf({r}, o)
      BY <1>1 DEF ClearOf
    <3> QED
      BY <1>2, <1>4, <3>1, ClearOfQueue
  <2> QED
    BY <2>1
<1>10. \A s \in Touches(o) : slot[s].kind = "device" => slot[s].queue \subseteq {q}
  BY <1>2 DEF Devices
<1>11. Steps(o, meant, meant') /\ DOMAIN meant' = Slots
  BY <1>1, <1>2, EffectSteps
<1>12. \E G2 : World(slot, memory, Q2, meant', be, G2)
  BY <1>3, <1>5, <1>6, <1>7, <1>8, <1>9, <1>10, <1>11, AppendOne
<1>13. host'.then = {t} /\ host'.queue = {q} /\ Waits(host')
  BY <1>1 DEF Blocked, Waits
<1>14. Lined(Q2, queue', host')
  <2>1. \A r \in Queues \ {q} : Q2[r] = queue'[r] /\ r \notin host'.queue
    BY <1>1, <1>4, <1>8, <1>13
  <2>2. q \in host'.queue /\ host'.then = {t} /\ Q2[q] = Append(queue'[q], t)
    BY <1>1, <1>4, <1>8, <1>13
  <2> QED
    BY <2>1, <2>2 DEF Lined
<1>15. Follow(slot, memory, meant, queue, host)'
  BY <1>1, <1>12, <1>14 DEF Follow
<1> QED
  BY <1>1, <1>2, <1>11, <1>13, <1>15 DEF Followed

-----------------------------------------------------------------------------
(* A sequence that loses its first element and has another at its end.      *)
LEMMA TailOfAppend ==
    ASSUME NEW T, NEW u \in Seq(T), u # <<>>, NEW t \in T
    PROVE  /\ Len(Append(u, t)) > 0 /\ Append(u, t)[1] = Head(u)
           /\ Len(Tail(Append(u, t))) = Len(Append(u, t)) - 1
           /\ \A i \in 1 .. Len(Tail(Append(u, t))) : Tail(Append(u, t))[i] = Append(u, t)[i + 1]
           /\ Tail(Append(u, t)) = Append(Tail(u), t)
<1>1. Len(u) \in Nat \ {0} /\ Append(u, t) \in Seq(T) /\ Len(Append(u, t)) = Len(u) + 1
  OBVIOUS
<1>2. Append(u, t)[1] = Head(u) /\ Append(u, t) # <<>>
  BY <1>1
<1> DEFINE v == Append(u, t)
<1>3. v \in Seq(T) /\ v # <<>>
  BY <1>1, <1>2
<1>4. Tail(v) \in Seq(T) /\ Len(Tail(v)) = Len(v) - 1 /\ \A i \in 1 .. Len(Tail(v)) : Tail(v)[i] = v[i + 1]
  <2> HIDE DEF v
  <2> QED
    BY <1>3
<1>5. Tail(u) \in Seq(T) /\ Len(Tail(u)) = Len(u) - 1 /\ \A i \in 1 .. Len(u) - 1 : Tail(u)[i] = u[i + 1]
  BY <1>1
<1> DEFINE w == Append(Tail(u), t)
           x == Tail(v)
<1>6. w \in Seq(T) /\ Len(w) = Len(u)
  BY <1>1, <1>5
<1>7. \A i \in 1 .. Len(u) : w[i] = v[i + 1]
  <2>1. ASSUME NEW i \in 1 .. Len(u) PROVE w[i] = v[i + 1]
    <3>1. CASE i = Len(u)
      BY <1>1, <1>5, <3>1
    <3>2. CASE i # Len(u)
      <4>1. i \in 1 .. Len(u) - 1 /\ i + 1 \in 1 .. Len(u)
        BY <1>1, <3>2
      <4>2. w[i] = Tail(u)[i]
        BY <1>5, <4>1
      <4>3. v[i + 1] = u[i + 1]
        BY <1>1, <4>1
      <4> QED
        BY <1>5, <4>1, <4>2, <4>3
    <3> QED
      BY <3>1, <3>2
  <2> QED
    BY <2>1
<1>8. x \in Seq(T) /\ Len(x) = Len(u) /\ \A i \in 1 .. Len(u) : x[i] = w[i]
  BY <1>1, <1>4, <1>7
<1>9. x = w
  <2> HIDE DEF x, w
  <2> QED
    BY <1>6, <1>8
<1> QED
  BY <1>1, <1>2, <1>4, <1>9

(* The first task of a queue runs.                                          *)
LEMMA RunFollowed ==
    ASSUME MInv, NEW q \in Queues, Run(q)
    PROVE  Followed'
<1>1. /\ queue[q] # <<>> /\ Perform(Head(queue[q])) /\ queue' = [queue EXCEPT ![q] = Tail(@)]
      /\ UNCHANGED <<build, slot, host, meant>>
  BY DEF Run
<1>2. IInv /\ Shapes /\ DOMAIN memory = Blocks /\ DOMAIN meant = Slots /\ Waits(host)
      /\ Right(answer.got, answer.meant) /\ Follow(slot, memory, meant, queue, host)
  BY DEF MInv, IInv, Followed
<1>3. PICK Q, be, G : Lined(Q, queue, host) /\ World(slot, memory, Q, meant, be, G)
  BY <1>2 DEF Follow
<1>4. queue[q] \in Seq(Pending(q)) /\ DOMAIN queue = Queues
  BY <1>2, QueuedAre DEF Shapes
<1>5. queue'[q] = Tail(queue[q]) /\ \A r \in Queues \ {q} : queue'[r] = queue[r]
  BY <1>1, <1>4
<1> DEFINE first == Tail(Q[q])
           Q2 == [r \in Queues |-> IF r = q THEN first ELSE Q[r]]
<1>6. /\ Len(Q[q]) > 0 /\ Q[q][1] = Head(queue[q])
      /\ Len(first) = Len(Q[q]) - 1 /\ \A i \in 1 .. Len(first) : first[i] = Q[q][i + 1]
      /\ \/ first = Tail(queue[q]) /\ (q \in host.queue => host.then = {})
         \/ q \in host.queue /\ \E t : host.then = {t} /\ first = Append(Tail(queue[q]), t)
  <2>1. CASE Q[q] = queue[q] /\ (q \in host.queue => host.then = {})
    BY <1>1, <1>4, <2>1
  <2>2. CASE q \in host.queue /\ \E t : host.then = {t} /\ Q[q] = Append(queue[q], t)
    <3>1. PICK t : host.then = {t} /\ Q[q] = Append(queue[q], t)
      BY <2>2
    <3> DEFINE T == Pending(q) \cup {t}
               u == queue[q]
    <3>2. u \in Seq(T) /\ u # <<>> /\ t \in T
      BY <1>1, <1>4
    <3>3. /\ Len(Append(u, t)) > 0 /\ Append(u, t)[1] = Head(u)
          /\ Len(Tail(Append(u, t))) = Len(Append(u, t)) - 1
          /\ (\A i \in 1 .. Len(Tail(Append(u, t))) : Tail(Append(u, t))[i] = Append(u, t)[i + 1])
          /\ Tail(Append(u, t)) = Append(Tail(u), t)
      <4> HIDE DEF T, u
      <4> QED
        BY <3>2, TailOfAppend
    <3> QED
      BY <2>2, <3>1, <3>3
  <2> QED
    BY <1>3, <2>1, <2>2 DEF Lined
<1>7. Q2[q] = first /\ \A r \in Queues \ {q} : Q2[r] = Q[r]
  OBVIOUS
<1> HIDE DEF first, Q2
<1> DEFINE task == Q[q][1]
<1>8. /\ memory' = Effect(task.run, memory)
      /\ answer' = IF task.run.returns THEN [got |-> Returned(task.run, memory), meant |-> task.meant] ELSE answer
  BY <1>1, <1>6 DEF Perform
<1>9. \E G2 : World(slot, memory', Q2, meant, be, G2)
  BY <1>2, <1>3, <1>6, <1>7, <1>8, RunKeeps
<1>10. Right(answer'.got, answer'.meant)
  <2>1. Right(Returned(Q[q][1].run, memory), Q[q][1].meant)
    BY <1>3, <1>6, AnswerOfFirst
  <2> QED
    BY <1>2, <1>8, <2>1
<1>11. Lined(Q2, queue', host')
  <2>1. ASSUME NEW r \in Queues
        PROVE  \/ Q2[r] = queue'[r] /\ (r \in host.queue => host.then = {})
               \/ r \in host.queue /\ \E t : host.then = {t} /\ Q2[r] = Append(queue'[r], t)
    <3>1. CASE r = q
      BY <1>5, <1>6, <1>7, <3>1
    <3>2. CASE r # q
      BY <1>3, <1>5, <1>7, <3>2 DEF Lined
    <3> QED
      BY <3>1, <3>2
  <2> QED
    BY <1>1, <2>1 DEF Lined
<1>12. Follow(slot, memory, meant, queue, host)'
  BY <1>1, <1>9, <1>11 DEF Follow
<1>13. DOMAIN memory' = Blocks
  BY <1>2, <1>8 DEF Effect
<1> QED
  BY <1>1, <1>2, <1>10, <1>12, <1>13 DEF Followed

(* The host goes on, and does what it waited to do.                         *)
LEMMA ResumeFollowed ==
    ASSUME MInv, Resume
    PROVE  Followed'
<1>1. /\ IF host.then = {} THEN UNCHANGED <<memory, answer>> ELSE \E t \in host.then : Perform(t)
      /\ host' = Ready /\ UNCHANGED <<build, slot, queue, meant>>
  BY DEF Resume
<1>2. IInv /\ host.queue \subseteq Queues /\ DOMAIN memory = Blocks /\ DOMAIN meant = Slots /\ Waits(host)
      /\ Right(answer.got, answer.meant) /\ Follow(slot, memory, meant, queue, host)
  BY DEF MInv, IInv, Counts, Followed
<1>3. PICK Q, be, G : Lined(Q, queue, host) /\ World(slot, memory, Q, meant, be, G)
  BY <1>2 DEF Follow
<1>4. PICK q \in host.queue : queue[q] = <<>>
  BY DEF Resume
<1>5. Waits(host') /\ host'.then = {}
  BY <1>1 DEF Waits, Ready
<1>6. CASE host.then = {}
  <2>1. \A r \in Queues : Q[r] = queue'[r]
    BY <1>1, <1>3, <1>6 DEF Lined
  <2>2. Lined(Q, queue', host')
    BY <1>5, <2>1, LinedWithout
  <2>3. Follow(slot, memory, meant, queue, host)'
    BY <1>1, <1>3, <1>6, <2>2 DEF Follow
  <2> QED
    BY <1>1, <1>2, <1>5, <1>6, <2>3 DEF Followed
<1>7. CASE host.then # {}
  <2>1. PICK t \in host.then : Perform(t)
    BY <1>1, <1>7
  <2>2. host.queue = {q} /\ host.then = {t} /\ q \in Queues
    BY <1>2, <1>4, <1>7, <2>1 DEF Waits, Ready, Blocked
  <2>3. Q[q] = Append(queue[q], t)
    BY <1>3, <2>2 DEF Lined
  <2>4. Len(Q[q]) = 1 /\ Q[q][1] = t
    <3>1. Append(<<>>, t) = <<t>>
      OBVIOUS
    <3>2. Len(<<t>>) = 1 /\ <<t>>[1] = t
      OBVIOUS
    <3> QED
      BY <1>4, <2>3, <3>1, <3>2
  <2>5. \A r \in Queues \ {q} : Q[r] = queue[r]
    BY <1>3, <2>2 DEF Lined
  <2> DEFINE Q2 == [r \in Queues |-> queue[r]]
  <2>6. Len(Q2[q]) = Len(Q[q]) - 1 /\ (\A i \in 1 .. Len(Q2[q]) : Q2[q][i] = Q[q][i + 1])
        /\ \A r \in Queues \ {q} : Q2[r] = Q[r]
    <3>1. Q2[q] = <<>> /\ Len(<<>>) = 0
      BY <1>4, <2>2
    <3>2. \A i \in 1 .. Len(Q2[q]) : FALSE
      BY <3>1
    <3>3. \A r \in Queues \ {q} : Q2[r] = Q[r]
      BY <2>5
    <3> HIDE DEF Q2
    <3> QED
      BY <2>4, <3>1, <3>2, <3>3
  <2>7. \A r \in Queues : Q2[r] = queue'[r]
    BY <1>1
  <2> HIDE DEF Q2
  <2>8. /\ memory' = Effect(Q[q][1].run, memory)
        /\ answer' = IF Q[q][1].run.returns
                     THEN [got |-> Returned(Q[q][1].run, memory), meant |-> Q[q][1].meant] ELSE answer
    BY <2>1, <2>4 DEF Perform
  <2>9. \E G2 : World(slot, memory', Q2, meant, be, G2)
    <3>1. Len(Q[q]) > 0
      BY <2>4
    <3> QED
      BY <1>2, <1>3, <2>2, <2>6, <2>8, <3>1, RunKeeps
  <2>10. Right(answer'.got, answer'.meant)
    <3>1. Right(Returned(Q[q][1].run, memory), Q[q][1].meant)
      BY <1>3, <2>2, <2>4, AnswerOfFirst
    <3> QED
      BY <1>2, <2>8, <3>1
  <2>11. Lined(Q2, queue', host')
    BY <1>5, <2>7, LinedWithout
  <2>12. Follow(slot, memory, meant, queue, host)'
    BY <1>1, <2>9, <2>11 DEF Follow
  <2>13. DOMAIN memory' = Blocks
    BY <1>2, <2>8 DEF Effect
  <2> QED
    BY <1>1, <1>2, <1>5, <2>10, <2>12, <2>13 DEF Followed
<1> QED
  BY <1>6, <1>7

-----------------------------------------------------------------------------
(* A collection is made.                                                    *)
LEMMA RenewedTasks ==
    ASSUME Shapes, NEW q \in Queues, NEW b, NEW w, w = WithoutRelease(queue[q], b)
    PROVE  /\ Len(w) = Len(queue[q]) /\ w \in Seq(Elements(w))
           /\ \A i \in 1 .. Len(queue[q]) : Renewed(w[i], queue[q][i], b)
           /\ \A t \in Elements(w) : \A x : Releases(t, x) => t \in Pending(q)
<1>1. queue[q] \in Seq(Pending(q)) /\ \A j \in DOMAIN queue[q] : IsTask(queue[q][j])
  BY QueuedTasks
<1>2. w \in Seq(Elements(w)) /\ \A t \in Elements(w) : t.run.to = {} \/ t \in Elements(queue[q])
  BY <1>1, Neutralised
<1>3. DOMAIN w = DOMAIN queue[q]
  BY DEF WithoutRelease
<1>4. Len(w) = Len(queue[q]) /\ DOMAIN queue[q] = 1 .. Len(queue[q])
  BY <1>1, <1>2, <1>3
<1>5. ASSUME NEW i \in 1 .. Len(queue[q]) PROVE Renewed(w[i], queue[q][i], b)
  <2> DEFINE t == queue[q][i]
  <2>1. w[i] = IF Releases(t, b) THEN [t EXCEPT !.run.to = {}] ELSE t
    BY <1>4 DEF WithoutRelease
  <2>2. IsTask(t)
    BY <1>1, <1>4
  <2> HIDE DEF t
  <2>3. CASE ~Releases(t, b)
    BY <2>1, <2>3 DEF Renewed, t
  <2>4. CASE Releases(t, b)
    <3>1. w[i] = [t EXCEPT !.run = [t.run EXCEPT !.to = {}]]
      BY <2>1, <2>4
    <3>2. w[i].call = t.call /\ w[i].meant = t.meant /\ w[i].run = [t.run EXCEPT !.to = {}]
      BY <2>2, <3>1 DEF IsTask
    <3>3. w[i].run.name = t.run.name /\ w[i].run.columns = t.run.columns /\ w[i].run.returns = t.run.returns
      BY <3>2
    <3> QED
      BY <2>4, <3>2, <3>3 DEF Renewed, t
  <2> QED
    BY <2>3, <2>4
<1>6. \A t \in Elements(w) : \A x : Releases(t, x) => t \in Pending(q)
  BY <1>2, PendingElements DEF Releases
<1> QED
  BY <1>2, <1>4, <1>5, <1>6

(* A collection is given a block.                                           *)
LEMMA MakeFollowed ==
    ASSUME MInv, host = Ready, NEW s \in Slots, NEW kind \in Kinds,
           NEW on \in OneQueueOrNone,
           NEW b \in Heap[kind], Make(s, kind, on, b), build' = build
    PROVE  /\ \E be2, G2 : World(slot', memory, [r \in Queues |-> WithoutRelease(queue[r], b)], meant, be2, G2)
           /\ Devices' /\ Live' = Live \cup {s}
           /\ slot'[s].kind = kind /\ slot'[s].queue \subseteq on
           /\ \A r \in Live : slot'[r] = slot[r]
<1> DEFINE Q2 == [r \in Queues |-> WithoutRelease(queue[r], b)]
<1>1. Shapes /\ IInv /\ Devices /\ DeviceReleases /\ Follow(slot, memory, meant, queue, host)
  BY DEF MInv, IInv, Followed
<1>2. PICK Q, be, G : Lined(Q, queue, host) /\ World(slot, memory, Q, meant, be, G)
  BY <1>1 DEF Follow
<1>3. \A q \in Queues : Q[q] = queue[q]
  BY <1>2, LinedWhenReady
<1> DEFINE new == [kind |-> kind, queue |-> IF QueueOrdered(kind) THEN on ELSE {}, block |-> b]
<1>4. /\ slot[s] = Empty /\ slot' = [slot EXCEPT ![s] = new] /\ b \in Allocatable(kind, on)
      /\ \A r \in Queues : \A t \in Pending(r) : s \notin Touches(t.call)
      /\ kind = "device" => build.backend # "cpu"
  BY DEF Make
<1>5. slot'[s] = new /\ \A r \in Slots \ {s} : slot'[r] = slot[r]
  BY <1>1, <1>4 DEF Shapes
<1>6. new # Empty /\ new.block = b /\ new.kind = kind
      /\ new.queue = IF QueueOrdered(kind) THEN on ELSE {}
  BY DEF Empty
<1> HIDE DEF new
<1>7. Live' = Live \cup {s} /\ s \notin Live /\ Live \subseteq Slots
  BY <1>4, <1>5, <1>6 DEF Live
<1>8. LiveIn(slot) = Live /\ LiveIn(slot') = Live'
  BY DEF Live, LiveIn
<1>9. b \in Blocks
  BY DEF Blocks
<1>10. \A r \in Live : slot[r].block # b
  BY <1>4 DEF Allocatable
<1>11. ASSUME NEW q \in Queues PROVE ~InUse(Q, q, s)
  <2>1. ASSUME NEW i \in 1 .. Len(Q[q]) PROVE s \notin Uses(Q, q, i)
    <3>1. Q[q][i] \in Pending(q)
      BY <1>1, <1>3, QueuedAre
    <3> QED
      BY <1>4, <3>1 DEF Uses
  <2> QED
    BY <2>1 DEF InUse
<1>12. ASSUME NEW q \in Queues, NEW i \in 1 .. Len(Q[q]), Releases(Q[q][i], b)
       PROVE  slot'[s].kind = "device" /\ slot'[s].queue = {q}
  <2>1. Q[q][i] \in Pending(q)
    BY <1>1, <1>3, QueuedAre
  <2>2. kind = "device" /\ on = {q}
    BY <1>4, <1>12, <2>1 DEF Allocatable, ReusesSameQueue
  <2>3. QueueOrdered(kind)
    BY <1>1, <1>12, <2>1, <2>2 DEF DeviceReleases, QueueOrdered
  <2> QED
    BY <1>5, <1>6, <2>2, <2>3
<1>13. ASSUME NEW q \in Queues
       PROVE  Len(Q2[q]) = Len(Q[q]) /\ \A i \in 1 .. Len(Q[q]) : Renewed(Q2[q][i], Q[q][i], b)
  <2>1. Q2[q] = WithoutRelease(queue[q], b)
    OBVIOUS
  <2> HIDE DEF Q2
  <2> QED
    BY <1>1, <1>3, <2>1, RenewedTasks
<1> DEFINE sl2 == slot'
<1>14. /\ LiveIn(sl2) = LiveIn(slot) \cup {s} /\ \A r \in LiveIn(slot) : sl2[r] = slot[r]
       /\ sl2[s].block = b
       /\ \A q \in Queues : \A i \in 1 .. Len(Q[q]) :
              Releases(Q[q][i], b) => sl2[s].kind = "device" /\ sl2[s].queue = {q}
  BY <1>5, <1>6, <1>7, <1>8, <1>12
<1> HIDE DEF sl2, Q2
<1>15. \E be2, G2 : World(sl2, memory, Q2, meant, be2, G2)
  <2>1. s \notin LiveIn(slot) /\ \A r \in LiveIn(slot) : slot[r].block # b
    BY <1>7, <1>8, <1>10
  <2> QED
    BY <1>2, <1>9, <1>11, <1>13, <1>14, <2>1, BlockTaken
<1>16. Devices'
  <2>1. ASSUME NEW r \in Live'
        PROVE  /\ slot'[r].queue = {} \/ \E q \in Queues : slot'[r].queue = {q}
               /\ slot'[r].kind = "device" =>
                   build'.backend # "cpu" /\ (slot'[r].queue # {} => build'.policy = "Asynchronous")
    <3>1. CASE r = s
      BY <1>4, <1>5, <1>6, <3>1 DEF QueueOrdered, OneQueueOrNone
    <3>2. CASE r # s
      BY <1>1, <1>5, <1>7, <3>2 DEF Devices
    <3> QED
      BY <3>1, <3>2
  <2> QED
    BY <2>1 DEF Devices
<1> QED
  BY <1>5, <1>6, <1>7, <1>15, <1>16 DEF sl2, Q2

(* The constructor.                                                         *)
LEMMA ConstructFollowed ==
    ASSUME MInv, NEW s \in Slots, NEW kind \in Kinds,
           NEW on \in OneQueueOrNone, Construct(s, kind, on)
    PROVE  Followed' /\ Devices' /\ DeviceReleases'
<1> DEFINE o == Operation("make", <<>>, {}, {}, FALSE)
<1>1. PICK b \in Heap[kind] :
          Make(s, kind, on, b) /\ queue' = [r \in Queues |-> WithoutRelease(queue[r], b)]
  BY DEF Construct
<1>2. host = Ready /\ meant' = Effect(o, meant) /\ UNCHANGED <<build, memory, host, answer>>
  BY DEF Construct, Call, Free
<1>3. Shapes /\ DeviceReleases /\ DOMAIN memory = Blocks /\ DOMAIN meant = Slots /\ Waits(host)
      /\ Right(answer.got, answer.meant)
  BY DEF MInv, IInv, Followed
<1>4. o.to = {}
  BY DEF Operation
<1> HIDE DEF o
<1>5. DOMAIN meant' = Slots /\ \A x \in Slots, c \in Columns : meant'[x][c] = meant[x][c]
  BY <1>2, <1>3, <1>4, EmptyCall, EffectSteps
<1>6. \A r \in Queues : queue'[r] = WithoutRelease(queue[r], b)
  BY <1>1
<1>7. (\E be2, G2 : World(slot', memory, queue', meant', be2, G2)) /\ Devices'
  <2> DEFINE Q1 == [r \in Queues |-> WithoutRelease(queue[r], b)]
  <2>1. (\E be2, G2 : World(slot', memory, Q1, meant, be2, G2)) /\ Devices'
    <3>1. host = Ready /\ build' = build /\ Make(s, kind, on, b)
      BY <1>1, <1>2
    <3>2. kind \in Kinds /\ b \in Heap[kind] /\ on \in OneQueueOrNone
      BY <1>1
    <3> QED
      BY <3>1, <3>2, MakeFollowed
  <2>2. PICK be2, G2 : World(slot', memory, queue', meant, be2, G2)
    BY <1>1, <2>1
  <2> DEFINE sl2 == slot'
             Q2 == queue'
             mn2 == meant'
  <2>3. World(sl2, memory, Q2, meant, be2, G2) /\ \A x \in Slots, c \in Columns : mn2[x][c] = meant[x][c]
    BY <1>5, <2>2
  <2> HIDE DEF sl2, Q2, mn2
  <2>4. World(sl2, memory, Q2, mn2, be2, G2)
    BY <2>3, NothingMeant
  <2> QED
    BY <2>1, <2>4 DEF sl2, Q2, mn2
<1>8. Lined(queue', queue', host')
  BY <1>2 DEF Lined, Ready
<1>9. Follow(slot, memory, meant, queue, host)'
  BY <1>2, <1>7, <1>8 DEF Follow
<1>10. DeviceReleases'
  <2>1. ASSUME NEW q \in Queues, NEW t \in Pending(q)', NEW x \in Heap["device"], Releases(t, x)
        PROVE  build'.policy = "Asynchronous"
    <3>1. t \in Elements(queue'[q])
      BY <2>1, PendingElements
    <3>2. t \in Pending(q)
      BY <1>3, <1>6, <2>1, <3>1, RenewedTasks
    <3> QED
      BY <1>2, <1>3, <2>1, <3>2 DEF DeviceReleases
  <2> QED
    BY <2>1 DEF DeviceReleases
<1>11. Followed'
  BY <1>2, <1>3, <1>5, <1>9 DEF Followed
<1> QED
  BY <1>7, <1>10, <1>11

(* The copy into a new device collection.                                   *)
LEMMA CopyToDeviceFollowed ==
    ASSUME MInv, NEW q \in Queues, NEW d \in Slots, NEW s \in Slots, CopyToDevice(q, d, s)
    PROVE  Followed' /\ Devices' /\ DeviceReleases'
<1> DEFINE o == Operation("memcpy", <<s>>, {d}, Columns, FALSE)
           t == Task(o, slot')
           more(r) == IF r = q THEN <<t>> ELSE <<>>
<1>1. /\ host = Ready /\ meant' = Effect(o, meant) /\ UNCHANGED <<build, memory, host, answer>>
      /\ s \in Live /\ slot[s].kind # "device" /\ ClearOf(Queues \ {q}, o)
      /\ \E b \in Heap["device"] :
            Make(d, "device", {q}, b) /\ queue' = [r \in Queues |-> WithoutRelease(queue[r], b) \o more(r)]
  BY DEF CopyToDevice, Call, Free
<1>2. PICK b \in Heap["device"] :
          Make(d, "device", {q}, b) /\ queue' = [r \in Queues |-> WithoutRelease(queue[r], b) \o more(r)]
  BY <1>1
<1>3. Shapes /\ DeviceReleases /\ DOMAIN memory = Blocks /\ DOMAIN meant = Slots /\ Waits(host)
      /\ Right(answer.got, answer.meant)
  BY DEF MInv, IInv, Followed
<1> DEFINE Q1 == [r \in Queues |-> WithoutRelease(queue[r], b)]
<1>4. \A r \in Queues : Q1[r] = WithoutRelease(queue[r], b)
  OBVIOUS
<1>5. /\ \E be2, G2 : World(slot', memory, Q1, meant, be2, G2)
      /\ Devices' /\ Live' = Live \cup {d}
      /\ slot'[d].kind = "device" /\ slot'[d].queue \subseteq {q}
      /\ \A r \in Live : slot'[r] = slot[r]
  <2>1. "device" \in Kinds /\ {q} \in OneQueueOrNone
    BY DEF Kinds, OneQueueOrNone
  <2>2. host = Ready /\ build' = build /\ Make(d, "device", {q}, b)
    BY <1>1, <1>2
  <2> HIDE DEF o, t
  <2> QED
    BY <2>1, <2>2, MakeFollowed
<1> HIDE DEF Q1
<1>6. PICK be2, G2 : World(slot', memory, Q1, meant, be2, G2)
  BY <1>5
<1>7. Named(o) /\ IsCall(o) /\ Touches(o) = {s, d} /\ o.columns = Columns
  <2>1. Named(o)
    BY DEF Named
  <2>2. /\ o.name = "memcpy" /\ o.from = <<s>> /\ o.to = {d} /\ o.columns = Columns
        /\ DOMAIN <<s>> = {1} /\ <<s>>[1] = s
    BY DEF Operation
  <2> HIDE DEF o
  <2> QED
    BY <2>1, <2>2 DEF IsCall, Touches
<1>8. Placed(slot', be2) /\ Touches(o) \subseteq LiveIn(slot')
  <2>1. LiveIn(slot') = Live'
    BY DEF LiveIn, Live
  <2> QED
    BY <1>1, <1>5, <1>6, <1>7, <2>1 DEF World
<1>9. Proper(o, slot')
  BY <1>7, <1>8 DEF Proper
<1>10. Appended(t, o, o.columns, meant, be2)
  <2>1. [o EXCEPT !.columns = o.columns] = o
    BY DEF Operation
  <2>2. t = [call |-> [o EXCEPT !.columns = o.columns],
             run |-> Bound([o EXCEPT !.columns = o.columns], slot'),
             meant |-> Returned([o EXCEPT !.columns = o.columns], meant)]
    BY <2>1 DEF Task
  <2> DEFINE sl == slot'
  <2> HIDE DEF t, o
  <2>3. t = [call |-> [o EXCEPT !.columns = o.columns],
             run |-> Bound([o EXCEPT !.columns = o.columns], sl),
             meant |-> Returned([o EXCEPT !.columns = o.columns], meant)]
    BY <2>2
  <2>4. Placed(sl, be2) /\ Touches(o) \subseteq LiveIn(sl)
    BY <1>8
  <2> HIDE DEF sl
  <2> QED
    BY <1>7, <2>3, <2>4, TaskIsAppended
<1>11. t.run.name = "memcpy"
  BY DEF Task, Bound, Operation
<1> HIDE DEF t, o
<1>12. ASSUME NEW r \in Queues
       PROVE  /\ Len(Q1[r]) = Len(queue[r]) /\ Q1[r] \in Seq(Elements(Q1[r]))
              /\ \A i \in 1 .. Len(queue[r]) : Renewed(Q1[r][i], queue[r][i], b)
              /\ \A x \in Elements(Q1[r]) : \A y : Releases(x, y) => x \in Pending(r)
  BY <1>3, <1>4, RenewedTasks
<1>13. \A r \in Queues \ {q} : Clear(Q1, r, o)
  <2>1. ASSUME NEW r \in Queues \ {q}, NEW i \in 1 .. Len(Q1[r])
        PROVE  Writes(Q1, r, i) \cap Touches(o) = {} /\ Uses(Q1, r, i) \cap o.to = {}
    <3>1. Q1[r][i].call = queue[r][i].call /\ queue[r][i] \in Pending(r)
      BY <1>3, <1>12, QueuedAre DEF Renewed
    <3>2. ~Conflicts(queue[r][i], o)
      BY <1>1, <3>1 DEF ClearOf
    <3> QED
      BY <3>1, <3>2 DEF Conflicts, Uses, Writes
  <2> QED
    BY <2>1 DEF Clear
<1>14. \A x \in Touches(o) : slot'[x].kind = "device" => slot'[x].queue \subseteq {q}
  BY <1>1, <1>5, <1>7
<1>15. Steps(o, meant, meant') /\ DOMAIN meant' = Slots
  BY <1>1, <1>3, EffectSteps
<1>16. queue'[q] = Append(Q1[q], t) /\ \A r \in Queues \ {q} : queue'[r] = Q1[r]
  <2>1. queue'[q] = Q1[q] \o <<t>>
    BY <1>2, <1>4
  <2>2. Q1[q] \in Seq(Elements(Q1[q]) \cup {t})
    BY <1>12
  <2>3. ASSUME NEW r \in Queues \ {q} PROVE queue'[r] = Q1[r]
    <3>1. queue'[r] = Q1[r] \o <<>>
      BY <1>2, <1>4
    <3>2. Q1[r] \in Seq(Elements(Q1[r]))
      BY <1>12
    <3> QED
      BY <3>1, <3>2
  <2> QED
    BY <2>1, <2>2, <2>3
<1> DEFINE Q2 == queue'
           sl2 == slot'
<1>17. /\ World(sl2, memory, Q1, meant, be2, G2) /\ Proper(o, sl2)
       /\ \A x \in Touches(o) : sl2[x].kind = "device" => sl2[x].queue \subseteq {q}
       /\ Q2[q] = Append(Q1[q], t) /\ \A r \in Queues \ {q} : Q2[r] = Q1[r]
  BY <1>6, <1>9, <1>14, <1>16
<1>18. Q1[q] \in Seq(Elements(Q1[q]))
  BY <1>12
<1> HIDE DEF Q2, sl2
<1>19. \E G3 : World(sl2, memory, Q2, meant', be2, G3)
  BY <1>10, <1>13, <1>15, <1>17, <1>18, AppendOne
<1>20. Lined(Q2, queue', host')
  BY <1>1 DEF Lined, Ready, Q2
<1>21. Follow(slot, memory, meant, queue, host)'
  BY <1>1, <1>19, <1>20 DEF Follow, sl2
<1>22. DeviceReleases'
  <2>1. ASSUME NEW r \in Queues, NEW e \in Pending(r)', NEW x \in Heap["device"], Releases(e, x)
        PROVE  build'.policy = "Asynchronous"
    <3>1. e \in Elements(queue'[r])
      BY <2>1, PendingElements
    <3>2. e \in Elements(Q1[r]) \/ e = t
      <4>1. CASE r = q
        <5>1. Q1[q] \in Seq(Elements(Q1[q])) /\ <<t>> \in Seq({t}) /\ Elements(<<t>>) = {t}
          BY <1>12, OneElement
        <5>2. queue'[q] = Q1[q] \o <<t>>
          BY <1>2, <1>4
        <5>3. Elements(queue'[q]) \subseteq Elements(Q1[q]) \cup Elements(<<t>>)
          BY <5>1, <5>2, Joined
        <5> QED
          BY <3>1, <4>1, <5>1, <5>3
      <4>2. CASE r # q
        BY <1>16, <3>1, <4>2
      <4> QED
        BY <4>1, <4>2
    <3>3. e \in Pending(r)
      BY <1>11, <1>12, <2>1, <3>2 DEF Releases
    <3> QED
      BY <1>1, <1>3, <2>1, <3>3 DEF DeviceReleases
  <2> QED
    BY <2>1 DEF DeviceReleases
<1>23. Followed'
  BY <1>1, <1>3, <1>15, <1>21 DEF Followed
<1> QED
  BY <1>5, <1>22, <1>23

-----------------------------------------------------------------------------
(* A collection is destroyed.                                               *)
LEMMA DestroyFollowed ==
    ASSUME MInv, NEW s \in Slots, Destroy(s)
    PROVE  Followed' /\ Devices' /\ DeviceReleases'
<1> DEFINE o == Operation("release", <<>>, {s}, {}, FALSE)
           t == Task(o, slot)
<1>1. /\ host = Ready /\ s \in Live /\ ClearOf(Queues \ slot[s].queue, o)
      /\ queue' = [q \in Queues |-> IF q \in slot[s].queue THEN Append(queue[q], t) ELSE queue[q]]
      /\ slot' = [slot EXCEPT ![s] = Empty] /\ meant' = [meant EXCEPT ![s] = Garbage]
      /\ UNCHANGED <<build, memory, host, answer>>
  BY DEF Destroy, Free
<1>2. IInv /\ Shapes /\ Owned /\ Devices /\ DeviceReleases
      /\ DOMAIN memory = Blocks /\ DOMAIN meant = Slots /\ Waits(host)
      /\ Right(answer.got, answer.meant) /\ Follow(slot, memory, meant, queue, host)
  BY DEF MInv, IInv, Followed
<1>3. PICK Q, be, G : Lined(Q, queue, host) /\ World(slot, memory, Q, meant, be, G)
  BY <1>2 DEF Follow
<1>4. \A q \in Queues : Q[q] = queue[q] /\ Q[q] \in Seq(Pending(q))
  BY <1>1, <1>2, <1>3, LinedWhenReady, QueuedAre
<1>5. /\ o.name = "release" /\ o.from = <<>> /\ DOMAIN o.from = {} /\ o.to = {s} /\ o.columns = {}
      /\ o.returns = FALSE /\ Touches(o) = {s}
  <2>1. DOMAIN <<>> = {}
    OBVIOUS
  <2>2. o.from = <<>> /\ o.to = {s} /\ o.name = "release" /\ o.columns = {} /\ o.returns = FALSE
    BY DEF Operation
  <2> HIDE DEF o
  <2> QED
    BY <2>1, <2>2 DEF Touches
<1>6. t.call = o /\ t.run.name = "release" /\ t.run.to = {slot[s].block} /\ t.run.columns = {}
      /\ t.run.returns = FALSE /\ t.meant = {}
  BY DEF Task, Bound, Operation, Returned
<1> HIDE DEF o, t
<1>7. IsCall(o) /\ Proper(o, slot)
  BY <1>1, <1>5 DEF IsCall, Proper, LiveIn, Live
<1>8. Live' = Live \ {s} /\ \A r \in Slots \ {s} : slot'[r] = slot[r]
  BY <1>1, <1>2 DEF Live, Shapes
<1>9. LiveIn(slot) = Live /\ LiveIn(slot') = Live' /\ Live \subseteq Slots
  BY DEF LiveIn, Live
<1>10. ASSUME NEW q \in Queues, q \notin slot[s].queue PROVE Clear(Q, q, o)
  <2>1. ClearOf({q}, o)
    BY <1>1, <1>10 DEF ClearOf
  <2> QED
    BY <1>2, <1>4, <2>1, ClearOfQueue
<1>11. be[s] = slot[s].block
  BY <1>1, <1>3, <1>9 DEF World, Placed
<1>12. \E G1 : World(slot, memory, queue', meant, be, G1)
  <2>1. CASE slot[s].queue = {}
    <3>1. \A q \in Queues : queue'[q] = Q[q]
      BY <1>1, <1>4, <2>1
    <3>2. \A q \in Queues : Len(queue'[q]) = Len(Q[q]) + 0
      BY <1>4, <3>1
    <3>3. World(slot, memory, queue', meant, be, G)
      BY <1>3, <3>1, SameQueues
    <3> QED
      BY <3>3
  <2>2. CASE slot[s].queue # {}
    <3>1. PICK q \in Queues : slot[s].queue = {q}
      BY <1>1, <1>2, <2>2 DEF Devices
    <3>2. \A r \in Queues \ {q} : Clear(Q, r, o)
      BY <1>10, <3>1
    <3>3. \A x \in Touches(o) : slot[x].kind = "device" => slot[x].queue \subseteq {q}
      BY <1>5, <3>1
    <3>4. Appended(t, o, o.columns, meant, be)
      <4>1. Returned(t.call, meant) = {}
        BY <1>5, <1>6 DEF Returned
      <4>2. IsQueued(t, be)
        BY <1>5, <1>6, <1>7 DEF IsQueued
      <4> QED
        BY <1>6, <4>1, <4>2 DEF Appended
    <3>5. Steps(o, meant, meant)
      BY <1>5 DEF Steps
    <3> DEFINE Q2 == queue'
    <3>6. Q2[q] = Append(Q[q], t) /\ \A r \in Queues \ {q} : Q2[r] = Q[r]
      BY <1>1, <1>4, <3>1
    <3> HIDE DEF Q2
    <3>7. \E G1 : World(slot, memory, Q2, meant, be, G1)
      BY <1>3, <1>4, <1>7, <3>2, <3>3, <3>4, <3>5, <3>6, AppendOne
    <3> QED
      BY <3>7 DEF Q2
  <2> QED
    BY <2>1, <2>2
<1>13. PICK G1 : World(slot, memory, queue', meant, be, G1)
  BY <1>12
<1>14. ASSUME NEW q \in Queues, q \notin slot[s].queue PROVE ~InUse(queue', q, s)
  <2>1. queue'[q] = Q[q]
    BY <1>1, <1>4, <1>14
  <2>2. Clear(Q, q, o)
    BY <1>10, <1>14
  <2> QED
    BY <1>5, <2>1, <2>2 DEF Clear, InUse, Uses
<1>15. ASSUME NEW q \in Queues, InUse(queue', q, s) PROVE slot[s].queue = {q}
  <2>1. q \in slot[s].queue
    BY <1>14, <1>15
  <2> QED
    BY <1>1, <1>2, <2>1 DEF Devices
<1>16. ASSUME NEW q \in slot[s].queue \cap Queues
       PROVE  Len(queue'[q]) > 0 /\ Releases(queue'[q][Len(queue'[q])], be[s])
  <2> DEFINE u == Q[q]
  <2>1. queue'[q] = Append(u, t)
    BY <1>1, <1>4
  <2>2. u \in Seq(Pending(q) \cup {t})
    BY <1>4
  <2>3. Len(Append(u, t)) > 0 /\ Append(u, t)[Len(Append(u, t))] = t
    <3> HIDE DEF u
    <3> QED
      BY <2>2
  <2> QED
    BY <1>6, <1>11, <2>1, <2>3 DEF Releases
<1>17. DOMAIN meant' = Slots
       /\ \A c \in Columns : meant'[s][c] = Undefined /\ \A x \in Slots \ {s} : meant'[x][c] = meant[x][c]
  BY <1>1, <1>2 DEF Garbage
<1> DEFINE sl2 == slot'
           Q2 == queue'
<1>18. /\ World(slot, memory, Q2, meant, be, G1) /\ s \in LiveIn(slot)
       /\ LiveIn(sl2) = LiveIn(slot) \ {s} /\ \A r \in LiveIn(sl2) : sl2[r] = slot[r]
       /\ \A q \in Queues : InUse(Q2, q, s) => slot[s].queue = {q}
       /\ \A q \in slot[s].queue \cap Queues : Len(Q2[q]) > 0 /\ Releases(Q2[q][Len(Q2[q])], be[s])
  BY <1>1, <1>8, <1>9, <1>13, <1>15, <1>16
<1> HIDE DEF sl2, Q2
<1>19. \E G2 : World(sl2, memory, Q2, meant', be, G2)
  BY <1>17, <1>18, Gone
<1>20. Lined(Q2, queue', host')
  BY <1>1 DEF Lined, Ready, Q2
<1>21. Follow(slot, memory, meant, queue, host)'
  BY <1>1, <1>19, <1>20 DEF Follow, sl2
<1>22. Followed'
  BY <1>1, <1>2, <1>17, <1>21 DEF Followed
<1>23. Devices'
  BY <1>1, <1>2, <1>8, <1>9 DEF Devices
<1>24. DeviceReleases'
  <2>1. ASSUME NEW q \in Queues, NEW e \in Pending(q)', NEW x \in Heap["device"], Releases(e, x)
        PROVE  build'.policy = "Asynchronous"
    <3>1. e \in Elements(queue'[q])
      BY <2>1, PendingElements
    <3>2. CASE q \notin slot[s].queue
      <4>1. e \in Pending(q)
        BY <1>1, <3>1, <3>2, PendingElements
      <4> QED
        BY <1>1, <1>2, <2>1, <4>1 DEF DeviceReleases
    <3>3. CASE q \in slot[s].queue
      <4>1. queue'[q] = queue[q] \o <<t>>
        BY <1>1, <1>4, <3>3
      <4>2. <<t>> \in Seq({t}) /\ Elements(<<t>>) = {t} /\ queue[q] \in Seq(Pending(q))
        BY <1>4, OneElement
      <4>3. Elements(queue'[q]) \subseteq Elements(queue[q]) \cup Elements(<<t>>)
        BY <4>1, <4>2, Joined
      <4>4. CASE e \in Pending(q)
        BY <1>1, <1>2, <2>1, <4>4 DEF DeviceReleases
      <4>5. CASE e = t
        <5>1. slot[s].block = x
          BY <1>6, <2>1, <4>5 DEF Releases
        <5>2. slot[s].block \in Heap[slot[s].kind] /\ slot[s].kind \in Kinds
          BY <1>1, <1>2, <1>9 DEF Owned, Shapes, Collection, Live
        <5>3. slot[s].kind = "device"
          BY <5>1, <5>2, QueueAssumption DEF Kinds
        <5> QED
          BY <1>1, <1>2, <3>3, <5>3 DEF Devices
      <4> QED
        BY <3>1, <4>2, <4>3, <4>4, <4>5, PendingElements
    <3> QED
      BY <3>2, <3>3
  <2> QED
    BY <2>1 DEF DeviceReleases
<1> QED
  BY <1>22, <1>23, <1>24

-----------------------------------------------------------------------------
(* The actions.                                                             *)
Goes == Followed' /\ Devices' /\ DeviceReleases'

(* An operation by the host.                                                *)
LEMMA OnHostGoes ==
    ASSUME MInv, NEW o, Plain(o), IsCall(o), Touches(o) \subseteq Live, OnHost(o)
    PROVE  Goes
<1>1. Quiet /\ build' = build
  BY OnHostQuiet DEF MInv, OnHost
<1> QED
  BY <1>1, OnHostFollowed, QuietDevices DEF MInv, Goes

(* An operation by tasks of a queue.                                        *)
LEMMA OnQueueGoes ==
    ASSUME MInv, NEW q \in Queues, NEW o, Named(o), IsCall(o), Touches(o) \subseteq Live,
           NEW C, NEW parts \in Seq(C), Parts(o, Len(parts), parts),
           NEW waits, OnQueue(q, o, parts, waits)
    PROVE  Goes
<1>1. Quiet /\ build' = build
  BY OnQueueQuiet DEF MInv, OnQueue
<1>2. Followed'
  BY OnQueueFollowed
<1> QED
  BY <1>1, <1>2, QuietDevices DEF MInv, Goes

(* An algorithm on a queue.                                                 *)
LEMMA WithQueueGoes ==
    ASSUME MInv, NEW q \in Queues, NEW o, Named(o), IsCall(o), NEW waits, WithQueue(q, o, waits)
    PROVE  Goes
<1>1. Touches(o) \subseteq Live
  BY DEF WithQueue, Accessible
<1>2. CASE build.backend = "cpu"
  <2>1. AfterQueue(q, o)
    BY <1>2 DEF WithQueue
  <2>2. Quiet /\ build' = build
    BY <2>1, AfterQueueQuiet DEF MInv, AfterQueue
  <2>3. Followed'
    BY <1>1, <1>2, <2>1, AfterQueueFollowed
  <2> QED
    BY <2>2, <2>3, QuietDevices DEF MInv, Goes
<1>3. CASE build.backend # "cpu"
  <2> DEFINE parts == <<o.columns>>
  <2>1. OnQueue(q, o, parts, waits \/ o.returns)
    BY <1>3 DEF WithQueue
  <2>2. parts \in Seq({o.columns}) /\ Len(parts) = 1 /\ parts[1] = o.columns /\ \A j \in 1 .. 1 : j = 1
    OBVIOUS
  <2> HIDE DEF parts
  <2>3. Parts(o, Len(parts), parts)
    BY <2>2 DEF Parts
  <2> QED
    BY <1>1, <2>1, <2>2, <2>3, OnQueueGoes
<1> QED
  BY <1>2, <1>3

(* An algorithm without one.                                                *)
LEMMA WithoutQueueGoes ==
    ASSUME MInv, NEW o, Plain(o), IsCall(o), WithoutQueue(o)
    PROVE  Goes
<1>1. Touches(o) \subseteq Live /\ OnHost(o)
  BY DEF WithoutQueue, Accessible
<1> QED
  BY <1>1, OnHostGoes

(* What the operations of the library read: no collection, one or two.      *)
Sources(name, from) ==
    /\ \/ from = <<>>
       \/ \E x \in Slots : from = <<x>>
       \/ \E x, y \in Slots : from = <<x, y>>
    /\ name = "memcpy" => from = <<>> \/ \E x \in Slots : from = <<x>>

(* They are operations on collections.                                      *)
LEMMA IsAnOperation ==
    ASSUME NEW name, NEW from, NEW to \in SUBSET Slots, NEW columns \in SUBSET Columns, NEW returns,
           Sources(name, from)
    PROVE  LET o == Operation(name, from, to, columns, returns)
           IN  /\ IsCall(o) /\ Plain(o) /\ (name # "release" => Named(o))
               /\ o.to = to /\ o.from = from /\ o.columns = columns
<1> DEFINE o == Operation(name, from, to, columns, returns)
<1>1. o.name = name /\ o.from = from /\ o.to = to /\ o.columns = columns
  BY DEF Operation
<1>2. Plain(o)
  BY DEF Plain
<1>3. name # "release" => Named(o)
  BY DEF Named
<1>4. /\ \A j \in DOMAIN from : from[j] \in Slots
      /\ name = "memcpy" => 1 \in DOMAIN from \/ DOMAIN from = {}
  <2> USE DEF Sources
  <2>1. CASE from = <<>>
    <3>1. DOMAIN <<>> = {}
      OBVIOUS
    <3> QED
      BY <2>1, <3>1
  <2>2. ASSUME NEW s \in Slots, from = <<s>>
        PROVE  DOMAIN from = {1} /\ from[1] \in Slots
    BY <2>2
  <2>3. ASSUME NEW s \in Slots, NEW d \in Slots, from = <<s, d>>
        PROVE  \A j \in DOMAIN from : from[j] \in Slots
    <3>1. DOMAIN from = {1, 2} /\ from[1] = s /\ from[2] = d
      BY <2>3
    <3> QED
      BY <3>1
  <2> QED
    BY <2>1, <2>2, <2>3
<1> HIDE DEF o
<1>5. IsCall(o)
  BY <1>1, <1>4 DEF IsCall
<1> QED
  BY <1>1, <1>2, <1>3, <1>5 DEF o

(* The algorithms.                                                          *)
LEMMA AlgorithmsGo ==
    ASSUME MInv, Algorithms
    PROVE  Goes
<1> DEFINE Done(q, o) == (\E waits : WithQueue(q, o, waits)) \/ WithoutQueue(o)
           One(name, s, to, c, returns) == Operation(name, <<s>>, to, {c}, returns)
<1>1. ASSUME NEW q \in Queues, NEW o, Named(o), IsCall(o), Done(q, o) PROVE Goes
  <2>1. CASE \E waits : WithQueue(q, o, waits)
    BY <1>1, <2>1, WithQueueGoes
  <2>2. CASE WithoutQueue(o)
    <3>1. Plain(o)
      BY <1>1 DEF Named, Plain
    <3> QED
      BY <1>1, <2>2, <3>1, WithoutQueueGoes
  <2> QED
    BY <1>1, <2>1, <2>2
<1>2. ASSUME NEW name, name # "release", NEW s \in Slots, NEW to \in SUBSET Slots, NEW c \in Columns, NEW returns
      PROVE  Named(One(name, s, to, c, returns)) /\ IsCall(One(name, s, to, c, returns))
  <2>1. {c} \in SUBSET Columns
    OBVIOUS
  <2> DEFINE from == <<s>>
             columns == {c}
  <2>2. Sources(name, from)
    BY DEF Sources
  <2>3. One(name, s, to, c, returns) = Operation(name, from, to, columns, returns)
    OBVIOUS
  <2> HIDE DEF from, columns, One
  <2>4. columns \in SUBSET Columns
    BY <2>1 DEF columns
  <2> QED
    BY <1>2, <2>2, <2>3, <2>4, IsAnOperation
<1>3. ASSUME NEW s \in Slots, NEW d \in Slots, NEW c \in Columns
      PROVE  Named(Operation("transform", <<s, d>>, {d}, {c}, FALSE))
             /\ IsCall(Operation("transform", <<s, d>>, {d}, {c}, FALSE))
  <2> DEFINE from == <<s, d>>
             columns == {c}
             to == {d}
  <2>1. Sources("transform", from) /\ columns \in SUBSET Columns /\ to \in SUBSET Slots
    BY DEF Sources
  <2> HIDE DEF from, columns, to
  <2>2. Named(Operation("transform", from, to, columns, FALSE)) /\ IsCall(Operation("transform", from, to, columns, FALSE))
    BY <2>1, IsAnOperation
  <2> QED
    BY <2>2 DEF from, to, columns
<1>4. \A q, o : Algorithm(q, o) => Done(q, o)
  BY DEF Algorithm
<1>5. ASSUME NEW q \in Queues, NEW o, NEW waits, WithQueue(q, o, waits) \/ WithoutQueue(o) PROVE Done(q, o)
  BY <1>5
<1>6. ASSUME NEW q \in Queues, NEW name, name # "release", NEW s \in Slots, NEW to \in SUBSET Slots,
             NEW c \in Columns, NEW returns, Done(q, One(name, s, to, c, returns))
      PROVE  Goes
  <2> HIDE DEF Done, One
  <2> QED
    BY <1>1, <1>2, <1>6
<1>7. PICK q \in Queues, s \in Slots, d \in Slots, c \in Columns :
          \/ ForEach(q, s, c) \/ Sort(q, s, c) \/ CountIf(q, s, c) \/ Reduce(q, s, c) \/ Extrema(q, s, c)
          \/ Transform(q, s, d, c) \/ Scan(q, s, d, c) \/ InclusiveScanInit(q, s, d, c) \/ CopyIf(q, s, d, c)
  BY DEF Algorithms
<1> HIDE DEF Done
<1>8. {} \in SUBSET Slots /\ {s} \in SUBSET Slots /\ {d} \in SUBSET Slots
  OBVIOUS
<1>9. CASE ForEach(q, s, c)
  <2>1. Done(q, One("for_each", s, {s}, c, FALSE))
    BY <1>4, <1>9 DEF ForEach
  <2> HIDE DEF One
  <2> QED
    BY <1>6, <1>8, <2>1
<1>10. CASE Sort(q, s, c)
  <2>1. Done(q, One("sort", s, {s}, c, FALSE))
    BY <1>4, <1>10 DEF Sort
  <2> HIDE DEF One
  <2> QED
    BY <1>6, <1>8, <2>1
<1>11. CASE CountIf(q, s, c)
  <2>1. Done(q, One("count_if", s, {}, c, TRUE))
    BY <1>4, <1>11 DEF CountIf
  <2> HIDE DEF One
  <2> QED
    BY <1>6, <1>8, <2>1
<1>12. CASE Reduce(q, s, c)
  <2>1. Done(q, One("reduce", s, {}, c, TRUE))
    BY <1>4, <1>12 DEF Reduce
  <2> HIDE DEF One
  <2> QED
    BY <1>6, <1>8, <2>1
<1>13. CASE Extrema(q, s, c)
  <2>1. Done(q, One("minmax_element", s, {}, c, TRUE))
    BY <1>4, <1>13 DEF Extrema
  <2> HIDE DEF One
  <2> QED
    BY <1>6, <1>8, <2>1
<1>14. CASE Transform(q, s, d, c)
  <2>1. Done(q, One("transform", s, {d}, c, FALSE)) \/ Done(q, Operation("transform", <<s, d>>, {d}, {c}, FALSE))
    BY <1>4, <1>14 DEF Transform
  <2> HIDE DEF One
  <2> QED
    BY <1>1, <1>3, <1>6, <1>8, <2>1
<1>15. CASE Scan(q, s, d, c)
  <2>1. Done(q, One("inclusive_scan", s, {d}, c, FALSE)) \/ Done(q, One("exclusive_scan", s, {d}, c, FALSE))
    BY <1>4, <1>15 DEF Scan
  <2> HIDE DEF One
  <2> QED
    BY <1>6, <1>8, <2>1
<1>16. CASE InclusiveScanInit(q, s, d, c)
  <2>1. Done(q, One("inclusive_scan_init", s, {d}, c, FALSE))
    BY <1>5, <1>16 DEF InclusiveScanInit
  <2> HIDE DEF One
  <2> QED
    BY <1>6, <1>8, <2>1
<1>17. CASE CopyIf(q, s, d, c)
  <2>1. Done(q, One("copy_if", s, {d}, c, TRUE))
    BY <1>4, <1>17 DEF CopyIf
  <2> HIDE DEF One
  <2> QED
    BY <1>6, <1>8, <2>1
<1> QED
  BY <1>7, <1>9, <1>10, <1>11, <1>12, <1>13, <1>14, <1>15, <1>16, <1>17

(* The operations of the collections.                                       *)
LEMMA CollectionsGo ==
    ASSUME MInv, Collections
    PROVE  Goes
<1>1. ASSUME NEW s \in Slots, NEW columns \in SUBSET Columns, NEW name, s \in Live
      PROVE  LET o == Operation(name, <<>>, {s}, columns, FALSE)
             IN  /\ Plain(o) /\ IsCall(o) /\ Touches(o) \subseteq Live /\ o.columns = columns
                 /\ name # "release" => Named(o)
  <2> DEFINE from == <<>>
             to == {s}
             o == Operation(name, from, to, columns, FALSE)
  <2>1. from = <<>> /\ DOMAIN from = {} /\ to \in SUBSET Slots
    OBVIOUS
  <2> HIDE DEF from
  <2>2. /\ IsCall(o) /\ Plain(o) /\ (name # "release" => Named(o)) /\ o.to = to /\ o.from = from /\ o.columns = columns
    <3>1. Sources(name, from) /\ Columns \in SUBSET Columns /\ "memcpy" # "release"
      BY <2>1 DEF Sources
    <3>2. o.to = to /\ o.from = from /\ o.columns = columns
      BY DEF Operation
    <3> HIDE DEF to
    <3>3. IsCall(o) /\ Plain(o) /\ (name # "release" => Named(o))
      BY <2>1, <3>1, IsAnOperation
    <3> QED
      BY <3>2, <3>3
  <2> HIDE DEF o
  <2>3. Touches(o) \subseteq Live
    BY <1>1, <2>1, <2>2 DEF Touches
  <2> QED
    BY <2>2, <2>3 DEF o, from
<1>2. ASSUME NEW s \in Slots, NEW d \in Slots, s \in Live, d \in Live
      PROVE  Named(Copy(d, s)) /\ Plain(Copy(d, s)) /\ IsCall(Copy(d, s)) /\ Touches(Copy(d, s)) \subseteq Live
             /\ Copy(d, s).columns = Columns
  <2> DEFINE from == <<s>>
             to == {d}
             o == Operation("memcpy", from, to, Columns, FALSE)
  <2>1. from = <<s>> /\ DOMAIN from = {1} /\ from[1] = s /\ to \in SUBSET Slots
    OBVIOUS
  <2>2. o = Copy(d, s)
    BY DEF Copy
  <2> HIDE DEF from
  <2>3. /\ IsCall(o) /\ Plain(o) /\ Named(o) /\ o.to = to /\ o.from = from /\ o.columns = Columns
    <3>1. Sources("memcpy", from) /\ Columns \in SUBSET Columns /\ "memcpy" # "release"
      BY <2>1 DEF Sources
    <3>2. o.to = to /\ o.from = from /\ o.columns = Columns
      BY DEF Operation
    <3> HIDE DEF to
    <3>3. IsCall(o) /\ Plain(o) /\ Named(o)
      BY <2>1, <3>1, IsAnOperation
    <3> QED
      BY <3>2, <3>3
  <2> HIDE DEF o
  <2>4. Touches(o) \subseteq Live
    BY <1>2, <2>1, <2>3 DEF Touches
  <2> QED
    BY <2>2, <2>3, <2>4
<1>3. ASSUME NEW s \in Slots, ZeroInitialise(s) PROVE Goes
  <2>1. s \in Live /\ OnHost(Zero(s))
    BY <1>3 DEF ZeroInitialise, InHostMemory
  <2>2. Plain(Zero(s)) /\ IsCall(Zero(s)) /\ Touches(Zero(s)) \subseteq Live
    BY <1>1, <2>1 DEF Zero
  <2> QED
    BY <2>1, <2>2, OnHostGoes
<1>4. ASSUME NEW s \in Slots, NEW c \in Columns, NEW v \in Values, Fill(s, c, v) PROVE Goes
  <2> DEFINE o == Operation(v, <<>>, {s}, {c}, FALSE)
  <2>1. s \in Live /\ OnHost(o) /\ {c} \in SUBSET Columns
    BY <1>4 DEF Fill, InHostMemory
  <2>2. Plain(o) /\ IsCall(o) /\ Touches(o) \subseteq Live
    BY <1>1, <2>1
  <2> HIDE DEF o
  <2> QED
    BY <2>1, <2>2, OnHostGoes
<1>5. ASSUME NEW s \in Slots, NEW d \in Slots, DeepCopy(d, s) PROVE Goes
  <2>1. s \in Live /\ d \in Live /\ OnHost(Copy(d, s))
    BY <1>5 DEF DeepCopy, InHostMemory
  <2> QED
    BY <1>2, <2>1, OnHostGoes
<1>6. ASSUME NEW q \in Queues, NEW s \in Slots, ZeroInitialiseOn(q, s) PROVE Goes
  <2> DEFINE parts == <<Columns>>
  <2>1. s \in Live /\ OnQueue(q, Zero(s), parts, FALSE)
    BY <1>6 DEF ZeroInitialiseOn
  <2>2. Named(Zero(s)) /\ IsCall(Zero(s)) /\ Touches(Zero(s)) \subseteq Live /\ Zero(s).columns = Columns
    BY <1>1, <2>1 DEF Zero
  <2>3. parts \in Seq({Columns}) /\ Len(parts) = 1 /\ parts[1] = Columns /\ \A j \in 1 .. 1 : j = 1
    OBVIOUS
  <2> HIDE DEF parts
  <2>4. Parts(Zero(s), Len(parts), parts)
    BY <2>2, <2>3 DEF Parts
  <2> QED
    BY <2>1, <2>2, <2>3, <2>4, OnQueueGoes
<1>7. ASSUME NEW q \in Queues, NEW s \in Slots, NEW d \in Slots, DeepCopyOn(q, d, s) PROVE Goes
  <2> DEFINE parts == [c \in Columns |-> {c}]
  <2>1. s \in Live /\ d \in Live /\ OnQueue(q, Copy(d, s), parts, FALSE)
    BY <1>7 DEF DeepCopyOn
  <2>2. parts \in Seq({{c} : c \in Columns}) /\ Len(parts) = NumCols /\ \A c \in 1 .. NumCols : parts[c] = {c}
    BY QueueAssumption DEF Columns
  <2> HIDE DEF parts
  <2>3. Copy(d, s).columns = Columns
    BY <1>2, <2>1
  <2>4. Parts(Copy(d, s), Len(parts), parts)
    BY <2>2, <2>3, QueueAssumption DEF Parts, Columns
  <2> QED
    BY <1>2, <2>1, <2>2, <2>4, OnQueueGoes
<1>8. ASSUME NEW s \in Slots, NEW kind \in Kinds, NEW on \in OneQueueOrNone,
             Construct(s, kind, on)
      PROVE  Goes
  BY <1>8, ConstructFollowed DEF Goes
<1>9. ASSUME NEW q \in Queues, NEW s \in Slots, NEW d \in Slots, CopyToDevice(q, d, s) PROVE Goes
  BY <1>9, CopyToDeviceFollowed DEF Goes
<1>10. ASSUME NEW s \in Slots, Destroy(s) PROVE Goes
  BY <1>10, DestroyFollowed DEF Goes
<1> QED
  BY <1>3, <1>4, <1>5, <1>6, <1>7, <1>8, <1>9, <1>10 DEF Collections, OneQueueOrNone

(* Every step of the system preserves the invariant,                        *)
LEMMA NextGoes == MInv /\ [Next]_vars => MInv'
<1> SUFFICES ASSUME MInv, [Next]_vars PROVE MInv'
  OBVIOUS
<1>1. IInv'
  BY NextKeeps DEF MInv
<1>2. ASSUME Goes PROVE MInv'
  BY <1>1, <1>2 DEF MInv, Goes
<1>3. CASE Resume
  <2>1. Quiet /\ build' = build
    BY <1>3, SameQueuesQuiet DEF Resume, MInv, IInv
  <2> QED
    BY <1>2, <1>3, <2>1, ResumeFollowed, QuietDevices DEF MInv, Goes
<1>4. ASSUME NEW q \in Queues, Run(q) PROVE MInv'
  <2>1. Quiet /\ build' = build
    BY <1>4, RunQuiet DEF Run, MInv
  <2> QED
    BY <1>2, <1>4, <2>1, RunFollowed, QuietDevices DEF MInv, Goes
<1>5. ASSUME NEW q \in Queues, Wait(q) PROVE MInv'
  <2>1. Quiet /\ build' = build
    BY <1>5, SameQueuesQuiet DEF Wait, MInv, IInv
  <2> QED
    BY <1>2, <1>5, <2>1, WaitFollowed, QuietDevices DEF MInv, Goes
<1>6. CASE Collections
  BY <1>2, <1>6, CollectionsGo
<1>7. CASE Algorithms
  BY <1>2, <1>7, AlgorithmsGo
<1>8. CASE UNCHANGED vars
  <2>1. UNCHANGED <<build, slot, memory, queue, host, answer, meant>>
    BY <1>8 DEF vars
  <2>2. Quiet
    BY <2>1, SameQueuesQuiet DEF MInv, IInv
  <2>3. Followed'
    BY <2>1 DEF MInv, Followed
  <2> QED
    BY <1>2, <2>1, <2>2, <2>3, QuietDevices DEF MInv, Goes
<1> QED
  BY <1>3, <1>4, <1>5, <1>6, <1>7, <1>8 DEF Next

(* with which it starts,                                                    *)
LEMMA InitGoes == Init => MInv
<1> SUFFICES ASSUME Init PROVE MInv
  OBVIOUS
<1>1. IInv
  BY InitKeeps
<1>2. Live = {} /\ LiveIn(slot) = {}
  BY DEF Init, Live, LiveIn
<1>3. ASSUME NEW q \in Queues PROVE queue[q] = <<>> /\ Len(queue[q]) = 0 /\ Pending(q) = {}
  <2>1. queue[q] = <<>> /\ DOMAIN <<>> = {} /\ Len(<<>>) = 0
    BY DEF Init
  <2> QED
    BY <2>1 DEF Pending
<1>4. Devices /\ DeviceReleases
  BY <1>2, <1>3 DEF Devices, DeviceReleases
<1>5. DOMAIN memory = Blocks /\ DOMAIN meant = Slots /\ Waits(host) /\ Right(answer.got, answer.meant)
  BY DEF Init, Waits, Right
<1>6. Follow(slot, memory, meant, queue, host)
  <2>1. PICK be : \A s \in Slots : be[s] \in Blocks
    <3>1. PICK b \in Blocks : TRUE
      BY QueueAssumption
    <3>2. \A s \in Slots : [x \in Slots |-> b][s] \in Blocks
      OBVIOUS
    <3> QED
      BY <3>2
  <2> DEFINE G == [q \in Queues |-> [i \in {0} |-> [s \in Slots |-> Garbage]]]
  <2>2. \A q \in Queues, s \in Slots, c \in Columns : G[q][0][s][c] = Undefined
    BY DEF Garbage
  <2>3. \A s \in Slots, c \in Columns : meant[s][c] = Undefined
    BY DEF Init, Garbage
  <2> HIDE DEF G
  <2>4. \A q \in Queues : \A i \in 1 .. Len(queue[q]) : FALSE
    BY <1>3
  <2>5. Tasks(queue, be) /\ Chain(queue, G) /\ Answers(queue, G) /\ Separate(queue)
    BY <1>3, <2>4 DEF Tasks, Chain, Answers, Separate
  <2>6. Keeps(queue, G)
    <3>1. \A q \in Queues : \A i \in 0 .. Len(queue[q]) : i = Len(queue[q])
      BY <1>3
    <3> QED
      BY <3>1 DEF Keeps
  <2>7. Starts(memory, queue, be, G)
    BY <2>4 DEF Starts, InUse
  <2>8. Ends(slot, queue, meant, G) /\ Holds(slot, memory, queue, meant, be) /\ Placed(slot, be)
    BY <1>2, <2>1 DEF Ends, Holds, Placed
  <2>9. Forgotten(slot, meant)
    BY <2>3 DEF Forgotten
  <2>10. OwnQueues(slot, queue) /\ ReusedLater(slot, queue, be, G) /\ UsedInTurn(slot, queue, be, G)
         /\ ReleasedLater(slot, queue, be)
    BY <2>4 DEF OwnQueues, ReusedLater, UsedInTurn, ReleasedLater
  <2>11. World(slot, memory, queue, meant, be, G)
    BY <2>5, <2>6, <2>7, <2>8, <2>9, <2>10 DEF World
  <2>12. Lined(queue, queue, host)
    BY DEF Init, Lined, Ready
  <2> QED
    BY <2>11, <2>12 DEF Follow
<1> QED
  BY <1>1, <1>4, <1>5, <1>6 DEF MInv, Followed

-----------------------------------------------------------------------------
(* What is outstanding is lined up.                                         *)
LEMMA OutstandingLined ==
    ASSUME IInv, Waits(host), NEW Q, Lined(Q, queue, host),
           \A q \in Queues : Len(Q[q]) \in Nat,
           NEW q \in Queues, NEW i \in 1 .. Len(Q[q])
    PROVE  Q[q][i] \in Outstanding
<1>1. queue[q] \in Seq(Pending(q)) /\ Len(queue[q]) \in Nat
      /\ \A j \in 1 .. Len(queue[q]) : queue[q][j] \in Pending(q)
  BY QueuedAre DEF IInv
<1>2. CASE Q[q] = queue[q]
  BY <1>1, <1>2 DEF Outstanding
<1>3. ASSUME q \in host.queue, NEW t, host.then = {t}, Q[q] = Append(queue[q], t)
      PROVE  Q[q][i] \in Outstanding
  <2>1. Len(Append(queue[q], t)) = Len(queue[q]) + 1
        /\ Append(queue[q], t)[Len(queue[q]) + 1] = t
        /\ \A j \in 1 .. Len(queue[q]) : Append(queue[q], t)[j] = queue[q][j]
    BY <1>1
  <2>2. CASE i = Len(queue[q]) + 1
    BY <1>3, <2>1, <2>2 DEF Outstanding
  <2>3. CASE i \in 1 .. Len(queue[q])
    BY <1>1, <1>3, <2>1, <2>3 DEF Outstanding
  <2> QED
    BY <1>1, <1>3, <2>1, <2>2, <2>3
<1> QED
  BY <1>2, <1>3 DEF Lined

(* and which implies both properties.                                       *)
LEMMA FollowedFollows == MInv => MemoryFollowsTheProgram /\ AnswersFollowTheProgram
<1> SUFFICES ASSUME MInv PROVE MemoryFollowsTheProgram /\ AnswersFollowTheProgram
  OBVIOUS
<1>1. AnswersFollowTheProgram
  BY DEF MInv, Followed, Right, AnswersFollowTheProgram
<1>2. PICK Q, be, G : Lined(Q, queue, host) /\ World(slot, memory, Q, meant, be, G)
  BY DEF MInv, Followed, Follow
<1>3. Holds(slot, memory, Q, meant, be) /\ Placed(slot, be) /\ Tasks(Q, be)
  BY <1>2 DEF World
<1>4. \A q \in Queues : Len(Q[q]) \in Nat
  BY <1>3 DEF Tasks
<1>5. ASSUME NEW s \in Live, NEW c \in Columns, meant[s][c] # Undefined,
             \A t \in Outstanding : s \notin t.call.to
      PROVE  memory[slot[s].block][c] = meant[s][c]
  <2>1. s \in LiveIn(slot) /\ be[s] = slot[s].block
    BY <1>3 DEF Live, LiveIn, Placed
  <2>2. ASSUME NEW q \in Queues, NEW i \in 1 .. Len(Q[q]) PROVE s \notin Writes(Q, q, i)
    <3>1. Q[q][i] \in Outstanding
      BY <1>2, <1>4, OutstandingLined DEF MInv, Followed
    <3> QED
      BY <1>5, <3>1 DEF Writes
  <2>3. Below(meant[s][c], memory[be[s]][c])
    BY <1>3, <2>1, <2>2 DEF Holds
  <2> QED
    BY <1>5, <2>1, <2>3 DEF Below
<1> QED
  BY <1>1, <1>5 DEF MemoryFollowsTheProgram

(* Once nothing that writes a collection is outstanding, its columns hold   *)
(* what the calls of the program mean, in programs of any length, on any    *)
(* number of queues, with any number of collections and of blocks, in every *)
(* build; whatever the queues interleave and the allocator hands out again. *)
THEOREM MemoryAlwaysFollows == Spec => []MemoryFollowsTheProgram
<1>1. Spec => []MInv
  BY InitGoes, NextGoes, PTL DEF Spec
<1> QED
  BY <1>1, FollowedFollows, PTL

(* An algorithm that returns a value to the host returns it for the data    *)
(* the calls before it mean, in every build.                                *)
THEOREM AnswersAlwaysFollow == Spec => []AnswersFollowTheProgram
<1>1. Spec => []MInv
  BY InitGoes, NextGoes, PTL DEF Spec
<1> QED
  BY <1>1, FollowedFollows, PTL
=============================================================================
