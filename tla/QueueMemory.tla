---------------------------- MODULE QueueMemory ---------------------------
(***************************************************************************)
(* Memory under queued tasks: the invariant behind the theorems of         *)
(* QueueMemoryProofs, and what running, appending and binding tasks does   *)
(* to it.  Nothing here speaks of a step of the system; the lemmas are     *)
(* about any collections, memory and queues.                               *)
(***************************************************************************)
EXTENDS QueuePrograms, TLAPS

(* What the columns of the collections hold, task by task.  The predicates *)
(* below speak of collections sl, memory mem, tasks Q of each queue, and   *)
(* what is meant mn; be is the block each collection has, or had when the  *)
(* queued tasks that use it were issued, and G[q][i] is what the program   *)
(* means the collections to hold when task i of queue q has run.           *)
LiveIn(sl) == {s \in Slots : sl[s] # Empty}

Uses(Q, q, i)  == Touches(Q[q][i].call)
Writes(Q, q, i) == Q[q][i].call.to
InUse(Q, q, s) == \E i \in 1 .. Len(Q[q]) : s \in Uses(Q, q, i)

(* What is meant may be undefined; memory then holds anything. *)
Below(x, y) == x = Undefined \/ x = y

Steps(o, before, after) ==
    \A s \in Slots, c \in Columns :
        after[s][c] = IF s \in o.to /\ c \in o.columns THEN Result(o, before, c) ELSE before[s][c]

(* An operation on collections, and the same on their blocks.  A release    *)
(* has no columns, and moves nothing.                                       *)
IsCall(o) ==
    /\ o.to \subseteq Slots /\ o.columns \subseteq Columns
    /\ \A j \in DOMAIN o.from : o.from[j] \in Slots
    /\ o.name = "memcpy" => 1 \in DOMAIN o.from \/ DOMAIN o.from = {}

Places(o, p, be) ==
    /\ p.name = o.name
    /\ DOMAIN p.from = DOMAIN o.from
    /\ \A j \in DOMAIN o.from : p.from[j] = be[o.from[j]]
    /\ p.to = {be[s] : s \in o.to}

IsQueued(t, be) ==
    /\ IsCall(t.call)
    /\ t.run.columns = t.call.columns /\ t.run.returns = t.call.returns
    /\ t.run.name = t.call.name
    /\ t.call.name = "release" => t.call.columns = {} /\ ~t.call.returns
    /\ t.call.columns # {} => Places(t.call, t.run, be)

Tasks(Q, be) ==
    \A q \in Queues : Len(Q[q]) \in Nat /\ \A i \in 1 .. Len(Q[q]) : IsQueued(Q[q][i], be)

Chain(Q, G) ==
    \A q \in Queues : \A i \in 1 .. Len(Q[q]) : Steps(Q[q][i].call, G[q][i - 1], G[q][i])

Answers(Q, G) ==
    \A q \in Queues : \A i \in 1 .. Len(Q[q]) :
        Q[q][i].meant = Returned(Q[q][i].call, G[q][i - 1])

(* Tasks of different queues have nothing in common that one of them writes. *)
Separate(Q) ==
    \A q, r \in Queues : q # r =>
        \A i \in 1 .. Len(Q[q]) : \A k \in 1 .. Len(Q[r]) : Writes(Q, q, i) \cap Uses(Q, r, k) = {}

(* The program means what its queues end with; a collection keeps what no   *)
(* later task writes.                                                       *)
Ends(sl, Q, mn, G) ==
    \A q \in Queues : \A s \in LiveIn(sl), c \in Columns : G[q][Len(Q[q])][s][c] = mn[s][c]

Keeps(Q, G) ==
    \A q \in Queues : \A i \in 0 .. Len(Q[q]) : \A s \in Slots :
        (\A k \in i + 1 .. Len(Q[q]) : s \notin Writes(Q, q, k)) =>
            \A c \in Columns : G[q][i][s][c] = G[q][Len(Q[q])][s][c]

(* Memory holds what the queued tasks start from, and of a collection that  *)
(* no task writes what is meant.                                            *)
Starts(mem, Q, be, G) ==
    \A q \in Queues : \A s \in Slots : InUse(Q, q, s) =>
        \A c \in Columns : Below(G[q][0][s][c], mem[be[s]][c])

Holds(sl, mem, Q, mn, be) ==
    \A s \in LiveIn(sl) :
        (\A q \in Queues : \A i \in 1 .. Len(Q[q]) : s \notin Writes(Q, q, i)) =>
            \A c \in Columns : Below(mn[s][c], mem[be[s]][c])

Placed(sl, be) ==
    /\ \A s \in Slots : be[s] \in Blocks
    /\ \A s \in LiveIn(sl) : be[s] = sl[s].block
    /\ \A s, r \in LiveIn(sl) : s # r => be[s] # be[r]

Forgotten(sl, mn) == \A s \in Slots \ LiveIn(sl) : \A c \in Columns : mn[s][c] = Undefined

(* A device collection with a queue is used by tasks of that queue only.    *)
OwnQueues(sl, Q) ==
    \A q \in Queues : \A i \in 1 .. Len(Q[q]) : \A s \in Uses(Q, q, i) \cap LiveIn(sl) :
        sl[s].kind = "device" => sl[s].queue \subseteq {q}

(* A block that tasks of a destroyed collection s still use, and that       *)
(* another collection r has by now, belongs to a device collection of their *)
(* queue; it has not been used before they have run, nor is anything meant  *)
(* to be in it until then.                                                  *)
ReusedLater(sl, Q, be, G) ==
    \A q \in Queues : \A k \in 1 .. Len(Q[q]) : \A s \in Uses(Q, q, k) \ LiveIn(sl) :
        \A r \in LiveIn(sl) : be[r] = be[s] =>
            /\ sl[r].kind = "device" /\ sl[r].queue = {q}
            /\ \A c \in Columns : G[q][k][r][c] = Undefined
            /\ \A i \in 1 .. k : r \notin Uses(Q, q, i)

(* The same of two that are both destroyed. *)
UsedInTurn(sl, Q, be, G) ==
    \A q, p \in Queues : \A k \in 1 .. Len(Q[q]) : \A i \in 1 .. Len(Q[p]) :
        \A s \in Uses(Q, q, k) \ LiveIn(sl), r \in Uses(Q, p, i) \ LiveIn(sl) :
            s # r /\ be[s] = be[r] =>
                /\ q = p
                /\ \/ k < i /\ \A c \in Columns : G[q][k][r][c] = Undefined
                   \/ i < k /\ \A c \in Columns : G[q][i][s][c] = Undefined

(* The block of a destroyed collection that tasks still use has a new owner *)
(* or will be released after them.                                          *)
ReleasedLater(sl, Q, be) ==
    \A q \in Queues : \A i \in 1 .. Len(Q[q]) : \A s \in Uses(Q, q, i) \ LiveIn(sl) :
        \/ \E k \in i .. Len(Q[q]) : Releases(Q[q][k], be[s])
        \/ \E r \in LiveIn(sl) : be[r] = be[s]

World(sl, mem, Q, mn, be, G) ==
    /\ Tasks(Q, be) /\ Chain(Q, G) /\ Answers(Q, G) /\ Separate(Q)
    /\ Ends(sl, Q, mn, G) /\ Keeps(Q, G)
    /\ Starts(mem, Q, be, G) /\ Holds(sl, mem, Q, mn, be)
    /\ Placed(sl, be) /\ Forgotten(sl, mn) /\ OwnQueues(sl, Q)
    /\ ReusedLater(sl, Q, be, G) /\ UsedInTurn(sl, Q, be, G) /\ ReleasedLater(sl, Q, be)

(* Chain, Answers, Keeps and Starts for queue q, with H for G[q].            *)
Follows(mem, Q, q, be, H) ==
    /\ \A i \in 1 .. Len(Q[q]) : Steps(Q[q][i].call, H[i - 1], H[i])
    /\ \A i \in 1 .. Len(Q[q]) : Q[q][i].meant = Returned(Q[q][i].call, H[i - 1])
    /\ \A i \in 0 .. Len(Q[q]) : \A s \in Slots :
           (\A k \in i + 1 .. Len(Q[q]) : s \notin Writes(Q, q, k)) =>
               \A c \in Columns : H[i][s][c] = H[Len(Q[q])][s][c]
    /\ \A s \in Slots : InUse(Q, q, s) => \A c \in Columns : Below(H[0][s][c], mem[be[s]][c])

(* H is what G means for queue q, but for the collections of W.              *)
Otherwise(Q, q, G, W, v, H) ==
    \A i \in 0 .. Len(Q[q]) : \A s \in Slots, c \in Columns :
        H[i][s][c] = IF s \in W THEN v[s][c] ELSE G[q][i][s][c]

(* Nothing on queue q is in the way of o.                                    *)
Clear(Q, q, o) ==
    \A i \in 1 .. Len(Q[q]) :
        Writes(Q, q, i) \cap Touches(o) = {} /\ Uses(Q, q, i) \cap o.to = {}

(* An answer is right, or the program does not mean any in particular.     *)
Right(got, due) == got = due \/ Undefined \in due

-----------------------------------------------------------------------------
(* What an operation computes depends on what it reads.                     *)
LEMMA ResultSame ==
    ASSUME NEW o, NEW c, NEW x, NEW y, \A j \in DOMAIN o.from : x[o.from[j]][c] = y[o.from[j]][c]
    PROVE  Result(o, x, c) = Result(o, y, c)
<1> DEFINE a == [j \in DOMAIN o.from |-> x[o.from[j]][c]]
           b == [j \in DOMAIN o.from |-> y[o.from[j]][c]]
<1>1. a = b
  OBVIOUS
<1>2. Result(o, x, c) = (IF o.name = "memcpy" THEN a[1]
                         ELSE IF \E j \in DOMAIN a : a[j] = Undefined THEN Undefined ELSE <<o.name>> \o a)
  BY DEF Result
<1>3. Result(o, y, c) = (IF o.name = "memcpy" THEN b[1]
                         ELSE IF \E j \in DOMAIN b : b[j] = Undefined THEN Undefined ELSE <<o.name>> \o b)
  BY DEF Result
<1> HIDE DEF a, b
<1> QED
  BY <1>1, <1>2, <1>3

(* The same on stores of which one is less defined.                         *)
LEMMA ResultBelow ==
    ASSUME NEW o, NEW p, NEW c, NEW x, NEW y, IsCall(o),
           p.name = o.name, DOMAIN p.from = DOMAIN o.from,
           \A j \in DOMAIN o.from : Below(x[o.from[j]][c], y[p.from[j]][c])
    PROVE  Below(Result(o, x, c), Result(p, y, c))
<1> DEFINE a == [j \in DOMAIN o.from |-> x[o.from[j]][c]]
           b == [j \in DOMAIN p.from |-> y[p.from[j]][c]]
<1>1. DOMAIN a = DOMAIN o.from /\ DOMAIN b = DOMAIN o.from /\ \A j \in DOMAIN o.from : Below(a[j], b[j])
  OBVIOUS
<1>2. Result(o, x, c) = (IF o.name = "memcpy" THEN a[1]
                         ELSE IF \E j \in DOMAIN a : a[j] = Undefined THEN Undefined ELSE <<o.name>> \o a)
  BY DEF Result
<1>3. Result(p, y, c) = (IF o.name = "memcpy" THEN b[1]
                         ELSE IF \E j \in DOMAIN b : b[j] = Undefined THEN Undefined ELSE <<o.name>> \o b)
  BY DEF Result
<1>4. (\A j \in DOMAIN o.from : a[j] = b[j]) => a = b
  OBVIOUS
<1> HIDE DEF a, b
<1>5. CASE o.name = "memcpy"
  <2>1. CASE 1 \in DOMAIN o.from
    BY <1>1, <1>2, <1>3, <1>5, <2>1
  <2>2. CASE DOMAIN o.from = {}
    BY <1>2, <1>3, <1>4, <1>5, <2>2 DEF Below
  <2> QED
    BY <1>5, <2>1, <2>2 DEF IsCall
<1>6. CASE o.name # "memcpy" /\ \E j \in DOMAIN a : a[j] = Undefined
  BY <1>2, <1>6 DEF Below
<1>7. CASE o.name # "memcpy" /\ ~\E j \in DOMAIN a : a[j] = Undefined
  <2>1. a = b
    BY <1>1, <1>4, <1>7 DEF Below
  <2> QED
    BY <1>2, <1>3, <1>7, <2>1 DEF Below
<1> QED
  BY <1>5, <1>6, <1>7

(* Effect, column by column.                                                *)
LEMMA EffectOn ==
    ASSUME NEW o, NEW x, NEW b \in DOMAIN x, NEW c \in Columns
    PROVE  Effect(o, x)[b][c] = IF b \in o.to /\ c \in o.columns THEN Result(o, x, c) ELSE x[b][c]
  BY DEF Effect

-----------------------------------------------------------------------------
(* The first task of a queue runs.                                          *)
LEMMA RunsFirst ==
    ASSUME NEW sl, NEW mem, NEW Q, NEW mn, NEW be, NEW G, World(sl, mem, Q, mn, be, G),
           DOMAIN mem = Blocks, NEW q \in Queues, Len(Q[q]) > 0,
           NEW mem2, mem2 = Effect(Q[q][1].run, mem), NEW c \in Columns
    PROVE  /\ \A s \in Writes(Q, q, 1) : Below(G[q][1][s][c], mem2[be[s]][c])
           /\ \A s \in Slots : (\A r \in Writes(Q, q, 1) : be[r] # be[s]) => mem2[be[s]][c] = mem[be[s]][c]
           /\ \A s \in Slots \ Writes(Q, q, 1) : G[q][1][s][c] = G[q][0][s][c]
<1> DEFINE t == Q[q][1]
<1>1. 1 \in 1 .. Len(Q[q]) /\ IsQueued(t, be)
  BY DEF World, Tasks
<1>2. Steps(t.call, G[q][0], G[q][1])
  <2>1. Steps(Q[q][1].call, G[q][1 - 1], G[q][1]) /\ 1 - 1 = 0
    BY <1>1 DEF World, Chain
  <2> QED
    BY <2>1
<1>3. \A b \in Blocks : mem2[b][c] = IF b \in t.run.to /\ c \in t.call.columns THEN Result(t.run, mem, c)
                                     ELSE mem[b][c]
  BY <1>1, EffectOn DEF IsQueued
<1>4. \A s \in Slots : be[s] \in Blocks
  BY DEF World, Placed
<1>5. \A s \in Uses(Q, q, 1) : s \in Slots => Below(G[q][0][s][c], mem[be[s]][c])
  BY <1>1 DEF World, Starts, InUse
<1>6. Writes(Q, q, 1) = t.call.to /\ t.call.to \subseteq Slots
  BY <1>1 DEF Writes, IsQueued, IsCall
<1>7. ASSUME NEW s \in t.call.to PROVE Below(G[q][1][s][c], mem2[be[s]][c])
  <2>1. s \in Uses(Q, q, 1) /\ s \in Slots
    BY <1>6, <1>7 DEF Uses, Touches
  <2>2. CASE c \notin t.call.columns
    BY <1>2, <1>3, <1>4, <1>5, <2>1, <2>2 DEF Steps
  <2>3. CASE c \in t.call.columns
    <3>1. Places(t.call, t.run, be) /\ IsCall(t.call)
      BY <1>1, <2>3 DEF IsQueued
    <3>2. G[q][1][s][c] = Result(t.call, G[q][0], c)
      BY <1>2, <2>1, <2>3 DEF Steps
    <3>3. mem2[be[s]][c] = Result(t.run, mem, c)
      BY <1>3, <1>4, <2>1, <2>3, <3>1 DEF Places
    <3>4. \A j \in DOMAIN t.call.from : Below(G[q][0][t.call.from[j]][c], mem[t.run.from[j]][c])
      <4>1. ASSUME NEW j \in DOMAIN t.call.from
            PROVE  t.call.from[j] \in Uses(Q, q, 1) /\ t.call.from[j] \in Slots /\ t.run.from[j] = be[t.call.from[j]]
        BY <3>1, <4>1 DEF Uses, Touches, IsCall, Places
      <4> QED
        BY <1>5, <4>1
    <3> QED
      BY <3>1, <3>2, <3>3, <3>4, ResultBelow DEF Places
  <2> QED
    BY <2>2, <2>3
<1>8. ASSUME NEW s \in Slots, \A r \in t.call.to : be[r] # be[s] PROVE mem2[be[s]][c] = mem[be[s]][c]
  <2>1. c \in t.call.columns => be[s] \notin t.run.to
    BY <1>1, <1>8 DEF IsQueued, Places
  <2> QED
    BY <1>3, <1>4, <2>1
<1>9. \A s \in Slots \ t.call.to : G[q][1][s][c] = G[q][0][s][c]
  BY <1>2 DEF Steps
<1> QED
  BY <1>6, <1>7, <1>8, <1>9

(* A block that the first task writes and another collection uses too:      *)
(* nothing is meant to be in it when that task has run.                     *)
LEMMA SharedWithFirst ==
    ASSUME NEW sl, NEW mem, NEW Q, NEW mn, NEW be, NEW G, World(sl, mem, Q, mn, be, G),
           NEW q \in Queues, Len(Q[q]) > 0, NEW c \in Columns,
           NEW r \in Writes(Q, q, 1), NEW s \in Slots \ Writes(Q, q, 1), be[r] = be[s]
    PROVE  /\ s \in LiveIn(sl) => G[q][1][s][c] = Undefined
           /\ \A p \in Queues : \A i \in 1 .. Len(Q[p]) :
                  s \in Uses(Q, p, i) => p = q /\ G[q][1][s][c] = Undefined
<1>1. Len(Q[q]) \in Nat /\ 1 \in 1 .. Len(Q[q]) /\ IsQueued(Q[q][1], be)
  BY DEF World, Tasks
<1>2. r \in Uses(Q, q, 1) /\ r \in Slots /\ r # s /\ be[r] = be[s]
  BY <1>1 DEF Writes, Uses, Touches, IsQueued, IsCall
<1>3. r \in LiveIn(sl) => s \notin LiveIn(sl)
  BY <1>2 DEF World, Placed
<1>4. ASSUME s \in LiveIn(sl)
      PROVE  G[q][1][s][c] = Undefined /\ sl[s].kind = "device" /\ sl[s].queue = {q}
  BY <1>1, <1>2, <1>3, <1>4 DEF World, ReusedLater
<1>5. ASSUME NEW p \in Queues, NEW i \in 1 .. Len(Q[p]), s \in Uses(Q, p, i)
      PROVE  p = q /\ G[q][1][s][c] = Undefined
  <2>1. CASE s \in LiveIn(sl)
    <3>1. sl[s].queue \subseteq {p}
      BY <1>4, <1>5, <2>1 DEF World, OwnQueues
    <3> QED
      BY <1>4, <2>1, <3>1
  <2>2. CASE s \notin LiveIn(sl) /\ r \in LiveIn(sl)
    <3>1. /\ sl[r].kind = "device" /\ sl[r].queue = {p}
          /\ \A k \in 1 .. i : r \notin Uses(Q, p, k)
      BY <1>2, <1>5, <2>2 DEF World, ReusedLater
    <3>2. sl[r].queue \subseteq {q}
      BY <1>1, <1>2, <2>2, <3>1 DEF World, OwnQueues
    <3>3. p = q
      BY <3>1, <3>2
    <3>4. 1 \in 1 .. i
      OBVIOUS
    <3> QED
      BY <1>2, <3>1, <3>3, <3>4
  <2>3. CASE s \notin LiveIn(sl) /\ r \notin LiveIn(sl)
    <3>1. /\ q = p
          /\ \/ 1 < i /\ \A d \in Columns : G[q][1][s][d] = Undefined
             \/ i < 1 /\ \A d \in Columns : G[q][i][r][d] = Undefined
      BY <1>1, <1>2, <1>5, <2>3 DEF World, UsedInTurn
    <3> QED
      BY <3>1
  <2> QED
    BY <2>1, <2>2, <2>3
<1> QED
  BY <1>4, <1>5

(* The invariant survives the run of a first task.                          *)
LEMMA RunKeeps ==
    ASSUME NEW sl, NEW mem, NEW Q, NEW mn, NEW be, NEW G, World(sl, mem, Q, mn, be, G),
           DOMAIN mem = Blocks, NEW q \in Queues, Len(Q[q]) > 0,
           NEW mem2, mem2 = Effect(Q[q][1].run, mem),
           NEW Q2, Len(Q2[q]) = Len(Q[q]) - 1, \A i \in 1 .. Len(Q2[q]) : Q2[q][i] = Q[q][i + 1],
           \A r \in Queues \ {q} : Q2[r] = Q[r]
    PROVE  \E G2 : World(sl, mem2, Q2, mn, be, G2)
<1> DEFINE G2 == [r \in Queues |-> IF r = q THEN [i \in 0 .. Len(Q2[q]) |-> G[q][i + 1]] ELSE G[r]]
<1>1. (\A i \in 0 .. Len(Q2[q]) : G2[q][i] = G[q][i + 1]) /\ \A r \in Queues \ {q} : G2[r] = G[r]
  OBVIOUS
<1> HIDE DEF G2
<1>2. \A p \in Queues : Len(Q[p]) \in Nat /\ Len(Q2[p]) \in Nat
  BY DEF World, Tasks
(* Where a task of Q2 was in Q. *)
<1>3. ASSUME NEW i \in 1 .. Len(Q2[q])
      PROVE  /\ i + 1 \in 1 .. Len(Q[q]) /\ i - 1 \in 0 .. Len(Q2[q])
             /\ Q2[q][i] = Q[q][i + 1] /\ Uses(Q2, q, i) = Uses(Q, q, i + 1)
             /\ Writes(Q2, q, i) = Writes(Q, q, i + 1)
             /\ G2[q][i] = G[q][i + 1] /\ G2[q][i - 1] = G[q][i]
  BY <1>1, <1>2 DEF Uses, Writes
<1>4. ASSUME NEW r \in Queues \ {q}
      PROVE  /\ Q2[r] = Q[r] /\ G2[r] = G[r]
             /\ \A i : Uses(Q2, r, i) = Uses(Q, r, i) /\ Writes(Q2, r, i) = Writes(Q, r, i)
  BY <1>1 DEF Uses, Writes
<1>5. Len(Q2[q]) \in Nat /\ Len(Q[q]) = Len(Q2[q]) + 1 /\ G2[q][0] = G[q][1]
      /\ G2[q][Len(Q2[q])] = G[q][Len(Q[q])]
  BY <1>1, <1>2
<1>6. ASSUME NEW p \in Queues, NEW s, InUse(Q2, p, s) PROVE InUse(Q, p, s)
  BY <1>3, <1>4, <1>6 DEF InUse
<1>7. Tasks(Q2, be)
  <2>1. ASSUME NEW i \in 1 .. Len(Q2[q]) PROVE IsQueued(Q2[q][i], be)
    BY <1>3 DEF World, Tasks
  <2> QED
    BY <1>2, <1>4, <2>1 DEF World, Tasks
<1>8. Chain(Q2, G2)
  <2>1. ASSUME NEW i \in 1 .. Len(Q2[q]) PROVE Steps(Q2[q][i].call, G2[q][i - 1], G2[q][i])
    <3>1. Steps(Q[q][i + 1].call, G[q][(i + 1) - 1], G[q][i + 1]) /\ (i + 1) - 1 = i
      BY <1>3 DEF World, Chain
    <3> QED
      BY <1>3, <3>1
  <2> QED
    BY <1>4, <2>1 DEF World, Chain
<1>9. Answers(Q2, G2)
  <2>1. ASSUME NEW i \in 1 .. Len(Q2[q]) PROVE Q2[q][i].meant = Returned(Q2[q][i].call, G2[q][i - 1])
    <3>1. Q[q][i + 1].meant = Returned(Q[q][i + 1].call, G[q][(i + 1) - 1]) /\ (i + 1) - 1 = i
      BY <1>3 DEF World, Answers
    <3> QED
      BY <1>3, <3>1
  <2> QED
    BY <1>4, <2>1 DEF World, Answers
<1>10. Separate(Q2)
  <2>1. ASSUME NEW p \in Queues, NEW r \in Queues, p # r, NEW i \in 1 .. Len(Q2[p]), NEW k \in 1 .. Len(Q2[r])
        PROVE  Writes(Q2, p, i) \cap Uses(Q2, r, k) = {}
    <3>1. CASE p = q
      BY <1>3, <1>4, <2>1, <3>1 DEF World, Separate
    <3>2. CASE r = q
      BY <1>3, <1>4, <2>1, <3>2 DEF World, Separate
    <3>3. CASE p # q /\ r # q
      BY <1>4, <2>1, <3>3 DEF World, Separate
    <3> QED
      BY <3>1, <3>2, <3>3
  <2> QED
    BY <2>1 DEF Separate
<1>11. Ends(sl, Q2, mn, G2)
  <2>1. \A s \in LiveIn(sl), c \in Columns : G2[q][Len(Q2[q])][s][c] = mn[s][c]
    BY <1>5 DEF World, Ends
  <2>2. ASSUME NEW p \in Queues, p # q
        PROVE  \A s \in LiveIn(sl), c \in Columns : G2[p][Len(Q2[p])][s][c] = mn[s][c]
    <3>1. Q2[p] = Q[p] /\ G2[p] = G[p]
      BY <1>4, <2>2
    <3> QED
      BY <3>1 DEF World, Ends
  <2> QED
    BY <2>1, <2>2 DEF Ends
<1>12. Keeps(Q2, G2)
  <2>1. ASSUME NEW i \in 0 .. Len(Q2[q]), NEW s \in Slots, NEW c \in Columns,
               \A k \in i + 1 .. Len(Q2[q]) : s \notin Writes(Q2, q, k)
        PROVE  G2[q][i][s][c] = G2[q][Len(Q2[q])][s][c]
    <3>1. ASSUME NEW k \in (i + 1) + 1 .. Len(Q[q]) PROVE s \notin Writes(Q, q, k)
      <4>1. k - 1 \in i + 1 .. Len(Q2[q]) /\ k - 1 \in 1 .. Len(Q2[q]) /\ (k - 1) + 1 = k
        BY <1>5
      <4> QED
        BY <1>3, <2>1, <4>1
    <3>2. i + 1 \in 0 .. Len(Q[q])
      BY <1>5
    <3>3. G[q][i + 1][s][c] = G[q][Len(Q[q])][s][c]
      BY <3>1, <3>2 DEF World, Keeps
    <3> QED
      BY <1>1, <1>5, <3>3
  <2>2. ASSUME NEW p \in Queues, p # q
        PROVE  \A i \in 0 .. Len(Q2[p]) : \A s \in Slots :
                   (\A k \in i + 1 .. Len(Q2[p]) : s \notin Writes(Q2, p, k)) =>
                       \A c \in Columns : G2[p][i][s][c] = G2[p][Len(Q2[p])][s][c]
    <3>1. Q2[p] = Q[p] /\ G2[p] = G[p] /\ \A i : Writes(Q2, p, i) = Writes(Q, p, i)
      BY <1>4, <2>2
    <3> QED
      BY <3>1 DEF World, Keeps
  <2>3. ASSUME NEW p \in Queues
        PROVE  \A i \in 0 .. Len(Q2[p]) : \A s \in Slots :
                   (\A k \in i + 1 .. Len(Q2[p]) : s \notin Writes(Q2, p, k)) =>
                       \A c \in Columns : G2[p][i][s][c] = G2[p][Len(Q2[p])][s][c]
    <3>1. CASE p = q
      BY <2>1, <3>1
    <3>2. CASE p # q
      BY <2>2, <3>2
    <3> QED
      BY <3>1, <3>2
  <2> QED
    BY <2>3 DEF Keeps
<1>13. ASSUME NEW c \in Columns, NEW s \in Slots
       PROVE  /\ s \in Writes(Q, q, 1) => Below(G[q][1][s][c], mem2[be[s]][c])
              /\ s \notin Writes(Q, q, 1) => G[q][1][s][c] = G[q][0][s][c]
              /\ (\A r \in Writes(Q, q, 1) : be[r] # be[s]) => mem2[be[s]][c] = mem[be[s]][c]
  BY RunsFirst
<1>14. Starts(mem2, Q2, be, G2)
  <2>1. ASSUME NEW p \in Queues, NEW s \in Slots, InUse(Q2, p, s), NEW c \in Columns
        PROVE  Below(G2[p][0][s][c], mem2[be[s]][c])
    <3>1. InUse(Q, p, s) /\ Below(G[p][0][s][c], mem[be[s]][c])
      BY <1>6, <2>1 DEF World, Starts
    <3>2. CASE s \in Writes(Q, q, 1)
      <4>1. p = q
        <5>1. PICK i \in 1 .. Len(Q[p]) : s \in Uses(Q, p, i)
          BY <3>1 DEF InUse
        <5>2. 1 \in 1 .. Len(Q[q])
          BY <1>5
        <5> QED
          BY <3>2, <5>1, <5>2 DEF World, Separate
      <4> QED
        BY <1>5, <1>13, <3>2, <4>1
    <3>3. CASE s \notin Writes(Q, q, 1) /\ \A r \in Writes(Q, q, 1) : be[r] # be[s]
      <4>1. mem2[be[s]][c] = mem[be[s]][c] /\ G[q][1][s][c] = G[q][0][s][c]
        BY <1>13, <3>3
      <4> QED
        BY <1>4, <1>5, <3>1, <4>1
    <3>4. CASE s \notin Writes(Q, q, 1) /\ \E r \in Writes(Q, q, 1) : be[r] = be[s]
      <4>1. PICK r \in Writes(Q, q, 1) : be[r] = be[s]
        BY <3>4
      <4>2. PICK i \in 1 .. Len(Q[p]) : s \in Uses(Q, p, i)
        BY <3>1 DEF InUse
      <4>3. p = q /\ G[q][1][s][c] = Undefined
        BY <3>4, <4>1, <4>2, SharedWithFirst
      <4> QED
        BY <1>5, <4>3 DEF Below
    <3> QED
      BY <3>2, <3>3, <3>4
  <2> QED
    BY <2>1 DEF Starts
<1>15. Holds(sl, mem2, Q2, mn, be)
  <2>1. ASSUME NEW s \in LiveIn(sl), NEW c \in Columns,
               \A p \in Queues : \A i \in 1 .. Len(Q2[p]) : s \notin Writes(Q2, p, i)
        PROVE  Below(mn[s][c], mem2[be[s]][c])
    <3>1. s \in Slots
      BY DEF LiveIn
    <3>2. ASSUME NEW k \in 2 .. Len(Q[q]) PROVE s \notin Writes(Q, q, k)
      <4>1. k - 1 \in 1 .. Len(Q2[q]) /\ (k - 1) + 1 = k
        BY <1>5
      <4> QED
        BY <1>3, <2>1, <4>1
    <3>3. mn[s][c] = G[q][1][s][c]
      <4>1. 1 \in 0 .. Len(Q[q]) /\ 1 + 1 = 2
        BY <1>5
      <4>2. G[q][1][s][c] = G[q][Len(Q[q])][s][c]
        BY <3>1, <3>2, <4>1 DEF World, Keeps
      <4> QED
        BY <4>2 DEF World, Ends
    <3>4. CASE s \in Writes(Q, q, 1)
      BY <1>13, <3>1, <3>3, <3>4
    <3>5. CASE s \notin Writes(Q, q, 1) /\ \A r \in Writes(Q, q, 1) : be[r] # be[s]
      <4>1. ASSUME NEW p \in Queues, NEW i \in 1 .. Len(Q[p]) PROVE s \notin Writes(Q, p, i)
        <5>1. CASE p # q
          BY <1>4, <2>1, <5>1
        <5>2. CASE p = q
          <6>1. i = 1 \/ i \in 2 .. Len(Q[q])
            BY <1>2, <5>2
          <6> QED
            BY <3>2, <3>5, <5>2, <6>1
        <5> QED
          BY <5>1, <5>2
      <4>2. Below(mn[s][c], mem[be[s]][c])
        BY <4>1 DEF World, Holds
      <4> QED
        BY <1>13, <3>1, <3>5, <4>2
    <3>6. CASE s \notin Writes(Q, q, 1) /\ \E r \in Writes(Q, q, 1) : be[r] = be[s]
      <4>1. G[q][1][s][c] = Undefined
        BY <3>1, <3>6, SharedWithFirst
      <4> QED
        BY <3>3, <4>1 DEF Below
    <3> QED
      BY <3>4, <3>5, <3>6
  <2> QED
    BY <2>1 DEF Holds
<1>16. OwnQueues(sl, Q2)
  <2>1. ASSUME NEW p \in Queues, NEW i \in 1 .. Len(Q2[p]), NEW s \in Uses(Q2, p, i) \cap LiveIn(sl),
               sl[s].kind = "device"
        PROVE  sl[s].queue \subseteq {p}
    <3>1. CASE p = q
      <4>1. i + 1 \in 1 .. Len(Q[p]) /\ s \in Uses(Q, p, i + 1) \cap LiveIn(sl)
        BY <1>3, <2>1, <3>1
      <4> QED
        BY <2>1, <4>1 DEF World, OwnQueues
    <3>2. CASE p # q
      <4>1. i \in 1 .. Len(Q[p]) /\ s \in Uses(Q, p, i) \cap LiveIn(sl)
        BY <1>4, <2>1, <3>2
      <4> QED
        BY <2>1, <4>1 DEF World, OwnQueues
    <3> QED
      BY <3>1, <3>2
  <2> QED
    BY <2>1 DEF OwnQueues
<1>17. ReusedLater(sl, Q2, be, G2)
  <2>1. ASSUME NEW p \in Queues, NEW k \in 1 .. Len(Q2[p]), NEW s \in Uses(Q2, p, k) \ LiveIn(sl),
               NEW r \in LiveIn(sl), be[r] = be[s]
        PROVE  /\ sl[r].kind = "device" /\ sl[r].queue = {p}
               /\ \A c \in Columns : G2[p][k][r][c] = Undefined
               /\ \A i \in 1 .. k : r \notin Uses(Q2, p, i)
    <3>1. CASE p # q
      BY <1>4, <2>1, <3>1 DEF World, ReusedLater
    <3>2. CASE p = q
      <4>1. /\ sl[r].kind = "device" /\ sl[r].queue = {p}
            /\ \A c \in Columns : G[q][k + 1][r][c] = Undefined
            /\ \A i \in 1 .. k + 1 : r \notin Uses(Q, q, i)
        BY <1>3, <2>1, <3>2 DEF World, ReusedLater
      <4>2. ASSUME NEW i \in 1 .. k PROVE r \notin Uses(Q2, q, i)
        <5>1. i \in 1 .. Len(Q2[q]) /\ i + 1 \in 1 .. k + 1
          BY <1>2, <3>2
        <5> QED
          BY <1>3, <4>1, <5>1
      <4> QED
        BY <1>3, <3>2, <4>1, <4>2
    <3> QED
      BY <3>1, <3>2
  <2> QED
    BY <2>1 DEF ReusedLater
<1>18. UsedInTurn(sl, Q2, be, G2)
  <2>1. ASSUME NEW p \in Queues, NEW o \in Queues, NEW k \in 1 .. Len(Q2[p]), NEW i \in 1 .. Len(Q2[o]),
               NEW s \in Uses(Q2, p, k) \ LiveIn(sl), NEW r \in Uses(Q2, o, i) \ LiveIn(sl),
               s # r, be[s] = be[r]
        PROVE  /\ p = o
               /\ \/ k < i /\ \A c \in Columns : G2[p][k][r][c] = Undefined
                  \/ i < k /\ \A c \in Columns : G2[p][i][s][c] = Undefined
    <3>1. CASE p # q /\ o # q
      BY <1>4, <2>1, <3>1 DEF World, UsedInTurn
    <3>2. CASE p = q /\ o = q
      <4>1. k + 1 \in 1 .. Len(Q[q]) /\ i + 1 \in 1 .. Len(Q[q])
            /\ s \in Uses(Q, q, k + 1) /\ r \in Uses(Q, q, i + 1)
        BY <1>3, <3>2
      <4>2. \/ k + 1 < i + 1 /\ \A c \in Columns : G[q][k + 1][r][c] = Undefined
            \/ i + 1 < k + 1 /\ \A c \in Columns : G[q][i + 1][s][c] = Undefined
        BY <2>1, <4>1 DEF World, UsedInTurn
      <4>3. G2[q][k] = G[q][k + 1] /\ G2[q][i] = G[q][i + 1]
        BY <1>3, <3>2
      <4> QED
        BY <3>2, <4>2, <4>3
    <3>3. CASE p = q /\ o # q
      <4>1. k + 1 \in 1 .. Len(Q[q]) /\ s \in Uses(Q, q, k + 1) /\ r \in Uses(Q, o, i) /\ i \in 1 .. Len(Q[o])
        BY <1>3, <1>4, <3>3
      <4> QED
        BY <2>1, <3>3, <4>1 DEF World, UsedInTurn
    <3>4. CASE p # q /\ o = q
      <4>1. i + 1 \in 1 .. Len(Q[q]) /\ r \in Uses(Q, q, i + 1) /\ s \in Uses(Q, p, k) /\ k \in 1 .. Len(Q[p])
        BY <1>3, <1>4, <3>4
      <4> QED
        BY <2>1, <3>4, <4>1 DEF World, UsedInTurn
    <3> QED
      BY <3>1, <3>2, <3>3, <3>4
  <2> QED
    BY <2>1 DEF UsedInTurn
<1>19. ReleasedLater(sl, Q2, be)
  <2>1. ASSUME NEW p \in Queues, NEW i \in 1 .. Len(Q2[p]), NEW s \in Uses(Q2, p, i) \ LiveIn(sl),
               ~\E r \in LiveIn(sl) : be[r] = be[s]
        PROVE  \E k \in i .. Len(Q2[p]) : Releases(Q2[p][k], be[s])
    <3>1. CASE p # q
      BY <1>4, <2>1, <3>1 DEF World, ReleasedLater
    <3>2. CASE p = q
      <4>1. PICK k \in i + 1 .. Len(Q[q]) : Releases(Q[q][k], be[s])
        BY <1>3, <2>1, <3>2 DEF World, ReleasedLater
      <4>2. k - 1 \in i .. Len(Q2[q]) /\ k - 1 \in 1 .. Len(Q2[q]) /\ (k - 1) + 1 = k
        BY <1>2, <1>5, <3>2
      <4> QED
        BY <3>2, <4>1, <4>2
    <3> QED
      BY <3>1, <3>2
  <2> QED
    BY <2>1 DEF ReleasedLater
<1>20. Placed(sl, be) /\ Forgotten(sl, mn)
  BY DEF World
<1>21. World(sl, mem2, Q2, mn, be, G2)
  BY <1>7, <1>8, <1>9, <1>10, <1>11, <1>12, <1>14, <1>15, <1>16, <1>17, <1>18, <1>19, <1>20 DEF World
<1> QED
  BY <1>21

-----------------------------------------------------------------------------
(* A call that uses only collections whose columns are as meant returns     *)
(* what it is meant to.                                                     *)
LEMMA AnswerBelow ==
    ASSUME NEW o, NEW p, NEW x, NEW y, IsCall(o),
           p.name = o.name, DOMAIN p.from = DOMAIN o.from,
           p.columns = o.columns, p.returns = o.returns,
           \A c \in o.columns : \A j \in DOMAIN o.from : Below(x[o.from[j]][c], y[p.from[j]][c])
    PROVE  Right(Returned(p, y), Returned(o, x))
<1>1. CASE ~o.returns
  <2>1. Returned(p, y) = {} /\ Returned(o, x) = {}
    BY <1>1 DEF Returned
  <2> QED
    BY <2>1 DEF Right
<1>2. CASE o.returns
  <2>1. \A c \in o.columns : Below(Result(o, x, c), Result(p, y, c))
    BY ResultBelow
  <2>2. Returned(o, x) = {Result(o, x, c) : c \in o.columns}
        /\ Returned(p, y) = {Result(p, y, c) : c \in o.columns}
    BY <1>2 DEF Returned
  <2>3. CASE \E c \in o.columns : Result(o, x, c) = Undefined
    BY <2>2, <2>3 DEF Right
  <2>4. CASE \A c \in o.columns : Result(o, x, c) # Undefined
    <3>1. \A c \in o.columns : Result(o, x, c) = Result(p, y, c)
      BY <2>1, <2>4 DEF Below
    <3> QED
      BY <2>2, <3>1 DEF Right
  <2> QED
    BY <2>3, <2>4
<1> QED
  BY <1>1, <1>2

(* What is returned depends on what is read.                                *)
LEMMA ReturnedSame ==
    ASSUME NEW o, NEW x, NEW y,
           \A c \in o.columns : \A j \in DOMAIN o.from : x[o.from[j]][c] = y[o.from[j]][c]
    PROVE  Returned(o, x) = Returned(o, y)
<1>1. \A c \in o.columns : Result(o, x, c) = Result(o, y, c)
  BY ResultSame
<1> QED
  BY <1>1 DEF Returned

(* The first task of a queue returns what it is meant to.                   *)
LEMMA AnswerOfFirst ==
    ASSUME NEW sl, NEW mem, NEW Q, NEW mn, NEW be, NEW G, World(sl, mem, Q, mn, be, G),
           NEW q \in Queues, Len(Q[q]) > 0
    PROVE  Right(Returned(Q[q][1].run, mem), Q[q][1].meant)
<1> DEFINE t == Q[q][1]
<1>1. 1 \in 1 .. Len(Q[q]) /\ IsQueued(t, be)
  BY DEF World, Tasks
<1>2. t.meant = Returned(t.call, G[q][0])
  <2>1. Q[q][1].meant = Returned(Q[q][1].call, G[q][1 - 1]) /\ 1 - 1 = 0
    BY <1>1 DEF World, Answers
  <2> QED
    BY <2>1
<1>3. CASE t.call.columns = {}
  <2>1. Returned(t.run, mem) = {} /\ Returned(t.call, G[q][0]) = {}
    BY <1>1, <1>3 DEF IsQueued, Returned
  <2> QED
    BY <1>2, <2>1 DEF Right
<1>4. CASE t.call.columns # {}
  <2>1. IsCall(t.call) /\ Places(t.call, t.run, be) /\ t.run.columns = t.call.columns
        /\ t.run.returns = t.call.returns
    BY <1>1, <1>4 DEF IsQueued
  <2>2. ASSUME NEW c \in t.call.columns, NEW j \in DOMAIN t.call.from
        PROVE  Below(G[q][0][t.call.from[j]][c], mem[t.run.from[j]][c])
    <3>1. /\ t.call.from[j] \in Uses(Q, q, 1) /\ t.call.from[j] \in Slots
          /\ t.run.from[j] = be[t.call.from[j]] /\ c \in Columns
      BY <2>1 DEF Uses, Touches, IsCall, Places
    <3>2. InUse(Q, q, t.call.from[j])
      BY <1>1, <3>1 DEF InUse
    <3> QED
      BY <3>1, <3>2 DEF World, Starts
  <2>3. Right(Returned(t.run, mem), Returned(t.call, G[q][0]))
    BY <2>1, <2>2, AnswerBelow DEF Places
  <2> QED
    BY <1>2, <2>3
<1> QED
  BY <1>3, <1>4

-----------------------------------------------------------------------------
(* A queue whose tasks do not use the collections of W can be meant to hold *)
(* anything in them.                                                        *)
LEMMA Untouched ==
    ASSUME NEW sl, NEW mem, NEW Q, NEW mn, NEW be, NEW G, World(sl, mem, Q, mn, be, G),
           NEW q \in Queues, NEW W, \A i \in 1 .. Len(Q[q]) : Uses(Q, q, i) \cap W = {},
           NEW v, NEW H, Otherwise(Q, q, G, W, v, H)
    PROVE  Follows(mem, Q, q, be, H)
<1>0. \A i \in 0 .. Len(Q[q]) : \A s \in Slots, c \in Columns :
          H[i][s][c] = IF s \in W THEN v[s][c] ELSE G[q][i][s][c]
  BY DEF Otherwise
<1>1. Len(Q[q]) \in Nat
  BY DEF World, Tasks
<1>2. ASSUME NEW i \in 1 .. Len(Q[q])
      PROVE  /\ i - 1 \in 0 .. Len(Q[q]) /\ i \in 0 .. Len(Q[q])
             /\ IsCall(Q[q][i].call)
             /\ Q[q][i].call.to \cap W = {}
             /\ \A j \in DOMAIN Q[q][i].call.from : \A c \in Columns :
                    H[i - 1][Q[q][i].call.from[j]][c] = G[q][i - 1][Q[q][i].call.from[j]][c]
  <2>1. IsCall(Q[q][i].call)
    BY <1>2 DEF World, Tasks, IsQueued
  <2>2. Touches(Q[q][i].call) \cap W = {}
    BY <1>2 DEF Uses
  <2>3. \A j \in DOMAIN Q[q][i].call.from : Q[q][i].call.from[j] \in Slots \ W
    BY <2>1, <2>2 DEF IsCall, Touches
  <2> QED
    BY <1>0, <1>1, <1>2, <2>1, <2>2, <2>3 DEF Touches
<1>3. ASSUME NEW i \in 1 .. Len(Q[q]) PROVE Steps(Q[q][i].call, H[i - 1], H[i])
  <2> DEFINE o == Q[q][i].call
  <2>1. Steps(o, G[q][i - 1], G[q][i])
    BY <1>3 DEF World, Chain
  <2>2. ASSUME NEW s \in Slots, NEW c \in Columns
        PROVE  H[i][s][c] = IF s \in o.to /\ c \in o.columns THEN Result(o, H[i - 1], c) ELSE H[i - 1][s][c]
    <3>1. Result(o, H[i - 1], c) = Result(o, G[q][i - 1], c)
      <4>1. \A j \in DOMAIN o.from : H[i - 1][o.from[j]][c] = G[q][i - 1][o.from[j]][c]
        BY <1>2, <1>3
      <4> HIDE DEF o
      <4> QED
        BY <4>1, ResultSame
    <3>2. H[i][s][c] = (IF s \in W THEN v[s][c] ELSE G[q][i][s][c])
          /\ H[i - 1][s][c] = (IF s \in W THEN v[s][c] ELSE G[q][i - 1][s][c])
      BY <1>0, <1>2, <1>3
    <3>3. G[q][i][s][c] = IF s \in o.to /\ c \in o.columns THEN Result(o, G[q][i - 1], c) ELSE G[q][i - 1][s][c]
      BY <2>1 DEF Steps
    <3>4. s \in W => s \notin o.to
      BY <1>2, <1>3
    <3> HIDE DEF o
    <3> QED
      BY <3>1, <3>2, <3>3, <3>4
  <2> QED
    BY <2>2 DEF Steps
<1>4. ASSUME NEW i \in 1 .. Len(Q[q]) PROVE Q[q][i].meant = Returned(Q[q][i].call, H[i - 1])
  <2>1. Q[q][i].meant = Returned(Q[q][i].call, G[q][i - 1])
    BY <1>4 DEF World, Answers
  <2>2. Q[q][i].call.columns \subseteq Columns
    BY <1>2, <1>4 DEF IsCall
  <2>3. \A c \in Q[q][i].call.columns : \A j \in DOMAIN Q[q][i].call.from :
            G[q][i - 1][Q[q][i].call.from[j]][c] = H[i - 1][Q[q][i].call.from[j]][c]
    BY <1>2, <1>4, <2>2
  <2>4. Returned(Q[q][i].call, G[q][i - 1]) = Returned(Q[q][i].call, H[i - 1])
    BY <2>3, ReturnedSame
  <2> QED
    BY <2>1, <2>4
<1>5. ASSUME NEW i \in 0 .. Len(Q[q]), NEW s \in Slots, NEW c \in Columns,
             \A k \in i + 1 .. Len(Q[q]) : s \notin Writes(Q, q, k)
      PROVE  H[i][s][c] = H[Len(Q[q])][s][c]
  <2>1. G[q][i][s][c] = G[q][Len(Q[q])][s][c]
    BY <1>5 DEF World, Keeps
  <2>2. Len(Q[q]) \in 0 .. Len(Q[q])
    BY <1>1
  <2> QED
    BY <1>0, <1>5, <2>1, <2>2
<1>6. ASSUME NEW s \in Slots, InUse(Q, q, s), NEW c \in Columns PROVE Below(H[0][s][c], mem[be[s]][c])
  <2>1. s \notin W
    BY <1>6 DEF InUse
  <2>2. Below(G[q][0][s][c], mem[be[s]][c])
    BY <1>6 DEF World, Starts
  <2>3. 0 \in 0 .. Len(Q[q])
    BY <1>1
  <2> QED
    BY <1>0, <2>1, <2>2, <2>3
<1> QED
  BY <1>3, <1>4, <1>5, <1>6 DEF Follows

-----------------------------------------------------------------------------
(* What o, done now, makes of the collections and of their blocks.          *)
Proper(o, sl) == IsCall(o) /\ Touches(o) \subseteq LiveIn(sl)

(* A collection that no task is going to write and o reads is as meant.     *)
LEMMA ReadsWhatIsMeant ==
    ASSUME NEW sl, NEW mem, NEW Q, NEW mn, NEW be, NEW G, World(sl, mem, Q, mn, be, G),
           NEW o, Proper(o, sl), \A q \in Queues : Clear(Q, q, o)
    PROVE  \A s \in Touches(o) : s \in Slots /\ be[s] = sl[s].block /\
               \A c \in Columns : Below(mn[s][c], mem[be[s]][c])
<1> TAKE s \in Touches(o)
<1>1. s \in LiveIn(sl) /\ s \in Slots
  BY DEF Proper, LiveIn
<1>2. \A q \in Queues : \A i \in 1 .. Len(Q[q]) : s \notin Writes(Q, q, i)
  BY DEF Clear
<1> QED
  BY <1>1, <1>2 DEF World, Placed, Holds

(* What o then returns is what it is meant to.                              *)
LEMMA AnswerAtOnce ==
    ASSUME NEW sl, NEW mem, NEW Q, NEW mn, NEW be, NEW G, World(sl, mem, Q, mn, be, G),
           NEW o, Proper(o, sl), \A q \in Queues : Clear(Q, q, o),
           NEW p, Places(o, p, be), p.columns = o.columns, p.returns = o.returns
    PROVE  Right(Returned(p, mem), Returned(o, mn))
<1>1. IsCall(o)
  BY DEF Proper
<1>2. ASSUME NEW c \in o.columns, NEW j \in DOMAIN o.from
      PROVE  Below(mn[o.from[j]][c], mem[p.from[j]][c])
  <2>1. o.from[j] \in Touches(o) /\ c \in Columns /\ p.from[j] = be[o.from[j]]
    BY <1>1 DEF Touches, IsCall, Places
  <2> QED
    BY <2>1, ReadsWhatIsMeant
<1> QED
  BY <1>1, <1>2, AnswerBelow DEF Places

(* The invariant survives an operation of the host.                         *)
LEMMA HostKeeps ==
    ASSUME NEW sl, NEW mem, NEW Q, NEW mn, NEW be, NEW G, World(sl, mem, Q, mn, be, G),
           NEW o, Proper(o, sl), \A q \in Queues : Clear(Q, q, o),
           \A s \in o.to : sl[s].kind = "device" => \A q \in sl[s].queue \cap Queues : Len(Q[q]) = 0,
           NEW p, o.columns # {} => Places(o, p, be),
           NEW mem2, \A b \in Blocks, c \in Columns :
               mem2[b][c] = IF b \in p.to /\ c \in o.columns THEN Result(p, mem, c) ELSE mem[b][c],
           NEW mn2, Steps(o, mn, mn2)
    PROVE  \E G2 : World(sl, mem2, Q, mn2, be, G2)
<1> DEFINE G2 == [q \in Queues |-> [i \in 0 .. Len(Q[q]) |-> [s \in Slots |-> [c \in Columns |->
                     IF s \in o.to THEN mn2[s][c] ELSE G[q][i][s][c]]]]]
<1>1. \A q \in Queues : \A i \in 0 .. Len(Q[q]) : \A s \in Slots, c \in Columns :
          G2[q][i][s][c] = IF s \in o.to THEN mn2[s][c] ELSE G[q][i][s][c]
  OBVIOUS
<1> HIDE DEF G2
<1>2. IsCall(o) /\ o.to \subseteq LiveIn(sl) /\ LiveIn(sl) \subseteq Slots
  BY DEF Proper, Touches, LiveIn
<1>3. ASSUME NEW s \in Slots, NEW c \in Columns
      PROVE  /\ s \in o.to => Below(mn2[s][c], mem2[be[s]][c])
             /\ s \notin o.to => mn2[s][c] = mn[s][c]
             /\ (\A r \in o.to : be[r] # be[s]) => mem2[be[s]][c] = mem[be[s]][c]
  <2>1. be[s] \in Blocks
    BY DEF World, Placed
  <2>2. mn2[s][c] = IF s \in o.to /\ c \in o.columns THEN Result(o, mn, c) ELSE mn[s][c]
    BY DEF Steps
  <2>3. mem2[be[s]][c] = IF be[s] \in p.to /\ c \in o.columns THEN Result(p, mem, c) ELSE mem[be[s]][c]
    BY <2>1
  <2>4. ASSUME s \in o.to PROVE Below(mn2[s][c], mem2[be[s]][c])
    <3>1. s \in Touches(o)
      BY <2>4 DEF Touches
    <3>2. CASE c \notin o.columns
      BY <2>2, <2>3, <3>1, <3>2, ReadsWhatIsMeant
    <3>3. CASE c \in o.columns
      <4>1. Places(o, p, be)
        BY <3>3
      <4>2. mn2[s][c] = Result(o, mn, c) /\ mem2[be[s]][c] = Result(p, mem, c)
        BY <2>2, <2>3, <2>4, <3>3, <4>1 DEF Places
      <4>3. \A j \in DOMAIN o.from : Below(mn[o.from[j]][c], mem[p.from[j]][c])
        <5>1. ASSUME NEW j \in DOMAIN o.from PROVE o.from[j] \in Touches(o) /\ p.from[j] = be[o.from[j]]
          BY <4>1, <5>1 DEF Touches, Places
        <5> QED
          BY <5>1, ReadsWhatIsMeant
      <4> QED
        BY <1>2, <4>1, <4>2, <4>3, ResultBelow DEF Places
    <3> QED
      BY <3>2, <3>3
  <2>5. ASSUME \A r \in o.to : be[r] # be[s] PROVE mem2[be[s]][c] = mem[be[s]][c]
    <3>1. CASE c \notin o.columns
      BY <2>3, <3>1
    <3>2. CASE c \in o.columns
      BY <2>3, <2>5, <3>2 DEF Places
    <3> QED
      BY <3>1, <3>2
  <2> QED
    BY <2>2, <2>4, <2>5
<1>4. ASSUME NEW q \in Queues PROVE Follows(mem, Q, q, be, G2[q])
  <2> DEFINE H == G2[q]
             W == o.to
  <2>1. Otherwise(Q, q, G, W, mn2, H)
    BY <1>1 DEF Otherwise
  <2>2. \A i \in 1 .. Len(Q[q]) : Uses(Q, q, i) \cap W = {}
    BY DEF Clear
  <2> HIDE DEF H, W
  <2>3. Follows(mem, Q, q, be, H)
    BY <2>1, <2>2, Untouched
  <2> QED
    BY <2>3 DEF H
<1>5. ASSUME NEW q \in Queues
      PROVE  Len(Q[q]) \in Nat /\ 0 \in 0 .. Len(Q[q]) /\ Len(Q[q]) \in 0 .. Len(Q[q])
  <2>1. Len(Q[q]) \in Nat
    BY DEF World, Tasks
  <2> QED
    BY <2>1
<1>6. Chain(Q, G2) /\ Answers(Q, G2) /\ Keeps(Q, G2)
  BY <1>4 DEF Follows, Chain, Answers, Keeps
<1>7. Ends(sl, Q, mn2, G2)
  <2>1. ASSUME NEW q \in Queues, NEW s \in LiveIn(sl), NEW c \in Columns
        PROVE  G2[q][Len(Q[q])][s][c] = mn2[s][c]
    BY <1>1, <1>2, <1>3, <1>5 DEF World, Ends
  <2> QED
    BY <2>1 DEF Ends
(* A collection whose block o writes and another uses: it is gone, or o's.  *)
<1>8. ASSUME NEW q \in Queues, NEW s \in Slots, InUse(Q, q, s) PROVE \A r \in o.to : be[r] # be[s]
  <2> SUFFICES ASSUME NEW r \in o.to, be[r] = be[s] PROVE FALSE
    OBVIOUS
  <2>1. PICK i \in 1 .. Len(Q[q]) : s \in Uses(Q, q, i)
    BY <1>8 DEF InUse
  <2>2. s \notin o.to /\ r \in LiveIn(sl)
    BY <1>2, <2>1 DEF Clear
  <2>3. s \notin LiveIn(sl)
    BY <2>2 DEF World, Placed
  <2>4. sl[r].kind = "device" /\ sl[r].queue = {q}
    BY <2>1, <2>2, <2>3 DEF World, ReusedLater
  <2>5. Len(Q[q]) = 0
    BY <2>4
  <2> QED
    BY <2>1, <2>5
<1>9. Starts(mem2, Q, be, G2)
  <2>1. ASSUME NEW q \in Queues, NEW s \in Slots, InUse(Q, q, s), NEW c \in Columns
        PROVE  Below(G2[q][0][s][c], mem2[be[s]][c])
    <3>1. Below(G2[q][0][s][c], mem[be[s]][c])
      BY <1>4, <2>1 DEF Follows
    <3>2. mem2[be[s]][c] = mem[be[s]][c]
      BY <1>3, <1>8, <2>1
    <3> QED
      BY <3>1, <3>2
  <2> QED
    BY <2>1 DEF Starts
<1>10. Holds(sl, mem2, Q, mn2, be)
  <2>1. ASSUME NEW s \in LiveIn(sl), NEW c \in Columns,
               \A q \in Queues : \A i \in 1 .. Len(Q[q]) : s \notin Writes(Q, q, i)
        PROVE  Below(mn2[s][c], mem2[be[s]][c])
    <3>1. CASE s \in o.to
      BY <1>2, <1>3, <3>1
    <3>2. CASE s \notin o.to
      <4>1. \A r \in o.to : be[r] # be[s]
        BY <1>2, <3>2 DEF World, Placed
      <4>2. Below(mn[s][c], mem[be[s]][c])
        BY <2>1 DEF World, Holds
      <4>3. mn2[s][c] = mn[s][c] /\ mem2[be[s]][c] = mem[be[s]][c]
        BY <1>2, <1>3, <3>2, <4>1
      <4> QED
        BY <4>2, <4>3
    <3> QED
      BY <3>1, <3>2
  <2> QED
    BY <2>1 DEF Holds
<1>11. Forgotten(sl, mn2)
  BY <1>2, <1>3 DEF World, Forgotten
<1>12. ReusedLater(sl, Q, be, G2)
  <2>1. ASSUME NEW q \in Queues, NEW k \in 1 .. Len(Q[q]), NEW s \in Uses(Q, q, k) \ LiveIn(sl),
               NEW r \in LiveIn(sl), be[r] = be[s]
        PROVE  /\ sl[r].kind = "device" /\ sl[r].queue = {q}
               /\ \A c \in Columns : G2[q][k][r][c] = Undefined
               /\ \A i \in 1 .. k : r \notin Uses(Q, q, i)
    <3>1. /\ sl[r].kind = "device" /\ sl[r].queue = {q}
          /\ \A c \in Columns : G[q][k][r][c] = Undefined
          /\ \A i \in 1 .. k : r \notin Uses(Q, q, i)
      BY <2>1 DEF World, ReusedLater
    <3>2. r \notin o.to
      BY <1>5, <2>1, <3>1
    <3>3. k \in 0 .. Len(Q[q]) /\ r \in Slots
      BY <1>2
    <3> QED
      BY <1>1, <3>1, <3>2, <3>3
  <2> QED
    BY <2>1 DEF ReusedLater
<1>13. UsedInTurn(sl, Q, be, G2)
  <2>1. ASSUME NEW q \in Queues, NEW p1 \in Queues, NEW k \in 1 .. Len(Q[q]), NEW i \in 1 .. Len(Q[p1]),
               NEW s \in Uses(Q, q, k) \ LiveIn(sl), NEW r \in Uses(Q, p1, i) \ LiveIn(sl),
               s # r, be[s] = be[r]
        PROVE  /\ q = p1
               /\ \/ k < i /\ \A c \in Columns : G2[q][k][r][c] = Undefined
                  \/ i < k /\ \A c \in Columns : G2[q][i][s][c] = Undefined
    <3>1. /\ q = p1
          /\ \/ k < i /\ \A c \in Columns : G[q][k][r][c] = Undefined
             \/ i < k /\ \A c \in Columns : G[q][i][s][c] = Undefined
      BY <2>1 DEF World, UsedInTurn
    <3>2. s \notin o.to /\ r \notin o.to /\ k \in 0 .. Len(Q[q]) /\ i \in 0 .. Len(Q[q])
      BY <1>2, <3>1
    <3>3. s \in Slots /\ r \in Slots
      <4>1. \A c : IsCall(c) => Touches(c) \subseteq Slots
        BY DEF IsCall, Touches
      <4> QED
        BY <4>1 DEF World, Tasks, IsQueued, Uses
    <3> QED
      BY <1>1, <3>1, <3>2, <3>3
  <2> QED
    BY <2>1 DEF UsedInTurn
<1>14. /\ Tasks(Q, be) /\ Separate(Q) /\ Placed(sl, be) /\ OwnQueues(sl, Q) /\ ReleasedLater(sl, Q, be)
  BY DEF World
<1>15. World(sl, mem2, Q, mn2, be, G2)
  BY <1>6, <1>7, <1>9, <1>10, <1>11, <1>12, <1>13, <1>14 DEF World
<1> QED
  BY <1>15

-----------------------------------------------------------------------------
(* Tasks put on a queue.                                                    *)
Appended(t, o, columns, mn, be) ==
    /\ t.call.name = o.name /\ t.call.from = o.from /\ t.call.to = o.to
    /\ t.call.columns = columns /\ t.call.returns = o.returns
    /\ IsQueued(t, be)
    /\ t.meant = Returned(t.call, mn)

(* o in parts, each a task of its own.                                      *)
Parts(o, m, parts) ==
    /\ m \in Nat \ {0}
    /\ \A j \in 1 .. m : parts[j] \subseteq o.columns
    /\ \A i, j \in 1 .. m : i # j => parts[i] \cap parts[j] = {}
    /\ \A c \in o.columns : \E j \in 1 .. m : c \in parts[j]

(* A part of an operation computes in its columns what the whole would.     *)
LEMMA ResultOfPart ==
    ASSUME NEW o, NEW p, NEW c, NEW x, p.name = o.name, p.from = o.from
    PROVE  Result(p, x, c) = Result(o, x, c)
  BY DEF Result

(* The invariant survives the parts of an operation being queued.           *)
LEMMA AppendKeeps ==
    ASSUME NEW sl, NEW mem, NEW Q, NEW mn, NEW be, NEW G, World(sl, mem, Q, mn, be, G),
           NEW q \in Queues, NEW o, Proper(o, sl), \A r \in Queues \ {q} : Clear(Q, r, o),
           \A s \in Touches(o) : sl[s].kind = "device" => sl[s].queue \subseteq {q},
           NEW m, NEW parts, Parts(o, m, parts),
           NEW Q2, Len(Q2[q]) = Len(Q[q]) + m, \A i \in 1 .. Len(Q[q]) : Q2[q][i] = Q[q][i],
           \A j \in 1 .. m : Appended(Q2[q][Len(Q[q]) + j], o, parts[j], mn, be),
           \A r \in Queues \ {q} : Q2[r] = Q[r],
           NEW mn2, Steps(o, mn, mn2)
    PROVE  \E G2 : World(sl, mem, Q2, mn2, be, G2)
<1> DEFINE n == Len(Q[q])
           new == [i \in 0 .. n + m |-> IF i <= n THEN G[q][i] ELSE [s \in Slots |-> [c \in Columns |->
                      IF s \in o.to /\ \E k \in 1 .. i - n : c \in parts[k]
                      THEN Result(o, G[q][n], c) ELSE G[q][n][s][c]]]]
           other(r) == [i \in 0 .. Len(Q[r]) |-> [s \in Slots |-> [c \in Columns |->
                           IF s \in o.to THEN mn2[s][c] ELSE G[r][i][s][c]]]]
           G2 == [r \in Queues |-> IF r = q THEN new ELSE other(r)]
<1>1. n \in Nat /\ m \in Nat \ {0} /\ Len(Q2[q]) = n + m
  BY DEF World, Tasks, Parts
<1>2. \A i \in 0 .. n : G2[q][i] = G[q][i]
  BY <1>1
<1>3. ASSUME NEW j \in 0 .. m, NEW s \in Slots, NEW c \in Columns
      PROVE  G2[q][n + j][s][c] = IF s \in o.to /\ \E k \in 1 .. j : c \in parts[k]
                                  THEN Result(o, G[q][n], c) ELSE G[q][n][s][c]
  <2>1. n + j \in 0 .. n + m /\ (n + j) - n = j
    BY <1>1
  <2>2. CASE j = 0
    <3>1. n + j = n /\ ~\E k \in 1 .. j : c \in parts[k]
      BY <1>1, <2>2
    <3>2. n \in 0 .. n
      BY <1>1
    <3>3. G2[q][n + j] = G[q][n]
      BY <1>2, <3>1, <3>2
    <3> HIDE DEF n, new, G2, other
    <3> QED
      BY <3>1, <3>3
  <2>3. CASE j > 0
    <3>1. ~(n + j <= n)
      BY <1>1, <2>3
    <3>2. G2[q][n + j] = new[n + j]
      OBVIOUS
    <3>3. new[n + j] = [x \in Slots |-> [d \in Columns |->
              IF x \in o.to /\ \E k \in 1 .. (n + j) - n : d \in parts[k]
              THEN Result(o, G[q][n], d) ELSE G[q][n][x][d]]]
      BY <2>1, <3>1
    <3> HIDE DEF new, n, G2
    <3> QED
      BY <2>1, <3>2, <3>3
  <2> QED
    BY <2>2, <2>3
<1>4. ASSUME NEW r \in Queues \ {q} PROVE Otherwise(Q, r, G, o.to, mn2, G2[r])
  BY <1>4 DEF Otherwise
<1> HIDE DEF G2, new, other
<1>5. ASSUME NEW r \in Queues \ {q} PROVE Follows(mem, Q, r, be, G2[r]) /\ Q2[r] = Q[r]
  <2> DEFINE H == G2[r]
             W == o.to
  <2>1. Otherwise(Q, r, G, W, mn2, H)
    BY <1>4
  <2>2. \A i \in 1 .. Len(Q[r]) : Uses(Q, r, i) \cap W = {}
    BY DEF Clear
  <2> HIDE DEF H, W
  <2>3. Follows(mem, Q, r, be, H)
    BY <2>1, <2>2, Untouched
  <2> QED
    BY <2>3 DEF H
<1>6. ASSUME NEW i \in 1 .. n
      PROVE  /\ Q2[q][i] = Q[q][i] /\ Uses(Q2, q, i) = Uses(Q, q, i) /\ Writes(Q2, q, i) = Writes(Q, q, i)
             /\ G2[q][i] = G[q][i] /\ G2[q][i - 1] = G[q][i - 1] /\ i \in 1 .. Len(Q2[q])
  BY <1>1, <1>2 DEF Uses, Writes
<1>7. ASSUME NEW j \in 1 .. m
      PROVE  /\ Appended(Q2[q][n + j], o, parts[j], mn, be)
             /\ Uses(Q2, q, n + j) = Touches(o) /\ Writes(Q2, q, n + j) = o.to
             /\ n + j \in 1 .. Len(Q2[q])
  <2>1. Appended(Q2[q][n + j], o, parts[j], mn, be)
    OBVIOUS
  <2>2. Q2[q][n + j].call.to = o.to /\ Q2[q][n + j].call.from = o.from
    BY <2>1 DEF Appended
  <2>3. Touches(Q2[q][n + j].call) = Touches(o)
    BY <2>2 DEF Touches
  <2>4. n + j \in 1 .. Len(Q2[q])
    BY <1>1
  <2> QED
    BY <2>1, <2>2, <2>3, <2>4 DEF Uses, Writes
<1>8. ASSUME NEW i \in 1 .. Len(Q2[q]) PROVE i \in 1 .. n \/ \E j \in 1 .. m : i = n + j
  <2>1. CASE i <= n
    BY <1>1, <2>1
  <2>2. CASE i > n
    <3>1. i - n \in 1 .. m /\ i = n + (i - n)
      BY <1>1, <2>2
    <3> QED
      BY <3>1
  <2> QED
    BY <1>1, <2>1, <2>2
<1>9. IsCall(o) /\ o.to \subseteq Touches(o) /\ Touches(o) \subseteq LiveIn(sl) /\ LiveIn(sl) \subseteq Slots
  BY DEF Proper, Touches, LiveIn
(* What o reads is as meant when the tasks that are there have run. *)
<1>10. ASSUME NEW c \in o.columns PROVE Result(o, G[q][n], c) = Result(o, mn, c)
  <2>1. ASSUME NEW j \in DOMAIN o.from PROVE G[q][n][o.from[j]][c] = mn[o.from[j]][c]
    <3>1. o.from[j] \in LiveIn(sl) /\ c \in Columns
      BY <1>9 DEF Touches, IsCall
    <3> QED
      BY <3>1 DEF World, Ends
  <2> QED
    BY <2>1, ResultSame
<1>11. ASSUME NEW j \in 1 .. m, NEW c \in parts[j]
       PROVE  /\ \A a \in DOMAIN o.from : G2[q][n + j - 1][o.from[a]][c] = G[q][n][o.from[a]][c]
              /\ c \in Columns /\ c \in o.columns
              /\ Result(Q2[q][n + j].call, G2[q][n + j - 1], c) = Result(o, G[q][n], c)
  <2>1. c \in Columns /\ c \in o.columns
    BY <1>9 DEF Parts, IsCall
  <2>2. j - 1 \in 0 .. m /\ n + (j - 1) = n + j - 1 /\ ~\E k \in 1 .. j - 1 : c \in parts[k]
    BY <1>1, <1>11 DEF Parts
  <2>3. \A a \in DOMAIN o.from : o.from[a] \in Slots
    BY <1>9 DEF IsCall
  <2>4. \A a \in DOMAIN o.from : G2[q][n + j - 1][o.from[a]][c] = G[q][n][o.from[a]][c]
    BY <1>3, <2>1, <2>2, <2>3
  <2>5. Result(o, G2[q][n + j - 1], c) = Result(o, G[q][n], c)
    BY <2>4, ResultSame
  <2>6. Result(Q2[q][n + j].call, G2[q][n + j - 1], c) = Result(o, G2[q][n + j - 1], c)
    BY <1>7, ResultOfPart DEF Appended
  <2> QED
    BY <2>1, <2>4, <2>5, <2>6
<1>12. Tasks(Q2, be)
  <2>1. ASSUME NEW i \in 1 .. Len(Q2[q]) PROVE IsQueued(Q2[q][i], be)
    <3>1. CASE i \in 1 .. n
      BY <1>6, <3>1 DEF World, Tasks
    <3>2. CASE \E j \in 1 .. m : i = n + j
      BY <1>7, <3>2 DEF Appended
    <3> QED
      BY <1>8, <3>1, <3>2
  <2> QED
    BY <1>1, <2>1 DEF World, Tasks
<1>13. ASSUME NEW j \in 1 .. m PROVE Steps(Q2[q][n + j].call, G2[q][n + j - 1], G2[q][n + j])
  <2> DEFINE p == Q2[q][n + j].call
  <2>1. p.to = o.to /\ p.columns = parts[j]
    BY <1>7 DEF Appended
  <2>2. ASSUME NEW s \in Slots, NEW c \in Columns
        PROVE  G2[q][n + j][s][c] = IF s \in p.to /\ c \in p.columns THEN Result(p, G2[q][n + j - 1], c)
                                    ELSE G2[q][n + j - 1][s][c]
    <3>1. j - 1 \in 0 .. m /\ j \in 0 .. m /\ n + (j - 1) = n + j - 1
      BY <1>1
    <3>2. G2[q][n + j][s][c] = IF s \in o.to /\ \E k \in 1 .. j : c \in parts[k]
                               THEN Result(o, G[q][n], c) ELSE G[q][n][s][c]
      BY <1>3, <3>1
    <3>3. G2[q][n + j - 1][s][c] = IF s \in o.to /\ \E k \in 1 .. j - 1 : c \in parts[k]
                               THEN Result(o, G[q][n], c) ELSE G[q][n][s][c]
      BY <1>3, <3>1
    <3>4. (\E k \in 1 .. j : c \in parts[k]) <=> (c \in parts[j] \/ \E k \in 1 .. j - 1 : c \in parts[k])
      BY <1>1
    <3>5. CASE s \in o.to /\ c \in parts[j]
      <4>1. Result(p, G2[q][n + j - 1], c) = Result(o, G[q][n], c)
        BY <1>11, <3>5
      <4> HIDE DEF p
      <4> QED
        BY <2>1, <3>2, <3>4, <3>5, <4>1
    <3>6. CASE s \notin o.to \/ c \notin parts[j]
      <4> HIDE DEF p
      <4> QED
        BY <2>1, <3>2, <3>3, <3>4, <3>6
    <3> QED
      BY <3>5, <3>6
  <2> QED
    BY <2>2 DEF Steps
<1>14. Chain(Q2, G2)
  <2>1. ASSUME NEW i \in 1 .. Len(Q2[q]) PROVE Steps(Q2[q][i].call, G2[q][i - 1], G2[q][i])
    <3>1. CASE i \in 1 .. n
      BY <1>6, <3>1 DEF World, Chain
    <3>2. CASE \E j \in 1 .. m : i = n + j
      BY <1>13, <3>2
    <3> QED
      BY <1>8, <3>1, <3>2
  <2> QED
    BY <1>5, <2>1 DEF Follows, Chain
<1>15. Answers(Q2, G2)
  <2>1. ASSUME NEW i \in 1 .. Len(Q2[q]) PROVE Q2[q][i].meant = Returned(Q2[q][i].call, G2[q][i - 1])
    <3>1. CASE i \in 1 .. n
      BY <1>6, <3>1 DEF World, Answers
    <3>2. CASE \E j \in 1 .. m : i = n + j
      <4>1. PICK j \in 1 .. m : i = n + j
        BY <3>2
      <4> DEFINE p == Q2[q][n + j].call
      <4>2. p.columns = parts[j] /\ p.from = o.from /\ p.name = o.name /\ Q2[q][n + j].meant = Returned(p, mn)
        BY <1>7 DEF Appended
      <4>3. ASSUME NEW c \in p.columns PROVE Result(p, G2[q][n + j - 1], c) = Result(p, mn, c)
        <5>1. c \in parts[j] /\ c \in o.columns
          BY <1>11, <4>2
        <5>2. Result(p, G2[q][n + j - 1], c) = Result(o, mn, c)
          BY <1>10, <1>11, <5>1
        <5> QED
          BY <4>2, <5>2, ResultOfPart
      <4>4. Returned(p, G2[q][n + j - 1]) = Returned(p, mn)
        BY <4>3 DEF Returned
      <4> QED
        BY <4>1, <4>2, <4>4
    <3> QED
      BY <1>8, <3>1, <3>2
  <2> QED
    BY <1>5, <2>1 DEF Follows, Answers
<1>16. Separate(Q2)
  <2>1. ASSUME NEW r \in Queues \ {q}, NEW i \in 1 .. Len(Q2[q]), NEW k \in 1 .. Len(Q2[r])
        PROVE  Writes(Q2, q, i) \cap Uses(Q2, r, k) = {} /\ Writes(Q2, r, k) \cap Uses(Q2, q, i) = {}
    <3>1. Q2[r] = Q[r] /\ Uses(Q2, r, k) = Uses(Q, r, k) /\ Writes(Q2, r, k) = Writes(Q, r, k)
      BY DEF Uses, Writes
    <3>2. CASE i \in 1 .. n
      BY <1>6, <3>1, <3>2 DEF World, Separate
    <3>3. CASE \E j \in 1 .. m : i = n + j
      <4>1. Writes(Q2, q, i) = o.to /\ Uses(Q2, q, i) = Touches(o)
        BY <1>7, <3>3
      <4>2. Clear(Q, r, o) /\ k \in 1 .. Len(Q[r])
        BY <3>1
      <4> QED
        BY <3>1, <4>1, <4>2 DEF Clear
    <3> QED
      BY <1>8, <3>2, <3>3
  <2>2. ASSUME NEW p \in Queues \ {q}, NEW r \in Queues \ {q}, p # r,
               NEW i \in 1 .. Len(Q2[p]), NEW k \in 1 .. Len(Q2[r])
        PROVE  Writes(Q2, p, i) \cap Uses(Q2, r, k) = {}
    <3>1. /\ Q2[r] = Q[r] /\ Uses(Q2, r, k) = Uses(Q, r, k)
          /\ Q2[p] = Q[p] /\ Writes(Q2, p, i) = Writes(Q, p, i)
      BY DEF Uses, Writes
    <3> QED
      BY <2>2, <3>1 DEF World, Separate
  <2>3. ASSUME NEW p \in Queues, NEW r \in Queues, p # r, NEW i \in 1 .. Len(Q2[p]), NEW k \in 1 .. Len(Q2[r])
        PROVE  Writes(Q2, p, i) \cap Uses(Q2, r, k) = {}
    <3>1. CASE p = q
      BY <2>1, <2>3, <3>1
    <3>2. CASE r = q
      BY <2>1, <2>3, <3>2
    <3>3. CASE p # q /\ r # q
      BY <2>2, <2>3, <3>3
    <3> QED
      BY <3>1, <3>2, <3>3
  <2> QED
    BY <2>3 DEF Separate
<1>17. ASSUME NEW s \in Slots, NEW c \in Columns
       PROVE  mn2[s][c] = IF s \in o.to /\ c \in o.columns THEN Result(o, mn, c) ELSE mn[s][c]
  BY DEF Steps
<1>18. Ends(sl, Q2, mn2, G2)
  <2>1. ASSUME NEW s \in LiveIn(sl), NEW c \in Columns PROVE G2[q][Len(Q2[q])][s][c] = mn2[s][c]
    <3>1. s \in Slots /\ m \in 0 .. m
      BY <1>1, <1>9
    <3>2. (\E k \in 1 .. m : c \in parts[k]) <=> c \in o.columns
      BY DEF Parts
    <3>3. G2[q][n + m][s][c] = IF s \in o.to /\ c \in o.columns THEN Result(o, G[q][n], c) ELSE G[q][n][s][c]
      BY <1>3, <3>1, <3>2
    <3>4. G[q][n][s][c] = mn[s][c]
      BY DEF World, Ends
    <3> QED
      BY <1>1, <1>10, <1>17, <3>1, <3>3, <3>4
  <2>2. ASSUME NEW r \in Queues \ {q}, NEW s \in LiveIn(sl), NEW c \in Columns
        PROVE  G2[r][Len(Q2[r])][s][c] = mn2[s][c]
    <3>1. Len(Q[r]) \in Nat
      BY DEF World, Tasks
    <3>2. Len(Q[r]) \in 0 .. Len(Q[r]) /\ s \in Slots
      BY <1>9, <3>1
    <3>3. G2[r][Len(Q[r])][s][c] = IF s \in o.to THEN mn2[s][c] ELSE G[r][Len(Q[r])][s][c]
      BY <1>4, <3>2 DEF Otherwise
    <3>4. G[r][Len(Q[r])][s][c] = mn[s][c]
      BY DEF World, Ends
    <3> QED
      BY <1>17, <3>2, <3>3, <3>4
  <2> QED
    BY <2>1, <2>2 DEF Ends
<1>19. ASSUME NEW i \in 0 .. Len(Q2[q]), NEW s \in Slots, NEW c \in Columns,
              \A k \in i + 1 .. Len(Q2[q]) : s \notin Writes(Q2, q, k)
       PROVE  G2[q][i][s][c] = G2[q][Len(Q2[q])][s][c]
  <2>1. CASE i = Len(Q2[q])
    BY <2>1
  <2>2. CASE i # Len(Q2[q])
    <3>1. s \notin o.to
      <4>1. n + m \in i + 1 .. Len(Q2[q]) /\ m \in 1 .. m
        BY <1>1, <2>2
      <4> QED
        BY <1>7, <1>19, <4>1
    <3>2. \A j \in 0 .. m : G2[q][n + j][s][c] = G[q][n][s][c]
      BY <1>3, <3>1
    <3>3. CASE i <= n
      <4>1. ASSUME NEW k \in i + 1 .. n PROVE s \notin Writes(Q, q, k)
        <5>1. k \in 1 .. n /\ k \in i + 1 .. Len(Q2[q])
          BY <1>1
        <5> QED
          BY <1>6, <1>19, <5>1
      <4>2. i \in 0 .. n
        BY <1>1, <3>3
      <4>3. G[q][i][s][c] = G[q][n][s][c]
        BY <4>1, <4>2 DEF World, Keeps
      <4>4. m \in 0 .. m
        BY <1>1
      <4> QED
        BY <1>1, <1>2, <3>2, <4>2, <4>3, <4>4
    <3>4. CASE i > n
      <4>1. i - n \in 0 .. m /\ m \in 0 .. m /\ n + (i - n) = i
        BY <1>1, <3>4
      <4> QED
        BY <1>1, <3>2, <4>1
    <3> QED
      BY <1>1, <3>3, <3>4
  <2> QED
    BY <2>1, <2>2
<1>20. Keeps(Q2, G2)
  <2>1. ASSUME NEW r \in Queues, NEW i \in 0 .. Len(Q2[r]), NEW s \in Slots,
               \A k \in i + 1 .. Len(Q2[r]) : s \notin Writes(Q2, r, k), NEW c \in Columns
        PROVE  G2[r][i][s][c] = G2[r][Len(Q2[r])][s][c]
    <3>1. CASE r = q
      BY <1>19, <2>1, <3>1
    <3>2. CASE r # q
      <4>1. Follows(mem, Q, r, be, G2[r]) /\ Q2[r] = Q[r]
        BY <1>5, <3>2
      <4>2. \A k : Writes(Q2, r, k) = Writes(Q, r, k)
        BY <4>1 DEF Writes
      <4> QED
        BY <2>1, <4>1, <4>2 DEF Follows
    <3> QED
      BY <3>1, <3>2
  <2> QED
    BY <2>1 DEF Keeps
<1>21. ASSUME NEW r \in Queues, NEW s \in Slots, InUse(Q2, r, s), ~InUse(Q, r, s)
       PROVE  r = q /\ s \in Touches(o)
  <2>1. PICK i \in 1 .. Len(Q2[r]) : s \in Uses(Q2, r, i)
    BY <1>21 DEF InUse
  <2>2. CASE r # q
    <3>1. Q2[r] = Q[r] /\ Uses(Q2, r, i) = Uses(Q, r, i)
      BY <2>2 DEF Uses
    <3> QED
      BY <1>21, <2>1, <3>1 DEF InUse
  <2>3. CASE r = q /\ i \in 1 .. n
    BY <1>6, <1>21, <2>1, <2>3 DEF InUse
  <2>4. CASE r = q /\ \E j \in 1 .. m : i = n + j
    BY <1>7, <2>1, <2>4
  <2> QED
    BY <1>8, <2>1, <2>2, <2>3, <2>4
<1>22. ASSUME NEW s \in Slots, InUse(Q2, q, s), NEW c \in Columns
       PROVE  Below(G2[q][0][s][c], mem[be[s]][c])
  <2>1. 0 \in 0 .. n /\ G2[q][0] = G[q][0]
    BY <1>1, <1>2
  <2>2. CASE InUse(Q, q, s)
    BY <2>1, <2>2 DEF World, Starts
  <2>3. CASE ~InUse(Q, q, s)
    <3>1. s \in Touches(o) /\ s \in LiveIn(sl)
      BY <1>9, <1>21, <1>22, <2>3
    <3>2. \A k \in 1 .. n : s \notin Writes(Q, q, k)
      BY <2>3 DEF InUse, Writes, Uses, Touches
    <3>3. G[q][0][s][c] = G[q][n][s][c]
      <4>1. \A k \in 0 + 1 .. n : s \notin Writes(Q, q, k)
        BY <3>2
      <4> QED
        BY <2>1, <4>1 DEF World, Keeps
    <3>4. G[q][n][s][c] = mn[s][c]
      BY <3>1 DEF World, Ends
    <3>5. \A r \in Queues : \A k \in 1 .. Len(Q[r]) : s \notin Writes(Q, r, k)
      BY <3>1, <3>2 DEF Clear
    <3>6. Below(mn[s][c], mem[be[s]][c])
      BY <3>1, <3>5 DEF World, Holds
    <3> QED
      BY <2>1, <3>3, <3>4, <3>6
  <2> QED
    BY <2>2, <2>3
<1>23. Starts(mem, Q2, be, G2)
  <2>1. ASSUME NEW r \in Queues \ {q}, NEW s \in Slots, InUse(Q2, r, s), NEW c \in Columns
        PROVE  Below(G2[r][0][s][c], mem[be[s]][c])
    <3>1. InUse(Q, r, s)
      BY <1>21, <2>1
    <3> QED
      BY <1>5, <3>1 DEF Follows
  <2> QED
    BY <1>22, <2>1 DEF Starts
<1>24. Holds(sl, mem, Q2, mn2, be)
  <2>1. ASSUME NEW s \in LiveIn(sl), NEW c \in Columns,
               \A r \in Queues : \A i \in 1 .. Len(Q2[r]) : s \notin Writes(Q2, r, i)
        PROVE  Below(mn2[s][c], mem[be[s]][c])
    <3>1. s \notin o.to
      <4>1. 1 \in 1 .. m
        BY <1>1
      <4> QED
        BY <1>7, <2>1, <4>1
    <3>2. ASSUME NEW r \in Queues, NEW i \in 1 .. Len(Q[r]) PROVE s \notin Writes(Q, r, i)
      <4>1. CASE r = q
        BY <1>6, <2>1, <4>1
      <4>2. CASE r # q
        <5>1. Q2[r] = Q[r] /\ Writes(Q2, r, i) = Writes(Q, r, i)
          BY <4>2 DEF Writes
        <5> QED
          BY <2>1, <5>1
      <4> QED
        BY <4>1, <4>2
    <3>3. Below(mn[s][c], mem[be[s]][c])
      BY <3>2 DEF World, Holds
    <3> QED
      BY <1>9, <1>17, <3>1, <3>3
  <2> QED
    BY <2>1 DEF Holds
<1>25. Placed(sl, be) /\ Forgotten(sl, mn2)
  BY <1>9, <1>17 DEF World, Forgotten
<1>26. OwnQueues(sl, Q2)
  <2>1. ASSUME NEW p \in Queues, NEW i \in 1 .. Len(Q2[p]), NEW s \in Uses(Q2, p, i) \cap LiveIn(sl),
               sl[s].kind = "device"
        PROVE  sl[s].queue \subseteq {p}
    <3>1. CASE p # q
      <4>1. Q2[p] = Q[p] /\ Uses(Q2, p, i) = Uses(Q, p, i)
        BY <3>1 DEF Uses
      <4> QED
        BY <2>1, <4>1 DEF World, OwnQueues
    <3>2. CASE p = q /\ i \in 1 .. n
      BY <1>6, <2>1, <3>2 DEF World, OwnQueues
    <3>3. CASE p = q /\ \E j \in 1 .. m : i = n + j
      BY <1>7, <2>1, <3>3
    <3> QED
      BY <1>8, <3>1, <3>2, <3>3
  <2> QED
    BY <2>1 DEF OwnQueues
(* A task that uses a collection that is gone was there before. *)
<1>27. ASSUME NEW p \in Queues, NEW i \in 1 .. Len(Q2[p]), NEW s \in Uses(Q2, p, i) \ LiveIn(sl)
       PROVE  /\ i \in 1 .. Len(Q[p]) /\ i \in 0 .. Len(Q[p]) /\ s \in Uses(Q, p, i) /\ s \in Slots
              /\ Q2[p][i] = Q[p][i]
              /\ \A r \in Slots, c \in Columns :
                     r \notin o.to \/ p = q => G2[p][i][r][c] = G[p][i][r][c]
  <2>1. CASE p = q
    <3>1. i \in 1 .. n
      <4>1. ~\E j \in 1 .. m : i = n + j
        BY <1>7, <1>9, <1>27, <2>1
      <4> QED
        BY <1>8, <1>27, <2>1, <4>1
    <3>2. IsCall(Q[q][i].call)
      BY <3>1 DEF World, Tasks, IsQueued
    <3>3. s \in Uses(Q, q, i)
      BY <1>6, <2>1, <3>1
    <3>4. s \in Slots
      BY <3>2, <3>3 DEF Uses, IsCall, Touches
    <3>5. i \in 1 .. Len(Q[q]) /\ i \in 0 .. Len(Q[q]) /\ Q2[q][i] = Q[q][i]
      BY <1>1, <1>6, <3>1
    <3>6. \A r \in Slots, c \in Columns : G2[q][i][r][c] = G[q][i][r][c]
      BY <1>1, <1>6, <3>1
    <3> QED
      BY <2>1, <3>3, <3>4, <3>5, <3>6
  <2>2. CASE p # q
    <3>1. Q2[p] = Q[p] /\ Uses(Q2, p, i) = Uses(Q, p, i) /\ i \in 0 .. Len(Q[p])
      BY <2>2 DEF Uses
    <3>2. IsCall(Q[p][i].call)
      BY <3>1 DEF World, Tasks, IsQueued
    <3>3. \A r \in Slots, c \in Columns : r \notin o.to => G2[p][i][r][c] = G[p][i][r][c]
      BY <1>4, <2>2, <3>1 DEF Otherwise
    <3>4. s \in Uses(Q, p, i) /\ s \in Slots
      BY <1>27, <3>1, <3>2 DEF Uses, IsCall, Touches
    <3> QED
      BY <1>27, <2>2, <3>1, <3>3, <3>4
  <2> QED
    BY <2>1, <2>2
<1>28. ReusedLater(sl, Q2, be, G2)
  <2>1. ASSUME NEW p \in Queues, NEW k \in 1 .. Len(Q2[p]), NEW s \in Uses(Q2, p, k) \ LiveIn(sl),
               NEW r \in LiveIn(sl), be[r] = be[s]
        PROVE  /\ sl[r].kind = "device" /\ sl[r].queue = {p}
               /\ \A c \in Columns : G2[p][k][r][c] = Undefined
               /\ \A i \in 1 .. k : r \notin Uses(Q2, p, i)
    <3>1. /\ k \in 1 .. Len(Q[p]) /\ s \in Uses(Q, p, k) \ LiveIn(sl)
      BY <1>27
    <3>2. /\ sl[r].kind = "device" /\ sl[r].queue = {p}
          /\ \A c \in Columns : G[p][k][r][c] = Undefined
          /\ \A i \in 1 .. k : r \notin Uses(Q, p, i)
      BY <2>1, <3>1 DEF World, ReusedLater
    <3>3. r \notin o.to \/ p = q
      BY <1>9, <3>2
    <3>4. \A c \in Columns : G2[p][k][r][c] = Undefined
      BY <1>9, <1>27, <3>2, <3>3
    <3>5. ASSUME NEW i \in 1 .. k PROVE r \notin Uses(Q2, p, i)
      <4>1. Q2[p][i] = Q[p][i]
        <5>1. CASE p = q
          BY <3>1, <1>1, <1>6, <5>1
        <5>2. CASE p # q
          BY <5>2
        <5> QED
          BY <5>1, <5>2
      <4> QED
        BY <3>2, <4>1 DEF Uses
    <3> QED
      BY <3>2, <3>4, <3>5
  <2> QED
    BY <2>1 DEF ReusedLater
<1>29. UsedInTurn(sl, Q2, be, G2)
  <2>1. ASSUME NEW p \in Queues, NEW u \in Queues, NEW k \in 1 .. Len(Q2[p]), NEW i \in 1 .. Len(Q2[u]),
               NEW s \in Uses(Q2, p, k) \ LiveIn(sl), NEW r \in Uses(Q2, u, i) \ LiveIn(sl),
               s # r, be[s] = be[r]
        PROVE  /\ p = u
               /\ \/ k < i /\ \A c \in Columns : G2[p][k][r][c] = Undefined
                  \/ i < k /\ \A c \in Columns : G2[p][i][s][c] = Undefined
    <3>1. k \in 1 .. Len(Q[p]) /\ s \in Uses(Q, p, k) \ LiveIn(sl)
          /\ i \in 1 .. Len(Q[u]) /\ r \in Uses(Q, u, i) \ LiveIn(sl) /\ s \in Slots /\ r \in Slots
      BY <1>27
    <3>2. /\ p = u
          /\ \/ k < i /\ \A c \in Columns : G[p][k][r][c] = Undefined
             \/ i < k /\ \A c \in Columns : G[p][i][s][c] = Undefined
      BY <2>1, <3>1 DEF World, UsedInTurn
    <3>3. s \notin o.to /\ r \notin o.to
      BY <1>9
    <3>4. \A c \in Columns : G2[p][k][r][c] = G[p][k][r][c]
      BY <1>27, <3>1, <3>3
    <3>5. \A c \in Columns : G2[u][i][s][c] = G[u][i][s][c]
      BY <1>27, <3>1, <3>3
    <3> QED
      BY <3>2, <3>4, <3>5
  <2> QED
    BY <2>1 DEF UsedInTurn
<1>30. ReleasedLater(sl, Q2, be)
  <2>1. ASSUME NEW p \in Queues, NEW i \in 1 .. Len(Q2[p]), NEW s \in Uses(Q2, p, i) \ LiveIn(sl),
               ~\E r \in LiveIn(sl) : be[r] = be[s]
        PROVE  \E k \in i .. Len(Q2[p]) : Releases(Q2[p][k], be[s])
    <3>1. i \in 1 .. Len(Q[p]) /\ s \in Uses(Q, p, i) \ LiveIn(sl)
      BY <1>27
    <3>2. PICK k \in i .. Len(Q[p]) : Releases(Q[p][k], be[s])
      BY <2>1, <3>1 DEF World, ReleasedLater
    <3>3. k \in i .. Len(Q2[p]) /\ Q2[p][k] = Q[p][k]
      <4>1. CASE p = q
        <5>1. k \in 1 .. n /\ k \in i .. Len(Q2[q])
          BY <1>1, <3>1, <4>1
        <5> QED
          BY <1>6, <4>1, <5>1
      <4>2. CASE p # q
        BY <4>2
      <4> QED
        BY <4>1, <4>2
    <3> QED
      BY <3>2, <3>3
  <2> QED
    BY <2>1 DEF ReleasedLater
<1>31. World(sl, mem, Q2, mn2, be, G2)
  BY <1>12, <1>14, <1>15, <1>16, <1>18, <1>20, <1>23, <1>24, <1>25, <1>26, <1>28, <1>29, <1>30 DEF World
<1> QED
  BY <1>31

-----------------------------------------------------------------------------
(* A new collection s takes block b: what is queued to release it does not  *)
(* any more.                                                                *)
Renewed(t2, t, b) ==
    /\ t2.call = t.call /\ t2.meant = t.meant
    /\ t2.run.name = t.run.name /\ t2.run.columns = t.run.columns /\ t2.run.returns = t.run.returns
    /\ ~Releases(t, b) => t2 = t

(* The invariant survives a block being given to a collection.              *)
LEMMA BlockTaken ==
    ASSUME NEW sl, NEW mem, NEW Q, NEW mn, NEW be, NEW G, World(sl, mem, Q, mn, be, G),
           NEW s \in Slots, s \notin LiveIn(sl), \A q \in Queues : ~InUse(Q, q, s),
           NEW b \in Blocks, \A r \in LiveIn(sl) : sl[r].block # b,
           NEW sl2, LiveIn(sl2) = LiveIn(sl) \cup {s}, \A r \in LiveIn(sl) : sl2[r] = sl[r],
           sl2[s].block = b,
           \A q \in Queues : \A i \in 1 .. Len(Q[q]) :
               Releases(Q[q][i], b) => sl2[s].kind = "device" /\ sl2[s].queue = {q},
           NEW Q2, \A q \in Queues : Len(Q2[q]) = Len(Q[q]) /\
               \A i \in 1 .. Len(Q[q]) : Renewed(Q2[q][i], Q[q][i], b),
           NEW mn2, \A x \in Slots, c \in Columns : mn2[x][c] = mn[x][c]
    PROVE  \E be2, G2 : World(sl2, mem, Q2, mn2, be2, G2)
<1> DEFINE be2 == [x \in Slots |-> IF x = s THEN b ELSE be[x]]
           G2 == [q \in Queues |-> [i \in 0 .. Len(Q[q]) |-> [x \in Slots |-> [c \in Columns |->
                     IF x \in {s} THEN mn2[x][c] ELSE G[q][i][x][c]]]]]
<1>1. be2[s] = b /\ \A x \in Slots \ {s} : be2[x] = be[x]
  OBVIOUS
<1>2. ASSUME NEW q \in Queues PROVE Otherwise(Q, q, G, {s}, mn2, G2[q])
  BY DEF Otherwise
<1> HIDE DEF be2, G2
<1>3. ASSUME NEW c \in Columns PROVE mn2[s][c] = Undefined
  BY DEF World, Forgotten
<1>4. ASSUME NEW q \in Queues, NEW i \in 0 .. Len(Q[q]), NEW x \in Slots, NEW c \in Columns
      PROVE  /\ x # s => G2[q][i][x][c] = G[q][i][x][c]
             /\ G2[q][i][s][c] = Undefined
  BY <1>2, <1>3 DEF Otherwise
<1>5. ASSUME NEW q \in Queues
      PROVE  Len(Q2[q]) = Len(Q[q]) /\ Len(Q[q]) \in Nat /\ 0 \in 0 .. Len(Q[q]) /\ Len(Q[q]) \in 0 .. Len(Q[q])
  <2>1. Len(Q[q]) \in Nat
    BY DEF World, Tasks
  <2> QED
    BY <2>1
<1>6. ASSUME NEW q \in Queues, NEW i \in 1 .. Len(Q[q])
      PROVE  /\ Q2[q][i].call = Q[q][i].call /\ Q2[q][i].meant = Q[q][i].meant
             /\ Uses(Q2, q, i) = Uses(Q, q, i) /\ Writes(Q2, q, i) = Writes(Q, q, i)
             /\ IsQueued(Q[q][i], be) /\ s \notin Uses(Q, q, i) /\ Uses(Q, q, i) \subseteq Slots
             /\ i \in 0 .. Len(Q[q])
  <2>1. Q2[q][i].call = Q[q][i].call /\ Q2[q][i].meant = Q[q][i].meant
    BY DEF Renewed
  <2>2. IsQueued(Q[q][i], be)
    BY DEF World, Tasks
  <2>3. Uses(Q, q, i) \subseteq Slots
    BY <2>2 DEF IsQueued, IsCall, Uses, Touches
  <2>4. s \notin Uses(Q, q, i)
    BY DEF InUse
  <2> QED
    BY <2>1, <2>2, <2>3, <2>4 DEF Uses, Writes
<1>7. ASSUME NEW q \in Queues PROVE Follows(mem, Q, q, be, G2[q])
  <2> DEFINE H == G2[q]
             W == {s}
  <2>1. Otherwise(Q, q, G, W, mn2, H)
    BY <1>2
  <2>2. \A i \in 1 .. Len(Q[q]) : Uses(Q, q, i) \cap W = {}
    BY <1>6
  <2> HIDE DEF H, W
  <2>3. Follows(mem, Q, q, be, H)
    BY <2>1, <2>2, Untouched
  <2> QED
    BY <2>3 DEF H
<1>8. Tasks(Q2, be2)
  <2>1. ASSUME NEW q \in Queues, NEW i \in 1 .. Len(Q[q]) PROVE IsQueued(Q2[q][i], be2)
    <3> DEFINE t == Q[q][i]
               t2 == Q2[q][i]
    <3>1. IsQueued(t, be) /\ Renewed(t2, t, b) /\ s \notin Touches(t.call)
      BY <1>6 DEF Uses
    <3> HIDE DEF t, t2
    <3>2. ASSUME t.call.columns # {} PROVE Places(t.call, t2.run, be2)
      <4>1. Places(t.call, t.run, be) /\ IsCall(t.call)
        BY <3>1, <3>2 DEF IsQueued
      <4>2. t2 = t
        BY <3>1, <3>2 DEF IsQueued, Renewed, Releases
      <4>3. \A x \in Touches(t.call) : be2[x] = be[x]
        BY <1>1, <3>1, <4>1 DEF IsCall, Touches
      <4>4. {be2[x] : x \in t.call.to} = {be[x] : x \in t.call.to}
        BY <4>3 DEF Touches
      <4>5. \A j \in DOMAIN t.call.from : be2[t.call.from[j]] = be[t.call.from[j]]
        BY <4>3 DEF Touches
      <4> QED
        BY <4>1, <4>2, <4>4, <4>5 DEF Places
    <3>3. IsQueued(t2, be2)
      BY <3>1, <3>2 DEF IsQueued, Renewed
    <3> QED
      BY <3>3 DEF t2
  <2> QED
    BY <1>5, <2>1 DEF Tasks
<1>9. Chain(Q2, G2)
  <2>1. ASSUME NEW q \in Queues, NEW i \in 1 .. Len(Q2[q])
        PROVE  Steps(Q2[q][i].call, G2[q][i - 1], G2[q][i])
    <3>1. i \in 1 .. Len(Q[q])
      BY <1>5
    <3> QED
      BY <1>6, <1>7, <3>1 DEF Follows
  <2> QED
    BY <2>1 DEF Chain
<1>10. Answers(Q2, G2)
  <2>1. ASSUME NEW q \in Queues, NEW i \in 1 .. Len(Q2[q])
        PROVE  Q2[q][i].meant = Returned(Q2[q][i].call, G2[q][i - 1])
    <3>1. i \in 1 .. Len(Q[q])
      BY <1>5
    <3> QED
      BY <1>6, <1>7, <3>1 DEF Follows
  <2> QED
    BY <2>1 DEF Answers
<1>11. Separate(Q2)
  <2>1. ASSUME NEW q \in Queues, NEW r \in Queues, q # r, NEW i \in 1 .. Len(Q[q]), NEW k \in 1 .. Len(Q[r])
        PROVE  Writes(Q2, q, i) \cap Uses(Q2, r, k) = {}
    BY <1>6, <2>1 DEF World, Separate
  <2> QED
    BY <1>5, <2>1 DEF Separate
<1>12. Ends(sl2, Q2, mn2, G2)
  <2>1. ASSUME NEW q \in Queues, NEW x \in LiveIn(sl2), NEW c \in Columns
        PROVE  G2[q][Len(Q2[q])][x][c] = mn2[x][c]
    <3>1. Len(Q2[q]) = Len(Q[q]) /\ Len(Q[q]) \in 0 .. Len(Q[q])
      BY <1>5
    <3>2. x \in Slots
      BY DEF LiveIn
    <3>3. CASE x = s
      BY <1>3, <1>4, <3>1, <3>3
    <3>4. CASE x # s
      <4>1. x \in LiveIn(sl)
        BY <3>4
      <4>2. G[q][Len(Q[q])][x][c] = mn[x][c]
        BY <4>1 DEF World, Ends
      <4> QED
        BY <1>4, <3>1, <3>2, <3>4, <4>2
    <3> QED
      BY <3>3, <3>4
  <2> QED
    BY <2>1 DEF Ends
<1>13. Keeps(Q2, G2)
  <2>1. ASSUME NEW q \in Queues, NEW i \in 0 .. Len(Q2[q]), NEW x \in Slots,
               \A k \in i + 1 .. Len(Q2[q]) : x \notin Writes(Q2, q, k), NEW c \in Columns
        PROVE  G2[q][i][x][c] = G2[q][Len(Q2[q])][x][c]
    <3>1. Len(Q2[q]) = Len(Q[q]) /\ Len(Q[q]) \in Nat /\ i \in 0 .. Len(Q[q])
      BY <1>5
    <3>2. \A k \in i + 1 .. Len(Q[q]) : x \notin Writes(Q, q, k)
      <4>1. ASSUME NEW k \in i + 1 .. Len(Q[q]) PROVE x \notin Writes(Q, q, k)
        <5>1. k \in 1 .. Len(Q[q]) /\ k \in i + 1 .. Len(Q2[q])
          BY <3>1
        <5> QED
          BY <1>6, <2>1, <5>1
      <4> QED
        BY <4>1
    <3>3. G2[q][i][x][c] = G2[q][Len(Q[q])][x][c]
      BY <1>7, <3>1, <3>2 DEF Follows
    <3> QED
      BY <3>1, <3>3
  <2> QED
    BY <2>1 DEF Keeps
<1>14. ASSUME NEW q \in Queues, NEW x, InUse(Q2, q, x) PROVE InUse(Q, q, x) /\ x # s
  <2>1. PICK i \in 1 .. Len(Q2[q]) : x \in Uses(Q2, q, i)
    BY <1>14 DEF InUse
  <2>2. i \in 1 .. Len(Q[q])
    BY <1>5
  <2> QED
    BY <1>6, <2>1, <2>2 DEF InUse
<1>15. Starts(mem, Q2, be2, G2)
  <2>1. ASSUME NEW q \in Queues, NEW x \in Slots, InUse(Q2, q, x), NEW c \in Columns
        PROVE  Below(G2[q][0][x][c], mem[be2[x]][c])
    <3>1. InUse(Q, q, x) /\ be2[x] = be[x]
      BY <1>1, <1>14, <2>1
    <3> QED
      BY <1>7, <3>1 DEF Follows
  <2> QED
    BY <2>1 DEF Starts
<1>16. Holds(sl2, mem, Q2, mn2, be2)
  <2>1. ASSUME NEW x \in LiveIn(sl2), NEW c \in Columns,
               \A q \in Queues : \A i \in 1 .. Len(Q2[q]) : x \notin Writes(Q2, q, i)
        PROVE  Below(mn2[x][c], mem[be2[x]][c])
    <3>1. CASE x = s
      BY <1>3, <3>1 DEF Below
    <3>2. CASE x # s
      <4>1. x \in LiveIn(sl) /\ x \in Slots /\ be2[x] = be[x] /\ mn2[x][c] = mn[x][c]
        BY <1>1, <3>2 DEF LiveIn
      <4>2. \A q \in Queues : \A i \in 1 .. Len(Q[q]) : x \notin Writes(Q, q, i)
        BY <1>5, <1>6, <2>1
      <4>3. Below(mn[x][c], mem[be[x]][c])
        BY <4>1, <4>2 DEF World, Holds
      <4> QED
        BY <4>1, <4>3
    <3> QED
      BY <3>1, <3>2
  <2> QED
    BY <2>1 DEF Holds
<1>17. Placed(sl2, be2)
  <2>1. \A x \in Slots : be2[x] \in Blocks
    BY <1>1 DEF World, Placed
  <2>2. ASSUME NEW x \in LiveIn(sl2) PROVE be2[x] = sl2[x].block
    <3>1. CASE x = s
      BY <1>1, <3>1
    <3>2. CASE x # s
      <4>1. x \in LiveIn(sl) /\ x \in Slots
        BY <3>2 DEF LiveIn
      <4> QED
        BY <1>1, <3>2, <4>1 DEF World, Placed
    <3> QED
      BY <3>1, <3>2
  <2>3. \A x, r \in LiveIn(sl) : x # r => sl[x].block # sl[r].block
    BY DEF World, Placed
  <2>4. \A x, r \in LiveIn(sl2) : x # r => be2[x] # be2[r]
    BY <2>2, <2>3
  <2> QED
    BY <2>1, <2>2, <2>4 DEF Placed
<1>18. Forgotten(sl2, mn2)
  BY DEF World, Forgotten
<1>19. OwnQueues(sl2, Q2)
  <2>1. ASSUME NEW q \in Queues, NEW i \in 1 .. Len(Q[q]), NEW x \in Uses(Q2, q, i) \cap LiveIn(sl2),
               sl2[x].kind = "device"
        PROVE  sl2[x].queue \subseteq {q}
    <3>1. x \in Uses(Q, q, i) /\ x # s
      BY <1>6
    <3>2. x \in LiveIn(sl) /\ sl2[x] = sl[x]
      BY <3>1
    <3> QED
      BY <2>1, <3>1, <3>2 DEF World, OwnQueues
  <2> QED
    BY <1>5, <2>1 DEF OwnQueues
(* A task that uses a collection that is gone. *)
<1>20. ASSUME NEW q \in Queues, NEW i \in 1 .. Len(Q2[q]), NEW x \in Uses(Q2, q, i) \ LiveIn(sl2)
       PROVE  /\ i \in 1 .. Len(Q[q]) /\ i \in 0 .. Len(Q[q])
              /\ x \in Uses(Q, q, i) \ LiveIn(sl) /\ x # s /\ x \in Slots /\ be2[x] = be[x]
  <2>1. i \in 1 .. Len(Q[q])
    BY <1>5
  <2>2. x \in Uses(Q, q, i) /\ x # s /\ x \in Slots /\ i \in 0 .. Len(Q[q])
    BY <1>6, <2>1
  <2> QED
    BY <1>1, <2>1, <2>2
<1>21. ReusedLater(sl2, Q2, be2, G2)
  <2>1. ASSUME NEW q \in Queues, NEW k \in 1 .. Len(Q2[q]), NEW x \in Uses(Q2, q, k) \ LiveIn(sl2),
               NEW r \in LiveIn(sl2), be2[r] = be2[x]
        PROVE  /\ sl2[r].kind = "device" /\ sl2[r].queue = {q}
               /\ \A c \in Columns : G2[q][k][r][c] = Undefined
               /\ \A i \in 1 .. k : r \notin Uses(Q2, q, i)
    <3>1. /\ k \in 1 .. Len(Q[q]) /\ k \in 0 .. Len(Q[q])
          /\ x \in Uses(Q, q, k) \ LiveIn(sl) /\ x # s /\ x \in Slots /\ be2[x] = be[x]
      BY <1>20
    <3>2. \A i \in 1 .. k : i \in 1 .. Len(Q[q]) /\ Uses(Q2, q, i) = Uses(Q, q, i) /\ s \notin Uses(Q, q, i)
      <4>1. ASSUME NEW i \in 1 .. k PROVE i \in 1 .. Len(Q[q])
        BY <1>5, <3>1
      <4> QED
        BY <1>6, <4>1
    <3>3. CASE r = s
      <4>1. be[x] = b
        BY <1>1, <2>1, <3>1, <3>3
      <4>2. ~\E y \in LiveIn(sl) : be[y] = be[x]
        BY <4>1 DEF World, Placed
      <4>3. PICK i \in k .. Len(Q[q]) : Releases(Q[q][i], be[x])
        BY <3>1, <4>2 DEF World, ReleasedLater
      <4>4. i \in 1 .. Len(Q[q])
        BY <1>5, <3>1
      <4>5. sl2[s].kind = "device" /\ sl2[s].queue = {q}
        BY <4>1, <4>3, <4>4
      <4> QED
        BY <1>4, <3>1, <3>2, <3>3, <4>5
    <3>4. CASE r # s
      <4>1. r \in LiveIn(sl) /\ r \in Slots /\ be2[r] = be[r] /\ sl2[r] = sl[r]
        BY <1>1, <3>4 DEF LiveIn
      <4>2. /\ sl[r].kind = "device" /\ sl[r].queue = {q}
            /\ \A c \in Columns : G[q][k][r][c] = Undefined
            /\ \A i \in 1 .. k : r \notin Uses(Q, q, i)
        BY <2>1, <3>1, <4>1 DEF World, ReusedLater
      <4>3. \A c \in Columns : G2[q][k][r][c] = Undefined
        BY <1>4, <3>1, <3>4, <4>1, <4>2
      <4> QED
        BY <3>2, <4>1, <4>2, <4>3
    <3> QED
      BY <3>3, <3>4
  <2> QED
    BY <2>1 DEF ReusedLater
<1>22. UsedInTurn(sl2, Q2, be2, G2)
  <2>1. ASSUME NEW q \in Queues, NEW p \in Queues, NEW k \in 1 .. Len(Q2[q]), NEW i \in 1 .. Len(Q2[p]),
               NEW x \in Uses(Q2, q, k) \ LiveIn(sl2), NEW r \in Uses(Q2, p, i) \ LiveIn(sl2),
               x # r, be2[x] = be2[r]
        PROVE  /\ q = p
               /\ \/ k < i /\ \A c \in Columns : G2[q][k][r][c] = Undefined
                  \/ i < k /\ \A c \in Columns : G2[q][i][x][c] = Undefined
    <3>1. /\ k \in 1 .. Len(Q[q]) /\ k \in 0 .. Len(Q[q])
          /\ x \in Uses(Q, q, k) \ LiveIn(sl) /\ x # s /\ x \in Slots /\ be2[x] = be[x]
      BY <1>20
    <3>2. /\ i \in 1 .. Len(Q[p]) /\ i \in 0 .. Len(Q[p])
          /\ r \in Uses(Q, p, i) \ LiveIn(sl) /\ r # s /\ r \in Slots /\ be2[r] = be[r]
      BY <1>20
    <3>3. /\ q = p
          /\ \/ k < i /\ \A c \in Columns : G[q][k][r][c] = Undefined
             \/ i < k /\ \A c \in Columns : G[q][i][x][c] = Undefined
      <4>1. be[x] = be[r]
        BY <2>1, <3>1, <3>2
      <4>2. UsedInTurn(sl, Q, be, G)
        BY DEF World
      <4> QED
        BY <2>1, <3>1, <3>2, <4>1, <4>2 DEF UsedInTurn
    <3> QED
      BY <1>4, <3>1, <3>2, <3>3
  <2> QED
    BY <2>1 DEF UsedInTurn
<1>23. ReleasedLater(sl2, Q2, be2)
  <2>1. ASSUME NEW q \in Queues, NEW i \in 1 .. Len(Q2[q]), NEW x \in Uses(Q2, q, i) \ LiveIn(sl2),
               ~\E r \in LiveIn(sl2) : be2[r] = be2[x]
        PROVE  \E k \in i .. Len(Q2[q]) : Releases(Q2[q][k], be2[x])
    <3>1. /\ i \in 1 .. Len(Q[q]) /\ x \in Uses(Q, q, i) \ LiveIn(sl) /\ be2[x] = be[x]
      BY <1>20
    <3>2. be[x] # b
      BY <1>1, <2>1, <3>1
    <3>3. ~\E r \in LiveIn(sl) : be[r] = be[x]
      <4>1. \A r \in LiveIn(sl) : be2[r] = be[r] /\ r \in LiveIn(sl2)
        BY <1>1 DEF LiveIn
      <4> QED
        BY <2>1, <3>1, <4>1
    <3>4. PICK k \in i .. Len(Q[q]) : Releases(Q[q][k], be[x])
      BY <3>1, <3>3 DEF World, ReleasedLater
    <3>5. k \in 1 .. Len(Q[q]) /\ k \in i .. Len(Q2[q])
      BY <1>5, <3>1
    <3>6. ~Releases(Q[q][k], b)
      BY <3>2, <3>4 DEF Releases
    <3>7. Q2[q][k] = Q[q][k]
      BY <3>5, <3>6 DEF Renewed
    <3> QED
      BY <3>1, <3>4, <3>5, <3>7
  <2> QED
    BY <2>1 DEF ReleasedLater
<1>24. World(sl2, mem, Q2, mn2, be2, G2)
  BY <1>8, <1>9, <1>10, <1>11, <1>12, <1>13, <1>15, <1>16, <1>17, <1>18, <1>19, <1>21, <1>22, <1>23 DEF World
<1> QED
  BY <1>24

-----------------------------------------------------------------------------
(* A collection s goes; the tasks that use it are on one queue, which ends  *)
(* with the release of its block.                                           *)
LEMMA Gone ==
    ASSUME NEW sl, NEW mem, NEW Q, NEW mn, NEW be, NEW G, World(sl, mem, Q, mn, be, G),
           NEW s \in LiveIn(sl),
           NEW sl2, LiveIn(sl2) = LiveIn(sl) \ {s}, \A r \in LiveIn(sl2) : sl2[r] = sl[r],
           \A q \in Queues : InUse(Q, q, s) => sl[s].queue = {q},
           \A q \in sl[s].queue \cap Queues : Len(Q[q]) > 0 /\ Releases(Q[q][Len(Q[q])], be[s]),
           NEW mn2, \A c \in Columns : mn2[s][c] = Undefined /\ \A x \in Slots \ {s} : mn2[x][c] = mn[x][c]
    PROVE  \E G2 : World(sl2, mem, Q, mn2, be, G2)
<1>1. s \in Slots /\ LiveIn(sl2) \subseteq LiveIn(sl) /\ LiveIn(sl) \subseteq Slots
  BY DEF LiveIn
<1>2. ASSUME NEW q \in Queues PROVE Len(Q[q]) \in Nat
  BY DEF World, Tasks
<1>3. Tasks(Q, be) /\ Chain(Q, G) /\ Answers(Q, G) /\ Separate(Q) /\ Keeps(Q, G) /\ Starts(mem, Q, be, G)
  BY DEF World
<1>4. Ends(sl2, Q, mn2, G)
  <2>1. ASSUME NEW q \in Queues, NEW x \in LiveIn(sl2), NEW c \in Columns
        PROVE  G[q][Len(Q[q])][x][c] = mn2[x][c]
    <3>1. x \in LiveIn(sl) /\ x \in Slots \ {s} /\ mn2[x][c] = mn[x][c]
      BY <1>1
    <3> QED
      BY <3>1 DEF World, Ends
  <2> QED
    BY <2>1 DEF Ends
<1>5. Holds(sl2, mem, Q, mn2, be)
  <2>1. ASSUME NEW x \in LiveIn(sl2), NEW c \in Columns,
               \A q \in Queues : \A i \in 1 .. Len(Q[q]) : x \notin Writes(Q, q, i)
        PROVE  Below(mn2[x][c], mem[be[x]][c])
    <3>1. x \in LiveIn(sl) /\ x \in Slots \ {s} /\ mn2[x][c] = mn[x][c]
      BY <1>1
    <3> QED
      BY <2>1, <3>1 DEF World, Holds
  <2> QED
    BY <2>1 DEF Holds
<1>6. Placed(sl2, be)
  BY <1>1 DEF World, Placed
<1>7. Forgotten(sl2, mn2)
  BY <1>1 DEF World, Forgotten
<1>8. OwnQueues(sl2, Q)
  <2>1. ASSUME NEW q \in Queues, NEW i \in 1 .. Len(Q[q]), NEW x \in Uses(Q, q, i) \cap LiveIn(sl2),
               sl2[x].kind = "device"
        PROVE  sl2[x].queue \subseteq {q}
    BY <1>1, <2>1 DEF World, OwnQueues
  <2> QED
    BY <2>1 DEF OwnQueues
(* Who had the block of s before. *)
<1>9. ASSUME NEW q \in Queues, NEW i \in 1 .. Len(Q[q]), NEW x \in Uses(Q, q, i) \ LiveIn(sl), be[x] = be[s]
      PROVE  /\ sl[s].queue = {q} /\ \A c \in Columns : G[q][i][s][c] = Undefined
             /\ \A j \in 1 .. i : s \notin Uses(Q, q, j)
  BY <1>9 DEF World, ReusedLater
<1>10. ReusedLater(sl2, Q, be, G)
  <2>1. ASSUME NEW q \in Queues, NEW k \in 1 .. Len(Q[q]), NEW x \in Uses(Q, q, k) \ LiveIn(sl2),
               NEW r \in LiveIn(sl2), be[r] = be[x]
        PROVE  /\ sl2[r].kind = "device" /\ sl2[r].queue = {q}
               /\ \A c \in Columns : G[q][k][r][c] = Undefined
               /\ \A i \in 1 .. k : r \notin Uses(Q, q, i)
    <3>1. x # s
      BY <1>1, <2>1 DEF World, Placed
    <3>2. x \in Uses(Q, q, k) \ LiveIn(sl) /\ r \in LiveIn(sl) /\ sl2[r] = sl[r]
      BY <1>1, <3>1
    <3> QED
      BY <2>1, <3>2 DEF World, ReusedLater
  <2> QED
    BY <2>1 DEF ReusedLater
<1>11. UsedInTurn(sl2, Q, be, G)
  <2>1. ASSUME NEW q \in Queues, NEW p \in Queues, NEW k \in 1 .. Len(Q[q]), NEW i \in 1 .. Len(Q[p]),
               NEW x \in Uses(Q, q, k) \ LiveIn(sl2), NEW r \in Uses(Q, p, i) \ LiveIn(sl2),
               x # r, be[x] = be[r]
        PROVE  /\ q = p
               /\ \/ k < i /\ \A c \in Columns : G[q][k][r][c] = Undefined
                  \/ i < k /\ \A c \in Columns : G[q][i][x][c] = Undefined
    <3>1. CASE x # s /\ r # s
      <4>1. x \in Uses(Q, q, k) \ LiveIn(sl) /\ r \in Uses(Q, p, i) \ LiveIn(sl)
        BY <3>1
      <4> QED
        BY <2>1, <4>1 DEF World, UsedInTurn
    <3>2. CASE x = s
      <4>1. r \in Uses(Q, p, i) \ LiveIn(sl)
        BY <2>1, <3>2
      <4>2. /\ sl[s].queue = {p} /\ \A c \in Columns : G[p][i][s][c] = Undefined
            /\ \A j \in 1 .. i : s \notin Uses(Q, p, j)
        BY <1>9, <2>1, <3>2, <4>1
      <4>3. sl[s].queue = {q}
        BY <3>2 DEF InUse
      <4>4. p = q
        BY <4>2, <4>3
      <4>5. i < k
        <5>1. ~(k \in 1 .. i)
          BY <3>2, <4>2, <4>4
        <5> QED
          BY <5>1
      <4> QED
        BY <3>2, <4>2, <4>4, <4>5
    <3>3. CASE r = s
      <4>1. x \in Uses(Q, q, k) \ LiveIn(sl)
        BY <2>1, <3>3
      <4>2. /\ sl[s].queue = {q} /\ \A c \in Columns : G[q][k][s][c] = Undefined
            /\ \A j \in 1 .. k : s \notin Uses(Q, q, j)
        BY <1>9, <2>1, <3>3, <4>1
      <4>3. sl[s].queue = {p}
        BY <3>3 DEF InUse
      <4>4. p = q
        BY <4>2, <4>3
      <4>5. k < i
        <5>1. ~(i \in 1 .. k)
          BY <3>3, <4>2, <4>4
        <5> QED
          BY <5>1
      <4> QED
        BY <3>3, <4>2, <4>4, <4>5
    <3> QED
      BY <3>1, <3>2, <3>3
  <2> QED
    BY <2>1 DEF UsedInTurn
<1>12. ReleasedLater(sl2, Q, be)
  <2>1. ASSUME NEW q \in Queues, NEW i \in 1 .. Len(Q[q]), NEW x \in Uses(Q, q, i) \ LiveIn(sl2),
               ~\E r \in LiveIn(sl2) : be[r] = be[x]
        PROVE  \E k \in i .. Len(Q[q]) : Releases(Q[q][k], be[x])
    <3>1. CASE be[x] = be[s]
      <4>1. sl[s].queue = {q}
        <5>1. CASE x = s
          BY <5>1 DEF InUse
        <5>2. CASE x # s
          BY <1>9, <3>1, <5>2
        <5> QED
          BY <5>1, <5>2
      <4>2. Len(Q[q]) \in i .. Len(Q[q]) /\ Releases(Q[q][Len(Q[q])], be[s])
        BY <1>2, <4>1
      <4> QED
        BY <3>1, <4>2
    <3>2. CASE be[x] # be[s]
      <4>1. x \in Uses(Q, q, i) \ LiveIn(sl) /\ ~\E r \in LiveIn(sl) : be[r] = be[x]
        BY <2>1, <3>2
      <4> QED
        BY <4>1 DEF World, ReleasedLater
    <3> QED
      BY <3>1, <3>2
  <2> QED
    BY <2>1 DEF ReleasedLater
<1>13. World(sl2, mem, Q, mn2, be, G)
  BY <1>3, <1>4, <1>5, <1>6, <1>7, <1>8, <1>10, <1>11, <1>12 DEF World
<1> QED
  BY <1>13
=============================================================================
