---------------------------- MODULE ActorProofs ----------------------------
(* Proofs about Actor: every item put into a queue is run once and in order, *)
(* and stopWhenEmpty drains, for any number of actors, tasks and capacities. *)
EXTENDS Actor, ListLemmas

----------------------------------------------------------------------------
(* The inductive invariant.  That nothing is held twice needs that a put is *)
(* over once its item is held, and that a callback is put after its task,   *)
(* which is run once; that a stopping actor is drained needs that what was  *)
(* queued is held, so that an empty queue and an idle runner mean all run.  *)

EarlyRun(a) == \A i \in early : ActorOf(i) = a => Contains(executed[a], i)

BusyWithItem ==
  \A a \in Actors :
    /\ pc[a] \in {"run", "callback"} => current[a] \in Items
    /\ PuttingCallback(a) => ~current[a].callback /\ target[current[a].task] # NULL

HeldOnce ==
  \A a \in Actors :
    /\ IsInjective(HeldBy(a))
    /\ \A i \in Items : Contains(HeldBy(a), i) => ActorOf(i) = a /\ putting[i] = "accepted"

HeldInOrder ==
  \A a \in Actors :
    /\ \A i \in Items : Contains(enqueued[a], i) => Contains(HeldBy(a), i)
    /\ \A i, j \in Items : Before(enqueued[a], i, j) => Before(HeldBy(a), i, j)

EarlyEnqueued == \A i \in early : Contains(enqueued[ActorOf(i)], i)

CallbackAfterTask ==
  \A t \in Callbacks :
    putting[CallbackItem(t)] # "none" => Contains(executed[home[t]], TaskItem(t))

StoppedDrained ==
  \A a \in Actors :
    /\ pc[a] = "quit" => stopWhenEmpty[a] /\ EarlyRun(a)
    /\ a \notin stopped /\ ~running[a] => pc[a] = "exit" /\ stopWhenEmpty[a] /\ EarlyRun(a)

ActorInv ==
  /\ TypeOK
  /\ BusyWithItem
  /\ HeldOnce
  /\ HeldInOrder
  /\ EarlyEnqueued
  /\ CallbackAfterTask
  /\ StoppedDrained

----------------------------------------------------------------------------
(* Items and orders.                                                       *)

\* An item belongs to an actor; it is its task or its task's callback.
LEMMA ItemsAre ==
  /\ \A i \in Items : /\ ActorOf(i) \in Actors /\ i.task \in Tasks /\ i.callback \in BOOLEAN
                      /\ ~i.callback => i = TaskItem(i.task)
                      /\ i.callback => i.task \in Callbacks /\ i = CallbackItem(i.task)
  /\ \A t \in Callbacks : /\ CallbackItem(t) \in Items /\ TaskItem(t) \in Items
                          /\ CallbackItem(t).callback /\ CallbackItem(t).task = t
                          /\ ~TaskItem(t).callback /\ ActorOf(TaskItem(t)) = home[t]
  /\ NULL \notin Items
<1>1. ASSUME NEW i \in Items, ~i.callback
      PROVE  i.task \in Tasks /\ i = TaskItem(i.task) /\ ActorOf(i) \in Actors
  BY <1>1, ActorAssumption DEF Items, TaskItem, ActorOf
<1>2. ASSUME NEW i \in Items, i.callback
      PROVE  /\ i.task \in Callbacks /\ i.task \in Tasks
             /\ i = CallbackItem(i.task) /\ ActorOf(i) \in Actors
  BY <1>2, ActorAssumption DEF Items, CallbackItem, ActorOf, Callbacks
<1>3. \A i \in Items : i.callback \in BOOLEAN
  BY DEF Items
<1>4. \A t \in Callbacks : /\ CallbackItem(t) \in Items /\ TaskItem(t) \in Items
                           /\ CallbackItem(t).callback /\ CallbackItem(t).task = t
                           /\ ~TaskItem(t).callback /\ ActorOf(TaskItem(t)) = home[t]
  BY DEF Items, Callbacks, TaskItem, CallbackItem, ActorOf
<1> QED BY <1>1, <1>2, <1>3, <1>4, ActorAssumption

\* What appending adds to an order.
LEMMA AppendBefore ==
  ASSUME NEW S, NEW s \in Seq(S), NEW n \in S
  PROVE  \A x, y : Before(Append(s, n), x, y) <=> Before(s, x, y) \/ (Contains(s, x) /\ y = n)
<1> DEFINE u == Append(s, n)
<1>1. /\ \A i \in 1..Len(s) : u[i] = s[i]
      /\ u[Len(s) + 1] = n /\ Len(s) \in Nat
      /\ DOMAIN s = 1..Len(s) /\ DOMAIN u = 1..(Len(s) + 1)
  BY AppendProperties, LenProperties
<1> HIDE DEF u
<1>2. ASSUME NEW x, NEW y, Before(u, x, y) PROVE Before(s, x, y) \/ (Contains(s, x) /\ y = n)
  <2>1. PICK p \in 1..(Len(s) + 1), q \in 1..(Len(s) + 1) : p < q /\ u[p] = x /\ u[q] = y
    BY <1>1, <1>2 DEF Before
  <2>2. p \in 1..Len(s) /\ s[p] = x
    BY <2>1, <1>1
  <2>3. CASE q \in 1..Len(s)
    <3>1. s[q] = y
      BY <2>1, <2>3, <1>1
    <3> QED BY <3>1, <2>1, <2>2, <2>3, <1>1 DEF Before
  <2>4. CASE q = Len(s) + 1
    BY <2>1, <2>2, <2>4, <1>1 DEF Contains
  <2> QED BY <2>3, <2>4, <1>1
<1>3. ASSUME NEW x, NEW y, Before(s, x, y) PROVE Before(u, x, y)
  <2>1. PICK p \in 1..Len(s), q \in 1..Len(s) : p < q /\ s[p] = x /\ s[q] = y
    BY <1>1, <1>3 DEF Before
  <2>2. p \in 1..(Len(s) + 1) /\ q \in 1..(Len(s) + 1) /\ u[p] = x /\ u[q] = y
    BY <2>1, <1>1
  <2> QED BY <2>1, <2>2, <1>1 DEF Before
<1>4. ASSUME NEW x, Contains(s, x) PROVE Before(u, x, n)
  <2>1. PICK p \in 1..Len(s) : s[p] = x
    BY <1>4 DEF Contains
  <2>2. /\ p \in 1..(Len(s) + 1) /\ Len(s) + 1 \in 1..(Len(s) + 1) /\ p < Len(s) + 1
        /\ u[p] = x /\ u[Len(s) + 1] = n
    BY <2>1, <1>1
  <2> QED BY <2>2, <1>1 DEF Before
<1> QED BY <1>2, <1>3, <1>4 DEF u

\* The order in two lists joined.
LEMMA ConcatBefore ==
  ASSUME NEW S, NEW s \in Seq(S), NEW t \in Seq(S)
  PROVE  \A x, y : Before(s \o t, x, y) <=> \/ Before(s, x, y) \/ Before(t, x, y)
                                            \/ Contains(s, x) /\ Contains(t, y)
<1> DEFINE u == s \o t  m == Len(s)  n == Len(t)
<1>1. /\ m \in Nat /\ n \in Nat /\ Len(u) = m + n
      /\ \A i \in 1..(m + n) : u[i] = IF i <= m THEN s[i] ELSE t[i - m]
      /\ DOMAIN s = 1..m /\ DOMAIN t = 1..n /\ DOMAIN u = 1..(m + n)
  BY ConcatProperties, LenProperties
<1>2. /\ \A x : Contains(s, x) <=> \E i \in 1..m : s[i] = x
      /\ \A x : Contains(t, x) <=> \E i \in 1..n : t[i] = x
  BY DEF Contains
<1> HIDE DEF u, m, n
<1>3. /\ \A i \in 1..m : i \in 1..(m + n) /\ u[i] = s[i]
      /\ \A i \in 1..n : i + m \in 1..(m + n) /\ u[i + m] = t[i]
  <2>1. ASSUME NEW i \in 1..n PROVE i + m \in 1..(m + n) /\ u[i + m] = t[i]
    <3>1. i + m \in 1..(m + n) /\ ~(i + m <= m) /\ (i + m) - m = i
      BY <1>1
    <3> QED BY <3>1, <1>1
  <2> QED BY <2>1, <1>1
<1>4. ASSUME NEW x, NEW y, Before(u, x, y)
      PROVE  Before(s, x, y) \/ Before(t, x, y) \/ (Contains(s, x) /\ Contains(t, y))
  <2>1. PICK p \in 1..(m + n), q \in 1..(m + n) : p < q /\ u[p] = x /\ u[q] = y
    BY <1>1, <1>4 DEF Before
  <2>2. CASE q <= m
    <3>1. p \in 1..m /\ q \in 1..m /\ s[p] = x /\ s[q] = y
      BY <2>1, <2>2, <1>1
    <3> QED BY <3>1, <2>1, <1>1 DEF Before
  <2>3. CASE ~(p <= m)
    <3>1. /\ p - m \in 1..n /\ q - m \in 1..n /\ p - m < q - m
          /\ t[p - m] = x /\ t[q - m] = y
      BY <2>1, <2>3, <1>1
    <3> QED BY <3>1, <1>1 DEF Before
  <2>4. CASE p <= m /\ ~(q <= m)
    <3>1. p \in 1..m /\ q - m \in 1..n /\ s[p] = x /\ t[q - m] = y
      BY <2>1, <2>4, <1>1
    <3> QED BY <3>1, <1>2
  <2> QED BY <2>1, <2>2, <2>3, <2>4
<1>5. ASSUME NEW x, NEW y, Before(s, x, y) PROVE Before(u, x, y)
  <2>1. PICK p \in 1..m, q \in 1..m : p < q /\ s[p] = x /\ s[q] = y
    BY <1>1, <1>5 DEF Before
  <2> QED BY <2>1, <1>1, <1>3 DEF Before
<1>6. ASSUME NEW x, NEW y, Before(t, x, y) PROVE Before(u, x, y)
  <2>1. PICK p \in 1..n, q \in 1..n : p < q /\ t[p] = x /\ t[q] = y
    BY <1>1, <1>6 DEF Before
  <2>2. p + m < q + m
    BY <2>1, <1>1
  <2> QED BY <2>1, <2>2, <1>1, <1>3 DEF Before
<1>7. ASSUME NEW x, NEW y, Contains(s, x), Contains(t, y) PROVE Before(u, x, y)
  <2>1. PICK p \in 1..m, q \in 1..n : s[p] = x /\ t[q] = y
    BY <1>2, <1>7
  <2>2. p < q + m
    BY <2>1, <1>1
  <2> QED BY <2>1, <2>2, <1>1, <1>3 DEF Before
<1> QED BY <1>4, <1>5, <1>6, <1>7 DEF u

\* A new element between two lists disturbs no order.
LEMMA InsertIs ==
  ASSUME NEW S, NEW s \in Seq(S), NEW t \in Seq(S), NEW n \in S,
         IsInjective(s \o t), ~Contains(s \o t, n)
  PROVE  /\ IsInjective(Append(s, n) \o t)
         /\ \A x : Contains(Append(s, n) \o t, x) <=> Contains(s \o t, x) \/ x = n
         /\ \A x, y : Before(s \o t, x, y) => Before(Append(s, n) \o t, x, y)
<1>1. /\ IsInjective(s) /\ IsInjective(t) /\ \A x : ~(Contains(s, x) /\ Contains(t, x))
      /\ \A x : Contains(s \o t, x) <=> Contains(s, x) \/ Contains(t, x)
  BY ConcatInjective, ConcatContains
<1>2. /\ Append(s, n) \in Seq(S) /\ IsInjective(Append(s, n))
      /\ \A x : Contains(Append(s, n), x) <=> Contains(s, x) \/ x = n
  BY <1>1, AppendIs
<1>3. \A x : Contains(Append(s, n) \o t, x) <=> Contains(Append(s, n), x) \/ Contains(t, x)
  BY <1>2, ConcatContains
<1>4. \A x : ~(Contains(Append(s, n), x) /\ Contains(t, x))
  BY <1>1, <1>2
<1>5. IsInjective(Append(s, n) \o t)
  BY <1>1, <1>2, <1>4, ConcatInjective
<1>6. \A x, y : Before(s \o t, x, y) => Before(Append(s, n) \o t, x, y)
  <2>1. \A x, y : Before(Append(s, n), x, y) <=> Before(s, x, y) \/ (Contains(s, x) /\ y = n)
    BY AppendBefore
  <2>2. \A x, y : Before(s \o t, x, y) <=> \/ Before(s, x, y) \/ Before(t, x, y)
                                           \/ Contains(s, x) /\ Contains(t, y)
    BY ConcatBefore
  <2>3. \A x, y : Before(Append(s, n) \o t, x, y) <=>
                    \/ Before(Append(s, n), x, y) \/ Before(t, x, y)
                    \/ Contains(Append(s, n), x) /\ Contains(t, y)
    BY <1>2, ConcatBefore
  <2> QED BY <2>1, <2>2, <2>3, <1>2
<1> QED BY <1>1, <1>2, <1>3, <1>5, <1>6

----------------------------------------------------------------------------
(* The steps.                                                              *)

\* What an actor holds: what it has run, what it is about to run and its queue.
LEMMA HeldIs ==
  ASSUME TypeOK, BusyWithItem, NEW a \in Actors
  PROVE  /\ executed[a] \in Seq(Items) /\ taskQueue[a] \in Seq(Items) /\ Taken(a) \in Seq(Items)
         /\ executed[a] \o Taken(a) \in Seq(Items)
         /\ HeldBy(a) \in Seq(Items)
         /\ pc[a] # "run" => HeldBy(a) = executed[a] \o taskQueue[a]
         /\ pc[a] = "run" => HeldBy(a) = Append(executed[a], current[a]) \o taskQueue[a]
         /\ \A i : Contains(HeldBy(a), i) <=> \/ Contains(executed[a], i)
                                              \/ pc[a] = "run" /\ i = current[a]
                                              \/ Contains(taskQueue[a], i)
<1>1. executed[a] \in Seq(Items) /\ taskQueue[a] \in Seq(Items)
  BY DEF TypeOK
<1>2. CASE pc[a] = "run"
  <2>1. Taken(a) = <<current[a]>> /\ current[a] \in Items
    BY <1>2 DEF Taken, BusyWithItem
  <2>2. Taken(a) \in Seq(Items)
    BY <2>1
  <2>3. executed[a] \o Taken(a) = Append(executed[a], current[a])
    BY <2>1, <1>1, ConcatPieces
  <2>4. Append(executed[a], current[a]) \in Seq(Items)
    BY <2>1, <1>1, AppendProperties
  <2>5. Append(executed[a], current[a]) \o taskQueue[a] \in Seq(Items)
    BY <2>4, <1>1, ConcatProperties
  <2>6. \A i : Contains(Append(executed[a], current[a]), i)
                 <=> Contains(executed[a], i) \/ i = current[a]
    BY <2>1, <1>1, AppendContains
  <2>7. \A i : Contains(Append(executed[a], current[a]) \o taskQueue[a], i)
                 <=> Contains(Append(executed[a], current[a]), i) \/ Contains(taskQueue[a], i)
    <3> DEFINE w == Append(executed[a], current[a])
    <3> HIDE DEF w
    <3>1. w \in Seq(Items)
      BY <2>4 DEF w
    <3>2. \A i : Contains(w \o taskQueue[a], i) <=> Contains(w, i) \/ Contains(taskQueue[a], i)
      BY <3>1, <1>1, ConcatContains
    <3> QED BY <3>2 DEF w
  <2> QED BY <1>1, <1>2, <2>2, <2>3, <2>4, <2>5, <2>6, <2>7 DEF HeldBy
<1>3. CASE pc[a] # "run"
  <2>1. Taken(a) = <<>>
    BY <1>3 DEF Taken
  <2>2. executed[a] \o Taken(a) = executed[a]
    BY <2>1, <1>1, ConcatPieces
  <2>3. executed[a] \o taskQueue[a] \in Seq(Items)
    BY <1>1, ConcatProperties
  <2>4. \A i : Contains(executed[a] \o taskQueue[a], i)
                 <=> Contains(executed[a], i) \/ Contains(taskQueue[a], i)
    BY <1>1, ConcatContains
  <2>5. Taken(a) \in Seq(Items)
    BY <2>1
  <2> QED BY <1>1, <1>3, <2>2, <2>3, <2>4, <2>5 DEF HeldBy
<1> QED BY <1>2, <1>3

\* A step that moves no item keeps what is said of the items.
LEMMA KeepsHeld ==
  ASSUME ActorInv,
         UNCHANGED <<taskQueue, executed, enqueued, early>>,
         \A a \in Actors : Taken(a)' = Taken(a),
         \A i \in Items : putting[i] = "accepted" => putting'[i] = "accepted",
         \A t \in Callbacks :
           putting'[CallbackItem(t)] # "none" => putting[CallbackItem(t)] # "none"
  PROVE  HeldOnce' /\ HeldInOrder' /\ EarlyEnqueued' /\ CallbackAfterTask'
<1>1. \A a \in Actors : HeldBy(a)' = HeldBy(a)
  BY DEF HeldBy
<1>2. HeldOnce'
  BY <1>1 DEF ActorInv, HeldOnce
<1>3. HeldInOrder'
  BY <1>1 DEF ActorInv, HeldInOrder
<1>4. EarlyEnqueued' /\ CallbackAfterTask'
  BY DEF ActorInv, EarlyEnqueued, CallbackAfterTask
<1> QED BY <1>2, <1>3, <1>4

\* Initially there is nothing to hold.
LEMMA InitHolds == Init => ActorInv
<1> SUFFICES ASSUME Init PROVE ActorInv
  OBVIOUS
<1>1. TypeOK
  <2>1. <<>> \in Seq(Items) /\ Len(<<>>) = 0
    BY EmptySeq
  <2> QED BY <2>1, ActorAssumption DEF Init, TypeOK
<1>2. BusyWithItem
  BY DEF Init, BusyWithItem, PuttingCallback
<1>3. \A a \in Actors : HeldBy(a) = <<>>
  <2> SUFFICES ASSUME NEW a \in Actors PROVE HeldBy(a) = <<>>
    OBVIOUS
  <2>1. HeldBy(a) = executed[a] \o taskQueue[a]
    BY <1>1, <1>2, HeldIs DEF Init
  <2>2. <<>> \in Seq(Items)
    OBVIOUS
  <2>3. <<>> \o <<>> = <<>>
    BY <2>2, ConcatEmptySeq
  <2> QED BY <2>1, <2>3 DEF Init
<1>4. IsInjective(<<>>) /\ \A i : ~Contains(<<>>, i)
  BY DEF IsInjective, Contains
<1>5. \A i, j : ~Before(<<>>, i, j)
  BY DEF Before
<1>6. HeldOnce /\ HeldInOrder
  BY <1>3, <1>4, <1>5 DEF Init, HeldOnce, HeldInOrder
<1>7. EarlyEnqueued /\ StoppedDrained
  BY DEF Init, EarlyEnqueued, StoppedDrained
<1>8. CallbackAfterTask
  BY ItemsAre DEF Init, CallbackAfterTask
<1> QED BY <1>1, <1>2, <1>6, <1>7, <1>8 DEF ActorInv

\* A put passes its first check or is refused.
LEMMA putCheckStoppingKeeps ==
  ASSUME ActorInv, NEW i \in Items, putCheckStopping(i)
  PROVE  ActorInv'
<1>1. /\ putting[i] = "stopping?"
      /\ putting' = [putting EXCEPT ![i] = putting'[i]]
      /\ putting'[i] \in {"refused", "running?"}
      /\ UNCHANGED <<taskQueue, running, stopWhenEmpty, interrupted, stopped,
                     interrupting, pc, current, executed, enqueued, early>>
  BY DEF putCheckStopping, Goto, flags, ActorInv, TypeOK
<1>2. TypeOK'
  BY <1>1 DEF ActorInv, TypeOK
<1>3. BusyWithItem' /\ StoppedDrained'
  BY <1>1 DEF ActorInv, BusyWithItem, StoppedDrained, PuttingCallback, EarlyRun
<1>4. HeldOnce' /\ HeldInOrder' /\ EarlyEnqueued' /\ CallbackAfterTask'
  <2>1. \A a \in Actors : Taken(a)' = Taken(a)
    BY <1>1 DEF Taken
  <2>2. \A j \in Items : putting[j] = "accepted" => putting'[j] = "accepted"
    BY <1>1 DEF ActorInv, TypeOK
  <2>3. \A t \in Callbacks :
          putting'[CallbackItem(t)] # "none" => putting[CallbackItem(t)] # "none"
    BY <1>1, ItemsAre DEF ActorInv, TypeOK
  <2> QED BY <1>1, <2>1, <2>2, <2>3, KeepsHeld
<1> QED BY <1>2, <1>3, <1>4 DEF ActorInv

\* A put passes its second check, is refused, or runs the item in place.
LEMMA putCheckRunningKeeps ==
  ASSUME ActorInv, NEW i \in Items, putCheckRunning(i)
  PROVE  ActorInv'
<1>1. /\ putting[i] = "running?"
      /\ putting' = [putting EXCEPT ![i] = putting'[i]]
      /\ putting'[i] \in {"refused", "enqueue", "accepted"}
      /\ UNCHANGED <<taskQueue, running, stopWhenEmpty, interrupted, stopped,
                     interrupting, pc, current, enqueued, early>>
      /\ ActorOf(i) \in Actors
  BY ItemsAre DEF putCheckRunning, Goto, flags, ActorInv, TypeOK
<1>2. PICK a \in Actors : a = ActorOf(i)
  BY <1>1
<1>3. CASE executed' = executed
  <2>1. TypeOK'
    BY <1>1, <1>3 DEF ActorInv, TypeOK
  <2>2. BusyWithItem' /\ StoppedDrained'
    BY <1>1, <1>3 DEF ActorInv, BusyWithItem, StoppedDrained, PuttingCallback, EarlyRun
  <2>3. \A b \in Actors : Taken(b)' = Taken(b)
    BY <1>1 DEF Taken
  <2>4. \A j \in Items : putting[j] = "accepted" => putting'[j] = "accepted"
    BY <1>1 DEF ActorInv, TypeOK
  <2>5. \A t \in Callbacks :
          putting'[CallbackItem(t)] # "none" => putting[CallbackItem(t)] # "none"
    BY <1>1, ItemsAre DEF ActorInv, TypeOK
  <2>6. HeldOnce' /\ HeldInOrder' /\ EarlyEnqueued' /\ CallbackAfterTask'
    BY <1>1, <1>3, <2>3, <2>4, <2>5, KeepsHeld
  <2> QED BY <2>1, <2>2, <2>6 DEF ActorInv
<1>4. CASE executed' # executed
  <2>1. /\ pc[a] = "callback"
        /\ putting'[i] = "accepted"
        /\ executed' = [executed EXCEPT ![a] = Append(executed[a], i)]
    BY <1>1, <1>2, <1>4 DEF putCheckRunning, Goto, Putter, PuttingCallback, ActorInv, TypeOK
  <2>2. /\ executed[a] \in Seq(Items) /\ taskQueue[a] \in Seq(Items)
        /\ HeldBy(a) = executed[a] \o taskQueue[a]
        /\ IsInjective(HeldBy(a)) /\ ~Contains(HeldBy(a), i)
    BY <1>1, <2>1, HeldIs DEF ActorInv, HeldOnce
  <2>3. executed'[a] = Append(executed[a], i) /\ Append(executed[a], i) \in Seq(Items)
    BY <2>1, <2>2, AppendProperties DEF ActorInv, TypeOK
  <2>4. TypeOK'
    BY <1>1, <2>1, <2>3 DEF ActorInv, TypeOK
  <2>5. BusyWithItem'
    BY <1>1 DEF ActorInv, BusyWithItem, PuttingCallback
  <2>6. \A b \in Actors \ {a} : HeldBy(b)' = HeldBy(b) /\ executed'[b] = executed[b]
    BY <1>1, <2>1 DEF HeldBy, Taken, ActorInv, TypeOK
  <2>7. HeldBy(a)' = Append(executed[a], i) \o taskQueue[a]
    <3>1. HeldBy(a)' = (Append(executed[a], i) \o <<>>) \o taskQueue[a]
      BY <1>1, <2>1, <2>3 DEF HeldBy, Taken
    <3> QED BY <3>1, <2>2, <2>3, ConcatPieces
  <2>8. /\ IsInjective(HeldBy(a)')
        /\ \A j : Contains(HeldBy(a)', j) <=> Contains(HeldBy(a), j) \/ j = i
        /\ \A j, k : Before(HeldBy(a), j, k) => Before(HeldBy(a)', j, k)
    BY <2>2, <2>7, InsertIs
  <2>9. /\ \A j \in Items \ {i} : putting'[j] = putting[j]
        /\ \A j \in Items : putting[j] = "accepted" => putting'[j] = "accepted"
    BY <1>1 DEF ActorInv, TypeOK
  <2>10. HeldOnce'
    <3>1. \A b \in Actors : IsInjective(HeldBy(b)')
      BY <2>6, <2>8 DEF ActorInv, HeldOnce
    <3>2. \A b \in Actors : \A j \in Items :
            Contains(HeldBy(b)', j) => ActorOf(j) = b /\ putting'[j] = "accepted"
      BY <1>2, <2>1, <2>6, <2>8, <2>9 DEF ActorInv, HeldOnce
    <3> QED BY <3>1, <3>2 DEF HeldOnce
  <2>11. HeldInOrder'
    <3>1. \A b \in Actors : /\ \A j : Contains(HeldBy(b), j) => Contains(HeldBy(b)', j)
                            /\ \A j, k : Before(HeldBy(b), j, k) => Before(HeldBy(b)', j, k)
      BY <2>6, <2>8
    <3> QED BY <3>1, <1>1 DEF ActorInv, HeldInOrder
  <2>12. EarlyEnqueued'
    BY <1>1 DEF ActorInv, EarlyEnqueued
  <2>13. \A b \in Actors : \A j : Contains(executed[b], j) => Contains(executed'[b], j)
    <3>1. \A j : Contains(executed[a], j) => Contains(Append(executed[a], i), j)
      BY <2>2, AppendContains
    <3> QED BY <3>1, <2>3, <2>6
  <2>14. CallbackAfterTask'
    <3> SUFFICES ASSUME NEW t \in Callbacks, putting'[CallbackItem(t)] # "none"
                 PROVE  Contains(executed'[home[t]], TaskItem(t))
      BY DEF CallbackAfterTask
    <3>1. putting[CallbackItem(t)] # "none" /\ home[t] \in Actors
      BY <1>1, <2>9, ItemsAre, ActorAssumption DEF Callbacks
    <3> QED BY <3>1, <2>13 DEF ActorInv, CallbackAfterTask
  <2>15. StoppedDrained'
    BY <1>1, <2>13 DEF ActorInv, StoppedDrained, EarlyRun
  <2> QED BY <2>4, <2>5, <2>10, <2>11, <2>12, <2>14, <2>15 DEF ActorInv
<1> QED BY <1>3, <1>4

\* A put puts its item at the end of a queue that has room.
LEMMA putEnqueueKeeps ==
  ASSUME ActorInv, NEW i \in Items, putEnqueue(i)
  PROVE  ActorInv'
<1>1. PICK a \in Actors : a = ActorOf(i)
  BY ItemsAre
<1>2. /\ putting[i] = "enqueue" /\ Len(taskQueue[a]) < capacity[a]
      /\ taskQueue' = [taskQueue EXCEPT ![a] = Append(taskQueue[a], i)]
      /\ putting' = [putting EXCEPT ![i] = "accepted"]
      /\ enqueued' = [enqueued EXCEPT ![a] = Append(enqueued[a], i)]
      /\ early' = IF stopWhenEmpty[a] THEN early ELSE early \cup {i}
      /\ UNCHANGED <<running, stopWhenEmpty, interrupted, stopped, interrupting, pc,
                     current, executed>>
  BY <1>1 DEF putEnqueue, Goto, flags
<1>3. /\ executed[a] \o Taken(a) \in Seq(Items) /\ taskQueue[a] \in Seq(Items)
      /\ HeldBy(a) \in Seq(Items) /\ IsInjective(HeldBy(a)) /\ ~Contains(HeldBy(a), i)
      /\ enqueued[a] \in Seq(Items)
      /\ HeldBy(a) = (executed[a] \o Taken(a)) \o taskQueue[a]
  BY <1>2, HeldIs DEF ActorInv, HeldOnce, HeldBy, TypeOK
<1>4. /\ taskQueue'[a] = Append(taskQueue[a], i) /\ enqueued'[a] = Append(enqueued[a], i)
      /\ Append(taskQueue[a], i) \in Seq(Items) /\ Append(enqueued[a], i) \in Seq(Items)
      /\ Len(Append(taskQueue[a], i)) = Len(taskQueue[a]) + 1
  BY <1>2, <1>3, AppendProperties DEF ActorInv, TypeOK
<1>5. TypeOK'
  <2>1. \A b \in Actors : Len(taskQueue'[b]) <= capacity[b]
    <3>1. Len(taskQueue[a]) \in Nat /\ capacity[a] \in Nat
      BY <1>3, LenProperties, ActorAssumption
    <3>2. Len(taskQueue'[a]) <= capacity[a]
      BY <1>2, <1>4, <3>1
    <3>3. \A b \in Actors \ {a} : taskQueue'[b] = taskQueue[b]
      BY <1>2 DEF ActorInv, TypeOK
    <3> QED BY <3>2, <3>3 DEF ActorInv, TypeOK
  <2> QED BY <2>1, <1>2, <1>4 DEF ActorInv, TypeOK
<1>6. BusyWithItem'
  BY <1>2 DEF ActorInv, BusyWithItem, PuttingCallback
<1>7. \A b \in Actors \ {a} : HeldBy(b)' = HeldBy(b) /\ enqueued'[b] = enqueued[b]
  BY <1>2 DEF HeldBy, Taken, ActorInv, TypeOK
<1>8. HeldBy(a)' = Append(HeldBy(a), i)
  <2>1. HeldBy(a)' = (executed[a] \o Taken(a)) \o Append(taskQueue[a], i)
    BY <1>2, <1>4 DEF HeldBy, Taken
  <2> DEFINE s == executed[a] \o Taken(a)
  <2> HIDE DEF s
  <2>2. s \in Seq(Items)
    BY <1>3 DEF s
  <2>3. s \o Append(taskQueue[a], i) = Append(s \o taskQueue[a], i)
    BY <1>3, <2>2, ConcatPieces
  <2> QED BY <1>3, <2>1, <2>3 DEF s
<1>9. /\ IsInjective(HeldBy(a)')
      /\ \A j : Contains(HeldBy(a)', j) <=> Contains(HeldBy(a), j) \/ j = i
      /\ \A j, k : Before(HeldBy(a)', j, k)
                     <=> Before(HeldBy(a), j, k) \/ (Contains(HeldBy(a), j) /\ k = i)
  <2> DEFINE h == HeldBy(a)
  <2>1. h \in Seq(Items) /\ IsInjective(h) /\ ~Contains(h, i)
    BY <1>3
  <2> HIDE DEF h
  <2>2. /\ IsInjective(Append(h, i))
        /\ \A j : Contains(Append(h, i), j) <=> Contains(h, j) \/ j = i
        /\ \A j, k : Before(Append(h, i), j, k) <=> Before(h, j, k) \/ (Contains(h, j) /\ k = i)
    BY <2>1, AppendIs, AppendBefore
  <2> QED BY <2>2, <1>8 DEF h
<1>10. /\ \A j : Contains(enqueued'[a], j) <=> Contains(enqueued[a], j) \/ j = i
       /\ \A j, k : Before(enqueued'[a], j, k)
                      <=> Before(enqueued[a], j, k) \/ (Contains(enqueued[a], j) /\ k = i)
  BY <1>3, <1>4, AppendContains, AppendBefore
<1>11. HeldOnce'
  <2>1. \A b \in Actors : IsInjective(HeldBy(b)')
    BY <1>7, <1>9 DEF ActorInv, HeldOnce
  <2>2. \A j \in Items : putting'[j] = IF j = i THEN "accepted" ELSE putting[j]
    BY <1>2 DEF ActorInv, TypeOK
  <2>3. \A b \in Actors : \A j \in Items :
          Contains(HeldBy(b)', j) => ActorOf(j) = b /\ putting'[j] = "accepted"
    BY <1>1, <1>7, <1>9, <2>2 DEF ActorInv, HeldOnce
  <2> QED BY <2>1, <2>3 DEF HeldOnce
<1>12. HeldInOrder'
  <2>1. \A j \in Items : Contains(enqueued'[a], j) => Contains(HeldBy(a)', j)
    BY <1>9, <1>10 DEF ActorInv, HeldInOrder
  <2>2. \A j, k \in Items : Before(enqueued'[a], j, k) => Before(HeldBy(a)', j, k)
    BY <1>9, <1>10 DEF ActorInv, HeldInOrder
  <2> QED BY <2>1, <2>2, <1>7 DEF ActorInv, HeldInOrder
<1>13. EarlyEnqueued'
  <2> SUFFICES ASSUME NEW j \in early' PROVE Contains(enqueued'[ActorOf(j)], j)
    BY DEF EarlyEnqueued
  <2>1. j = i \/ (j \in early /\ j \in Items /\ ActorOf(j) \in Actors)
    BY <1>2, ItemsAre DEF ActorInv, TypeOK
  <2> QED BY <2>1, <1>1, <1>7, <1>10 DEF ActorInv, EarlyEnqueued
<1>14. CallbackAfterTask'
  BY <1>2, ItemsAre DEF ActorInv, TypeOK, CallbackAfterTask
<1>15. StoppedDrained'
  BY <1>1, <1>2 DEF ActorInv, StoppedDrained, EarlyRun
<1> QED BY <1>5, <1>6, <1>11, <1>12, <1>13, <1>14, <1>15 DEF ActorInv

\* A put that gives up leaves no trace but an interruption it consumed.
LEMMA putGivesUpKeeps ==
  ASSUME ActorInv, NEW i \in Items, putGivesUp(i)
  PROVE  ActorInv'
<1>1. /\ putting[i] = "enqueue"
      /\ putting' = [putting EXCEPT ![i] = "refused"]
      /\ interrupted' \in [Actors -> BOOLEAN]
      /\ UNCHANGED <<taskQueue, running, stopWhenEmpty, stopped, interrupting, pc,
                     current, executed, enqueued, early>>
  <2>1. interrupted' \in [Actors -> BOOLEAN]
    BY DEF putGivesUp, ActorInv, TypeOK
  <2> QED BY <2>1 DEF putGivesUp, Goto
<1>2. TypeOK'
  BY <1>1 DEF ActorInv, TypeOK
<1>3. BusyWithItem' /\ StoppedDrained'
  BY <1>1 DEF ActorInv, BusyWithItem, StoppedDrained, PuttingCallback, EarlyRun
<1>4. HeldOnce' /\ HeldInOrder' /\ EarlyEnqueued' /\ CallbackAfterTask'
  <2>1. \A a \in Actors : Taken(a)' = Taken(a)
    BY <1>1 DEF Taken
  <2>2. \A j \in Items : putting[j] = "accepted" => putting'[j] = "accepted"
    BY <1>1 DEF ActorInv, TypeOK
  <2>3. \A t \in Callbacks :
          putting'[CallbackItem(t)] # "none" => putting[CallbackItem(t)] # "none"
    BY <1>1, ItemsAre DEF ActorInv, TypeOK
  <2> QED BY <1>1, <2>1, <2>2, <2>3, KeepsHeld
<1> QED BY <1>2, <1>3, <1>4 DEF ActorInv

\* The runner's moves between its checks, with nothing in its hands.
LEMMA runMovesKeeps ==
  ASSUME ActorInv, NEW a \in Actors,
         runLoop(a) \/ runCheckEmpty(a) \/ runQuit(a) \/ runPollNothing(a) \/ runCallbackPut(a)
  PROVE  ActorInv'
<1>1. /\ pc[a] \in {"loop", "empty?", "quit", "poll", "callback"}
      /\ pc' = [pc EXCEPT ![a] = pc'[a]]
      /\ pc'[a] \in {"loop", "empty?", "quit", "poll", "exit"}
      /\ UNCHANGED <<taskQueue, putting, executed, enqueued, early, stopWhenEmpty, stopped,
                    interrupting>>
      /\ running' \in [Actors -> BOOLEAN]
      /\ \A b \in Actors \ {a} : running'[b] = running[b] /\ pc'[b] = pc[b]
      /\ running' # running => pc[a] = "quit" /\ pc'[a] = "exit"
      /\ interrupted' \in [Actors -> BOOLEAN]
      /\ current' \in [Actors -> Items \cup {NULL}]
      /\ \A b \in Actors \ {a} : current'[b] = current[b]
  <2>1. CASE runLoop(a) \/ runCheckEmpty(a)
    BY <2>1 DEF runLoop, runCheckEmpty, flags, ActorInv, TypeOK
  <2>2. CASE runQuit(a)
    BY <2>2 DEF runQuit, ActorInv, TypeOK
  <2>3. CASE runPollNothing(a)
    BY <2>3 DEF runPollNothing, ActorInv, TypeOK
  <2>4. CASE runCallbackPut(a)
    BY <2>4 DEF runCallbackPut, PuttingCallback, flags, ActorInv, TypeOK
  <2> QED BY <2>1, <2>2, <2>3, <2>4
<1>2. TypeOK'
  <2>1. pc' \in [Actors -> {"loop", "empty?", "quit", "poll", "run", "callback", "exit"}]
    <3>1. pc \in [Actors -> {"loop", "empty?", "quit", "poll", "run", "callback", "exit"}]
      BY DEF ActorInv, TypeOK
    <3>2. PICK p : pc' = [pc EXCEPT ![a] = p] /\ p = pc'[a]
      BY <1>1
    <3> QED BY <1>1, <3>1, <3>2
  <2> QED BY <2>1, <1>1 DEF ActorInv, TypeOK
<1>3. BusyWithItem'
  BY <1>1 DEF ActorInv, BusyWithItem, PuttingCallback
<1>4. HeldOnce' /\ HeldInOrder' /\ EarlyEnqueued' /\ CallbackAfterTask'
  <2>1. \A b \in Actors : Taken(b)' = Taken(b)
    BY <1>1 DEF Taken
  <2> QED BY <1>1, <2>1, KeepsHeld
<1>5. ASSUME pc'[a] = "quit" PROVE stopWhenEmpty[a] /\ EarlyRun(a)
  <2>1. pc[a] = "empty?" /\ stopWhenEmpty[a] /\ taskQueue[a] = <<>>
    BY <1>1, <1>5 DEF runLoop, runCheckEmpty, runQuit, runPollNothing, runCallbackPut,
                      ActorInv, TypeOK
  <2>2. \A i : ~Contains(taskQueue[a], i)
    BY <2>1 DEF Contains
  <2>3. \A i : Contains(HeldBy(a), i) => Contains(executed[a], i)
    BY <2>1, <2>2, HeldIs DEF ActorInv
  <2> QED BY <2>1, <2>3 DEF EarlyRun, ActorInv, EarlyEnqueued, HeldInOrder, TypeOK
<1>6. ASSUME a \notin stopped, ~running'[a]
      PROVE  pc'[a] = "exit" /\ stopWhenEmpty[a] /\ EarlyRun(a)
  BY <1>1, <1>6 DEF ActorInv, StoppedDrained
<1>7. StoppedDrained'
  BY <1>1, <1>5, <1>6 DEF ActorInv, StoppedDrained, EarlyRun
<1> QED BY <1>2, <1>3, <1>4, <1>7 DEF ActorInv

\* The runner takes the oldest item of its queue.
LEMMA runPollKeeps ==
  ASSUME ActorInv, NEW a \in Actors, runPoll(a)
  PROVE  ActorInv'
<1>1. /\ pc[a] = "poll" /\ taskQueue[a] # <<>>
      /\ current' = [current EXCEPT ![a] = Head(taskQueue[a])]
      /\ taskQueue' = [taskQueue EXCEPT ![a] = Tail(taskQueue[a])]
      /\ pc' = [pc EXCEPT ![a] = "run"]
      /\ UNCHANGED <<running, stopWhenEmpty, interrupted, stopped, interrupting, putting,
                     executed, enqueued, early>>
  BY DEF runPoll, flags
<1>2. /\ taskQueue[a] \in Seq(Items) /\ executed[a] \in Seq(Items)
      /\ Head(taskQueue[a]) \in Items /\ Tail(taskQueue[a]) \in Seq(Items)
      /\ Len(Tail(taskQueue[a])) = Len(taskQueue[a]) - 1
      /\ Len(taskQueue[a]) \in Nat
  BY <1>1, HeadTailProperties, LenProperties DEF ActorInv, TypeOK
<1>3. TypeOK'
  <2>1. \A b \in Actors : Len(taskQueue'[b]) <= capacity[b]
    <3>1. taskQueue'[a] = Tail(taskQueue[a]) /\ capacity[a] \in Nat
      BY <1>1, ActorAssumption DEF ActorInv, TypeOK
    <3>2. Len(taskQueue[a]) <= capacity[a]
      BY DEF ActorInv, TypeOK
    <3>3. Len(taskQueue'[a]) <= capacity[a]
      BY <1>2, <3>1, <3>2
    <3>4. \A b \in Actors \ {a} : taskQueue'[b] = taskQueue[b]
      BY <1>1 DEF ActorInv, TypeOK
    <3> QED BY <3>3, <3>4 DEF ActorInv, TypeOK
  <2> QED BY <2>1, <1>1, <1>2 DEF ActorInv, TypeOK
<1>4. BusyWithItem'
  BY <1>1, <1>2 DEF ActorInv, TypeOK, BusyWithItem, PuttingCallback
<1>5. \A b \in Actors : HeldBy(b)' = HeldBy(b)
  <2>1. \A b \in Actors \ {a} : HeldBy(b)' = HeldBy(b)
    BY <1>1 DEF HeldBy, Taken, ActorInv, TypeOK
  <2>2. HeldBy(a)' = (executed[a] \o <<Head(taskQueue[a])>>) \o Tail(taskQueue[a])
    BY <1>1 DEF HeldBy, Taken, ActorInv, TypeOK
  <2>3. HeldBy(a) = executed[a] \o taskQueue[a]
    BY <1>1, HeldIs DEF ActorInv
  <2>4. HeldBy(a)' = HeldBy(a)
    <3>1. /\ executed[a] \in Seq(Items) /\ taskQueue[a] \in Seq(Items) /\ taskQueue[a] # <<>>
      BY <1>1 DEF ActorInv, TypeOK
    <3>2. (executed[a] \o <<Head(taskQueue[a])>>) \o Tail(taskQueue[a]) = executed[a] \o taskQueue[a]
      BY <3>1, ConcatPieces
    <3> QED BY <2>2, <2>3, <3>2
  <2> QED BY <2>1, <2>4
<1>6. HeldOnce'
  BY <1>1, <1>5 DEF ActorInv, HeldOnce
<1>7. HeldInOrder'
  BY <1>1, <1>5 DEF ActorInv, HeldInOrder
<1>8. EarlyEnqueued' /\ CallbackAfterTask'
  BY <1>1 DEF ActorInv, EarlyEnqueued, CallbackAfterTask
<1>9. StoppedDrained'
  BY <1>1 DEF ActorInv, TypeOK, StoppedDrained, EarlyRun
<1> QED BY <1>3, <1>4, <1>6, <1>7, <1>8, <1>9 DEF ActorInv

\* The runner has run its item, and may go on to put its callback.
LEMMA runTaskKeeps ==
  ASSUME ActorInv, NEW a \in Actors, runTask(a)
  PROVE  ActorInv'
<1>1. PICK i \in Items : i = current[a]
  BY DEF runTask, ActorInv, BusyWithItem
<1>2. /\ pc[a] = "run"
      /\ executed' = [executed EXCEPT ![a] = Append(executed[a], i)]
      /\ pc' = [pc EXCEPT ![a] = pc'[a]] /\ pc'[a] \in {"loop", "callback"}
      /\ current' \in [Actors -> Items \cup {NULL}]
      /\ \A b \in Actors \ {a} : current'[b] = current[b]
      /\ pc'[a] = "callback" => current'[a] = i /\ ~i.callback /\ target[i.task] # NULL
      /\ \/ putting' = putting
         \/ /\ ~i.callback /\ i.task \in Callbacks
            /\ putting' = [putting EXCEPT ![CallbackItem(i.task)] = "stopping?"]
      /\ UNCHANGED <<taskQueue, running, stopWhenEmpty, interrupted, stopped,
                     interrupting, enqueued, early>>
  <2>1. /\ pc[a] = "run"
        /\ executed' = [executed EXCEPT ![a] = Append(executed[a], i)]
        /\ UNCHANGED <<taskQueue, running, stopWhenEmpty, interrupted, stopped,
                       interrupting, enqueued, early>>
    BY <1>1 DEF runTask, flags
  <2>2. CASE /\ pc' = [pc EXCEPT ![a] = "loop"]
             /\ current' = [current EXCEPT ![a] = NULL]
             /\ UNCHANGED putting
    BY <2>1, <2>2 DEF ActorInv, TypeOK
  <2>3. CASE /\ ~i.callback
             /\ target[i.task] # NULL
             /\ pc' = [pc EXCEPT ![a] = "callback"]
             /\ Goto(CallbackItem(i.task), "stopping?")
             /\ UNCHANGED current
    <3>1. i.task \in Callbacks
      BY <2>3, ItemsAre DEF Callbacks
    <3>2. putting' = [putting EXCEPT ![CallbackItem(i.task)] = "stopping?"]
      BY <2>3 DEF Goto
    <3> QED BY <1>1, <2>1, <2>3, <3>1, <3>2 DEF ActorInv, TypeOK
  <2> QED BY <1>1, <2>2, <2>3 , <2>1 DEF runTask
<1>3. /\ executed[a] \in Seq(Items) /\ taskQueue[a] \in Seq(Items)
      /\ HeldBy(a) = Append(executed[a], i) \o taskQueue[a]
      /\ Append(executed[a], i) \in Seq(Items)
      /\ executed'[a] = Append(executed[a], i)
      /\ \A j : Contains(Append(executed[a], i), j) <=> Contains(executed[a], j) \/ j = i
  <2>1. executed[a] \in Seq(Items) /\ taskQueue[a] \in Seq(Items)
    BY DEF ActorInv, TypeOK
  <2>2. HeldBy(a) = Append(executed[a], i) \o taskQueue[a]
    BY <1>1, <1>2, HeldIs DEF ActorInv
  <2>3. Append(executed[a], i) \in Seq(Items)
    BY <2>1, AppendProperties
  <2>4. executed'[a] = Append(executed[a], i)
    BY <1>2 DEF ActorInv, TypeOK
  <2>5. \A j : Contains(Append(executed[a], i), j) <=> Contains(executed[a], j) \/ j = i
    BY <2>1, AppendContains
  <2> QED BY <2>1, <2>2, <2>3, <2>4, <2>5
<1>4. \A b \in Actors : HeldBy(b)' = HeldBy(b)
  <2>1. \A b \in Actors \ {a} : HeldBy(b)' = HeldBy(b)
    BY <1>2 DEF HeldBy, Taken, ActorInv, TypeOK
  <2>2. Taken(a)' = <<>>
    BY <1>2 DEF Taken
  <2>3. HeldBy(a)' = (Append(executed[a], i) \o <<>>) \o taskQueue[a]
    BY <1>2, <1>3, <2>2 DEF HeldBy
  <2>4. Append(executed[a], i) \o <<>> = Append(executed[a], i)
    BY <1>3, ConcatEmptySeq
  <2> QED BY <2>1, <2>3, <2>4, <1>3
<1>5. /\ ActorOf(i) = a /\ putting[i] = "accepted"
      /\ ~Contains(executed[a], i)
  <2>1. Contains(HeldBy(a), i)
    BY <1>1, <1>2, HeldIs DEF ActorInv
  <2>2. ActorOf(i) = a /\ putting[i] = "accepted"
    BY <2>1 DEF ActorInv, HeldOnce
  <2>3. IsInjective(Append(executed[a], i))
    <3> DEFINE s == Append(executed[a], i)
    <3>1. s \in Seq(Items) /\ IsInjective(s \o taskQueue[a]) /\ taskQueue[a] \in Seq(Items)
      BY <1>3 DEF ActorInv, HeldOnce
    <3> HIDE DEF s
    <3>2. IsInjective(s)
      BY <3>1, ConcatInjective
    <3> QED BY <3>2 DEF s
  <2>4. ASSUME Contains(executed[a], i) PROVE FALSE
    <3>1. PICK p \in 1..Len(executed[a]) : executed[a][p] = i
      BY <2>4 DEF Contains
    <3> DEFINE s == executed[a]  u == Append(s, i)
    <3>2. /\ Len(s) \in Nat /\ u[Len(s) + 1] = i /\ DOMAIN u = 1..(Len(s) + 1)
          /\ \A q \in 1..Len(s) : u[q] = s[q]
      BY <1>3, AppendProperties, LenProperties
    <3>3. IsInjective(u) /\ p \in 1..Len(s) /\ s[p] = i
      BY <2>3, <3>1
    <3> HIDE DEF s, u
    <3>4. p \in 1..(Len(s) + 1) /\ Len(s) + 1 \in 1..(Len(s) + 1) /\ u[p] = u[Len(s) + 1]
      BY <3>2, <3>3
    <3>5. p = Len(s) + 1
      BY <3>2, <3>3, <3>4 DEF IsInjective
    <3> QED BY <3>2, <3>3, <3>5
  <2> QED BY <2>2, <2>4
<1>6. \A t \in Callbacks : putting'[CallbackItem(t)] # putting[CallbackItem(t)] =>
        i = TaskItem(t) /\ putting[CallbackItem(t)] = "none"
  <2> SUFFICES ASSUME NEW t \in Callbacks, putting'[CallbackItem(t)] # putting[CallbackItem(t)]
               PROVE  i = TaskItem(t) /\ putting[CallbackItem(t)] = "none"
    OBVIOUS
  <2>1. /\ ~i.callback /\ i.task \in Callbacks
        /\ CallbackItem(t) = CallbackItem(i.task)
    BY <1>2, ItemsAre DEF ActorInv, TypeOK
  <2>2. t = i.task /\ i = TaskItem(t)
    BY <2>1, ItemsAre
  <2>3. home[t] = a
    BY <2>2, <1>5, ItemsAre
  <2> QED BY <2>2, <2>3, <1>5 DEF ActorInv, CallbackAfterTask
<1>7. \A j \in Items : putting[j] = "accepted" => putting'[j] = "accepted"
  <2> SUFFICES ASSUME NEW j \in Items, putting[j] = "accepted", putting'[j] # "accepted"
               PROVE  FALSE
    OBVIOUS
  <2>1. PICK t \in Callbacks : j = CallbackItem(t)
    <3>1. PICK c : c = CallbackItem(i.task)
      OBVIOUS
    <3>2. i.task \in Callbacks /\ putting' = [putting EXCEPT ![c] = "stopping?"]
      BY <1>2, <3>1
    <3>3. j = c
      BY <3>2 DEF ActorInv, TypeOK
    <3> QED BY <3>1, <3>2, <3>3
  <2> QED BY <2>1, <1>6
<1>8. TypeOK'
  <2>1. putting' \in [Items -> {"none", "stopping?", "running?", "enqueue", "accepted", "refused"}]
    <3>1. CASE putting' = putting
      BY <3>1 DEF ActorInv, TypeOK
    <3>2. CASE putting' = [putting EXCEPT ![CallbackItem(i.task)] = "stopping?"]
      BY <3>2 DEF ActorInv, TypeOK
    <3> QED BY <1>2, <3>1, <3>2
  <2>2. executed' \in [Actors -> Seq(Items)]
    BY <1>2, <1>3 DEF ActorInv, TypeOK
  <2>3. pc' \in [Actors -> {"loop", "empty?", "quit", "poll", "run", "callback", "exit"}]
    <3>1. pc \in [Actors -> {"loop", "empty?", "quit", "poll", "run", "callback", "exit"}]
      BY DEF ActorInv, TypeOK
    <3> QED BY <3>1, <1>2
  <2> QED BY <2>1, <2>2, <2>3, <1>2 DEF ActorInv, TypeOK
<1>9. BusyWithItem'
  <2>1. \A b \in Actors \ {a} : pc'[b] = pc[b] /\ current'[b] = current[b]
    BY <1>2 DEF ActorInv, TypeOK
  <2>2. pc'[a] # "run"
    BY <1>2
  <2>3. pc'[a] = "callback" =>
          current'[a] \in Items /\ ~current'[a].callback /\ target[current'[a].task] # NULL
    BY <1>2
  <2> QED BY <2>1, <2>2, <2>3 DEF ActorInv, BusyWithItem, PuttingCallback
<1>10. HeldOnce'
  BY <1>4, <1>7 DEF ActorInv, HeldOnce
<1>11. HeldInOrder' /\ EarlyEnqueued'
  BY <1>2, <1>4 DEF ActorInv, HeldInOrder, EarlyEnqueued
<1>12. \A b \in Actors : \A j : Contains(executed[b], j) => Contains(executed'[b], j)
  BY <1>2, <1>3 DEF ActorInv, TypeOK
<1>13. CallbackAfterTask'
  <2> SUFFICES ASSUME NEW t \in Callbacks, putting'[CallbackItem(t)] # "none"
               PROVE  Contains(executed'[home[t]], TaskItem(t))
    BY DEF CallbackAfterTask
  <2>1. home[t] \in Actors
    BY ActorAssumption DEF Callbacks
  <2>2. CASE putting[CallbackItem(t)] # "none"
    BY <2>1, <2>2, <1>12 DEF ActorInv, CallbackAfterTask
  <2>3. CASE putting[CallbackItem(t)] = "none"
    <3>1. i = TaskItem(t) /\ home[t] = a
      BY <2>3, <1>5, <1>6, ItemsAre
    <3> QED BY <3>1, <1>3
  <2> QED BY <2>2, <2>3
<1>14. StoppedDrained'
  BY <1>2, <1>12 DEF ActorInv, TypeOK, StoppedDrained, EarlyRun
<1> QED BY <1>8, <1>9, <1>10, <1>11, <1>13, <1>14 DEF ActorInv

\* Asking an actor to stop, stopping it or interrupting it moves no item.
LEMMA stopsKeep ==
  ASSUME ActorInv, NEW a \in Actors, askStopWhenEmpty(a) \/ stop(a) \/ stopInterrupt(a)
  PROVE  ActorInv'
<1>1. /\ UNCHANGED <<taskQueue, pc, current, putting, executed, enqueued, early>>
      /\ running' \in [Actors -> BOOLEAN] /\ stopWhenEmpty' \in [Actors -> BOOLEAN]
      /\ interrupted' \in [Actors -> BOOLEAN]
      /\ interrupting' \subseteq stopped' /\ stopped' \subseteq Actors
      /\ \A b \in Actors : stopWhenEmpty[b] => stopWhenEmpty'[b]
      /\ \A b \in Actors : b \notin stopped' => b \notin stopped /\ running'[b] = running[b]
  BY ActorAssumption DEF askStopWhenEmpty, stop, stopInterrupt, ActorInv, TypeOK
<1>2. TypeOK'
  BY <1>1 DEF ActorInv, TypeOK
<1>3. BusyWithItem' /\ StoppedDrained'
  BY <1>1 DEF ActorInv, BusyWithItem, StoppedDrained, PuttingCallback, EarlyRun
<1>4. HeldOnce' /\ HeldInOrder' /\ EarlyEnqueued' /\ CallbackAfterTask'
  <2>1. \A b \in Actors : Taken(b)' = Taken(b)
    BY <1>1 DEF Taken
  <2> QED BY <1>1, <2>1, KeepsHeld
<1> QED BY <1>2, <1>3, <1>4 DEF ActorInv

\* Every step preserves the invariant.
LEMMA NextKeeps == ActorInv /\ [Next]_vars => ActorInv'
<1> SUFFICES ASSUME ActorInv, [Next]_vars PROVE ActorInv'
  OBVIOUS
<1>1. CASE UNCHANGED vars
  <2>1. UNCHANGED <<taskQueue, running, stopWhenEmpty, interrupted, stopped,
                    interrupting, pc, current, putting, executed, enqueued, early>>
    BY <1>1 DEF vars
  <2>2. TypeOK' /\ BusyWithItem' /\ StoppedDrained'
    BY <2>1 DEF ActorInv, TypeOK, BusyWithItem, StoppedDrained, PuttingCallback, EarlyRun
  <2>3. \A b \in Actors : Taken(b)' = Taken(b)
    BY <2>1 DEF Taken
  <2>4. HeldOnce' /\ HeldInOrder' /\ EarlyEnqueued' /\ CallbackAfterTask'
    BY <2>1, <2>3, KeepsHeld
  <2> QED BY <2>2, <2>4 DEF ActorInv
<1>2. ASSUME NEW i \in Items, putCheckStopping(i) \/ Put(i) PROVE ActorInv'
  BY <1>2, putCheckStoppingKeeps, putCheckRunningKeeps, putEnqueueKeeps, putGivesUpKeeps DEF Put
<1>3. ASSUME NEW a \in Actors, Run(a) PROVE ActorInv'
  BY <1>3, runMovesKeeps, runPollKeeps, runTaskKeeps DEF Run
<1>4. ASSUME NEW a \in Actors, askStopWhenEmpty(a) \/ stop(a) \/ stopInterrupt(a) PROVE ActorInv'
  BY <1>4, stopsKeep
<1> QED BY <1>1, <1>2, <1>3, <1>4 DEF Next

----------------------------------------------------------------------------

\* The invariant holds of every run of the actors.
THEOREM ActorInvariant == Spec => []ActorInv
  BY InitHolds, NextKeeps, PTL DEF Spec

\* The variables keep their types and no queue exceeds its capacity.
THEOREM ActorsTypeCorrect == Spec => []TypeOK
<1>1. ActorInv => TypeOK
  BY DEF ActorInv
<1> QED BY <1>1, ActorInvariant, PTL

\* No item is lost, run twice or run out of order, through put and stop alike.
THEOREM NothingLostOrRepeated == Spec => []RunsWhatItQueued
<1>1. ActorInv => RunsWhatItQueued
  BY DEF ActorInv, HeldOnce, HeldInOrder, RunsWhatItQueued
<1> QED BY <1>1, ActorInvariant, PTL

\* An actor that stopped by itself has run everything queued before it was asked,
\* and its thread is over.
THEOREM StopWhenEmptyDrains == Spec => []DrainsEarly
<1>1. ActorInv => DrainsEarly
  BY DEF ActorInv, StoppedDrained, EarlyRun, DrainsEarly
<1> QED BY <1>1, ActorInvariant, PTL
============================================================================
