------------------------------- MODULE Actor -------------------------------
(***************************************************************************)
(* The actors every server runs its work on: common actor/Actor.java.  An  *)
(* actor is a bounded blocking queue of tasks and one thread that takes    *)
(* and runs them.  Any thread puts tasks; the flags running and            *)
(* stopWhenEmpty are atomics read outside any lock, so put (two checks,    *)
(* then the queue) and the runner's loop interleave.                       *)
(*                                                                         *)
(* A task may have a callback, to run on a target actor: when the task is  *)
(* done its runner puts the callback there, as any other thread would.     *)
(* start is done once, before anything is put.                             *)
(***************************************************************************)
EXTENDS Integers, Sequences, SequencesExt, FiniteSets

CONSTANTS
  Actors,
  Tasks,        \* tasks given to put by threads that are not actors
  home,         \* task -> the actor it is put to
  target,       \* task -> the actor its callback runs on, or NULL
  Offered,      \* tasks put with millisec >= 0: put returns false when full
  capacity,     \* actor -> the capacity of its queue
  MayStop,      \* actors on which stop() is called
  NULL

Callbacks == {t \in Tasks : target[t] # NULL}
\* A work item is a task or the callback of one.
Items == [task : Tasks, callback : {FALSE}] \cup [task : Callbacks, callback : {TRUE}]
ActorOf(i) == IF i.callback THEN target[i.task] ELSE home[i.task]
TaskItem(t) == [task |-> t, callback |-> FALSE]
CallbackItem(t) == [task |-> t, callback |-> TRUE]

ASSUME ActorAssumption ==
  /\ home \in [Tasks -> Actors]
  /\ target \in [Tasks -> Actors \cup {NULL}]
  /\ Offered \subseteq Tasks
  /\ capacity \in [Actors -> Nat \ {0}]
  /\ MayStop \subseteq Actors
  /\ NULL \notin Actors
  /\ NULL \notin Items

VARIABLES
  taskQueue,      \* actor -> its queue of items
  running,        \* actor -> the flag
  stopWhenEmpty,  \* actor -> the flag
  interrupted,    \* actor -> was its thread interrupted?
  pc,             \* actor -> where its runner is in TaskRunner.run
  current,        \* actor -> the item its runner is busy with
  putting,        \* item -> where its put is
  executed,       \* actor -> the items it has run, in order
  enqueued,       \* actor -> the items put into its queue, in that order
  early,          \* items in a queue before stopWhenEmpty() of their actor
  stopped,        \* actors on which stop() was called
  interrupting    \* those it is still to interrupt

vars == <<taskQueue, running, stopWhenEmpty, interrupted, pc, current, putting,
          executed, enqueued, early, stopped, interrupting>>
flags == <<running, stopWhenEmpty, interrupted, stopped, interrupting>>

Init ==
  /\ taskQueue = [a \in Actors |-> <<>>]
  /\ running = [a \in Actors |-> TRUE]
  /\ stopWhenEmpty = [a \in Actors |-> FALSE]
  /\ interrupted = [a \in Actors |-> FALSE]
  /\ pc = [a \in Actors |-> "loop"]
  /\ current = [a \in Actors |-> NULL]
  /\ putting = [i \in Items |-> IF i.callback THEN "none" ELSE "stopping?"]
  /\ executed = [a \in Actors |-> <<>>]
  /\ enqueued = [a \in Actors |-> <<>>]
  /\ early = {}
  /\ stopped = {}
  /\ interrupting = {}

----------------------------------------------------------------------------
(* put, one thread per item: the checks of stopWhenEmpty and of running,   *)
(* then the queue.                                                         *)

Goto(i, place) == putting' = [putting EXCEPT ![i] = place]

\* The item an actor's runner is putting as a callback.
PuttingCallback(a) == pc[a] = "callback"
Putter(i) == {a \in Actors : PuttingCallback(a) /\ i = CallbackItem(current[a].task)}

\* A task's put may begin at any time; a callback's when its task is done.
putCheckStopping(i) ==
  /\ putting[i] = "stopping?"
  /\ Goto(i, IF stopWhenEmpty[ActorOf(i)] THEN "refused" ELSE "running?")
  /\ UNCHANGED <<taskQueue, flags, pc, current, executed, enqueued, early>>

\* A thread that is the actor itself runs the item at once, on top of its own.
putCheckRunning(i) ==
  LET a == ActorOf(i) IN
  /\ putting[i] = "running?"
  /\ IF running[a] /\ a \in Putter(i)
     THEN /\ Goto(i, "accepted")
          /\ executed' = [executed EXCEPT ![a] = Append(@, i)]
     ELSE /\ Goto(i, IF running[a] THEN "enqueue" ELSE "refused")
          /\ UNCHANGED executed
  /\ UNCHANGED <<taskQueue, flags, pc, current, enqueued, early>>

\* Fault: the queue has no bound.
putUnbounded(i) ==
  /\ putting[i] = "enqueue"
  /\ \A b \in Putter(i) : ~interrupted[b]
  /\ taskQueue' = [taskQueue EXCEPT ![ActorOf(i)] = Append(@, i)]
  /\ Goto(i, "accepted")
  /\ enqueued' = [enqueued EXCEPT ![ActorOf(i)] = Append(@, i)]
  /\ UNCHANGED <<flags, pc, current, executed, early>>

\* There is room: the item is in the queue, whatever the flags are by now.
putEnqueue(i) ==
  LET a == ActorOf(i) IN
  /\ putting[i] = "enqueue"
  /\ \A b \in Putter(i) : ~interrupted[b]
  /\ Len(taskQueue[a]) < capacity[a]
  /\ taskQueue' = [taskQueue EXCEPT ![a] = Append(@, i)]
  /\ Goto(i, "accepted")
  /\ enqueued' = [enqueued EXCEPT ![a] = Append(@, i)]
  /\ early' = IF stopWhenEmpty[a] THEN early ELSE early \cup {i}
  /\ UNCHANGED <<flags, pc, current, executed>>

\* The queue is full and the caller would not wait, or the thread that waits
\* (or is about to) was interrupted.
putGivesUp(i) ==
  /\ putting[i] = "enqueue"
  /\ \/ /\ i.task \in Offered /\ ~i.callback
        /\ Len(taskQueue[ActorOf(i)]) = capacity[ActorOf(i)]
     \/ \E b \in Putter(i) : interrupted[b]
  /\ Goto(i, "refused")
  /\ interrupted' = [b \in Actors |-> interrupted[b] /\ b \notin Putter(i)]
  /\ UNCHANGED <<taskQueue, running, stopWhenEmpty, stopped, interrupting, pc, current,
                 executed, enqueued, early>>

----------------------------------------------------------------------------
(* TaskRunner.run.                                                         *)

runLoop(a) ==
  /\ pc[a] = "loop"
  /\ pc' = [pc EXCEPT ![a] = IF running[a] THEN "empty?" ELSE "exit"]
  /\ UNCHANGED <<taskQueue, flags, current, putting, executed, enqueued, early>>

\* Fault: the queue is not looked at.
runCheckStopping(a) ==
  /\ pc[a] = "empty?"
  /\ pc' = [pc EXCEPT ![a] = IF stopWhenEmpty[a] THEN "quit" ELSE "poll"]
  /\ UNCHANGED <<taskQueue, flags, current, putting, executed, enqueued, early>>

runCheckEmpty(a) ==
  /\ pc[a] = "empty?"
  /\ pc' = [pc EXCEPT ![a] = IF stopWhenEmpty[a] /\ taskQueue[a] = <<>>
                             THEN "quit" ELSE "poll"]
  /\ UNCHANGED <<taskQueue, flags, current, putting, executed, enqueued, early>>

runQuit(a) ==
  /\ pc[a] = "quit"
  /\ running' = [running EXCEPT ![a] = FALSE]
  /\ pc' = [pc EXCEPT ![a] = "exit"]
  /\ UNCHANGED <<taskQueue, stopWhenEmpty, interrupted, stopped, interrupting, current,
                 putting, executed, enqueued, early>>

\* Fault: the item is not taken out.
runPeek(a) ==
  /\ pc[a] = "poll"
  /\ taskQueue[a] # <<>>
  /\ ~interrupted[a]
  /\ current' = [current EXCEPT ![a] = Head(taskQueue[a])]
  /\ pc' = [pc EXCEPT ![a] = "run"]
  /\ UNCHANGED <<taskQueue, flags, putting, executed, enqueued, early>>

\* poll(1000): an item, or nothing after a second, or InterruptedException.
runPoll(a) ==
  /\ pc[a] = "poll"
  /\ taskQueue[a] # <<>>
  /\ ~interrupted[a]
  /\ current' = [current EXCEPT ![a] = Head(taskQueue[a])]
  /\ taskQueue' = [taskQueue EXCEPT ![a] = Tail(@)]
  /\ pc' = [pc EXCEPT ![a] = "run"]
  /\ UNCHANGED <<flags, putting, executed, enqueued, early>>

\* Fault: take() in place of poll, which waits for an item without a limit.
runTakeForever(a) ==
  /\ pc[a] = "poll"
  /\ interrupted[a]
  /\ interrupted' = [interrupted EXCEPT ![a] = FALSE]
  /\ pc' = [pc EXCEPT ![a] = "loop"]
  /\ UNCHANGED <<taskQueue, running, stopWhenEmpty, stopped, interrupting, current, putting,
                 executed, enqueued, early>>

runPollNothing(a) ==
  /\ pc[a] = "poll"
  /\ taskQueue[a] = <<>> \/ interrupted[a]
  /\ interrupted' = [interrupted EXCEPT ![a] = FALSE]
  /\ pc' = [pc EXCEPT ![a] = "loop"]
  /\ UNCHANGED <<taskQueue, running, stopWhenEmpty, stopped, interrupting, current, putting,
                 executed, enqueued, early>>

\* Fault: what the runner throws ends the thread.
runTaskUncaught(a) ==
  /\ pc[a] = "run"
  /\ executed' = [executed EXCEPT ![a] = Append(@, current[a])]
  /\ \/ /\ \E next \in {"loop", "exit"} : pc' = [pc EXCEPT ![a] = next]
        /\ current' = [current EXCEPT ![a] = NULL]
        /\ UNCHANGED putting
     \/ /\ current[a].task \in Callbacks /\ ~current[a].callback
        /\ pc' = [pc EXCEPT ![a] = "callback"]
        /\ Goto(CallbackItem(current[a].task), "stopping?")
        /\ UNCHANGED current
  /\ UNCHANGED <<taskQueue, flags, enqueued, early>>

\* runTask: the runner runs.  It may throw, and then there is no callback; a
\* callback with a target is put there.
runTask(a) ==
  LET i == current[a] IN
  /\ pc[a] = "run"
  /\ executed' = [executed EXCEPT ![a] = Append(@, i)]
  /\ \/ /\ pc' = [pc EXCEPT ![a] = "loop"]
        /\ current' = [current EXCEPT ![a] = NULL]
        /\ UNCHANGED putting
     \/ /\ ~i.callback
        /\ target[i.task] # NULL
        /\ pc' = [pc EXCEPT ![a] = "callback"]
        /\ Goto(CallbackItem(i.task), "stopping?")
        /\ UNCHANGED current
  /\ UNCHANGED <<taskQueue, flags, enqueued, early>>

runCallbackPut(a) ==
  /\ PuttingCallback(a)
  /\ putting[CallbackItem(current[a].task)] \in {"accepted", "refused"}
  /\ pc' = [pc EXCEPT ![a] = "loop"]
  /\ current' = [current EXCEPT ![a] = NULL]
  /\ UNCHANGED <<taskQueue, flags, putting, executed, enqueued, early>>

----------------------------------------------------------------------------
(* Shutting down.                                                          *)

askStopWhenEmpty(a) ==
  /\ ~stopWhenEmpty[a]
  /\ stopWhenEmpty' = [stopWhenEmpty EXCEPT ![a] = TRUE]
  /\ UNCHANGED <<taskQueue, running, interrupted, stopped, interrupting, pc, current, putting,
                 executed, enqueued, early>>

\* stop clears running,
stop(a) ==
  /\ a \in MayStop
  /\ running[a]
  /\ running' = [running EXCEPT ![a] = FALSE]
  /\ stopped' = stopped \cup {a}
  /\ interrupting' = interrupting \cup {a}
  /\ UNCHANGED <<taskQueue, stopWhenEmpty, interrupted, pc, current, putting, executed,
                 enqueued, early>>

\* then interrupts the thread, which may have ended by then.
stopInterrupt(a) ==
  /\ a \in interrupting
  /\ interrupted' = [interrupted EXCEPT ![a] = pc[a] # "exit"]
  /\ interrupting' = interrupting \ {a}
  /\ UNCHANGED <<taskQueue, running, stopWhenEmpty, stopped, pc, current, putting, executed,
                 enqueued, early>>

----------------------------------------------------------------------------
Put(i) == putCheckRunning(i) \/ putEnqueue(i) \/ putGivesUp(i)
Run(a) == \/ runLoop(a) \/ runCheckEmpty(a) \/ runQuit(a) \/ runPoll(a)
          \/ runPollNothing(a) \/ runTask(a) \/ runCallbackPut(a)

Next ==
  \/ \E i \in Items : putCheckStopping(i) \/ Put(i)
  \/ \E a \in Actors : Run(a) \/ askStopWhenEmpty(a) \/ stop(a) \/ stopInterrupt(a)

\* Threads keep running; nobody is made to put a task or to stop an actor.
Fairness ==
  /\ \A i \in Items : WF_vars(Put(i) \/ (i.callback /\ putCheckStopping(i)))
  /\ \A a \in Actors : WF_vars(Run(a)) /\ WF_vars(stopInterrupt(a))

Spec == Init /\ [][Next]_vars /\ Fairness

----------------------------------------------------------------------------
(* Properties.                                                             *)

\* Every variable holds a value of its kind, and no queue is over capacity.
TypeOK ==
  /\ taskQueue \in [Actors -> Seq(Items)]
  /\ \A a \in Actors : Len(taskQueue[a]) <= capacity[a]
  /\ running \in [Actors -> BOOLEAN]
  /\ stopWhenEmpty \in [Actors -> BOOLEAN]
  /\ interrupted \in [Actors -> BOOLEAN]
  /\ pc \in [Actors -> {"loop", "empty?", "quit", "poll", "run", "callback", "exit"}]
  /\ current \in [Actors -> Items \cup {NULL}]
  /\ putting \in [Items -> {"none", "stopping?", "running?", "enqueue", "accepted", "refused"}]
  /\ executed \in [Actors -> Seq(Items)]
  /\ enqueued \in [Actors -> Seq(Items)]
  /\ early \subseteq Items
  /\ interrupting \subseteq stopped /\ stopped \subseteq Actors

Taken(a) == IF pc[a] = "run" THEN <<current[a]>> ELSE <<>>
HeldBy(a) == executed[a] \o Taken(a) \o taskQueue[a]

Before(s, i, j) == \E p, q \in DOMAIN s : p < q /\ s[p] = i /\ s[q] = j

\* Nothing is lost, run twice or run out of order, even through stop: what an
\* actor has run, is about to run and has queued is, in this order, what was
\* put into its queue; only what it put to itself it runs at once.
RunsWhatItQueued ==
  \A a \in Actors :
    /\ IsInjective(HeldBy(a))
    /\ \A i \in Items : Contains(enqueued[a], i) => Contains(HeldBy(a), i)
    /\ \A i, j \in Items : Before(enqueued[a], i, j) => Before(HeldBy(a), i, j)

\* stopWhenEmpty drains: when an actor has stopped by itself, and waitForStop,
\* which waits for running to be false, returns, its thread runs nothing more and
\* everything that was queued before stopWhenEmpty() was called has been run.
\* (stop only asks the thread to end.)
DrainsEarly ==
  \A a \in Actors \ stopped : ~running[a] =>
    /\ pc[a] = "exit"
    /\ \A i \in early : ActorOf(i) = a => Contains(executed[a], i)

\* a's runner waits for room in the queue of c to put a callback there.
WaitsOn(a, c) ==
  /\ PuttingCallback(a)
  /\ c = target[current[a].task]
  /\ putting[CallbackItem(current[a].task)] = "enqueue"
  /\ ~interrupted[a]
  /\ Len(taskQueue[c]) = capacity[c]

\* It waits for ever: whoever could make room has ended or waits in the same way.
Hung(a) ==
  \E S \in SUBSET Actors :
    /\ a \in S
    /\ \A b \in S : \E c \in Actors : WaitsOn(b, c) /\ (pc[c] = "exit" \/ c \in S)

\* Asked to, an actor stops, so waitForStop returns, unless its runner hangs on the
\* full queue of an actor that has ended, or of one that hangs on another.
StopsWhenAsked == \A a \in Actors : stopWhenEmpty[a] ~> (~running[a] \/ Hung(a))

\* An item queued in time is run, unless stop is called or its actor hangs.
EarlyIsRun ==
  \A i \in Items :
    i \in early ~>
      (Contains(executed[ActorOf(i)], i) \/ ActorOf(i) \in stopped \/ Hung(ActorOf(i)))
============================================================================
