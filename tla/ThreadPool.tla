----------------------------- MODULE ThreadPool -----------------------------
(***************************************************************************)
(* ThreadPool: the owner enqueues tasks and then calls Wait; the workers   *)
(* run the most urgent task first, and a running task may enqueue further  *)
(* tasks, after Wait has been called too.  A section under task_lock_ is   *)
(* one action; a notification sent after the unlock is another.  A CHECK   *)
(* is a guard: a thread whose CHECK fails never gets any further.          *)
(***************************************************************************)
EXTENDS Integers, FiniteSets

CONSTANTS
  Tasks,           \* the tasks that may be enqueued, each once
  Priority,        \* the priority of each task: the smaller, the more urgent
  Workers,         \* the threads of the pool
  Owner,           \* the thread that created the pool
  NoTask           \* marks a worker that runs nothing

ASSUME PoolAssumption ==
  /\ Priority \in [Tasks -> Int]
  /\ NoTask \notin Tasks
  /\ Owner \notin Workers
  /\ IsFiniteSet(Workers)

\* hardware_concurrency(), the default, may be 0: Wait would then drop every task.
ASSUME PoolHasWorkers == Workers # {}

VARIABLES
  state,           \* state_
  tasks,           \* tasks_
  busyThreads,     \* busy_threads_
  fresh,           \* the tasks nobody has enqueued yet
  pc,              \* where each thread is
  current          \* the task of each worker
vars == <<state, tasks, busyThreads, fresh, pc, current>>

Threads == Workers \cup {Owner}
OwnerSteps == {"submit", "notify", "notifyAll", "join", "done"}
WorkerSteps == {"wait", "sleep", "run", "notify", "exited"}

Sleepers == {w \in Workers : pc[w] = "sleep"}
Running == {w \in Workers : current[w] # NoTask}

Init ==
  /\ state = "Running"
  /\ tasks = {}
  /\ busyThreads = 0
  /\ fresh = Tasks
  /\ pc = [th \in Threads |-> IF th = Owner THEN "submit" ELSE "wait"]
  /\ current = [w \in Workers |-> NoTask]

-----------------------------------------------------------------------------
(* Enqueue, by the owner or by a worker whose task is running *)

MayEnqueue(th) ==
  IF th = Owner THEN pc[th] = "submit" ELSE pc[th] = "run"

\* Variant: nobody is notified.
EnqueueSilently(th, t) ==
  /\ MayEnqueue(th)
  /\ t \in fresh
  /\ state # "Stopped"
  /\ tasks' = tasks \cup {t}
  /\ fresh' = fresh \ {t}
  /\ UNCHANGED <<state, busyThreads, pc, current>>

\* The critical section of Enqueue, with its CHECK.
Enqueue(th, t) ==
  /\ MayEnqueue(th)
  /\ t \in fresh
  /\ state # "Stopped"
  /\ tasks' = tasks \cup {t}
  /\ fresh' = fresh \ {t}
  /\ pc' = [pc EXCEPT ![th] = "notify"]
  /\ UNCHANGED <<state, busyThreads, current>>

\* Its notify_one: some sleeping worker wakes, if there is any.
Notify(th) ==
  LET returned == [pc EXCEPT ![th] = IF th = Owner THEN "submit" ELSE "run"]
  IN  /\ pc[th] = "notify"
      /\ IF Sleepers = {} THEN pc' = returned
         ELSE \E w \in Sleepers : pc' = [returned EXCEPT ![w] = "wait"]
      /\ UNCHANGED <<state, tasks, busyThreads, fresh, current>>

-----------------------------------------------------------------------------
(* Wait *)

\* Variant: only the task queue is looked at.
IsReadyToStopQueueOnly(busy) == tasks = {}

IsReadyToStop(busy) == tasks = {} /\ busy = 0

Wait ==
  /\ pc[Owner] = "submit"
  /\ state' = IF IsReadyToStop(busyThreads) THEN "Stopped" ELSE "Stopping"
  /\ pc' = [pc EXCEPT ![Owner] = "notifyAll"]
  /\ UNCHANGED <<tasks, busyThreads, fresh, current>>

NotifyAll(exiting) ==
  [th \in Threads |->
     IF th \in exiting THEN "exited" ELSE IF pc[th] = "sleep" THEN "wait" ELSE pc[th]]

WaitNotifyAll ==
  /\ pc[Owner] = "notifyAll"
  /\ pc' = [NotifyAll({}) EXCEPT ![Owner] = "join"]
  /\ UNCHANGED <<state, tasks, busyThreads, fresh, current>>

\* Every worker is joined: Wait returns.
Join ==
  /\ pc[Owner] = "join"
  /\ \A w \in Workers : pc[w] = "exited"
  /\ pc' = [pc EXCEPT ![Owner] = "done"]
  /\ UNCHANGED <<state, tasks, busyThreads, fresh, current>>

-----------------------------------------------------------------------------
(* RunWorker *)

MostUrgent == {t \in tasks : \A u \in tasks : Priority[t] <= Priority[u]}

Sleep(w) ==
  /\ pc[w] = "wait"
  /\ state # "Stopped"
  /\ tasks = {}
  /\ pc' = [pc EXCEPT ![w] = "sleep"]
  /\ UNCHANGED <<state, tasks, busyThreads, fresh, current>>

SpuriousWakeup(w) ==
  /\ pc[w] = "sleep"
  /\ pc' = [pc EXCEPT ![w] = "wait"]
  /\ UNCHANGED <<state, tasks, busyThreads, fresh, current>>

\* The pool is stopped (with the CHECK that nothing is left): leave the loop.
Exit(w) ==
  /\ pc[w] = "wait"
  /\ state = "Stopped"
  /\ tasks = {}
  /\ pc' = [pc EXCEPT ![w] = "exited"]
  /\ UNCHANGED <<state, tasks, busyThreads, fresh, current>>

\* Variant: the task is counted as busy only by whoever runs it later.
TakeUncounted(w) ==
  /\ pc[w] = "wait"
  /\ state # "Stopped"
  /\ \E t \in MostUrgent : tasks' = tasks \ {t} /\ current' = [current EXCEPT ![w] = t]
  /\ pc' = [pc EXCEPT ![w] = "run"]
  /\ UNCHANGED <<state, busyThreads, fresh>>

Take(w) ==
  /\ pc[w] = "wait"
  /\ state # "Stopped"
  /\ \E t \in MostUrgent : tasks' = tasks \ {t} /\ current' = [current EXCEPT ![w] = t]
  /\ busyThreads' = busyThreads + 1
  /\ pc' = [pc EXCEPT ![w] = "run"]
  /\ UNCHANGED <<state, fresh>>

\* Variant: the worker that stops the pool wakes nobody.
DoneSilently(w) ==
  LET stop == state # "Running" /\ IsReadyToStop(busyThreads - 1)
  IN  /\ pc[w] = "run"
      /\ busyThreads' = busyThreads - 1
      /\ current' = [current EXCEPT ![w] = NoTask]
      /\ state' = IF stop THEN "Stopped" ELSE state
      /\ pc' = [pc EXCEPT ![w] = IF stop THEN "exited" ELSE "wait"]
      /\ UNCHANGED <<tasks, fresh>>

\* Variant: readiness is looked at before this thread stops counting as busy.
DoneLateDecrement(w) ==
  LET stop == state # "Running" /\ IsReadyToStop(busyThreads)
  IN  /\ pc[w] = "run"
      /\ busyThreads' = busyThreads - 1
      /\ current' = [current EXCEPT ![w] = NoTask]
      /\ state' = IF stop THEN "Stopped" ELSE state
      /\ pc' = IF stop THEN NotifyAll({w}) ELSE [pc EXCEPT ![w] = "wait"]
      /\ UNCHANGED <<tasks, fresh>>

\* The task has returned; the last one after Wait stops the pool and wakes the others.
Done(w) ==
  LET stop == state # "Running" /\ IsReadyToStop(busyThreads - 1)
  IN  /\ pc[w] = "run"
      /\ busyThreads' = busyThreads - 1
      /\ current' = [current EXCEPT ![w] = NoTask]
      /\ state' = IF stop THEN "Stopped" ELSE state
      /\ pc' = IF stop THEN NotifyAll({w}) ELSE [pc EXCEPT ![w] = "wait"]
      /\ UNCHANGED <<tasks, fresh>>

-----------------------------------------------------------------------------
LoopStep(w) == Take(w) \/ Sleep(w) \/ Exit(w) \/ Notify(w)

WaitStep == Notify(Owner) \/ WaitNotifyAll \/ Join

Finished == pc[Owner] = "done" /\ UNCHANGED vars

Next ==
  \/ WaitStep \/ Wait \/ Finished
  \/ \E th \in Threads, t \in Tasks : Enqueue(th, t)
  \/ \E w \in Workers : LoopStep(w) \/ Done(w) \/ SpuriousWakeup(w)

Spec == Init /\ [][Next]_vars

\* No thread is starved, and a task returns after finitely many Enqueues.
Fairness ==
  /\ WF_vars(WaitStep)
  /\ \A w \in Workers : WF_vars(LoopStep(w)) /\ WF_vars(Done(w))

FairSpec == Spec /\ Fairness

-----------------------------------------------------------------------------
(* Properties *)

\* Every variable stays in its domain.
TypeOK ==
  /\ state \in {"Running", "Stopping", "Stopped"}
  /\ tasks \in SUBSET Tasks
  /\ fresh \in SUBSET (Tasks \ tasks)
  /\ busyThreads \in 0..Cardinality(Workers)
  /\ pc \in [Threads -> OwnerSteps \cup WorkerSteps]
  /\ pc[Owner] \in OwnerSteps
  /\ \A w \in Workers : pc[w] \in WorkerSteps
  /\ current \in [Workers -> Tasks \cup {NoTask}]

\* A stopped pool has no task left, none running, and nobody about to enqueue one:
\* both CHECKs hold and no task that was enqueued, even after Wait was called, is
\* dropped (thread_pool.cpp:67, thread_pool.h:63 and 80-83).
StoppedIsDrained ==
  state = "Stopped" => tasks = {} /\ Running = {} /\ ~\E th \in Threads : MayEnqueue(th)

\* A pool that is to stop still has a task queued or running, whose end will stop
\* it: no order of Wait and of the last task leaves it stopping for ever.
StoppingHasWork ==
  state = "Stopping" => tasks # {} \/ Running # {}

\* No worker sleeps on while there is a task for it: for every queued task a worker
\* is awake or a thread is about to wake one.
NoIdleWorker ==
  Sleepers # {} =>
    Cardinality(tasks) <= Cardinality({w \in Workers : pc[w] = "wait"})
                          + Cardinality({th \in Threads : pc[th] = "notify"})
=============================================================================
