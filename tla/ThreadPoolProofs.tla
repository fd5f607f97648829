-------------------------- MODULE ThreadPoolProofs --------------------------
(***************************************************************************)
(* Proofs about ThreadPool, for any tasks, any priorities and any number   *)
(* of workers.                                                             *)
(***************************************************************************)
EXTENDS ThreadPool, FiniteSetTheorems, TLAPS

\* A worker has a task exactly while it is counted as busy, and the owner enqueues
\* only before it calls Wait.
Bookkeeping ==
  /\ \A w \in Workers : current[w] # NoTask <=> pc[w] \in {"run", "notify"}
  /\ busyThreads = Cardinality(Running)
  /\ pc[Owner] \in {"submit", "notify"} => state = "Running"

\* The inductive invariant: the counter is exact, so that the last decrement after
\* Wait, and no other, finds the pool ready to stop.
PoolInv ==
  /\ TypeOK
  /\ Bookkeeping
  /\ state = "Stopped" => tasks = {} /\ busyThreads = 0
  /\ state = "Stopping" => tasks # {} \/ busyThreads # 0

-----------------------------------------------------------------------------
(* What the counter says *)

\* The busy workers are finitely many, so that the counter is a bounded number, 0
\* exactly when nobody runs.
LEMMA RunningFinite ==
  /\ IsFiniteSet(Running) /\ IsFiniteSet(Running')
  /\ Cardinality(Running) \in 0..Cardinality(Workers)
  /\ Cardinality(Running') \in 0..Cardinality(Workers)
  /\ Cardinality(Running) = 0 <=> Running = {}
<1>1. Running \subseteq Workers /\ Running' \subseteq Workers
  BY DEF Running
<1>2. IsFiniteSet(Running) /\ IsFiniteSet(Running') /\ IsFiniteSet(Workers)
  BY <1>1, PoolAssumption, FS_Subset
<1>3. Cardinality(Running) <= Cardinality(Workers) /\ Cardinality(Running') <= Cardinality(Workers)
  BY <1>1, <1>2, FS_Subset
<1>4. Cardinality(Running) \in Nat /\ Cardinality(Running') \in Nat /\ Cardinality(Workers) \in Nat
  BY <1>2, FS_CardinalityType
<1>5. Cardinality(Running) = 0 <=> Running = {}
  BY <1>2, FS_EmptySet
<1> QED BY <1>2, <1>3, <1>4, <1>5

\* A step that leaves the tasks of the workers alone leaves the count alone.
LEMMA RunningUnchanged ==
  current' = current => Running' = Running
BY DEF Running

\* Taking a task makes one more worker busy, and returning from it one fewer.
LEMMA RunningChanges ==
  ASSUME TypeOK, NEW w \in Workers, NEW t \in Tasks \cup {NoTask},
         current' = [current EXCEPT ![w] = t]
  PROVE  /\ current[w] = NoTask /\ t # NoTask =>
              Cardinality(Running') = Cardinality(Running) + 1
         /\ current[w] # NoTask /\ t = NoTask =>
              Cardinality(Running') = Cardinality(Running) - 1
<1>1. ASSUME current[w] = NoTask, t # NoTask
      PROVE  Cardinality(Running') = Cardinality(Running) + 1
  <2>1. Running' = Running \cup {w} /\ w \notin Running
    BY <1>1 DEF Running, TypeOK
  <2> QED BY <2>1, RunningFinite, FS_AddElement
<1>2. ASSUME current[w] # NoTask, t = NoTask
      PROVE  Cardinality(Running') = Cardinality(Running) - 1
  <2>1. Running' = Running \ {w} /\ w \in Running
    BY <1>2 DEF Running, TypeOK
  <2> QED BY <2>1, RunningFinite, FS_RemoveElement
<1> QED BY <1>1, <1>2

-----------------------------------------------------------------------------
(* The initial state and the steps *)

\* Nothing runs and nothing is queued when the pool is created.
LEMMA PoolInit == Init => PoolInv
<1> SUFFICES ASSUME Init PROVE PoolInv
  OBVIOUS
<1>1. Running = {}
  BY DEF Init, Running
<1>2. Cardinality(Running) = 0
  BY <1>1, FS_EmptySet
<1>3. 0 \in 0..Cardinality(Workers)
  BY <1>2, RunningFinite
<1>4. pc[Owner] = "submit" /\ \A w \in Workers : pc[w] = "wait"
  BY PoolAssumption DEF Init, Threads
<1>5. TypeOK
  BY <1>3, <1>4 DEF Init, TypeOK, OwnerSteps, WorkerSteps, Threads
<1> QED BY <1>2, <1>4, <1>5 DEF Init, PoolInv, Bookkeeping

\* A step that changes only the program counters, by steps that neither begin nor
\* end a task nor take the owner back before Wait, keeps the invariant.
LEMMA PcStep ==
  ASSUME PoolInv, UNCHANGED <<state, busyThreads, current>>,
         tasks' \in SUBSET Tasks, fresh' \in SUBSET (Tasks \ tasks'),
         state = "Running" \/ tasks' = tasks \/ (state # "Stopped" /\ tasks \subseteq tasks'),
         pc' \in [Threads -> OwnerSteps \cup WorkerSteps],
         pc'[Owner] \in OwnerSteps,
         \A w \in Workers : pc'[w] \in WorkerSteps,
         \A w \in Workers : pc'[w] \in {"run", "notify"} <=> pc[w] \in {"run", "notify"},
         pc'[Owner] \in {"submit", "notify"} => pc[Owner] \in {"submit", "notify"}
  PROVE  PoolInv'
<1>1. TypeOK'
  BY DEF PoolInv, TypeOK
<1>2. Bookkeeping'
  BY RunningUnchanged DEF PoolInv, Bookkeeping
<1> QED BY <1>1, <1>2 DEF PoolInv

\* Enqueue adds a task to a pool that is not stopped.
LEMMA EnqueueStep ==
  ASSUME PoolInv, NEW th \in Threads, NEW t \in Tasks, Enqueue(th, t)
  PROVE  PoolInv'
<1>1. pc' = [pc EXCEPT ![th] = "notify"] /\ pc \in [Threads -> OwnerSteps \cup WorkerSteps]
  BY DEF Enqueue, PoolInv, TypeOK
<1>2. /\ UNCHANGED <<state, busyThreads, current>>
      /\ tasks' \in SUBSET Tasks /\ fresh' \in SUBSET (Tasks \ tasks')
      /\ state # "Stopped" /\ tasks \subseteq tasks'
  BY DEF Enqueue, PoolInv, TypeOK
<1>3. th = Owner => pc[Owner] = "submit"
  BY DEF Enqueue, MayEnqueue
<1>4. th # Owner => pc[th] = "run"
  BY DEF Enqueue, MayEnqueue
<1>5. pc[Owner] \in OwnerSteps /\ \A w \in Workers : pc[w] \in WorkerSteps
  BY DEF PoolInv, TypeOK
<1>6. pc' \in [Threads -> OwnerSteps \cup WorkerSteps]
  BY <1>1 DEF OwnerSteps, WorkerSteps
<1>7. pc'[Owner] \in OwnerSteps
  BY <1>1, <1>5 DEF OwnerSteps, Threads
<1>8. \A w \in Workers : pc'[w] \in WorkerSteps
  BY <1>1, <1>5 DEF WorkerSteps, Threads
<1>9. \A w \in Workers : pc'[w] \in {"run", "notify"} <=> pc[w] \in {"run", "notify"}
  BY <1>1, <1>4, PoolAssumption DEF Threads
<1>10. pc'[Owner] \in {"submit", "notify"} => pc[Owner] \in {"submit", "notify"}
  BY <1>1, <1>3 DEF Threads
<1> QED BY <1>2, <1>6, <1>7, <1>8, <1>9, <1>10, PcStep

\* What notify_one leaves: the thread goes on, and a sleeping worker, or nobody, is awake.
LEMMA NotifyEffect ==
  ASSUME TypeOK, NEW th \in Threads, Notify(th)
  PROVE  /\ pc' \in [Threads -> OwnerSteps \cup WorkerSteps]
         /\ pc[th] = "notify"
         /\ pc'[Owner] = IF th = Owner THEN "submit" ELSE pc[Owner]
         /\ \E W \in SUBSET Sleepers : \A w \in Workers :
              pc'[w] = IF w \in W THEN "wait" ELSE IF w = th THEN "run" ELSE pc[w]
<1> DEFINE back == IF th = Owner THEN "submit" ELSE "run"
<1>1. /\ pc \in [Threads -> OwnerSteps \cup WorkerSteps]
      /\ pc[Owner] \in OwnerSteps /\ \A w \in Workers : pc[w] \in WorkerSteps
      /\ pc[th] = "notify"
  BY DEF Notify, TypeOK
<1>2. PICK W \in SUBSET Sleepers :
        pc' = [u \in Threads |-> IF u \in W THEN "wait" ELSE IF u = th THEN back ELSE pc[u]]
  <2>1. CASE Sleepers = {}
    <3>1. pc' = [pc EXCEPT ![th] = back]
      BY <2>1 DEF Notify
    <3> WITNESS {} \in SUBSET Sleepers
    <3> QED BY <3>1, <1>1
  <2>2. CASE Sleepers # {}
    <3>1. PICK w \in Sleepers : pc' = [[pc EXCEPT ![th] = back] EXCEPT ![w] = "wait"]
      BY <2>2 DEF Notify
    <3>2. {w} \in SUBSET Sleepers /\ w \in Threads
      BY DEF Sleepers, Threads
    <3>3. pc' = [u \in Threads |-> IF u \in {w} THEN "wait" ELSE IF u = th THEN back ELSE pc[u]]
      BY <3>1, <3>2, <1>1
    <3> QED BY <3>2, <3>3
  <2> QED BY <2>1, <2>2
<1>3. \A w \in W : w \in Workers /\ pc[w] = "sleep"
  BY DEF Sleepers
<1>4. Owner \notin W
  BY <1>1, <1>3, PoolAssumption
<1>5. pc'[Owner] = IF th = Owner THEN "submit" ELSE pc[Owner]
  BY <1>2, <1>4 DEF Threads
<1>6. \A w \in Workers : pc'[w] = IF w \in W THEN "wait" ELSE IF w = th THEN "run" ELSE pc[w]
  BY <1>2, PoolAssumption DEF Threads
<1>7. pc' \in [Threads -> OwnerSteps \cup WorkerSteps]
  BY <1>1, <1>2 DEF OwnerSteps, WorkerSteps
<1> QED BY <1>1, <1>5, <1>6, <1>7

\* notify_one wakes a sleeping worker or nobody.
LEMMA NotifyStep ==
  ASSUME PoolInv, NEW th \in Threads, Notify(th)
  PROVE  PoolInv'
<1>1. /\ UNCHANGED <<state, busyThreads, current, tasks, fresh>>
      /\ pc[Owner] \in OwnerSteps /\ \A w \in Workers : pc[w] \in WorkerSteps
      /\ tasks \in SUBSET Tasks /\ fresh \in SUBSET (Tasks \ tasks)
      /\ TypeOK
  BY DEF Notify, PoolInv, TypeOK
<1>2. /\ pc' \in [Threads -> OwnerSteps \cup WorkerSteps]
      /\ pc[th] = "notify"
      /\ pc'[Owner] = IF th = Owner THEN "submit" ELSE pc[Owner]
  BY <1>1, NotifyEffect
<1>3. PICK W \in SUBSET Sleepers : \A w \in Workers :
        pc'[w] = IF w \in W THEN "wait" ELSE IF w = th THEN "run" ELSE pc[w]
  BY <1>1, NotifyEffect
<1>4. \A w \in W : pc[w] = "sleep"
  BY DEF Sleepers
<1>5. pc'[Owner] \in OwnerSteps /\ (pc'[Owner] \in {"submit", "notify"} => pc[Owner] \in {"submit", "notify"})
  BY <1>1, <1>2 DEF OwnerSteps
<1>6. \A w \in Workers : pc'[w] \in WorkerSteps
  BY <1>1, <1>3 DEF WorkerSteps
<1>7. \A w \in Workers : pc'[w] \in {"run", "notify"} <=> pc[w] \in {"run", "notify"}
  BY <1>2, <1>3, <1>4
<1> QED BY <1>1, <1>2, <1>5, <1>6, <1>7, PcStep

\* Wait stops the pool at once only when nothing is left to do.
LEMMA WaitKeeps ==
  ASSUME PoolInv, Wait
  PROVE  PoolInv'
<1>1. /\ pc' = [pc EXCEPT ![Owner] = "notifyAll"]
      /\ UNCHANGED <<tasks, busyThreads, fresh, current>>
      /\ pc \in [Threads -> OwnerSteps \cup WorkerSteps]
      /\ \A w \in Workers : pc[w] \in WorkerSteps
      /\ state' \in {"Stopping", "Stopped"}
  BY DEF Wait, PoolInv, TypeOK
<1>2. pc'[Owner] = "notifyAll" /\ \A w \in Workers : pc'[w] = pc[w]
  BY <1>1, PoolAssumption DEF Threads
<1>3. pc' \in [Threads -> OwnerSteps \cup WorkerSteps]
  BY <1>1 DEF OwnerSteps
<1>4. TypeOK'
  BY <1>1, <1>2, <1>3 DEF PoolInv, TypeOK, OwnerSteps
<1>5. Bookkeeping'
  BY <1>1, <1>2, RunningUnchanged DEF PoolInv, Bookkeeping
<1>6. state' = "Stopped" <=> tasks = {} /\ busyThreads = 0
  BY DEF Wait, IsReadyToStop
<1> QED BY <1>1, <1>4, <1>5, <1>6 DEF PoolInv

\* What notify_all leaves: the exiting threads have left, the sleepers are awake.
LEMMA NotifyAllEffect ==
  ASSUME TypeOK, NEW exiting \in SUBSET Workers
  PROVE  /\ NotifyAll(exiting) \in [Threads -> OwnerSteps \cup WorkerSteps]
         /\ NotifyAll(exiting)[Owner] = pc[Owner]
         /\ \A w \in Workers : NotifyAll(exiting)[w] =
              IF w \in exiting THEN "exited" ELSE IF pc[w] = "sleep" THEN "wait" ELSE pc[w]
<1>1. /\ pc \in [Threads -> OwnerSteps \cup WorkerSteps]
      /\ pc[Owner] \in OwnerSteps
  BY DEF TypeOK
<1>2. NotifyAll(exiting) \in [Threads -> OwnerSteps \cup WorkerSteps]
  BY <1>1 DEF NotifyAll, WorkerSteps
<1>3. NotifyAll(exiting)[Owner] = pc[Owner]
  BY <1>1, PoolAssumption DEF NotifyAll, Threads, OwnerSteps
<1>4. \A w \in Workers : NotifyAll(exiting)[w] =
        IF w \in exiting THEN "exited" ELSE IF pc[w] = "sleep" THEN "wait" ELSE pc[w]
  BY DEF NotifyAll, Threads
<1> QED BY <1>2, <1>3, <1>4

LEMMA WaitNotifyAllStep ==
  ASSUME PoolInv, WaitNotifyAll
  PROVE  PoolInv'
<1>1. /\ UNCHANGED <<state, tasks, busyThreads, fresh, current>>
      /\ pc' = [NotifyAll({}) EXCEPT ![Owner] = "join"]
      /\ tasks \in SUBSET Tasks /\ fresh \in SUBSET (Tasks \ tasks)
      /\ \A w \in Workers : pc[w] \in WorkerSteps
      /\ TypeOK
  BY DEF WaitNotifyAll, PoolInv, TypeOK
<1>2. /\ NotifyAll({}) \in [Threads -> OwnerSteps \cup WorkerSteps]
      /\ \A w \in Workers : NotifyAll({})[w] = IF pc[w] = "sleep" THEN "wait" ELSE pc[w]
  BY <1>1, NotifyAllEffect, {} \in SUBSET Workers
<1>3. pc'[Owner] = "join" /\ \A w \in Workers : pc'[w] = IF pc[w] = "sleep" THEN "wait" ELSE pc[w]
  BY <1>1, <1>2, PoolAssumption DEF Threads
<1>4. pc' \in [Threads -> OwnerSteps \cup WorkerSteps]
  BY <1>1, <1>2 DEF OwnerSteps
<1>5. pc'[Owner] \in OwnerSteps /\ \A w \in Workers : pc'[w] \in WorkerSteps
  BY <1>1, <1>3 DEF OwnerSteps, WorkerSteps
<1>6. \A w \in Workers : pc'[w] \in {"run", "notify"} <=> pc[w] \in {"run", "notify"}
  BY <1>3
<1>7. pc'[Owner] \notin {"submit", "notify"}
  BY <1>3
<1> QED BY <1>1, <1>4, <1>5, <1>6, <1>7, PcStep

LEMMA JoinStep ==
  ASSUME PoolInv, Join
  PROVE  PoolInv'
<1>1. /\ UNCHANGED <<state, tasks, busyThreads, fresh, current>>
      /\ pc' = [pc EXCEPT ![Owner] = "done"]
      /\ tasks \in SUBSET Tasks /\ fresh \in SUBSET (Tasks \ tasks)
      /\ pc \in [Threads -> OwnerSteps \cup WorkerSteps]
      /\ \A w \in Workers : pc[w] \in WorkerSteps
  BY DEF Join, PoolInv, TypeOK
<1>2. pc'[Owner] = "done" /\ \A w \in Workers : pc'[w] = pc[w]
  BY <1>1, PoolAssumption DEF Threads
<1>3. pc' \in [Threads -> OwnerSteps \cup WorkerSteps] /\ pc'[Owner] \in OwnerSteps
  BY <1>1, <1>2 DEF OwnerSteps
<1> QED BY <1>1, <1>2, <1>3, PcStep

\* Going to sleep, waking for no reason and leaving a stopped pool.
LEMMA IdleStep ==
  ASSUME PoolInv, NEW w \in Workers, Sleep(w) \/ SpuriousWakeup(w) \/ Exit(w)
  PROVE  PoolInv'
<1>1. /\ UNCHANGED <<state, tasks, busyThreads, fresh, current>>
      /\ pc[w] \in {"wait", "sleep"}
      /\ \E s \in {"sleep", "wait", "exited"} : pc' = [pc EXCEPT ![w] = s]
  BY DEF Sleep, SpuriousWakeup, Exit
<1>2. /\ tasks \in SUBSET Tasks /\ fresh \in SUBSET (Tasks \ tasks)
      /\ pc \in [Threads -> OwnerSteps \cup WorkerSteps]
      /\ pc[Owner] \in OwnerSteps /\ \A v \in Workers : pc[v] \in WorkerSteps
  BY DEF PoolInv, TypeOK
<1>3. PICK s \in {"sleep", "wait", "exited"} : pc' = [pc EXCEPT ![w] = s]
  BY <1>1
<1>4. pc'[Owner] = pc[Owner] /\ \A v \in Workers : pc'[v] = IF v = w THEN s ELSE pc[v]
  BY <1>2, <1>3, PoolAssumption DEF Threads
<1>5. pc' \in [Threads -> OwnerSteps \cup WorkerSteps]
  BY <1>2, <1>3 DEF WorkerSteps
<1>6. pc'[Owner] \in OwnerSteps /\ \A v \in Workers : pc'[v] \in WorkerSteps
  BY <1>2, <1>4 DEF WorkerSteps
<1>7. \A v \in Workers : pc'[v] \in {"run", "notify"} <=> pc[v] \in {"run", "notify"}
  BY <1>1, <1>4
<1> QED BY <1>1, <1>2, <1>4, <1>5, <1>6, <1>7, PcStep

\* Taking a task counts the worker as busy under the same lock.
LEMMA TakeStep ==
  ASSUME PoolInv, NEW w \in Workers, Take(w)
  PROVE  PoolInv'
<1>1. PICK t \in MostUrgent : tasks' = tasks \ {t} /\ current' = [current EXCEPT ![w] = t]
  BY DEF Take
<1>2. /\ pc[w] = "wait" /\ state # "Stopped" /\ tasks \in SUBSET Tasks
      /\ busyThreads' = busyThreads + 1
      /\ pc' = [pc EXCEPT ![w] = "run"]
      /\ UNCHANGED <<state, fresh>>
      /\ pc \in [Threads -> OwnerSteps \cup WorkerSteps]
      /\ pc[Owner] \in OwnerSteps /\ \A v \in Workers : pc[v] \in WorkerSteps
      /\ current \in [Workers -> Tasks \cup {NoTask}]
      /\ TypeOK /\ Bookkeeping
  BY DEF Take, PoolInv, TypeOK
<1>3. t \in Tasks /\ t # NoTask
  BY <1>2, PoolAssumption DEF MostUrgent
<1>4. current[w] = NoTask
  BY <1>2 DEF Bookkeeping
<1>5. busyThreads' = Cardinality(Running') /\ busyThreads' \in 0..Cardinality(Workers)
  BY <1>1, <1>2, <1>3, <1>4, RunningChanges, RunningFinite DEF Bookkeeping
<1>6. busyThreads' # 0
  BY <1>2 DEF TypeOK
<1>7. pc'[Owner] = pc[Owner] /\ \A v \in Workers : pc'[v] = IF v = w THEN "run" ELSE pc[v]
  BY <1>2, PoolAssumption DEF Threads
<1>8. /\ pc' \in [Threads -> OwnerSteps \cup WorkerSteps]
      /\ pc'[Owner] \in OwnerSteps /\ \A v \in Workers : pc'[v] \in WorkerSteps
  BY <1>2, <1>7 DEF WorkerSteps
<1>9. current' \in [Workers -> Tasks \cup {NoTask}]
  BY <1>1, <1>2, <1>3
<1>10. TypeOK'
  BY <1>1, <1>2, <1>5, <1>8, <1>9 DEF TypeOK
<1>11. Bookkeeping'
  BY <1>1, <1>2, <1>3, <1>5, <1>7 DEF Bookkeeping
<1> QED BY <1>2, <1>6, <1>10, <1>11 DEF PoolInv

\* What returning from a task leaves: the worker waits again, or has left a pool that
\* it stopped, and a sleeper may be awake.
LEMMA DoneEffect ==
  ASSUME TypeOK, NEW w \in Workers, Done(w)
  PROVE  /\ pc' \in [Threads -> OwnerSteps \cup WorkerSteps]
         /\ pc'[Owner] = pc[Owner]
         /\ \A v \in Workers : v # w => pc'[v] = pc[v] \/ (pc[v] = "sleep" /\ pc'[v] = "wait")
         /\ pc'[w] = "wait" \/ (pc'[w] = "exited" /\ state' = "Stopped")
<1> DEFINE stop == state # "Running" /\ tasks = {} /\ busyThreads - 1 = 0
<1>1. /\ state' = IF stop THEN "Stopped" ELSE state
      /\ pc' = IF stop THEN NotifyAll({w}) ELSE [pc EXCEPT ![w] = "wait"]
  BY DEF Done, IsReadyToStop
<1>2. pc \in [Threads -> OwnerSteps \cup WorkerSteps]
  BY DEF TypeOK
<1>3. CASE stop
  <2>1. pc' = NotifyAll({w}) /\ {w} \in SUBSET Workers /\ state' = "Stopped"
    BY <1>1, <1>3
  <2>2. pc'[w] = "exited"
    BY <2>1, NotifyAllEffect
  <2>3. \A v \in Workers : v # w => pc'[v] = pc[v] \/ (pc[v] = "sleep" /\ pc'[v] = "wait")
    BY <2>1, NotifyAllEffect
  <2> QED BY <2>1, <2>2, <2>3, NotifyAllEffect
<1>4. CASE ~stop
  <2>1. pc' = [pc EXCEPT ![w] = "wait"]
    BY <1>1, <1>4
  <2> QED BY <1>2, <2>1, PoolAssumption DEF Threads, WorkerSteps
<1> QED BY <1>3, <1>4

\* Returning from a task uncounts the worker, and the pool is stopped exactly when
\* Wait has been called and nothing is left.
LEMMA DoneStep ==
  ASSUME PoolInv, NEW w \in Workers, Done(w)
  PROVE  PoolInv'
<1> DEFINE stop == state # "Running" /\ tasks = {} /\ busyThreads - 1 = 0
<1>1. /\ pc[w] = "run" /\ busyThreads' = busyThreads - 1
      /\ current' = [current EXCEPT ![w] = NoTask]
      /\ state' = IF stop THEN "Stopped" ELSE state
      /\ UNCHANGED <<tasks, fresh>>
  BY DEF Done, IsReadyToStop
<1>2. /\ TypeOK /\ Bookkeeping /\ busyThreads \in Nat
      /\ pc \in [Threads -> OwnerSteps \cup WorkerSteps]
      /\ pc[Owner] \in OwnerSteps /\ \A v \in Workers : pc[v] \in WorkerSteps
      /\ current \in [Workers -> Tasks \cup {NoTask}]
      /\ state \in {"Running", "Stopping", "Stopped"}
  BY DEF PoolInv, TypeOK
<1>3. current[w] # NoTask
  BY <1>1, <1>2 DEF Bookkeeping
<1>4. busyThreads' = Cardinality(Running') /\ busyThreads' \in 0..Cardinality(Workers)
  BY <1>1, <1>2, <1>3, RunningChanges, RunningFinite DEF Bookkeeping
<1>5. busyThreads # 0
  BY <1>1, <1>4
<1>6. /\ pc' \in [Threads -> OwnerSteps \cup WorkerSteps]
      /\ pc'[Owner] = pc[Owner]
      /\ \A v \in Workers : v # w => pc'[v] = pc[v] \/ (pc[v] = "sleep" /\ pc'[v] = "wait")
      /\ pc'[w] \in {"exited", "wait"}
  BY <1>2, DoneEffect
<1>7. pc'[Owner] \in OwnerSteps /\ \A v \in Workers : pc'[v] \in WorkerSteps
  BY <1>2, <1>6 DEF WorkerSteps
<1>8. current' \in [Workers -> Tasks \cup {NoTask}]
  BY <1>1, <1>2
<1>9. state' \in {"Running", "Stopping", "Stopped"}
  BY <1>1, <1>2
<1>10. TypeOK'
  BY <1>1, <1>2, <1>4, <1>6, <1>7, <1>8, <1>9 DEF TypeOK
<1>11. \A v \in Workers : current'[v] # NoTask <=> pc'[v] \in {"run", "notify"}
  BY <1>1, <1>2, <1>6 DEF Bookkeeping
<1>12. pc'[Owner] \in {"submit", "notify"} => state' = "Running"
  BY <1>1, <1>2, <1>6 DEF Bookkeeping
<1>13. Bookkeeping'
  BY <1>4, <1>11, <1>12 DEF Bookkeeping
<1>14. state # "Stopped"
  BY <1>5 DEF PoolInv
<1>15. state' = "Stopped" => tasks' = {} /\ busyThreads' = 0
  BY <1>1, <1>14
<1>16. state' = "Stopping" => tasks' # {} \/ busyThreads' # 0
  BY <1>1, <1>14
<1> QED BY <1>10, <1>13, <1>15, <1>16 DEF PoolInv

-----------------------------------------------------------------------------
(* The theorems *)

LEMMA PoolNext == PoolInv /\ [Next]_vars => PoolInv'
<1> SUFFICES ASSUME PoolInv, [Next]_vars PROVE PoolInv'
  OBVIOUS
<1>1. CASE UNCHANGED vars
  <2>1. Running' = Running
    BY <1>1, RunningUnchanged DEF vars
  <2> QED BY <1>1, <2>1 DEF vars, PoolInv, TypeOK, Bookkeeping
<1>2. CASE WaitStep
  BY <1>2, NotifyStep, WaitNotifyAllStep, JoinStep DEF WaitStep, Threads
<1>3. CASE Wait
  BY <1>3, WaitKeeps
<1>4. CASE \E th \in Threads, t \in Tasks : Enqueue(th, t)
  BY <1>4, EnqueueStep
<1>5. ASSUME NEW w \in Workers, LoopStep(w) PROVE PoolInv'
  BY <1>5, TakeStep, IdleStep, NotifyStep DEF LoopStep, Threads
<1>6. ASSUME NEW w \in Workers, Done(w) PROVE PoolInv'
  BY <1>6, DoneStep
<1>7. ASSUME NEW w \in Workers, SpuriousWakeup(w) PROVE PoolInv'
  BY <1>7, IdleStep
<1> QED BY <1>1, <1>2, <1>3, <1>4, <1>5, <1>6, <1>7 DEF Next, Finished

LEMMA PoolInvariant == Spec => []PoolInv
BY PoolInit, PoolNext, PTL DEF Spec

\* The pool's variables stay in their domains; busy_threads_ never underflows and
\* never exceeds the number of workers.
THEOREM PoolTypeCorrect == Spec => []TypeOK
<1>1. PoolInv => TypeOK
  BY DEF PoolInv
<1> QED BY <1>1, PoolInvariant, PTL

\* A pool is stopped only once every task enqueued before or during Wait has been
\* run, and neither CHECK of the pool can fail.
THEOREM PoolDrained == Spec => []StoppedIsDrained
<1>1. PoolInv => StoppedIsDrained
  <2> SUFFICES ASSUME PoolInv, state = "Stopped"
               PROVE  tasks = {} /\ Running = {} /\ ~\E th \in Threads : MayEnqueue(th)
    BY DEF StoppedIsDrained
  <2>1. tasks = {} /\ Running = {}
    BY RunningFinite DEF PoolInv, Bookkeeping
  <2>2. ~MayEnqueue(Owner)
    BY DEF PoolInv, Bookkeeping, MayEnqueue
  <2>3. ASSUME NEW w \in Workers PROVE ~MayEnqueue(w)
    <3>1. current[w] = NoTask
      BY <2>1 DEF Running
    <3>2. pc[w] # "run"
      BY <3>1 DEF PoolInv, Bookkeeping
    <3> QED BY <3>2, PoolAssumption DEF MayEnqueue
  <2> QED BY <2>1, <2>2, <2>3 DEF Threads
<1> QED BY <1>1, PoolInvariant, PTL

\* A pool that Wait has found busy is never left stopping with nothing to do.
THEOREM PoolStops == Spec => []StoppingHasWork
<1>1. PoolInv => StoppingHasWork
  BY RunningFinite DEF PoolInv, Bookkeeping, StoppingHasWork
<1> QED BY <1>1, PoolInvariant, PTL

-----------------------------------------------------------------------------
(* A task wakes a worker *)

AwakeWorkers == {w \in Workers : pc[w] = "wait"}
Notifiers == {th \in Threads : pc[th] = "notify"}

\* Beside the promise itself, that it counts a finite set of tasks.
IdleInv == IsFiniteSet(tasks) /\ NoIdleWorker

LEMMA IdleMeaning ==
  /\ NoIdleWorker <=>
       (Sleepers # {} => Cardinality(tasks) <= Cardinality(AwakeWorkers) + Cardinality(Notifiers))
  /\ NoIdleWorker' <=>
       (Sleepers' # {} => Cardinality(tasks') <= Cardinality(AwakeWorkers') + Cardinality(Notifiers'))
BY DEF NoIdleWorker, AwakeWorkers, Notifiers

LEMMA CountsFinite ==
  /\ IsFiniteSet(AwakeWorkers) /\ IsFiniteSet(AwakeWorkers')
  /\ IsFiniteSet(Notifiers) /\ IsFiniteSet(Notifiers')
  /\ Cardinality(AwakeWorkers) \in Nat /\ Cardinality(AwakeWorkers') \in Nat
  /\ Cardinality(Notifiers) \in Nat /\ Cardinality(Notifiers') \in Nat
<1>1. IsFiniteSet(Workers) /\ IsFiniteSet(Threads)
  BY PoolAssumption, FS_AddElement DEF Threads
<1>2. /\ AwakeWorkers \subseteq Workers /\ AwakeWorkers' \subseteq Workers
      /\ Notifiers \subseteq Threads /\ Notifiers' \subseteq Threads
  BY DEF AwakeWorkers, Notifiers
<1>3. /\ IsFiniteSet(AwakeWorkers) /\ IsFiniteSet(AwakeWorkers')
      /\ IsFiniteSet(Notifiers) /\ IsFiniteSet(Notifiers')
  BY <1>1, <1>2, FS_Subset
<1> QED BY <1>3, FS_CardinalityType

\* With nobody asleep, or nothing queued, nothing is promised.
LEMMA NothingPromised ==
  ASSUME IsFiniteSet(tasks'), Sleepers' = {} \/ tasks' = {}
  PROVE  IdleInv'
<1>1. tasks' = {} => Cardinality(tasks') = 0
  BY FS_EmptySet
<1>2. Sleepers' # {} => Cardinality(tasks') <= Cardinality(AwakeWorkers') + Cardinality(Notifiers')
  <2>1. Cardinality(AwakeWorkers') + Cardinality(Notifiers') >= 0
    BY CountsFinite
  <2> QED BY <1>1, <2>1
<1> QED BY <1>2, IdleMeaning DEF IdleInv

\* A step that takes nobody's place, and puts nobody to sleep, keeps the promise.
LEMMA NobodyLost ==
  ASSUME IdleInv, tasks' = tasks, Sleepers' \subseteq Sleepers,
         AwakeWorkers \subseteq AwakeWorkers', Notifiers \subseteq Notifiers'
  PROVE  IdleInv'
<1>1. /\ Cardinality(AwakeWorkers) <= Cardinality(AwakeWorkers')
      /\ Cardinality(Notifiers) <= Cardinality(Notifiers')
  BY CountsFinite, FS_Subset
<1>2. Cardinality(tasks) \in Nat
  BY FS_CardinalityType DEF IdleInv
<1>3. Sleepers' # {} => Cardinality(tasks') <= Cardinality(AwakeWorkers') + Cardinality(Notifiers')
  BY <1>1, <1>2, CountsFinite, IdleMeaning DEF IdleInv
<1> QED BY <1>3, IdleMeaning DEF IdleInv

LEMMA EnqueueNotifies ==
  ASSUME PoolInv, IdleInv, NEW th \in Threads, NEW t \in Tasks, Enqueue(th, t)
  PROVE  IdleInv'
<1>1. /\ tasks' = tasks \cup {t} /\ t \notin tasks
      /\ pc' = [pc EXCEPT ![th] = "notify"] /\ pc[th] \in {"submit", "run"}
      /\ pc \in [Threads -> OwnerSteps \cup WorkerSteps]
  BY DEF Enqueue, MayEnqueue, PoolInv, TypeOK
<1>2. IsFiniteSet(tasks') /\ Cardinality(tasks') = Cardinality(tasks) + 1 /\ Cardinality(tasks) \in Nat
  BY <1>1, FS_AddElement, FS_CardinalityType DEF IdleInv
<1>3. Notifiers' = Notifiers \cup {th} /\ th \notin Notifiers
  BY <1>1 DEF Notifiers
<1>4. Cardinality(Notifiers') = Cardinality(Notifiers) + 1
  BY <1>3, CountsFinite, FS_AddElement
<1>5. AwakeWorkers' = AwakeWorkers /\ Sleepers' = Sleepers
  BY <1>1 DEF AwakeWorkers, Sleepers, Threads
<1>6. Sleepers' # {} => Cardinality(tasks') <= Cardinality(AwakeWorkers') + Cardinality(Notifiers')
  BY <1>2, <1>4, <1>5, CountsFinite, IdleMeaning DEF IdleInv
<1> QED BY <1>2, <1>6, IdleMeaning DEF IdleInv

\* The notification wakes a worker in the notifier's place.
LEMMA NotifyWakes ==
  ASSUME PoolInv, IdleInv, NEW th \in Threads, Notify(th)
  PROVE  IdleInv'
<1> DEFINE returned == [pc EXCEPT ![th] = IF th = Owner THEN "submit" ELSE "run"]
<1>1. /\ tasks' = tasks /\ pc[th] = "notify"
      /\ pc \in [Threads -> OwnerSteps \cup WorkerSteps]
  BY DEF Notify, PoolInv, TypeOK
<1>2. CASE Sleepers = {}
  <2>1. pc' = returned
    BY <1>2 DEF Notify
  <2>2. Sleepers' = {}
    BY <1>1, <1>2, <2>1 DEF Sleepers, Threads
  <2> QED BY <1>1, <2>2, NothingPromised DEF IdleInv
<1>3. CASE Sleepers # {}
  <2>1. PICK w \in Sleepers : pc' = [returned EXCEPT ![w] = "wait"]
    BY <1>3 DEF Notify
  <2>2. w \in Workers /\ pc[w] = "sleep" /\ w # th /\ w \in Threads /\ w # Owner
    BY <1>1, PoolAssumption DEF Sleepers, Threads
  <2>3. \A u \in Threads : pc'[u] = IF u = w THEN "wait"
                                    ELSE IF u = th THEN IF th = Owner THEN "submit" ELSE "run"
                                    ELSE pc[u]
    BY <1>1, <2>1, <2>2
  <2>4. Notifiers' = Notifiers \ {th} /\ th \in Notifiers
    BY <1>1, <2>2, <2>3 DEF Notifiers
  <2>5. AwakeWorkers' = AwakeWorkers \cup {w} /\ w \notin AwakeWorkers
    BY <1>1, <2>2, <2>3 DEF AwakeWorkers, Threads
  <2>6. /\ Cardinality(Notifiers') = Cardinality(Notifiers) - 1
        /\ Cardinality(AwakeWorkers') = Cardinality(AwakeWorkers) + 1
    BY <2>4, <2>5, CountsFinite, FS_AddElement, FS_RemoveElement
  <2>7. Cardinality(tasks) \in Nat
    BY FS_CardinalityType DEF IdleInv
  <2>8. Sleepers' # {} => Cardinality(tasks') <= Cardinality(AwakeWorkers') + Cardinality(Notifiers')
    BY <1>1, <1>3, <2>6, <2>7, CountsFinite, IdleMeaning DEF IdleInv
  <2> QED BY <1>1, <2>8, IdleMeaning DEF IdleInv
<1> QED BY <1>2, <1>3

\* A worker that takes a task was awake for it.
LEMMA TakeCounted ==
  ASSUME PoolInv, IdleInv, NEW w \in Workers, Take(w)
  PROVE  IdleInv'
<1>1. PICK t \in tasks : tasks' = tasks \ {t}
  BY DEF Take, MostUrgent
<1>2. /\ pc[w] = "wait" /\ pc' = [pc EXCEPT ![w] = "run"]
      /\ pc \in [Threads -> OwnerSteps \cup WorkerSteps]
  BY DEF Take, PoolInv, TypeOK
<1>3. IsFiniteSet(tasks') /\ Cardinality(tasks') = Cardinality(tasks) - 1 /\ Cardinality(tasks) \in Nat
  BY <1>1, FS_RemoveElement, FS_CardinalityType DEF IdleInv
<1>4. AwakeWorkers' = AwakeWorkers \ {w} /\ w \in AwakeWorkers
  BY <1>2 DEF AwakeWorkers, Threads
<1>5. Notifiers' = Notifiers /\ Sleepers' = Sleepers
  BY <1>2 DEF Notifiers, Sleepers, Threads
<1>6. Cardinality(AwakeWorkers') = Cardinality(AwakeWorkers) - 1
  BY <1>4, CountsFinite, FS_RemoveElement
<1>7. Sleepers' # {} => Cardinality(tasks') <= Cardinality(AwakeWorkers') + Cardinality(Notifiers')
  BY <1>3, <1>5, <1>6, CountsFinite, IdleMeaning DEF IdleInv
<1> QED BY <1>3, <1>7, IdleMeaning DEF IdleInv

LEMMA IdleStays == PoolInv /\ IdleInv /\ [Next]_vars => IdleInv'
<1> SUFFICES ASSUME PoolInv, IdleInv, [Next]_vars PROVE IdleInv'
  OBVIOUS
<1>1. /\ pc \in [Threads -> OwnerSteps \cup WorkerSteps]
      /\ Owner \in Threads /\ Owner \notin Workers /\ \A w \in Workers : w \in Threads
      /\ TypeOK
  BY PoolAssumption DEF PoolInv, TypeOK, Threads
<1>2. ASSUME UNCHANGED vars PROVE IdleInv'
  BY <1>2, NobodyLost DEF vars, Sleepers, AwakeWorkers, Notifiers
<1>3. ASSUME NEW s \in {"notifyAll", "done"}, pc' = [pc EXCEPT ![Owner] = s], tasks' = tasks,
             pc[Owner] # "notify"
      PROVE  IdleInv'
  BY <1>1, <1>3, NobodyLost DEF Sleepers, AwakeWorkers, Notifiers
<1>4. CASE WaitNotifyAll
  <2>1. \A w \in Workers : NotifyAll({})[w] = IF pc[w] = "sleep" THEN "wait" ELSE pc[w]
    BY <1>1, NotifyAllEffect, {} \in SUBSET Workers
  <2>2. pc' = [NotifyAll({}) EXCEPT ![Owner] = "join"] /\ tasks' = tasks
    BY <1>4 DEF WaitNotifyAll
  <2>3. Sleepers' = {}
    BY <1>1, <2>1, <2>2 DEF Sleepers, NotifyAll
  <2> QED BY <2>2, <2>3, NothingPromised DEF IdleInv
<1>5. ASSUME NEW w \in Workers, Sleep(w) \/ Exit(w) PROVE IdleInv'
  <2>1. tasks' = tasks /\ tasks = {}
    BY <1>5 DEF Sleep, Exit
  <2> QED BY <2>1, NothingPromised DEF IdleInv
<1>6. ASSUME NEW w \in Workers, SpuriousWakeup(w) PROVE IdleInv'
  <2>1. pc[w] = "sleep" /\ pc' = [pc EXCEPT ![w] = "wait"] /\ tasks' = tasks
    BY <1>6 DEF SpuriousWakeup
  <2> QED BY <1>1, <2>1, NobodyLost DEF Sleepers, AwakeWorkers, Notifiers
<1>7. ASSUME NEW w \in Workers, Done(w) PROVE IdleInv'
  <2>1. /\ pc'[Owner] = pc[Owner]
        /\ \A v \in Workers : v # w => pc'[v] = pc[v] \/ (pc[v] = "sleep" /\ pc'[v] = "wait")
        /\ pc'[w] \in {"wait", "exited"}
    BY <1>1, <1>7, DoneEffect
  <2>2. pc[w] = "run" /\ tasks' = tasks
    BY <1>7 DEF Done
  <2>3. Sleepers' \subseteq Sleepers
    BY <2>1 DEF Sleepers
  <2>4. AwakeWorkers \subseteq AwakeWorkers' /\ Notifiers \subseteq Notifiers'
    BY <2>1, <2>2 DEF AwakeWorkers, Notifiers, Threads
  <2> QED BY <2>2, <2>3, <2>4, NobodyLost
<1>8. CASE Join
  BY <1>3, <1>8 DEF Join
<1>9. CASE Wait
  BY <1>3, <1>9 DEF Wait
<1>10. CASE WaitStep
  BY <1>1, <1>4, <1>8, <1>10, NotifyWakes DEF WaitStep
<1>11. ASSUME NEW w \in Workers, LoopStep(w) PROVE IdleInv'
  BY <1>1, <1>5, <1>11, NotifyWakes, TakeCounted DEF LoopStep
<1>12. CASE \E th \in Threads, t \in Tasks : Enqueue(th, t)
  BY <1>12, EnqueueNotifies
<1> QED BY <1>2, <1>6, <1>7, <1>9, <1>10, <1>11, <1>12 DEF Next, Finished

\* For every queued task a worker is awake or about to be woken while any other sleeps,
\* with any number of workers and tasks.
THEOREM PoolNotIdle == Spec => []NoIdleWorker
<1>1. Init => IdleInv
  <2> SUFFICES ASSUME Init PROVE IdleInv
    OBVIOUS
  <2>1. tasks = {} /\ Sleepers = {}
    BY PoolAssumption DEF Init, Sleepers, Threads
  <2> QED BY <2>1, FS_EmptySet, IdleMeaning DEF IdleInv
<1>2. IdleInv => NoIdleWorker
  BY DEF IdleInv
<1> QED BY <1>1, <1>2, IdleStays, PoolInvariant, PTL DEF Spec
=============================================================================
