----------------------- MODULE ColdbootModulesProofs -----------------------
(***************************************************************************)
(* Proofs about ColdbootModules, for any modules and any dependencies.     *)
(***************************************************************************)
EXTENDS ColdbootModules, ThreadPoolProofs, WellFoundedInduction

\* The modules known to the graph, and what each thread may be about to do.
ModulesTypeOK ==
  /\ uevents \in SUBSET Tasks
  /\ added \in SUBSET Tasks
  /\ loaded \in SUBSET added /\ failed \in SUBSET added /\ ready \in SUBSET added
  /\ step \in [Threads -> {"idle", "pop", "enqueue"}]
  /\ popped \in [Threads -> SUBSET added]

\* A thread is in the midst of EnqueueUevent or of a task only where the pool lets it
\* enqueue, and it is notified only from the loop over the ready modules.
StepsMatch ==
  /\ \A w \in Workers : step[w] # "idle" => pc[w] \in {"run", "notify"}
  /\ step[Owner] # "idle" => pc[Owner] \in {"submit", "notify"}
  /\ \A th \in Threads : popped[th] # {} => step[th] = "enqueue"
  /\ \A th \in Threads : pc[th] = "notify" => step[th] = "enqueue"

\* A module nobody has tried to load, whose dependencies are all in the kernel.
Pending(m) == m \in added \ (loaded \cup failed) /\ Deps[m] \subseteq loaded

\* A module that may be loaded is in one place at a time; a running one has been
\* tried exactly once its task has gone on to the graph.
Placed ==
  /\ \A m \in ready : Pending(m) /\ m \notin tasks
  /\ \A th \in Threads : \A m \in popped[th] :
       /\ Pending(m) /\ m \notin tasks /\ m \notin ready
       /\ \A u \in Threads : u # th => m \notin popped[u]
  /\ \A m \in tasks : Pending(m)
  /\ \A w \in Workers : current[w] # NoTask =>
       /\ current[w] \in added /\ Deps[current[w]] \subseteq loaded
       /\ current[w] \notin ready /\ current[w] \notin tasks
       /\ \A th \in Threads : current[w] \notin popped[th]
       /\ \A v \in Workers : v # w => current[v] # current[w]
       /\ current[w] \in loaded \cup failed <=> step[w] # "idle"

\* No module is forgotten: one that may be loaded is in the graph's list of ready
\* modules, with a thread, queued or running, and the list is empty unless a thread
\* is about to pop it.
NoneForgotten ==
  /\ \A m \in added : Deps[m] \subseteq added
  /\ \A m \in Tasks : Pending(m) =>
       \/ m \in ready
       \/ m \in tasks
       \/ \E th \in Threads : m \in popped[th]
       \/ \E w \in Workers : current[w] = m
  /\ Aliases \subseteq added \cup uevents
  /\ ready # {} => \E th \in Threads : step[th] = "pop"

\* Wait is called behind the last uevent, returns when every worker has left, and a
\* worker leaves only a stopped pool.
EndsInOrder ==
  /\ pc[Owner] \notin {"submit", "notify"} => uevents = {}
  /\ pc[Owner] = "done" => \A w \in Workers : pc[w] = "exited"
  /\ \A w \in Workers : pc[w] = "exited" => state = "Stopped"

\* The inductive invariant of the cold boot, beside that of the pool.
ModulesInv ==
  ModulesTypeOK /\ StepsMatch /\ Placed /\ NoneForgotten /\ EndsInOrder

\* Whatever the modalias handler does, a step of it is a step of the pool or leaves
\* the pool alone.
LEMMA PoolStep == [ModulesNext]_allVars => [Next]_vars
<1> SUFFICES ASSUME [ModulesNext]_allVars PROVE [Next]_vars
  OBVIOUS
<1>1. CASE UNCHANGED allVars
  BY <1>1 DEF allVars
<1>2. CASE OwnerStep
  <2>1. ASSUME NEW m \in Tasks, EnqueueUevent(m) PROVE UNCHANGED vars
    BY <2>1 DEF EnqueueUevent
  <2>2. ASSUME NEW m \in Tasks, EnqueueModule(Owner, m) PROVE Next
    BY <2>2 DEF EnqueueModule, Next, Threads
  <2>3. CASE PopReadyModules(Owner)
    BY <2>3 DEF PopReadyModules
  <2>4. CASE UeventEnqueued
    BY <2>4 DEF UeventEnqueued
  <2>5. CASE RunnerWait
    BY <2>5 DEF RunnerWait, Next
  <2>6. CASE WaitStep
    BY <2>6 DEF Next
  <2> QED BY <1>2, <2>1, <2>2, <2>3, <2>4, <2>5, <2>6 DEF OwnerStep
<1>3. ASSUME NEW w \in Workers, TaskStep(w) PROVE [Next]_vars
  <2>1. CASE InitModule(w)
    BY <2>1 DEF InitModule
  <2>2. CASE PopReadyModules(w)
    BY <2>2 DEF PopReadyModules
  <2>3. ASSUME NEW m \in Tasks, EnqueueModule(w, m) PROVE Next
    BY <2>3 DEF EnqueueModule, Next, Threads
  <2>4. CASE TaskDone(w)
    BY <2>4 DEF TaskDone, Next
  <2>5. CASE LoopStep(w)
    BY <2>5 DEF Next
  <2> QED BY <1>3, <2>1, <2>2, <2>3, <2>4, <2>5 DEF TaskStep
<1>4. ASSUME NEW w \in Workers, SpuriousWakeup(w) PROVE Next
  BY <1>4 DEF Next
<1>5. CASE Finished
  BY <1>5 DEF Next
<1> QED BY <1>1, <1>2, <1>3, <1>4, <1>5 DEF ModulesNext

\* The cold boot uses the pool as the pool allows, so that all that is proved of the
\* pool holds of the cold boot.
THEOREM ColdbootUsesPool == ModulesSpec => Spec
<1>1. ModulesInit => Init
  BY DEF ModulesInit
<1> QED BY <1>1, PoolStep, PTL DEF ModulesSpec, Spec

\* The cold boot never enqueues a module into a stopped pool.
THEOREM ColdbootDrained == ModulesSpec => []StoppedIsDrained
BY ColdbootUsesPool, PoolDrained, PTL

-----------------------------------------------------------------------------
(* The initial state and the steps *)

LEMMA ModulesInitial == ModulesInit => ModulesInv
<1> SUFFICES ASSUME ModulesInit PROVE ModulesInv
  OBVIOUS
<1>1. /\ uevents = Aliases /\ added = {} /\ loaded = {} /\ failed = {} /\ ready = {}
      /\ step = [th \in Threads |-> "idle"] /\ popped = [th \in Threads |-> {}]
      /\ tasks = {} /\ current = [w \in Workers |-> NoTask]
      /\ pc[Owner] = "submit" /\ \A w \in Workers : pc[w] = "wait"
  BY PoolAssumption DEF ModulesInit, Init, Threads
<1>2. ModulesTypeOK
  BY <1>1, DepsAssumption DEF ModulesTypeOK
<1>3. StepsMatch
  BY <1>1 DEF StepsMatch, Threads
<1>4. Placed
  BY <1>1 DEF Placed
<1>5. NoneForgotten
  BY <1>1 DEF NoneForgotten, Pending
<1>6. EndsInOrder
  BY <1>1 DEF EndsInOrder
<1> QED BY <1>2, <1>3, <1>4, <1>5, <1>6 DEF ModulesInv

\* A step that moves nothing but threads, and takes none of them out of the loop over
\* its ready modules, keeps the invariant.
LEMMA ThreadsMove ==
  ASSUME ModulesInv, UNCHANGED <<moduleVars, tasks, current>>,
         \A w \in Workers : pc[w] \in {"run", "notify"} => pc'[w] \in {"run", "notify"},
         \/ pc[Owner] \in {"submit", "notify"} => pc'[Owner] \in {"submit", "notify"}
         \/ uevents = {} /\ step[Owner] = "idle",
         \A th \in Threads : pc'[th] = "notify" => pc[th] = "notify",
         pc'[Owner] = "done" => \A w \in Workers : pc'[w] = "exited",
         \A w \in Workers : pc'[w] = "exited" => state' = "Stopped"
  PROVE  ModulesInv'
<1>1. ModulesTypeOK'
  BY DEF ModulesInv, ModulesTypeOK, moduleVars
<1>2. StepsMatch'
  BY DEF ModulesInv, StepsMatch, moduleVars
<1>3. Placed'
  BY DEF ModulesInv, Placed, Pending, moduleVars
<1>4. NoneForgotten'
  BY DEF ModulesInv, NoneForgotten, Pending, moduleVars
<1>5. EndsInOrder'
  BY DEF ModulesInv, EndsInOrder, StepsMatch, moduleVars
<1> QED BY <1>1, <1>2, <1>3, <1>4, <1>5 DEF ModulesInv

\* The pool's own steps that leave its queue and its tasks alone: notifying, sleeping,
\* waking, leaving and the steps of Wait.
LEMMA NotifyMoves ==
  ASSUME PoolInv, ModulesInv, NEW th \in Threads, Notify(th), UNCHANGED moduleVars
  PROVE  ModulesInv'
<1>1. /\ UNCHANGED <<tasks, current, state>> /\ TypeOK
      /\ pc[Owner] = "done" => \A w \in Workers : pc[w] = "exited"
      /\ \A w \in Workers : pc[w] = "exited" => state = "Stopped"
  BY DEF Notify, PoolInv, ModulesInv, EndsInOrder
<1>2. /\ pc[th] = "notify"
      /\ pc'[Owner] = IF th = Owner THEN "submit" ELSE pc[Owner]
  BY <1>1, NotifyEffect
<1>3. PICK W \in SUBSET Sleepers : \A w \in Workers :
        pc'[w] = IF w \in W THEN "wait" ELSE IF w = th THEN "run" ELSE pc[w]
  BY <1>1, NotifyEffect
<1>4. \A w \in W : pc[w] = "sleep" /\ w \in Workers
  BY DEF Sleepers
<1>5. \A w \in Workers : pc[w] \in {"run", "notify"} => pc'[w] \in {"run", "notify"}
  BY <1>3, <1>4
<1>6. \A u \in Threads : pc'[u] = "notify" => pc[u] = "notify"
  BY <1>2, <1>3 DEF Threads
<1>7. pc[Owner] \in {"submit", "notify"} => pc'[Owner] \in {"submit", "notify"}
  BY <1>2
<1>8. \A w \in Workers : pc'[w] = "exited" => state' = "Stopped"
  BY <1>1, <1>3
<1>9. pc'[Owner] = "done" => \A w \in Workers : pc'[w] = "exited"
  <2> SUFFICES ASSUME pc'[Owner] = "done", NEW w \in Workers PROVE pc'[w] = "exited"
    OBVIOUS
  <2>1. pc[Owner] = "done" /\ pc[w] = "exited" /\ (th \in Workers => pc[th] = "exited")
    BY <1>1, <1>2
  <2> QED BY <2>1, <1>2, <1>3, <1>4
<1> QED BY <1>1, <1>5, <1>6, <1>7, <1>8, <1>9, ThreadsMove

LEMMA IdleMoves ==
  ASSUME PoolInv, ModulesInv, UNCHANGED moduleVars,
         NEW w \in Workers, Sleep(w) \/ SpuriousWakeup(w) \/ Exit(w)
  PROVE  ModulesInv'
<1>1. PICK s \in {"sleep", "wait", "exited"} :
        pc' = [pc EXCEPT ![w] = s] /\ (s = "exited" => state = "Stopped")
  BY DEF Sleep, SpuriousWakeup, Exit
<1>2. /\ UNCHANGED <<tasks, current, state>>
      /\ pc[w] \in {"wait", "sleep"}
      /\ pc \in [Threads -> OwnerSteps \cup WorkerSteps]
      /\ pc[Owner] = "done" => \A v \in Workers : pc[v] = "exited"
      /\ \A v \in Workers : pc[v] = "exited" => state = "Stopped"
  BY DEF Sleep, SpuriousWakeup, Exit, PoolInv, TypeOK, ModulesInv, EndsInOrder
<1>3. pc'[Owner] = pc[Owner] /\ \A v \in Workers : pc'[v] = IF v = w THEN s ELSE pc[v]
  BY <1>1, <1>2, PoolAssumption DEF Threads
<1>4. \A v \in Workers : pc[v] \in {"run", "notify"} => pc'[v] \in {"run", "notify"}
  BY <1>2, <1>3
<1>5. \A th \in Threads : pc'[th] = "notify" => pc[th] = "notify"
  BY <1>3 DEF Threads
<1>6. pc'[Owner] = "done" => \A v \in Workers : pc'[v] = "exited"
  BY <1>2, <1>3
<1>7. \A v \in Workers : pc'[v] = "exited" => state' = "Stopped"
  BY <1>1, <1>2, <1>3
<1> QED BY <1>2, <1>3, <1>4, <1>5, <1>6, <1>7, ThreadsMove

LEMMA WaitMoves ==
  ASSUME PoolInv, ModulesInv, RunnerWait
  PROVE  ModulesInv'
<1>1. /\ uevents = {} /\ step[Owner] = "idle" /\ pc[Owner] = "submit"
      /\ pc' = [pc EXCEPT ![Owner] = "notifyAll"]
      /\ UNCHANGED <<tasks, current, moduleVars>>
      /\ pc \in [Threads -> OwnerSteps \cup WorkerSteps]
  BY DEF RunnerWait, Wait, PoolInv, TypeOK
<1>2. pc'[Owner] = "notifyAll" /\ \A w \in Workers : pc'[w] = pc[w]
  BY <1>1, PoolAssumption DEF Threads
<1>3. \A w \in Workers : pc'[w] = "exited" => state' = "Stopped"
  <2>1. state = "Running"
    BY <1>1 DEF PoolInv, Bookkeeping
  <2> QED BY <1>2, <2>1 DEF ModulesInv, EndsInOrder
<1>4. \A th \in Threads : pc'[th] = "notify" => pc[th] = "notify"
  BY <1>2 DEF Threads
<1> QED BY <1>1, <1>2, <1>3, <1>4, ThreadsMove

LEMMA WaitNotifyAllMoves ==
  ASSUME PoolInv, ModulesInv, WaitNotifyAll, UNCHANGED moduleVars
  PROVE  ModulesInv'
<1>1. /\ UNCHANGED <<state, tasks, current>>
      /\ pc' = [NotifyAll({}) EXCEPT ![Owner] = "join"]
      /\ pc[Owner] = "notifyAll" /\ TypeOK
      /\ \A w \in Workers : pc[w] = "exited" => state = "Stopped"
      /\ uevents = {} /\ step[Owner] = "idle"
  BY DEF WaitNotifyAll, PoolInv, ModulesInv, EndsInOrder, StepsMatch
<1>2. /\ NotifyAll({}) \in [Threads -> OwnerSteps \cup WorkerSteps]
      /\ \A w \in Workers : NotifyAll({})[w] = IF pc[w] = "sleep" THEN "wait" ELSE pc[w]
  BY <1>1, NotifyAllEffect, {} \in SUBSET Workers
<1>3. pc'[Owner] = "join" /\ \A w \in Workers : pc'[w] = IF pc[w] = "sleep" THEN "wait" ELSE pc[w]
  BY <1>1, <1>2, PoolAssumption DEF Threads
<1>4. \A th \in Threads : pc'[th] = "notify" => pc[th] = "notify"
  BY <1>3 DEF Threads
<1>5. \A w \in Workers : pc[w] \in {"run", "notify"} => pc'[w] \in {"run", "notify"}
  BY <1>3
<1>6. \A w \in Workers : pc'[w] = "exited" => state' = "Stopped"
  BY <1>1, <1>3
<1> QED BY <1>1, <1>3, <1>4, <1>5, <1>6, ThreadsMove

LEMMA JoinMoves ==
  ASSUME PoolInv, ModulesInv, Join, UNCHANGED moduleVars
  PROVE  ModulesInv'
<1>1. /\ UNCHANGED <<state, tasks, current>>
      /\ pc' = [pc EXCEPT ![Owner] = "done"]
      /\ pc[Owner] = "join" /\ \A w \in Workers : pc[w] = "exited"
      /\ pc \in [Threads -> OwnerSteps \cup WorkerSteps]
      /\ \A w \in Workers : pc[w] = "exited" => state = "Stopped"
  BY DEF Join, PoolInv, TypeOK, ModulesInv, EndsInOrder
<1>2. pc'[Owner] = "done" /\ \A w \in Workers : pc'[w] = pc[w]
  BY <1>1, PoolAssumption DEF Threads
<1>3. \A th \in Threads : pc'[th] = "notify" => pc[th] = "notify"
  BY <1>2 DEF Threads
<1> QED BY <1>1, <1>2, <1>3, ThreadsMove

-----------------------------------------------------------------------------
(* The steps of the modalias handler *)

\* A worker in the midst of its task has a module, and one that is waiting has none.
LEMMA TaskHasModule ==
  ASSUME PoolInv, ModulesInv, NEW w \in Workers
  PROVE  /\ pc[w] = "run" => current[w] # NoTask /\ current[w] \in Tasks
         /\ pc[w] = "wait" => current[w] = NoTask /\ step[w] = "idle"
BY DEF PoolInv, Bookkeeping, TypeOK, ModulesInv, StepsMatch

\* A uevent of the cold boot adds modules the graph has not seen.
LEMMA EnqueueUeventKeeps ==
  ASSUME PoolInv, ModulesInv, NEW m \in Tasks, EnqueueUevent(m)
  PROVE  ModulesInv'
<1> DEFINE new == ({m} \cup Deps[m]) \ added
<1>1. /\ pc[Owner] = "submit" /\ step[Owner] = "idle"
      /\ uevents' = uevents \ {m}
      /\ added' = added \cup new
      /\ ready' = ready \cup {n \in new : Deps[n] \subseteq loaded}
      /\ step' = [step EXCEPT ![Owner] = "pop"]
      /\ UNCHANGED <<loaded, failed, popped, state, tasks, pc, current>>
  BY DEF EnqueueUevent, AddModule, vars
<1>2. new \in SUBSET Tasks /\ new \cap added = {}
  BY DepsAssumption
<1>3. ModulesTypeOK'
  BY <1>1, <1>2 DEF ModulesInv, ModulesTypeOK
<1>4. \A th \in Threads : step'[th] = IF th = Owner THEN "pop" ELSE step[th]
  BY <1>1 DEF ModulesInv, ModulesTypeOK
<1>5. \A w \in Workers : step'[w] = step[w]
  BY <1>4, PoolAssumption DEF Threads
<1>6. step'[Owner] = "pop" /\ popped[Owner] = {} /\ pc[Owner] # "notify"
  BY <1>1, <1>4 DEF Threads, ModulesInv, StepsMatch
<1>7. StepsMatch'
  BY <1>1, <1>4, <1>5, <1>6 DEF ModulesInv, StepsMatch
<1>8. /\ ready \subseteq added /\ \A th \in Threads : popped[th] \subseteq added
      /\ loaded \subseteq added /\ failed \subseteq added
  BY DEF ModulesInv, ModulesTypeOK
<1>9. tasks \subseteq added
  BY DEF ModulesInv, Placed, Pending
<1>10. Placed'
  <2>1. \A n \in ready' : Pending(n)' /\ n \notin tasks
    BY <1>1, <1>2, <1>8, <1>9 DEF ModulesInv, Placed, Pending
  <2>2. \A th \in Threads : \A n \in popped[th] :
          /\ Pending(n)' /\ n \notin tasks /\ n \notin ready'
          /\ \A u \in Threads : u # th => n \notin popped[u]
    BY <1>1, <1>2, <1>8 DEF ModulesInv, Placed, Pending
  <2>3. \A n \in tasks : Pending(n)'
    BY <1>1, <1>2 DEF ModulesInv, Placed, Pending
  <2>4. \A w \in Workers : current[w] # NoTask =>
          /\ current[w] \in added' /\ Deps[current[w]] \subseteq loaded
          /\ current[w] \notin ready' /\ current[w] \notin tasks
          /\ \A th \in Threads : current[w] \notin popped[th]
          /\ \A v \in Workers : v # w => current[v] # current[w]
          /\ current[w] \in loaded \cup failed <=> step'[w] # "idle"
    BY <1>1, <1>2, <1>5 DEF ModulesInv, Placed
  <2> QED BY <1>1, <2>1, <2>2, <2>3, <2>4 DEF Placed
<1>11. NoneForgotten'
  <2>1. \A n \in added' : Deps[n] \subseteq added'
    <3> SUFFICES ASSUME NEW n \in added' PROVE Deps[n] \subseteq added'
      OBVIOUS
    <3>1. CASE n \in added
      BY <1>1, <3>1 DEF ModulesInv, NoneForgotten
    <3>2. CASE n = m \/ n \in Deps[m]
      <4>1. Deps[n] \subseteq {m} \cup Deps[m]
        BY <3>2, DepsAssumption
      <4> QED BY <1>1, <4>1
    <3> QED BY <1>1, <3>1, <3>2
  <2>2. \A n \in Tasks : Pending(n)' =>
          \/ n \in ready'
          \/ n \in tasks
          \/ \E th \in Threads : n \in popped[th]
          \/ \E w \in Workers : current[w] = n
    BY <1>1 DEF ModulesInv, NoneForgotten, Pending
  <2>3. Aliases \subseteq added' \cup uevents'
    BY <1>1 DEF ModulesInv, NoneForgotten
  <2>4. \E th \in Threads : step'[th] = "pop"
    BY <1>6 DEF Threads
  <2> QED BY <1>1, <2>1, <2>2, <2>3, <2>4 DEF NoneForgotten
<1>12. EndsInOrder'
  BY <1>1 DEF ModulesInv, EndsInOrder
<1> QED BY <1>3, <1>7, <1>10, <1>11, <1>12 DEF ModulesInv

\* A module is tried once, and what waited for it alone becomes ready with it.
LEMMA InitModuleKeeps ==
  ASSUME PoolInv, ModulesInv, NEW w \in Workers, InitModule(w)
  PROVE  ModulesInv'
<1> DEFINE m == current[w]
           freed == {n \in Waiting : m \in Deps[n] /\ Deps[n] \subseteq loaded'}
<1>1. /\ pc[w] = "run" /\ step[w] = "idle"
      /\ step' = [step EXCEPT ![w] = "pop"]
      /\ UNCHANGED <<uevents, added, popped, state, tasks, pc, current>>
  BY DEF InitModule, MarkModuleLoaded, MarkModuleLoadFailed, vars
<1>2. \/ loaded' = loaded \cup {m} /\ failed' = failed /\ ready' = ready \cup freed
      \/ loaded' = loaded /\ failed' = failed \cup {m} /\ ready' = ready
  BY DEF InitModule, MarkModuleLoaded, MarkModuleLoadFailed
<1>3. /\ m # NoTask /\ m \in Tasks /\ m \in added /\ m \notin Deps[m]
      /\ m \notin loaded \cup failed /\ Deps[m] \subseteq loaded
      /\ m \notin ready /\ m \notin tasks /\ \A th \in Threads : m \notin popped[th]
      /\ \A v \in Workers : v # w => current[v] # m
  BY <1>1, TaskHasModule, DepsAssumption DEF ModulesInv, Placed
<1>4. /\ loaded \subseteq loaded' /\ loaded' \cup failed' = loaded \cup failed \cup {m}
      /\ ready \subseteq ready' /\ ready' \subseteq ready \cup freed
  BY <1>2
<1>5. freed \subseteq added /\ m \notin freed /\ freed \cap (loaded \cup failed) = {}
  BY <1>3 DEF Waiting
<1>6. ModulesTypeOK'
  BY <1>1, <1>2, <1>3, <1>5 DEF ModulesInv, ModulesTypeOK
<1>7. \A th \in Threads : step'[th] = IF th = w THEN "pop" ELSE step[th]
  BY <1>1 DEF ModulesInv, ModulesTypeOK
<1>8. w \in Threads /\ w # Owner /\ popped[w] = {} /\ pc[w] # "notify" /\ step'[w] = "pop"
  BY <1>1, <1>7, PoolAssumption DEF Threads, ModulesInv, StepsMatch
<1>9. StepsMatch'
  BY <1>1, <1>7, <1>8 DEF ModulesInv, StepsMatch, Threads
<1>10. \A n \in freed : ~(Deps[n] \subseteq loaded)
  BY <1>3
<1>11. Placed'
  <2>1. \A n \in ready' : Pending(n)' /\ n \notin tasks
    BY <1>1, <1>2, <1>3, <1>5, <1>10 DEF ModulesInv, Placed, Pending
  <2>2. \A th \in Threads : \A n \in popped[th] :
          /\ Pending(n)' /\ n \notin tasks /\ n \notin ready'
          /\ \A u \in Threads : u # th => n \notin popped[u]
    BY <1>1, <1>3, <1>4, <1>10 DEF ModulesInv, Placed, Pending
  <2>3. \A n \in tasks : Pending(n)'
    BY <1>1, <1>3, <1>4 DEF ModulesInv, Placed, Pending
  <2>4. ASSUME NEW v \in Workers, current[v] # NoTask
        PROVE  /\ current[v] \in added /\ Deps[current[v]] \subseteq loaded'
               /\ current[v] \notin ready' /\ current[v] \notin tasks
               /\ \A th \in Threads : current[v] \notin popped[th]
               /\ \A u \in Workers : u # v => current[u] # current[v]
    BY <1>4, <1>10, <2>4 DEF ModulesInv, Placed
  <2>5. ASSUME NEW v \in Workers, current[v] # NoTask
        PROVE  current[v] \in loaded' \cup failed' <=> step'[v] # "idle"
    <3>1. CASE v = w
      BY <1>4, <1>8, <3>1
    <3>2. CASE v # w
      BY <1>3, <1>4, <1>7, <2>5, <3>2 DEF ModulesInv, Placed, Threads
    <3> QED BY <3>1, <3>2
  <2> QED BY <1>1, <2>1, <2>2, <2>3, <2>4, <2>5 DEF Placed
<1>12. NoneForgotten'
  <2>1. ASSUME NEW n \in Tasks, Pending(n)'
        PROVE  \/ n \in ready'
               \/ n \in tasks
               \/ \E th \in Threads : n \in popped[th]
               \/ \E v \in Workers : current[v] = n
    <3>1. n \in Waiting /\ Deps[n] \subseteq loaded'
      BY <1>1, <1>4, <2>1 DEF Pending, Waiting
    <3>2. CASE Deps[n] \subseteq loaded
      BY <1>4, <3>1, <3>2 DEF ModulesInv, NoneForgotten, Pending, Waiting
    <3>3. CASE ~(Deps[n] \subseteq loaded)
      <4>1. loaded' = loaded \cup {m} /\ ready' = ready \cup freed /\ m \in Deps[n]
        BY <1>2, <3>1, <3>3
      <4> QED BY <3>1, <4>1
    <3> QED BY <3>2, <3>3
  <2>2. \E th \in Threads : step'[th] = "pop"
    BY <1>8
  <2> QED BY <1>1, <2>1, <2>2 DEF ModulesInv, NoneForgotten
<1>13. EndsInOrder'
  BY <1>1 DEF ModulesInv, EndsInOrder
<1> QED BY <1>6, <1>9, <1>11, <1>12, <1>13 DEF ModulesInv

\* Popping the ready modules hands all of them to one thread, which had none.
LEMMA PopReadyModulesKeeps ==
  ASSUME PoolInv, ModulesInv, NEW th \in Threads, PopReadyModules(th)
  PROVE  ModulesInv'
<1>1. /\ step[th] = "pop"
      /\ popped' = [popped EXCEPT ![th] = ready]
      /\ ready' = {}
      /\ step' = [step EXCEPT ![th] = "enqueue"]
      /\ UNCHANGED <<uevents, added, loaded, failed, state, tasks, pc, current>>
  BY DEF PopReadyModules, vars
<1>2. /\ \A u \in Threads : popped'[u] = IF u = th THEN ready ELSE popped[u]
      /\ \A u \in Threads : step'[u] = IF u = th THEN "enqueue" ELSE step[u]
  BY <1>1 DEF ModulesInv, ModulesTypeOK
<1>3. popped[th] = {}
  BY <1>1 DEF ModulesInv, StepsMatch
<1>4. ModulesTypeOK'
  BY <1>1 DEF ModulesInv, ModulesTypeOK
<1>5. StepsMatch'
  BY <1>1, <1>2 DEF ModulesInv, StepsMatch, Threads
<1>6. Placed'
  <2>1. ASSUME NEW u \in Threads, NEW m \in popped'[u]
        PROVE  /\ Pending(m)' /\ m \notin tasks
               /\ \A v \in Threads : v # u => m \notin popped'[v]
    BY <1>1, <1>2, <1>3, <2>1 DEF ModulesInv, Placed, Pending
  <2>2. \A m \in tasks : Pending(m)'
    BY <1>1 DEF ModulesInv, Placed, Pending
  <2>3. ASSUME NEW w \in Workers, current[w] # NoTask
        PROVE  /\ \A u \in Threads : current[w] \notin popped'[u]
               /\ current[w] \in loaded \cup failed <=> step'[w] # "idle"
    BY <1>1, <1>2, <2>3 DEF ModulesInv, Placed, Threads
  <2> QED BY <1>1, <2>1, <2>2, <2>3 DEF ModulesInv, Placed
<1>7. NoneForgotten'
  <2>1. ASSUME NEW m \in Tasks, Pending(m)'
        PROVE  \/ m \in tasks
               \/ \E u \in Threads : m \in popped'[u]
               \/ \E w \in Workers : current[w] = m
    BY <1>1, <1>2, <1>3, <2>1 DEF ModulesInv, NoneForgotten, Pending
  <2> QED BY <1>1, <2>1 DEF ModulesInv, NoneForgotten
<1>8. EndsInOrder'
  BY <1>1 DEF ModulesInv, EndsInOrder
<1> QED BY <1>4, <1>5, <1>6, <1>7, <1>8 DEF ModulesInv

\* Enqueueing moves one module from the thread to the queue of the pool.
LEMMA EnqueueModuleKeeps ==
  ASSUME PoolInv, ModulesInv, NEW th \in Threads, NEW m \in Tasks, EnqueueModule(th, m)
  PROVE  ModulesInv'
<1>1. /\ step[th] = "enqueue" /\ m \in popped[th]
      /\ popped' = [popped EXCEPT ![th] = @ \ {m}]
      /\ tasks' = tasks \cup {m}
      /\ pc' = [pc EXCEPT ![th] = "notify"]
      /\ th = Owner => pc[th] = "submit"
      /\ th # Owner => pc[th] = "run"
      /\ UNCHANGED <<uevents, added, loaded, failed, ready, step, state, current>>
      /\ pc \in [Threads -> OwnerSteps \cup WorkerSteps]
  BY DEF EnqueueModule, Enqueue, MayEnqueue, PoolInv, TypeOK
<1>2. /\ \A u \in Threads : popped'[u] = IF u = th THEN popped[th] \ {m} ELSE popped[u]
      /\ \A u \in Threads : pc'[u] = IF u = th THEN "notify" ELSE pc[u]
  BY <1>1 DEF ModulesInv, ModulesTypeOK
<1>3. ModulesTypeOK'
  <2>1. popped' \in [Threads -> SUBSET added]
    BY <1>1 DEF ModulesInv, ModulesTypeOK
  <2> QED BY <1>1, <2>1 DEF ModulesInv, ModulesTypeOK
<1>4. StepsMatch'
  BY <1>1, <1>2 DEF ModulesInv, StepsMatch, Threads
<1>5. /\ Pending(m) /\ m \notin tasks /\ m \notin ready
      /\ \A u \in Threads : u # th => m \notin popped[u]
      /\ \A w \in Workers : current[w] # m
  <2>1. m # NoTask
    BY PoolAssumption
  <2> QED BY <1>1, <2>1 DEF ModulesInv, Placed
<1>6. Placed'
  <2>1. ASSUME NEW u \in Threads, NEW n \in popped'[u]
        PROVE  /\ Pending(n)' /\ n \notin tasks' /\ n \notin ready
               /\ \A v \in Threads : v # u => n \notin popped'[v]
    <3>1. n \in popped[u] /\ n # m
      BY <1>2, <1>5, <2>1
    <3> QED BY <1>1, <1>2, <3>1 DEF ModulesInv, Placed, Pending
  <2>2. \A n \in tasks' : Pending(n)'
    BY <1>1, <1>5 DEF ModulesInv, Placed, Pending
  <2>3. ASSUME NEW w \in Workers, current[w] # NoTask
        PROVE  /\ current[w] \notin tasks'
               /\ \A u \in Threads : current[w] \notin popped'[u]
    BY <1>1, <1>2, <1>5, <2>3 DEF ModulesInv, Placed
  <2>4. \A n \in ready : Pending(n)' /\ n \notin tasks'
    BY <1>1, <1>5 DEF ModulesInv, Placed, Pending
  <2> QED BY <1>1, <2>1, <2>2, <2>3, <2>4 DEF ModulesInv, Placed
<1>7. NoneForgotten'
  <2>1. ASSUME NEW n \in Tasks, Pending(n)'
        PROVE  \/ n \in ready
               \/ n \in tasks'
               \/ \E u \in Threads : n \in popped'[u]
               \/ \E w \in Workers : current[w] = n
    BY <1>1, <1>2, <2>1 DEF ModulesInv, NoneForgotten, Pending
  <2> QED BY <1>1, <2>1 DEF ModulesInv, NoneForgotten
<1>8. EndsInOrder'
  BY <1>1, <1>2, PoolAssumption DEF ModulesInv, EndsInOrder, Threads
<1> QED BY <1>3, <1>4, <1>6, <1>7, <1>8 DEF ModulesInv

\* The owner has handed out all the modules that were ready behind a uevent.
LEMMA UeventEnqueuedKeeps ==
  ASSUME PoolInv, ModulesInv, UeventEnqueued
  PROVE  ModulesInv'
<1>1. /\ pc[Owner] = "submit" /\ step[Owner] = "enqueue" /\ popped[Owner] = {}
      /\ step' = [step EXCEPT ![Owner] = "idle"]
      /\ UNCHANGED <<uevents, added, loaded, failed, ready, popped, state, tasks, pc, current>>
  BY DEF UeventEnqueued, LoopOver, vars
<1>2. \A u \in Threads : step'[u] = IF u = Owner THEN "idle" ELSE step[u]
  BY <1>1 DEF ModulesInv, ModulesTypeOK
<1>3. ModulesTypeOK'
  BY <1>1 DEF ModulesInv, ModulesTypeOK
<1>4. StepsMatch'
  BY <1>1, <1>2, PoolAssumption DEF ModulesInv, StepsMatch, Threads
<1>5. \A w \in Workers : step'[w] = step[w]
  BY <1>2, PoolAssumption DEF Threads
<1>6. Placed'
  BY <1>1, <1>5 DEF ModulesInv, Placed, Pending
<1>7. NoneForgotten'
  <2>1. ready # {} => \E th \in Threads : step'[th] = "pop"
    BY <1>1, <1>2 DEF ModulesInv, NoneForgotten
  <2> QED BY <1>1, <2>1 DEF ModulesInv, NoneForgotten, Pending
<1>8. EndsInOrder'
  BY <1>1 DEF ModulesInv, EndsInOrder
<1> QED BY <1>3, <1>4, <1>6, <1>7, <1>8 DEF ModulesInv

\* A task ends with its module tried and every module it made ready handed out.
LEMMA TaskDoneKeeps ==
  ASSUME PoolInv, ModulesInv, NEW w \in Workers, TaskDone(w)
  PROVE  ModulesInv'
<1>1. /\ pc[w] = "run" /\ step[w] = "enqueue" /\ popped[w] = {}
      /\ step' = [step EXCEPT ![w] = "idle"]
      /\ current' = [current EXCEPT ![w] = NoTask]
      /\ UNCHANGED <<uevents, added, loaded, failed, ready, popped, tasks>>
      /\ Done(w) /\ TypeOK
  BY DEF TaskDone, LoopOver, Done, PoolInv
<1>2. /\ pc'[Owner] = pc[Owner]
      /\ \A v \in Workers : v # w => pc'[v] = pc[v] \/ (pc[v] = "sleep" /\ pc'[v] = "wait")
      /\ pc'[w] = "wait" \/ (pc'[w] = "exited" /\ state' = "Stopped")
  BY <1>1, DoneEffect
<1>3. /\ \A u \in Threads : step'[u] = IF u = w THEN "idle" ELSE step[u]
      /\ \A v \in Workers : current'[v] = IF v = w THEN NoTask ELSE current[v]
  BY <1>1 DEF ModulesInv, ModulesTypeOK, TypeOK
<1>4. current[w] \in loaded \cup failed
  BY <1>1, TaskHasModule DEF ModulesInv, Placed
<1>5. ModulesTypeOK'
  BY <1>1 DEF ModulesInv, ModulesTypeOK
<1>6. StepsMatch'
  <2>1. \A v \in Workers : step'[v] # "idle" => pc'[v] \in {"run", "notify"}
    BY <1>2, <1>3 DEF ModulesInv, StepsMatch, Threads
  <2>2. step'[Owner] # "idle" => pc'[Owner] \in {"submit", "notify"}
    BY <1>2, <1>3 DEF ModulesInv, StepsMatch, Threads
  <2>3. \A th \in Threads : popped[th] # {} => step'[th] = "enqueue"
    BY <1>1, <1>3 DEF ModulesInv, StepsMatch
  <2>4. \A th \in Threads : pc'[th] = "notify" => step'[th] = "enqueue"
    BY <1>2, <1>3, PoolAssumption DEF ModulesInv, StepsMatch, Threads
  <2> QED BY <1>1, <2>1, <2>2, <2>3, <2>4 DEF StepsMatch
<1>7. Placed'
  <2>1. ASSUME NEW v \in Workers, current'[v] # NoTask
        PROVE  v # w /\ current'[v] = current[v] /\ step'[v] = step[v]
    BY <1>3, <2>1 DEF Threads
  <2>2. ASSUME NEW v \in Workers, current'[v] # NoTask
        PROVE  /\ current'[v] \in added /\ Deps[current'[v]] \subseteq loaded
               /\ current'[v] \notin ready /\ current'[v] \notin tasks
               /\ \A th \in Threads : current'[v] \notin popped[th]
               /\ \A u \in Workers : u # v => current'[u] # current'[v]
               /\ current'[v] \in loaded \cup failed <=> step'[v] # "idle"
    BY <1>3, <2>1, <2>2 DEF ModulesInv, Placed
  <2> QED BY <1>1, <2>2 DEF ModulesInv, Placed, Pending
<1>8. NoneForgotten'
  <2>1. ASSUME NEW m \in Tasks, Pending(m)'
        PROVE  \/ m \in ready
               \/ m \in tasks
               \/ \E th \in Threads : m \in popped[th]
               \/ \E v \in Workers : current'[v] = m
    <3>1. Pending(m) /\ m # current[w]
      BY <1>1, <1>4, <2>1 DEF Pending
    <3> QED BY <1>3, <3>1 DEF ModulesInv, NoneForgotten
  <2>2. ready # {} => \E th \in Threads : step'[th] = "pop"
    BY <1>1, <1>3 DEF ModulesInv, NoneForgotten
  <2> QED BY <1>1, <2>1, <2>2 DEF ModulesInv, NoneForgotten
<1>9. EndsInOrder'
  <2>1. pc[w] # "exited" /\ pc[Owner] # "done"
    BY <1>1 DEF ModulesInv, EndsInOrder
  <2>2. \A v \in Workers : pc'[v] = "exited" => state' = "Stopped"
    <3>1. state = "Stopped" => state' = "Stopped"
      BY <1>1 DEF Done
    <3> QED BY <1>2, <3>1 DEF ModulesInv, EndsInOrder
  <2> QED BY <1>1, <1>2, <2>1, <2>2 DEF ModulesInv, EndsInOrder
<1> QED BY <1>5, <1>6, <1>7, <1>8, <1>9 DEF ModulesInv

\* A worker takes a queued module, which leaves the queue.
LEMMA TakeKeeps ==
  ASSUME PoolInv, ModulesInv, NEW w \in Workers, Take(w), UNCHANGED moduleVars
  PROVE  ModulesInv'
<1>1. PICK m \in tasks : tasks' = tasks \ {m} /\ current' = [current EXCEPT ![w] = m]
  BY DEF Take, MostUrgent
<1>2. /\ pc[w] = "wait" /\ pc' = [pc EXCEPT ![w] = "run"]
      /\ UNCHANGED <<uevents, added, loaded, failed, ready, step, popped, state>>
      /\ pc \in [Threads -> OwnerSteps \cup WorkerSteps]
      /\ current \in [Workers -> Tasks \cup {NoTask}]
  BY DEF Take, PoolInv, TypeOK, moduleVars
<1>3. current[w] = NoTask /\ step[w] = "idle"
  BY <1>2, TaskHasModule
<1>4. /\ pc'[Owner] = pc[Owner]
      /\ \A v \in Workers : pc'[v] = IF v = w THEN "run" ELSE pc[v]
      /\ \A v \in Workers : current'[v] = IF v = w THEN m ELSE current[v]
  BY <1>1, <1>2, PoolAssumption DEF Threads
<1>5. ModulesTypeOK'
  BY <1>2 DEF ModulesInv, ModulesTypeOK
<1>6. StepsMatch'
  BY <1>2, <1>4 DEF ModulesInv, StepsMatch, Threads
<1>7. /\ Pending(m) /\ m \notin ready /\ \A th \in Threads : m \notin popped[th]
      /\ \A v \in Workers : current[v] # NoTask => current[v] # m
  BY <1>1 DEF ModulesInv, Placed
<1>8. m # NoTask
  BY <1>1, PoolAssumption DEF PoolInv, TypeOK
<1>9. Placed'
  <2>1. ASSUME NEW v \in Workers, current'[v] # NoTask
        PROVE  /\ current'[v] \in added /\ Deps[current'[v]] \subseteq loaded
               /\ current'[v] \notin ready /\ current'[v] \notin tasks'
               /\ \A th \in Threads : current'[v] \notin popped[th]
               /\ current'[v] \in loaded \cup failed <=> step[v] # "idle"
    <3>1. CASE v = w
      BY <1>1, <1>3, <1>4, <1>7, <3>1 DEF Pending
    <3>2. CASE v # w
      BY <1>1, <1>4, <2>1, <3>2 DEF ModulesInv, Placed
    <3> QED BY <3>1, <3>2
  <2>2. ASSUME NEW v \in Workers, current'[v] # NoTask, NEW u \in Workers, u # v
        PROVE  current'[u] # current'[v]
    BY <1>4, <1>7, <1>8, <2>2 DEF ModulesInv, Placed
  <2>3. \A n \in tasks' : Pending(n)'
    BY <1>1, <1>2 DEF ModulesInv, Placed, Pending
  <2>4. \A n \in ready : Pending(n)' /\ n \notin tasks'
    BY <1>1, <1>2 DEF ModulesInv, Placed, Pending
  <2>5. \A th \in Threads : \A n \in popped[th] :
          /\ Pending(n)' /\ n \notin tasks' /\ n \notin ready
          /\ \A u \in Threads : u # th => n \notin popped[u]
    BY <1>1, <1>2 DEF ModulesInv, Placed, Pending
  <2> QED BY <1>2, <2>1, <2>2, <2>3, <2>4, <2>5 DEF Placed
<1>10. NoneForgotten'
  <2>1. ASSUME NEW n \in Tasks, Pending(n)'
        PROVE  \/ n \in ready
               \/ n \in tasks'
               \/ \E th \in Threads : n \in popped[th]
               \/ \E v \in Workers : current'[v] = n
    <3>1. Pending(n) /\ n # NoTask
      BY <1>2, <2>1, PoolAssumption DEF Pending
    <3> QED BY <1>1, <1>3, <1>4, <3>1 DEF ModulesInv, NoneForgotten
  <2> QED BY <1>2, <2>1 DEF ModulesInv, NoneForgotten
<1>11. EndsInOrder'
  BY <1>2, <1>4 DEF ModulesInv, EndsInOrder
<1> QED BY <1>5, <1>6, <1>9, <1>10, <1>11 DEF ModulesInv

LEMMA ModulesNextKeeps ==
  PoolInv /\ ModulesInv /\ [ModulesNext]_allVars => ModulesInv'
<1> SUFFICES ASSUME PoolInv, ModulesInv, [ModulesNext]_allVars PROVE ModulesInv'
  OBVIOUS
<1>1. ASSUME UNCHANGED allVars PROVE ModulesInv'
  BY <1>1, ThreadsMove DEF allVars, vars, ModulesInv, EndsInOrder
<1>2. ASSUME NEW m \in Tasks, EnqueueUevent(m) PROVE ModulesInv'
  BY <1>2, EnqueueUeventKeeps
<1>3. ASSUME NEW th \in Threads, NEW m \in Tasks, EnqueueModule(th, m) PROVE ModulesInv'
  BY <1>3, EnqueueModuleKeeps
<1>4. ASSUME NEW th \in Threads, PopReadyModules(th) PROVE ModulesInv'
  BY <1>4, PopReadyModulesKeeps
<1>5. ASSUME NEW th \in Threads, Notify(th), UNCHANGED moduleVars PROVE ModulesInv'
  BY <1>5, NotifyMoves
<1>6. CASE OwnerStep
  BY <1>2, <1>3, <1>4, <1>5, <1>6, UeventEnqueuedKeeps, WaitMoves, WaitNotifyAllMoves, JoinMoves
     DEF OwnerStep, WaitStep, Threads
<1>7. ASSUME NEW w \in Workers, TaskStep(w) PROVE ModulesInv'
  BY <1>3, <1>4, <1>5, <1>7, InitModuleKeeps, TaskDoneKeeps, TakeKeeps, IdleMoves
     DEF TaskStep, LoopStep, Threads
<1>8. ASSUME NEW w \in Workers, SpuriousWakeup(w), UNCHANGED moduleVars PROVE ModulesInv'
  BY <1>8, IdleMoves
<1>9. ASSUME Finished, UNCHANGED moduleVars PROVE ModulesInv'
  BY <1>1, <1>9 DEF Finished, allVars
<1> QED BY <1>1, <1>6, <1>7, <1>8, <1>9 DEF ModulesNext

LEMMA ModulesInvariant == ModulesSpec => [](PoolInv /\ ModulesInv)
<1>1. ModulesInit => PoolInv /\ ModulesInv
  BY ModulesInitial, PoolInit DEF ModulesInit
<1>2. PoolInv /\ ModulesInv /\ [ModulesNext]_allVars => (PoolInv /\ ModulesInv)'
  BY PoolStep, PoolNext, ModulesNextKeeps
<1> QED BY <1>1, <1>2, PTL DEF ModulesSpec

-----------------------------------------------------------------------------
(* The theorems *)

\* A module is loaded only when every module it depends on is in the kernel.
THEOREM ColdbootInOrder == ModulesSpec => []DependenciesLoaded
<1>1. ModulesInv => DependenciesLoaded
  BY DEF ModulesInv, Placed, DependenciesLoaded
<1> QED BY <1>1, ModulesInvariant, PTL

\* No two threads, and no two tasks, ever hold the same module.
THEOREM ColdbootHandsOutOnce == ModulesSpec => []ModuleHandedOutOnce
<1>1. PoolInv /\ ModulesInv => ModuleHandedOutOnce
  <2> SUFFICES ASSUME PoolInv, ModulesInv PROVE ModuleHandedOutOnce
    OBVIOUS
  <2>1. \A m \in Range(current) : \E w \in Workers : m = current[w]
    BY DEF PoolInv, TypeOK, Range
  <2>2. NoTask \notin ready /\ \A th \in Threads : NoTask \notin popped[th]
    BY PoolAssumption DEF ModulesInv, ModulesTypeOK
  <2>3. ready \cap (tasks \cup Range(current)) = {}
    BY <2>1, <2>2 DEF ModulesInv, Placed
  <2>4. \A th \in Threads : popped[th] \cap (ready \cup tasks \cup Range(current)) = {}
    BY <2>1, <2>2 DEF ModulesInv, Placed
  <2>5. \A th, u \in Threads : th # u => popped[th] \cap popped[u] = {}
    BY DEF ModulesInv, Placed
  <2>6. \A w, v \in Workers : w # v /\ current[w] # NoTask => current[w] # current[v]
    BY DEF ModulesInv, Placed
  <2> QED BY <2>3, <2>4, <2>5, <2>6 DEF ModuleHandedOutOnce
<1> QED BY <1>1, ModulesInvariant, PTL

\* Of modules that depend on finitely many others and never on themselves, one depends
\* on none of the rest.
LEMMA FirstOfDependents ==
  ASSUME NEW U \in SUBSET Tasks, U # {}
  PROVE  \E m \in U : Deps[m] \cap U = {}
<1> DEFINE F == FiniteSubsetsOf(Tasks)
           T == {Deps[m] : m \in U}
<1>1. IsWellFoundedOn(StrictSubsetOrdering(Tasks), F)
  BY FS_StrictSubsetOrderingWellFounded
<1>2. T \subseteq F /\ T # {}
  BY DepsAssumption DEF FiniteSubsetsOf
<1>3. PICK s \in T : \A t \in T : <<t, s>> \notin StrictSubsetOrdering(Tasks)
  <2> HIDE DEF F, T
  <2> QED BY <1>1, <1>2, WFMin
<1>4. PICK m \in U : s = Deps[m]
  BY <1>3
<1>5. ASSUME NEW d \in Deps[m], d \in U PROVE FALSE
  <2>1. Deps[d] \subseteq Deps[m] /\ d \notin Deps[d] /\ Deps[d] \subseteq Tasks /\ Deps[m] \subseteq Tasks
    BY <1>5, DepsAssumption
  <2>2. <<Deps[d], Deps[m]>> \in StrictSubsetOrdering(Tasks)
    BY <1>5, <2>1 DEF StrictSubsetOrdering
  <2> QED BY <1>3, <1>4, <1>5, <2>2
<1> QED BY <1>5

\* When Wait has returned, every module that was asked for has been loaded, or it or one
\* it depends on has failed to load.
THEOREM ColdbootTriesAll == ModulesSpec => []AllModulesTried
<1>1. PoolInv /\ ModulesInv => AllModulesTried
  <2> SUFFICES ASSUME PoolInv, ModulesInv, pc[Owner] = "done", NEW m \in Aliases,
                      m \notin loaded, ({m} \cup Deps[m]) \cap failed = {}
               PROVE  FALSE
    BY DEF AllModulesTried
  <2> DEFINE U == ({m} \cup Deps[m]) \ loaded
  <2>1. uevents = {} /\ \A w \in Workers : pc[w] = "exited"
    BY DEF ModulesInv, EndsInOrder
  <2>2. \A th \in Threads : step[th] = "idle" /\ popped[th] = {}
    <3>1. \A th \in Threads : step[th] = "idle"
      BY <2>1 DEF ModulesInv, StepsMatch, Threads, ModulesTypeOK
    <3> QED BY <3>1 DEF ModulesInv, StepsMatch
  <2>3. tasks = {}
    BY <2>1, PoolHasWorkers DEF ModulesInv, EndsInOrder, PoolInv
  <2>4. \A w \in Workers : current[w] = NoTask
    BY <2>1 DEF PoolInv, Bookkeeping
  <2>5. ready = {}
    BY <2>2 DEF ModulesInv, NoneForgotten
  <2>6. \A n \in Tasks : ~Pending(n)
    BY <2>2, <2>3, <2>4, <2>5, PoolAssumption DEF ModulesInv, NoneForgotten
  <2>7. {m} \cup Deps[m] \subseteq added /\ m \in Tasks
    BY <2>1, DepsAssumption DEF ModulesInv, NoneForgotten
  <2>8. U \in SUBSET Tasks /\ U # {}
    BY <2>7, DepsAssumption
  <2>9. PICK n \in U : Deps[n] \cap U = {}
    BY <2>8, FirstOfDependents
  <2>10. Deps[n] \subseteq {m} \cup Deps[m]
    BY <2>7, <2>9, DepsAssumption
  <2>11. Pending(n)
    BY <2>7, <2>9, <2>10 DEF Pending
  <2> QED BY <2>6, <2>8, <2>11
<1> QED BY <1>1, ModulesInvariant, PTL

-----------------------------------------------------------------------------
(* The pool refuses no module *)

\* The pool has not had exactly the modules that are neither queued, nor running, nor tried.
FreshMeansUntried ==
  \A m \in Tasks : m \in fresh <=>
    m \notin tasks /\ m \notin loaded \cup failed /\ \A w \in Workers : current[w] # m

\* What a thread is about to enqueue the pool takes: it never had the module, and it is
\* not stopped, so that neither the model's guard nor the CHECK of Enqueue holds the
\* thread back.
NoneRefused ==
  \A th \in Threads : \A m \in popped[th] : m \in fresh /\ state # "Stopped"

LEMMA FreshStep ==
  ASSUME PoolInv, ModulesInv, FreshMeansUntried, [ModulesNext]_allVars
  PROVE  FreshMeansUntried'
<1>1. ASSUME UNCHANGED <<tasks, current, fresh, loaded, failed>> PROVE FreshMeansUntried'
  BY <1>1 DEF FreshMeansUntried
<1>2. ASSUME NEW m \in Tasks, EnqueueUevent(m) PROVE FreshMeansUntried'
  BY <1>1, <1>2 DEF EnqueueUevent, AddModule, vars
<1>3. ASSUME NEW th \in Threads, NEW m \in Tasks, EnqueueModule(th, m) PROVE FreshMeansUntried'
  <2>1. tasks' = tasks \cup {m} /\ fresh' = fresh \ {m} /\ UNCHANGED <<loaded, failed, current>>
    BY <1>3 DEF EnqueueModule, Enqueue
  <2> QED BY <2>1 DEF FreshMeansUntried
<1>4. ASSUME NEW th \in Threads, PopReadyModules(th) PROVE FreshMeansUntried'
  BY <1>1, <1>4 DEF PopReadyModules, vars
<1>5. ASSUME NEW w \in Workers, InitModule(w) PROVE FreshMeansUntried'
  <2>1. /\ loaded' \cup failed' = loaded \cup failed \cup {current[w]}
        /\ UNCHANGED <<tasks, current, fresh>>
    BY <1>5 DEF InitModule, MarkModuleLoaded, MarkModuleLoadFailed, vars
  <2> QED BY <2>1 DEF FreshMeansUntried
<1>6. ASSUME NEW w \in Workers, TaskDone(w) PROVE FreshMeansUntried'
  <2>1. /\ current' = [current EXCEPT ![w] = NoTask] /\ pc[w] = "run" /\ step[w] = "enqueue"
        /\ UNCHANGED <<tasks, fresh, loaded, failed>>
    BY <1>6 DEF TaskDone, LoopOver, Done
  <2>2. current[w] \in loaded \cup failed
    BY <2>1, TaskHasModule DEF ModulesInv, Placed
  <2>3. \A v \in Workers : current'[v] = IF v = w THEN NoTask ELSE current[v]
    BY <2>1 DEF PoolInv, TypeOK
  <2> QED BY <2>1, <2>2, <2>3, PoolAssumption DEF FreshMeansUntried
<1>7. ASSUME NEW w \in Workers, Take(w), UNCHANGED moduleVars PROVE FreshMeansUntried'
  <2>1. PICK m \in tasks : tasks' = tasks \ {m} /\ current' = [current EXCEPT ![w] = m]
    BY <1>7 DEF Take, MostUrgent
  <2>2. pc[w] = "wait" /\ UNCHANGED <<fresh, loaded, failed>>
    BY <1>7 DEF Take, moduleVars
  <2>3. current[w] = NoTask /\ \A v \in Workers : current'[v] = IF v = w THEN m ELSE current[v]
    BY <2>1, <2>2, TaskHasModule DEF PoolInv, TypeOK
  <2> QED BY <2>1, <2>2, <2>3, PoolAssumption DEF FreshMeansUntried
<1>8. CASE OwnerStep
  BY <1>1, <1>2, <1>3, <1>4, <1>8
     DEF OwnerStep, UeventEnqueued, RunnerWait, Wait, WaitStep, Notify, WaitNotifyAll, Join,
         vars, moduleVars, Threads
<1>9. ASSUME NEW w \in Workers, TaskStep(w) PROVE FreshMeansUntried'
  BY <1>1, <1>3, <1>4, <1>5, <1>6, <1>7, <1>9
     DEF TaskStep, LoopStep, Sleep, Exit, Notify, moduleVars, Threads
<1> QED BY <1>1, <1>8, <1>9 DEF ModulesNext, SpuriousWakeup, Finished, allVars, vars, moduleVars

\* A module that has become ready is never held back or dropped on its way into the pool.
THEOREM ColdbootNeverRefused == ModulesSpec => []NoneRefused
<1>1. ModulesInit => FreshMeansUntried
  BY PoolAssumption DEF ModulesInit, Init, FreshMeansUntried
<1>2. ModulesSpec => []FreshMeansUntried
  BY <1>1, FreshStep, ModulesInvariant, PTL DEF ModulesSpec
<1>3. PoolInv /\ ModulesInv /\ FreshMeansUntried => NoneRefused
  <2> SUFFICES ASSUME PoolInv, ModulesInv, FreshMeansUntried,
                      NEW th \in Threads, NEW m \in popped[th]
               PROVE  m \in fresh /\ state # "Stopped"
    BY DEF NoneRefused
  <2>1. step[th] # "idle"
    BY DEF ModulesInv, StepsMatch
  <2>2. state # "Stopped"
    <3>1. CASE th = Owner
      BY <2>1, <3>1 DEF ModulesInv, StepsMatch, PoolInv, Bookkeeping
    <3>2. ASSUME th \in Workers PROVE state # "Stopped"
      <4>1. current[th] # NoTask
        BY <2>1, <3>2 DEF ModulesInv, StepsMatch, PoolInv, Bookkeeping
      <4>2. Running # {}
        BY <3>2, <4>1 DEF Running
      <4> QED BY <4>2, RunningFinite DEF PoolInv, Bookkeeping
    <3> QED BY <3>1, <3>2 DEF Threads
  <2>3. m \in Tasks /\ m # NoTask
    BY PoolAssumption DEF ModulesInv, ModulesTypeOK
  <2>4. m \in fresh
    BY <2>3 DEF ModulesInv, Placed, Pending, FreshMeansUntried
  <2> QED BY <2>2, <2>4
<1> QED BY <1>2, <1>3, ModulesInvariant, PTL
=============================================================================
