--------------------------- MODULE ColdbootModules ---------------------------
(***************************************************************************)
(* ColdbootRunnerThreadPool with the ModaliasHandler: the owner of the     *)
(* pool goes through the uevents of the cold boot, adds the kernel module  *)
(* each one asks for to the dependency graph and enqueues what is ready;   *)
(* each task loads one module, tells the graph and enqueues the modules    *)
(* that have become ready.  The tasks of the pool are the modules; the     *)
(* graph is the external ModuleDependencyGraph of libmodprobe, each of     *)
(* whose calls is atomic.                                                  *)
(***************************************************************************)
EXTENDS ThreadPool, Functions

CONSTANTS
  Deps,            \* of each module, every module it depends on (modules.dep)
  Aliases          \* the modules the modaliases of the uevents stand for

ASSUME DepsAssumption ==
  /\ Deps \in [Tasks -> SUBSET Tasks]
  /\ \A m \in Tasks : m \notin Deps[m] /\ \A d \in Deps[m] : Deps[d] \subseteq Deps[m]
  /\ \A m \in Tasks : IsFiniteSet(Deps[m])
  /\ Aliases \subseteq Tasks

VARIABLES
  uevents,         \* the modules of the uevents not enqueued yet
  added,           \* the modules in the dependency graph
  loaded, failed,  \* the modules whose loading succeeded, and failed
  ready,           \* the modules to be returned by PopReadyModules
  step,            \* where each thread is in EnqueueUevent or in its task
  popped           \* ready_modules, the modules each thread is to enqueue
moduleVars == <<uevents, added, loaded, failed, ready, step, popped>>
allVars == <<vars, moduleVars>>

ModulesInit ==
  /\ Init
  /\ uevents = Aliases
  /\ added = {} /\ loaded = {} /\ failed = {} /\ ready = {}
  /\ step = [th \in Threads |-> "idle"]
  /\ popped = [th \in Threads |-> {}]

-----------------------------------------------------------------------------
(* The dependency graph *)

Waiting == added \ (loaded \cup failed)

\* Adds a module and all it depends on; whatever is not waiting for another is ready.
AddModule(m) ==
  LET new == ({m} \cup Deps[m]) \ added
  IN  /\ added' = added \cup new
      /\ ready' = ready \cup {n \in new : Deps[n] \subseteq loaded}
      /\ UNCHANGED <<loaded, failed>>

MarkModuleLoaded(m) ==
  /\ loaded' = loaded \cup {m}
  /\ ready' = ready \cup {n \in Waiting : m \in Deps[n] /\ Deps[n] \subseteq loaded'}
  /\ UNCHANGED <<added, failed>>

MarkModuleLoadFailed(m) ==
  /\ failed' = failed \cup {m}
  /\ UNCHANGED <<added, loaded, ready>>

-----------------------------------------------------------------------------
(* EnqueueUevent, by the owner, and the task of EnqueueModule, by a worker *)

EnqueueUevent(m) ==
  /\ pc[Owner] = "submit" /\ step[Owner] = "idle"
  /\ m \in uevents
  /\ uevents' = uevents \ {m}
  /\ AddModule(m)
  /\ step' = [step EXCEPT ![Owner] = "pop"]
  /\ UNCHANGED <<popped, vars>>

\* Variant: a module that has failed makes others ready like one that was loaded.
InitModuleFailedReady(w) ==
  /\ pc[w] = "run" /\ step[w] = "idle"
  /\ \/ MarkModuleLoaded(current[w])
     \/ /\ failed' = failed \cup {current[w]}
        /\ ready' = ready \cup {n \in Waiting : current[w] \in Deps[n]
                                                /\ Deps[n] \subseteq loaded \cup {current[w]}}
        /\ UNCHANGED <<added, loaded>>
  /\ step' = [step EXCEPT ![w] = "pop"]
  /\ UNCHANGED <<uevents, popped, vars>>

\* InitModule has succeeded (or the module was there already) or has failed.
InitModule(w) ==
  /\ pc[w] = "run" /\ step[w] = "idle"
  /\ MarkModuleLoaded(current[w]) \/ MarkModuleLoadFailed(current[w])
  /\ step' = [step EXCEPT ![w] = "pop"]
  /\ UNCHANGED <<uevents, popped, vars>>

\* Variant: the ready modules stay in the graph.
PopReadyModulesTwice(th) ==
  /\ step[th] = "pop"
  /\ popped' = [popped EXCEPT ![th] = ready]
  /\ step' = [step EXCEPT ![th] = "enqueue"]
  /\ UNCHANGED <<uevents, added, loaded, failed, ready, vars>>

PopReadyModules(th) ==
  /\ step[th] = "pop"
  /\ popped' = [popped EXCEPT ![th] = ready]
  /\ ready' = {}
  /\ step' = [step EXCEPT ![th] = "enqueue"]
  /\ UNCHANGED <<uevents, added, loaded, failed, vars>>

\* One turn of the loop over the ready modules.
EnqueueModule(th, m) ==
  /\ step[th] = "enqueue"
  /\ m \in popped[th]
  /\ Enqueue(th, m)
  /\ popped' = [popped EXCEPT ![th] = @ \ {m}]
  /\ UNCHANGED <<uevents, added, loaded, failed, ready, step>>

\* The loop is over: the owner goes on to its next uevent, a worker is done with its task.
LoopOver(th) == step[th] = "enqueue" /\ popped[th] = {} /\ step' = [step EXCEPT ![th] = "idle"]

UeventEnqueued ==
  /\ pc[Owner] = "submit"
  /\ LoopOver(Owner)
  /\ UNCHANGED <<uevents, added, loaded, failed, ready, popped, vars>>

TaskDone(w) ==
  /\ LoopOver(w)
  /\ Done(w)
  /\ UNCHANGED <<uevents, added, loaded, failed, ready, popped>>

\* Variant: Wait does not wait for StartInBackground to have gone through the uevents.
RunnerWaitEarly ==
  /\ step[Owner] = "idle"
  /\ Wait
  /\ UNCHANGED moduleVars

\* Wait, after StartInBackground.
RunnerWait ==
  /\ uevents = {} /\ step[Owner] = "idle"
  /\ Wait
  /\ UNCHANGED moduleVars

-----------------------------------------------------------------------------
OwnerStep ==
  \/ \E m \in Tasks : EnqueueUevent(m) \/ EnqueueModule(Owner, m)
  \/ PopReadyModules(Owner)
  \/ UeventEnqueued
  \/ RunnerWait
  \/ (WaitStep /\ UNCHANGED moduleVars)

TaskStep(w) ==
  \/ InitModule(w)
  \/ PopReadyModules(w)
  \/ \E m \in Tasks : EnqueueModule(w, m)
  \/ TaskDone(w)
  \/ (LoopStep(w) /\ UNCHANGED moduleVars)

ModulesNext ==
  \/ OwnerStep
  \/ \E w \in Workers : TaskStep(w) \/ (SpuriousWakeup(w) /\ UNCHANGED moduleVars)
  \/ (Finished /\ UNCHANGED moduleVars)

ModulesSpec ==
  /\ ModulesInit /\ [][ModulesNext]_allVars
  /\ WF_allVars(OwnerStep)
  /\ \A w \in Workers : WF_allVars(TaskStep(w))

-----------------------------------------------------------------------------
(* Properties *)

\* A module is loaded only when every module it depends on is in the kernel, however
\* the two threads that complete its dependencies interleave.
DependenciesLoaded ==
  \A w \in Workers : current[w] # NoTask => Deps[current[w]] \subseteq loaded

\* No module is handed to two tasks: it is ready in the graph, with one thread,
\* queued, or running, never in two of these.
ModuleHandedOutOnce ==
  /\ ready \cap (tasks \cup Range(current)) = {}
  /\ \A th \in Threads : popped[th] \cap (ready \cup tasks \cup Range(current)) = {}
  /\ \A th, u \in Threads : th # u => popped[th] \cap popped[u] = {}
  /\ \A w, v \in Workers : w # v /\ current[w] # NoTask => current[w] # current[v]

\* When the cold boot is over, every module it asked for has been loaded, or it, or
\* one it depends on, failed to load: Wait misses none, not even those that
\* became ready in the last task.
AllModulesTried ==
  pc[Owner] = "done" =>
    \A m \in Aliases : m \in loaded \/ ({m} \cup Deps[m]) \cap failed # {}

\* The cold boot ends.
ColdbootEnds == <>(pc[Owner] = "done")
=============================================================================
