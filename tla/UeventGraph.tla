---------------------------- MODULE UeventGraph ----------------------------
(***************************************************************************)
(* UeventDependencyGraph and the parallel main loop of ueventd that uses   *)
(* it: the main thread polls the netlink socket and Add()s each uevent,    *)
(* the worker threads take events that depend on nothing, run the          *)
(* handlers and mark the event completed.  A section under graph_lock_ is  *)
(* one action; the notify_one that follows the unlock is another.          *)
(***************************************************************************)
EXTENDS Integers, Sequences, Functions, FiniteSetsExt

CONSTANTS
  Paths,           \* device paths (strings such as devices/block/sda/sda1)
  AncestorsOrSame, \* of each path, what the Dirname walk of FindDependency visits
  StartsWith,      \* of each path, the paths that are a textual prefix of it
  Workers,         \* the threads of parallel_main_loop
  MaxSeqnum,       \* bound on the kernel's sequence numbers
  NoPath           \* marks a sequence number that is not in the graph

Seqnums == 1..MaxSeqnum

ASSUME GraphAssumption ==
  /\ MaxSeqnum \in Nat
  /\ NoPath \notin Paths
  /\ AncestorsOrSame \in [Paths -> SUBSET Paths]
  /\ StartsWith \in [Paths -> SUBSET Paths]
  /\ \A p \in Paths : p \in AncestorsOrSame[p] /\ AncestorsOrSame[p] \subseteq StartsWith[p]

\* At least one worker (hardware_concurrency() or 4, or the configured maximum).
ASSUME WorkersAssumption == Workers # {}

VARIABLES
  lastSeqnum,      \* the sequence number of the latest event of the kernel
  events,          \* events_ and event_paths_: the path of each event in the graph
  queue,           \* dependency_free_events_
  dependents,      \* dependencies_: the events filed behind each event, oldest first
  listener,        \* the main thread: in Poll, or about to notify
  pc,              \* each worker: where it is in its loop
  current          \* each worker: the event its handlers are running, 0 if none
vars == <<lastSeqnum, events, queue, dependents, listener, pc, current>>

Outstanding == {n \in Seqnums : events[n] # NoPath}
QueuedEvents == Range(queue)
DependentsOf(d) == Range(dependents[d])
Filed == {e \in Seqnums : \E d \in Seqnums : e \in DependentsOf(d)}
Handled == {current[w] : w \in Workers} \ {0}
Sleepers == {w \in Workers : pc[w] = "sleep"}

Init ==
  /\ lastSeqnum = 0
  /\ events = [n \in Seqnums |-> NoPath]
  /\ queue = <<>>
  /\ dependents = [n \in Seqnums |-> <<>>]
  /\ listener = "poll"
  /\ pc = [w \in Workers |-> "wait"]
  /\ current = [w \in Workers |-> 0]

-----------------------------------------------------------------------------
(* FindDependency *)

\* The events in the graph that an event n on path p must not overtake: those
\* of a path that starts with p (the scan from upper_bound) and those of p and
\* of the directories above it (the Dirname walk).
Conflicts(n, p) ==
  {f \in Outstanding : f < n /\ (p \in StartsWith[events[f]] \/ events[f] \in AncestorsOrSame[p])}

\* Variant: the Dirname walk is left out.
FindDependencyDescendantsOnly(n, p) ==
  LET found == {f \in Outstanding : f < n /\ p \in StartsWith[events[f]]}
  IN  IF found = {} THEN 0 ELSE Max(found)

\* Variant: the earliest conflicting event instead of the latest.
FindDependencyEarliest(n, p) ==
  LET found == Conflicts(n, p)
  IN  IF found = {} THEN 0 ELSE Min(found)

\* max_seqnum: the latest of them only; 0 stands for std::nullopt.
FindDependency(n, p) ==
  LET found == Conflicts(n, p)
  IN  IF found = {} THEN 0 ELSE Max(found)

-----------------------------------------------------------------------------
(* The condition variable *)

\* Variant: the notification is lost.
NotifyOneLost(running) == pc' = running

\* notify_one: wakes one sleeping worker, whichever, or nobody.
NotifyOne(running) ==
  IF Sleepers = {} THEN pc' = running
  ELSE \E w \in Sleepers : pc' = [running EXCEPT ![w] = "wait"]

-----------------------------------------------------------------------------
(* The main thread *)

\* Variant: Add never wakes a worker.
AddSilently(p) ==
  LET n == lastSeqnum + 1
      d == FindDependency(n, p)
  IN  /\ listener = "poll"
      /\ lastSeqnum < MaxSeqnum
      /\ lastSeqnum' = n
      /\ events' = [events EXCEPT ![n] = p]
      /\ IF d = 0 THEN queue' = Append(queue, n) /\ UNCHANGED dependents
                  ELSE dependents' = [dependents EXCEPT ![d] = Append(@, n)] /\ UNCHANGED queue
      /\ UNCHANGED <<listener, pc, current>>

\* Poll hands the next uevent, on any path, to Add: it is filed behind the event
\* it depends on, or queued, in which case a worker is to be woken.
Add(p) ==
  LET n == lastSeqnum + 1
      d == FindDependency(n, p)
  IN  /\ listener = "poll"
      /\ lastSeqnum < MaxSeqnum
      /\ lastSeqnum' = n
      /\ events' = [events EXCEPT ![n] = p]
      /\ \/ /\ d = 0
            /\ queue' = Append(queue, n)
            /\ listener' = "notify"
            /\ UNCHANGED dependents
         \/ /\ d # 0
            /\ dependents' = [dependents EXCEPT ![d] = Append(@, n)]
            /\ UNCHANGED <<queue, listener>>
      /\ UNCHANGED <<pc, current>>

ListenerNotify ==
  /\ listener = "notify"
  /\ listener' = "poll"
  /\ NotifyOne(pc)
  /\ UNCHANGED <<lastSeqnum, events, queue, dependents, current>>

-----------------------------------------------------------------------------
(* The workers *)

\* Variant: the worker pops without waiting for the queue to be filled.
TakeUnchecked(w) ==
  /\ pc[w] = "wait"
  /\ pc' = [pc EXCEPT ![w] = "handle"]
  /\ IF queue = <<>> THEN UNCHANGED <<current, queue>>
     ELSE current' = [current EXCEPT ![w] = Head(queue)] /\ queue' = Tail(queue)
  /\ UNCHANGED <<lastSeqnum, events, dependents, listener>>

\* Variant: front() without pop().
TakeFrontOnly(w) ==
  /\ pc[w] = "wait"
  /\ queue # <<>>
  /\ pc' = [pc EXCEPT ![w] = "handle"]
  /\ current' = [current EXCEPT ![w] = Head(queue)]
  /\ UNCHANGED <<lastSeqnum, events, queue, dependents, listener>>

\* WaitDependencyFreeEvent with something in the queue; the event stays in the graph.
Take(w) ==
  /\ pc[w] = "wait"
  /\ queue # <<>>
  /\ pc' = [pc EXCEPT ![w] = "handle"]
  /\ current' = [current EXCEPT ![w] = Head(queue)]
  /\ queue' = Tail(queue)
  /\ UNCHANGED <<lastSeqnum, events, dependents, listener>>

\* ... with nothing in it: the worker blocks on graph_condvar_.
Sleep(w) ==
  /\ pc[w] = "wait"
  /\ queue = <<>>
  /\ pc' = [pc EXCEPT ![w] = "sleep"]
  /\ UNCHANGED <<lastSeqnum, events, queue, dependents, listener, current>>

\* A condition variable may wake a thread without a notification.
SpuriousWakeup(w) ==
  /\ pc[w] = "sleep"
  /\ pc' = [pc EXCEPT ![w] = "wait"]
  /\ UNCHANGED <<lastSeqnum, events, queue, dependents, listener, current>>

\* Variant: the events filed behind the completed one are not released.
MarkEventCompletedOnly(w) ==
  /\ pc[w] = "handle"
  /\ events' = [events EXCEPT ![current[w]] = NoPath]
  /\ pc' = [pc EXCEPT ![w] = "wait"]
  /\ current' = [current EXCEPT ![w] = 0]
  /\ UNCHANGED <<lastSeqnum, queue, dependents, listener>>

\* The handlers have returned: every event filed behind this one is queued,
\* and the event leaves the graph; at most one worker is to be woken.
MarkEventCompleted(w) ==
  LET n == current[w]
  IN  /\ pc[w] = "handle"
      /\ queue' = queue \o dependents[n]
      /\ dependents' = [dependents EXCEPT ![n] = <<>>]
      /\ events' = [events EXCEPT ![n] = NoPath]
      /\ current' = [current EXCEPT ![w] = 0]
      /\ pc' = [pc EXCEPT ![w] = IF dependents[n] = <<>> THEN "wait" ELSE "notify"]
      /\ UNCHANGED <<lastSeqnum, listener>>

WorkerNotify(w) ==
  /\ pc[w] = "notify"
  /\ NotifyOne([pc EXCEPT ![w] = "wait"])
  /\ UNCHANGED <<lastSeqnum, events, queue, dependents, listener, current>>

-----------------------------------------------------------------------------
WorkerStep(w) == Take(w) \/ Sleep(w) \/ MarkEventCompleted(w) \/ WorkerNotify(w)

Threads == ListenerNotify \/ \E w \in Workers : WorkerStep(w) \/ SpuriousWakeup(w)

Next == Threads \/ \E p \in Paths : Add(p)

Spec == Init /\ [][Next]_vars

\* Handlers return and no thread is starved; events need never arrive.
Fairness == WF_vars(ListenerNotify) /\ \A w \in Workers : WF_vars(WorkerStep(w))

FairSpec == Spec /\ Fairness

-----------------------------------------------------------------------------
(* Arrivals on which following the latest conflict alone is enough *)

\* All that an event on p conflicts with also conflicts with the latest of it: so
\* when the parent's event comes first, or one branch is taken down from its leaf.
SingleFile(p) ==
  LET found == Conflicts(lastSeqnum + 1, p)
  IN  found # {} => \E d \in found : \A f \in found : f = d \/ f \in Conflicts(d, events[d])

SingleFileNext == Threads \/ \E p \in Paths : SingleFile(p) /\ Add(p)

SingleFileSpec == Init /\ [][SingleFileNext]_vars

-----------------------------------------------------------------------------
(* Properties *)

\* Every variable stays in its domain, and a worker has an event exactly while it
\* runs the handlers.
TypeOK ==
  /\ lastSeqnum \in 0..MaxSeqnum
  /\ events \in [Seqnums -> Paths \cup {NoPath}]
  /\ \A n \in Seqnums : events[n] # NoPath => n <= lastSeqnum
  /\ queue \in Seq(Seqnums)
  /\ dependents \in [Seqnums -> Seq(Seqnums)]
  /\ listener \in {"poll", "notify"}
  /\ pc \in [Workers -> {"wait", "sleep", "handle", "notify"}]
  /\ current \in [Workers -> 0..MaxSeqnum]
  /\ \A w \in Workers : pc[w] = "handle" <=> current[w] # 0

\* An outstanding event is in the queue, with a worker, or filed behind another
\* event, and nowhere else: Add, Take and MarkEventCompleted of several threads
\* neither lose an event nor hand it out twice.
InOnePlace ==
  /\ QueuedEvents \cup Handled \cup Filed = Outstanding
  /\ IsInjective(queue)
  /\ \A w, v \in Workers : current[w] = current[v] /\ current[w] # 0 => w = v
  /\ \A d \in Seqnums : IsInjective(dependents[d])
  /\ \A d, e \in Seqnums : DependentsOf(d) \cap DependentsOf(e) # {} => d = e
  /\ QueuedEvents \cap Handled = {}
  /\ \A d \in Seqnums : DependentsOf(d) \cap (QueuedEvents \cup Handled) = {}

\* An event is only ever filed behind an earlier one that is still in the graph, so
\* the one that will release it is to come and no two events wait for each other.
PrerequisiteOutstanding ==
  \A d \in Seqnums : \A e \in DependentsOf(d) : d < e /\ d \in Outstanding

\* While something is in the queue, a worker is awake or a thread is about to wake
\* one: notifying one worker for several released events, after the unlock, loses
\* no wakeup.
NoLostWakeup ==
  queue # <<>> => listener = "notify" \/ \E w \in Workers : pc[w] # "sleep"

\* Every event that enters the graph is handled and leaves it.
AllHandled == \A n \in Seqnums : n \in Outstanding ~> n \notin Outstanding

\* The events of one device are handled in sequence: none is begun while an earlier
\* one of the same path is unfinished (uevent_dependency_graph.h, class comment).
SameDeviceInSequence ==
  \A e \in Handled : \A f \in Outstanding : events[f] = events[e] => f >= e

\* No event is handled while an earlier event of the same device, of an ancestor or
\* of a descendant is unfinished.
OrderRespected ==
  \A e \in Handled : \A f \in Outstanding :
    f < e => events[f] \notin AncestorsOrSame[events[e]]
             /\ events[e] \notin AncestorsOrSame[events[f]]

EventOrder == INSTANCE UeventOrder WITH active <- Handled

\* The graph and its workers implement the promised order of events.
ImplementsEventOrder == EventOrder!Spec
=============================================================================
