------------------------- MODULE UeventGraphProofs -------------------------
(***************************************************************************)
(* Proofs about UeventGraph, for any tree of device paths, any number of   *)
(* workers and any number of uevents.                                      *)
(***************************************************************************)
EXTENDS UeventGraph, DataLemmas

-----------------------------------------------------------------------------
(* Type correctness *)

\* notify_one touches nothing but the state of one sleeping worker.
LEMMA NotifyOneEffect ==
  ASSUME NEW running \in [Workers -> {"wait", "sleep", "handle", "notify"}],
         NotifyOne(running)
  PROVE  /\ pc' \in [Workers -> {"wait", "sleep", "handle", "notify"}]
         /\ \A v \in Workers : pc'[v] = running[v] \/ (v \in Sleepers /\ pc'[v] = "wait")
BY DEF NotifyOne, Sleepers

\* The dependency FindDependency returns is the latest conflicting event, or none.
LEMMA FindDependencyIsLatest ==
  ASSUME TypeOK, NEW n \in Seqnums, NEW p \in Paths
  PROVE  \/ FindDependency(n, p) = 0 /\ Conflicts(n, p) = {}
         \/ /\ FindDependency(n, p) \in Conflicts(n, p)
            /\ \A f \in Conflicts(n, p) : f <= FindDependency(n, p)
<1>1. Conflicts(n, p) \in SUBSET (0..MaxSeqnum) /\ MaxSeqnum \in Nat
  BY GraphAssumption DEF Conflicts, Outstanding, Seqnums
<1>2. CASE Conflicts(n, p) = {}
  BY <1>2 DEF FindDependency
<1>3. CASE Conflicts(n, p) # {}
  <2>1. \E d \in Conflicts(n, p) : \A f \in Conflicts(n, p) : f <= d
    BY <1>1, <1>3, LargestExists
  <2>2. \A d, f \in Conflicts(n, p) : f <= d <=> d >= f
    BY <1>1
  <2>3. FindDependency(n, p) = Max(Conflicts(n, p))
    BY <1>3 DEF FindDependency
  <2> QED BY <2>1, <2>2, <2>3 DEF Max
<1> QED BY <1>2, <1>3

LEMMA TypeInit == Init => TypeOK
BY GraphAssumption, EmptySeq DEF Init, TypeOK, Seqnums

LEMMA TypeStep == TypeOK /\ [Next]_vars => TypeOK'
<1> SUFFICES ASSUME TypeOK, [Next]_vars  PROVE TypeOK'
  OBVIOUS
<1>0. MaxSeqnum \in Nat /\ NoPath \notin Paths
  BY GraphAssumption
<1>1. ASSUME NEW p \in Paths, Add(p)  PROVE TypeOK'
  <2> DEFINE n == lastSeqnum + 1
             d == FindDependency(n, p)
  <2>1. n \in Seqnums /\ lastSeqnum' = n
    BY <1>0, <1>1 DEF Add, TypeOK, Seqnums
  <2>2. d = 0 \/ d \in Seqnums
    BY <2>1, FindDependencyIsLatest DEF Conflicts, Outstanding
  <2> HIDE DEF d
  <2>3. /\ events' \in [Seqnums -> Paths \cup {NoPath}]
        /\ \A m \in Seqnums : events'[m] # NoPath => m <= lastSeqnum'
    BY <2>1, <1>0, <1>1 DEF Add, TypeOK, Seqnums
  <2>4. queue' \in Seq(Seqnums) /\ dependents' \in [Seqnums -> Seq(Seqnums)]
    <3>1. Append(queue, n) \in Seq(Seqnums)
      BY <2>1, AppendProperties DEF TypeOK
    <3>2. d \in Seqnums => Append(dependents[d], n) \in Seq(Seqnums)
      BY <2>1, AppendProperties DEF TypeOK
    <3>3. \/ d = 0 /\ queue' = Append(queue, n) /\ dependents' = dependents
          \/ d # 0 /\ queue' = queue /\ dependents' = [dependents EXCEPT ![d] = Append(@, n)]
      BY <1>1 DEF Add, d
    <3> HIDE DEF n
    <3> QED BY <2>2, <3>1, <3>2, <3>3 DEF TypeOK
  <2>5. lastSeqnum' \in 0..MaxSeqnum
    BY <2>1, <1>0 DEF Seqnums
  <2> QED BY <2>3, <2>4, <2>5, <1>1 DEF Add, TypeOK
<1>2. CASE ListenerNotify
  <2>1. pc \in [Workers -> {"wait", "sleep", "handle", "notify"}] /\ NotifyOne(pc)
    BY <1>2 DEF ListenerNotify, TypeOK
  <2> QED BY <2>1, <1>2, NotifyOneEffect DEF ListenerNotify, TypeOK, Sleepers
<1>3. ASSUME NEW w \in Workers, Take(w)  PROVE TypeOK'
  <2>1. Head(queue) \in Seqnums /\ Tail(queue) \in Seq(Seqnums)
    BY <1>3, HeadTailProperties DEF Take, TypeOK
  <2>2. Head(queue) # 0 /\ Seqnums \subseteq 0..MaxSeqnum
    BY <2>1, <1>0 DEF Seqnums
  <2> QED BY <2>1, <2>2, <1>3 DEF Take, TypeOK
<1>4. ASSUME NEW w \in Workers, Sleep(w) \/ SpuriousWakeup(w)  PROVE TypeOK'
  BY <1>4 DEF Sleep, SpuriousWakeup, TypeOK
<1>5. ASSUME NEW w \in Workers, MarkEventCompleted(w)  PROVE TypeOK'
  <2>1. current[w] \in Seqnums
    BY <1>5, <1>0 DEF MarkEventCompleted, TypeOK, Seqnums
  <2>2. queue \o dependents[current[w]] \in Seq(Seqnums)
    BY <2>1, ConcatProperties DEF TypeOK
  <2>3. <<>> \in Seq(Seqnums)
    BY EmptySeq
  <2>4. /\ events' \in [Seqnums -> Paths \cup {NoPath}]
        /\ \A m \in Seqnums : events'[m] # NoPath => m <= lastSeqnum'
        /\ dependents' \in [Seqnums -> Seq(Seqnums)]
    BY <2>1, <2>3, <1>5 DEF MarkEventCompleted, TypeOK
  <2>5. /\ pc' \in [Workers -> {"wait", "sleep", "handle", "notify"}]
        /\ current' \in [Workers -> 0..MaxSeqnum]
        /\ \A v \in Workers : pc'[v] = "handle" <=> current'[v] # 0
    BY <1>5, <1>0 DEF MarkEventCompleted, TypeOK
  <2> QED BY <2>2, <2>4, <2>5, <1>5 DEF MarkEventCompleted, TypeOK
<1>6. ASSUME NEW w \in Workers, WorkerNotify(w)  PROVE TypeOK'
  <2> DEFINE running == [pc EXCEPT ![w] = "wait"]
  <2>1. running \in [Workers -> {"wait", "sleep", "handle", "notify"}] /\ NotifyOne(running)
    BY <1>6 DEF WorkerNotify, TypeOK
  <2>2. \A v \in Workers : running[v] = "handle" <=> pc[v] = "handle"
    BY <1>6 DEF WorkerNotify, TypeOK
  <2> HIDE DEF running
  <2>3. /\ pc' \in [Workers -> {"wait", "sleep", "handle", "notify"}]
        /\ \A v \in Workers : pc'[v] = running[v] \/ (v \in Sleepers /\ pc'[v] = "wait")
    BY <2>1, NotifyOneEffect
  <2>4. \A v \in Workers : pc'[v] = "handle" <=> pc[v] = "handle"
    BY <2>2, <2>3 DEF Sleepers
  <2> QED BY <2>3, <2>4, <1>6 DEF WorkerNotify, TypeOK
<1>7. CASE UNCHANGED vars
  BY <1>7 DEF vars, TypeOK
<1> QED BY <1>1, <1>2, <1>3, <1>4, <1>5, <1>6, <1>7 DEF Next, Threads, WorkerStep

\* Every variable of the graph and of the loop stays in its domain.
THEOREM TypeCorrect == Spec => []TypeOK
BY TypeInit, TypeStep, PTL DEF Spec

-----------------------------------------------------------------------------
(* No wakeup is lost *)

LEMMA WakeupStep == TypeOK /\ NoLostWakeup /\ [Next]_vars => NoLostWakeup'
<1> SUFFICES ASSUME TypeOK, NoLostWakeup, [Next]_vars  PROVE NoLostWakeup'
  OBVIOUS
<1>1. ASSUME NEW p \in Paths, Add(p)  PROVE NoLostWakeup'
  BY <1>1 DEF Add, NoLostWakeup
<1>2. CASE ListenerNotify
  <2>1. CASE Sleepers = {}
    BY <2>1, <1>2, WorkersAssumption DEF ListenerNotify, NotifyOne, NoLostWakeup, Sleepers, TypeOK
  <2>2. CASE Sleepers # {}
    <3>1. PICK w \in Sleepers : pc' = [pc EXCEPT ![w] = "wait"]
      BY <2>2, <1>2 DEF ListenerNotify, NotifyOne
    <3>2. w \in Workers /\ pc'[w] = "wait"
      BY <3>1 DEF Sleepers, TypeOK
    <3> QED BY <3>2 DEF NoLostWakeup
  <2> QED BY <2>1, <2>2
<1>3. ASSUME NEW w \in Workers,
             Take(w) \/ SpuriousWakeup(w) \/ MarkEventCompleted(w)
      PROVE  NoLostWakeup'
  <2>1. pc'[w] # "sleep"
    BY <1>3 DEF Take, SpuriousWakeup, MarkEventCompleted, TypeOK
  <2> QED BY <2>1 DEF NoLostWakeup
<1>4. ASSUME NEW w \in Workers, Sleep(w)  PROVE NoLostWakeup'
  BY <1>4 DEF Sleep, NoLostWakeup
<1>5. ASSUME NEW w \in Workers, WorkerNotify(w)  PROVE NoLostWakeup'
  <2> DEFINE running == [pc EXCEPT ![w] = "wait"]
  <2>1. /\ running \in [Workers -> {"wait", "sleep", "handle", "notify"}]
        /\ NotifyOne(running) /\ running[w] = "wait"
    BY <1>5 DEF WorkerNotify, TypeOK
  <2> HIDE DEF running
  <2>2. pc'[w] = "wait"
    BY <2>1, NotifyOneEffect
  <2> QED BY <2>2 DEF NoLostWakeup
<1>6. CASE UNCHANGED vars
  BY <1>6 DEF vars, NoLostWakeup
<1> QED BY <1>1, <1>2, <1>3, <1>4, <1>5, <1>6 DEF Next, Threads, WorkerStep

\* Whatever the number of workers and events, an event is never left in the queue with
\* every worker asleep and no notification to come.
THEOREM WakeupsKept == Spec => []NoLostWakeup
<1>1. Init => NoLostWakeup
  BY DEF Init, NoLostWakeup
<1> QED BY <1>1, TypeInit, TypeStep, WakeupStep, PTL DEF Spec
-----------------------------------------------------------------------------
(* What the three steps that move an event do to the graph *)

LEMMA AddEffect ==
  ASSUME TypeOK, NEW p \in Paths, Add(p), NEW n, n = lastSeqnum + 1
  PROVE  /\ n \in Seqnums /\ n \notin Outstanding
         /\ Outstanding' = Outstanding \cup {n}
         /\ events'[n] = p
         /\ \A f \in Outstanding : f < n /\ events'[f] = events[f]
         /\ Handled' = Handled /\ current' = current
         /\ \/ /\ Conflicts(n, p) = {}
               /\ queue' = Append(queue, n)
               /\ dependents' = dependents
            \/ \E d \in Conflicts(n, p) :
                 /\ \A f \in Conflicts(n, p) : f <= d
                 /\ queue' = queue
                 /\ dependents' = [dependents EXCEPT ![d] = Append(@, n)]
<1>0. MaxSeqnum \in Nat /\ NoPath \notin Paths
  BY GraphAssumption
<1>1. /\ n \in Seqnums /\ n > lastSeqnum
      /\ events' = [events EXCEPT ![n] = p]
      /\ Handled' = Handled /\ current' = current
  BY <1>0 DEF Add, TypeOK, Seqnums, Handled
<1>2. \A f \in Outstanding : f < n /\ f \in Seqnums
  BY <1>1 DEF TypeOK, Outstanding, Seqnums
<1>3. n \notin Outstanding
  BY <1>1, <1>2 DEF Seqnums
<1>4. Outstanding' = Outstanding \cup {n}
  BY <1>0, <1>1 DEF Outstanding, TypeOK
<1>5. \/ /\ FindDependency(n, p) = 0
         /\ queue' = Append(queue, n)
         /\ dependents' = dependents
      \/ /\ FindDependency(n, p) # 0
         /\ queue' = queue
         /\ dependents' = [dependents EXCEPT ![FindDependency(n, p)] = Append(@, n)]
  BY DEF Add
<1>6. 0 \notin Conflicts(n, p)
  BY DEF Conflicts, Outstanding, Seqnums
<1>7. \A f \in Outstanding : events'[f] = events[f]
  BY <1>1, <1>2, <1>3 DEF TypeOK
<1>8. events'[n] = p
  BY <1>1 DEF TypeOK
<1> QED BY <1>1, <1>2, <1>3, <1>4, <1>5, <1>6, <1>7, <1>8, FindDependencyIsLatest

LEMMA TakeEffect ==
  ASSUME TypeOK, IsInjective(queue), NEW w \in Workers, Take(w)
  PROVE  /\ Head(queue) \in QueuedEvents
         /\ QueuedEvents' = QueuedEvents \ {Head(queue)}
         /\ IsInjective(queue')
         /\ Handled' = Handled \cup {Head(queue)}
         /\ \A v \in Workers : current'[v] = IF v = w THEN Head(queue) ELSE current[v]
         /\ events' = events /\ dependents' = dependents
<1>1. /\ Head(queue) \in Range(queue)
      /\ Range(Tail(queue)) = Range(queue) \ {Head(queue)}
      /\ IsInjective(Tail(queue))
  BY TailElements DEF TypeOK, Take
<1>2. queue' = Tail(queue)
  BY DEF Take
<1>3. Head(queue) \in Seqnums
  BY HeadTailProperties DEF TypeOK, Take
<1>4. Head(queue) # 0 /\ current[w] = 0
  BY <1>3, GraphAssumption DEF Seqnums, TypeOK, Take
<1>5. \A v \in Workers : current'[v] = IF v = w THEN Head(queue) ELSE current[v]
  BY DEF Take, TypeOK
<1>6. Handled' = Handled \cup {Head(queue)}
  BY <1>4, <1>5 DEF Handled
<1> QED BY <1>1, <1>2, <1>5, <1>6 DEF QueuedEvents, Take

LEMMA CompleteEffect ==
  ASSUME TypeOK, InOnePlace, NEW w \in Workers, MarkEventCompleted(w),
         NEW n, n = current[w]
  PROVE  /\ n \in Handled
         /\ Outstanding' = Outstanding \ {n}
         /\ \A f \in Outstanding' : events'[f] = events[f]
         /\ Handled' = Handled \ {n}
         /\ \A v \in Workers : current'[v] = IF v = w THEN 0 ELSE current[v]
         /\ QueuedEvents' = QueuedEvents \cup DependentsOf(n)
         /\ IsInjective(queue')
         /\ DependentsOf(n)' = {} /\ IsInjective(dependents'[n])
         /\ \A d \in Seqnums : d # n => dependents'[d] = dependents[d]
<1>1. n \in Seqnums /\ n \in Handled
  BY GraphAssumption DEF MarkEventCompleted, TypeOK, Seqnums, Handled
<1>2. /\ Range(queue \o dependents[n]) = QueuedEvents \cup DependentsOf(n)
      /\ IsInjective(queue \o dependents[n])
  <2>1. queue \in Seq(Seqnums) /\ dependents[n] \in Seq(Seqnums)
    BY <1>1 DEF TypeOK
  <2>2. /\ IsInjective(queue) /\ IsInjective(dependents[n])
        /\ Range(queue) \cap Range(dependents[n]) = {}
    BY <1>1 DEF InOnePlace, QueuedEvents, DependentsOf
  <2> QED BY <2>1, <2>2, ConcatElements DEF QueuedEvents, DependentsOf
<1>3. queue' = queue \o dependents[n]
  BY DEF MarkEventCompleted
<1>4. /\ dependents'[n] = <<>>
      /\ \A d \in Seqnums : d # n => dependents'[d] = dependents[d]
  BY <1>1 DEF MarkEventCompleted, TypeOK
<1>5. /\ Outstanding' = Outstanding \ {n}
      /\ \A f \in Outstanding' : events'[f] = events[f]
  BY <1>1, GraphAssumption DEF MarkEventCompleted, TypeOK, Outstanding
<1>6. \A v \in Workers : current'[v] = IF v = w THEN 0 ELSE current[v]
  BY DEF MarkEventCompleted, TypeOK
<1>7. Handled' = Handled \ {n}
  <2>1. \A v \in Workers : current[v] = n => v = w
    BY <1>1 DEF InOnePlace, Handled
  <2> QED BY <1>6, <2>1, <1>1 DEF Handled
<1>8. DependentsOf(n)' = {} /\ IsInjective(dependents'[n])
  BY <1>4 DEF DependentsOf, Range, IsInjective
<1> QED BY <1>1, <1>2, <1>3, <1>4, <1>5, <1>6, <1>7, <1>8 DEF QueuedEvents

-----------------------------------------------------------------------------
(* Every event in one place, behind an event that is still to complete *)

\* Notifications and sleeping move no event.
LEMMA OtherSteps ==
  ASSUME NEW w \in Workers,
         ListenerNotify \/ Sleep(w) \/ SpuriousWakeup(w) \/ WorkerNotify(w) \/ UNCHANGED vars
  PROVE  UNCHANGED <<lastSeqnum, events, queue, dependents, current>>
BY DEF ListenerNotify, Sleep, SpuriousWakeup, WorkerNotify, vars

Placement == InOnePlace /\ PrerequisiteOutstanding

LEMMA PlacementUnmoved ==
  ASSUME Placement, UNCHANGED <<lastSeqnum, events, queue, dependents, current>>
  PROVE  Placement'
<1>1. /\ QueuedEvents' = QueuedEvents /\ Handled' = Handled
      /\ \A d \in Seqnums : DependentsOf(d)' = DependentsOf(d)
  BY DEF QueuedEvents, Handled, DependentsOf
<1>2. Filed' = Filed /\ Outstanding' = Outstanding
  BY DEF Filed, Outstanding, QueuedEvents, Handled, DependentsOf
<1>3. InOnePlace'
  BY <1>1, <1>2 DEF Placement, InOnePlace
<1>4. PrerequisiteOutstanding'
  BY <1>1, <1>2 DEF Placement, PrerequisiteOutstanding
<1> QED BY <1>3, <1>4 DEF Placement

LEMMA PlacementAdd ==
  ASSUME TypeOK, Placement, NEW p \in Paths, Add(p)
  PROVE  Placement'
<1> DEFINE n == lastSeqnum + 1
<1>1. /\ n \in Seqnums /\ n \notin Outstanding
      /\ Outstanding' = Outstanding \cup {n}
      /\ Handled' = Handled /\ current' = current
      /\ \A f \in Outstanding : f < n
  BY AddEffect
<1>2. \/ /\ queue' = Append(queue, n)
         /\ dependents' = dependents
      \/ \E d \in Conflicts(n, p) :
           /\ queue' = queue
           /\ dependents' = [dependents EXCEPT ![d] = Append(@, n)]
  BY AddEffect
<1> HIDE DEF n
<1>3. CASE queue' = Append(queue, n) /\ dependents' = dependents
  <2>1. n \notin QueuedEvents
    BY <1>1 DEF Placement, InOnePlace
  <2>2. QueuedEvents' = QueuedEvents \cup {n} /\ IsInjective(queue')
    BY <1>1, <1>3, <2>1, AppendElements DEF TypeOK, Placement, InOnePlace, QueuedEvents
  <2>3. \A d \in Seqnums : DependentsOf(d)' = DependentsOf(d)
    BY <1>3 DEF DependentsOf
  <2>4. InOnePlace'
    BY <1>1, <1>3, <2>2, <2>3 DEF Placement, InOnePlace, Filed
  <2>5. PrerequisiteOutstanding'
    BY <1>1, <2>3 DEF Placement, PrerequisiteOutstanding
  <2> QED BY <2>4, <2>5 DEF Placement
<1>4. ASSUME NEW d \in Conflicts(n, p),
             queue' = queue, dependents' = [dependents EXCEPT ![d] = Append(@, n)]
      PROVE  Placement'
  <2>1. d \in Seqnums /\ d \in Outstanding /\ d < n
    BY DEF Conflicts, Outstanding
  <2>2. \A e \in Seqnums : n \notin DependentsOf(e)
    BY <1>1 DEF Placement, InOnePlace, Filed
  <2>3. /\ dependents'[d] = Append(dependents[d], n)
        /\ \A e \in Seqnums : e # d => dependents'[e] = dependents[e]
        /\ dependents[d] \in Seq(Seqnums)
    BY <1>4, <2>1 DEF TypeOK
  <2>4. DependentsOf(d)' = DependentsOf(d) \cup {n} /\ IsInjective(dependents'[d])
    BY <1>1, <2>1, <2>2, <2>3, AppendElements DEF Placement, InOnePlace, DependentsOf
  <2>5. \A e \in Seqnums : e # d => DependentsOf(e)' = DependentsOf(e)
    BY <2>3 DEF DependentsOf
  <2>6. QueuedEvents' = QueuedEvents
    BY <1>4 DEF QueuedEvents
  <2>7. n \notin QueuedEvents \cup Handled
    BY <1>1 DEF Placement, InOnePlace
  <2>8. \A e \in Seqnums : DependentsOf(e)' = IF e = d THEN DependentsOf(e) \cup {n}
                                               ELSE DependentsOf(e)
    BY <2>4, <2>5
  <2>9. \A e \in Seqnums : IsInjective(dependents'[e])
    BY <2>3, <2>4 DEF Placement, InOnePlace
  <2>10. Filed' = Filed \cup {n}
    BY <1>1, <2>1, <2>8 DEF Filed
  <2>11. \A e, f \in Seqnums : DependentsOf(e)' \cap DependentsOf(f)' # {} => e = f
    BY <2>2, <2>8 DEF Placement, InOnePlace
  <2>12. InOnePlace'
    BY <1>1, <1>4, <2>6, <2>7, <2>8, <2>9, <2>10, <2>11 DEF Placement, InOnePlace
  <2>13. PrerequisiteOutstanding'
    BY <1>1, <2>1, <2>8 DEF Placement, PrerequisiteOutstanding
  <2> QED BY <2>12, <2>13 DEF Placement
<1> QED BY <1>2, <1>3, <1>4

LEMMA PlacementTake ==
  ASSUME TypeOK, Placement, NEW w \in Workers, Take(w)
  PROVE  Placement'
<1> DEFINE h == Head(queue)
<1>1. /\ h \in QueuedEvents
      /\ QueuedEvents' = QueuedEvents \ {h}
      /\ IsInjective(queue')
      /\ Handled' = Handled \cup {h}
      /\ \A v \in Workers : current'[v] = IF v = w THEN h ELSE current[v]
      /\ events' = events /\ dependents' = dependents
  BY TakeEffect DEF Placement, InOnePlace
<1> HIDE DEF h
<1>2. /\ Outstanding' = Outstanding
      /\ \A d \in Seqnums : DependentsOf(d)' = DependentsOf(d)
  BY <1>1 DEF Outstanding, DependentsOf
<1>3. h \notin Handled /\ \A d \in Seqnums : h \notin DependentsOf(d)
  BY <1>1 DEF Placement, InOnePlace
<1>4. \A v \in Workers : current[v] # 0 => current[v] # h
  BY <1>3 DEF Handled
<1>5. \A v, u \in Workers : current'[v] = current'[u] /\ current'[v] # 0 => v = u
  BY <1>1, <1>4 DEF Placement, InOnePlace
<1>6. InOnePlace'
  BY <1>1, <1>2, <1>3, <1>5 DEF Placement, InOnePlace, Filed
<1>7. PrerequisiteOutstanding'
  BY <1>2 DEF Placement, PrerequisiteOutstanding
<1> QED BY <1>6, <1>7 DEF Placement

LEMMA PlacementComplete ==
  ASSUME TypeOK, Placement, NEW w \in Workers, MarkEventCompleted(w)
  PROVE  Placement'
<1> SUFFICES ASSUME NEW n, n = current[w]  PROVE Placement'
  OBVIOUS
<1>1. /\ n \in Handled
      /\ Outstanding' = Outstanding \ {n}
      /\ Handled' = Handled \ {n}
      /\ \A v \in Workers : current'[v] = IF v = w THEN 0 ELSE current[v]
      /\ QueuedEvents' = QueuedEvents \cup DependentsOf(n)
      /\ IsInjective(queue')
      /\ DependentsOf(n)' = {} /\ IsInjective(dependents'[n])
      /\ \A d \in Seqnums : d # n => dependents'[d] = dependents[d]
  BY CompleteEffect DEF Placement
<1>2. n \in Outstanding /\ n \in Seqnums
  BY <1>1 DEF Placement, InOnePlace, Outstanding
<1>3. /\ n \notin QueuedEvents
      /\ \A d \in Seqnums : n \notin DependentsOf(d)
      /\ n \notin Filed
  BY <1>1, <1>2 DEF Placement, InOnePlace, Filed
<1>4. \A d \in Seqnums : DependentsOf(d)' = IF d = n THEN {} ELSE DependentsOf(d)
  BY <1>1 DEF DependentsOf
<1>5. Filed' = Filed \ DependentsOf(n) /\ DependentsOf(n) \subseteq Filed
  <2>1. \A d \in Seqnums : d # n => DependentsOf(d) \cap DependentsOf(n) = {}
    BY <1>2 DEF Placement, InOnePlace
  <2>2. DependentsOf(n) \subseteq Seqnums
    BY <1>2, LenProperties, RangeOfSeq DEF TypeOK, DependentsOf
  <2> QED BY <1>2, <1>4, <2>1, <2>2 DEF Filed
<1>6. \A d \in Seqnums : IsInjective(dependents'[d])
  BY <1>1, <1>2 DEF Placement, InOnePlace
<1>7. \A v, u \in Workers : current'[v] = current'[u] /\ current'[v] # 0 => v = u
  BY <1>1 DEF Placement, InOnePlace
<1>8. QueuedEvents' \cup Handled' \cup Filed' = Outstanding'
  BY <1>1, <1>2, <1>3, <1>5 DEF Placement, InOnePlace
<1>9. /\ QueuedEvents' \cap Handled' = {}
      /\ \A d \in Seqnums : DependentsOf(d)' \cap (QueuedEvents' \cup Handled') = {}
  BY <1>1, <1>2, <1>4 DEF Placement, InOnePlace
<1>10. InOnePlace'
  BY <1>1, <1>4, <1>6, <1>7, <1>8, <1>9 DEF Placement, InOnePlace
<1>11. PrerequisiteOutstanding'
  BY <1>1, <1>4 DEF Placement, PrerequisiteOutstanding
<1> QED BY <1>10, <1>11 DEF Placement

LEMMA PlacementStep == TypeOK /\ Placement /\ [Next]_vars => Placement'
<1> SUFFICES ASSUME TypeOK, Placement, [Next]_vars  PROVE Placement'
  OBVIOUS
<1> QED BY WorkersAssumption, PlacementUnmoved, PlacementAdd, PlacementTake,
           PlacementComplete, OtherSteps DEF Next, Threads, WorkerStep

LEMMA PlacementInit == Init => Placement
<1> SUFFICES ASSUME Init  PROVE Placement
  OBVIOUS
<1>1. /\ QueuedEvents = {} /\ IsInjective(queue)
      /\ \A d \in Seqnums : DependentsOf(d) = {} /\ IsInjective(dependents[d])
  BY DEF Init, QueuedEvents, DependentsOf, Range, IsInjective
<1>2. Handled = {} /\ Outstanding = {}
  BY DEF Init, Handled, Outstanding
<1> QED BY <1>1, <1>2 DEF Init, Placement, InOnePlace, PrerequisiteOutstanding, Filed

\* No event is lost or handed out twice, whatever the interleaving of Add with the
\* workers: an outstanding event is queued, handled or filed, once.
THEOREM EventsInOnePlace == Spec => []InOnePlace
BY TypeInit, TypeStep, PlacementInit, PlacementStep, PTL DEF Spec, Placement

\* Events wait only for earlier events of the graph: there is no circular wait, and
\* the event that releases a waiting one is still to complete.
THEOREM PrerequisitesOutstanding == Spec => []PrerequisiteOutstanding
BY TypeInit, TypeStep, PlacementInit, PlacementStep, PTL DEF Spec, Placement

-----------------------------------------------------------------------------
(* Order *)

\* The strengthening of OrderRespected: an event with nothing to wait for has no
\* outstanding conflict, and a filed one conflicts with nothing that the event it is
\* filed behind does not wait for in its turn.
Covered ==
  /\ \A e \in QueuedEvents \cup Handled : Conflicts(e, events[e]) = {}
  /\ \A d \in Seqnums : \A e \in DependentsOf(d) :
       \A f \in Conflicts(e, events[e]) : f = d \/ f \in Conflicts(d, events[d])

LEMMA CoveredUnmoved ==
  ASSUME Covered, UNCHANGED <<lastSeqnum, events, queue, dependents, current>>
  PROVE  Covered'
BY DEF Covered, QueuedEvents, DependentsOf, Handled, Conflicts, Outstanding

\* Conflicts are with earlier events: a new event gives the old ones no conflict.
LEMMA ConflictsAdd ==
  ASSUME TypeOK, NEW p \in Paths, Add(p)
  PROVE  /\ \A e \in Outstanding : (Conflicts(e, events[e]))' = Conflicts(e, events[e])
         /\ \A n : n = lastSeqnum + 1 => (Conflicts(n, events[n]))' = Conflicts(n, p)
<1> SUFFICES ASSUME NEW n, n = lastSeqnum + 1
             PROVE  /\ \A e \in Outstanding : (Conflicts(e, events[e]))' = Conflicts(e, events[e])
                    /\ (Conflicts(n, events[n]))' = Conflicts(n, p)
  OBVIOUS
<1>1. /\ n \in Seqnums /\ n \notin Outstanding
      /\ Outstanding' = Outstanding \cup {n}
      /\ events'[n] = p
      /\ \A f \in Outstanding : f < n /\ events'[f] = events[f]
  BY AddEffect
<1>2. n \in Int /\ \A f \in Outstanding : f \in Int /\ f < n /\ ~ (n < f) /\ f # n
  BY <1>1 DEF Outstanding, Seqnums
<1>3. ASSUME NEW e \in Outstanding
      PROVE  (Conflicts(e, events[e]))' = Conflicts(e, events[e])
  <2>1. events'[e] = events[e] /\ ~ (n < e)
    BY <1>1, <1>2
  <2> QED BY <1>1, <2>1 DEF Conflicts
<1>4. (Conflicts(n, events[n]))' = Conflicts(n, p)
  <2>1. ~ (n < n)
    BY <1>2
  <2> QED BY <1>1, <2>1 DEF Conflicts
<1> QED BY <1>3, <1>4

LEMMA CoveredAdd ==
  ASSUME TypeOK, Placement, Covered, NEW p \in Paths, SingleFile(p), Add(p)
  PROVE  Covered'
<1> SUFFICES ASSUME NEW n, n = lastSeqnum + 1  PROVE Covered'
  OBVIOUS
<1>1. /\ n \in Seqnums /\ n \notin Outstanding
      /\ Handled' = Handled
  BY AddEffect
<1>2. \/ /\ Conflicts(n, p) = {}
         /\ queue' = Append(queue, n)
         /\ dependents' = dependents
      \/ \E d \in Conflicts(n, p) :
           /\ \A f \in Conflicts(n, p) : f <= d
           /\ queue' = queue
           /\ dependents' = [dependents EXCEPT ![d] = Append(@, n)]
  BY AddEffect
<1>3. /\ \A e \in Outstanding : (Conflicts(e, events[e]))' = Conflicts(e, events[e])
      /\ (Conflicts(n, events[n]))' = Conflicts(n, p)
  BY ConflictsAdd
<1>4. /\ QueuedEvents \cup Handled \subseteq Outstanding
      /\ \A d \in Seqnums : DependentsOf(d) \subseteq Outstanding
      /\ \A d \in Seqnums : DependentsOf(d) # {} => d \in Outstanding
  <2>1. \A d \in Seqnums : DependentsOf(d) \subseteq Seqnums
    BY RangeOfSeq DEF TypeOK, DependentsOf
  <2> QED BY <2>1 DEF Placement, InOnePlace, PrerequisiteOutstanding, Filed
<1>5. CASE Conflicts(n, p) = {} /\ queue' = Append(queue, n) /\ dependents' = dependents
  <2>1. QueuedEvents' = QueuedEvents \cup {n}
    BY <1>1, <1>5, AppendElements DEF TypeOK, QueuedEvents
  <2>2. \A d \in Seqnums : DependentsOf(d)' = DependentsOf(d)
    BY <1>5 DEF DependentsOf
  <2>3. \A e \in (QueuedEvents \cup Handled)' : (Conflicts(e, events[e]))' = {}
    <3>1. (QueuedEvents \cup Handled)' = QueuedEvents \cup Handled \cup {n}
      BY <2>1, <1>1
    <3>2. \A e \in QueuedEvents \cup Handled : (Conflicts(e, events[e]))' = {}
      BY <1>3, <1>4 DEF Covered
    <3> QED BY <3>1, <3>2, <1>3, <1>5
  <2>4. \A d \in Seqnums : \A e \in DependentsOf(d)' : \A f \in (Conflicts(e, events[e]))' :
          f = d \/ f \in (Conflicts(d, events[d]))'
    BY <2>2, <1>3, <1>4 DEF Covered
  <2> QED BY <2>3, <2>4 DEF Covered
<1>6. ASSUME NEW d \in Conflicts(n, p),
             \A f \in Conflicts(n, p) : f <= d,
             queue' = queue, dependents' = [dependents EXCEPT ![d] = Append(@, n)]
      PROVE  Covered'
  <2>1. d \in Outstanding /\ d \in Seqnums
    BY DEF Conflicts, Outstanding
  <2>2. \A f \in Conflicts(n, p) : f = d \/ f \in Conflicts(d, events[d])
    <3>1. PICK c \in Conflicts(n, p) :
                 \A f \in Conflicts(n, p) : f = c \/ f \in Conflicts(c, events[c])
      BY <1>1 DEF SingleFile
    <3>2. d = c \/ d < c
      BY <3>1 DEF Conflicts
    <3>3. c <= d /\ c \in Int /\ d \in Int
      BY <1>6, <2>1 DEF Conflicts, Outstanding, Seqnums
    <3>4. d = c
      BY <3>2, <3>3
    <3> QED BY <3>1, <3>4
  <2>3. QueuedEvents' = QueuedEvents
    BY <1>6 DEF QueuedEvents
  <2>4. /\ DependentsOf(d)' = DependentsOf(d) \cup {n}
        /\ \A e \in Seqnums : e # d => DependentsOf(e)' = DependentsOf(e)
    <3>1. /\ dependents'[d] = Append(dependents[d], n)
          /\ \A e \in Seqnums : e # d => dependents'[e] = dependents[e]
          /\ dependents[d] \in Seq(Seqnums)
      BY <1>6, <2>1 DEF TypeOK
    <3> QED BY <3>1, <1>1, AppendElements DEF DependentsOf
  <2>5. \A e \in (QueuedEvents \cup Handled)' : (Conflicts(e, events[e]))' = {}
    BY <2>3, <1>1, <1>3, <1>4 DEF Covered
  <2>6. ASSUME NEW c \in Seqnums, NEW e \in DependentsOf(c)',
               NEW f \in (Conflicts(e, events[e]))'
        PROVE  f = c \/ f \in (Conflicts(c, events[c]))'
    <3>1. CASE e = n /\ c = d
      BY <3>1, <2>1, <2>2, <1>3
    <3>2. CASE ~(e = n /\ c = d)
      <4>1. e \in DependentsOf(c) /\ e \in Outstanding /\ c \in Outstanding
        BY <3>2, <2>4, <1>4
      <4> QED BY <4>1, <1>3 DEF Covered
    <3> QED BY <3>1, <3>2
  <2> QED BY <2>5, <2>6 DEF Covered
<1> QED BY <1>2, <1>5, <1>6

LEMMA CoveredTake ==
  ASSUME TypeOK, Placement, Covered, NEW w \in Workers, Take(w)
  PROVE  Covered'
<1>1. /\ Head(queue) \in QueuedEvents
      /\ QueuedEvents' = QueuedEvents \ {Head(queue)}
      /\ Handled' = Handled \cup {Head(queue)}
      /\ events' = events /\ dependents' = dependents
  BY TakeEffect DEF Placement, InOnePlace
<1>2. (QueuedEvents \cup Handled)' = QueuedEvents \cup Handled
  BY <1>1
<1>3. /\ \A e \in Seqnums \cup QueuedEvents \cup Handled :
            (Conflicts(e, events[e]))' = Conflicts(e, events[e])
      /\ \A d \in Seqnums : DependentsOf(d)' = DependentsOf(d)
  BY <1>1 DEF Conflicts, Outstanding, DependentsOf
<1>4. \A d \in Seqnums : DependentsOf(d) \subseteq Seqnums
  BY RangeOfSeq DEF TypeOK, DependentsOf
<1> QED BY <1>2, <1>3, <1>4 DEF Covered

LEMMA CoveredComplete ==
  ASSUME TypeOK, Placement, Covered, NEW w \in Workers, MarkEventCompleted(w)
  PROVE  Covered'
<1> SUFFICES ASSUME NEW n, n = current[w]  PROVE Covered'
  OBVIOUS
<1>1. /\ n \in Handled
      /\ Outstanding' = Outstanding \ {n}
      /\ \A f \in Outstanding' : events'[f] = events[f]
      /\ Handled' = Handled \ {n}
      /\ QueuedEvents' = QueuedEvents \cup DependentsOf(n)
      /\ DependentsOf(n)' = {}
      /\ \A d \in Seqnums : d # n => dependents'[d] = dependents[d]
  BY CompleteEffect DEF Placement
<1>2. n \in Outstanding /\ n \in Seqnums
  BY <1>1 DEF Placement, InOnePlace, Outstanding
<1>3. \A e \in Outstanding' : (Conflicts(e, events[e]))' = Conflicts(e, events[e]) \ {n}
  BY <1>1 DEF Conflicts
<1>4. \A d \in Seqnums : d # n => DependentsOf(d)' = DependentsOf(d)
  BY <1>1 DEF DependentsOf
<1>5. /\ QueuedEvents \subseteq Outstanding' /\ Handled' \subseteq Outstanding'
      /\ \A d \in Seqnums : DependentsOf(d) \subseteq Outstanding'
      /\ \A d \in Seqnums : d # n /\ DependentsOf(d) # {} => d \in Outstanding'
  <2>1. \A d \in Seqnums : DependentsOf(d) \subseteq Seqnums
    BY RangeOfSeq DEF TypeOK, DependentsOf
  <2> QED BY <2>1, <1>1, <1>2 DEF Placement, InOnePlace, PrerequisiteOutstanding, Filed
<1>6. \A e \in DependentsOf(n) : Conflicts(e, events[e]) \subseteq {n}
  BY <1>1, <1>2 DEF Covered
<1>7. \A e \in (QueuedEvents \cup Handled)' : (Conflicts(e, events[e]))' = {}
  BY <1>1, <1>2, <1>3, <1>5, <1>6 DEF Covered
<1>8. ASSUME NEW d \in Seqnums, NEW e \in DependentsOf(d)',
             NEW f \in (Conflicts(e, events[e]))'
      PROVE  f = d \/ f \in (Conflicts(d, events[d]))'
  <2>1. d # n /\ e \in DependentsOf(d) /\ e \in Outstanding' /\ d \in Outstanding'
    BY <1>1, <1>4, <1>5, <1>8
  <2>2. f \in Conflicts(e, events[e]) /\ f # n
    BY <2>1, <1>3, <1>8
  <2> QED BY <2>1, <2>2, <1>3 DEF Covered
<1> QED BY <1>7, <1>8 DEF Covered

LEMMA CoveredInit == Init => Covered
<1> SUFFICES ASSUME Init  PROVE Covered
  OBVIOUS
<1>1. QueuedEvents = {} /\ \A d \in Seqnums : DependentsOf(d) = {}
  BY DEF Init, QueuedEvents, DependentsOf, Range
<1>2. Handled = {}
  BY DEF Init, Handled
<1> QED BY <1>1, <1>2 DEF Covered

OrderInv == TypeOK /\ Placement /\ Covered

LEMMA OrderStep == OrderInv /\ [SingleFileNext]_vars => OrderInv'
<1> SUFFICES ASSUME OrderInv, [SingleFileNext]_vars  PROVE OrderInv'
  OBVIOUS
<1>1. [Next]_vars
  BY DEF SingleFileNext, Next
<1>2. TypeOK' /\ Placement'
  BY <1>1, TypeStep, PlacementStep DEF OrderInv
<1>3. Covered'
  BY WorkersAssumption, CoveredUnmoved, CoveredAdd, CoveredTake, CoveredComplete, OtherSteps
     DEF OrderInv, SingleFileNext, Threads, WorkerStep
<1> QED BY <1>2, <1>3 DEF OrderInv

LEMMA OrderInvImplies == OrderInv => OrderRespected
<1> SUFFICES ASSUME OrderInv, NEW e \in Handled, NEW f \in Outstanding, f < e,
                    \/ events[f] \in AncestorsOrSame[events[e]]
                    \/ events[e] \in AncestorsOrSame[events[f]]
             PROVE  FALSE
  BY DEF OrderRespected
<1>1. e \in Outstanding
  BY DEF OrderInv, Placement, InOnePlace
<1>2. events[e] \in Paths /\ events[f] \in Paths
  BY <1>1 DEF Outstanding, OrderInv, TypeOK
<1>3. f \in Conflicts(e, events[e])
  BY <1>2, GraphAssumption DEF Conflicts
<1> QED BY <1>3 DEF OrderInv, Covered

LEMMA OrderInvHolds == SingleFileSpec => []OrderInv
<1>1. Init => OrderInv
  BY TypeInit, PlacementInit, CoveredInit DEF OrderInv
<1> QED BY <1>1, OrderStep, PTL DEF SingleFileSpec

\* When every uevent's conflicts also conflict with the latest of them, no event is
\* handled before an earlier one of the same device, an ancestor or a descendant.
THEOREM OrderKept == SingleFileSpec => []OrderRespected
BY OrderInvHolds, OrderInvImplies, PTL

-----------------------------------------------------------------------------
(* Refinement of UeventOrder *)

LEMMA RefineInit == Init => EventOrder!Init
<1> SUFFICES ASSUME Init  PROVE EventOrder!Init
  OBVIOUS
<1>1. Handled = {}
  BY DEF Init, Handled
<1> QED BY <1>1 DEF Init, EventOrder!Init, EventOrder!Seqnums, Seqnums

LEMMA RefineStep ==
  OrderInv /\ OrderInv' /\ [SingleFileNext]_vars => [EventOrder!Next]_(EventOrder!vars)
<1> SUFFICES ASSUME OrderInv, OrderInv', [SingleFileNext]_vars
             PROVE  EventOrder!Next \/ UNCHANGED EventOrder!vars
  OBVIOUS
<1>1. ASSUME NEW p \in Paths, Add(p)  PROVE EventOrder!Next
  <2>1. Handled' = Handled
    BY <1>1 DEF Add, Handled
  <2>2. EventOrder!Arrive(p)
    BY <1>1, <2>1 DEF Add, EventOrder!Arrive
  <2> QED BY <2>2 DEF EventOrder!Next
<1>2. ASSUME NEW w \in Workers, Take(w)  PROVE EventOrder!Next
  <2> DEFINE h == Head(queue)
  <2>1. /\ h \in QueuedEvents
        /\ Handled' = Handled \cup {h}
        /\ events' = events /\ lastSeqnum' = lastSeqnum
    BY <1>2, TakeEffect DEF OrderInv, Placement, InOnePlace, Take
  <2> HIDE DEF h
  <2>2. h \in Outstanding /\ h \notin Handled /\ h \in Handled'
    BY <2>1 DEF OrderInv, Placement, InOnePlace
  <2>3. Conflicts(h, events[h]) = {}
    BY <2>1 DEF OrderInv, Covered
  <2>4. \A f \in Seqnums : events[f] # NoPath => events[f] \in Paths
    BY DEF OrderInv, TypeOK
  <2>5. EventOrder!Before(h) = {}
    BY <2>2, <2>3, <2>4, GraphAssumption
       DEF EventOrder!Before, EventOrder!Related, EventOrder!Seqnums, Seqnums, Conflicts, Outstanding
  <2>6. EventOrder!Start(h)
    BY <2>1, <2>2, <2>5 DEF EventOrder!Start, Outstanding
  <2> QED BY <2>2, <2>6 DEF EventOrder!Next, EventOrder!Seqnums, Outstanding, Seqnums
<1>3. ASSUME NEW w \in Workers, MarkEventCompleted(w)  PROVE EventOrder!Next
  <2> DEFINE n == current[w]
  <2>1. n \in Handled /\ Handled' = Handled \ {n}
    BY <1>3, CompleteEffect DEF OrderInv, Placement
  <2>2. n \in Seqnums
    BY <2>1 DEF OrderInv, Placement, InOnePlace, Outstanding
  <2>3. EventOrder!Finish(n)
    BY <1>3, <2>1 DEF EventOrder!Finish, MarkEventCompleted
  <2> QED BY <2>2, <2>3 DEF EventOrder!Next, EventOrder!Seqnums, Seqnums
<1>4. ASSUME UNCHANGED <<lastSeqnum, events, queue, dependents, current>>
      PROVE  UNCHANGED EventOrder!vars
  BY <1>4 DEF EventOrder!vars, Handled
<1> QED
  BY <1>1, <1>2, <1>3, <1>4, WorkersAssumption, OtherSteps DEF SingleFileNext, Threads, WorkerStep

\* The graph, its condition variable and its workers implement the promised order: a
\* step of a thread starts, finishes or adds an event of UeventOrder, or changes nothing.
THEOREM Refinement == SingleFileSpec => ImplementsEventOrder
BY RefineInit, RefineStep, OrderInvHolds, PTL
   DEF SingleFileSpec, ImplementsEventOrder, EventOrder!Spec
=============================================================================
