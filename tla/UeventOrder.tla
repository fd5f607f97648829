---------------------------- MODULE UeventOrder ----------------------------
(***************************************************************************)
(* What the parallel uevent loop promises to the devices, with no queue,   *)
(* no dependency graph and no threads: events arrive with increasing       *)
(* sequence numbers, several may be handled at once, and the handling of   *)
(* an event starts only when no earlier event of the same device, of an    *)
(* ancestor or of a descendant is still unfinished.  The promise is the    *)
(* one of the comments of uevent_dependency_graph.h and ueventd.cpp.       *)
(***************************************************************************)
EXTENDS Integers

CONSTANTS
  Paths,           \* the device paths
  AncestorsOrSame, \* of each path, the path and the directories above it
  MaxSeqnum,       \* the last sequence number the kernel gives out
  NoPath           \* marks a sequence number that is not outstanding

VARIABLES
  lastSeqnum,      \* the sequence number of the latest event
  events,          \* the path of each unfinished event
  active           \* the events being handled
vars == <<lastSeqnum, events, active>>

Seqnums == 1..MaxSeqnum

\* One of the two devices is the other, or contains it.
Related(p, q) == p \in AncestorsOrSame[q] \/ q \in AncestorsOrSame[p]

\* Unfinished events that came before n and touch the same branch.
Before(n) ==
  {f \in Seqnums : /\ f < n
                   /\ events[f] # NoPath
                   /\ Related(events[f], events[n])}

Init ==
  /\ lastSeqnum = 0
  /\ events = [n \in Seqnums |-> NoPath]
  /\ active = {}

Arrive(p) ==
  /\ lastSeqnum < MaxSeqnum
  /\ lastSeqnum' = lastSeqnum + 1
  /\ events' = [events EXCEPT ![lastSeqnum + 1] = p]
  /\ UNCHANGED active

Start(n) ==
  /\ events[n] # NoPath
  /\ n \notin active
  /\ Before(n) = {}
  /\ active' = active \cup {n}
  /\ UNCHANGED <<lastSeqnum, events>>

Finish(n) ==
  /\ n \in active
  /\ active' = active \ {n}
  /\ events' = [events EXCEPT ![n] = NoPath]
  /\ UNCHANGED lastSeqnum

Next ==
  \/ \E p \in Paths : Arrive(p)
  \/ \E n \in Seqnums : Start(n) \/ Finish(n)

Spec == Init /\ [][Next]_vars
=============================================================================
