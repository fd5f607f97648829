------------------------ MODULE UeventdFirmwareProofs ------------------------
(***************************************************************************)
(* Theorems about UeventdFirmware, for any files, requests and children:   *)
(* no announcement of a request is served twice; the parser and the        *)
(* processes that serve stay in their domains; the configuration is what   *)
(* the files say, whatever they import, and imports override; and how a    *)
(* request ends is what the handler, and by it what the files, say of it.  *)
(***************************************************************************)
EXTENDS UeventdFirmware, DataLemmas

-----------------------------------------------------------------------------
(* The processes that serve and the uevents that announce a request *)

FirmwareEvents == [kind : {"add", "modalias", "remove"}, request : Requests]

Workers(sv, r) == {p \in Servers : sv[p].request = r}

\* The same as AnnouncementServedOnce, of any processes and queue.
ServedOnce(sv, q, an) ==
  \A r \in Requests : Cardinality(Workers(sv, r)) + Copies(q, Uevent("add", r)) <= an[r]

LEMMA WorkersFinite ==
  /\ IsFiniteSet(Servers)
  /\ \A sv, r : Cardinality(Workers(sv, r)) \in Nat
<1>1. IsFiniteSet(Servers)
  BY FirmwareAssumption, FS_AddElement DEF Servers
<1>2. ASSUME NEW sv, NEW r PROVE Cardinality(Workers(sv, r)) \in Nat
  <2>1. Workers(sv, r) \in SUBSET Servers
    BY DEF Workers
  <2> QED BY <1>1, <2>1, FS_Subset, FS_CardinalityType
<1> QED BY <1>1, <1>2

\* Nobody but c begins to serve a request.
LEMMA WorkersMore ==
  ASSUME NEW sv, NEW tv, NEW c,
         \A p \in Servers \ {c} : tv[p].request \in {sv[p].request, None}
  PROVE  \A r \in Requests :
           Cardinality(Workers(tv, r)) <=
             Cardinality(Workers(sv, r)) + IF tv[c].request = r THEN 1 ELSE 0
<1> TAKE r \in Requests
<1>1. IsFiniteSet(Workers(sv, r))
  <2>1. Workers(sv, r) \in SUBSET Servers
    BY DEF Workers
  <2> QED BY <2>1, WorkersFinite, FS_Subset
<1>2. r # None
  BY FirmwareAssumption
<1>3. Cardinality(Workers(tv, r)) \in Nat /\ Cardinality(Workers(sv, r)) \in Nat
  BY WorkersFinite
<1>4. CASE tv[c].request = r
  <2>1. Workers(tv, r) \in SUBSET (Workers(sv, r) \cup {c})
    BY <1>2 DEF Workers
  <2>2. /\ IsFiniteSet(Workers(sv, r) \cup {c})
        /\ Cardinality(Workers(sv, r) \cup {c}) <= Cardinality(Workers(sv, r)) + 1
    <3> DEFINE W == Workers(sv, r)
               V == W \cup {c}
    <3>1. IsFiniteSet(V) /\ Cardinality(V) = IF c \in W THEN Cardinality(W) ELSE Cardinality(W) + 1
      BY <1>1, FS_AddElement
    <3> HIDE DEF V
    <3>2. Cardinality(V) <= Cardinality(W) + 1
      BY <1>3, <3>1
    <3> QED BY <3>1, <3>2 DEF V
  <2>3. Cardinality(Workers(sv, r) \cup {c}) \in Nat
    BY <2>2, FS_CardinalityType
  <2>4. Cardinality(Workers(tv, r)) <= Cardinality(Workers(sv, r) \cup {c})
    BY <2>1, <2>2, FS_Subset
  <2> QED BY <1>3, <1>4, <2>2, <2>3, <2>4
<1>5. CASE tv[c].request # r
  <2>1. Workers(tv, r) \in SUBSET Workers(sv, r)
    BY <1>2, <1>5 DEF Workers
  <2>2. Cardinality(Workers(tv, r)) <= Cardinality(Workers(sv, r))
    BY <1>1, <2>1, FS_Subset
  <2> QED BY <1>3, <1>5, <2>2
<1> QED BY <1>4, <1>5

LEMMA WorkersFewer ==
  ASSUME NEW sv, NEW tv, \A p \in Servers : tv[p].request \in {sv[p].request, None}
  PROVE  \A r \in Requests : Cardinality(Workers(tv, r)) <= Cardinality(Workers(sv, r))
<1> TAKE r \in Requests
<1>1. IsFiniteSet(Workers(sv, r))
  <2>1. Workers(sv, r) \in SUBSET Servers
    BY DEF Workers
  <2> QED BY <2>1, WorkersFinite, FS_Subset
<1>2. Workers(tv, r) \in SUBSET Workers(sv, r)
  BY FirmwareAssumption DEF Workers
<1> QED BY <1>1, <1>2, FS_Subset

LEMMA UeventsDiffer ==
  /\ \A k \in {"add", "modalias", "remove"}, r \in Requests : Uevent(k, r) \in FirmwareEvents
  /\ \A j, k, r, s : Uevent(j, r) = Uevent(k, s) <=> j = k /\ r = s
  /\ \A e \in FirmwareEvents : e = Uevent(e.kind, e.request)
BY DEF Uevent, FirmwareEvents

LEMMA QueueGrows ==
  ASSUME NEW q \in Seq(FirmwareEvents), NEW e \in FirmwareEvents
  PROVE  /\ Append(q, e) \in Seq(FirmwareEvents)
         /\ \A x : /\ Copies(q, x) \in Nat
                   /\ Copies(Append(q, e), x) = Copies(q, x) + IF e = x THEN 1 ELSE 0
<1>1. Append(q, e) \in Seq(FirmwareEvents)
  BY AppendProperties
<1>2. ASSUME NEW x
      PROVE  /\ Copies(q, x) \in Nat
             /\ Copies(Append(q, e), x) = Copies(q, x) + IF e = x THEN 1 ELSE 0
  BY CopiesAppend
<1> QED BY <1>1, <1>2

LEMMA QueueShrinks ==
  ASSUME NEW q \in Seq(FirmwareEvents), q # <<>>
  PROVE  /\ Tail(q) \in Seq(FirmwareEvents) /\ Head(q) \in FirmwareEvents
         /\ \A x : /\ Copies(Tail(q), x) \in Nat
                   /\ Copies(q, x) = Copies(Tail(q), x) + IF Head(q) = x THEN 1 ELSE 0
<1>1. Tail(q) \in Seq(FirmwareEvents) /\ Head(q) \in FirmwareEvents
  BY HeadTailProperties
<1>2. ASSUME NEW x
      PROVE  /\ Copies(Tail(q), x) \in Nat
             /\ Copies(q, x) = Copies(Tail(q), x) + IF Head(q) = x THEN 1 ELSE 0
  BY CopiesTail
<1> QED BY <1>1, <1>2

-----------------------------------------------------------------------------
(* The inductive invariant of the requests and those who serve them *)

Stages == {"none", "wanted", "pending", "loading", "done", "aborted", "timed out"}

KernelRight ==
  /\ asks \subseteq Requests /\ hampered \subseteq Requests
  /\ request \in [Requests -> Stages] /\ announced \in [Requests -> 0..2]
  /\ buffer = [r \in Requests |-> buffer[r]]
  /\ \A r \in Requests : /\ request[r] \in {"none", "wanted"} => announced[r] = 0
                         /\ request[r] # "none" => r \in asks

\* A module is wanted once, until ueventd loads it.
ModulesOnce ==
  \A r \in Requests :
    LET wanted == Copies(uevents, Uevent("modalias", r))
    IN  /\ wanted <= 1
        /\ wanted # 0 => r \in Probes /\ request[r] = "wanted"

Busy == Steps \ {"idle", "exited"}

Server(s) == /\ s = [step |-> s.step, request |-> s.request, name |-> s.name, source |-> s.source]
             /\ \/ s.step \in Busy /\ s.request \in Requests
                \/ s.step \in {"idle", "exited"} /\ s.request = None

ServersRight ==
  /\ server = [p \in Servers |-> server[p]]
  /\ \A p \in Servers : Server(server[p])
  /\ walking \in BOOLEAN /\ loading \in Probes \cup {None}
  /\ server[Ueventd].step = "idle" \/ loading = None
  /\ server[Ueventd].step # "exited"
  /\ parsing # "done" => \A p \in Servers : server[p] = Idle

FirmwareInv ==
  /\ KernelRight /\ uevents \in Seq(FirmwareEvents) /\ ModulesOnce /\ ServersRight
  /\ ServedOnce(server, uevents, announced)

LEMMA IdleServers == Server(Idle) /\ Server(Exited) /\ Ueventd \in Servers
BY DEF Server, Idle, Exited, Servers, Busy, Steps

\* What a process is doing is a record of four fields, of which a step changes one or two.
Entry(a, b, c, d) == [step |-> a, request |-> b, name |-> c, source |-> d]

LEMMA EntryFields ==
  /\ \A s : Server(s) => \E a, b, c, d : s = Entry(a, b, c, d)
  /\ \A a, b, c, d : /\ Entry(a, b, c, d).step = a /\ Entry(a, b, c, d).request = b
                     /\ Entry(a, b, c, d).name = c /\ Entry(a, b, c, d).source = d
  /\ \A a \in Busy, b \in Requests : \A c, d : Server(Entry(a, b, c, d))
<1>1. ASSUME NEW s, Server(s) PROVE \E a, b, c, d : s = Entry(a, b, c, d)
  <2>1. s = Entry(s.step, s.request, s.name, s.source)
    BY <1>1 DEF Server, Entry
  <2> QED BY <2>1
<1>2. ASSUME NEW a, NEW b, NEW c, NEW d
      PROVE  /\ Entry(a, b, c, d).step = a /\ Entry(a, b, c, d).request = b
             /\ Entry(a, b, c, d).name = c /\ Entry(a, b, c, d).source = d
  BY DEF Entry
<1>3. ASSUME NEW a \in Busy, NEW b \in Requests, NEW c, NEW d PROVE Server(Entry(a, b, c, d))
  BY <1>3 DEF Server, Entry
<1> QED BY <1>1, <1>2, <1>3

GoTo(s, x) == [s EXCEPT !.step = x]
TakeName(s, x, y) == [s EXCEPT !.step = x, !.name = y]
TakeSource(s, x, y) == [s EXCEPT !.step = x, !.source = y]

LEMMA EntryChanges ==
  ASSUME NEW a, NEW b, NEW c, NEW d, NEW x, NEW y, NEW s, s = Entry(a, b, c, d)
  PROVE  /\ GoTo(s, x) = Entry(x, b, c, d)
         /\ TakeName(s, x, y) = Entry(x, b, y, d)
         /\ TakeSource(s, x, y) = Entry(x, b, c, y)
<1> DEFINE e == Entry(a, b, c, d)
           f == Entry(x, b, c, d)
<1>1. /\ TakeName(e, x, y) = [[e EXCEPT !.step = x] EXCEPT !.name = y]
      /\ TakeSource(e, x, y) = [[e EXCEPT !.step = x] EXCEPT !.source = y]
  <2> HIDE DEF e
  <2> QED BY DEF TakeName, TakeSource
<1>2. [e EXCEPT !.step = x] = f
  BY DEF Entry
<1>3. [f EXCEPT !.name = y] = Entry(x, b, y, d) /\ [f EXCEPT !.source = y] = Entry(x, b, c, y)
  BY DEF Entry
<1>4. GoTo(e, x) = f
  BY <1>2 DEF GoTo
<1> HIDE DEF e, f
<1>5. TakeName(e, x, y) = Entry(x, b, y, d) /\ TakeSource(e, x, y) = Entry(x, b, c, y)
  BY <1>1, <1>2, <1>3
<1>6. s = e
  BY DEF e
<1> QED BY <1>4, <1>5, <1>6 DEF f

LEMMA InitFirmware == RcInit => FirmwareInv
<1> SUFFICES ASSUME RcInit PROVE FirmwareInv
  OBVIOUS
<1>1. /\ asks \subseteq Requests /\ hampered = {} /\ uevents = <<>>
      /\ request = [r \in Requests |-> "none"] /\ announced = [r \in Requests |-> 0]
      /\ buffer = [r \in Requests |-> None] /\ server = [p \in Servers |-> Idle]
      /\ walking = TRUE /\ loading = None
  BY DEF RcInit, FirmwareInit
<1>2. KernelRight
  BY <1>1 DEF KernelRight, Stages
<1>3. uevents \in Seq(FirmwareEvents) /\ \A x : Copies(uevents, x) = 0
  BY <1>1, EmptySeq, NoCopies
<1>4. ModulesOnce
  BY <1>3 DEF ModulesOnce
<1>5. ServersRight
  BY <1>1, IdleServers DEF ServersRight, Idle
<1>6. \A r \in Requests : Workers(server, r) = {}
  BY <1>1, FirmwareAssumption DEF Workers, Idle
<1>7. ServedOnce(server, uevents, announced)
  <2>1. Cardinality({}) = 0
    BY FS_EmptySet
  <2>2. \A r \in Requests : Cardinality(Workers(server, r)) = 0 /\ announced[r] = 0
    BY <1>1, <1>6, <2>1
  <2> QED BY <1>3, <2>2 DEF ServedOnce
<1> QED BY <1>2, <1>3, <1>4, <1>5, <1>7 DEF FirmwareInv

-----------------------------------------------------------------------------
(* A process that serves *)

\* What a step of a process does to the rest: it serves its request or is done with it, and
\* when the request ends, its removal is announced.
ServeEffect(p) ==
  LET r == server[p].request IN
  /\ server[p].step \in Busy /\ r \in Requests
  /\ server' = [q \in Servers |-> server'[q]]
  /\ \A q \in Servers \ {p} : server'[q] = server[q]
  /\ Server(server'[p]) /\ server'[p].request \in {r, None}
  /\ p = Ueventd => server'[p].step # "exited"
  /\ UNCHANGED <<asks, announced, walking, loading, handlerData>>
  /\ hampered' \in {hampered, hampered \cup {r}}
  /\ buffer' = [q \in Requests |-> buffer'[q]]
  /\ \/ UNCHANGED <<request, uevents>>
     \/ /\ Live(r)
        /\ \E how \in {"loading", "done", "aborted"} : request' = [request EXCEPT ![r] = how]
        /\ uevents' \in {uevents, Append(uevents, Uevent("remove", r))}

\* The process takes its next step, or leaves.
LEMMA NextStep ==
  ASSUME ServersRight, NEW p \in Servers, server[p].step \in Busy,
         NEW s, Server(s), s.request \in {server[p].request, None},
         p = Ueventd => s.step # "exited", server' = [server EXCEPT ![p] = s]
  PROVE  /\ server[p].request \in Requests
         /\ server' = [q \in Servers |-> server'[q]]
         /\ \A q \in Servers \ {p} : server'[q] = server[q]
         /\ server'[p] = s
         /\ Server(server'[p]) /\ server'[p].request \in {server[p].request, None}
         /\ p = Ueventd => server'[p].step # "exited"
<1>1. server = [q \in Servers |-> server[q]] /\ Server(server[p])
  BY DEF ServersRight
<1>2. server' = [q \in Servers |-> IF q = p THEN s ELSE server[q]]
  BY <1>1
<1>3. server[p].request \in Requests
  BY <1>1 DEF Server, Busy
<1> QED BY <1>2, <1>3

LEMMA LeaveStep ==
  ASSUME ServersRight, NEW p \in Servers, Leave(p)
  PROVE  \E s : /\ Server(s) /\ s.request = None /\ (p = Ueventd => s.step # "exited")
                /\ s.step \in {"idle", "exited"} /\ server' = [server EXCEPT ![p] = s]
<1> DEFINE s == IF p = Ueventd THEN Idle ELSE Exited
<1>1. Server(s) /\ s.request = None /\ (p = Ueventd => s.step # "exited")
      /\ s.step \in {"idle", "exited"}
  BY IdleServers DEF Idle, Exited
<1>2. server' = [server EXCEPT ![p] = s]
  BY DEF Leave
<1> HIDE DEF s
<1> QED BY <1>1, <1>2

LEMMA ServeEffects ==
  ASSUME KernelRight, ServersRight, NEW p \in Servers, Serve(p)
  PROVE  ServeEffect(p)
<1> DEFINE r == server[p].request
           s == server[p]
<1>1. /\ Server(s) /\ buffer = [q \in Requests |-> buffer[q]]
      /\ server = [q \in Servers |-> server[q]]
  BY DEF ServersRight, KernelRight
<1>2. s.step \in Busy /\ r \in Requests
  <2>1. s.step \in {"choose", "open", "search", "start", "copy", "commit", "abort"}
    BY DEF Serve, GetFirmwarePath, OpenRequest, Search, StartTransfer, CopyWhole, CopyFails,
           CopyShort, Commit, Abort
  <2> QED BY <1>1, <2>1 DEF Busy, Steps, Server
<1>3. PICK step, name, source : s = Entry(step, r, name, source)
  BY <1>1, EntryFields
<1> HIDE DEF r, s
<1>0. \A x, y : /\ GoTo(s, x) = Entry(x, r, name, source)
                /\ TakeName(s, x, y) = Entry(x, r, y, source)
                /\ TakeSource(s, x, y) = Entry(x, r, name, y)
  BY <1>3, EntryChanges
<1> USE DEF r, s
<1>4. ASSUME NEW t, \E a \in Busy : \E c, d : t = Entry(a, r, c, d),
             server' = [server EXCEPT ![p] = t]
      PROVE  /\ server[p].step \in Busy /\ r \in Requests
             /\ server' = [q \in Servers |-> server'[q]]
             /\ \A q \in Servers \ {p} : server'[q] = server[q]
             /\ Server(server'[p]) /\ server'[p].request \in {r, None}
             /\ p = Ueventd => server'[p].step # "exited"
  <2>1. Server(t) /\ t.request = r /\ t.step \in Busy
    BY <1>2, <1>4, EntryFields
  <2>2. t.step # "exited"
    BY <2>1 DEF Busy
  <2> QED BY <1>2, <1>4, <2>1, <2>2, NextStep
<1>5. ASSUME Leave(p)
      PROVE  /\ server[p].step \in Busy /\ r \in Requests
             /\ server' = [q \in Servers |-> server'[q]]
             /\ \A q \in Servers \ {p} : server'[q] = server[q]
             /\ Server(server'[p]) /\ server'[p].request \in {r, None}
             /\ p = Ueventd => server'[p].step # "exited"
  <2>1. PICK t : /\ Server(t) /\ t.request = None /\ (p = Ueventd => t.step # "exited")
                 /\ server' = [server EXCEPT ![p] = t]
    BY <1>5, LeaveStep
  <2> QED BY <1>2, <2>1, NextStep
<1>6. {"open", "search", "start", "copy", "commit", "abort"} \subseteq Busy
  BY DEF Busy, Steps
<1>7. CASE GetFirmwarePath(p)
  <2>1. PICK n : server' = [server EXCEPT ![p].step = "open", ![p].name = n]
    BY <1>7 DEF GetFirmwarePath
  <2>2. server' = [server EXCEPT ![p] = [s EXCEPT !.step = "open", !.name = n]]
    BY <1>1, <2>1
  <2>3. server' = [server EXCEPT ![p] = TakeName(s, "open", n)]
    BY <2>2 DEF TakeName
  <2>4. server' = [server EXCEPT ![p] = Entry("open", r, n, source)]
    BY <1>0, <2>3
  <2>5. UNCHANGED <<handlerData, kernelVars, walking, uevents, loading, hampered>>
    BY <1>7 DEF GetFirmwarePath
  <2> QED BY <1>1, <1>4, <1>6, <2>4, <2>5 DEF ServeEffect, kernelVars
<1>8. CASE OpenRequest(p) \/ Search(p)
  <2>1. UNCHANGED <<handlerData, kernelVars, walking, uevents, loading, hampered>>
    BY <1>8 DEF OpenRequest, Search
  <2>2. CASE Leave(p)
    BY <1>1, <1>5, <2>1, <2>2 DEF ServeEffect, kernelVars
  <2>3. CASE ~Leave(p)
    <3>1. \E t : (\E a \in Busy : \E c, d : t = Entry(a, r, c, d)) /\ server' = [server EXCEPT ![p] = t]
      <4>1. CASE OpenRequest(p)
        <5>1. server' = [server EXCEPT ![p] = [s EXCEPT !.step = "search"]]
          BY <1>1, <2>3, <4>1 DEF OpenRequest
        <5>2. server' = [server EXCEPT ![p] = GoTo(s, "search")]
          BY <5>1 DEF GoTo
        <5>3. server' = [server EXCEPT ![p] = Entry("search", r, name, source)]
          BY <1>0, <5>2
        <5> HIDE DEF r, s
        <5> QED BY <1>6, <5>3
      <4>2. CASE Search(p)
        <5> DEFINE found == SearchedDirectories[FirstWith(s.name)]
        <5>1. CASE FirstWith(s.name) = 0
          <6>1. server' = [server EXCEPT ![p] = [s EXCEPT !.step = "abort"]]
            BY <4>2, <5>1 DEF Search
          <6>2. server' = [server EXCEPT ![p] = GoTo(s, "abort")]
            BY <6>1 DEF GoTo
          <6>3. server' = [server EXCEPT ![p] = Entry("abort", r, name, source)]
            BY <1>0, <6>2
          <6> HIDE DEF r, s
          <6> QED BY <1>6, <6>3
        <5>2. CASE FirstWith(s.name) # 0
          <6>1. server' = [server EXCEPT ![p] = [s EXCEPT !.step = "start", !.source = found]]
            BY <4>2, <5>2 DEF Search
          <6>2. server' = [server EXCEPT ![p] = TakeSource(s, "start", found)]
            BY <6>1 DEF TakeSource
          <6>3. server' = [server EXCEPT ![p] = Entry("start", r, name, found)]
            BY <1>0, <6>2
          <6> HIDE DEF r, s
          <6> QED BY <1>6, <6>3
        <5> QED BY <5>1, <5>2
      <4> QED BY <1>8, <4>1, <4>2
    <3> QED BY <1>1, <1>4, <2>1, <3>1 DEF ServeEffect, kernelVars
  <2> QED BY <2>2, <2>3
<1>9. CASE StartTransfer(p) \/ CopyWhole(p) \/ CopyFails(p) \/ CopyShort(p)
  <2>1. PICK next \in {"copy", "commit", "abort"} : server' = [server EXCEPT ![p].step = next]
    BY <1>9 DEF StartTransfer, CopyWhole, CopyFails, CopyShort
  <2>2. server' = [server EXCEPT ![p] = [s EXCEPT !.step = next]]
    BY <1>1, <2>1
  <2>3. server' = [server EXCEPT ![p] = GoTo(s, next)]
    BY <2>2 DEF GoTo
  <2>4. server' = [server EXCEPT ![p] = Entry(next, r, name, source)]
    BY <1>0, <2>3
  <2>5. /\ UNCHANGED <<handlerData, asks, announced, walking, loading, uevents>>
        /\ hampered' \in {hampered, hampered \cup {r}}
        /\ buffer' = [q \in Requests |-> buffer'[q]]
        /\ request' = request \/ (Live(r) /\ request' = [request EXCEPT ![r] = "loading"])
    BY <1>1, <1>9 DEF StartTransfer, CopyWhole, CopyFails, CopyShort, kernelVars
  <2>6. \/ UNCHANGED <<request, uevents>>
        \/ /\ Live(r)
           /\ \E how \in {"loading", "done", "aborted"} : request' = [request EXCEPT ![r] = how]
           /\ uevents' \in {uevents, Append(uevents, Uevent("remove", r))}
    BY <2>5
  <2>7. /\ s.step \in Busy /\ r \in Requests
        /\ server' = [q \in Servers |-> server'[q]]
        /\ \A q \in Servers \ {p} : server'[q] = server[q]
        /\ Server(server'[p]) /\ server'[p].request \in {r, None}
        /\ p = Ueventd => server'[p].step # "exited"
    BY <1>4, <1>6, <2>4
  <2> QED BY <2>5, <2>6, <2>7 DEF ServeEffect
<1>10. CASE Commit(p) \/ Abort(p)
  <2>1. Leave(p)
    BY <1>10 DEF Commit, Abort
  <2>2. /\ UNCHANGED <<handlerData, asks, buffer, announced, walking, loading, hampered>>
        /\ \/ UNCHANGED <<request, uevents>>
           \/ /\ Live(r)
              /\ \E how \in {"loading", "done", "aborted"} : request' = [request EXCEPT ![r] = how]
              /\ uevents' = Append(uevents, Uevent("remove", r))
    BY <1>10 DEF Commit, Abort, End, Live
  <2> QED BY <1>1, <1>5, <2>1, <2>2 DEF ServeEffect
<1> QED BY <1>7, <1>8, <1>9, <1>10 DEF Serve

LEMMA ServeKeeps ==
  ASSUME FirmwareInv, parsing = "done", parsing' = parsing, NEW p \in Servers, Serve(p)
  PROVE  FirmwareInv'
<1> DEFINE r == server[p].request
<1>1. KernelRight /\ ServersRight /\ uevents \in Seq(FirmwareEvents) /\ ModulesOnce
      /\ ServedOnce(server, uevents, announced)
  BY DEF FirmwareInv
<1>2. ServeEffect(p)
  BY <1>1, ServeEffects
<1>3. r \in Requests
  BY <1>2 DEF ServeEffect
<1>4. /\ request' \in [Requests -> Stages]
      /\ \A q \in Requests : /\ request'[q] # "none" => request[q] # "none"
                             /\ request[q] \in {"none", "wanted"} <=> request'[q] \in {"none", "wanted"}
                             /\ request[q] = "wanted" => request'[q] = "wanted"
  <2>1. CASE request' = request
    BY <1>1, <2>1 DEF KernelRight
  <2>2. ASSUME NEW how \in {"loading", "done", "aborted"}, Live(r),
               request' = [request EXCEPT ![r] = how]
        PROVE  <1>4!1 /\ <1>4!2
    BY <1>1, <1>3, <2>2 DEF KernelRight, Stages, Live
  <2> QED BY <1>2, <2>1, <2>2 DEF ServeEffect
<1>5. KernelRight'
  <2>1. /\ asks' = asks /\ announced' = announced /\ hampered' \subseteq Requests
        /\ buffer' = [q \in Requests |-> buffer'[q]]
    BY <1>1, <1>2, <1>3 DEF ServeEffect, KernelRight
  <2> QED BY <1>1, <1>4, <2>1 DEF KernelRight
<1>6. ServersRight'
  <2>1. \A q \in Servers : Server(server'[q])
    BY <1>1, <1>2 DEF ServeEffect, ServersRight
  <2>2. server[Ueventd].step = "idle" \/ loading = None
    BY <1>1 DEF ServersRight
  <2>3. server'[Ueventd].step # "exited" /\ (server'[Ueventd].step = "idle" \/ loading = None)
    <3>1. CASE p = Ueventd
      BY <1>2, <2>2, <3>1 DEF ServeEffect, Busy
    <3>2. CASE p # Ueventd
      BY <1>1, <1>2, <2>2, <3>2, IdleServers DEF ServeEffect, ServersRight
    <3> QED BY <3>1, <3>2
  <2> QED BY <1>1, <1>2, <2>1, <2>3 DEF ServersRight, ServeEffect
<1>7. /\ uevents' \in Seq(FirmwareEvents)
      /\ \A k \in {"add", "modalias"}, q \in Requests :
           Copies(uevents', Uevent(k, q)) = Copies(uevents, Uevent(k, q))
  <2>1. Uevent("remove", r) \in FirmwareEvents
    BY <1>3, UeventsDiffer
  <2>2. CASE uevents' = uevents
    BY <1>1, <2>2
  <2>3. CASE uevents' = Append(uevents, Uevent("remove", r))
    <3>1. \A k \in {"add", "modalias"}, q \in Requests : Uevent("remove", r) # Uevent(k, q)
      BY UeventsDiffer
    <3>2. \A x : /\ Copies(uevents, x) \in Nat
                 /\ Uevent("remove", r) # x => Copies(uevents', x) = Copies(uevents, x)
      BY <1>1, <2>1, <2>3, QueueGrows
    <3>3. uevents' \in Seq(FirmwareEvents)
      BY <1>1, <2>1, <2>3, QueueGrows
    <3> QED BY <3>1, <3>2, <3>3
  <2> QED BY <1>2, <2>2, <2>3 DEF ServeEffect
<1>8. ModulesOnce'
  BY <1>1, <1>4, <1>7 DEF ModulesOnce
<1>9. ServedOnce(server', uevents', announced')
  <2>1. \A q \in Servers : server'[q].request \in {server[q].request, None}
    BY <1>2 DEF ServeEffect
  <2>2. announced' = announced
    BY <1>2 DEF ServeEffect
  <2> SUFFICES ASSUME NEW q \in Requests
               PROVE  Cardinality(Workers(server', q)) + Copies(uevents', Uevent("add", q)) <= announced[q]
    BY <2>2 DEF ServedOnce
  <2> DEFINE w == Cardinality(Workers(server, q))
             v == Cardinality(Workers(server', q))
             c == Copies(uevents, Uevent("add", q))
  <2>3. w \in Nat /\ v \in Nat /\ v <= w
    BY <2>1, WorkersFewer, WorkersFinite
  <2>4. c \in Nat /\ announced[q] \in Nat /\ w + c <= announced[q]
    <3>1. c \in Nat
      BY <1>1, <1>3, QueueGrows, UeventsDiffer
    <3>2. announced[q] \in Nat
      BY <1>1 DEF KernelRight
    <3> QED BY <1>1, <3>1, <3>2 DEF ServedOnce
  <2>5. Copies(uevents', Uevent("add", q)) = c
    BY <1>7
  <2> HIDE DEF w, v, c
  <2> SUFFICES v + c <= announced[q]
    BY <2>5 DEF v
  <2> QED BY <2>3, <2>4
<1> QED BY <1>5, <1>6, <1>7, <1>8, <1>9 DEF FirmwareInv

-----------------------------------------------------------------------------
(* The kernel, and the thread that handles uevents *)

LEMMA QueuedRight ==
  ASSUME KernelRight, uevents \in Seq(FirmwareEvents), NEW k \in {"add", "modalias", "remove"},
         NEW r \in Requests
  PROVE  /\ Copies(uevents, Uevent(k, r)) \in Nat
         /\ announced[r] \in 0..2
         /\ Cardinality(Workers(server, r)) \in Nat
<1>1. Uevent(k, r) \in FirmwareEvents
  BY UeventsDiffer
<1>2. Copies(uevents, Uevent(k, r)) \in Nat
  BY <1>1, QueueGrows
<1>3. announced[r] \in 0..2
  BY DEF KernelRight
<1> QED BY <1>2, <1>3, WorkersFinite

\* What a step of the kernel does to a request: it announces it, wants its module or ends it.
KernelEffect(r, kind, how, n) ==
  /\ uevents' = Append(uevents, Uevent(kind, r))
  /\ request' = [request EXCEPT ![r] = how]
  /\ announced' = [announced EXCEPT ![r] = n]
  /\ r \in asks /\ how \notin {"done", "aborted"}
  /\ n = announced[r] + IF kind = "add" THEN 1 ELSE 0
  /\ kind = "modalias" => how = "wanted" /\ request[r] = "none" /\ r \in Probes
  /\ kind # "modalias" => how # "wanted" /\ request[r] # "wanted"

LEMMA KernelEffects ==
  ASSUME KernelRight, NEW r \in Requests,
         Ask(r) \/ AnnounceAgain(r) \/ ModuleWanted(r) \/ TimeOut(r)
  PROVE  \E kind \in {"add", "modalias", "remove"}, how \in Stages \ {"none"}, n \in 0..2 :
           KernelEffect(r, kind, how, n)
<1>1. request \in [Requests -> Stages] /\ announced \in [Requests -> 0..2]
      /\ (request[r] \in {"none", "wanted"} => announced[r] = 0)
      /\ (request[r] # "none" => r \in asks)
  BY DEF KernelRight
<1>2. {"wanted", "pending", "loading", "timed out"} \subseteq Stages \ {"none"}
  BY DEF Stages
<1>3. 1 \in 0..2 /\ 2 \in 0..2 /\ announced[r] \in 0..2 /\ announced[r] + 0 = announced[r]
  BY <1>1
<1>4. CASE Ask(r)
  <2>1. /\ uevents' = Append(uevents, Uevent("add", r)) /\ r \in asks
        /\ request' = [request EXCEPT ![r] = "pending"]
    BY <1>1, <1>4 DEF Ask
  <2>2. /\ announced' = [announced EXCEPT ![r] = 1]
        /\ 1 = announced[r] + IF "add" = "add" THEN 1 ELSE 0
    BY <1>1, <1>4 DEF Ask
  <2>3. "pending" \in Stages \ {"none"} /\ 1 \in 0..2 /\ request[r] # "wanted"
    BY <1>2, <1>3, <1>4 DEF Ask
  <2>4. KernelEffect(r, "add", "pending", 1)
    BY <2>1, <2>2, <2>3 DEF KernelEffect
  <2> QED BY <2>3, <2>4
<1>5. CASE AnnounceAgain(r)
  <2>1. /\ uevents' = Append(uevents, Uevent("add", r)) /\ r \in asks
        /\ request' = [request EXCEPT ![r] = request[r]]
    BY <1>1, <1>5 DEF AnnounceAgain, Live
  <2>2. /\ announced' = [announced EXCEPT ![r] = 2]
        /\ 2 = announced[r] + IF "add" = "add" THEN 1 ELSE 0
    BY <1>1, <1>5 DEF AnnounceAgain, Live
  <2>3. request[r] \in Stages \ {"none"} /\ 2 \in 0..2
        /\ request[r] \notin {"wanted", "done", "aborted"}
    BY <1>2, <1>3, <1>5 DEF AnnounceAgain, Live
  <2>4. KernelEffect(r, "add", request[r], 2)
    BY <2>1, <2>2, <2>3 DEF KernelEffect
  <2> QED BY <2>3, <2>4
<1>6. CASE ModuleWanted(r)
  <2>1. /\ uevents' = Append(uevents, Uevent("modalias", r)) /\ r \in asks
        /\ request' = [request EXCEPT ![r] = "wanted"]
    BY <1>1, <1>6 DEF ModuleWanted
  <2>2. /\ announced' = [announced EXCEPT ![r] = announced[r]]
        /\ announced[r] = announced[r] + IF "modalias" = "add" THEN 1 ELSE 0
    BY <1>1, <1>6 DEF ModuleWanted
  <2>3. "wanted" \in Stages \ {"none"} /\ announced[r] \in 0..2 /\ request[r] = "none" /\ r \in Probes
    BY <1>2, <1>3, <1>6 DEF ModuleWanted
  <2>4. KernelEffect(r, "modalias", "wanted", announced[r])
    BY <2>1, <2>2, <2>3 DEF KernelEffect
  <2> QED BY <2>3, <2>4
<1>7. CASE TimeOut(r)
  <2>1. /\ uevents' = Append(uevents, Uevent("remove", r)) /\ r \in asks
        /\ request' = [request EXCEPT ![r] = "timed out"]
    BY <1>1, <1>7 DEF TimeOut, End, Live
  <2>2. /\ announced' = [announced EXCEPT ![r] = announced[r]]
        /\ announced[r] = announced[r] + IF "remove" = "add" THEN 1 ELSE 0
    <3>1. announced' = announced
      BY <1>7 DEF TimeOut
    <3> QED BY <1>1, <1>3, <3>1
  <2>3. "timed out" \in Stages \ {"none"} /\ announced[r] \in 0..2 /\ request[r] # "wanted"
    BY <1>2, <1>3, <1>7 DEF TimeOut, End, Live
  <2>4. KernelEffect(r, "remove", "timed out", announced[r])
    BY <2>1, <2>2, <2>3 DEF KernelEffect
  <2> QED BY <2>3, <2>4
<1> QED BY <1>4, <1>5, <1>6, <1>7

LEMMA KernelKeeps ==
  ASSUME FirmwareInv, parsing' = parsing, NEW r \in Requests,
         Ask(r) \/ AnnounceAgain(r) \/ ModuleWanted(r) \/ TimeOut(r)
  PROVE  FirmwareInv'
<1>1. KernelRight /\ ServersRight /\ uevents \in Seq(FirmwareEvents) /\ ModulesOnce
      /\ ServedOnce(server, uevents, announced)
  BY DEF FirmwareInv
<1>2. UNCHANGED <<asks, buffer, walking, loading, server, hampered>>
  BY DEF Ask, AnnounceAgain, ModuleWanted, TimeOut
<1>3. request \in [Requests -> Stages] /\ announced \in [Requests -> 0..2]
      /\ (request[r] \in {"none", "wanted"} => announced[r] = 0)
      /\ (request[r] # "none" => r \in asks)
  BY <1>1 DEF KernelRight
<1>5. PICK kind \in {"add", "modalias", "remove"}, how \in Stages \ {"none"}, n \in 0..2 :
        KernelEffect(r, kind, how, n)
  BY <1>1, KernelEffects
<1>11. /\ uevents' = Append(uevents, Uevent(kind, r))
       /\ request' = [request EXCEPT ![r] = how]
       /\ announced' = [announced EXCEPT ![r] = n]
       /\ r \in asks
       /\ n = announced[r] + IF kind = "add" THEN 1 ELSE 0
       /\ kind = "modalias" => how = "wanted" /\ request[r] = "none" /\ r \in Probes
       /\ kind # "modalias" => how # "wanted" /\ request[r] # "wanted"
  BY <1>5 DEF KernelEffect
<1>6. /\ uevents' \in Seq(FirmwareEvents)
      /\ \A k \in {"add", "modalias", "remove"}, q \in Requests :
           Copies(uevents', Uevent(k, q)) =
             Copies(uevents, Uevent(k, q)) + IF kind = k /\ r = q THEN 1 ELSE 0
  BY <1>1, <1>11, QueueGrows, UeventsDiffer
<1>7. KernelRight'
  <2>1. /\ request' \in [Requests -> Stages] /\ announced' \in [Requests -> 0..2]
        /\ \A q \in Requests : /\ request'[q] = IF q = r THEN how ELSE request[q]
                               /\ announced'[q] = IF q = r THEN n ELSE announced[q]
    BY <1>3, <1>11
  <2>2. how = "wanted" => n = 0
    BY <1>3, <1>11
  <2>3. \A q \in Requests : /\ request'[q] \in {"none", "wanted"} => announced'[q] = 0
                            /\ request'[q] # "none" => q \in asks
    BY <1>1, <1>11, <2>1, <2>2 DEF KernelRight
  <2> QED BY <1>1, <1>2, <2>1, <2>3 DEF KernelRight
<1>8. ServersRight'
  BY <1>1, <1>2 DEF ServersRight
<1>9. ModulesOnce'
  <2> SUFFICES ASSUME NEW q \in Requests
               PROVE  /\ Copies(uevents', Uevent("modalias", q)) <= 1
                      /\ Copies(uevents', Uevent("modalias", q)) # 0 =>
                           q \in Probes /\ request'[q] = "wanted"
    BY DEF ModulesOnce
  <2> DEFINE c == Copies(uevents, Uevent("modalias", q))
  <2>1. c \in Nat /\ c <= 1 /\ (c # 0 => q \in Probes /\ request[q] = "wanted")
    BY <1>1, QueuedRight DEF ModulesOnce
  <2>2. request'[q] = IF q = r THEN how ELSE request[q]
    BY <1>3, <1>11
  <2>3. Copies(uevents', Uevent("modalias", q)) = c + IF kind = "modalias" /\ r = q THEN 1 ELSE 0
    BY <1>6
  <2> HIDE DEF c
  <2>4. CASE kind = "modalias" /\ r = q
    BY <1>11, <2>1, <2>2, <2>3, <2>4
  <2>5. CASE ~(kind = "modalias" /\ r = q)
    BY <1>11, <2>1, <2>2, <2>3, <2>5
  <2> QED BY <2>4, <2>5
<1>10. ServedOnce(server', uevents', announced')
  <2> SUFFICES ASSUME NEW q \in Requests
               PROVE  Cardinality(Workers(server, q)) + Copies(uevents', Uevent("add", q))
                        <= announced'[q]
    BY <1>2 DEF ServedOnce
  <2> DEFINE w == Cardinality(Workers(server, q))
             c == Copies(uevents, Uevent("add", q))
  <2>1. w \in Nat /\ c \in Nat /\ announced[q] \in 0..2 /\ w + c <= announced[q]
    BY <1>1, QueuedRight DEF ServedOnce
  <2>2. announced'[q] = IF q = r THEN n ELSE announced[q]
    BY <1>3, <1>11
  <2>3. Copies(uevents', Uevent("add", q)) = c + IF kind = "add" /\ r = q THEN 1 ELSE 0
    BY <1>6
  <2> HIDE DEF w, c
  <2>4. w + Copies(uevents', Uevent("add", q)) <= announced'[q]
    <3>1. CASE kind = "add" /\ r = q
      BY <1>11, <2>1, <2>2, <2>3, <3>1
    <3>2. CASE ~(kind = "add" /\ r = q)
      BY <1>11, <2>1, <2>2, <2>3, <3>2
    <3> QED BY <3>1, <3>2
  <2> QED BY <2>4 DEF w
<1> QED BY <1>6, <1>7, <1>8, <1>9, <1>10 DEF FirmwareInv

\* The next uevent is taken from the queue.
LEMMA UeventTaken ==
  ASSUME uevents \in Seq(FirmwareEvents), uevents # <<>>
  PROVE  LET e == Head(uevents) IN
         /\ e.kind \in {"add", "modalias", "remove"} /\ e.request \in Requests
         /\ Tail(uevents) \in Seq(FirmwareEvents)
         /\ \A k \in {"add", "modalias", "remove"}, q \in Requests :
              /\ Copies(Tail(uevents), Uevent(k, q)) \in Nat
              /\ Copies(uevents, Uevent(k, q)) =
                   Copies(Tail(uevents), Uevent(k, q))
                     + IF e.kind = k /\ e.request = q THEN 1 ELSE 0
<1> DEFINE e == Head(uevents)
<1>1. /\ Tail(uevents) \in Seq(FirmwareEvents) /\ e \in FirmwareEvents
      /\ \A x : /\ Copies(Tail(uevents), x) \in Nat
                /\ Copies(uevents, x) = Copies(Tail(uevents), x) + IF e = x THEN 1 ELSE 0
  BY QueueShrinks
<1> HIDE DEF e
<1>2. e.kind \in {"add", "modalias", "remove"} /\ e.request \in Requests
  BY <1>1 DEF FirmwareEvents
<1>3. \A k, q : e = Uevent(k, q) <=> e.kind = k /\ e.request = q
  BY <1>1, UeventsDiffer
<1>4. \A k \in {"add", "modalias", "remove"}, q \in Requests :
        /\ Copies(Tail(uevents), Uevent(k, q)) \in Nat
        /\ Copies(uevents, Uevent(k, q)) =
             Copies(Tail(uevents), Uevent(k, q)) + IF e.kind = k /\ e.request = q THEN 1 ELSE 0
  BY <1>1, <1>3
<1> USE DEF e
<1> QED BY <1>1, <1>2, <1>4

\* A child, or ueventd itself, begins to serve the request that the next uevent announces.
LEMMA ServerStarts ==
  ASSUME FirmwareInv, parsing = "done", parsing' = parsing, NEW c \in Servers,
         c = Ueventd => loading = None, NextUevent("add"),
         server' = [server EXCEPT ![c] = Start(Head(uevents).request)],
         UNCHANGED <<kernelVars, walking, loading, hampered>>
  PROVE  FirmwareInv'
<1> DEFINE r == Head(uevents).request
<1>1. KernelRight /\ ServersRight /\ uevents \in Seq(FirmwareEvents) /\ ModulesOnce
      /\ ServedOnce(server, uevents, announced)
  BY DEF FirmwareInv
<1>2. uevents # <<>> /\ Head(uevents).kind = "add" /\ uevents' = Tail(uevents)
  BY DEF NextUevent
<1>3. /\ r \in Requests /\ Tail(uevents) \in Seq(FirmwareEvents)
      /\ \A k \in {"add", "modalias", "remove"}, q \in Requests :
           /\ Copies(Tail(uevents), Uevent(k, q)) \in Nat
           /\ Copies(uevents, Uevent(k, q)) =
                Copies(Tail(uevents), Uevent(k, q)) + IF "add" = k /\ r = q THEN 1 ELSE 0
  BY <1>1, <1>2, UeventTaken
<1>4. UNCHANGED <<asks, request, buffer, announced, walking, loading, hampered>>
  BY DEF kernelVars
<1>5. /\ Server(Start(r)) /\ Start(r).request = r /\ Start(r).step = "choose"
      /\ server' = [q \in Servers |-> IF q = c THEN Start(r) ELSE server[q]]
  <2>1. Start(r) = Entry("choose", r, None, None)
    <3> HIDE DEF r
    <3>1. Start(r) = [[Idle EXCEPT !.step = "choose"] EXCEPT !.request = r]
      BY DEF Start
    <3>2. [Idle EXCEPT !.step = "choose"] = Entry("choose", None, None, None)
      BY DEF Idle, Entry
    <3>3. [Entry("choose", None, None, None) EXCEPT !.request = r] = Entry("choose", r, None, None)
      BY DEF Entry
    <3> QED BY <3>1, <3>2, <3>3
  <2>2. "choose" \in Busy
    BY DEF Busy, Steps
  <2>3. server' = [q \in Servers |-> IF q = c THEN Start(r) ELSE server[q]]
    BY <1>1 DEF ServersRight
  <2>4. Server(Start(r)) /\ Start(r).request = r /\ Start(r).step = "choose"
    BY <1>3, <2>1, <2>2, EntryFields
  <2> QED BY <2>3, <2>4
<1> HIDE DEF r
<1>6. KernelRight'
  BY <1>1, <1>4 DEF KernelRight
<1>7. ServersRight'
  BY <1>1, <1>4, <1>5 DEF ServersRight
<1>8. ModulesOnce'
  <2>1. \A q \in Requests : Copies(uevents', Uevent("modalias", q)) = Copies(uevents, Uevent("modalias", q))
    BY <1>2, <1>3
  <2> QED BY <1>1, <1>4, <2>1 DEF ModulesOnce
<1>9. ServedOnce(server', uevents', announced')
  <2> SUFFICES ASSUME NEW q \in Requests
               PROVE  Cardinality(Workers(server', q)) + Copies(Tail(uevents), Uevent("add", q))
                        <= announced[q]
    BY <1>2, <1>4 DEF ServedOnce
  <2> DEFINE w == Cardinality(Workers(server, q))
             v == Cardinality(Workers(server', q))
             d == Copies(Tail(uevents), Uevent("add", q))
             one == IF r = q THEN 1 ELSE 0
  <2>1. v \in Nat /\ v <= w + one
    <3> DEFINE sv == server
               tv == server'
    <3>1. \A p \in Servers \ {c} : tv[p].request \in {sv[p].request, None}
      BY <1>5
    <3>2. tv[c].request = r
      BY <1>5
    <3>3. /\ Cardinality(Workers(tv, q)) <= Cardinality(Workers(sv, q)) + one
          /\ Cardinality(Workers(tv, q)) \in Nat
      <4> HIDE DEF sv, tv
      <4>1. \A x \in Requests :
              Cardinality(Workers(tv, x)) <=
                Cardinality(Workers(sv, x)) + IF tv[c].request = x THEN 1 ELSE 0
        BY <3>1, WorkersMore
      <4> QED BY <3>2, <4>1, WorkersFinite
    <3> QED BY <3>3
  <2>2. w \in Nat /\ announced[q] \in 0..2 /\ w + Copies(uevents, Uevent("add", q)) <= announced[q]
    BY <1>1, QueuedRight DEF ServedOnce
  <2>3. d \in Nat /\ Copies(uevents, Uevent("add", q)) = d + one
    BY <1>3
  <2>4. one \in {0, 1}
    OBVIOUS
  <2> HIDE DEF w, v, d, one
  <2>5. v + d <= announced[q]
    BY <2>1, <2>2, <2>3, <2>4
  <2> QED BY <2>5 DEF v, d
<1> QED BY <1>2, <1>3, <1>6, <1>7, <1>8, <1>9 DEF FirmwareInv

\* A module is loaded: the wanted request becomes one that is announced.
LEMMA LoadModuleKeeps ==
  ASSUME FirmwareInv, parsing = "done", parsing' = parsing, LoadModule
  PROVE  FirmwareInv'
<1> DEFINE r == Head(uevents).request
<1>1. KernelRight /\ ServersRight /\ uevents \in Seq(FirmwareEvents) /\ ModulesOnce
      /\ ServedOnce(server, uevents, announced)
  BY DEF FirmwareInv
<1>2. /\ uevents # <<>> /\ Head(uevents).kind = "modalias" /\ server[Ueventd].step = "idle"
      /\ loading' = r /\ uevents' = Append(Tail(uevents), Uevent("add", r))
      /\ request' = [request EXCEPT ![r] = "pending"] /\ announced' = [announced EXCEPT ![r] = 1]
      /\ UNCHANGED <<asks, buffer, walking, server, hampered>>
  BY DEF LoadModule, Free
<1>3. /\ r \in Requests /\ Tail(uevents) \in Seq(FirmwareEvents)
      /\ \A k \in {"add", "modalias", "remove"}, q \in Requests :
           /\ Copies(Tail(uevents), Uevent(k, q)) \in Nat
           /\ Copies(uevents, Uevent(k, q)) =
                Copies(Tail(uevents), Uevent(k, q)) + IF "modalias" = k /\ r = q THEN 1 ELSE 0
  BY <1>1, <1>2, UeventTaken
<1> HIDE DEF r
<1>4. Copies(uevents, Uevent("modalias", r)) = Copies(Tail(uevents), Uevent("modalias", r)) + 1
      /\ Copies(Tail(uevents), Uevent("modalias", r)) \in Nat
  BY <1>3
<1>5. r \in Probes /\ request[r] = "wanted" /\ Copies(Tail(uevents), Uevent("modalias", r)) = 0
  BY <1>1, <1>3, <1>4 DEF ModulesOnce
<1>6. announced[r] = 0 /\ r \in asks
  BY <1>1, <1>3, <1>5 DEF KernelRight
<1>7. /\ uevents' \in Seq(FirmwareEvents)
      /\ \A k \in {"add", "modalias", "remove"}, q \in Requests :
           Copies(uevents', Uevent(k, q)) =
             Copies(Tail(uevents), Uevent(k, q)) + IF "add" = k /\ r = q THEN 1 ELSE 0
  <2> DEFINE rest == Tail(uevents)
  <2>1. rest \in Seq(FirmwareEvents) /\ Uevent("add", r) \in FirmwareEvents
    BY <1>3, UeventsDiffer
  <2>2. uevents' = Append(rest, Uevent("add", r))
    BY <1>2
  <2> HIDE DEF rest
  <2>3. uevents' \in Seq(FirmwareEvents)
        /\ \A x : Copies(uevents', x) = Copies(rest, x) + IF Uevent("add", r) = x THEN 1 ELSE 0
    BY <2>1, <2>2, QueueGrows
  <2>4. \A k \in {"add", "modalias", "remove"}, q \in Requests :
          Uevent("add", r) = Uevent(k, q) <=> "add" = k /\ r = q
    BY UeventsDiffer
  <2>5. \A k \in {"add", "modalias", "remove"}, q \in Requests :
          Copies(uevents', Uevent(k, q)) = Copies(rest, Uevent(k, q)) + IF "add" = k /\ r = q THEN 1 ELSE 0
    BY <2>3, <2>4
  <2> QED BY <2>3, <2>5 DEF rest
<1>8. KernelRight'
  <2>1. /\ request' \in [Requests -> Stages] /\ announced' \in [Requests -> 0..2]
        /\ \A q \in Requests : /\ request'[q] = IF q = r THEN "pending" ELSE request[q]
                               /\ announced'[q] = IF q = r THEN 1 ELSE announced[q]
    <3>1. "pending" \in Stages
      BY DEF Stages
    <3>2. request' \in [Requests -> Stages]
          /\ \A q \in Requests : request'[q] = IF q = r THEN "pending" ELSE request[q]
      BY <1>1, <1>2, <1>3, <3>1 DEF KernelRight
    <3>3. announced' \in [Requests -> 0..2]
          /\ \A q \in Requests : announced'[q] = IF q = r THEN 1 ELSE announced[q]
      <4>1. announced \in [Requests -> 0..2] /\ 1 \in 0..2
        BY <1>1 DEF KernelRight
      <4> QED BY <1>2, <1>3, <4>1
    <3> QED BY <3>2, <3>3
  <2>2. \A q \in Requests : /\ request'[q] \in {"none", "wanted"} => announced'[q] = 0
                            /\ request'[q] # "none" => q \in asks
    BY <1>1, <1>6, <2>1 DEF KernelRight
  <2> QED BY <1>1, <1>2, <2>1, <2>2 DEF KernelRight
<1>9. ServersRight'
  BY <1>1, <1>2, <1>5 DEF ServersRight
<1>10. ModulesOnce'
  <2> SUFFICES ASSUME NEW q \in Requests
               PROVE  /\ Copies(uevents', Uevent("modalias", q)) <= 1
                      /\ Copies(uevents', Uevent("modalias", q)) # 0 =>
                           q \in Probes /\ request'[q] = "wanted"
    BY DEF ModulesOnce
  <2> DEFINE c == Copies(uevents, Uevent("modalias", q))
             d == Copies(Tail(uevents), Uevent("modalias", q))
  <2>1. c \in Nat /\ c <= 1 /\ (c # 0 => q \in Probes /\ request[q] = "wanted")
    BY <1>1, QueuedRight DEF ModulesOnce
  <2>2. Copies(uevents', Uevent("modalias", q)) = d
    BY <1>3, <1>7
  <2>3. CASE q = r
    BY <1>5, <2>2, <2>3
  <2>4. CASE q # r
    <3>1. c = d
      BY <1>3, <2>4
    <3>2. request'[q] = request[q]
      BY <1>1, <1>2, <2>4 DEF KernelRight
    <3> HIDE DEF c, d
    <3> QED BY <2>1, <2>2, <3>1, <3>2
  <2> QED BY <2>3, <2>4
<1>11. ServedOnce(server', uevents', announced')
  <2> SUFFICES ASSUME NEW q \in Requests
               PROVE  Cardinality(Workers(server, q)) + Copies(uevents', Uevent("add", q))
                        <= announced'[q]
    BY <1>2 DEF ServedOnce
  <2> DEFINE w == Cardinality(Workers(server, q))
             c == Copies(uevents, Uevent("add", q))
  <2>1. w \in Nat /\ c \in Nat /\ announced[q] \in 0..2 /\ w + c <= announced[q]
    BY <1>1, QueuedRight DEF ServedOnce
  <2>2. announced'[q] = IF q = r THEN 1 ELSE announced[q]
    BY <1>1, <1>2, <1>3 DEF KernelRight
  <2>3. Copies(uevents', Uevent("add", q)) = c + IF r = q THEN 1 ELSE 0
    BY <1>3, <1>7
  <2> HIDE DEF w, c
  <2>4. w + Copies(uevents', Uevent("add", q)) <= announced'[q]
    <3>1. CASE r = q
      BY <1>6, <2>1, <2>2, <2>3, <3>1
    <3>2. CASE r # q
      BY <2>1, <2>2, <2>3, <3>2
    <3> QED BY <3>1, <3>2
  <2> QED BY <2>4 DEF w
<1> QED BY <1>7, <1>8, <1>9, <1>10, <1>11 DEF FirmwareInv

LEMMA UeventdKeeps ==
  ASSUME FirmwareInv, parsing = "done", parsing' = parsing, HandleUevent
  PROVE  FirmwareInv'
<1>1. KernelRight /\ ServersRight /\ uevents \in Seq(FirmwareEvents) /\ ModulesOnce
      /\ ServedOnce(server, uevents, announced)
  BY DEF FirmwareInv
<1>2. CASE WalkOver
  <2>1. UNCHANGED <<asks, request, buffer, announced, uevents, loading, server, hampered>>
        /\ walking' = FALSE
    BY <1>2 DEF WalkOver, kernelVars
  <2>2. KernelRight' /\ ServersRight' /\ ModulesOnce'
    BY <1>1, <2>1 DEF KernelRight, ServersRight, ModulesOnce
  <2> QED BY <1>1, <2>1, <2>2 DEF FirmwareInv
<1>3. CASE IgnoreUevent
  <2>1. /\ UNCHANGED <<asks, request, buffer, announced, walking, loading, server, hampered>>
        /\ uevents # <<>> /\ uevents' = Tail(uevents) /\ Head(uevents).kind = "remove"
    BY <1>3 DEF IgnoreUevent, NextUevent, kernelVars
  <2>2. /\ uevents' \in Seq(FirmwareEvents)
        /\ \A k \in {"add", "modalias"}, q \in Requests :
             Copies(uevents', Uevent(k, q)) = Copies(uevents, Uevent(k, q))
    BY <1>1, <2>1, UeventTaken
  <2>3. KernelRight' /\ ServersRight'
    BY <1>1, <2>1 DEF KernelRight, ServersRight
  <2>4. ModulesOnce'
    BY <1>1, <2>1, <2>2 DEF ModulesOnce
  <2>5. ServedOnce(server', uevents', announced')
    BY <1>1, <2>1, <2>2 DEF ServedOnce
  <2> QED BY <2>2, <2>3, <2>4, <2>5 DEF FirmwareInv
<1>4. ASSUME NEW c \in Children, ForkChild(c) PROVE FirmwareInv'
  <2>1. c \in Servers /\ c # Ueventd
    BY FirmwareAssumption DEF Servers
  <2>2. /\ server[c] = Idle /\ NextUevent("add")
        /\ server' = [server EXCEPT ![c] = Start(Head(uevents).request)]
        /\ UNCHANGED <<kernelVars, walking, loading, hampered>>
    BY <1>4 DEF ForkChild
  <2> QED BY <2>1, <2>2, ServerStarts
<1>5. CASE ForkFails
  <2>1. Ueventd \in Servers
    BY DEF Servers
  <2>2. /\ NextUevent("add") /\ Free
        /\ server' = [server EXCEPT ![Ueventd] = Start(Head(uevents).request)]
        /\ UNCHANGED <<kernelVars, walking, loading, hampered>>
    BY <1>5 DEF ForkFails, NextUevent
  <2>3. server[Ueventd].step = "idle" /\ loading = None
    BY <2>2 DEF Free
  <2> QED BY <1>1, <2>1, <2>2, <2>3, ServerStarts
<1>6. CASE LoadModule
  BY <1>6, LoadModuleKeeps
<1>7. CASE ModuleLoaded
  <2>1. UNCHANGED <<asks, request, buffer, announced, uevents, walking, server, hampered>>
        /\ loading' = None
    BY <1>7 DEF ModuleLoaded, kernelVars
  <2>2. KernelRight' /\ ServersRight' /\ ModulesOnce'
    BY <1>1, <2>1 DEF KernelRight, ServersRight, ModulesOnce
  <2> QED BY <1>1, <2>1, <2>2 DEF FirmwareInv
<1> QED BY <1>2, <1>3, <1>4, <1>5, <1>6, <1>7 DEF HandleUevent

-----------------------------------------------------------------------------
(* Every announcement is served once *)

LEMMA FirmwareInvariant == RcSpec => []FirmwareInv
<1>1. ASSUME FirmwareInv, [RcNext]_rcVars PROVE FirmwareInv'
  <2>1. ASSUME parsing' # "done" => parsing # "done", UNCHANGED <<kernelVars, walking, uevents, loading, server, hampered>>
        PROVE  FirmwareInv'
    <3>1. UNCHANGED <<asks, request, buffer, announced, walking, uevents, loading, server, hampered>>
      BY <2>1 DEF kernelVars
    <3>2. KernelRight' /\ ServersRight' /\ ModulesOnce'
      BY <1>1, <2>1, <3>1 DEF FirmwareInv, KernelRight, ServersRight, ModulesOnce
    <3> QED BY <1>1, <3>1, <3>2 DEF FirmwareInv
  <2>2. CASE ParserStep /\ UNCHANGED firmwareVars
    <3>1. parsing # "done"
      BY <2>2 DEF ParserStep, LineCallback, SectionStart, SectionLine, EndOfFile, OpenFile,
                  OpenDirectory, SkipMissing, NextLine
    <3>2. UNCHANGED <<kernelVars, walking, uevents, loading, server, hampered>>
      BY <2>2 DEF firmwareVars
    <3> QED BY <2>1, <3>1, <3>2
  <2>3. CASE ConstructHandler
    <3>1. parsing # "done"
      BY <2>3 DEF ConstructHandler, ConfigParsed, AllParsed
    <3> QED BY <2>1, <2>3, <3>1 DEF ConstructHandler
  <2>4. CASE parsing = "done" /\ FirmwareNext /\ UNCHANGED parserVars
    <3>1. parsing = "done" /\ parsing' = parsing
      BY <2>4 DEF parserVars
    <3>2. CASE Quit
      BY <2>1, <3>1, <3>2 DEF Quit
    <3> QED BY <1>1, <2>4, <3>1, <3>2, KernelKeeps, UeventdKeeps, ServeKeeps
            DEF FirmwareNext, KernelStep
  <2>5. CASE UNCHANGED rcVars
    <3>1. parsing' = parsing /\ UNCHANGED <<kernelVars, walking, uevents, loading, server, hampered>>
      BY <2>5 DEF rcVars, parserVars, firmwareVars
    <3> QED BY <2>1, <3>1
  <2> QED BY <1>1, <2>2, <2>3, <2>4, <2>5 DEF RcNext
<1> QED BY InitFirmware, <1>1, PTL DEF RcSpec

\* The run of ueventd has ended only when its thread has nothing left to do.
RunRight == coldboot \in Nat /\ over \in BOOLEAN /\ (over => Free /\ coldboot = 0)

LEMMA RunInvariant == RcSpec => []RunRight
<1>1. RcInit => RunRight
  <2>1. RcInit => coldboot = 0 /\ over = FALSE
    BY DEF RcInit, FirmwareInit
  <2>2. coldboot = 0 => coldboot \in Nat
    OBVIOUS
  <2>3. over = FALSE => over \in BOOLEAN /\ ~over
    BY Zenon
  <2> QED BY <2>1, <2>2, <2>3, Zenon DEF RunRight
<1>2. ASSUME FirmwareInv, RunRight, [RcNext]_rcVars PROVE RunRight'
  <2>1. ASSUME UNCHANGED <<walking, runVars, loading, server>> PROVE RunRight'
    BY <1>2, <2>1 DEF RunRight, runVars, Free
  <2>2. ASSUME NEW p \in Servers, Serve(p), UNCHANGED <<walking, runVars, loading>> PROVE RunRight'
    <3>1. ServeEffect(p)
      BY <1>2, <2>2, ServeEffects DEF FirmwareInv
    <3>2. over => p # Ueventd
      BY <1>2, <3>1 DEF RunRight, Free, ServeEffect, Busy
    <3>3. over => server'[Ueventd] = server[Ueventd]
      BY <3>1, <3>2, IdleServers DEF ServeEffect
    <3> QED BY <1>2, <2>2, <3>3 DEF RunRight, runVars, Free
  <2>3. CASE KernelStep
    BY <2>1, <2>3 DEF KernelStep, Ask, AnnounceAgain, ModuleWanted, TimeOut
  <2>4. CASE HandleUevent
    <3>1. CASE WalkOver
      BY <1>2, <3>1, LenProperties DEF WalkOver, FirmwareInv, RunRight, Free
    <3>2. CASE ModuleLoaded
      <4>1. loading # None /\ UNCHANGED runVars
        BY <3>2 DEF ModuleLoaded
      <4> QED BY <1>2, <4>1 DEF RunRight, runVars, Free
    <3>3. CASE IgnoreUevent \/ (\E c \in Children : ForkChild(c)) \/ ForkFails \/ LoadModule
      <4>1. ~over /\ over' = over /\ coldboot' = IF coldboot = 0 THEN 0 ELSE coldboot - 1
        BY <3>3 DEF IgnoreUevent, ForkChild, ForkFails, LoadModule, NextUevent
      <4> QED BY <1>2, <4>1 DEF RunRight
    <3> QED BY <2>4, <3>1, <3>2, <3>3 DEF HandleUevent
  <2>5. CASE Quit
    BY <1>2, <2>5 DEF Quit, RunRight, Free
  <2>6. CASE \E p \in Servers : Serve(p)
    <3>1. PICK p \in Servers : Serve(p)
      BY <2>6
    <3>2. UNCHANGED <<walking, runVars, loading>>
      BY <3>1 DEF Serve, GetFirmwarePath, OpenRequest, Search, StartTransfer, CopyWhole, CopyFails,
                  CopyShort, Commit, Abort
    <3> QED BY <2>2, <3>1, <3>2
  <2> QED BY <1>2, <2>1, <2>3, <2>4, <2>5, <2>6
          DEF RcNext, FirmwareNext, ConstructHandler, rcVars, firmwareVars
<1> QED BY <1>1, <1>2, FirmwareInvariant, PTL DEF RcSpec

\* However the children run and whether fork fails or not, an announcement of a request is
\* served by one process at most: who serves a request, and the announcements of it that
\* ueventd has not read, are together not more than the kernel has made.
THEOREM ServedOnceEach == RcSpec => []AnnouncementServedOnce
<1>1. FirmwareInv => AnnouncementServedOnce
  BY DEF FirmwareInv, ServedOnce, AnnouncementServedOnce, Workers, Copies, Unread
<1> QED BY FirmwareInvariant, <1>1, PTL

-----------------------------------------------------------------------------
(* What a request is served with *)

\* What a process that serves has found out: a name that may be asked for, and the first
\* directory that has it; or that it cannot serve the request.
ProcessRight(p) ==
  LET s == server[p]
      r == s.request
  IN  s.step \in Busy =>
        /\ s.step # "choose" => s.name \in FirmwarePaths(r)
        /\ s.step \in {"start", "copy", "commit"} =>
             FirstWith(s.name) # 0 /\ s.source = SearchedDirectories[FirstWith(s.name)]
        /\ s.step = "commit" /\ announced[r] = 1 /\ r \notin hampered => buffer[r] = s.source
        /\ s.step = "abort" => r \in hampered \/ FirstWith(s.name) = 0

\* What is in the device when the request has ended.
AnswerRight(r) ==
  /\ request[r] = "done" /\ announced[r] = 1 /\ r \notin hampered =>
       \E n \in FirmwarePaths(r) :
         FirstWith(n) # 0 /\ buffer[r] = SearchedDirectories[FirstWith(n)]
  /\ request[r] = "aborted" /\ r \notin hampered => \E n \in FirmwarePaths(r) : FirstWith(n) = 0

\* The handler works with what ParseConfig has returned, and with nothing before.
HandlerRight ==
  /\ parsing # "done" => \A r \in Requests : request[r] = "none"
  /\ parsing = "done" => /\ directories = config.firmwareDirectories
                         /\ handlers = config.externalFirmwareHandlers

AnsweredInv ==
  /\ FirmwareInv /\ HandlerRight
  /\ \A p \in Servers : ProcessRight(p)
  /\ \A r \in Requests : AnswerRight(r)

LEMMA SameHandler ==
  ASSUME UNCHANGED handlerData
  PROVE  /\ \A r : FirmwarePaths(r)' = FirmwarePaths(r)
         /\ \A n : FirstWith(n)' = FirstWith(n)
         /\ SearchedDirectories' = SearchedDirectories
<1>1. directories' = directories /\ handlers' = handlers
  BY DEF handlerData
<1>2. SearchedDirectories' = SearchedDirectories
  BY <1>1 DEF SearchedDirectories
<1>3. \A n : FirstWith(n)' = FirstWith(n)
  BY <1>2 DEF FirstWith, SelectInSeq
<1>4. \A r : FirmwarePaths(r)' = FirmwarePaths(r)
  BY <1>1 DEF FirmwarePaths, HandlerFor, SelectInSeq
<1> QED BY <1>2, <1>3, <1>4

\* Two processes serve the same request only if it has been announced twice.
LEMMA TwoServe ==
  ASSUME FirmwareInv, NEW p \in Servers, NEW q \in Servers, p # q,
         server[p].request = server[q].request, server[q].request \in Requests
  PROVE  announced[server[q].request] # 1
<1> DEFINE r == server[q].request
           W == Workers(server, r)
<1>1. Cardinality(W) + Copies(uevents, Uevent("add", r)) <= announced[r]
  BY DEF FirmwareInv, ServedOnce
<1>2. /\ Copies(uevents, Uevent("add", r)) \in Nat /\ announced[r] \in 0..2
      /\ Cardinality(W) \in Nat
  BY QueuedRight DEF FirmwareInv
<1>3. W \in SUBSET Servers /\ {p, q} \in SUBSET W
  BY DEF Workers
<1>4. IsFiniteSet(W)
  BY <1>3, WorkersFinite, FS_Subset
<1>5. Cardinality({p, q}) = 2
  <2>1. IsFiniteSet({p}) /\ Cardinality({p}) = 1
    BY FS_Singleton
  <2>2. Cardinality({p} \cup {q}) = Cardinality({p}) + 1
    BY <2>1, FS_AddElement
  <2>3. {p} \cup {q} = {p, q}
    OBVIOUS
  <2> QED BY <2>1, <2>2, <2>3
<1>6. Cardinality({p, q}) <= Cardinality(W)
  BY <1>3, <1>4, FS_Subset
<1> HIDE DEF W, r
<1>7. announced[r] # 1
  BY <1>1, <1>2, <1>5, <1>6
<1> QED BY <1>7 DEF r

LEMMA ProcessKeeps ==
  ASSUME NEW q \in Servers, ProcessRight(q), server'[q] = server[q], UNCHANGED handlerData,
         hampered \subseteq hampered',
         server[q].step \in Busy /\ announced'[server[q].request] = 1 =>
           /\ announced[server[q].request] = 1
           /\ buffer'[server[q].request] = buffer[server[q].request]
  PROVE  ProcessRight(q)'
BY SameHandler DEF ProcessRight

LEMMA AnswerKeeps ==
  ASSUME NEW r \in Requests, AnswerRight(r), UNCHANGED handlerData,
         hampered \subseteq hampered',
         request'[r] \in {"done", "aborted"} => request'[r] = request[r],
         request'[r] = "done" => announced'[r] = announced[r] /\ buffer'[r] = buffer[r]
  PROVE  AnswerRight(r)'
BY SameHandler DEF AnswerRight

\* The entry of a busy process with another step, name or source in it.
LEMMA EntryTaken ==
  ASSUME ServersRight, NEW p \in Servers, server[p].step \in Busy, NEW x, NEW y
  PROVE  LET s == server[p] IN
         /\ GoTo(s, x) = Entry(x, s.request, s.name, s.source)
         /\ TakeName(s, x, y) = Entry(x, s.request, y, s.source)
         /\ TakeSource(s, x, y) = Entry(x, s.request, s.name, y)
<1> DEFINE s == server[p]
<1>1. Server(s)
  BY DEF ServersRight
<1>2. PICK a, b, c, d : s = Entry(a, b, c, d)
  BY <1>1, EntryFields
<1>3. b = s.request /\ c = s.name /\ d = s.source
  BY <1>2, EntryFields
<1> HIDE DEF s
<1>4. /\ GoTo(s, x) = Entry(x, b, c, d)
      /\ TakeName(s, x, y) = Entry(x, b, y, d)
      /\ TakeSource(s, x, y) = Entry(x, b, c, y)
  BY <1>2, EntryChanges
<1>5. /\ GoTo(s, x) = Entry(x, s.request, s.name, s.source)
      /\ TakeName(s, x, y) = Entry(x, s.request, y, s.source)
      /\ TakeSource(s, x, y) = Entry(x, s.request, s.name, y)
  BY <1>3, <1>4
<1> QED BY <1>5 DEF s

\* What the entry of a process is after its step.
LEMMA EntryAfter ==
  ASSUME ServersRight, NEW p \in Servers, server[p].step \in Busy, NEW x, NEW y
  PROVE  LET s == server[p] IN
         /\ server' = [server EXCEPT ![p].step = x]
              => server'[p] = Entry(x, s.request, s.name, s.source)
         /\ server' = [server EXCEPT ![p].step = x, ![p].name = y]
              => server'[p] = Entry(x, s.request, y, s.source)
         /\ server' = [server EXCEPT ![p] = [s EXCEPT !.step = x, !.source = y]]
              => server'[p] = Entry(x, s.request, s.name, y)
<1> DEFINE s == server[p]
<1>1. server = [q \in Servers |-> server[q]] /\ Server(s)
  BY DEF ServersRight
<1>4. /\ GoTo(s, x) = Entry(x, s.request, s.name, s.source)
      /\ TakeName(s, x, y) = Entry(x, s.request, y, s.source)
      /\ TakeSource(s, x, y) = Entry(x, s.request, s.name, y)
  BY EntryTaken
<1>5. ASSUME server' = [server EXCEPT ![p].step = x]
      PROVE  server'[p] = Entry(x, s.request, s.name, s.source)
  <2>1. server'[p] = [s EXCEPT !.step = x]
    BY <1>1, <1>5
  <2>2. server'[p] = GoTo(s, x)
    BY <2>1 DEF GoTo
  <2> QED BY <1>4, <2>2
<1>6. ASSUME server' = [server EXCEPT ![p].step = x, ![p].name = y]
      PROVE  server'[p] = Entry(x, s.request, y, s.source)
  <2>1. server'[p] = [s EXCEPT !.step = x, !.name = y]
    BY <1>1, <1>6
  <2>2. server'[p] = TakeName(s, x, y)
    BY <2>1 DEF TakeName
  <2> QED BY <1>4, <2>2
<1>7. ASSUME server' = [server EXCEPT ![p] = [s EXCEPT !.step = x, !.source = y]]
      PROVE  server'[p] = Entry(x, s.request, s.name, y)
  <2>1. server'[p] = [s EXCEPT !.step = x, !.source = y]
    BY <1>1, <1>7
  <2>2. server'[p] = TakeSource(s, x, y)
    BY <2>1 DEF TakeSource
  <2> QED BY <1>4, <2>2
<1> QED BY <1>5, <1>6, <1>7

LEMMA LeaveAfter ==
  ASSUME ServersRight, NEW p \in Servers, Leave(p)
  PROVE  server'[p].step \notin Busy
<1>1. server = [q \in Servers |-> server[q]]
  BY DEF ServersRight
<1>2. server'[p] = IF p = Ueventd THEN Idle ELSE Exited
  BY <1>1 DEF Leave
<1>3. Idle.step \notin Busy /\ Exited.step \notin Busy
  BY DEF Idle, Exited, Busy
<1> QED BY <1>2, <1>3

\* The process itself, after each of its steps.
LEMMA ProcessGoesOn ==
  ASSUME AnsweredInv, NEW p \in Servers, Serve(p)
  PROVE  ProcessRight(p)'
<1> DEFINE s == server[p]
           r == server[p].request
<1>1. /\ KernelRight /\ ServersRight /\ ProcessRight(p) /\ ServeEffect(p)
      /\ s.step \in Busy /\ r \in Requests /\ UNCHANGED <<handlerData, announced>>
  <2>1. KernelRight /\ ServersRight /\ ProcessRight(p)
    BY DEF AnsweredInv, FirmwareInv
  <2>2. ServeEffect(p)
    BY <2>1, ServeEffects
  <2> QED BY <2>1, <2>2 DEF ServeEffect
<1>2. /\ \A q : FirmwarePaths(q)' = FirmwarePaths(q)
      /\ \A n : FirstWith(n)' = FirstWith(n)
      /\ SearchedDirectories' = SearchedDirectories
  BY <1>1, SameHandler
<1>3. ASSUME server'[p].step \notin Busy PROVE ProcessRight(p)'
  BY <1>3 DEF ProcessRight
<1>4. CASE GetFirmwarePath(p)
  <2>1. PICK n \in FirmwarePaths(r) : server' = [server EXCEPT ![p].step = "open", ![p].name = n]
    BY <1>4 DEF GetFirmwarePath
  <2>2. server'[p] = Entry("open", r, n, s.source)
    BY <1>1, <2>1, EntryAfter
  <2> QED BY <1>2, <2>1, <2>2, EntryFields DEF ProcessRight
<1>5. CASE OpenRequest(p)
  <2>1. CASE Leave(p)
    BY <1>1, <1>3, <2>1, LeaveAfter
  <2>2. CASE ~Leave(p)
    <3>1. server'[p] = Entry("search", r, s.name, s.source) /\ s.name \in FirmwarePaths(r)
      BY <1>1, <1>5, <2>2, EntryAfter DEF OpenRequest, ProcessRight
    <3> QED BY <1>2, <3>1, EntryFields DEF ProcessRight
  <2> QED BY <2>1, <2>2
<1>6. CASE Search(p)
  <2> DEFINE found == SearchedDirectories[FirstWith(s.name)]
  <2>1. s.name \in FirmwarePaths(r)
    BY <1>1, <1>6 DEF Search, ProcessRight
  <2>2. CASE FirstWith(s.name) = 0
    <3>1. server' = [server EXCEPT ![p] = [s EXCEPT !.step = "abort"]]
      BY <1>6, <2>2 DEF Search
    <3>2. server' = [server EXCEPT ![p].step = "abort"]
      BY <1>1, <3>1 DEF ServersRight
    <3>3. server'[p] = Entry("abort", r, s.name, s.source)
      BY <1>1, <3>2, EntryAfter
    <3> QED BY <1>2, <2>1, <2>2, <3>3, EntryFields DEF ProcessRight
  <2>3. CASE FirstWith(s.name) # 0
    <3>1. server' = [server EXCEPT ![p] = [s EXCEPT !.step = "start", !.source = found]]
      BY <1>6, <2>3 DEF Search
    <3>2. server'[p] = Entry("start", r, s.name, found)
      <4> HIDE DEF found
      <4>1. server = [q \in Servers |-> server[q]] /\ server[p].step \in Busy /\ ServersRight
        BY <1>1 DEF ServersRight
      <4>2. server' = [server EXCEPT ![p] = TakeSource(server[p], "start", found)]
        BY <3>1 DEF TakeSource
      <4>3. server'[p] = TakeSource(server[p], "start", found)
        BY ONLY p \in Servers, <4>1, <4>2
      <4>4. TakeSource(server[p], "start", found)
              = Entry("start", server[p].request, server[p].name, found)
        BY ONLY p \in Servers, <4>1, EntryTaken
      <4> QED BY <4>3, <4>4
    <3> QED BY <1>2, <2>1, <2>3, <3>2, EntryFields DEF ProcessRight
  <2> QED BY <2>2, <2>3
<1>7. CASE StartTransfer(p)
  <2>1. server'[p] = Entry("copy", r, s.name, s.source) /\ s.step = "start"
    BY <1>1, <1>7, EntryAfter DEF StartTransfer
  <2> QED BY <1>1, <1>2, <2>1, EntryFields DEF ProcessRight
<1>8. CASE CopyWhole(p)
  <2>1. server'[p] = Entry("commit", r, s.name, s.source) /\ s.step = "copy"
    BY <1>1, <1>8, EntryAfter DEF CopyWhole
  <2>2. buffer'[r] = s.source
    BY <1>1, <1>8 DEF CopyWhole, KernelRight
  <2> QED BY <1>1, <1>2, <2>1, <2>2, EntryFields DEF ProcessRight
<1>9. CASE CopyFails(p)
  <2>1. server'[p] = Entry("abort", r, s.name, s.source) /\ s.step = "copy"
    BY <1>1, <1>9, EntryAfter DEF CopyFails
  <2>2. r \in hampered'
    BY <1>9 DEF CopyFails
  <2> QED BY <1>1, <1>2, <2>1, <2>2, EntryFields DEF ProcessRight
<1>10. CASE CopyShort(p)
  <2>1. server'[p] = Entry("commit", r, s.name, s.source) /\ s.step = "copy"
    BY <1>1, <1>10, EntryAfter DEF CopyShort
  <2>2. r \in hampered'
    BY <1>10 DEF CopyShort
  <2> QED BY <1>1, <1>2, <2>1, <2>2, EntryFields DEF ProcessRight
<1>11. CASE Commit(p) \/ Abort(p)
  BY <1>1, <1>3, <1>11, LeaveAfter DEF Commit, Abort
<1> QED BY <1>4, <1>5, <1>6, <1>7, <1>8, <1>9, <1>10, <1>11 DEF Serve

LEMMA ServeAnswers ==
  ASSUME AnsweredInv, parsing = "done", UNCHANGED parserVars, NEW p \in Servers, Serve(p)
  PROVE  AnsweredInv'
<1> DEFINE s == server[p]
           r == server[p].request
<1>1. /\ FirmwareInv /\ KernelRight /\ ServersRight /\ HandlerRight /\ ServeEffect(p)
      /\ \A q \in Servers : ProcessRight(q)
      /\ \A x \in Requests : AnswerRight(x)
  <2>1. FirmwareInv /\ KernelRight /\ ServersRight
    BY DEF AnsweredInv, FirmwareInv
  <2> QED BY <2>1, ServeEffects DEF AnsweredInv
<1>2. /\ s.step \in Busy /\ r \in Requests /\ UNCHANGED <<announced, handlerData>>
      /\ hampered \subseteq hampered' /\ \A q \in Servers \ {p} : server'[q] = server[q]
  BY <1>1 DEF ServeEffect
<1>3. parsing' = parsing /\ config' = config
  BY DEF parserVars
<1>4. FirmwareInv'
  BY <1>1, <1>3, ServeKeeps
<1>5. HandlerRight'
  BY <1>1, <1>2, <1>3 DEF HandlerRight, handlerData
<1>6. /\ \A x \in Requests \ {r} : buffer'[x] = buffer[x] /\ request'[x] = request[x]
      /\ ~Live(r) => buffer'[r] = buffer[r] /\ request'[r] = request[r]
  <2>1. request \in [Requests -> Stages] /\ buffer = [x \in Requests |-> buffer[x]]
    BY <1>1 DEF KernelRight
  <2>2. CASE GetFirmwarePath(p) \/ OpenRequest(p) \/ Search(p) \/ CopyFails(p)
    BY <2>2 DEF GetFirmwarePath, OpenRequest, Search, CopyFails, kernelVars
  <2>3. CASE StartTransfer(p) \/ CopyWhole(p) \/ CopyShort(p)
    BY <2>1, <2>3 DEF StartTransfer, CopyWhole, CopyShort
  <2>4. CASE Commit(p) \/ Abort(p)
    BY <2>1, <2>4 DEF Commit, Abort, End, Live
  <2> QED BY <2>2, <2>3, <2>4 DEF Serve
<1>7. ASSUME NEW q \in Servers PROVE ProcessRight(q)'
  <2>1. CASE q = p
    BY <2>1, ProcessGoesOn
  <2>2. CASE q # p
    <3>1. CASE server[q].step \notin Busy
      BY <1>2, <2>2, <3>1 DEF ProcessRight
    <3>2. CASE server[q].step \in Busy
      <4>1. server[q].request \in Requests
        BY <1>1, <3>2 DEF ServersRight, Server, Busy
      <4>2. announced[server[q].request] = 1 => buffer'[server[q].request] = buffer[server[q].request]
        <5>1. CASE server[q].request = r
          BY <1>1, <2>2, <4>1, <5>1, TwoServe
        <5>2. CASE server[q].request # r
          BY <1>6, <4>1, <5>2
        <5> QED BY <5>1, <5>2
      <4>3. server'[q] = server[q] /\ ProcessRight(q)
        BY <1>1, <1>2, <2>2
      <4>4. announced' = announced
        BY <1>2
      <4> QED BY <1>2, <4>2, <4>3, <4>4, ProcessKeeps
    <3> QED BY <3>1, <3>2
  <2> QED BY <2>1, <2>2
<1>8. ASSUME NEW x \in Requests PROVE AnswerRight(x)'
  <2>1. CASE request'[x] \in {"done", "aborted"} => request'[x] = request[x]
    <3>1. request'[x] = "done" => buffer'[x] = buffer[x]
      BY <1>6, <2>1 DEF Live
    <3> QED BY <1>1, <1>2, <2>1, <3>1, AnswerKeeps
  <2>2. CASE ~(request'[x] \in {"done", "aborted"} => request'[x] = request[x])
    <3>1. x = r /\ Live(r) /\ request'[r] \in {"done", "aborted"}
      BY <1>6, <2>2
    <3>2. Commit(p) \/ Abort(p)
      <4>1. request \in [Requests -> Stages]
        BY <1>1 DEF KernelRight
      <4>2. CASE GetFirmwarePath(p) \/ OpenRequest(p) \/ Search(p) \/ CopyFails(p)
        BY <2>2, <3>1, <4>2 DEF GetFirmwarePath, OpenRequest, Search, CopyFails, kernelVars
      <4>3. CASE StartTransfer(p) \/ CopyWhole(p) \/ CopyShort(p)
        BY <1>2, <2>2, <3>1, <4>1, <4>3 DEF StartTransfer, CopyWhole, CopyShort
      <4> QED BY <4>2, <4>3 DEF Serve
    <3>3. /\ \A q : FirmwarePaths(q)' = FirmwarePaths(q)
          /\ \A n : FirstWith(n)' = FirstWith(n)
          /\ SearchedDirectories' = SearchedDirectories
      BY <1>2, SameHandler
    <3>4. ProcessRight(p) /\ request \in [Requests -> Stages]
      BY <1>1 DEF KernelRight
    <3>5. CASE Commit(p)
      <4>1. request'[r] = "done" /\ buffer' = buffer /\ hampered' = hampered /\ s.step = "commit"
        BY <1>2, <2>2, <3>1, <3>4, <3>5 DEF Commit, End
      <4>2. /\ s.name \in FirmwarePaths(r) /\ FirstWith(s.name) # 0
            /\ s.source = SearchedDirectories[FirstWith(s.name)]
            /\ announced[r] = 1 /\ r \notin hampered => buffer[r] = s.source
        BY <1>2, <3>4, <4>1 DEF ProcessRight
      <4> HIDE DEF s, r
      <4> QED BY <1>2, <3>1, <3>3, <4>1, <4>2 DEF AnswerRight
    <3>6. CASE Abort(p)
      <4>1. request'[r] = "aborted" /\ hampered' = hampered /\ s.step = "abort"
        BY <1>2, <3>1, <3>4, <3>6 DEF Abort, End
      <4>2. s.name \in FirmwarePaths(r) /\ (r \in hampered \/ FirstWith(s.name) = 0)
        BY <1>2, <3>4, <4>1 DEF ProcessRight
      <4> HIDE DEF s, r
      <4> QED BY <1>2, <3>1, <3>3, <4>1, <4>2 DEF AnswerRight
    <3> QED BY <3>2, <3>5, <3>6
  <2> QED BY <2>1, <2>2
<1> QED BY <1>4, <1>5, <1>7, <1>8 DEF AnsweredInv

\* The steps of the kernel and of the thread of ueventd: no request is answered, nothing is
\* written, and a request is announced again only while somebody else may serve it.
Quiet ==
  /\ UNCHANGED <<handlerData, buffer, hampered>>
  /\ \A q \in Servers : server'[q] = server[q] \/ server'[q].step = "choose"
  /\ \A x \in Requests :
       /\ request'[x] \in {"done", "aborted"} =>
            request'[x] = request[x] /\ announced'[x] = announced[x]
       /\ announced'[x] = 1 => announced[x] \in {0, 1}

LEMMA QuietAnswers ==
  ASSUME AnsweredInv, parsing = "done", UNCHANGED parserVars, FirmwareInv', Quiet
  PROVE  AnsweredInv'
<1>1. /\ FirmwareInv /\ KernelRight /\ ServersRight /\ HandlerRight
      /\ \A q \in Servers : ProcessRight(q)
      /\ \A x \in Requests : AnswerRight(x)
  BY DEF AnsweredInv, FirmwareInv
<1>2. parsing' = parsing /\ config' = config
  BY DEF parserVars
<1>3. /\ UNCHANGED handlerData /\ buffer' = buffer /\ hampered' = hampered
      /\ \A q \in Servers : server'[q] = server[q] \/ server'[q].step = "choose"
      /\ \A x \in Requests :
           /\ request'[x] \in {"done", "aborted"} =>
                request'[x] = request[x] /\ announced'[x] = announced[x]
           /\ announced'[x] = 1 => announced[x] \in {0, 1}
  BY DEF Quiet
<1>4. HandlerRight'
  BY <1>1, <1>2, <1>3 DEF HandlerRight, handlerData
<1>5. ASSUME NEW q \in Servers PROVE ProcessRight(q)'
  <2>1. CASE server'[q].step = "choose"
    BY <2>1 DEF ProcessRight
  <2>2. CASE server'[q] = server[q] /\ server[q].step \notin Busy
    BY <2>2 DEF ProcessRight
  <2>3. CASE server'[q] = server[q] /\ server[q].step \in Busy
    <3>1. server[q].request \in Requests
      BY <1>1, <2>3 DEF ServersRight, Server, Busy
    <3>2. announced[server[q].request] # 0
      <4> DEFINE x == server[q].request
                 W == Workers(server, x)
      <4>1. /\ Cardinality(W) + Copies(uevents, Uevent("add", x)) <= announced[x]
            /\ Copies(uevents, Uevent("add", x)) \in Nat /\ Cardinality(W) \in Nat
            /\ announced[x] \in 0..2
        BY <1>1, <3>1, QueuedRight DEF FirmwareInv, ServedOnce
      <4>2. q \in W /\ W \in SUBSET Servers
        BY DEF Workers
      <4>3. IsFiniteSet(W) /\ Cardinality(W) # 0
        BY <4>2, WorkersFinite, FS_Subset, FS_EmptySet
      <4> HIDE DEF x, W
      <4>4. announced[x] # 0
        BY <4>1, <4>3
      <4> QED BY <4>4 DEF x
    <3>3. announced'[server[q].request] = 1 => announced[server[q].request] = 1
      BY <1>3, <3>1, <3>2
    <3> QED BY <1>1, <1>3, <2>3, <3>3, ProcessKeeps
  <2> QED BY <1>3, <2>1, <2>2, <2>3
<1>6. ASSUME NEW x \in Requests PROVE AnswerRight(x)'
  BY <1>1, <1>3, AnswerKeeps
<1> QED BY <1>4, <1>5, <1>6 DEF AnsweredInv

LEMMA KernelQuiet ==
  ASSUME FirmwareInv, NEW r \in Requests,
         Ask(r) \/ AnnounceAgain(r) \/ ModuleWanted(r) \/ TimeOut(r)
  PROVE  Quiet
<1>1. KernelRight
  BY DEF FirmwareInv
<1>2. UNCHANGED <<handlerData, buffer, hampered, server>>
  BY DEF Ask, AnnounceAgain, ModuleWanted, TimeOut
<1>3. PICK kind \in {"add", "modalias", "remove"}, how \in Stages \ {"none"}, n \in 0..2 :
        KernelEffect(r, kind, how, n)
  BY <1>1, KernelEffects
<1>4. /\ \A x \in Requests : /\ request'[x] = IF x = r THEN how ELSE request[x]
                             /\ announced'[x] = IF x = r THEN n ELSE announced[x]
      /\ how \notin {"done", "aborted"}
  BY <1>1, <1>3 DEF KernelRight, KernelEffect
<1>5. n = 1 => announced[r] \in {0, 1}
  <2>1. announced[r] \in 0..2
    BY <1>1 DEF KernelRight
  <2>2. n = announced[r] \/ n = announced[r] + 1
    BY <1>3, <2>1 DEF KernelEffect
  <2> QED BY <2>1, <2>2
<1> QED BY <1>2, <1>4, <1>5 DEF Quiet

LEMMA UeventdQuiet ==
  ASSUME FirmwareInv, HandleUevent
  PROVE  Quiet
<1>1. KernelRight /\ ServersRight /\ ModulesOnce /\ uevents \in Seq(FirmwareEvents)
  BY DEF FirmwareInv
<1>2. CASE WalkOver \/ IgnoreUevent \/ ModuleLoaded
  BY <1>2 DEF WalkOver, IgnoreUevent, ModuleLoaded, Quiet, kernelVars
<1>3. ASSUME NEW c \in Servers, server' = [server EXCEPT ![c] = Start(Head(uevents).request)],
             UNCHANGED <<handlerData, kernelVars, hampered>>
      PROVE  Quiet
  <2>1. server' = [q \in Servers |-> IF q = c THEN Start(Head(uevents).request) ELSE server[q]]
    BY <1>1, <1>3 DEF ServersRight
  <2>2. Start(Head(uevents).request).step = "choose"
    BY DEF Start, Idle
  <2>3. \A q \in Servers : server'[q] = server[q] \/ server'[q].step = "choose"
    BY <2>1, <2>2
  <2> QED BY <1>3, <2>3 DEF Quiet, kernelVars
<1>4. ASSUME NEW c \in Children, ForkChild(c) PROVE Quiet
  BY <1>3, <1>4 DEF ForkChild, Servers
<1>5. CASE ForkFails
  BY <1>3, <1>5 DEF ForkFails, Servers
<1>6. CASE LoadModule
  <2> DEFINE r == Head(uevents).request
  <2>1. /\ uevents # <<>> /\ Head(uevents).kind = "modalias"
        /\ request' = [request EXCEPT ![r] = "pending"]
        /\ announced' = [announced EXCEPT ![r] = 1]
        /\ UNCHANGED <<handlerData, buffer, hampered, server>>
    BY <1>6 DEF LoadModule
  <2>2. /\ r \in Requests
        /\ Copies(Tail(uevents), Uevent("modalias", r)) \in Nat
        /\ Copies(uevents, Uevent("modalias", r)) = Copies(Tail(uevents), Uevent("modalias", r)) + 1
    BY <1>1, <2>1, UeventTaken
  <2> HIDE DEF r
  <2>3. Copies(uevents, Uevent("modalias", r)) # 0
    BY <2>2
  <2>4. request[r] = "wanted"
    BY <1>1, <2>2, <2>3 DEF ModulesOnce
  <2>5. announced[r] = 0
    BY <1>1, <2>2, <2>4 DEF KernelRight
  <2>6. \A x \in Requests : /\ request'[x] = IF x = r THEN "pending" ELSE request[x]
                            /\ announced'[x] = IF x = r THEN 1 ELSE announced[x]
    BY <1>1, <2>1, <2>2 DEF KernelRight
  <2> QED BY <2>1, <2>5, <2>6 DEF Quiet
<1> QED BY <1>2, <1>4, <1>5, <1>6 DEF HandleUevent

LEMMA ParserQuiet ==
  ASSUME ParserStep
  PROVE  parsing # "done" /\ parsing' # "done"
BY DEF ParserStep, LineCallback, SectionStart, SectionLine, EndOfFile, OpenFile, OpenDirectory,
       SkipMissing, NextLine

LEMMA AnsweredInvariant == RcSpec => []AnsweredInv
<1>1. RcInit => AnsweredInv
  <2> SUFFICES ASSUME RcInit PROVE AnsweredInv
    OBVIOUS
  <2>1. FirmwareInv
    BY InitFirmware
  <2>2. parsing = "next" /\ \A r \in Requests : request[r] = "none"
    BY DEF RcInit, ParserInit, FirmwareInit
  <2>3. \A p \in Servers : server[p].step \notin Busy
    <3>1. server = [p \in Servers |-> Idle]
      BY DEF RcInit, FirmwareInit
    <3> QED BY <3>1 DEF Idle, Busy
  <2> QED BY <2>1, <2>2, <2>3 DEF AnsweredInv, HandlerRight, ProcessRight, AnswerRight
<1>2. ASSUME AnsweredInv, FirmwareInv', [RcNext]_rcVars PROVE AnsweredInv'
  <2>1. /\ FirmwareInv /\ HandlerRight
        /\ \A p \in Servers : ProcessRight(p)
        /\ \A r \in Requests : AnswerRight(r)
    BY <1>2 DEF AnsweredInv
  <2>2. CASE ParserStep /\ UNCHANGED firmwareVars
    <3>1. parsing # "done" /\ parsing' # "done"
      BY <2>2, ParserQuiet
    <3>2. UNCHANGED <<handlerData, request, buffer, announced, server, hampered>>
      BY <2>2 DEF firmwareVars, kernelVars
    <3>3. HandlerRight'
      BY <2>1, <3>1, <3>2 DEF HandlerRight
    <3>4. \A p \in Servers : ProcessRight(p)'
      BY <2>1, <3>2, ProcessKeeps
    <3>5. \A r \in Requests : AnswerRight(r)'
      BY <2>1, <3>2, AnswerKeeps
    <3> QED BY <1>2, <3>3, <3>4, <3>5 DEF AnsweredInv
  <2>3. CASE ConstructHandler
    <3>1. /\ parsing # "done" /\ parsing' = "done" /\ config' = config
          /\ directories' = config.firmwareDirectories /\ handlers' = config.externalFirmwareHandlers
          /\ request' = request /\ server' = server
      BY <2>3 DEF ConstructHandler, ConfigParsed, AllParsed, kernelVars
    <3>2. \A r \in Requests : request'[r] = "none"
      BY <2>1, <3>1 DEF HandlerRight
    <3>3. \A p \in Servers : server'[p].step \notin Busy
      BY <2>1, <3>1 DEF FirmwareInv, ServersRight, Idle, Busy
    <3>4. \A p \in Servers : ProcessRight(p)'
      BY <3>3 DEF ProcessRight
    <3>5. \A r \in Requests : AnswerRight(r)'
      BY <3>2 DEF AnswerRight
    <3>6. HandlerRight'
      BY <3>1 DEF HandlerRight
    <3> QED BY <1>2, <3>4, <3>5, <3>6 DEF AnsweredInv
  <2>4. CASE parsing = "done" /\ FirmwareNext /\ UNCHANGED parserVars
    <3>1. CASE \E p \in Servers : Serve(p)
      BY <1>2, <2>4, <3>1, ServeAnswers
    <3>2. CASE HandleUevent \/ Quit
      <4>1. Quiet
        BY <2>1, <3>2, UeventdQuiet DEF Quit, Quiet, kernelVars
      <4> QED BY <1>2, <2>4, <4>1, QuietAnswers
    <3>3. CASE KernelStep
      <4>1. PICK r \in Requests : Ask(r) \/ AnnounceAgain(r) \/ ModuleWanted(r) \/ TimeOut(r)
        BY <3>3 DEF KernelStep
      <4>2. Quiet
        BY <2>1, <4>1, KernelQuiet
      <4> QED BY <1>2, <2>4, <4>2, QuietAnswers
    <3> QED BY <2>4, <3>1, <3>2, <3>3 DEF FirmwareNext
  <2>5. CASE UNCHANGED rcVars
    <3>1. UNCHANGED <<handlerData, request, buffer, announced, server, hampered, parsing, config>>
      BY <2>5 DEF rcVars, parserVars, firmwareVars, kernelVars
    <3>2. HandlerRight'
      BY <2>1, <3>1 DEF HandlerRight, handlerData
    <3>3. \A p \in Servers : ProcessRight(p)'
      BY <2>1, <3>1, ProcessKeeps
    <3>4. \A r \in Requests : AnswerRight(r)'
      BY <2>1, <3>1, AnswerKeeps
    <3> QED BY <1>2, <3>2, <3>3, <3>4 DEF AnsweredInv
  <2> QED BY <1>2, <2>2, <2>3, <2>4, <2>5 DEF RcNext
<1> QED BY <1>1, <1>2, FirmwareInvariant, PTL DEF RcSpec

-----------------------------------------------------------------------------
(* How a request ends *)

\* A search that finds nothing has looked at every directory.
LEMMA NothingFound ==
  ASSUME NEW n, FirstWith(n) = 0
  PROVE  \A i \in 1..Len(SearchedDirectories) : n \notin Images[SearchedDirectories[i]]
<1> DEFINE I == {i \in 1..Len(SearchedDirectories) : n \in Images[SearchedDirectories[i]]}
<1>1. FirstWith(n) = IF I # {} THEN Min(I) ELSE 0
  BY DEF FirstWith, SelectInSeq
<1>2. CASE I # {}
  <2>1. I \in SUBSET Nat /\ \A i \in I : i >= 1
    OBVIOUS
  <2>2. PICK d \in I : \A f \in I : d <= f
    BY <1>2, <2>1, SmallestExists
  <2>3. Min(I) \in I
    BY <2>2 DEF Min
  <2> HIDE DEF I
  <2>4. Min(I) >= 1 /\ Min(I) \in Nat
    BY <2>1, <2>3
  <2> QED BY <1>1, <1>2, <2>4
<1>3. CASE I = {}
  BY <1>3
<1> QED BY <1>2, <1>3

\* What a driver gets is a whole image, from the first directory that the handler knows and
\* that has it, under a name that the handler may ask for; the image is not there only if no
\* directory has it.  The transfer may be hampered, and who serves a request that has been
\* announced twice may take back what another has written.
ServedAsHandled == \A r \in Requests : AnswerRight(r)

THEOREM AnswersRight == RcSpec => []ServedAsHandled
<1>1. AnsweredInv => ServedAsHandled
  BY DEF AnsweredInv, ServedAsHandled
<1> QED BY AnsweredInvariant, <1>1, PTL

-----------------------------------------------------------------------------
(* The parser *)

\* The files of a directory are parsed in the order of their names, each of them once.
LEMMA EntriesInOrder ==
  ASSUME NEW fs \in FileSystems, NEW path \in Paths
  PROVE  LET s == SortedEntries(fs[path].entries) IN
         /\ s \in Seq(Paths) /\ Range(s) = fs[path].entries
         /\ \A i, j \in DOMAIN s : i < j => PathOrder[s[i]] < PathOrder[s[j]]
<1> DEFINE E == fs[path].entries
           n == Cardinality(E)
           s == SortedEntries(E)
           C(p) == Cardinality(CountedTo(E, PathOrder, p))
<1>1. /\ E \subseteq Paths /\ IsFiniteSet(E) /\ \A e \in E : PathOrder[e] \in Nat
      /\ \A e, f \in E : PathOrder[e] = PathOrder[f] => e = f
  BY FilesAssumption
<1>2. n \in Nat
  BY <1>1, FS_CardinalityType
<1>3. s = [i \in 1..n |-> CHOOSE p \in E : C(p) = i]
  BY DEF SortedEntries, CountedTo
<1> HIDE DEF E, s
<1>4. /\ \A p \in E : C(p) \in 1..n
      /\ \A p, q \in E : PathOrder[p] < PathOrder[q] => C(p) < C(q)
      /\ \A i \in 1..n : \E p \in E : C(p) = i
  BY <1>1, CountedOff
<1> HIDE DEF n, C
<1>5. \A i \in 1..n : s[i] \in E /\ C(s[i]) = i
  BY <1>3, <1>4
<1>6. s \in Seq(Paths) /\ DOMAIN s = 1..n
  <2>1. s \in [1..n -> Paths]
    BY <1>1, <1>3, <1>5
  <2>2. DOMAIN s = 1..n
    BY <1>3
  <2> QED BY <1>2, <2>1, <2>2, SeqDef
<1>7. \A e \in E : s[C(e)] = e
  <2> SUFFICES ASSUME NEW e \in E PROVE s[C(e)] = e
    OBVIOUS
  <2> DEFINE f == s[C(e)]
  <2>1. f \in E /\ C(f) = C(e) /\ C(e) \in Nat
    BY <1>4, <1>5
  <2> HIDE DEF f
  <2>2. ~(PathOrder[f] < PathOrder[e]) /\ ~(PathOrder[e] < PathOrder[f])
    BY <1>4, <2>1
  <2>3. PathOrder[f] = PathOrder[e]
    BY <1>1, <2>1, <2>2
  <2> QED BY <1>1, <2>1, <2>3 DEF f
<1>8. Range(s) = E
  BY <1>4, <1>5, <1>6, <1>7 DEF Range
<1>9. ASSUME NEW i \in 1..n, NEW j \in 1..n, i < j PROVE PathOrder[s[i]] < PathOrder[s[j]]
  <2>1. s[i] \in E /\ s[j] \in E /\ C(s[i]) = i /\ C(s[j]) = j
    BY <1>5
  <2>2. ~(PathOrder[s[j]] < PathOrder[s[i]]) /\ s[i] # s[j]
    BY <1>4, <1>9, <2>1
  <2>3. PathOrder[s[i]] # PathOrder[s[j]]
    BY <1>1, <2>1, <2>2
  <2> QED BY <1>1, <2>1, <2>2, <2>3
<1> QED BY <1>6, <1>8, <1>9 DEF s, E

\* The lines that files may have, and what the configuration keeps of some of them.
AnyLine == UNION {Range(fs[p].lines) : fs \in FileSystems, p \in Paths}

Sections ==
  [name : {line.arg.name : line \in AnyLine} \cup {""}, devname : DevnameSources,
   dirname : AbsoluteNames \cup {"/dev"}]

HandlerOf(line) ==
  [devpath |-> line.arg.devpath, match |-> line.arg.match, path |-> line.arg.path]

HandlerLines ==
  {HandlerOf(line) : line \in {l \in AnyLine : Says(l, "external_firmware_handler")}}

EachOnce(s) == \A i, j \in DOMAIN s : s[i].name = s[j].name => i = j

ConfigRight(c) ==
  /\ DOMAIN c = DOMAIN DefaultConfig
  /\ \A key \in {"subsystem", "driver"} : c[key] \in Seq(Sections) /\ EachOnce(c[key])
  /\ c["externalFirmwareHandlers"] \in Seq(HandlerLines)

ParserInv ==
  /\ files \in FileSystems /\ todo \in Seq(Paths) /\ imports \in Seq(Paths)
  /\ lines \in Seq(AnyLine)
  /\ parsing \in {"next", "lines", "done"} /\ section \in SectionKeys \cup {"none"}
  /\ parsing # "lines" => lines = <<>> /\ section = "none" /\ imports = <<>>
  /\ subsystem \in Sections /\ ConfigRight(config)
  /\ \A key \in {"subsystem", "driver"} : section = key => ~IsDuplicate(config, key, subsystem.name)

LEMMA ConfigFields ==
  /\ {"subsystem", "driver", "externalFirmwareHandlers", "sysfsPermissions", "devPermissions",
      "firmwareDirectories", "modaliasHandling", "rcvbufSize", "parallelMainLoop", "maxWorkers"}
       = DOMAIN DefaultConfig
  /\ ConfigRight(DefaultConfig)
<1>1. /\ DefaultConfig["subsystem"] = <<>> /\ DefaultConfig["driver"] = <<>>
      /\ DefaultConfig["externalFirmwareHandlers"] = <<>>
  BY DEF DefaultConfig
<1>2. \A S : <<>> \in Seq(S)
  BY EmptySeq
<1>3. EachOnce(<<>>)
  BY DEF EachOnce
<1>4. ConfigRight(DefaultConfig)
  BY <1>1, <1>2, <1>3 DEF ConfigRight
<1> QED BY <1>4 DEF DefaultConfig

\* A field that is none of the three is changed.
LEMMA OtherField ==
  ASSUME NEW c, ConfigRight(c), NEW x,
         NEW field \in {"sysfsPermissions", "devPermissions", "firmwareDirectories",
                        "modaliasHandling", "rcvbufSize", "parallelMainLoop", "maxWorkers"}
  PROVE  ConfigRight([c EXCEPT ![field] = x])
<1> DEFINE d == [c EXCEPT ![field] = x]
<1>1. DOMAIN d = DOMAIN c
  OBVIOUS
<1>2. \A g \in {"subsystem", "driver", "externalFirmwareHandlers"} : g \in DOMAIN c /\ d[g] = c[g]
  BY ConfigFields DEF ConfigRight
<1> HIDE DEF d
<1> QED BY <1>1, <1>2 DEF ConfigRight

LEMMA SectionAdded ==
  ASSUME NEW c, ConfigRight(c), NEW key \in {"subsystem", "driver"}, NEW s \in Sections,
         ~IsDuplicate(c, key, s.name),
         NEW d, d = [c EXCEPT ![key] = Append(@, s)]
  PROVE  ConfigRight(d)
<1> DEFINE t == c[key]
           u == Append(t, s)
<1>1. key \in DOMAIN c /\ {"subsystem", "driver", "externalFirmwareHandlers"} \subseteq DOMAIN c
  BY ConfigFields DEF ConfigRight
<1>2. DOMAIN d = DOMAIN c /\ \A g \in DOMAIN c : d[g] = IF g = key THEN u ELSE c[g]
  BY <1>1
<1>3. t \in Seq(Sections) /\ EachOnce(t) /\ \A i \in DOMAIN t : t[i].name # s.name
  BY DEF ConfigRight, IsDuplicate
<1> HIDE DEF t
<1>4. /\ u \in Seq(Sections) /\ DOMAIN u = 1..(Len(t) + 1) /\ DOMAIN t = 1..Len(t) /\ Len(t) \in Nat
      /\ \A i \in 1..Len(t) : u[i] = t[i]
      /\ u[Len(t) + 1] = s
  BY <1>3, AppendProperties, LenProperties
<1> HIDE DEF u
<1>5. EachOnce(u)
  BY <1>3, <1>4 DEF EachOnce
<1> QED BY <1>1, <1>2, <1>4, <1>5 DEF ConfigRight

LEMMA HandlerAdded ==
  ASSUME NEW c, ConfigRight(c), NEW h \in HandlerLines,
         NEW d, d = [c EXCEPT !.externalFirmwareHandlers = Append(@, h)]
  PROVE  ConfigRight(d)
<1> DEFINE u == Append(c["externalFirmwareHandlers"], h)
<1>1. {"subsystem", "driver", "externalFirmwareHandlers"} \subseteq DOMAIN c
  BY ConfigFields DEF ConfigRight
<1>2. /\ DOMAIN d = DOMAIN c /\ d["externalFirmwareHandlers"] = u
      /\ \A g \in {"subsystem", "driver"} : d[g] = c[g]
  BY <1>1
<1>3. u \in Seq(HandlerLines)
  BY AppendProperties DEF ConfigRight
<1> HIDE DEF u
<1> QED BY <1>2, <1>3 DEF ConfigRight

\* Only a line for external handlers is taken for one.
LEMMA CallbackOfLine ==
  ASSUME NEW key, CallbackFor(key) # 0
  PROVE  LET word == LineCallbacks[CallbackFor(key)] IN
         /\ word \in {"/sys/", "/dev/", "firmware_directories", "external_firmware_handler",
                      "modalias_handling", "uevent_socket_rcvbuf_size",
                      "parallel_ueventd_main_loop_max_workers", "parallel_ueventd_main_loop"}
         /\ word = "external_firmware_handler" => key = "external_firmware_handler"
<1> DEFINE I == {i \in 1..Len(LineCallbacks) : StartsWith(key, LineCallbacks[i])}
<1>1. CallbackFor(key) = IF I # {} THEN Min(I) ELSE 0
  BY DEF CallbackFor, SelectInSeq
<1>2. CallbackFor(key) \in I
  <2>1. I \in SUBSET Nat /\ I # {}
    BY <1>1
  <2>2. PICK d \in I : \A f \in I : d <= f
    BY <2>1, SmallestExists
  <2>3. Min(I) \in I
    BY <2>2 DEF Min
  <2> HIDE DEF I
  <2> QED BY <1>1, <2>1, <2>3
<1>3. \A i \in 1..Len(LineCallbacks) :
        LineCallbacks[i] \in {"/sys/", "/dev/", "firmware_directories", "external_firmware_handler",
                      "modalias_handling", "uevent_socket_rcvbuf_size",
                      "parallel_ueventd_main_loop_max_workers", "parallel_ueventd_main_loop"}
  BY DEF LineCallbacks
<1>4. StartsWith(key, LineCallbacks[CallbackFor(key)]) /\ CallbackFor(key) \in 1..Len(LineCallbacks)
  BY <1>2
<1> QED BY <1>3, <1>4 DEF StartsWith

LEMMA ParseLineRight ==
  ASSUME NEW c, ConfigRight(c), NEW line \in AnyLine, CallbackFor(line.key) # 0
  PROVE  ConfigRight(ParseLine(c, LineCallbacks[CallbackFor(line.key)], line.arg))
<1> DEFINE word == LineCallbacks[CallbackFor(line.key)]
           arg == line.arg
<1>1. /\ word \in {"/sys/", "/dev/", "firmware_directories", "external_firmware_handler",
                   "modalias_handling", "uevent_socket_rcvbuf_size",
                   "parallel_ueventd_main_loop_max_workers", "parallel_ueventd_main_loop"}
      /\ word = "external_firmware_handler" => line.key = "external_firmware_handler"
  BY CallbackOfLine
<1> HIDE DEF word
<1>2. ConfigRight(ParsePermissionsLine(c, "sysfsPermissions", arg))
  BY OtherField DEF ParsePermissionsLine
<1>3. ConfigRight(ParsePermissionsLine(c, "devPermissions", arg))
  BY OtherField DEF ParsePermissionsLine
<1>4. ConfigRight(ParseFirmwareDirectoriesLine(c, arg))
  BY OtherField DEF ParseFirmwareDirectoriesLine
<1>5. /\ ConfigRight(ParseEnabledDisabledLine(c, "modaliasHandling", arg))
      /\ ConfigRight(ParseEnabledDisabledLine(c, "parallelMainLoop", arg))
  BY OtherField DEF ParseEnabledDisabledLine
<1>6. /\ ConfigRight(ParseSizeLine(c, "rcvbufSize", arg))
      /\ ConfigRight(ParseSizeLine(c, "maxWorkers", arg))
  BY OtherField DEF ParseSizeLine
<1>7. ASSUME word = "external_firmware_handler"
      PROVE  ConfigRight(ParseExternalFirmwareHandlerLine(c, arg))
  <2> DEFINE h == HandlerOf(line)
  <2>1. line.key = "external_firmware_handler"
    BY <1>1, <1>7
  <2>3. arg.ok => h \in HandlerLines
    BY <2>1 DEF HandlerLines, Says
  <2> DEFINE d == ParseExternalFirmwareHandlerLine(c, arg)
  <2>4. \/ d = c
        \/ arg.ok /\ d = [c EXCEPT !.externalFirmwareHandlers = Append(@, h)]
    BY DEF ParseExternalFirmwareHandlerLine, HandlerOf
  <2> HIDE DEF h, d
  <2>5. ASSUME arg.ok, d = [c EXCEPT !.externalFirmwareHandlers = Append(@, h)]
        PROVE  ConfigRight(d)
    BY <2>3, <2>5, HandlerAdded
  <2>6. d = c => ConfigRight(d)
    OBVIOUS
  <2>7. ConfigRight(d)
    BY <2>4, <2>5, <2>6
  <2> QED BY <2>7 DEF d
<1>8. /\ ParseLine(c, "/sys/", arg) = ParsePermissionsLine(c, "sysfsPermissions", arg)
      /\ ParseLine(c, "/dev/", arg) = ParsePermissionsLine(c, "devPermissions", arg)
      /\ ParseLine(c, "firmware_directories", arg) = ParseFirmwareDirectoriesLine(c, arg)
      /\ ParseLine(c, "external_firmware_handler", arg) = ParseExternalFirmwareHandlerLine(c, arg)
  BY DEF ParseLine
<1>9. /\ ParseLine(c, "modalias_handling", arg) = ParseEnabledDisabledLine(c, "modaliasHandling", arg)
      /\ ParseLine(c, "parallel_ueventd_main_loop", arg)
           = ParseEnabledDisabledLine(c, "parallelMainLoop", arg)
      /\ ParseLine(c, "uevent_socket_rcvbuf_size", arg) = ParseSizeLine(c, "rcvbufSize", arg)
      /\ ParseLine(c, "parallel_ueventd_main_loop_max_workers", arg) = ParseSizeLine(c, "maxWorkers", arg)
  BY DEF ParseLine
<1> HIDE DEF arg
<1>10. word # "external_firmware_handler" => ConfigRight(ParseLine(c, word, arg))
  BY <1>1, <1>2, <1>3, <1>4, <1>5, <1>6, <1>8, <1>9
<1>11. ConfigRight(ParseLine(c, word, arg))
  BY <1>7, <1>8, <1>10
<1> QED BY <1>11 DEF word, arg

LEMMA EndSectionRight ==
  ASSUME ParserInv
  PROVE  ConfigRight(EndSection)
<1>1. CASE section \in {"subsystem", "driver"}
  <2>1. EndSection = [config EXCEPT ![section] = Append(@, subsystem)]
    BY <1>1 DEF EndSection
  <2>2. /\ ConfigRight(config) /\ subsystem \in Sections
        /\ ~IsDuplicate(config, section, subsystem.name)
    BY <1>1 DEF ParserInv
  <2> QED BY <1>1, <2>1, <2>2, SectionAdded
<1>2. CASE section \notin {"subsystem", "driver"}
  BY <1>2 DEF ParserInv, EndSection
<1> QED BY <1>1, <1>2

LEMMA NextLineRight ==
  ASSUME ParserInv, NextLine
  PROVE  /\ Head(lines) \in AnyLine /\ lines' \in Seq(AnyLine) /\ parsing = "lines"
BY HeadTailProperties DEF ParserInv, NextLine

LEMMA ParserKeeps ==
  ASSUME ParserInv, ParserStep
  PROVE  ParserInv'
<1> DEFINE line == Head(lines)
<1>1. /\ files \in FileSystems /\ todo \in Seq(Paths) /\ imports \in Seq(Paths)
      /\ lines \in Seq(AnyLine)
      /\ parsing \in {"next", "lines", "done"} /\ section \in SectionKeys \cup {"none"}
      /\ parsing # "lines" => lines = <<>> /\ section = "none" /\ imports = <<>>
      /\ subsystem \in Sections /\ ConfigRight(config) /\ ConfigRight(EndSection)
      /\ \A key \in {"subsystem", "driver"} : section = key => ~IsDuplicate(config, key, subsystem.name)
  BY EndSectionRight DEF ParserInv
<1>2. SectionKeys = {"import", "subsystem", "driver"}
  BY DEF SectionKeys
<1>3. CASE LineCallback
  <2>1. line \in AnyLine /\ lines' \in Seq(AnyLine) /\ parsing = "lines"
    BY <1>3, NextLineRight DEF LineCallback
  <2>2. ConfigRight(config') /\ section' = "none"
    BY <1>1, <1>3, <2>1, ParseLineRight DEF LineCallback
  <2>3. UNCHANGED <<files, todo, parsing, subsystem, imports>>
    BY <1>3 DEF LineCallback
  <2> QED BY <1>1, <2>1, <2>2, <2>3 DEF ParserInv
<1>4. CASE SectionStart
  <2>1. line \in AnyLine /\ lines' \in Seq(AnyLine) /\ parsing = "lines"
    BY <1>4, NextLineRight DEF SectionStart
  <2>2. /\ config' = EndSection /\ UNCHANGED <<files, todo, parsing>>
        /\ ParseSubsystemSection(line) \/ ParseImportSection(line)
    BY <1>4 DEF SectionStart
  <2>3. CASE ParseSubsystemSection(line)
    <3>1. CASE line.arg.ok /\ ~IsDuplicate(EndSection, line.key, line.arg.name)
      <4>1. /\ line.key \in {"subsystem", "driver"} /\ section' = line.key
            /\ subsystem' = DefaultSubsystem(line.arg.name) /\ imports' = imports
        BY <2>3, <3>1 DEF ParseSubsystemSection
      <4>2. subsystem' \in Sections /\ subsystem'.name = line.arg.name
        BY <2>1, <4>1 DEF DefaultSubsystem, Sections, DevnameSources
      <4>3. \A key \in {"subsystem", "driver"} :
              section' = key => ~IsDuplicate(config', key, subsystem'.name)
        BY <2>2, <3>1, <4>1, <4>2
      <4> QED BY <1>1, <1>2, <2>1, <2>2, <4>1, <4>2, <4>3 DEF ParserInv, IsDuplicate
    <3>2. CASE ~(line.arg.ok /\ ~IsDuplicate(EndSection, line.key, line.arg.name))
      <4>1. section' = "none" /\ subsystem' = subsystem /\ imports' = imports
        BY <2>3, <3>2 DEF ParseSubsystemSection
      <4> QED BY <1>1, <2>1, <2>2, <4>1 DEF ParserInv
    <3> QED BY <3>1, <3>2
  <2>4. CASE ParseImportSection(line)
    <3>1. CASE line.arg.ok
      <4>1. /\ line.key = "import" /\ section' = "import" /\ subsystem' = subsystem
            /\ imports' = Append(imports, line.arg.path)
        BY <2>4, <3>1 DEF ParseImportSection
      <4>2. line.arg.path \in Paths
        BY <2>1, <3>1, <4>1, FilesAssumption DEF AnyLine
      <4>3. imports' \in Seq(Paths)
        BY <1>1, <4>1, <4>2, AppendProperties
      <4> QED BY <1>1, <1>2, <2>1, <2>2, <4>1, <4>3 DEF ParserInv
    <3>2. CASE ~line.arg.ok
      <4>1. section' = "none" /\ subsystem' = subsystem /\ imports' = imports
        BY <2>4, <3>2 DEF ParseImportSection
      <4> QED BY <1>1, <2>1, <2>2, <4>1 DEF ParserInv
    <3> QED BY <3>1, <3>2
  <2> QED BY <2>2, <2>3, <2>4
<1>5. CASE SectionLine
  <2>1. lines' \in Seq(AnyLine) /\ parsing = "lines"
    BY <1>5, NextLineRight DEF SectionLine
  <2>2. /\ UNCHANGED <<files, todo, parsing, section, imports, config>>
        /\ subsystem' \in {subsystem, ParseOption(subsystem, line)}
    BY <1>5 DEF SectionLine
  <2>3. subsystem' \in Sections /\ subsystem'.name = subsystem.name
    <3>1. ASSUME NEW w \in DevnameSources
          PROVE  [subsystem EXCEPT !.devname = w] \in Sections
                 /\ [subsystem EXCEPT !.devname = w].name = subsystem.name
      BY <1>1 DEF Sections
    <3>2. ASSUME NEW w \in AbsoluteNames
          PROVE  [subsystem EXCEPT !.dirname = w] \in Sections
                 /\ [subsystem EXCEPT !.dirname = w].name = subsystem.name
      BY <1>1 DEF Sections
    <3> QED BY <1>1, <2>2, <3>1, <3>2 DEF ParseOption
  <2> QED BY <1>1, <2>1, <2>2, <2>3 DEF ParserInv, IsDuplicate
<1>6. CASE EndOfFile
  <2>1. /\ config' = EndSection /\ section' = "none" /\ todo' = imports \o todo /\ imports' = <<>>
        /\ parsing' = "next" /\ lines = <<>> /\ UNCHANGED <<files, lines, subsystem>>
    BY <1>6 DEF EndOfFile
  <2>2. todo' \in Seq(Paths) /\ imports' \in Seq(Paths)
    BY <1>1, <2>1, ConcatProperties, EmptySeq
  <2> QED BY <1>1, <2>1, <2>2 DEF ParserInv
<1>7. CASE OpenFile
  <2>1. /\ todo # <<>> /\ todo' = Tail(todo) /\ lines' = files[Head(todo)].lines /\ parsing' = "lines"
        /\ UNCHANGED <<files, section, subsystem, imports, config>>
    BY <1>7 DEF OpenFile
  <2>2. Head(todo) \in Paths /\ todo' \in Seq(Paths)
    BY <1>1, <2>1, HeadTailProperties
  <2> DEFINE p == Head(todo)
             L == files[p].lines
  <2>3. lines' = L /\ p \in Paths
    BY <2>1, <2>2
  <2> HIDE DEF p
  <2>4. L \in Seq(Range(L)) /\ Range(L) \in {Range(fs[q].lines) : fs \in FileSystems, q \in Paths}
    BY <1>1, <2>3, FilesAssumption
  <2>5. Range(L) \subseteq AnyLine
    BY <2>4 DEF AnyLine
  <2> HIDE DEF L
  <2>6. lines' \in Seq(AnyLine)
    BY <2>3, <2>4, <2>5, SeqMonotonic
  <2> QED BY <1>1, <2>1, <2>2, <2>6 DEF ParserInv
<1>8. CASE OpenDirectory
  <2>1. /\ todo # <<>> /\ todo' = SortedEntries(files[Head(todo)].entries) \o Tail(todo)
        /\ UNCHANGED <<files, parsing, lines, section, subsystem, imports, config>>
    BY <1>8 DEF OpenDirectory
  <2>2. Head(todo) \in Paths /\ Tail(todo) \in Seq(Paths)
    BY <1>1, <2>1, HeadTailProperties
  <2>3. todo' \in Seq(Paths)
    BY <1>1, <2>1, <2>2, EntriesInOrder, ConcatProperties
  <2> QED BY <1>1, <2>1, <2>3 DEF ParserInv
<1>9. CASE SkipMissing
  <2>1. /\ todo # <<>> /\ todo' = Tail(todo)
        /\ UNCHANGED <<files, parsing, lines, section, subsystem, imports, config>>
    BY <1>9 DEF SkipMissing
  <2>2. todo' \in Seq(Paths)
    BY <1>1, <2>1, HeadTailProperties
  <2> QED BY <1>1, <2>1, <2>2 DEF ParserInv
<1> QED BY <1>3, <1>4, <1>5, <1>6, <1>7, <1>8, <1>9 DEF ParserStep

-----------------------------------------------------------------------------
(* The types of the parser and of the firmware handler *)

NamedRight == \A p \in Servers : server[p].name \in Names \cup {None}

\* What a handler says is a name.
LEMMA PathsAreNames ==
  ASSUME handlers \in Seq(HandlerLines), NEW r \in Requests
  PROVE  FirmwarePaths(r) \subseteq Names
<1> DEFINE I == {i \in 1..Len(handlers) :
                   r \in PathsMatching[<<handlers[i].devpath, handlers[i].match>>]}
<1>1. HandlerFor(r) = IF I # {} THEN Min(I) ELSE 0
  BY DEF HandlerFor, SelectInSeq
<1>2. Firmware[r] \in Names /\ Provides \in [DOMAIN Provides -> Names]
  BY FirmwareAssumption
<1>3. ASSUME I # {} PROVE HandlerFor(r) \in I
  <2>1. I \in SUBSET Nat
    OBVIOUS
  <2>2. PICK d \in I : \A f \in I : d <= f
    BY <1>3, <2>1, SmallestExists
  <2>3. Min(I) \in I
    BY <2>2 DEF Min
  <2> HIDE DEF I
  <2> QED BY <1>1, <1>3, <2>3
<1>4. ASSUME NEW i \in I PROVE Provides[handlers[i].path] \in Names
  <2>1. handlers[i] \in HandlerLines
    BY <1>4
  <2>2. handlers[i].path \in DOMAIN Provides
    BY <2>1, HandlersAssumption DEF HandlerLines, HandlerOf, AnyLine
  <2> QED BY <1>2, <2>2
<1> HIDE DEF I
<1> QED BY <1>1, <1>2, <1>3, <1>4 DEF FirmwarePaths

LEMMA ServeNames ==
  ASSUME ServersRight, KernelRight, NamedRight, handlers \in Seq(HandlerLines),
         NEW p \in Servers, Serve(p)
  PROVE  server'[p].name \in Names \cup {None}
<1> DEFINE s == server[p]
<1>1. ServeEffect(p) /\ s.step \in Busy /\ s.request \in Requests
  BY ServeEffects DEF ServeEffect
<1>2. s.name \in Names \cup {None}
  BY DEF NamedRight
<1>3. CASE GetFirmwarePath(p)
  <2>1. PICK n \in FirmwarePaths(s.request) : server' = [server EXCEPT ![p].step = "open", ![p].name = n]
    BY <1>3 DEF GetFirmwarePath
  <2>2. server'[p] = Entry("open", s.request, n, s.source)
    BY <1>1, <2>1, EntryAfter
  <2>3. n \in Names
    BY <1>1, <2>1, PathsAreNames
  <2> QED BY <2>2, <2>3, EntryFields
<1>4. ASSUME NEW x, server' = [server EXCEPT ![p].step = x]
      PROVE  server'[p].name \in Names \cup {None}
  <2>1. server'[p] = Entry(x, s.request, s.name, s.source)
    BY <1>1, <1>4, EntryAfter
  <2> QED BY <1>2, <2>1, EntryFields
<1>5. ASSUME Leave(p) PROVE server'[p].name \in Names \cup {None}
  <2>1. server'[p] = IF p = Ueventd THEN Idle ELSE Exited
    BY <1>5 DEF Leave, ServersRight
  <2> QED BY <2>1 DEF Idle, Exited
<1>6. CASE OpenRequest(p)
  BY <1>4, <1>5, <1>6 DEF OpenRequest
<1>7. CASE Search(p)
  <2>1. CASE FirstWith(s.name) = 0
    <3>1. server' = [server EXCEPT ![p] = [s EXCEPT !.step = "abort"]]
      BY <1>7, <2>1 DEF Search
    <3>2. server'[p] = Entry("abort", s.request, s.name, s.source)
      BY <1>1, <3>1, EntryAfter
    <3> QED BY <1>2, <3>2, EntryFields
  <2>2. CASE FirstWith(s.name) # 0
    <3> DEFINE y == SearchedDirectories[FirstWith(s.name)]
    <3>1. server' = [server EXCEPT ![p] = [s EXCEPT !.step = "start", !.source = y]]
      BY <1>7, <2>2 DEF Search
    <3> HIDE DEF y
    <3>2. server'[p] = Entry("start", s.request, s.name, y)
      BY <1>1, <3>1, EntryAfter
    <3> QED BY <1>2, <3>2, EntryFields
  <2> QED BY <2>1, <2>2
<1>8. CASE StartTransfer(p)
  BY <1>4, <1>8 DEF StartTransfer
<1>9. CASE CopyWhole(p)
  BY <1>4, <1>9 DEF CopyWhole
<1>10. CASE CopyFails(p)
  BY <1>4, <1>10 DEF CopyFails
<1>11. CASE CopyShort(p)
  BY <1>4, <1>11 DEF CopyShort
<1>12. CASE Commit(p) \/ Abort(p)
  BY <1>5, <1>12 DEF Commit, Abort
<1> QED BY <1>3, <1>6, <1>7, <1>8, <1>9, <1>10, <1>11, <1>12 DEF Serve

RcInv == ParserInv /\ NamedRight /\ AnsweredInv

LEMMA InitParser == RcInit => ParserInv /\ NamedRight
<1> SUFFICES ASSUME RcInit PROVE ParserInv /\ NamedRight
  OBVIOUS
<1>1. /\ files \in FileSystems /\ todo = Configs /\ parsing = "next" /\ lines = <<>>
      /\ section = "none" /\ subsystem = DefaultSubsystem("") /\ imports = <<>>
      /\ config = DefaultConfig /\ server = [p \in Servers |-> Idle]
  BY DEF RcInit, ParserInit, FirmwareInit
<1>2. DefaultSubsystem("") \in Sections
  BY DEF DefaultSubsystem, Sections, DevnameSources
<1>3. todo \in Seq(Paths) /\ imports \in Seq(Paths) /\ lines \in Seq(AnyLine)
  BY <1>1, FilesAssumption, EmptySeq
<1>4. NamedRight
  BY <1>1 DEF NamedRight, Idle
<1>5. ConfigRight(config)
  BY <1>1, ConfigFields
<1> QED BY <1>1, <1>2, <1>3, <1>4, <1>5 DEF ParserInv

LEMMA NamesKeep ==
  ASSUME ParserInv, NamedRight, AnsweredInv, parsing = "done", FirmwareNext
  PROVE  NamedRight'
<1>1. ServersRight /\ KernelRight /\ FirmwareInv /\ HandlerRight
  BY DEF AnsweredInv, FirmwareInv
<1>2. handlers \in Seq(HandlerLines)
  <2>1. "externalFirmwareHandlers" \in DOMAIN config
    BY ConfigFields DEF ParserInv, ConfigRight
  <2> QED BY <1>1 DEF HandlerRight, ParserInv, ConfigRight
<1>3. CASE \E p \in Servers : Serve(p)
  <2>1. PICK p \in Servers : Serve(p)
    BY <1>3
  <2>2. ServeEffect(p)
    BY <1>1, <2>1, ServeEffects
  <2>3. \A q \in Servers \ {p} : server'[q] = server[q]
    BY <2>2 DEF ServeEffect
  <2>4. server'[p].name \in Names \cup {None}
    BY <1>1, <1>2, <2>1, ServeNames
  <2> QED BY <2>3, <2>4 DEF NamedRight
<1>4. ASSUME NEW c, server' = [server EXCEPT ![c] = Start(Head(uevents).request)] PROVE NamedRight'
  <2>1. server' = [q \in Servers |-> IF q = c THEN Start(Head(uevents).request) ELSE server[q]]
    BY <1>1, <1>4 DEF ServersRight
  <2>2. Start(Head(uevents).request).name = None
    BY DEF Start, Idle
  <2> QED BY <2>1, <2>2 DEF NamedRight
<1>5. CASE HandleUevent \/ Quit
  <2>1. ASSUME server' = server PROVE NamedRight'
    BY <2>1 DEF NamedRight
  <2>2. \/ server' = server
        \/ \E c \in Servers : server' = [server EXCEPT ![c] = Start(Head(uevents).request)]
    BY <1>5 DEF HandleUevent, WalkOver, IgnoreUevent, ForkChild, ForkFails, LoadModule, ModuleLoaded,
                Quit, Servers
  <2> QED BY <1>4, <2>1, <2>2
<1>6. CASE KernelStep
  <2>1. server' = server
    BY <1>6 DEF KernelStep, Ask, AnnounceAgain, ModuleWanted, TimeOut
  <2> QED BY <2>1 DEF NamedRight
<1> QED BY <1>3, <1>5, <1>6 DEF FirmwareNext

LEMMA RcInvariant == RcSpec => []RcInv
<1>1. RcInit => ParserInv /\ NamedRight
  BY InitParser
<1>2. ASSUME ParserInv, NamedRight, AnsweredInv, [RcNext]_rcVars
      PROVE  ParserInv' /\ NamedRight'
  <2>1. CASE ParserStep /\ UNCHANGED firmwareVars
    <3>1. ParserInv'
      BY <1>2, <2>1, ParserKeeps
    <3>2. server' = server
      BY <2>1 DEF firmwareVars
    <3> QED BY <1>2, <3>1, <3>2 DEF NamedRight
  <2>2. CASE ConstructHandler
    <3>1. /\ parsing = "next" /\ parsing' = "done" /\ server' = server
          /\ UNCHANGED <<files, todo, lines, section, subsystem, imports, config>>
      BY <2>2 DEF ConstructHandler, ConfigParsed, AllParsed
    <3>2. ParserInv'
      BY <1>2, <3>1 DEF ParserInv, IsDuplicate
    <3> QED BY <1>2, <3>1, <3>2 DEF NamedRight
  <2>3. ASSUME UNCHANGED parserVars PROVE ParserInv'
    BY <1>2, <2>3 DEF parserVars, ParserInv, IsDuplicate
  <2>4. CASE parsing = "done" /\ FirmwareNext /\ UNCHANGED parserVars
    BY <1>2, <2>3, <2>4, NamesKeep
  <2>5. CASE UNCHANGED rcVars
    <3>1. UNCHANGED parserVars /\ server' = server
      BY <2>5 DEF rcVars, firmwareVars
    <3> QED BY <1>2, <2>3, <3>1 DEF NamedRight
  <2> QED BY <1>2, <2>1, <2>2, <2>4, <2>5 DEF RcNext
<1> QED BY <1>1, <1>2, AnsweredInvariant, PTL DEF RcSpec, RcInv

\* Whatever the files say, no subsystem and no driver is in the configuration twice, neither
\* committed nor about to be; and whatever the handlers say, what is asked for is a name,
\* ueventd does not serve a request while it loads a module, never exits while it serves,
\* and quits with no request of its own left, nor a uevent of the cold boot.
THEOREM RcTypesOK == RcSpec => []RcTypeOK
<1>1. ASSUME RcInv, RunRight PROVE RcTypeOK
  <2>1. /\ ParserInv /\ NamedRight /\ KernelRight /\ ServersRight
    BY <1>1 DEF RcInv, AnsweredInv, FirmwareInv
  <2>2. ParserTypeOK
    <3>1. subsystem.devname \in DevnameSources
      BY <2>1 DEF ParserInv, Sections
    <3> QED BY <2>1, <3>1 DEF ParserInv, ParserTypeOK, ConfigRight, EachOnce
  <2>3. FirmwareTypeOK
    <3>1. \A p \in Servers : /\ server[p].step \in Steps
                             /\ server[p].request \in Requests \cup {None}
                             /\ server[p].name \in Names \cup {None}
      BY <2>1 DEF ServersRight, NamedRight, Server, Busy, Steps
    <3> QED BY <1>1, <2>1, <3>1 DEF FirmwareTypeOK, KernelRight, ServersRight, Stages, RunRight
  <2> QED BY <2>2, <2>3 DEF RcTypeOK
<1> QED BY RcInvariant, RunInvariant, <1>1, PTL

-----------------------------------------------------------------------------
(* What the files say: LinesOf is what its equation says *)

TextLine == AnyLine \cup {EndMark}

Texts == Listings(Paths, TextLine)

LEMMA AllOfGathered == \A f, s : AllOf(f, s) = Gathered(f, s)
BY DEF AllOf, Gathered

\* What the paths stand for depends only on what is said of these paths.
LEMMA AllOfSame ==
  ASSUME NEW f, NEW g, NEW s, \A i \in DOMAIN s : f[s[i]] = g[s[i]]
  PROVE  AllOf(f, s) = AllOf(g, s)
<1>1. [i \in DOMAIN s |-> f[s[i]]] = [i \in DOMAIN s |-> g[s[i]]]
  OBVIOUS
<1> QED BY <1>1 DEF AllOf

\* A line says something else than the mark of the end of a file.
LEMMA LinesSay ==
  /\ EndMark \in TextLine
  /\ \A l \in AnyLine : l \in TextLine
  /\ \A l \in TextLine : \A key : Says(l, key) /\ key # "end of file" => l \in AnyLine
  /\ \A l \in TextLine : Says(l, "import") => l.arg.path \in Paths
  /\ \A fs \in FileSystems, p \in Paths : fs[p].lines \in Seq(AnyLine) /\ fs[p].lines \in Seq(TextLine)
<1>1. /\ EndMark \in TextLine
      /\ \A l \in AnyLine : l \in TextLine
      /\ \A l \in TextLine : \A key : Says(l, key) /\ key # "end of file" => l \in AnyLine
  <2>1. EndMark.key = "end of file"
    BY DEF EndMark
  <2> QED BY <2>1 DEF TextLine, Says
<1>2. \A l \in TextLine : Says(l, "import") => l.arg.path \in Paths
  <2>1. SUFFICES ASSUME NEW l \in AnyLine, Says(l, "import") PROVE l.arg.path \in Paths
    BY <1>1
  <2> QED BY <2>1, FilesAssumption DEF AnyLine, Says
<1>3. ASSUME NEW fs \in FileSystems, NEW p \in Paths
      PROVE  fs[p].lines \in Seq(AnyLine) /\ fs[p].lines \in Seq(TextLine)
  <2> DEFINE L == fs[p].lines
  <2>1. L \in Seq(Range(L)) /\ Range(L) \subseteq AnyLine /\ AnyLine \subseteq TextLine
    BY FilesAssumption DEF AnyLine, TextLine
  <2> HIDE DEF L
  <2>2. L \in Seq(AnyLine)
    BY <2>1, SeqMonotonic
  <2>3. L \in Seq(TextLine)
    BY <2>1, <2>2, SeqMonotonic
  <2> QED BY <2>2, <2>3 DEF L
<1> QED BY <1>1, <1>2, <1>3

\* What a line imports.
ImportLine == [l \in TextLine |-> IF Says(l, "import") THEN <<l.arg.path>> ELSE <<>>]

\* The imports of lines are gathered line by line.
LEMMA ImportsGathered ==
  /\ ImportLine \in Listings(TextLine, Paths)
  /\ \A ls \in Seq(TextLine) : ImportsIn(ls) = Gathered(ImportLine, ls) /\ ImportsIn(ls) \in Seq(Paths)
<1>1. ImportLine \in Listings(TextLine, Paths)
  <2>1. \A l \in TextLine : ImportLine[l] \in Seq(Paths)
    <3> SUFFICES ASSUME NEW l \in TextLine PROVE ImportLine[l] \in Seq(Paths)
      OBVIOUS
    <3>1. CASE Says(l, "import")
      <4>1. ImportLine[l] = <<l.arg.path>> /\ l.arg.path \in Paths
        BY <3>1, LinesSay DEF ImportLine
      <4> QED BY <4>1
    <3>2. CASE ~Says(l, "import")
      <4>1. ImportLine[l] = <<>>
        BY <3>2 DEF ImportLine
      <4> QED BY <4>1, EmptySeq
    <3> QED BY <3>1, <3>2
  <2> QED BY <2>1 DEF Listings, ImportLine
<1>2. ASSUME NEW ls \in Seq(TextLine) PROVE ImportsIn(ls) = Gathered(ImportLine, ls)
  <2>1. \A i \in DOMAIN ls : ls[i] \in TextLine
    BY LenProperties, ElementOfSeq
  <2>2. [i \in DOMAIN ls |-> IF Says(ls[i], "import") THEN <<ls[i].arg.path>> ELSE <<>>]
          = [i \in DOMAIN ls |-> ImportLine[ls[i]]]
    BY <2>1 DEF ImportLine
  <2> QED BY <2>2 DEF ImportsIn, Gathered
<1>3. \A ls \in Seq(TextLine) : Gathered(ImportLine, ls) \in Seq(Paths)
  BY <1>1, GatheredType
<1> QED BY <1>1, <1>2, <1>3

Below(p) == {q \in Paths : ImportDepth[q] < ImportDepth[p]}

\* What a file imports and what a directory has is of lower depth.
LEMMA FollowedBelow ==
  ASSUME NEW fs \in FileSystems, NEW p \in Paths
  PROVE  /\ ImportsIn(fs[p].lines) \in Seq(Below(p))
         /\ SortedEntries(fs[p].entries) \in Seq(Below(p))
<1> DEFINE L == fs[p].lines
           A == Range(L)
           f == [l \in A |-> IF Says(l, "import") THEN <<l.arg.path>> ELSE <<>>]
           s == SortedEntries(fs[p].entries)
<1>1. ImportsIn(L) \in Seq(Below(p))
  <2>1. \A l \in A : Says(l, "import") => l.arg.path \in Below(p)
    <3>1. SUFFICES ASSUME NEW i \in DOMAIN L, Says(L[i], "import") PROVE L[i].arg.path \in Below(p)
      BY DEF Range
    <3>2. L[i] \in Range(L)
      BY DEF Range
    <3>3. L[i].arg.path \in Paths
      BY <3>1, <3>2, FilesAssumption DEF Says
    <3> QED BY <3>1, <3>3, ImportsAcyclic DEF Says, Below
  <2>2. \A l \in A : f[l] \in Seq(Below(p))
    BY <2>1, EmptySeq
  <2>3. f \in Listings(A, Below(p))
    BY <2>2 DEF Listings
  <2>4. L \in Seq(A)
    BY FilesAssumption
  <2>5. \A i \in DOMAIN L : L[i] \in A
    BY DEF Range
  <2>6. [i \in DOMAIN L |-> IF Says(L[i], "import") THEN <<L[i].arg.path>> ELSE <<>>]
          = [i \in DOMAIN L |-> f[L[i]]]
    BY <2>5
  <2> HIDE DEF f, L, A
  <2>7. Gathered(f, L) \in Seq(Below(p))
    BY <2>3, <2>4, GatheredType
  <2> QED BY <2>6, <2>7 DEF ImportsIn, Gathered
<1>2. s \in Seq(Below(p))
  <2>1. s \in Seq(Paths) /\ Range(s) = fs[p].entries
    BY EntriesInOrder
  <2>2. fs[p].entries \subseteq Below(p)
    BY FilesAssumption, ImportsAcyclic DEF Below
  <2>3. s \in Seq(Range(s)) /\ Range(s) \subseteq Below(p)
    BY <2>1, <2>2, SeqOfRange
  <2> HIDE DEF s
  <2> QED BY <2>3, SeqMonotonic
<1> QED BY <1>1, <1>2

\* The lines of a path depend on those of lower depth alone.
LEMMA LinesFromBelow ==
  ASSUME NEW fs \in FileSystems, NEW p \in Paths, NEW g, NEW h,
         \A q \in Below(p) : g[q] = h[q]
  PROVE  LinesFrom(fs, g, p) = LinesFrom(fs, h, p)
<1>1. \A s \in Seq(Below(p)) : AllOf(g, s) = AllOf(h, s)
  <2> SUFFICES ASSUME NEW s \in Seq(Below(p)) PROVE AllOf(g, s) = AllOf(h, s)
    OBVIOUS
  <2>1. \A i \in DOMAIN s : g[s[i]] = h[s[i]]
    BY LenProperties, ElementOfSeq
  <2> QED BY <2>1, AllOfSame
<1> QED BY <1>1, FollowedBelow DEF LinesFrom

\* What a path stands for is lines.
LEMMA LinesFromType ==
  ASSUME NEW fs \in FileSystems, NEW p \in Paths, NEW g, \A q \in Below(p) : g[q] \in Seq(TextLine)
  PROVE  LinesFrom(fs, g, p) \in Seq(TextLine)
<1> DEFINE f == [q \in Below(p) |-> g[q]]
<1>1. f \in Listings(Below(p), TextLine)
  BY DEF Listings
<1>2. \A s \in Seq(Below(p)) : AllOf(g, s) \in Seq(TextLine)
  <2> SUFFICES ASSUME NEW s \in Seq(Below(p)) PROVE AllOf(g, s) \in Seq(TextLine)
    OBVIOUS
  <2>1. \A i \in DOMAIN s : g[s[i]] = f[s[i]]
    BY LenProperties, ElementOfSeq
  <2>2. AllOf(g, s) = Gathered(f, s)
    BY <2>1, AllOfSame, AllOfGathered
  <2> HIDE DEF f
  <2> QED BY <1>1, <2>2, GatheredType
<1> HIDE DEF f
<1>3. /\ fs[p].kind \in {"file", "directory", "missing"}
      /\ fs[p].lines \in Seq(TextLine) /\ EndMark \in TextLine
  BY FilesAssumption, LinesSay
<1>4. Append(fs[p].lines, EndMark) \in Seq(TextLine)
  BY <1>3, AppendProperties
<1>5. /\ AllOf(g, ImportsIn(fs[p].lines)) \in Seq(TextLine)
      /\ AllOf(g, SortedEntries(fs[p].entries)) \in Seq(TextLine)
      /\ <<>> \in Seq(TextLine)
  BY <1>2, FollowedBelow, EmptySeq
<1>6. Append(fs[p].lines, EndMark) \o AllOf(g, ImportsIn(fs[p].lines)) \in Seq(TextLine)
  BY <1>4, <1>5, ConcatProperties
<1> QED BY <1>3, <1>5, <1>6 DEF LinesFrom

\* A text that is right up to a depth; two of them agree.
RightBelow(fs, g, n) == \A p \in Paths : ImportDepth[p] < n => g[p] = LinesFrom(fs, g, p)

\* Two functions that are right below a depth agree there.
LEMMA RightOnes ==
  ASSUME NEW fs \in FileSystems, NEW g, NEW h, NEW n \in Nat, RightBelow(fs, g, n), RightBelow(fs, h, n)
  PROVE  \A p \in Paths : ImportDepth[p] < n => g[p] = h[p] /\ g[p] \in Seq(TextLine)
<1> DEFINE V == {k \in Nat : k <= n => \A p \in Paths :
                   ImportDepth[p] < k => g[p] = h[p] /\ g[p] \in Seq(TextLine)}
<1>0. ImportDepth \in [Paths -> Nat]
  BY ImportsAcyclic
<1>1. 0 \in V
  BY <1>0
<1>2. ASSUME NEW k \in Nat, k \in V PROVE k + 1 \in V
  <2> SUFFICES ASSUME k + 1 <= n, NEW p \in Paths, ImportDepth[p] < k + 1
               PROVE  g[p] = h[p] /\ g[p] \in Seq(TextLine)
    OBVIOUS
  <2>1. \A q \in Below(p) : g[q] = h[q] /\ g[q] \in Seq(TextLine)
    <3>1. \A q \in Below(p) : q \in Paths /\ ImportDepth[q] < k
      BY <1>0 DEF Below
    <3>2. k <= n
      OBVIOUS
    <3> QED BY <1>2, <3>1, <3>2
  <2>2. ImportDepth[p] < n
    BY <1>0
  <2>3. g[p] = LinesFrom(fs, g, p) /\ h[p] = LinesFrom(fs, h, p)
    BY <2>2 DEF RightBelow
  <2>4. LinesFrom(fs, g, p) = LinesFrom(fs, h, p) /\ LinesFrom(fs, g, p) \in Seq(TextLine)
    BY <2>1, LinesFromBelow, LinesFromType
  <2> QED BY <2>3, <2>4
<1>3. Nat \subseteq V
  <2> HIDE DEF V
  <2> QED BY <1>1, <1>2, SetInduction
<1>4. n \in V
  BY <1>3
<1> QED BY <1>4

\* For every depth there is a function that is right below it.
LEMMA RightExists ==
  ASSUME NEW fs \in FileSystems
  PROVE  \A n \in Nat : \E g : RightBelow(fs, g, n)
<1> DEFINE V == {n \in Nat : \E g : RightBelow(fs, g, n)}
<1>0. ImportDepth \in [Paths -> Nat]
  BY ImportsAcyclic
<1>1. 0 \in V
  BY <1>0 DEF RightBelow
<1>2. ASSUME NEW n \in Nat, n \in V PROVE n + 1 \in V
  <2>1. PICK g : RightBelow(fs, g, n)
    BY <1>2
  <2> DEFINE h == [p \in Paths |-> IF ImportDepth[p] < n THEN g[p] ELSE LinesFrom(fs, g, p)]
  <2>2. \A p \in Paths : h[p] = LinesFrom(fs, g, p)
    BY <2>1 DEF RightBelow
  <2>3. \A q \in Paths : ImportDepth[q] < n => h[q] = g[q]
    OBVIOUS
  <2> HIDE DEF h
  <2>4. ASSUME NEW p \in Paths, ImportDepth[p] < n + 1 PROVE h[p] = LinesFrom(fs, h, p)
    <3>1. \A q \in Below(p) : q \in Paths /\ ImportDepth[q] < n
      BY <1>0, <2>4 DEF Below
    <3>2. \A q \in Below(p) : h[q] = g[q]
      BY <2>3, <3>1
    <3>3. LinesFrom(fs, h, p) = LinesFrom(fs, g, p)
      BY <3>2, LinesFromBelow
    <3> QED BY <2>2, <3>3
  <2>5. RightBelow(fs, h, n + 1)
    BY <2>4 DEF RightBelow
  <2> QED BY <2>5
<1>3. Nat \subseteq V
  <2> HIDE DEF V
  <2> QED BY <1>1, <1>2, SetInduction
<1> QED BY <1>3

\* Because imports do not form cycles, the lines of every path are what LinesFrom says.
LEMMA LinesOfEquation ==
  ASSUME NEW fs \in FileSystems
  PROVE  /\ LinesOf(fs) \in Texts
         /\ \A p \in Paths : LinesOf(fs)[p] = LinesFrom(fs, LinesOf(fs), p)
<1> DEFINE Solution(g) == g = [p \in Paths |-> LinesFrom(fs, g, p)]
           G(n) == CHOOSE g : RightBelow(fs, g, n)
           all == [p \in Paths |-> G(ImportDepth[p] + 1)[p]]
           text == CHOOSE g : Solution(g)
<1>0. ImportDepth \in [Paths -> Nat]
  BY ImportsAcyclic
<1>1. \A n \in Nat : RightBelow(fs, G(n), n)
  BY RightExists
<1> HIDE DEF G
<1>2. ASSUME NEW p \in Paths PROVE all[p] = LinesFrom(fs, all, p)
  <2> DEFINE n == ImportDepth[p] + 1
             g == G(n)
  <2>1. n \in Nat /\ ImportDepth[p] < n
    BY <1>0
  <2>2. all[p] = g[p] /\ RightBelow(fs, g, n)
    BY <1>1, <2>1
  <2>3. ASSUME NEW q \in Below(p) PROVE all[q] = g[q]
    <3> DEFINE m == ImportDepth[q] + 1
               h == G(m)
    <3>1. q \in Paths /\ m \in Nat /\ m <= n /\ ImportDepth[q] < m
      BY <1>0 DEF Below
    <3>2. all[q] = h[q] /\ RightBelow(fs, h, m)
      BY <1>1, <3>1
    <3>3. RightBelow(fs, g, m)
      BY <1>0, <2>1, <2>2, <3>1 DEF RightBelow
    <3> HIDE DEF h, m, g
    <3>4. h[q] = g[q]
      BY <3>1, <3>2, <3>3, RightOnes
    <3> QED BY <3>2, <3>4
  <2>4. g[p] = LinesFrom(fs, g, p)
    BY <2>1, <2>2 DEF RightBelow
  <2> HIDE DEF g, all
  <2>5. LinesFrom(fs, g, p) = LinesFrom(fs, all, p)
    BY <2>3, LinesFromBelow
  <2> QED BY <2>2, <2>4, <2>5
<1>3. Solution(all)
  <2>1. all = [p \in Paths |-> all[p]]
    OBVIOUS
  <2> HIDE DEF all
  <2> QED BY <1>2, <2>1
<1> HIDE DEF all
<1>4. Solution(text)
  <2> HIDE DEF Solution
  <2> QED BY <1>3
<1>5. LinesOf(fs) = text
  BY DEF LinesOf
<1>6. text = [p \in Paths |-> text[p]] /\ \A p \in Paths : text[p] = LinesFrom(fs, text, p)
  <2> HIDE DEF text
  <2> QED BY <1>4
<1> HIDE DEF text
<1>7. ASSUME NEW p \in Paths PROVE text[p] \in Seq(TextLine)
  <2> DEFINE n == ImportDepth[p] + 1
  <2>1. n \in Nat /\ ImportDepth[p] < n
    BY <1>0
  <2>2. RightBelow(fs, text, n)
    BY <1>6 DEF RightBelow
  <2> HIDE DEF n
  <2> QED BY <2>1, <2>2, RightOnes
<1>8. text \in Texts
  BY <1>6, <1>7 DEF Texts, Listings
<1> QED BY <1>5, <1>6, <1>8

\* The line goes to the parser that is registered for its word, and to no other.
LEMMA CallbackOfKey ==
  ASSUME NEW key
  PROVE  /\ CallbackFor(key) # 0 => key \in Range(LineCallbacks) /\ LineCallbacks[CallbackFor(key)] = key
         /\ CallbackFor(key) = 0 => key \notin Range(LineCallbacks)
<1> DEFINE I == {i \in 1..Len(LineCallbacks) : StartsWith(key, LineCallbacks[i])}
<1>1. CallbackFor(key) = IF I # {} THEN Min(I) ELSE 0
  BY DEF CallbackFor, SelectInSeq
<1>2. ASSUME I # {} PROVE Min(I) \in I /\ \A i \in I : Min(I) <= i
  <2>1. I \in SUBSET Nat
    OBVIOUS
  <2>2. PICK d \in I : \A f \in I : d <= f
    BY <1>2, <2>1, SmallestExists
  <2> HIDE DEF I
  <2> QED BY <2>2 DEF Min
<1>3. /\ Len(LineCallbacks) = 8 /\ DOMAIN LineCallbacks = 1..8
      /\ LineCallbacks[7] = "parallel_ueventd_main_loop_max_workers"
      /\ \A i \in 1..8 : LineCallbacks[i] = "parallel_ueventd_main_loop" => i = 8
  BY DEF LineCallbacks
<1>4. CASE I # {}
  <2> DEFINE m == Min(I)
  <2>1. m \in 1..8 /\ StartsWith(key, LineCallbacks[m]) /\ \A i \in I : m <= i
    BY <1>2, <1>3, <1>4
  <2>2. key = "parallel_ueventd_main_loop_max_workers" => 7 \in I
    BY <1>3 DEF StartsWith
  <2>3. CallbackFor(key) = m
    BY <1>1, <1>4
  <2> HIDE DEF m, I
  <2>4. LineCallbacks[m] = key
    BY <1>3, <2>1, <2>2 DEF StartsWith
  <2> QED BY <1>3, <2>1, <2>3, <2>4 DEF Range
<1>5. CASE I = {}
  <2>1. \A i \in 1..8 : LineCallbacks[i] # key
    BY <1>3, <1>5 DEF StartsWith
  <2> QED BY <1>1, <1>3, <1>5, <2>1 DEF Range
<1> QED BY <1>4, <1>5

\* The words of sections, of options and of the mark belong to no parser of single lines.
LEMMA OtherKeys ==
  \A key \in SectionKeys \cup {EndMark.key, "devname", "dirname"} : key \notin Range(LineCallbacks)
<1>1. /\ DOMAIN LineCallbacks = 1..8
      /\ \A i \in 1..8 : LineCallbacks[i] \in
           {"/sys/", "/dev/", "firmware_directories", "external_firmware_handler",
            "modalias_handling", "uevent_socket_rcvbuf_size",
            "parallel_ueventd_main_loop_max_workers", "parallel_ueventd_main_loop"}
  BY DEF LineCallbacks
<1>2. EndMark.key = "end of file"
  BY DEF EndMark
<1> QED BY <1>1, <1>2 DEF Range, SectionKeys

-----------------------------------------------------------------------------
(* What has been read and what is still to read *)

AfterFile(fs, ps) == <<EndMark>> \o AllOf(LinesOf(fs), ps)

StillToRead ==
  IF parsing = "lines" THEN lines \o AfterFile(files, (imports \o ImportsIn(lines)) \o todo)
  ELSE AllOf(LinesOf(files), todo)

\* Lines and paths are put together in any order of the joints.
LEMMA TextParts == \A x, y, z \in Seq(TextLine) : (x \o y) \o z = x \o (y \o z)
BY ThreeParts

LEMMA PathParts == \A x, y, z \in Seq(Paths) : (x \o y) \o z = x \o (y \o z)
BY ThreeParts

\* What paths stand for is what the first stands for, then what the others stand for.
LEMMA PathsSay ==
  ASSUME NEW fs \in FileSystems
  PROVE  LET T == LinesOf(fs) IN
         /\ \A s \in Seq(Paths) : AllOf(T, s) \in Seq(TextLine)
         /\ AllOf(T, <<>>) = <<>>
         /\ \A s, t \in Seq(Paths) : AllOf(T, s \o t) = AllOf(T, s) \o AllOf(T, t)
         /\ \A s \in Seq(Paths) :
              s # <<>> => AllOf(T, s) = LinesFrom(fs, T, Head(s)) \o AllOf(T, Tail(s))
<1> DEFINE T == LinesOf(fs)
<1>1. T \in Listings(Paths, TextLine) /\ \A p \in Paths : T[p] = LinesFrom(fs, T, p)
  BY LinesOfEquation DEF Texts
<1> HIDE DEF T
<1>2. \A s \in Seq(Paths) : AllOf(T, s) \in Seq(TextLine)
  BY <1>1, GatheredType, AllOfGathered
<1>3. \A s, t \in Seq(Paths) : AllOf(T, s \o t) = AllOf(T, s) \o AllOf(T, t)
  <2>1. \A s, t \in Seq(Paths) : Joins(T, s, t)
    BY <1>1, GatheredConcat
  <2> QED BY <2>1, AllOfGathered DEF Joins
<1>4. ASSUME NEW s \in Seq(Paths), s # <<>>
      PROVE  AllOf(T, s) = LinesFrom(fs, T, Head(s)) \o AllOf(T, Tail(s))
  <2> DEFINE h == Head(s)
             t == Tail(s)
  <2>1. s = <<h>> \o t /\ <<h>> \in Seq(Paths) /\ h \in Paths /\ t \in Seq(Paths)
    BY <1>4, HeadAndTail, HeadTailProperties
  <2> HIDE DEF h, t
  <2>2. AllOf(T, <<h>> \o t) = AllOf(T, <<h>>) \o AllOf(T, t)
    BY <1>3, <2>1
  <2>3. Gathered(T, <<h>>) = T[h]
    BY <1>1, <2>1, GatheredOne
  <2>4. AllOf(T, <<h>>) = LinesFrom(fs, T, h)
    BY <1>1, <2>1, <2>3, AllOfGathered
  <2>5. AllOf(T, s) = LinesFrom(fs, T, h) \o AllOf(T, t)
    BY <2>1, <2>2, <2>4
  <2> QED BY <2>5 DEF h, t
<1>5. AllOf(T, <<>>) = <<>>
  BY AllOfGathered, GatheredEmpty
<1> QED BY <1>2, <1>3, <1>4, <1>5 DEF T

\* The imports of lines are that of the first, then those of the others.
LEMMA ImportsNext ==
  /\ ImportsIn(<<>>) = <<>>
  /\ \A ls \in Seq(TextLine) : ls # <<>> =>
       ImportsIn(ls) = (IF Says(Head(ls), "import") THEN <<Head(ls).arg.path>> ELSE <<>>)
                         \o ImportsIn(Tail(ls))
<1>1. ImportsIn(<<>>) = <<>>
  BY ImportsGathered, GatheredEmpty, EmptySeq
<1>2. ASSUME NEW ls \in Seq(TextLine), ls # <<>>
      PROVE  ImportsIn(ls) = (IF Says(Head(ls), "import") THEN <<Head(ls).arg.path>> ELSE <<>>)
                               \o ImportsIn(Tail(ls))
  <2> DEFINE h == Head(ls)
             t == Tail(ls)
  <2>1. ls = <<h>> \o t /\ <<h>> \in Seq(TextLine) /\ h \in TextLine /\ t \in Seq(TextLine)
    BY <1>2, HeadAndTail, HeadTailProperties
  <2> HIDE DEF h, t
  <2>2. Joins(ImportLine, <<h>>, t)
    BY <2>1, ImportsGathered, GatheredConcat
  <2>3. Gathered(ImportLine, <<h>>) = ImportLine[h]
    BY <2>1, ImportsGathered, GatheredOne
  <2>4. ImportsIn(ls) = Gathered(ImportLine, <<h>> \o t) /\ ImportsIn(t) = Gathered(ImportLine, t)
    BY <2>1, ImportsGathered
  <2>5. ImportLine[h] = IF Says(h, "import") THEN <<h.arg.path>> ELSE <<>>
    BY <2>1 DEF ImportLine
  <2>6. ImportsIn(ls) = (IF Says(h, "import") THEN <<h.arg.path>> ELSE <<>>) \o ImportsIn(t)
    BY <2>2, <2>3, <2>4, <2>5 DEF Joins
  <2> QED BY <2>6 DEF h, t
<1> QED BY <1>1, <1>2

\* A file that begins, and one that ends.
LEMMA AfterFileParts ==
  ASSUME NEW fs \in FileSystems, NEW L \in Seq(TextLine),
         NEW i \in Seq(Paths), NEW t \in Seq(Paths)
  PROVE  /\ AfterFile(fs, t) \in Seq(TextLine)
         /\ (Append(L, EndMark) \o AllOf(LinesOf(fs), i)) \o AllOf(LinesOf(fs), t)
              = L \o AfterFile(fs, i \o t)
<1> DEFINE T == LinesOf(fs)
           m == <<EndMark>>
           x == AllOf(T, i)
           y == AllOf(T, t)
<1>1. /\ m \in Seq(TextLine) /\ x \in Seq(TextLine) /\ y \in Seq(TextLine)
      /\ AllOf(T, i \o t) = x \o y
      /\ Append(L, EndMark) = L \o m
  <2>1. EndMark \in TextLine
    BY LinesSay
  <2>2. m \in Seq(TextLine) /\ Append(L, EndMark) = L \o m
    BY <2>1, AppendIsConcat
  <2>3. x \in Seq(TextLine) /\ y \in Seq(TextLine) /\ AllOf(T, i \o t) = x \o y
    BY PathsSay
  <2> QED BY <2>2, <2>3
<1>2. AfterFile(fs, t) = m \o y /\ AfterFile(fs, i \o t) = m \o (x \o y)
  BY <1>1 DEF AfterFile
<1> HIDE DEF m, x, y
<1>3. /\ m \o y \in Seq(TextLine) /\ m \o x \in Seq(TextLine) /\ x \o y \in Seq(TextLine)
      /\ L \o m \in Seq(TextLine)
  BY <1>1, ConcatProperties
<1>4. (L \o m) \o x = L \o (m \o x) /\ (m \o x) \o y = m \o (x \o y)
  BY <1>1, TextParts
<1>5. (L \o (m \o x)) \o y = L \o ((m \o x) \o y)
  <2> DEFINE w == m \o x
  <2>1. w \in Seq(TextLine)
    BY <1>3
  <2> HIDE DEF w
  <2>2. (L \o w) \o y = L \o (w \o y)
    BY <1>1, <2>1, TextParts
  <2> QED BY <2>2 DEF w
<1> QED BY <1>1, <1>2, <1>3, <1>4, <1>5 DEF x, y

\* What is still to read is lines.
LEMMA StillToReadType == ParserInv => StillToRead \in Seq(TextLine)
<1> SUFFICES ASSUME ParserInv PROVE StillToRead \in Seq(TextLine)
  OBVIOUS
<1>1. /\ files \in FileSystems /\ todo \in Seq(Paths) /\ imports \in Seq(Paths)
      /\ lines \in Seq(AnyLine) /\ AnyLine \subseteq TextLine
  BY DEF ParserInv, TextLine
<1>2. lines \in Seq(TextLine)
  BY <1>1, SeqMonotonic
<1>3. ImportsIn(lines) \in Seq(Paths)
  BY <1>2, ImportsGathered
<1>4. (imports \o ImportsIn(lines)) \o todo \in Seq(Paths)
  BY <1>1, <1>3, ConcatProperties
<1>5. AfterFile(files, (imports \o ImportsIn(lines)) \o todo) \in Seq(TextLine)
  BY <1>1, <1>2, <1>4, AfterFileParts
<1>6. lines \o AfterFile(files, (imports \o ImportsIn(lines)) \o todo) \in Seq(TextLine)
  BY <1>2, <1>5, ConcatProperties
<1>7. AllOf(LinesOf(files), todo) \in Seq(TextLine)
  BY <1>1, PathsSay
<1> QED BY <1>6, <1>7 DEF StillToRead

\* A line is read: one of a file, or the mark of its end.
LEMMA LineRead ==
  ASSUME ParserInv, LineCallback \/ SectionStart \/ SectionLine
  PROVE  /\ Head(lines) \in AnyLine
         /\ StillToRead = <<Head(lines)>> \o StillToRead'
<1> DEFINE line == Head(lines)
           rest == Tail(lines)
           more == ImportsIn(rest)
<1>1. /\ files \in FileSystems /\ todo \in Seq(Paths) /\ imports \in Seq(Paths)
      /\ lines \in Seq(AnyLine) /\ lines \in Seq(TextLine)
  BY SeqMonotonic DEF ParserInv, TextLine
<1>2. /\ parsing = "lines" /\ parsing' = "lines" /\ lines # <<>> /\ lines' = rest
      /\ files' = files /\ todo' = todo
  BY DEF LineCallback, SectionStart, SectionLine, NextLine
<1>3. /\ line \in AnyLine /\ line \in TextLine /\ rest \in Seq(TextLine)
      /\ lines = <<line>> \o rest /\ <<line>> \in Seq(TextLine)
  BY <1>1, <1>2, HeadTailProperties, HeadAndTail
<1>4. more \in Seq(Paths)
  BY <1>3, ImportsGathered
<1>5. imports \o ImportsIn(lines) = imports' \o more
  <2>1. ImportsIn(lines) = (IF Says(line, "import") THEN <<line.arg.path>> ELSE <<>>) \o more
    BY <1>1, <1>2, ImportsNext
  <2> HIDE DEF more
  <2>2. CASE Says(line, "import")
    <3>1. CASE SectionStart
      <4>1. imports' = Append(imports, line.arg.path)
        BY <2>2, <3>1 DEF SectionStart, ParseImportSection, ParseSubsystemSection, Says
      <4>2. line.arg.path \in Paths
        BY <1>3, <2>2, LinesSay
      <4>3. imports' = imports \o <<line.arg.path>> /\ <<line.arg.path>> \in Seq(Paths)
        BY <1>1, <4>1, <4>2, AppendIsConcat
      <4> DEFINE one == <<line.arg.path>>
      <4> HIDE DEF one
      <4>4. ImportsIn(lines) = one \o more /\ imports' = imports \o one /\ one \in Seq(Paths)
        BY <2>1, <2>2, <4>3 DEF one
      <4>5. (imports \o one) \o more = imports \o (one \o more)
        BY <1>1, <1>4, <4>4, PathParts
      <4> QED BY <4>4, <4>5
    <3>2. CASE LineCallback
      <4>1. CallbackFor(line.key) # 0 /\ line.key = "import"
        BY <2>2, <3>2 DEF LineCallback, Says
      <4> QED BY <4>1, CallbackOfKey, OtherKeys DEF SectionKeys
    <3>3. CASE SectionLine
      BY <2>2, <3>3 DEF SectionLine, SectionKeys, Says
    <3> QED BY <3>1, <3>2, <3>3
  <2>3. CASE ~Says(line, "import")
    <3>1. imports' = imports
      BY <2>3 DEF LineCallback, SectionLine, SectionStart, ParseImportSection, ParseSubsystemSection,
                  Says
    <3>2. ImportsIn(lines) = more
      BY <1>4, <2>1, <2>3, ConcatEmptySeq
    <3> QED BY <3>1, <3>2
  <2> QED BY <2>2, <2>3
<1> DEFINE after == AfterFile(files, (imports' \o more) \o todo)
<1>6. StillToRead = lines \o after /\ StillToRead' = rest \o after
  BY <1>2, <1>5 DEF StillToRead
<1>7. after \in Seq(TextLine)
  <2>1. imports \o ImportsIn(lines) \in Seq(Paths)
    BY <1>1, ImportsGathered, ConcatProperties
  <2>2. (imports' \o more) \o todo \in Seq(Paths)
    BY <1>1, <1>5, <2>1, ConcatProperties
  <2> QED BY <1>1, <1>3, <2>2, AfterFileParts
<1> HIDE DEF after, rest, line
<1>8. (<<line>> \o rest) \o after = <<line>> \o (rest \o after)
  BY <1>3, <1>7, TextParts
<1> QED BY <1>3, <1>6, <1>8 DEF line

\* The end of a file is read.
LEMMA EndMarkRead ==
  ASSUME ParserInv, EndOfFile
  PROVE  StillToRead = <<EndMark>> \o StillToRead'
<1>1. /\ files \in FileSystems /\ todo \in Seq(Paths) /\ imports \in Seq(Paths)
  BY DEF ParserInv
<1>2. /\ parsing = "lines" /\ parsing' = "next" /\ lines = <<>> /\ lines' = <<>>
      /\ files' = files /\ todo' = imports \o todo
  BY DEF EndOfFile
<1>3. imports \o ImportsIn(lines) = imports
  BY <1>1, <1>2, ImportsNext, ConcatEmptySeq
<1>4. StillToRead = <<>> \o AfterFile(files, imports \o todo)
  BY <1>2, <1>3 DEF StillToRead
<1>5. AfterFile(files, imports \o todo) \in Seq(TextLine)
  <2>1. imports \o todo \in Seq(Paths) /\ <<>> \in Seq(TextLine)
    BY <1>1, ConcatProperties, EmptySeq
  <2> QED BY <1>1, <2>1, AfterFileParts
<1>6. StillToRead = AfterFile(files, imports \o todo)
  BY <1>4, <1>5, ConcatEmptySeq
<1> QED BY <1>2, <1>6 DEF AfterFile, StillToRead

\* What a path stands for takes its place.
LEMMA PathOpened ==
  ASSUME ParserInv, OpenFile \/ OpenDirectory \/ SkipMissing
  PROVE  StillToRead = StillToRead'
<1> DEFINE p == Head(todo)
           rest == Tail(todo)
           T == LinesOf(files)
           L == files[p].lines
           es == SortedEntries(files[p].entries)
           is == ImportsIn(L)
<1>1. /\ files \in FileSystems /\ todo \in Seq(Paths)
      /\ parsing # "lines" => lines = <<>> /\ section = "none" /\ imports = <<>>
  BY DEF ParserInv
<1>2. parsing = "next" /\ todo # <<>> /\ files' = files /\ imports' = imports
  BY DEF OpenFile, OpenDirectory, SkipMissing
<1>3. p \in Paths /\ rest \in Seq(Paths)
  BY <1>1, <1>2, HeadTailProperties
<1>4. StillToRead = LinesFrom(files, T, p) \o AllOf(T, rest)
  BY <1>1, <1>2, PathsSay DEF StillToRead
<1>5. AllOf(T, rest) \in Seq(TextLine)
  BY <1>1, <1>3, PathsSay
<1>6. CASE OpenFile
  <2>1. /\ files[p].kind = "file" /\ todo' = rest /\ lines' = L /\ parsing' = "lines"
        /\ imports' = <<>>
    BY <1>1, <1>2, <1>6 DEF OpenFile
  <2>2. L \in Seq(TextLine) /\ is \in Seq(Paths)
    BY <1>1, <1>3, LinesSay, ImportsGathered
  <2>3. <<>> \o is = is
    BY <2>2, ConcatEmptySeq
  <2>4. LinesFrom(files, T, p) = Append(L, EndMark) \o AllOf(T, is)
    BY <2>1 DEF LinesFrom
  <2>5. (Append(L, EndMark) \o AllOf(T, is)) \o AllOf(T, rest) = L \o AfterFile(files, is \o rest)
    BY <1>1, <1>3, <2>2, AfterFileParts
  <2>6. StillToRead' = L \o AfterFile(files, (<<>> \o is) \o rest)
    BY <1>2, <2>1 DEF StillToRead
  <2> HIDE DEF T, is, L, rest, p
  <2> QED BY <1>4, <2>3, <2>4, <2>5, <2>6
<1>7. CASE OpenDirectory
  <2>1. files[p].kind = "directory" /\ todo' = es \o rest /\ parsing' = "next"
    BY <1>2, <1>7 DEF OpenDirectory
  <2>2. es \in Seq(Paths)
    BY <1>1, <1>3, EntriesInOrder
  <2>3. LinesFrom(files, T, p) = AllOf(T, es)
    BY <2>1 DEF LinesFrom
  <2>4. AllOf(T, es \o rest) = AllOf(T, es) \o AllOf(T, rest)
    BY <1>1, <1>3, <2>2, PathsSay
  <2>5. StillToRead' = AllOf(T, es \o rest)
    BY <1>2, <2>1 DEF StillToRead
  <2> HIDE DEF T, es, rest, p
  <2> QED BY <1>4, <2>3, <2>4, <2>5
<1>8. CASE SkipMissing
  <2>1. files[p].kind = "missing" /\ todo' = rest /\ parsing' = "next"
    BY <1>2, <1>8 DEF SkipMissing
  <2>2. LinesFrom(files, T, p) = <<>>
    BY <2>1 DEF LinesFrom
  <2>3. StillToRead' = AllOf(T, rest)
    BY <1>2, <2>1 DEF StillToRead
  <2> HIDE DEF T, rest, p
  <2> QED BY <1>4, <1>5, <2>2, <2>3, ConcatEmptySeq
<1> QED BY <1>6, <1>7, <1>8

-----------------------------------------------------------------------------
(* What one line more says *)

\* The rules and the directories that lines may have.
AnyRule == {l.arg.rule : l \in TextLine}
AnyDirectory ==
  UNION {Range(l.arg.directories) : l \in {m \in TextLine : Says(m, "firmware_directories")}}

RuleLine(key) == [l \in TextLine |-> IF Says(l, key) THEN <<l.arg.rule>> ELSE <<>>]
DirectoryLine ==
  [l \in TextLine |-> IF Says(l, "firmware_directories") THEN l.arg.directories ELSE <<>>]

\* One line more adds its rule at the end.
LEMMA RulesMore ==
  ASSUME NEW key
  PROVE  /\ Rules(<<>>, key) = <<>>
         /\ \A text \in Seq(TextLine) : \A l \in TextLine :
              Rules(Append(text, l), key) =
                IF Says(l, key) THEN Append(Rules(text, key), l.arg.rule) ELSE Rules(text, key)
<1> DEFINE f == RuleLine(key)
<1>1. f \in Listings(TextLine, AnyRule)
  <2>1. ASSUME NEW l \in TextLine PROVE f[l] \in Seq(AnyRule)
    <3>1. CASE Says(l, key)
      <4>1. f[l] = <<l.arg.rule>> /\ l.arg.rule \in AnyRule
        BY <3>1 DEF RuleLine, AnyRule
      <4> QED BY <4>1
    <3>2. CASE ~Says(l, key)
      <4>1. f[l] = <<>>
        BY <3>2 DEF RuleLine
      <4> QED BY <4>1, EmptySeq
    <3> QED BY <3>1, <3>2
  <2> QED BY <2>1 DEF Listings, RuleLine
<1>2. \A text \in Seq(TextLine) : Rules(text, key) = Gathered(f, text)
  <2> SUFFICES ASSUME NEW text \in Seq(TextLine) PROVE Rules(text, key) = Gathered(f, text)
    OBVIOUS
  <2>1. \A i \in DOMAIN text : text[i] \in TextLine
    BY LenProperties, ElementOfSeq
  <2>2. [i \in DOMAIN text |-> IF Says(text[i], key) THEN <<text[i].arg.rule>> ELSE <<>>]
          = [i \in DOMAIN text |-> f[text[i]]]
    BY <2>1 DEF RuleLine
  <2> QED BY <2>2 DEF Rules, Gathered
<1> HIDE DEF f
<1>3. ASSUME NEW text \in Seq(TextLine), NEW l \in TextLine
      PROVE  Rules(Append(text, l), key) =
                IF Says(l, key) THEN Append(Rules(text, key), l.arg.rule) ELSE Rules(text, key)
  <2> DEFINE r == Rules(text, key)
             e == l.arg.rule
  <2>1. Append(text, l) \in Seq(TextLine)
    BY AppendProperties
  <2>2. Rules(Append(text, l), key) = r \o f[l] /\ r \in Seq(AnyRule)
    <3>1. /\ Gathered(f, Append(text, l)) = Gathered(f, text) \o f[l]
          /\ Gathered(f, text) \in Seq(AnyRule)
      BY <1>1, GatheredAppend
    <3> QED BY <1>2, <2>1, <3>1
  <2>3. CASE Says(l, key)
    <3>1. f[l] = <<e>> /\ e \in AnyRule
      BY <2>3 DEF f, RuleLine, AnyRule
    <3> HIDE DEF r, e
    <3>2. Append(r, e) = r \o <<e>>
      BY <2>2, <3>1, AppendIsConcat
    <3>3. Rules(Append(text, l), key) = Append(r, e)
      BY <2>2, <3>1, <3>2
    <3> QED BY <2>3, <3>3 DEF r, e
  <2>4. CASE ~Says(l, key)
    <3>1. f[l] = <<>>
      BY <2>4 DEF f, RuleLine
    <3> HIDE DEF r
    <3>2. Rules(Append(text, l), key) = r
      BY <2>2, <3>1, ConcatEmptySeq
    <3> QED BY <2>4, <3>2 DEF r
  <2> QED BY <2>3, <2>4
<1>4. Rules(<<>>, key) = <<>>
  BY <1>2, GatheredEmpty, EmptySeq
<1> QED BY <1>3, <1>4

\* One line more adds its directories at the end.
LEMMA DirectoriesMore ==
  /\ FirmwareDirectories(<<>>) = <<>>
  /\ \A text \in Seq(TextLine) : \A l \in TextLine :
       FirmwareDirectories(Append(text, l)) =
         IF Says(l, "firmware_directories") THEN FirmwareDirectories(text) \o l.arg.directories
         ELSE FirmwareDirectories(text)
<1> DEFINE f == DirectoryLine
           key == "firmware_directories"
<1>1. f \in Listings(TextLine, AnyDirectory)
  <2>1. ASSUME NEW l \in TextLine PROVE f[l] \in Seq(AnyDirectory)
    <3>1. CASE Says(l, key)
      <4> DEFINE D == l.arg.directories
      <4>1. f[l] = D
        BY <3>1 DEF DirectoryLine
      <4>2. D \in Seq(Range(D))
        <5>1. l \in AnyLine
          BY <3>1, LinesSay
        <5> QED BY <3>1, <5>1, FilesAssumption DEF AnyLine, Says
      <4>3. Range(D) \subseteq AnyDirectory
        BY <3>1 DEF AnyDirectory
      <4> HIDE DEF D, f
      <4> QED BY <4>1, <4>2, <4>3, SeqMonotonic
    <3>2. CASE ~Says(l, key)
      <4>1. f[l] = <<>>
        BY <3>2 DEF DirectoryLine
      <4> QED BY <4>1, EmptySeq
    <3> QED BY <3>1, <3>2
  <2> QED BY <2>1 DEF Listings, DirectoryLine
<1>2. \A text \in Seq(TextLine) : FirmwareDirectories(text) = Gathered(f, text)
  <2> SUFFICES ASSUME NEW text \in Seq(TextLine) PROVE FirmwareDirectories(text) = Gathered(f, text)
    OBVIOUS
  <2>1. \A i \in DOMAIN text : text[i] \in TextLine
    BY LenProperties, ElementOfSeq
  <2>2. [i \in DOMAIN text |-> IF Says(text[i], "firmware_directories")
                               THEN text[i].arg.directories ELSE <<>>]
          = [i \in DOMAIN text |-> f[text[i]]]
    BY <2>1 DEF DirectoryLine
  <2> QED BY <2>2 DEF FirmwareDirectories, Gathered
<1> HIDE DEF f
<1>3. ASSUME NEW text \in Seq(TextLine), NEW l \in TextLine
      PROVE  FirmwareDirectories(Append(text, l)) =
               IF Says(l, key) THEN FirmwareDirectories(text) \o l.arg.directories
               ELSE FirmwareDirectories(text)
  <2> DEFINE r == FirmwareDirectories(text)
  <2>1. Append(text, l) \in Seq(TextLine)
    BY AppendProperties
  <2>2. FirmwareDirectories(Append(text, l)) = r \o f[l] /\ r \in Seq(AnyDirectory)
    <3>1. /\ Gathered(f, Append(text, l)) = Gathered(f, text) \o f[l]
          /\ Gathered(f, text) \in Seq(AnyDirectory)
      BY <1>1, GatheredAppend
    <3> QED BY <1>2, <2>1, <3>1
  <2>3. CASE Says(l, key)
    BY <2>2, <2>3 DEF f, DirectoryLine
  <2>4. CASE ~Says(l, key)
    <3>1. f[l] = <<>>
      BY <2>4 DEF f, DirectoryLine
    <3> HIDE DEF r
    <3>2. FirmwareDirectories(Append(text, l)) = r
      BY <2>2, <3>1, ConcatEmptySeq
    <3> QED BY <2>4, <3>2 DEF r
  <2> QED BY <2>3, <2>4
<1>4. FirmwareDirectories(<<>>) = <<>>
  BY <1>2, GatheredEmpty, EmptySeq
<1> QED BY <1>3, <1>4

\* One line more at the end.
LEMMA OneMore ==
  ASSUME NEW text \in Seq(TextLine), NEW l \in TextLine
  PROVE  LET t == Append(text, l)
             n == Len(text)
         IN  /\ n \in Nat /\ t \in Seq(TextLine) /\ Len(t) = n + 1
             /\ DOMAIN text = 1..n /\ DOMAIN t = 1..(n + 1)
             /\ \A i \in 1..n : t[i] = text[i] /\ text[i] \in TextLine
             /\ t[n + 1] = l
             /\ \A i \in 1..(n + 1) : i \in 1..n \/ i = n + 1
<1> DEFINE t == Append(text, l)
           n == Len(text)
<1>1. /\ n \in Nat /\ t \in Seq(TextLine) /\ Len(t) = n + 1
      /\ \A i \in 1..n : t[i] = text[i]
      /\ t[n + 1] = l
  BY AppendProperties, LenProperties
<1>2. DOMAIN text = 1..n /\ DOMAIN t = 1..Len(t) /\ \A i \in 1..n : text[i] \in TextLine
  BY <1>1, LenProperties, ElementOfSeq
<1> HIDE DEF t, n
<1>3. \A i \in 1..(n + 1) : i \in 1..n \/ i = n + 1
  BY <1>1
<1> QED BY <1>1, <1>2, <1>3 DEF t, n

\* The largest of some numbers, and a larger one.
LEMMA LargestOfSome ==
  ASSUME NEW n \in Nat, NEW I \in SUBSET (1..n)
  PROVE  /\ I # {} => Max(I) \in I
         /\ Max(I \cup {n + 1}) = n + 1
<1>1. ASSUME I # {} PROVE Max(I) \in I
  <2>1. I \in SUBSET (0..n)
    OBVIOUS
  <2>2. PICK d \in I : \A f \in I : f <= d
    BY <1>1, <2>1, LargestExists
  <2>3. \A f \in I : d >= f
    BY <2>2
  <2> QED BY <2>3 DEF Max
<1>2. Max(I \cup {n + 1}) = n + 1
  <2> DEFINE J == I \cup {n + 1}
             m == n + 1
  <2>1. m \in J /\ \A f \in J : m >= f /\ f \in Int
    OBVIOUS
  <2>2. \A x \in J : (\A y \in J : x >= y) => x = m
    <3> HIDE DEF J, m
    <3>1. m \in Int
      BY DEF m
    <3> QED BY <2>1, <3>1
  <2> HIDE DEF J, m
  <2>3. Max(J) = m
    BY <2>1, <2>2 DEF Max
  <2> QED BY <2>3 DEF J, m
<1> QED BY <1>1, <1>2

\* Without lines a setting has its default.
LEMMA LastWordNone ==
  ASSUME NEW key, NEW words, NEW default
  PROVE  LastWord(<<>>, key, words, default) = default
<1> DEFINE Gives(line) == Says(line, key) /\ line.arg.word \in words
           I == {i \in 1..Len(<<>>) : Gives(<<>>[i])}
<1>1. I = {}
  OBVIOUS
<1>2. SelectLastInSeq(<<>>, Gives) = 0
  BY <1>1 DEF SelectLastInSeq
<1> QED BY <1>2 DEF LastWord

\* One line more gives a setting its value, if the line is good.
LEMMA LastWordMore ==
  ASSUME NEW key, NEW words, NEW default, NEW text \in Seq(TextLine), NEW l \in TextLine
  PROVE  /\ Says(l, key) /\ l.arg.word \in words =>
              LastWord(Append(text, l), key, words, default) = l.arg.word
         /\ ~(Says(l, key) /\ l.arg.word \in words) =>
              LastWord(Append(text, l), key, words, default) = LastWord(text, key, words, default)
<1> DEFINE Gives(line) == Says(line, key) /\ line.arg.word \in words
           At(s) == {i \in 1..Len(s) : Gives(s[i])}
           LastAt(s) == IF At(s) # {} THEN Max(At(s)) ELSE 0
<1>1. \A s : LastWord(s, key, words, default)
               = IF LastAt(s) = 0 THEN default ELSE s[LastAt(s)].arg.word
  BY DEF LastWord, SelectLastInSeq
<1>2. LastWord(Append(text, l), key, words, default) =
        IF Gives(l) THEN l.arg.word ELSE LastWord(text, key, words, default)
  <2> DEFINE t == Append(text, l)
             n == Len(text)
             I == At(text)
             J == At(t)
  <2>1. /\ n \in Nat /\ Len(t) = n + 1 /\ \A i \in 1..n : t[i] = text[i]
        /\ t[n + 1] = l /\ \A i \in 1..(n + 1) : i \in 1..n \/ i = n + 1
    BY OneMore
  <2>2. I \in SUBSET (1..n)
    OBVIOUS
  <2>3. J = IF Gives(l) THEN I \cup {n + 1} ELSE I
    <3> HIDE DEF Gives, t, n
    <3> QED BY <2>1 DEF n
  <2> HIDE DEF t, n, I, J, Gives
  <2>4. (I # {} => Max(I) \in I) /\ Max(I \cup {n + 1}) = n + 1
    BY <2>1, <2>2, LargestOfSome
  <2>5. /\ LastWord(t, key, words, default)
             = IF (IF J # {} THEN Max(J) ELSE 0) = 0 THEN default
               ELSE t[IF J # {} THEN Max(J) ELSE 0].arg.word
        /\ LastWord(text, key, words, default)
             = IF (IF I # {} THEN Max(I) ELSE 0) = 0 THEN default
               ELSE text[IF I # {} THEN Max(I) ELSE 0].arg.word
    BY <1>1 DEF I, J
  <2>6. CASE Gives(l)
    <3>1. J # {} /\ Max(J) = n + 1 /\ n + 1 # 0
      BY <2>1, <2>3, <2>4, <2>6
    <3>2. LastWord(t, key, words, default) = l.arg.word
      BY <2>1, <2>5, <3>1
    <3> QED BY <2>6, <3>2 DEF t
  <2>7. CASE ~Gives(l)
    <3>1. J = I
      BY <2>3, <2>7
    <3>2. CASE I = {}
      <4>1. LastWord(t, key, words, default) = default /\ LastWord(text, key, words, default) = default
        BY <2>5, <3>1, <3>2
      <4> QED BY <2>7, <4>1 DEF t
    <3>3. CASE I # {}
      <4>1. Max(I) \in 1..n /\ t[Max(I)] = text[Max(I)]
        BY <2>1, <2>2, <2>4, <3>3
      <4>2. LastWord(t, key, words, default) = LastWord(text, key, words, default)
        BY <2>5, <3>1, <4>1
      <4> QED BY <2>7, <4>2 DEF t
    <3> QED BY <3>2, <3>3
  <2> QED BY <2>6, <2>7
<1> QED BY <1>2

-----------------------------------------------------------------------------
(* What a line does to the configuration, but for the sections *)

\* d is what the configuration c becomes by the line l.
FieldsRead(c, d, l) ==
  /\ d.firmwareDirectories = IF Says(l, "firmware_directories")
                             THEN c.firmwareDirectories \o l.arg.directories
                             ELSE c.firmwareDirectories
  /\ d.devPermissions = IF Says(l, "/dev/") THEN Append(c.devPermissions, l.arg.rule)
                        ELSE c.devPermissions
  /\ d.sysfsPermissions = IF Says(l, "/sys/") THEN Append(c.sysfsPermissions, l.arg.rule)
                          ELSE c.sysfsPermissions
  /\ d.modaliasHandling = IF Says(l, "modalias_handling") /\ l.arg.word \in {"enabled", "disabled"}
                          THEN l.arg.word = "enabled" ELSE c.modaliasHandling
  /\ d.parallelMainLoop = IF /\ Says(l, "parallel_ueventd_main_loop")
                             /\ l.arg.word \in {"enabled", "disabled"}
                          THEN l.arg.word = "enabled" ELSE c.parallelMainLoop
  /\ d.rcvbufSize = IF Says(l, "uevent_socket_rcvbuf_size") /\ l.arg.word \in Sizes
                    THEN l.arg.word ELSE c.rcvbufSize
  /\ d.maxWorkers = IF Says(l, "parallel_ueventd_main_loop_max_workers") /\ l.arg.word \in Sizes
                    THEN l.arg.word ELSE c.maxWorkers
  /\ d.externalFirmwareHandlers =
       IF /\ Says(l, "external_firmware_handler")
          /\ \A i \in DOMAIN c.externalFirmwareHandlers :
               ~SameDevpath(c.externalFirmwareHandlers[i], l.arg)
       THEN Append(c.externalFirmwareHandlers, HandlerOf(l)) ELSE c.externalFirmwareHandlers

OtherFields ==
  {"firmwareDirectories", "devPermissions", "sysfsPermissions", "modaliasHandling",
   "parallelMainLoop", "rcvbufSize", "maxWorkers", "externalFirmwareHandlers"}

\* The parser of a single line changes its own field and no other.
LEMMA CallbackFields ==
  ASSUME NEW c, DOMAIN c = DOMAIN DefaultConfig, NEW l, l.key \in Range(LineCallbacks)
  PROVE  LET d == ParseLine(c, l.key, l.arg) IN
         FieldsRead(c, d, l) /\ d.subsystem = c.subsystem /\ d.driver = c.driver
<1> DEFINE arg == l.arg
<1>1. OtherFields \cup {"subsystem", "driver"} = DOMAIN c
  BY ConfigFields DEF OtherFields
<1>2. l.key \in {"/sys/", "/dev/", "firmware_directories", "external_firmware_handler",
                 "modalias_handling", "uevent_socket_rcvbuf_size",
                 "parallel_ueventd_main_loop_max_workers", "parallel_ueventd_main_loop"}
  <2>1. /\ DOMAIN LineCallbacks = 1..8
        /\ \A i \in 1..8 : LineCallbacks[i] \in
             {"/sys/", "/dev/", "firmware_directories", "external_firmware_handler",
              "modalias_handling", "uevent_socket_rcvbuf_size",
              "parallel_ueventd_main_loop_max_workers", "parallel_ueventd_main_loop"}
    BY DEF LineCallbacks
  <2> QED BY <2>1 DEF Range
<1>3. ASSUME NEW f \in OtherFields, NEW x, NEW e, e = [c EXCEPT ![f] = x]
      PROVE  /\ e[f] = x /\ e.subsystem = c.subsystem /\ e.driver = c.driver
             /\ \A g \in OtherFields \ {f} : e[g] = c[g]
  BY <1>1, <1>3 DEF OtherFields
<1>4. CASE l.key = "/sys/"
  <2> DEFINE d == ParsePermissionsLine(c, "sysfsPermissions", arg)
  <2>1. ParseLine(c, l.key, l.arg) = d
    BY <1>4 DEF ParseLine
  <2> DEFINE x == Append(c["sysfsPermissions"], arg.rule)
  <2>2. d = IF arg.ok THEN [c EXCEPT !["sysfsPermissions"] = x] ELSE c
    BY DEF ParsePermissionsLine
  <2> HIDE DEF d, x
  <2>3. \A key : Says(l, key) <=> key = "/sys/" /\ arg.ok
    BY <1>4 DEF Says
  <2>4. /\ \A g \in OtherFields \ {"sysfsPermissions"} : d[g] = c[g]
        /\ d.subsystem = c.subsystem /\ d.driver = c.driver
    BY <1>3, <2>2 DEF OtherFields
  <2>5. d["sysfsPermissions"] = IF arg.ok THEN x ELSE c["sysfsPermissions"]
    <3>1. "sysfsPermissions" \in DOMAIN c
      BY <1>1 DEF OtherFields
    <3> QED BY <2>2, <3>1
  <2> QED BY <2>1, <2>3, <2>4, <2>5 DEF FieldsRead, OtherFields, x
<1>5. CASE l.key = "/dev/"
  <2> DEFINE d == ParsePermissionsLine(c, "devPermissions", arg)
  <2>1. ParseLine(c, l.key, l.arg) = d
    BY <1>5 DEF ParseLine
  <2> DEFINE x == Append(c["devPermissions"], arg.rule)
  <2>2. d = IF arg.ok THEN [c EXCEPT !["devPermissions"] = x] ELSE c
    BY DEF ParsePermissionsLine
  <2> HIDE DEF d, x
  <2>3. \A key : Says(l, key) <=> key = "/dev/" /\ arg.ok
    BY <1>5 DEF Says
  <2>4. /\ \A g \in OtherFields \ {"devPermissions"} : d[g] = c[g]
        /\ d.subsystem = c.subsystem /\ d.driver = c.driver
    BY <1>3, <2>2 DEF OtherFields
  <2>5. d["devPermissions"] = IF arg.ok THEN x ELSE c["devPermissions"]
    <3>1. "devPermissions" \in DOMAIN c
      BY <1>1 DEF OtherFields
    <3> QED BY <2>2, <3>1
  <2> QED BY <2>1, <2>3, <2>4, <2>5 DEF FieldsRead, OtherFields, x
<1>6. CASE l.key = "firmware_directories"
  <2> DEFINE d == ParseFirmwareDirectoriesLine(c, arg)
  <2>1. ParseLine(c, l.key, l.arg) = d
    BY <1>6 DEF ParseLine
  <2> DEFINE x == c["firmwareDirectories"] \o arg.directories
  <2>2. d = IF arg.ok THEN [c EXCEPT !["firmwareDirectories"] = x] ELSE c
    BY DEF ParseFirmwareDirectoriesLine
  <2> HIDE DEF d, x
  <2>3. \A key : Says(l, key) <=> key = "firmware_directories" /\ arg.ok
    BY <1>6 DEF Says
  <2>4. /\ \A g \in OtherFields \ {"firmwareDirectories"} : d[g] = c[g]
        /\ d.subsystem = c.subsystem /\ d.driver = c.driver
    BY <1>3, <2>2 DEF OtherFields
  <2>5. d["firmwareDirectories"] = IF arg.ok THEN x ELSE c["firmwareDirectories"]
    <3>1. "firmwareDirectories" \in DOMAIN c
      BY <1>1 DEF OtherFields
    <3> QED BY <2>2, <3>1
  <2> QED BY <2>1, <2>3, <2>4, <2>5 DEF FieldsRead, OtherFields, x
<1>7. CASE l.key = "external_firmware_handler"
  <2> DEFINE d == ParseExternalFirmwareHandlerLine(c, arg)
             h == c["externalFirmwareHandlers"]
  <2>1. ParseLine(c, l.key, l.arg) = d
    BY <1>7 DEF ParseLine
  <2> DEFINE x == Append(h, HandlerOf(l))
  <2>2. d = IF arg.ok /\ \A i \in DOMAIN h : ~SameDevpath(h[i], arg)
            THEN [c EXCEPT !["externalFirmwareHandlers"] = x] ELSE c
    BY DEF ParseExternalFirmwareHandlerLine, HandlerOf
  <2> HIDE DEF d, x
  <2>3. \A key : Says(l, key) <=> key = "external_firmware_handler" /\ arg.ok
    BY <1>7 DEF Says
  <2>4. /\ \A g \in OtherFields \ {"externalFirmwareHandlers"} : d[g] = c[g]
        /\ d.subsystem = c.subsystem /\ d.driver = c.driver
    BY <1>3, <2>2 DEF OtherFields
  <2>5. d["externalFirmwareHandlers"] = IF arg.ok /\ \A i \in DOMAIN h : ~SameDevpath(h[i], arg)
                                        THEN x ELSE c["externalFirmwareHandlers"]
    <3>1. "externalFirmwareHandlers" \in DOMAIN c
      BY <1>1 DEF OtherFields
    <3> QED BY <2>2, <3>1
  <2> QED BY <2>1, <2>3, <2>4, <2>5 DEF FieldsRead, OtherFields, x
<1>8. CASE l.key \in {"modalias_handling", "parallel_ueventd_main_loop"}
  <2> DEFINE f == IF l.key = "modalias_handling" THEN "modaliasHandling" ELSE "parallelMainLoop"
             d == ParseEnabledDisabledLine(c, f, arg)
  <2>1. ParseLine(c, l.key, l.arg) = d
    BY <1>8 DEF ParseLine
  <2>2. d = IF arg.ok /\ arg.word \in {"enabled", "disabled"}
            THEN [c EXCEPT ![f] = arg.word = "enabled"] ELSE c
    BY DEF ParseEnabledDisabledLine
  <2> HIDE DEF d
  <2>3. \A key : Says(l, key) <=> key = l.key /\ arg.ok
    BY <1>8 DEF Says
  <2>4. /\ \A g \in OtherFields \ {f} : d[g] = c[g]
        /\ d.subsystem = c.subsystem /\ d.driver = c.driver
    BY <1>3, <1>8, <2>2 DEF OtherFields
  <2>5. d[f] = IF arg.ok /\ arg.word \in {"enabled", "disabled"} THEN arg.word = "enabled" ELSE c[f]
    <3>1. f \in DOMAIN c
      BY <1>1, <1>8 DEF OtherFields
    <3> QED BY <2>2, <3>1
  <2>6. CASE l.key = "modalias_handling"
    <3>1. f = "modaliasHandling"
      BY <2>6
    <3> QED BY <2>1, <2>3, <2>4, <2>5, <2>6, <3>1 DEF FieldsRead, OtherFields
  <2>7. CASE l.key = "parallel_ueventd_main_loop"
    <3>1. f = "parallelMainLoop"
      BY <2>7
    <3> QED BY <2>1, <2>3, <2>4, <2>5, <2>7, <3>1 DEF FieldsRead, OtherFields
  <2> QED BY <1>8, <2>6, <2>7
<1>9. CASE l.key \in {"uevent_socket_rcvbuf_size", "parallel_ueventd_main_loop_max_workers"}
  <2> DEFINE f == IF l.key = "uevent_socket_rcvbuf_size" THEN "rcvbufSize" ELSE "maxWorkers"
             d == ParseSizeLine(c, f, arg)
  <2>1. ParseLine(c, l.key, l.arg) = d
    BY <1>9 DEF ParseLine
  <2>2. d = IF arg.ok /\ arg.word \in Sizes THEN [c EXCEPT ![f] = arg.word] ELSE c
    BY DEF ParseSizeLine
  <2> HIDE DEF d
  <2> QED BY <1>3, <1>9, <2>1, <2>2 DEF FieldsRead, Says, OtherFields
<1> QED BY <1>2, <1>4, <1>5, <1>6, <1>7, <1>8, <1>9

\* A line that no parser of single lines takes leaves these fields as they are.
LEMMA NoFields ==
  ASSUME NEW c, NEW d, \A f \in OtherFields : d[f] = c[f], NEW l, l.key \notin Range(LineCallbacks)
  PROVE  FieldsRead(c, d, l)
<1>1. /\ DOMAIN LineCallbacks = 1..8
      /\ LineCallbacks[1] = "/sys/" /\ LineCallbacks[2] = "/dev/"
      /\ LineCallbacks[3] = "firmware_directories" /\ LineCallbacks[4] = "external_firmware_handler"
      /\ LineCallbacks[5] = "modalias_handling" /\ LineCallbacks[6] = "uevent_socket_rcvbuf_size"
      /\ LineCallbacks[7] = "parallel_ueventd_main_loop_max_workers"
      /\ LineCallbacks[8] = "parallel_ueventd_main_loop"
  BY DEF LineCallbacks
<1>2. {"/sys/", "/dev/", "firmware_directories", "external_firmware_handler",
       "modalias_handling", "uevent_socket_rcvbuf_size",
       "parallel_ueventd_main_loop_max_workers", "parallel_ueventd_main_loop"} \subseteq Range(LineCallbacks)
  BY <1>1 DEF Range
<1>3. \A key \in {"/sys/", "/dev/", "firmware_directories", "external_firmware_handler",
       "modalias_handling", "uevent_socket_rcvbuf_size",
       "parallel_ueventd_main_loop_max_workers", "parallel_ueventd_main_loop"} : ~Says(l, key)
  BY <1>2 DEF Says
<1> QED BY <1>3 DEF FieldsRead, OtherFields

\* The end of a section changes only the list of the section.
LEMMA EndSectionFields ==
  ASSUME ParserInv
  PROVE  DOMAIN EndSection = DOMAIN DefaultConfig /\ \A f \in OtherFields : EndSection[f] = config[f]
<1>1. DOMAIN config = DOMAIN DefaultConfig
  BY DEF ParserInv, ConfigRight
<1>2. OtherFields \subseteq DOMAIN config /\ OtherFields \cap {"subsystem", "driver"} = {}
  BY <1>1, ConfigFields DEF OtherFields
<1> QED BY <1>1, <1>2 DEF EndSection

\* Whatever the line is, the fields change by what it says.
LEMMA FieldsAfterLine ==
  ASSUME ParserInv
  PROVE  /\ LineCallback \/ SectionStart \/ SectionLine => FieldsRead(config, config', Head(lines))
         /\ EndOfFile => FieldsRead(config, config', EndMark)
<1> DEFINE l == Head(lines)
<1>1. CASE LineCallback
  <2>1. l.key \in Range(LineCallbacks) /\ config' = ParseLine(EndSection, l.key, l.arg)
    BY <1>1, CallbackOfKey DEF LineCallback
  <2>2. FieldsRead(EndSection, config', l)
    BY <2>1, CallbackFields, EndSectionFields
  <2>3. \A f \in OtherFields : EndSection[f] = config[f]
    BY EndSectionFields
  <2> HIDE DEF l
  <2>4. FieldsRead(config, config', l)
    BY <2>2, <2>3 DEF FieldsRead, OtherFields
  <2> QED BY <1>1, <2>4 DEF l, LineCallback, EndOfFile, NextLine
<1>2. CASE SectionStart \/ SectionLine
  <2>1. /\ l.key \notin Range(LineCallbacks) /\ config' \in {config, EndSection} /\ lines # <<>>
    BY <1>2, CallbackOfKey DEF SectionStart, SectionLine, NextLine
  <2>2. \A f \in OtherFields : config'[f] = config[f]
    BY <2>1, EndSectionFields
  <2>3. FieldsRead(config, config', l)
    BY <2>1, <2>2, NoFields
  <2> QED BY <2>1, <2>3 DEF EndOfFile
<1>3. CASE EndOfFile
  <2>1. config' = EndSection /\ EndMark.key \notin Range(LineCallbacks) /\ lines = <<>>
    BY <1>3, OtherKeys DEF EndOfFile
  <2>2. \A f \in OtherFields : config'[f] = config[f]
    BY <2>1, EndSectionFields
  <2>3. FieldsRead(config, config', EndMark)
    BY <2>1, <2>2, NoFields
  <2> QED BY <2>1, <2>3 DEF LineCallback, SectionStart, SectionLine, NextLine
<1> QED BY <1>1, <1>2, <1>3

-----------------------------------------------------------------------------
(* The lists, the settings and the handlers are those of the lines read *)

ListsSay(c, text) ==
  /\ c.firmwareDirectories = FirmwareDirectories(text)
  /\ c.devPermissions = Rules(text, "/dev/")
  /\ c.sysfsPermissions = Rules(text, "/sys/")

SettingsSay(c, text) ==
  /\ c.modaliasHandling = Switch(text, "modalias_handling", "enabled")
  /\ c.parallelMainLoop = Switch(text, "parallel_ueventd_main_loop", "disabled")
  /\ c.rcvbufSize = LastWord(text, "uevent_socket_rcvbuf_size", Sizes, "16M")
  /\ c.maxWorkers = LastWord(text, "parallel_ueventd_main_loop_max_workers", Sizes, "unset")

\* The lists go on saying what the lines say.
LEMMA ListsAfterLine ==
  ASSUME NEW c, NEW d, NEW text \in Seq(TextLine), NEW l \in TextLine,
         ListsSay(c, text), FieldsRead(c, d, l)
  PROVE  ListsSay(d, Append(text, l))
<1> DEFINE t == Append(text, l)
<1>1. /\ FirmwareDirectories(t) =
           IF Says(l, "firmware_directories") THEN FirmwareDirectories(text) \o l.arg.directories
           ELSE FirmwareDirectories(text)
      /\ \A key : Rules(t, key) =
           IF Says(l, key) THEN Append(Rules(text, key), l.arg.rule) ELSE Rules(text, key)
  BY DirectoriesMore, RulesMore
<1> HIDE DEF t
<1>2. d.firmwareDirectories = FirmwareDirectories(t)
  BY <1>1 DEF ListsSay, FieldsRead
<1>3. d.devPermissions = Rules(t, "/dev/")
  BY <1>1 DEF ListsSay, FieldsRead
<1>4. d.sysfsPermissions = Rules(t, "/sys/")
  BY <1>1 DEF ListsSay, FieldsRead
<1>5. ListsSay(d, t)
  BY <1>2, <1>3, <1>4 DEF ListsSay
<1> QED BY <1>5 DEF t

\* The settings go on saying what the lines say.
LEMMA SettingsAfterLine ==
  ASSUME NEW c, NEW d, NEW text \in Seq(TextLine), NEW l \in TextLine,
         SettingsSay(c, text), FieldsRead(c, d, l)
  PROVE  SettingsSay(d, Append(text, l))
<1> DEFINE t == Append(text, l)
<1>1. \A key, words, default :
        /\ Says(l, key) /\ l.arg.word \in words => LastWord(t, key, words, default) = l.arg.word
        /\ ~(Says(l, key) /\ l.arg.word \in words) =>
             LastWord(t, key, words, default) = LastWord(text, key, words, default)
  BY LastWordMore
<1> HIDE DEF t
<1>2. \A key, words, default :
        LastWord(t, key, words, default) =
          IF Says(l, key) /\ l.arg.word \in words THEN l.arg.word
          ELSE LastWord(text, key, words, default)
  BY <1>1
<1>8. \A key, default :
        Switch(t, key, default) =
          IF Says(l, key) /\ l.arg.word \in {"enabled", "disabled"} THEN l.arg.word = "enabled"
          ELSE Switch(text, key, default)
  BY <1>2 DEF Switch
<1>3. d.rcvbufSize = LastWord(t, "uevent_socket_rcvbuf_size", Sizes, "16M")
  BY <1>2 DEF SettingsSay, FieldsRead
<1>4. d.maxWorkers = LastWord(t, "parallel_ueventd_main_loop_max_workers", Sizes, "unset")
  BY <1>2 DEF SettingsSay, FieldsRead
<1>5. d.modaliasHandling = Switch(t, "modalias_handling", "enabled")
  BY <1>8 DEF SettingsSay, FieldsRead
<1>6. d.parallelMainLoop = Switch(t, "parallel_ueventd_main_loop", "disabled")
  BY <1>8 DEF SettingsSay, FieldsRead
<1>7. SettingsSay(d, t)
  BY <1>3, <1>4, <1>5, <1>6 DEF SettingsSay
<1> QED BY <1>7 DEF t

\* Which handlers and which lines there are for a request.
ForRequest(h, r) == {i \in 1..Len(h) : r \in PathsMatching[<<h[i].devpath, h[i].match>>]}
LinesFor(text, r) ==
  {k \in 1..Len(text) : /\ Says(text[k], "external_firmware_handler")
                        /\ r \in PathsMatching[<<text[k].arg.devpath, text[k].arg.match>>]}

\* The first handler for a request is that of the first line.
HandlersSay(c, text) ==
  \A r \in Requests :
    LET I == ForRequest(c.externalFirmwareHandlers, r)
        K == LinesFor(text, r)
    IN  /\ I = {} <=> K = {}
        /\ K # {} => c.externalFirmwareHandlers[Min(I)].path = text[Min(K)].arg.path

\* The smallest of some numbers stays the smallest when a larger one joins them.
LEMMA SmallestOfSome ==
  ASSUME NEW n \in Nat, NEW I \in SUBSET (1..n)
  PROVE  /\ I # {} => Min(I) \in I /\ Min(I \cup {n + 1}) = Min(I)
         /\ Min({n + 1}) = n + 1
<1>1. Min({n + 1}) = n + 1
  BY DEF Min
<1>2. ASSUME I # {} PROVE Min(I) \in I /\ Min(I \cup {n + 1}) = Min(I)
  <2> DEFINE J == I \cup {n + 1}
  <2>1. I \in SUBSET Nat
    OBVIOUS
  <2>2. PICK d \in I : \A f \in I : d <= f
    BY <1>2, <2>1, SmallestExists
  <2>3. d \in Nat /\ d \in J /\ d <= n + 1 /\ \A x \in J : x \in Nat /\ (x \in I \/ x = n + 1)
    BY <2>1
  <2>4. \A x \in I : (\A y \in I : x <= y) => x = d
    BY <2>1, <2>2
  <2>5. \A x \in J : (\A y \in J : x <= y) => x = d
    <3> HIDE DEF J
    <3> QED BY <2>2, <2>3
  <2>6. \A y \in J : d <= y
    <3> HIDE DEF J
    <3> QED BY <2>2, <2>3
  <2> HIDE DEF J
  <2>7. Min(I) = d
    BY <2>2, <2>4 DEF Min
  <2>8. Min(J) = d
    BY <2>3, <2>5, <2>6 DEF Min
  <2> QED BY <2>2, <2>7, <2>8 DEF J
<1> QED BY <1>1, <1>2

\* A handler more or a line more, at the end.
LEMMA ForRequestMore ==
  ASSUME NEW h \in Seq(HandlerLines), NEW e \in HandlerLines, NEW r
  PROVE  ForRequest(Append(h, e), r) = ForRequest(h, r) \cup
           IF r \in PathsMatching[<<e.devpath, e.match>>] THEN {Len(h) + 1} ELSE {}
<1> DEFINE g == Append(h, e)
           n == Len(h)
           For(x) == r \in PathsMatching[<<x.devpath, x.match>>]
<1>1. /\ n \in Nat /\ Len(g) = n + 1 /\ g[n + 1] = e /\ \A i \in 1..n : g[i] = h[i]
  BY AppendProperties, LenProperties
<1> HIDE DEF g, n, For
<1>2. \A i \in 1..(n + 1) : i \in 1..n \/ i = n + 1
  BY <1>1
<1>3. n + 1 \in 1..(n + 1) /\ 1..n \subseteq 1..(n + 1)
  BY <1>1
<1>4. /\ ForRequest(g, r) = {i \in 1..(n + 1) : For(g[i])}
      /\ ForRequest(h, r) = {i \in 1..n : For(h[i])}
  BY <1>1 DEF ForRequest, For, n
<1>5. {i \in 1..(n + 1) : For(g[i])} = {i \in 1..n : For(h[i])} \cup IF For(e) THEN {n + 1} ELSE {}
  BY <1>1, <1>2, <1>3
<1> QED BY <1>4, <1>5 DEF g, n, For

\* One line more is a line for a request, if it says so.
LEMMA LinesForMore ==
  ASSUME NEW text \in Seq(TextLine), NEW l \in TextLine, NEW r
  PROVE  LinesFor(Append(text, l), r) = LinesFor(text, r) \cup
           IF /\ Says(l, "external_firmware_handler")
              /\ r \in PathsMatching[<<l.arg.devpath, l.arg.match>>]
           THEN {Len(text) + 1} ELSE {}
<1> DEFINE t == Append(text, l)
           n == Len(text)
<1>1. /\ n \in Nat /\ Len(t) = n + 1 /\ t[n + 1] = l /\ \A i \in 1..n : t[i] = text[i]
      /\ \A i \in 1..(n + 1) : i \in 1..n \/ i = n + 1
  BY OneMore
<1> DEFINE For(x) == /\ Says(x, "external_firmware_handler")
                     /\ r \in PathsMatching[<<x.arg.devpath, x.arg.match>>]
<1>2. /\ LinesFor(t, r) = {i \in 1..(n + 1) : For(t[i])}
      /\ LinesFor(text, r) = {i \in 1..n : For(text[i])}
  BY <1>1 DEF LinesFor
<1> HIDE DEF t, n, For
<1>3. n + 1 \in 1..(n + 1) /\ 1..n \subseteq 1..(n + 1)
  BY <1>1
<1>4. {i \in 1..(n + 1) : For(t[i])} = {i \in 1..n : For(text[i])} \cup IF For(l) THEN {n + 1} ELSE {}
  BY <1>1, <1>3
<1> QED BY <1>2, <1>4 DEF t, n, For

\* No other path matches the pattern of a line than those of a line before with its devpath.
LEMMA RefusedMatchesLess ==
  ASSUME NEW l \in AnyLine, NEW k \in AnyLine,
         Says(l, "external_firmware_handler"), Says(k, "external_firmware_handler"),
         k.arg.devpath = l.arg.devpath, l.arg.match # "prefix"
  PROVE  PathsMatching[<<l.arg.devpath, l.arg.match>>] \subseteq PathsMatching[<<k.arg.devpath, k.arg.match>>]
BY PatternsAssumption DEF AnyLine

\* The first handler goes on being that of the first line, even if the line is refused.
LEMMA HandlersAfterLine ==
  ASSUME NEW c, NEW d, NEW text \in Seq(TextLine), NEW l \in TextLine,
         c.externalFirmwareHandlers \in Seq(HandlerLines),
         HandlersSay(c, text), FieldsRead(c, d, l)
  PROVE  HandlersSay(d, Append(text, l))
<1> DEFINE h == c.externalFirmwareHandlers
           g == d.externalFirmwareHandlers
           t == Append(text, l)
           e == HandlerOf(l)
           n == Len(text)
           m == Len(h)
<1> SUFFICES ASSUME NEW r \in Requests
             PROVE  LET I == ForRequest(g, r)
                        K == LinesFor(t, r)
                    IN  /\ I = {} <=> K = {}
                        /\ K # {} => g[Min(I)].path = t[Min(K)].arg.path
  BY DEF HandlersSay
<1> DEFINE I == ForRequest(h, r)
           J == ForRequest(g, r)
           K == LinesFor(text, r)
           L == LinesFor(t, r)
           Good == Says(l, "external_firmware_handler")
           New == Good /\ \A i \in DOMAIN h : ~SameDevpath(h[i], l.arg)
           Matches == r \in PathsMatching[<<l.arg.devpath, l.arg.match>>]
<1>1. /\ h \in Seq(HandlerLines) /\ m \in Nat /\ DOMAIN h = 1..m
      /\ n \in Nat /\ t[n + 1] = l /\ \A i \in 1..n : t[i] = text[i]
  BY OneMore, LenProperties
<1>2. I \in SUBSET (1..m) /\ K \in SUBSET (1..n)
  BY DEF ForRequest, LinesFor
<1>3. (I = {} <=> K = {}) /\ (K # {} => h[Min(I)].path = text[Min(K)].arg.path)
  BY DEF HandlersSay
<1>4. g = IF New THEN Append(h, e) ELSE h
  BY DEF FieldsRead
<1>5. L = K \cup IF Good /\ Matches THEN {n + 1} ELSE {}
  BY LinesForMore
<1>6. /\ I # {} => Min(I) \in I /\ Min(I \cup {m + 1}) = Min(I)
      /\ Min({m + 1}) = m + 1
  BY <1>1, <1>2, SmallestOfSome
<1>7. /\ K # {} => Min(K) \in K /\ Min(K \cup {n + 1}) = Min(K)
      /\ Min({n + 1}) = n + 1
  BY <1>1, <1>2, SmallestOfSome
<1>8. Good => l \in AnyLine /\ e \in HandlerLines
  BY LinesSay DEF HandlerLines
<1>9. e.devpath = l.arg.devpath /\ e.match = l.arg.match /\ e.path = l.arg.path
  BY DEF HandlerOf
\* A line that is refused matches no more than one that is there.
<1>10. ASSUME Good, ~New, Matches PROVE I # {}
  <2>1. PICK i \in 1..m : SameDevpath(h[i], l.arg)
    BY <1>1, <1>10
  <2>2. h[i] \in HandlerLines
    BY <1>1, ElementOfSeq
  <2>3. PICK k \in AnyLine : Says(k, "external_firmware_handler") /\ h[i] = HandlerOf(k)
    BY <2>2 DEF HandlerLines
  <2>4. /\ k.arg.devpath = l.arg.devpath /\ l.arg.match # "prefix"
        /\ h[i].devpath = k.arg.devpath /\ h[i].match = k.arg.match
    BY <2>1, <2>3 DEF SameDevpath, HandlerOf
  <2>5. PathsMatching[<<l.arg.devpath, l.arg.match>>] \subseteq PathsMatching[<<k.arg.devpath, k.arg.match>>]
    BY <1>8, <1>10, <2>3, <2>4, RefusedMatchesLess
  <2>6. i \in I
    BY <1>10, <2>4, <2>5 DEF ForRequest
  <2> QED BY <2>6
<1>11. K # {} => t[Min(K)] = text[Min(K)]
  BY <1>1, <1>2, <1>7
<1>12. CASE New
  <2>1. /\ J = I \cup IF Matches THEN {m + 1} ELSE {}
        /\ g[m + 1] = e /\ \A i \in 1..m : g[i] = h[i]
    BY <1>1, <1>4, <1>8, <1>9, <1>12, ForRequestMore, AppendProperties
  <2>2. I # {} => g[Min(I)] = h[Min(I)]
    BY <1>2, <1>6, <2>1
  <2> HIDE DEF I, J, K, L, Matches, g, h, t, e, m, n
  <2>3. CASE Matches
    <3>1. J # {} /\ L # {}
      BY <1>5, <1>12, <2>1, <2>3
    <3>2. CASE K # {}
      <4>1. /\ J = I \cup {m + 1} /\ L = K \cup {n + 1} /\ I # {}
        BY <1>3, <1>5, <1>12, <2>1, <2>3, <3>2
      <4>2. Min(J) = Min(I) /\ Min(L) = Min(K)
        BY <1>6, <1>7, <3>2, <4>1
      <4>3. g[Min(J)].path = t[Min(L)].arg.path
        BY <1>3, <1>11, <2>2, <3>2, <4>1, <4>2
      <4> QED BY <3>1, <4>3 DEF J, L
    <3>3. CASE K = {}
      <4>1. J = {m + 1} /\ L = {n + 1}
        BY <1>3, <1>5, <1>12, <2>1, <2>3, <3>3
      <4>2. Min(J) = m + 1 /\ Min(L) = n + 1
        BY <1>6, <1>7, <4>1
      <4>3. g[Min(J)].path = t[Min(L)].arg.path
        BY <1>1, <1>9, <2>1, <4>2
      <4> QED BY <3>1, <4>3 DEF J, L
    <3> QED BY <3>2, <3>3
  <2>4. CASE ~Matches
    <3>1. J = I /\ L = K
      BY <1>5, <2>1, <2>4
    <3>2. K # {} => g[Min(I)].path = t[Min(K)].arg.path
      BY <1>3, <1>11, <2>2
    <3> QED BY <1>3, <3>1, <3>2 DEF J, L
  <2> QED BY <2>3, <2>4
<1>13. CASE ~New
  <2>1. g = h /\ J = I
    BY <1>4, <1>13
  <2> HIDE DEF I, J, K, L, Matches, g, h, t, e, m, n, New
  <2>2. CASE Good /\ Matches
    <3>1. I # {} /\ K # {}
      BY <1>3, <1>10, <1>13, <2>2
    <3>2. L = K \cup {n + 1}
      BY <1>5, <2>2
    <3>3. L # {} /\ Min(L) = Min(K)
      BY <1>7, <3>1, <3>2
    <3>4. g[Min(J)].path = t[Min(L)].arg.path
      BY <1>3, <1>11, <2>1, <3>1, <3>3
    <3> QED BY <2>1, <3>1, <3>3, <3>4 DEF J, L
  <2>3. CASE ~(Good /\ Matches)
    <3>1. L = K
      BY <1>5, <2>3
    <3>2. K # {} => g[Min(J)].path = t[Min(K)].arg.path
      BY <1>3, <1>11, <2>1
    <3> QED BY <1>3, <2>1, <3>1, <3>2 DEF J, L
  <2> QED BY <2>2, <2>3
<1> QED BY <1>12, <1>13

-----------------------------------------------------------------------------
(* The subsystems and the drivers are those of the lines read *)

\* The words that end a section.
Enders == SectionKeys \cup Range(LineCallbacks) \cup {EndMark.key}

Closed(text, i) == \E k \in (i + 1)..Len(text) : text[k].key \in Enders

\* s has the sections of the first lines with this word that have ended; there is one more if
\* the section is open.
SectionsRead(s, sec, sub, text, key) ==
  /\ Range(s) = {SectionAt(text, i) : i \in {j \in Openings(text, key) : Closed(text, j)}}
  /\ \A i \in Openings(text, key) : Closed(text, i) \/ (sec = key /\ sub = SectionAt(text, i))
  /\ sec = key => \E i \in Openings(text, key) : ~Closed(text, i)

SectionsSay(c, sec, sub, text) ==
  \A key \in {"subsystem", "driver"} : SectionsRead(c[key], sec, sub, text, key)

\* A section has ended once a line after it ends sections.
LEMMA ClosedMore ==
  ASSUME NEW text \in Seq(TextLine), NEW l \in TextLine
  PROVE  LET t == Append(text, l)
             n == Len(text)
         IN  /\ ~Closed(t, n + 1)
             /\ \A i \in 1..n : Closed(t, i) <=> Closed(text, i) \/ l.key \in Enders
<1> DEFINE t == Append(text, l)
           n == Len(text)
           Ends(line) == line.key \in Enders
<1>1. /\ n \in Nat /\ Len(t) = n + 1 /\ t[n + 1] = l /\ \A i \in 1..n : t[i] = text[i]
  BY OneMore
<1>2. \A i : /\ Closed(t, i) <=> \E k \in (i + 1)..(n + 1) : Ends(t[k])
             /\ Closed(text, i) <=> \E k \in (i + 1)..n : Ends(text[k])
  BY <1>1 DEF Closed
<1>3. Ends(l) <=> l.key \in Enders
  OBVIOUS
<1> HIDE DEF t, n, Ends
<1>4. ~Closed(t, n + 1)
  BY <1>1, <1>2
<1>5. \A i \in 1..n : Closed(t, i) <=> Closed(text, i) \/ Ends(l)
  <2> SUFFICES ASSUME NEW i \in 1..n PROVE Closed(t, i) <=> Closed(text, i) \/ Ends(l)
    OBVIOUS
  <2>1. /\ n + 1 \in (i + 1)..(n + 1)
        /\ \A k \in (i + 1)..n : k \in (i + 1)..(n + 1) /\ t[k] = text[k]
        /\ \A k \in (i + 1)..(n + 1) : k \in (i + 1)..n \/ k = n + 1
    BY <1>1
  <2> QED BY <1>1, <1>2, <2>1
<1> QED BY <1>3, <1>4, <1>5 DEF t, n

\* One line more begins a section, if there is none of its name.
LEMMA OpeningsMore ==
  ASSUME NEW text \in Seq(TextLine), NEW l \in TextLine, NEW key
  PROVE  LET n == Len(text)
         IN  Openings(Append(text, l), key) = Openings(text, key) \cup
               IF /\ Says(l, key)
                  /\ \A j \in 1..n : Says(text[j], key) => text[j].arg.name # l.arg.name
               THEN {n + 1} ELSE {}
<1> DEFINE t == Append(text, l)
           n == Len(text)
           First(s, i) == /\ Says(s[i], key)
                          /\ \A j \in 1..(i - 1) :
                               Says(s[j], key) => s[j].arg.name # s[i].arg.name
           New == /\ Says(l, key)
                  /\ \A j \in 1..n : Says(text[j], key) => text[j].arg.name # l.arg.name
<1>1. /\ n \in Nat /\ t[n + 1] = l /\ \A i \in 1..n : t[i] = text[i]
      /\ DOMAIN text = 1..n /\ DOMAIN t = 1..(n + 1)
  BY OneMore
<1>2. /\ Openings(t, key) = {i \in 1..(n + 1) : First(t, i)}
      /\ Openings(text, key) = {i \in 1..n : First(text, i)}
  BY <1>1 DEF Openings
<1> HIDE DEF t, n
<1>3. (n + 1) - 1 = n /\ \A i \in 1..n : \A j \in 1..(i - 1) : j \in 1..n
  BY <1>1
<1>4. First(t, n + 1) <=> New
  BY <1>1, <1>3
<1>5. \A i \in 1..n : First(t, i) <=> First(text, i)
  BY <1>1, <1>3
<1>6. /\ \A i \in 1..(n + 1) : i \in 1..n \/ i = n + 1
      /\ n + 1 \in 1..(n + 1) /\ 1..n \subseteq 1..(n + 1)
  BY <1>1
<1> HIDE DEF First, New
<1>7. {i \in 1..(n + 1) : First(t, i)} = {i \in 1..n : First(text, i)} \cup IF New THEN {n + 1} ELSE {}
  BY <1>4, <1>5, <1>6
<1> QED BY <1>2, <1>7 DEF t, n, New

\* The options of a section change only by an option, and only if it has not ended.
LEMMA OptionsMore ==
  ASSUME NEW text \in Seq(TextLine), NEW l \in TextLine
  PROVE  LET t == Append(text, l)
             n == Len(text)
         IN  /\ OptionsAfter(t, n + 1) = {}
             /\ \A i \in 1..n :
                  /\ OptionsAfter(text, i) \in SUBSET (1..n)
                  /\ OptionsAfter(t, i) = IF Closed(text, i) \/ l.key \in Enders
                                          THEN OptionsAfter(text, i)
                                          ELSE OptionsAfter(text, i) \cup {n + 1}
<1> DEFINE t == Append(text, l)
           n == Len(text)
           Ends(line) == line.key \in Enders
<1>1. /\ n \in Nat /\ Len(t) = n + 1 /\ t[n + 1] = l /\ \A i \in 1..n : t[i] = text[i]
  BY OneMore
<1>2. \A i : /\ OptionsAfter(t, i) =
                  {j \in (i + 1)..(n + 1) : \A k \in (i + 1)..j : ~Ends(t[k])}
             /\ OptionsAfter(text, i) = {j \in (i + 1)..n : \A k \in (i + 1)..j : ~Ends(text[k])}
             /\ Closed(text, i) <=> \E k \in (i + 1)..n : Ends(text[k])
  BY <1>1 DEF Closed, OptionsAfter, Enders
<1>3. Ends(l) <=> l.key \in Enders
  OBVIOUS
<1> HIDE DEF t, n, Ends
<1>4. OptionsAfter(t, n + 1) = {}
  BY <1>1, <1>2
<1>5. ASSUME NEW i \in 1..n
      PROVE  /\ OptionsAfter(text, i) \in SUBSET (1..n)
             /\ OptionsAfter(t, i) = IF Closed(text, i) \/ Ends(l) THEN OptionsAfter(text, i)
                                     ELSE OptionsAfter(text, i) \cup {n + 1}
  <2> DEFINE NoEnd(s, j) == \A k \in (i + 1)..j : ~Ends(s[k])
  <2>1. /\ OptionsAfter(t, i) = {j \in (i + 1)..(n + 1) : NoEnd(t, j)}
        /\ OptionsAfter(text, i) = {j \in (i + 1)..n : NoEnd(text, j)}
    BY <1>2
  <2>2. /\ n + 1 \in (i + 1)..(n + 1) /\ (i + 1)..n \subseteq 1..n
        /\ \A k \in (i + 1)..n : k \in (i + 1)..(n + 1) /\ t[k] = text[k]
        /\ \A k \in (i + 1)..(n + 1) : k \in (i + 1)..n \/ k = n + 1
        /\ \A j \in (i + 1)..n : \A k \in (i + 1)..j : k \in (i + 1)..n
    BY <1>1
  <2>3. \A j \in (i + 1)..n : NoEnd(t, j) <=> NoEnd(text, j)
    BY <2>2
  <2>4. NoEnd(t, n + 1) <=> ~(Closed(text, i) \/ Ends(l))
    BY <1>1, <1>2, <2>2
  <2> HIDE DEF NoEnd
  <2>5. {j \in (i + 1)..(n + 1) : NoEnd(t, j)} =
          IF Closed(text, i) \/ Ends(l) THEN {j \in (i + 1)..n : NoEnd(text, j)}
          ELSE {j \in (i + 1)..n : NoEnd(text, j)} \cup {n + 1}
    BY <2>2, <2>3, <2>4
  <2> QED BY <2>1, <2>2, <2>5
<1> QED BY <1>3, <1>4, <1>5 DEF t, n

\* The lines that give an option of a section.
Given(text, i, key, words) ==
  {j \in OptionsAfter(text, i) : Says(text[j], key) /\ text[j].arg.word \in words}

\* One line more gives an option to the section that is open, and to no other.
LEMMA LastOptionMore ==
  ASSUME NEW text \in Seq(TextLine), NEW l \in TextLine, NEW i \in 1..Len(text),
         NEW key, NEW words, NEW default
  PROVE  LET t == Append(text, l) IN
         /\ Closed(text, i) \/ l.key \in Enders \/ ~(Says(l, key) /\ l.arg.word \in words) =>
              LastOption(t, i, key, words, default) = LastOption(text, i, key, words, default)
         /\ ~Closed(text, i) /\ l.key \notin Enders /\ Says(l, key) /\ l.arg.word \in words =>
              LastOption(t, i, key, words, default) = l.arg.word
<1> DEFINE t == Append(text, l)
           n == Len(text)
           Gives(line) == Says(line, key) /\ line.arg.word \in words
           O == OptionsAfter(text, i)
           P == OptionsAfter(t, i)
           I == {j \in O : Gives(text[j])}
           J == {j \in P : Gives(t[j])}
           Old == Closed(text, i) \/ l.key \in Enders
<1>1. /\ n \in Nat /\ t[n + 1] = l /\ \A j \in 1..n : t[j] = text[j]
  BY OneMore
<1>2. O \in SUBSET (1..n) /\ P = IF Old THEN O ELSE O \cup {n + 1}
  BY OptionsMore
<1>3. /\ LastOption(t, i, key, words, default) = IF J = {} THEN default ELSE t[Max(J)].arg.word
      /\ LastOption(text, i, key, words, default) = IF I = {} THEN default ELSE text[Max(I)].arg.word
  BY DEF LastOption
<1> HIDE DEF t, n, Gives, Old, O, P
<1>4. J = IF ~Old /\ Gives(l) THEN I \cup {n + 1} ELSE I
  BY <1>1, <1>2
<1>5. I \in SUBSET (1..n)
  BY <1>2
<1> HIDE DEF I, J
<1>6. (I # {} => Max(I) \in I) /\ Max(I \cup {n + 1}) = n + 1
  BY <1>1, <1>5, LargestOfSome
<1>7. CASE ~Old /\ Gives(l)
  <2>1. J # {} /\ Max(J) = n + 1
    BY <1>4, <1>6, <1>7
  <2>2. LastOption(t, i, key, words, default) = l.arg.word
    BY <1>1, <1>3, <2>1
  <2> QED BY <1>7, <2>2 DEF t, Old, Gives
<1>8. CASE ~(~Old /\ Gives(l))
  <2>1. J = I
    BY <1>4, <1>8
  <2>2. I # {} => t[Max(I)] = text[Max(I)]
    BY <1>1, <1>5, <1>6
  <2>3. LastOption(t, i, key, words, default) = LastOption(text, i, key, words, default)
    BY <1>3, <2>1, <2>2
  <2> QED BY <1>8, <2>3 DEF t, Old, Gives
<1> QED BY <1>7, <1>8

\* A section that has just begun has no options yet.
LEMMA LastOptionNone ==
  ASSUME NEW text \in Seq(TextLine), NEW l \in TextLine, NEW key, NEW words, NEW default
  PROVE  LastOption(Append(text, l), Len(text) + 1, key, words, default) = default
<1> DEFINE t == Append(text, l)
           n == Len(text)
<1>1. OptionsAfter(t, n + 1) = {}
  BY OptionsMore
<1> HIDE DEF t, n
<1>2. LastOption(t, n + 1, key, words, default) = default
  BY <1>1 DEF LastOption
<1> QED BY <1>2 DEF t, n

\* A section begins with the defaults.
LEMMA SectionBegun ==
  ASSUME NEW text \in Seq(TextLine), NEW l \in TextLine
  PROVE  SectionAt(Append(text, l), Len(text) + 1) = DefaultSubsystem(l.arg.name)
<1> DEFINE t == Append(text, l)
           n == Len(text)
<1>1. t[n + 1] = l
  BY OneMore
<1>2. /\ LastOption(t, n + 1, "devname", DevnameSources, "uevent_devname") = "uevent_devname"
      /\ LastOption(t, n + 1, "dirname", AbsoluteNames, "/dev") = "/dev"
  BY LastOptionNone
<1> HIDE DEF t, n
<1>3. SectionAt(t, n + 1) = DefaultSubsystem(l.arg.name)
  BY <1>1, <1>2 DEF SectionAt, DefaultSubsystem
<1> QED BY <1>3 DEF t, n

\* What a line does to a section that is there.
LEMMA SectionGoesOn ==
  ASSUME NEW text \in Seq(TextLine), NEW l \in TextLine, NEW i \in 1..Len(text)
  PROVE  SectionAt(Append(text, l), i) =
           IF Closed(text, i) \/ l.key \in Enders THEN SectionAt(text, i)
           ELSE ParseOption(SectionAt(text, i), l)
<1> DEFINE t == Append(text, l)
           s == SectionAt(text, i)
           u == SectionAt(t, i)
           Old == Closed(text, i) \/ l.key \in Enders
           Devname == Says(l, "devname") /\ l.arg.word \in DevnameSources
           Dirname == Says(l, "dirname") /\ l.arg.word \in AbsoluteNames
<1>1. t[i] = text[i]
  BY OneMore
<1>2. /\ s = [name |-> text[i].arg.name, devname |-> s.devname, dirname |-> s.dirname]
      /\ u = [name |-> t[i].arg.name, devname |-> u.devname, dirname |-> u.dirname]
  BY DEF SectionAt
<1>3. /\ Old \/ ~Devname => u.devname = s.devname
      /\ ~Old /\ Devname => u.devname = l.arg.word
  <2>1. /\ u.devname = LastOption(t, i, "devname", DevnameSources, "uevent_devname")
        /\ s.devname = LastOption(text, i, "devname", DevnameSources, "uevent_devname")
    BY DEF SectionAt
  <2> QED BY <2>1, LastOptionMore
<1>4. /\ Old \/ ~Dirname => u.dirname = s.dirname
      /\ ~Old /\ Dirname => u.dirname = l.arg.word
  <2>1. /\ u.dirname = LastOption(t, i, "dirname", AbsoluteNames, "/dev")
        /\ s.dirname = LastOption(text, i, "dirname", AbsoluteNames, "/dev")
    BY DEF SectionAt
  <2> QED BY <2>1, LastOptionMore
<1>5. ~(Devname /\ Dirname)
  BY DEF Says
<1>6. ParseOption(s, l) = IF Devname THEN [s EXCEPT !.devname = l.arg.word]
                          ELSE IF Dirname THEN [s EXCEPT !.dirname = l.arg.word] ELSE s
  <2> HIDE DEF s
  <2>1. CASE Devname
    <3>1. l.arg.ok /\ l.key = "devname" /\ l.arg.word \in DevnameSources /\ l.key # "dirname"
      BY <2>1 DEF Says
    <3> QED BY <2>1, <3>1 DEF ParseOption
  <2>2. CASE Dirname
    <3>1. l.arg.ok /\ l.key = "dirname" /\ l.arg.word \in AbsoluteNames /\ l.key # "devname"
      BY <2>2 DEF Says
    <3>2. ParseOption(s, l) = [s EXCEPT !.dirname = l.arg.word]
      BY <3>1 DEF ParseOption
    <3> QED BY <1>5, <2>2, <3>2
  <2>3. CASE ~Devname /\ ~Dirname
    <3>1. l.arg.ok => /\ ~(l.key = "devname" /\ l.arg.word \in DevnameSources)
                      /\ ~(l.key = "dirname" /\ l.arg.word \in AbsoluteNames)
      BY <2>3 DEF Says
    <3>2. ParseOption(s, l) = s
      BY <3>1 DEF ParseOption
    <3> QED BY <2>3, <3>2
  <2> QED BY <2>1, <2>2, <2>3
<1> HIDE DEF s, u, t, Devname, Dirname, Old
<1>7. u = IF Old THEN s ELSE ParseOption(s, l)
  <2>1. CASE Old
    BY <1>1, <1>2, <1>3, <1>4, <2>1
  <2>2. CASE ~Old /\ Devname
    BY <1>1, <1>2, <1>3, <1>4, <1>5, <1>6, <2>2
  <2>3. CASE ~Old /\ Dirname
    BY <1>1, <1>2, <1>3, <1>4, <1>5, <1>6, <2>3
  <2>4. CASE ~Old /\ ~Devname /\ ~Dirname
    BY <1>1, <1>2, <1>3, <1>4, <1>6, <2>4
  <2> QED BY <2>1, <2>2, <2>3, <2>4
<1> QED BY <1>7 DEF s, u, t, Old

\* A name that has been there has been there for the first time.
LEMMA FirstOfName ==
  ASSUME NEW text \in Seq(TextLine), NEW key, NEW name
  PROVE  (\E j \in 1..Len(text) : Says(text[j], key) /\ text[j].arg.name = name)
           <=> \E i \in Openings(text, key) : text[i].arg.name = name
<1> DEFINE n == Len(text)
           Named(j) == Says(text[j], key) /\ text[j].arg.name = name
           J == {j \in 1..n : Named(j)}
<1>1. n \in Nat /\ DOMAIN text = 1..n
  BY LenProperties
<1> HIDE DEF n
<1>2. ASSUME J # {} PROVE \E i \in Openings(text, key) : text[i].arg.name = name
  <2>1. J \in SUBSET Nat
    BY <1>1
  <2>2. PICK i \in J : \A j \in J : i <= j
    <3> HIDE DEF J
    <3> QED BY <1>2, <2>1, SmallestExists
  <2>3. i \in 1..n /\ Named(i)
    OBVIOUS
  <2>4. \A j \in 1..(i - 1) : j \in 1..n /\ ~(i <= j)
    BY <1>1, <2>3
  <2>5. \A j \in 1..(i - 1) : Says(text[j], key) => text[j].arg.name # name
    BY <2>2, <2>4
  <2> QED BY <1>1, <2>3, <2>5 DEF Openings
<1>3. ASSUME NEW i \in Openings(text, key), text[i].arg.name = name PROVE i \in J
  BY <1>1, <1>3 DEF Openings
<1>4. (\E j \in 1..n : Named(j)) <=> J # {}
  OBVIOUS
<1> QED BY <1>2, <1>3, <1>4 DEF n

\* A line that ends a section, and begins one if there is none of its name yet.
LEMMA SectionsAfterEnd ==
  ASSUME NEW s, NEW e, NEW sec, NEW sub, NEW after, NEW begun, NEW key,
         NEW text \in Seq(TextLine), NEW l \in TextLine,
         s \in Seq(Sections), sub \in Sections, l.key \in Enders,
         SectionsRead(s, sec, sub, text, key),
         e = IF sec = key THEN Append(s, sub) ELSE s,
         after = key <=> Says(l, key) /\ ~\E i \in DOMAIN e : e[i].name = l.arg.name,
         after = key => begun = DefaultSubsystem(l.arg.name)
  PROVE  SectionsRead(e, after, begun, Append(text, l), key)
<1>0. \A name :
        (\E j \in 1..Len(text) : Says(text[j], key) /\ text[j].arg.name = name)
          <=> \E i \in Openings(text, key) : text[i].arg.name = name
  BY FirstOfName
<1> DEFINE t == Append(text, l)
           n == Len(text)
           O == Openings(text, key)
           P == Openings(t, key)
           A(i) == SectionAt(text, i)
           B(i) == SectionAt(t, i)
           New == /\ Says(l, key)
                  /\ \A j \in 1..n : Says(text[j], key) => text[j].arg.name # l.arg.name
<1>1. n \in Nat /\ DOMAIN text = 1..n
  BY OneMore
<1>2. O \in SUBSET (1..n)
  BY <1>1 DEF Openings
<1>3. P = O \cup IF New THEN {n + 1} ELSE {}
  BY OpeningsMore
<1>4. ~Closed(t, n + 1) /\ \A i \in 1..n : Closed(t, i)
  BY ClosedMore
<1>5. \A i \in 1..n : B(i) = A(i)
  BY SectionGoesOn
<1>6. B(n + 1) = DefaultSubsystem(l.arg.name)
  BY SectionBegun
<1>7. /\ Range(s) = {A(i) : i \in {j \in O : Closed(text, j)}}
      /\ \A i \in O : Closed(text, i) \/ (sec = key /\ sub = A(i))
      /\ sec = key => \E i \in O : ~Closed(text, i)
  BY DEF SectionsRead
<1>8. Range(e) = IF sec = key THEN Range(s) \cup {sub} ELSE Range(s)
  <2>1. CASE sec = key
    <3>1. e = Append(s, sub)
      BY <2>1
    <3>2. /\ e \in Seq(Sections) /\ Len(e) = Len(s) + 1 /\ Len(s) \in Nat
          /\ \A i \in 1..Len(s) : e[i] = s[i]
          /\ e[Len(s) + 1] = sub
      BY <3>1, AppendProperties, LenProperties
    <3>3. DOMAIN s = 1..Len(s) /\ DOMAIN e = 1..Len(e)
      BY <3>2, LenProperties
    <3> DEFINE m == Len(s)
    <3> HIDE DEF m
    <3>4. /\ m \in Nat /\ DOMAIN s = 1..m /\ DOMAIN e = 1..(m + 1)
          /\ \A i \in 1..m : e[i] = s[i]
          /\ e[m + 1] = sub
      BY <3>2, <3>3 DEF m
    <3>5. \A i \in 1..(m + 1) : i \in 1..m \/ i = m + 1
      BY <3>4
    <3>6. m + 1 \in 1..(m + 1) /\ \A i \in 1..m : i \in 1..(m + 1)
      BY <3>4
    <3>7. Range(e) = Range(s) \cup {sub}
      BY <3>4, <3>5, <3>6 DEF Range
    <3> QED BY <2>1, <3>7
  <2> QED BY <2>1
<1>9. Range(e) = {A(i) : i \in O}
  <2> HIDE DEF O, A
  <2>1. CASE sec = key
    <3>1. PICK i \in O : ~Closed(text, i)
      BY <1>7, <2>1
    <3>2. sub = A(i)
      BY <1>7, <3>1
    <3>3. \A j \in O : Closed(text, j) \/ A(j) = sub
      BY <1>7
    <3>4. Range(e) = {A(j) : j \in {k \in O : Closed(text, k)}} \cup {sub}
      BY <1>7, <1>8, <2>1
    <3> QED BY <3>1, <3>2, <3>3, <3>4
  <2>2. CASE sec # key
    <3>1. \A j \in O : Closed(text, j)
      BY <1>7, <2>2
    <3>2. Range(e) = {A(j) : j \in {k \in O : Closed(text, k)}}
      BY <1>7, <1>8, <2>2
    <3> QED BY <3>1, <3>2
  <2> QED BY <2>1, <2>2
<1>10. (\E i \in DOMAIN e : e[i].name = l.arg.name)
         <=> \E j \in 1..n : Says(text[j], key) /\ text[j].arg.name = l.arg.name
  <2>1. (\E j \in 1..n : Says(text[j], key) /\ text[j].arg.name = l.arg.name)
          <=> \E i \in O : text[i].arg.name = l.arg.name
    BY <1>0
  <2>2. \A i : A(i).name = text[i].arg.name
    BY DEF SectionAt
  <2>3. (\E i \in DOMAIN e : e[i].name = l.arg.name) <=> \E x \in Range(e) : x.name = l.arg.name
    BY DEF Range
  <2> HIDE DEF O, A
  <2>4. (\E x \in Range(e) : x.name = l.arg.name) <=> \E i \in O : A(i).name = l.arg.name
    BY <1>9
  <2> QED BY <2>1, <2>2, <2>3, <2>4
<1>11. after = key <=> New
  BY <1>10
<1> HIDE DEF t, n, O, P, A, B, New
<1>12. Range(e) = {B(i) : i \in {j \in P : Closed(t, j)}}
  <2>1. {j \in P : Closed(t, j)} = O
    BY <1>2, <1>3, <1>4
  <2>2. {B(i) : i \in O} = {A(i) : i \in O}
    BY <1>2, <1>5
  <2> QED BY <1>9, <2>1, <2>2
<1>13. \A i \in P : Closed(t, i) \/ (after = key /\ begun = B(i))
  <2>1. ASSUME NEW i \in P PROVE Closed(t, i) \/ (New /\ i = n + 1)
    BY <1>2, <1>3, <1>4
  <2>2. New => after = key /\ begun = B(n + 1)
    BY <1>6, <1>11
  <2> QED BY <2>1, <2>2
<1>14. after = key => \E i \in P : ~Closed(t, i)
  BY <1>3, <1>4, <1>11
<1> QED BY <1>12, <1>13, <1>14 DEF SectionsRead, t, P, B

\* A line that is an option, or nothing that is known.
LEMMA SectionsAfterOption ==
  ASSUME NEW s, NEW sec, NEW sub, NEW more, NEW key \in {"subsystem", "driver"},
         NEW text \in Seq(TextLine), NEW l \in TextLine,
         l.key \notin Enders, SectionsRead(s, sec, sub, text, key),
         sec = key => more = ParseOption(sub, l)
  PROVE  SectionsRead(s, sec, more, Append(text, l), key)
<1> DEFINE t == Append(text, l)
           n == Len(text)
           O == Openings(text, key)
           P == Openings(t, key)
           A(i) == SectionAt(text, i)
           B(i) == SectionAt(t, i)
<1>1. O \in SUBSET (1..n)
  BY OneMore DEF Openings
<1>2. P = O
  <2>1. ~Says(l, key)
    BY DEF Says, Enders, SectionKeys
  <2>2. P = O \cup {}
    BY <2>1, OpeningsMore
  <2> QED BY <2>2
<1>3. \A i \in 1..n : Closed(t, i) <=> Closed(text, i)
  BY ClosedMore
<1>4. \A i \in 1..n : B(i) = IF Closed(text, i) THEN A(i) ELSE ParseOption(A(i), l)
  BY SectionGoesOn
<1>5. /\ Range(s) = {A(i) : i \in {j \in O : Closed(text, j)}}
      /\ \A i \in O : Closed(text, i) \/ (sec = key /\ sub = A(i))
      /\ sec = key => \E i \in O : ~Closed(text, i)
  BY DEF SectionsRead
<1> HIDE DEF t, n, O, P, A, B
<1>6. Range(s) = {B(i) : i \in {j \in P : Closed(t, j)}}
  <2> DEFINE D == {j \in O : Closed(text, j)}
  <2>1. {j \in P : Closed(t, j)} = D
    BY <1>1, <1>2, <1>3
  <2>2. \A i \in D : B(i) = A(i)
    BY <1>1, <1>4
  <2>3. Range(s) = {A(i) : i \in D}
    BY <1>5
  <2> HIDE DEF D
  <2>4. {A(i) : i \in D} = {B(i) : i \in D}
    BY <2>2
  <2> QED BY <2>1, <2>3, <2>4
<1>7. \A i \in P : Closed(t, i) \/ (sec = key /\ more = B(i))
  <2>1. ASSUME NEW i \in P, ~Closed(t, i) PROVE sec = key /\ more = B(i)
    <3>1. i \in O /\ i \in 1..n /\ ~Closed(text, i)
      BY <1>1, <1>2, <1>3, <2>1
    <3>2. sec = key /\ sub = A(i)
      BY <1>5, <3>1
    <3>3. more = ParseOption(A(i), l)
      BY <3>2
    <3> QED BY <1>4, <3>1, <3>2, <3>3
  <2> QED BY <2>1
<1>8. sec = key => \E i \in P : ~Closed(t, i)
  BY <1>1, <1>2, <1>3, <1>5
<1> QED BY <1>6, <1>7, <1>8 DEF SectionsRead, t, P, B

\* The end of a section adds it to its list.
LEMMA EndSectionKeys ==
  ASSUME ParserInv, NEW key \in {"subsystem", "driver"}
  PROVE  /\ EndSection[key] = IF section = key THEN Append(config[key], subsystem) ELSE config[key]
         /\ config[key] \in Seq(Sections) /\ subsystem \in Sections
<1>1. DOMAIN config = DOMAIN DefaultConfig /\ {"subsystem", "driver"} \subseteq DOMAIN config
  BY ConfigFields DEF ParserInv, ConfigRight
<1>2. config[key] \in Seq(Sections) /\ subsystem \in Sections
  BY DEF ParserInv, ConfigRight
<1>3. CASE section \in {"subsystem", "driver"}
  <2>1. EndSection = [config EXCEPT ![section] = Append(@, subsystem)]
    BY <1>3 DEF EndSection
  <2>2. EndSection[section] = Append(config[section], subsystem)
    BY <1>1, <1>3, <2>1
  <2>3. key # section => EndSection[key] = config[key]
    BY <1>1, <1>3, <2>1
  <2> QED BY <1>2, <2>2, <2>3
<1>4. CASE section \notin {"subsystem", "driver"}
  BY <1>2, <1>4 DEF EndSection
<1> QED BY <1>3, <1>4

\* What becomes of the open section.
LEMMA SectionsAfterStep ==
  ASSUME ParserInv, NEW text \in Seq(TextLine), SectionsSay(config, section, subsystem, text)
  PROVE  /\ LineCallback \/ SectionStart \/ SectionLine =>
              SectionsSay(config', section', subsystem', Append(text, Head(lines)))
         /\ EndOfFile => SectionsSay(config', section', subsystem', Append(text, EndMark))
<1> DEFINE l == Head(lines)
<1>1. ASSUME NEW m \in TextLine, m.key \in Enders, NEW key \in {"subsystem", "driver"},
             config'[key] = EndSection[key],
             section' = key <=> Says(m, key) /\ ~IsDuplicate(EndSection, key, m.arg.name),
             section' = key => subsystem' = DefaultSubsystem(m.arg.name)
      PROVE  SectionsRead(config'[key], section', subsystem', Append(text, m), key)
  <2> DEFINE s == config[key]
             e == config'[key]
             sec2 == section'
             sub2 == subsystem'
  <2>1. /\ s \in Seq(Sections) /\ subsystem \in Sections
        /\ e = IF section = key THEN Append(s, subsystem) ELSE s
    BY <1>1, EndSectionKeys
  <2>2. SectionsRead(s, section, subsystem, text, key)
    BY <1>1 DEF SectionsSay
  <2>3. sec2 = key <=> Says(m, key) /\ ~\E i \in DOMAIN e : e[i].name = m.arg.name
    BY <1>1 DEF IsDuplicate
  <2>4. sec2 = key => sub2 = DefaultSubsystem(m.arg.name)
    BY <1>1
  <2> HIDE DEF s, e, sec2, sub2
  <2>5. SectionsRead(e, sec2, sub2, Append(text, m), key)
    BY <1>1, <2>1, <2>2, <2>3, <2>4, SectionsAfterEnd
  <2> QED BY <2>5 DEF e, sec2, sub2
<1>2. ASSUME LineCallback \/ SectionStart \/ SectionLine PROVE lines # <<>> /\ l \in AnyLine /\ l \in TextLine
  BY <1>2, LineRead, LinesSay DEF LineCallback, SectionStart, SectionLine, NextLine
<1>3. CASE LineCallback
  <2>1. /\ l.key \in Range(LineCallbacks) /\ config' = ParseLine(EndSection, l.key, l.arg)
        /\ section' = "none"
    BY <1>3, CallbackOfKey DEF LineCallback
  <2>2. config'.subsystem = EndSection.subsystem /\ config'.driver = EndSection.driver
    BY <2>1, CallbackFields, EndSectionFields
  <2>3. \A key \in {"subsystem", "driver"} : ~Says(l, key) /\ section' # key
    BY <2>1, OtherKeys DEF Says, SectionKeys
  <2>4. l.key \in Enders /\ l \in TextLine
    BY <1>2, <1>3, <2>1 DEF Enders
  <2> HIDE DEF l
  <2>5. SectionsSay(config', section', subsystem', Append(text, l))
    BY <1>1, <2>2, <2>3, <2>4 DEF SectionsSay
  <2> QED BY <1>2, <1>3, <2>5 DEF l, EndOfFile
<1>4. CASE SectionStart
  <2>1. /\ l.key \in SectionKeys /\ config' = EndSection
        /\ ParseSubsystemSection(l) \/ ParseImportSection(l)
    BY <1>4 DEF SectionStart
  <2>2. l.key \in Enders /\ l \in TextLine
    BY <1>2, <1>4, <2>1 DEF Enders
  <2> HIDE DEF l
  <2>3. ASSUME NEW key \in {"subsystem", "driver"}
        PROVE  /\ section' = key <=> Says(l, key) /\ ~IsDuplicate(EndSection, key, l.arg.name)
               /\ section' = key => subsystem' = DefaultSubsystem(l.arg.name)
    BY <2>1 DEF ParseSubsystemSection, ParseImportSection, Says
  <2>4. SectionsSay(config', section', subsystem', Append(text, l))
    BY <1>1, <2>1, <2>2, <2>3 DEF SectionsSay
  <2> QED BY <1>2, <1>4, <2>4 DEF l, EndOfFile
<1>5. CASE SectionLine
  <2>1. /\ l.key \notin SectionKeys /\ l.key \notin Range(LineCallbacks)
        /\ config' = config /\ section' = section
        /\ section \in {"subsystem", "driver"} => subsystem' = ParseOption(subsystem, l)
    BY <1>5, CallbackOfKey DEF SectionLine
  <2>2. l \in TextLine /\ l.key \notin Enders
    <3>1. l.key # EndMark.key
      BY <1>2, <1>5, FilesAssumption DEF AnyLine
    <3> QED BY <1>2, <1>5, <2>1, <3>1 DEF Enders
  <2> HIDE DEF l
  <2>3. ASSUME NEW key \in {"subsystem", "driver"}
        PROVE  SectionsRead(config'[key], section', subsystem', Append(text, l), key)
    <3> DEFINE s == config[key]
               sub2 == subsystem'
    <3>1. SectionsRead(s, section, subsystem, text, key)
      BY DEF SectionsSay
    <3>2. section = key => sub2 = ParseOption(subsystem, l)
      BY <2>1
    <3> HIDE DEF s, sub2
    <3>3. SectionsRead(s, section, sub2, Append(text, l), key)
      BY <2>2, <3>1, <3>2, SectionsAfterOption
    <3> QED BY <2>1, <3>3 DEF s, sub2
  <2>4. SectionsSay(config', section', subsystem', Append(text, l))
    BY <2>3 DEF SectionsSay
  <2> QED BY <1>2, <1>5, <2>4 DEF l, EndOfFile
<1>6. CASE EndOfFile
  <2>1. config' = EndSection /\ section' = "none" /\ lines = <<>>
    BY <1>6 DEF EndOfFile
  <2>2. EndMark \in TextLine /\ EndMark.key \in Enders
    BY LinesSay DEF Enders
  <2>3. \A key \in {"subsystem", "driver"} : ~Says(EndMark, key) /\ section' # key
    BY <2>1 DEF Says, EndMark
  <2>4. SectionsSay(config', section', subsystem', Append(text, EndMark))
    BY <1>1, <2>1, <2>2, <2>3 DEF SectionsSay
  <2> QED BY <2>1, <2>4 DEF LineCallback, SectionStart, SectionLine, NextLine
<1> QED BY <1>3, <1>4, <1>5, <1>6

-----------------------------------------------------------------------------
(* The configuration is what the lines read so far say *)

TextSays(c, sec, sub, text) ==
  /\ ListsSay(c, text) /\ SettingsSay(c, text) /\ HandlersSay(c, text)
  /\ SectionsSay(c, sec, sub, text)

ReadUpTo(text) ==
  AllLines = text \o StillToRead /\ TextSays(config, section, subsystem, text)

ReadInv ==
  /\ \E text \in Seq(TextLine) : ReadUpTo(text)
  /\ parsing = "done" => todo = <<>>

\* The default configuration is what no lines say.
LEMMA NothingSaid ==
  ASSUME NEW sub
  PROVE  TextSays(DefaultConfig, "none", sub, <<>>)
<1> DEFINE c == DefaultConfig
<1>1. ListsSay(c, <<>>)
  BY DirectoriesMore, RulesMore DEF ListsSay, DefaultConfig
<1>2. SettingsSay(c, <<>>)
  <2>1. \A key, words, default : LastWord(<<>>, key, words, default) = default
    BY LastWordNone
  <2>2. c.modaliasHandling = TRUE /\ c.parallelMainLoop = FALSE
    BY DEF DefaultConfig
  <2>3. c.rcvbufSize = "16M" /\ c.maxWorkers = "unset"
    BY DEF DefaultConfig
  <2>4. /\ Switch(<<>>, "modalias_handling", "enabled") = TRUE
        /\ Switch(<<>>, "parallel_ueventd_main_loop", "disabled") = FALSE
    BY <2>1 DEF Switch
  <2> HIDE DEF c
  <2>5. c.modaliasHandling = Switch(<<>>, "modalias_handling", "enabled")
    BY <2>2, <2>4
  <2>6. c.parallelMainLoop = Switch(<<>>, "parallel_ueventd_main_loop", "disabled")
    BY <2>2, <2>4
  <2> QED BY <2>1, <2>3, <2>5, <2>6, ZenonT(60) DEF SettingsSay
<1>3. HandlersSay(c, <<>>)
  <2>1. \A r : ForRequest(<<>>, r) = {} /\ LinesFor(<<>>, r) = {}
    BY DEF ForRequest, LinesFor
  <2>2. c.externalFirmwareHandlers = <<>>
    BY DEF DefaultConfig
  <2> HIDE DEF c
  <2> QED BY <2>1, <2>2 DEF HandlersSay
<1>4. SectionsSay(c, "none", sub, <<>>)
  <2>1. \A key : Openings(<<>>, key) = {}
    BY DEF Openings
  <2>2. c["subsystem"] = <<>> /\ c["driver"] = <<>> /\ Range(<<>>) = {}
    BY DEF DefaultConfig, Range
  <2> HIDE DEF c
  <2> QED BY <2>1, <2>2 DEF SectionsSay, SectionsRead
<1> QED BY <1>1, <1>2, <1>3, <1>4 DEF TextSays

\* At the start nothing has been read.
LEMMA InitRead ==
  ASSUME RcInit, ParserInv
  PROVE  ReadInv
<1>1. /\ files \in FileSystems /\ todo = Configs /\ parsing = "next" /\ config = DefaultConfig
      /\ section = "none"
  BY DEF RcInit, ParserInit
<1>2. AllLines = StillToRead /\ StillToRead \in Seq(TextLine)
  BY <1>1, StillToReadType DEF AllLines, StillToRead
<1>3. AllLines = <<>> \o StillToRead /\ <<>> \in Seq(TextLine)
  BY <1>2, ConcatEmptySeq, EmptySeq
<1>4. ReadUpTo(<<>>)
  BY <1>1, <1>3, NothingSaid DEF ReadUpTo
<1> QED BY <1>1, <1>3, <1>4 DEF ReadInv

\* A line goes from what is still to read to what has been read.
LEMMA ReadMore ==
  ASSUME ParserInv, ParserInv', NEW text \in Seq(TextLine), ReadUpTo(text), NEW m \in TextLine,
         files' = files, StillToRead = <<m>> \o StillToRead',
         FieldsRead(config, config', m),
         SectionsSay(config', section', subsystem', Append(text, m))
  PROVE  ReadUpTo(Append(text, m))'
<1> DEFINE c == config
           d == config'
           t == Append(text, m)
           S == StillToRead
           Z == StillToRead'
           A == AllLines
<1>1. AllLines' = A
  BY DEF AllLines
<1>2. A = text \o S
  BY DEF ReadUpTo
<1>3. S \in Seq(TextLine) /\ Z \in Seq(TextLine)
  BY StillToReadType
<1>4. <<m>> \in Seq(TextLine) /\ t = text \o <<m>>
  BY AppendIsConcat
<1>5. /\ ListsSay(c, text) /\ SettingsSay(c, text) /\ HandlersSay(c, text)
      /\ c.externalFirmwareHandlers \in Seq(HandlerLines) /\ FieldsRead(c, d, m)
  BY DEF ReadUpTo, TextSays, ParserInv, ConfigRight
<1> HIDE DEF c, d, S, Z, A
<1>6. ListsSay(d, Append(text, m)) /\ SettingsSay(d, Append(text, m)) /\ HandlersSay(d, Append(text, m))
  BY <1>5, ListsAfterLine, SettingsAfterLine, HandlersAfterLine
<1> HIDE DEF t
<1>7. S = <<m>> \o Z
  BY DEF S, Z
<1>8. (text \o <<m>>) \o Z = text \o (<<m>> \o Z)
  BY <1>3, <1>4, TextParts
<1>9. A = t \o Z
  BY <1>2, <1>4, <1>7, <1>8
<1>10. TextSays(config', section', subsystem', t)
  BY <1>6 DEF TextSays, t, d
<1> QED BY <1>1, <1>9, <1>10 DEF ReadUpTo, t, A, Z

\* Every step keeps what has been read and what it says together.
LEMMA ReadKeeps ==
  ASSUME ParserInv, ParserInv', ReadInv, [RcNext]_rcVars
  PROVE  ReadInv'
<1>1. PICK text \in Seq(TextLine) : ReadUpTo(text)
  BY DEF ReadInv
<1>2. SectionsSay(config, section, subsystem, text)
  BY <1>1 DEF ReadUpTo, TextSays
<1>3. CASE LineCallback \/ SectionStart \/ SectionLine
  <2>0. PICK m \in TextLine : m = Head(lines)
    BY <1>3, LineRead, LinesSay
  <2>1. files' = files /\ parsing' = "lines"
    BY <1>3 DEF LineCallback, SectionStart, SectionLine, NextLine
  <2>2. StillToRead = <<m>> \o StillToRead'
    BY <1>3, <2>0, LineRead
  <2>3. FieldsRead(config, config', m)
    BY <1>3, <2>0, FieldsAfterLine
  <2>4. SectionsSay(config', section', subsystem', Append(text, m))
    BY <1>2, <1>3, <2>0, SectionsAfterStep
  <2>5. ReadUpTo(Append(text, m))'
    BY <1>1, <2>1, <2>2, <2>3, <2>4, ReadMore
  <2>6. Append(text, m) \in Seq(TextLine)
    BY AppendProperties
  <2> QED BY <2>1, <2>5, <2>6 DEF ReadInv
<1>4. CASE EndOfFile
  <2>1. files' = files /\ parsing' = "next"
    BY <1>4 DEF EndOfFile
  <2>2. EndMark \in TextLine /\ StillToRead = <<EndMark>> \o StillToRead'
    BY <1>4, EndMarkRead, LinesSay
  <2>3. FieldsRead(config, config', EndMark)
    BY <1>4, FieldsAfterLine
  <2>4. SectionsSay(config', section', subsystem', Append(text, EndMark))
    BY <1>2, <1>4, SectionsAfterStep
  <2>5. ReadUpTo(Append(text, EndMark))'
    BY <1>1, <2>1, <2>2, <2>3, <2>4, ReadMore
  <2>6. Append(text, EndMark) \in Seq(TextLine)
    BY <2>2, AppendProperties
  <2> QED BY <2>1, <2>5, <2>6 DEF ReadInv
\* Nothing is read, and what is still to read stays the same.
<1>5. ASSUME files' = files, StillToRead' = StillToRead,
             config' = config, section' = section, subsystem' = subsystem,
             parsing' = "done" => todo' = <<>>
      PROVE  ReadInv'
  <2>1. AllLines' = AllLines
    BY <1>5 DEF AllLines
  <2>2. ReadUpTo(text)'
    BY <1>1, <1>5, <2>1 DEF ReadUpTo
  <2> QED BY <1>5, <2>2 DEF ReadInv
<1>6. CASE OpenFile \/ OpenDirectory \/ SkipMissing
  <2>1. /\ files' = files /\ config' = config /\ section' = section /\ subsystem' = subsystem
        /\ parsing' # "done"
    BY <1>6 DEF OpenFile, OpenDirectory, SkipMissing
  <2>2. StillToRead' = StillToRead
    BY <1>6, PathOpened
  <2> QED BY <1>5, <2>1, <2>2
<1>7. CASE ConstructHandler
  <2>1. /\ parsing = "next" /\ parsing' = "done" /\ todo = <<>>
        /\ UNCHANGED <<files, todo, lines, section, subsystem, imports, config>>
    BY <1>7 DEF ConstructHandler, ConfigParsed, AllParsed
  <2>2. StillToRead' = StillToRead
    BY <2>1 DEF StillToRead
  <2> QED BY <1>5, <2>1, <2>2
<1>8. CASE UNCHANGED parserVars
  <2>1. UNCHANGED <<files, todo, parsing, lines, section, subsystem, imports, config>>
    BY <1>8 DEF parserVars
  <2>2. StillToRead' = StillToRead
    BY <2>1 DEF StillToRead
  <2> QED BY <1>5, <2>1, <2>2 DEF ReadInv
<1> QED BY <1>3, <1>4, <1>6, <1>7, <1>8 DEF RcNext, ParserStep, rcVars

\* At every time the lines are those that have been read and those that are still to read,
\* and the configuration and the open section are what the former say.
LEMMA ReadInvariant == RcSpec => []ReadInv
<1>1. RcInit /\ ParserInv => ReadInv
  BY InitRead
<1>2. ParserInv /\ ParserInv' /\ ReadInv /\ [RcNext]_rcVars => ReadInv'
  BY ReadKeeps
<1>3. RcInv => ParserInv
  BY DEF RcInv
<1> QED BY <1>1, <1>2, <1>3, RcInvariant, PTL DEF RcSpec

\* Once there is nothing more to read, the configuration is what all lines say.
LEMMA AllRead ==
  ASSUME ParserInv, ReadInv, AllParsed \/ parsing = "done"
  PROVE  /\ section = "none" /\ AllLines \in Seq(TextLine)
         /\ TextSays(config, section, subsystem, AllLines)
<1>1. PICK text \in Seq(TextLine) : ReadUpTo(text)
  BY DEF ReadInv
<1>2. /\ files \in FileSystems /\ todo = <<>> /\ parsing # "lines" /\ section = "none"
  BY DEF ReadInv, ParserInv, AllParsed
<1>3. StillToRead = <<>>
  BY <1>2, PathsSay DEF StillToRead
<1>4. AllLines = text
  BY <1>1, <1>3, ConcatEmptySeq DEF ReadUpTo
<1> QED BY <1>1, <1>2, <1>4 DEF ReadUpTo

\* Whatever files and imports there are, what ParseConfig returns is what they say: the rules
\* and the directories in the order of the lines, the last good value of each setting, and
\* each subsystem and driver with the options that stand in its own section.
THEOREM ParsedAsWritten == RcSpec => []ConfigurationAsWritten
<1>1. ASSUME ParserInv, ReadInv PROVE ConfigurationAsWritten
  <2>1. ListsInOrder
    BY <1>1, AllRead DEF ListsInOrder, TextSays, ListsSay
  <2>2. LastSettingWins
    BY <1>1, AllRead DEF LastSettingWins, TextSays, SettingsSay
  <2>3. OptionsOfOwnSection
    <3> SUFFICES ASSUME AllParsed, NEW key \in {"subsystem", "driver"}
                 PROVE  Range(config[key]) = {SectionAt(AllLines, i) : i \in Openings(AllLines, key)}
      BY DEF OptionsOfOwnSection
    <3> DEFINE t == AllLines
               O == Openings(t, key)
               A(i) == SectionAt(t, i)
               s == config[key]
    <3>1. section = "none" /\ SectionsRead(s, section, subsystem, t, key)
      BY <1>1, AllRead DEF TextSays, SectionsSay
    <3>2. /\ Range(s) = {A(i) : i \in {j \in O : Closed(t, j)}}
          /\ \A i \in O : Closed(t, i)
      BY <3>1 DEF SectionsRead
    <3> HIDE DEF t, O, A, s
    <3>3. {j \in O : Closed(t, j)} = O
      BY <3>2
    <3>4. Range(s) = {A(i) : i \in O}
      BY <3>2, <3>3
    <3> QED BY <3>4 DEF t, O, A, s
  <2> QED BY <2>1, <2>2, <2>3 DEF ConfigurationAsWritten
<1>2. RcInv => ParserInv
  BY DEF RcInv
<1> QED BY <1>1, <1>2, RcInvariant, ReadInvariant, PTL

\* Whatever lines there are for handlers, a request is served by the handler of the first one
\* that matches it: the line that is refused because of another with its devpath would have
\* matched nothing that the other does not.
LEMMA FirstLineDecides == RcSpec => []HandlerOfFirstLine
<1>1. ASSUME ParserInv, ReadInv, AnsweredInv PROVE HandlerOfFirstLine
  <2> SUFFICES ASSUME parsing = "done", NEW r \in asks
               PROVE  IF LineFor(r) = 0 THEN HandlerFor(r) = 0
                      ELSE /\ HandlerFor(r) # 0
                           /\ handlers[HandlerFor(r)].path = AllLines[LineFor(r)].arg.path
    BY DEF HandlerOfFirstLine
  <2> DEFINE t == AllLines
             I == ForRequest(handlers, r)
             K == LinesFor(t, r)
  <2>1. r \in Requests /\ handlers = config.externalFirmwareHandlers
    BY <1>1 DEF AnsweredInv, FirmwareInv, KernelRight, HandlerRight
  <2>2. t \in Seq(TextLine) /\ HandlersSay(config, t)
    BY <1>1, AllRead DEF TextSays
  <2>3. (I = {} <=> K = {}) /\ (K # {} => handlers[Min(I)].path = t[Min(K)].arg.path)
    BY <2>1, <2>2 DEF HandlersSay
  <2>4. LineFor(r) = IF K # {} THEN Min(K) ELSE 0
    BY DEF LineFor, SelectInSeq, LinesFor
  <2>5. HandlerFor(r) = IF I # {} THEN Min(I) ELSE 0
    BY DEF HandlerFor, SelectInSeq, ForRequest
  <2>6. handlers \in Seq(HandlerLines)
    BY <1>1, <2>1 DEF ParserInv, ConfigRight
  <2>7. Len(t) \in Nat /\ Len(handlers) \in Nat
    BY <2>2, <2>6, LenProperties
  <2>8. (I # {} => Min(I) # 0) /\ (K # {} => Min(K) # 0)
    <3>1. I \in SUBSET (1..Len(handlers)) /\ K \in SUBSET (1..Len(t))
      BY DEF ForRequest, LinesFor
    <3> HIDE DEF I, K, t
    <3>2. (I # {} => Min(I) \in I) /\ (K # {} => Min(K) \in K)
      BY <2>7, <3>1, SmallestOfSome
    <3> QED BY <3>1, <3>2
  <2> HIDE DEF I, K, t
  <2>9. CASE K = {}
    BY <2>3, <2>4, <2>5, <2>9
  <2>10. CASE K # {}
    BY <2>3, <2>4, <2>5, <2>8, <2>10 DEF t
  <2> QED BY <2>9, <2>10
<1>2. RcInv => ParserInv /\ AnsweredInv
  BY DEF RcInv
<1> QED BY <1>1, <1>2, RcInvariant, ReadInvariant, PTL

\* The files decide how a request ends: whatever they say, whatever the processes do and in
\* whatever order, the handler is that of the first line that matches and the image is the one
\* that the files name.
THEOREM FilesDecide == RcSpec => []ServedAsConfigured
<1>1. ASSUME AnsweredInv, ConfigurationAsWritten, HandlerOfFirstLine PROVE ServedAsConfigured
  <2>1. /\ KernelRight /\ HandlerRight /\ \A r \in Requests : AnswerRight(r)
    BY <1>1 DEF AnsweredInv, FirmwareInv
  <2>2. ASSUME parsing = "done" PROVE SaidDirectories = SearchedDirectories
    BY <1>1, <2>1, <2>2 DEF ConfigurationAsWritten, ListsInOrder, HandlerRight, SaidDirectories,
                            SearchedDirectories
  <2>3. ASSUME parsing = "done", NEW r \in asks PROVE NamesSaid(r) = FirmwarePaths(r)
    BY <1>1, <2>3 DEF HandlerOfFirstLine, NamesSaid, FirmwarePaths
  <2>4. ASSUME NEW r \in Requests, request[r] # "none"
        PROVE  parsing = "done" /\ r \in asks
    BY <2>1, <2>4 DEF KernelRight, HandlerRight
  <2>5. CommittedImage
    <3>1. ASSUME NEW r \in Requests, request[r] = "done", announced[r] = 1, r \notin hampered
          PROVE  \E n \in NamesSaid(r) :
                   LET Has(d) == n \in Images[d]
                       i == SelectInSeq(SaidDirectories, Has)
                   IN  i # 0 /\ buffer[r] = SaidDirectories[i]
      <4>1. PICK n \in FirmwarePaths(r) :
              FirstWith(n) # 0 /\ buffer[r] = SearchedDirectories[FirstWith(n)]
        BY <2>1, <3>1 DEF AnswerRight
      <4>2. SaidDirectories = SearchedDirectories /\ n \in NamesSaid(r)
        BY <2>2, <2>3, <2>4, <3>1, <4>1
      <4> QED BY <4>1, <4>2 DEF FirstWith, SelectInSeq
    <3> QED BY <3>1 DEF CommittedImage
  <2>6. AbortedForAReason
    <3> SUFFICES ASSUME NEW r \in Requests, request[r] = "aborted", r \notin hampered
                 PROVE  \E n \in NamesSaid(r) :
                          \A i \in 1..Len(SaidDirectories) : n \notin Images[SaidDirectories[i]]
      BY DEF AbortedForAReason
    <3>1. PICK n \in FirmwarePaths(r) : FirstWith(n) = 0
      BY <2>1 DEF AnswerRight
    <3> QED BY <2>2, <2>3, <2>4, <3>1, NothingFound
  <2> QED BY <1>1, <2>5, <2>6 DEF ServedAsConfigured
<1> QED BY AnsweredInvariant, ParsedAsWritten, FirstLineDecides, <1>1, PTL

-----------------------------------------------------------------------------
(* Imports override *)

\* The lines with a rule for the node, and the rules for it.
DevRule(l, node) == Says(l, "/dev/") /\ Match(l.arg.rule, node)
RuleLines(text, node) == {k \in 1..Len(text) : DevRule(text[k], node)}
ForNode(rules, node) == {i \in 1..Len(rules) : Match(rules[i], node)}

\* The last rule for a node is that of the last line with one.
LastRule(text, node) ==
  LET I == ForNode(Rules(text, "/dev/"), node)
      K == RuleLines(text, node)
  IN  /\ I = {} <=> K = {}
      /\ K # {} => Rules(text, "/dev/")[Max(I)] = text[Max(K)].arg.rule

\* One more line adds itself to the lines with a rule, if it has one.
LEMMA RuleLinesMore ==
  ASSUME NEW text \in Seq(TextLine), NEW l \in TextLine, NEW node
  PROVE  RuleLines(Append(text, l), node) =
           RuleLines(text, node) \cup IF DevRule(l, node) THEN {Len(text) + 1} ELSE {}
<1> DEFINE t == Append(text, l)
           n == Len(text)
           D(x) == DevRule(x, node)
<1>1. /\ n \in Nat /\ Len(t) = n + 1 /\ t[n + 1] = l /\ \A i \in 1..n : t[i] = text[i]
      /\ \A i \in 1..(n + 1) : i \in 1..n \/ i = n + 1
  BY OneMore
<1>2. /\ RuleLines(t, node) = {k \in 1..(n + 1) : D(t[k])}
      /\ RuleLines(text, node) = {k \in 1..n : D(text[k])}
  BY <1>1 DEF RuleLines
<1> HIDE DEF t, n, D
<1>3. n + 1 \in 1..(n + 1) /\ 1..n \subseteq 1..(n + 1)
  BY <1>1
<1>4. {k \in 1..(n + 1) : D(t[k])} = {k \in 1..n : D(text[k])} \cup IF D(l) THEN {n + 1} ELSE {}
  BY <1>1, <1>3
<1> QED BY <1>2, <1>4 DEF t, n, D

\* One more rule adds itself to the rules for the node, if it matches.
LEMMA ForNodeMore ==
  ASSUME NEW S, NEW rules \in Seq(S), NEW x \in S, NEW node
  PROVE  ForNode(Append(rules, x), node) =
           ForNode(rules, node) \cup IF Match(x, node) THEN {Len(rules) + 1} ELSE {}
<1> DEFINE t == Append(rules, x)
           n == Len(rules)
           D(y) == Match(y, node)
<1>1. /\ n \in Nat /\ Len(t) = n + 1 /\ t[n + 1] = x /\ \A i \in 1..n : t[i] = rules[i]
  BY AppendProperties, LenProperties
<1>2. /\ ForNode(t, node) = {k \in 1..(n + 1) : D(t[k])}
      /\ ForNode(rules, node) = {k \in 1..n : D(rules[k])}
  BY <1>1 DEF ForNode
<1> HIDE DEF t, n, D
<1>3. n + 1 \in 1..(n + 1) /\ 1..n \subseteq 1..(n + 1) /\ \A i \in 1..(n + 1) : i \in 1..n \/ i = n + 1
  BY <1>1
<1>4. {k \in 1..(n + 1) : D(t[k])} = {k \in 1..n : D(rules[k])} \cup IF D(x) THEN {n + 1} ELSE {}
  BY <1>1, <1>3
<1> QED BY <1>2, <1>4 DEF t, n, D

\* The rules of lines are rules.
LEMMA RulesType ==
  \A text \in Seq(TextLine) : Rules(text, "/dev/") \in Seq(AnyRule)
<1> DEFINE V == {text \in Seq(TextLine) : Rules(text, "/dev/") \in Seq(AnyRule)}
<1>all. /\ Rules(<<>>, "/dev/") = <<>>
        /\ \A text \in Seq(TextLine) : \A l \in TextLine :
             Rules(Append(text, l), "/dev/") =
               IF Says(l, "/dev/") THEN Append(Rules(text, "/dev/"), l.arg.rule)
               ELSE Rules(text, "/dev/")
  BY RulesMore
<1>1. <<>> \in V
  BY <1>all, EmptySeq
<1>2. ASSUME NEW text \in Seq(TextLine), NEW l \in TextLine, text \in V
      PROVE  Append(text, l) \in V
  <2>1. l.arg.rule \in AnyRule
    BY DEF AnyRule
  <2>2. Append(text, l) \in Seq(TextLine)
    BY AppendProperties
  <2> DEFINE r == Rules(text, "/dev/")
             x == l.arg.rule
  <2>3. r \in Seq(AnyRule) /\ Rules(Append(text, l), "/dev/") \in {r, Append(r, x)}
    BY <1>all, <1>2
  <2> HIDE DEF r, x
  <2>4. Append(r, x) \in Seq(AnyRule)
    BY <2>1, <2>3, AppendProperties DEF x
  <2> QED BY <2>2, <2>3, <2>4
<1> HIDE DEF V
<1>3. Seq(TextLine) \subseteq V
  BY <1>1, <1>2, SeqInduction
<1> QED BY <1>3 DEF V

\* One more line leaves the last rule that of the last line with one.
LEMMA LastRuleNext ==
  ASSUME NEW text \in Seq(TextLine), NEW l \in TextLine, NEW node, LastRule(text, node)
  PROVE  LastRule(Append(text, l), node)
<1> DEFINE t == Append(text, l)
           n == Len(text)
           r == Rules(text, "/dev/")
           s == Rules(t, "/dev/")
           m == Len(r)
           x == l.arg.rule
           I == ForNode(r, node)
           J == ForNode(s, node)
           K == RuleLines(text, node)
           L == RuleLines(t, node)
           Good == Says(l, "/dev/")
           Matches == Match(x, node)
<1>1. /\ r \in Seq(AnyRule) /\ x \in AnyRule /\ m \in Nat /\ n \in Nat
      /\ t[n + 1] = l /\ \A i \in 1..n : t[i] = text[i]
  BY RulesType, OneMore, LenProperties DEF AnyRule
<1>2. s = IF Good THEN Append(r, x) ELSE r
  BY RulesMore
<1>3. L = K \cup IF Good /\ Matches THEN {n + 1} ELSE {}
  BY RuleLinesMore DEF DevRule
<1>4. I \in SUBSET (1..m) /\ K \in SUBSET (1..n)
  BY DEF ForNode, RuleLines
<1>5. (I = {} <=> K = {}) /\ (K # {} => r[Max(I)] = text[Max(K)].arg.rule)
  BY DEF LastRule
<1>6. /\ I # {} => Max(I) \in I
      /\ Max(I \cup {m + 1}) = m + 1
  BY <1>1, <1>4, LargestOfSome
<1>7. /\ K # {} => Max(K) \in K
      /\ Max(K \cup {n + 1}) = n + 1
  BY <1>1, <1>4, LargestOfSome
<1>8. ASSUME Good
      PROVE  /\ J = I \cup IF Matches THEN {m + 1} ELSE {}
             /\ s[m + 1] = x /\ \A i \in 1..m : s[i] = r[i]
  <2>1. s = Append(r, x)
    BY <1>2, <1>8
  <2> HIDE DEF r, x, s
  <2>2. s[m + 1] = x /\ \A i \in 1..m : s[i] = r[i]
    BY <1>1, <2>1, AppendProperties
  <2>3. J = I \cup IF Matches THEN {m + 1} ELSE {}
    BY <1>1, <2>1, ForNodeMore
  <2> HIDE DEF I, J, m, Matches
  <2> QED BY <2>2, <2>3
<1>9. K # {} => t[Max(K)] = text[Max(K)]
  BY <1>1, <1>4, <1>7
<1>10. (J = {} <=> L = {}) /\ (L # {} => s[Max(J)] = t[Max(L)].arg.rule)
  <2>1. x = l.arg.rule
    OBVIOUS
  <2> HIDE DEF t, n, r, s, m, x, I, J, K, L, Good, Matches
  <2>2. CASE Good /\ Matches
    <3>1. J = I \cup {m + 1} /\ L = K \cup {n + 1}
      BY <1>3, <1>8, <2>2
    <3>2. Max(J) = m + 1 /\ Max(L) = n + 1
      BY <1>6, <1>7, <3>1
    <3>3. s[Max(J)] = t[Max(L)].arg.rule
      BY <1>1, <1>8, <2>1, <2>2, <3>2
    <3> QED BY <3>1, <3>3
  <2>3. CASE ~(Good /\ Matches)
    <3>1. J = I /\ L = K
      <4>1. L = K
        BY <1>3, <2>3
      <4>2. CASE Good
        BY <1>8, <2>3, <4>1, <4>2
      <4>3. CASE ~Good
        <5>1. s = r
          BY <1>2, <4>3
        <5> QED BY <4>1, <5>1 DEF I, J
      <4> QED BY <4>2, <4>3
    <3>2. K # {} => s[Max(I)] = r[Max(I)]
      <4>1. ~Good => s = r
        BY <1>2
      <4> QED BY <1>4, <1>5, <1>6, <1>8, <4>1
    <3> QED BY <1>5, <1>9, <3>1, <3>2
  <2> QED BY <2>2, <2>3
<1> QED BY <1>10 DEF LastRule

\* Whatever lines there are, the last rule for a node is that of the last line with one.
LEMMA LastRuleIsLastLine ==
  ASSUME NEW node
  PROVE  \A text \in Seq(TextLine) : LastRule(text, node)
<1> DEFINE V == {text \in Seq(TextLine) : LastRule(text, node)}
<1>1. <<>> \in V
  <2>1. Rules(<<>>, "/dev/") = <<>>
    BY RulesMore
  <2>2. ForNode(<<>>, node) = {} /\ RuleLines(<<>>, node) = {}
    BY DEF ForNode, RuleLines
  <2>3. LastRule(<<>>, node)
    BY <2>1, <2>2 DEF LastRule
  <2> QED BY <2>3, EmptySeq
<1>2. ASSUME NEW text \in Seq(TextLine), NEW l \in TextLine, text \in V PROVE Append(text, l) \in V
  <2>1. Append(text, l) \in Seq(TextLine)
    BY AppendProperties
  <2> QED BY <1>2, <2>1, LastRuleNext
<1> HIDE DEF V
<1>3. Seq(TextLine) \subseteq V
  BY <1>1, <1>2, SeqInduction
<1> QED BY <1>3 DEF V

\* There is a rule for the node; and behind every rule of R for it there is another.
HasRule(text, node) == \E k \in 1..Len(text) : DevRule(text[k], node)
Followed(text, R, node) ==
  \A i \in 1..Len(text) :
    DevRule(text[i], node) /\ text[i].arg.rule \in R =>
      \E j \in 1..Len(text) : i < j /\ DevRule(text[j], node)

\* What is put behind lines can only add a rule behind theirs.
LEMMA RulesJoin ==
  ASSUME NEW x \in Seq(TextLine), NEW y \in Seq(TextLine), NEW R, NEW node
  PROVE  /\ HasRule(x, node) \/ HasRule(y, node) => HasRule(x \o y, node)
         /\ Followed(y, R, node) /\ (Followed(x, R, node) \/ HasRule(y, node)) =>
              Followed(x \o y, R, node)
<1> DEFINE z == x \o y
           m == Len(x)
           n == Len(y)
           D(l) == DevRule(l, node)
           In(l) == l.arg.rule \in R
<1>1. /\ m \in Nat /\ n \in Nat /\ Len(z) = m + n
      /\ \A i \in 1..(m + n) : z[i] = IF i <= m THEN x[i] ELSE y[i - m]
  BY ConcatProperties, LenProperties
<1>2. \A s : /\ HasRule(s, node) <=> \E k \in 1..Len(s) : D(s[k])
             /\ Followed(s, R, node) <=>
                  \A i \in 1..Len(s) : D(s[i]) /\ In(s[i]) => \E j \in 1..Len(s) : i < j /\ D(s[j])
  BY DEF HasRule, Followed
<1> HIDE DEF z, D, In
<1>3. /\ \A i \in 1..m : i \in 1..(m + n) /\ z[i] = x[i]
      /\ \A i \in 1..n : i + m \in 1..(m + n) /\ z[i + m] = y[i]
      /\ \A i \in 1..(m + n) : i \in 1..m \/ (i - m \in 1..n /\ z[i] = y[i - m])
  <2>1. \A i \in 1..m : i \in 1..(m + n) /\ i <= m
    BY <1>1
  <2>2. \A i \in 1..n : i + m \in 1..(m + n) /\ ~(i + m <= m) /\ (i + m) - m = i
    BY <1>1
  <2>3. \A i \in 1..(m + n) : i \in 1..m \/ (i - m \in 1..n /\ ~(i <= m))
    BY <1>1
  <2> QED BY <1>1, <2>1, <2>2, <2>3
<1>4. ASSUME HasRule(x, node) \/ HasRule(y, node) PROVE HasRule(z, node)
  <2>1. CASE HasRule(x, node)
    <3>1. PICK k \in 1..m : D(x[k])
      BY <1>2, <2>1
    <3> QED BY <1>1, <1>2, <1>3, <3>1
  <2>2. CASE HasRule(y, node)
    <3>1. PICK k \in 1..n : D(y[k])
      BY <1>2, <2>2
    <3>2. k + m \in 1..Len(z) /\ D(z[k + m])
      BY <1>1, <1>3, <3>1
    <3> QED BY <1>2, <3>2
  <2> QED BY <1>4, <2>1, <2>2
<1>5. ASSUME Followed(y, R, node), Followed(x, R, node) \/ HasRule(y, node)
      PROVE  Followed(z, R, node)
  <2> SUFFICES ASSUME NEW i \in 1..(m + n), D(z[i]), In(z[i])
               PROVE  \E j \in 1..(m + n) : i < j /\ D(z[j])
    BY <1>1, <1>2
  <2>1. ASSUME NEW j \in 1..n, D(y[j]), i < j + m PROVE \E k \in 1..(m + n) : i < k /\ D(z[k])
    BY <1>3, <2>1
  <2>2. CASE i \in 1..m
    <3>1. z[i] = x[i] /\ \A j \in 1..n : i < j + m
      BY <1>1, <1>3, <2>2
    <3>2. CASE HasRule(y, node)
      BY <1>2, <2>1, <3>1, <3>2
    <3>3. CASE Followed(x, R, node)
      <4>1. PICK j \in 1..m : i < j /\ D(x[j])
        BY <1>2, <2>2, <3>1, <3>3
      <4> QED BY <1>3, <4>1
    <3> QED BY <1>5, <3>2, <3>3
  <2>3. CASE i \notin 1..m
    <3>1. i - m \in 1..n /\ z[i] = y[i - m]
      BY <1>3, <2>3
    <3>2. PICK j \in 1..n : i - m < j /\ D(y[j])
      BY <1>2, <1>5, <3>1
    <3>3. i < j + m
      BY <1>1, <3>2
    <3> QED BY <2>1, <3>2, <3>3
  <2> QED BY <2>2, <2>3
<1> QED BY <1>4, <1>5 DEF z

\* The rules for a node that p has and no other file.
Alone(p, node) == OwnRules(p, node) \ UNION {OwnRules(o, node) : o \in Paths \ {p}}

\* What the lines of a file have.
LEMMA FileRules ==
  ASSUME files \in FileSystems, NEW x \in Paths, NEW node
  PROVE  LET t == Append(files[x].lines, EndMark) IN
         /\ t \in Seq(TextLine)
         /\ OwnRules(x, node) # {} => HasRule(t, node)
         /\ \A p \in Paths \ {x} : Followed(t, Alone(p, node), node)
<1> DEFINE L == files[x].lines
           t == Append(L, EndMark)
           n == Len(L)
<1>1. L \in Seq(TextLine) /\ EndMark \in TextLine
  BY LinesSay
<1>2. /\ t \in Seq(TextLine) /\ n \in Nat /\ Len(t) = n + 1 /\ DOMAIN L = 1..n
      /\ \A i \in 1..n : t[i] = L[i]
      /\ t[n + 1] = EndMark
      /\ \A i \in 1..(n + 1) : i \in 1..n \/ i = n + 1
  BY <1>1, OneMore
<1>3. ~DevRule(EndMark, node)
  BY DEF DevRule, Says, EndMark
<1>4. \A y : OwnRules(y, node) = {l.arg.rule : l \in {k \in Range(files[y].lines) : DevRule(k, node)}}
  BY DEF OwnRules, DevRule, Says
<1> HIDE DEF L, t, n
<1>5. OwnRules(x, node) = {l.arg.rule : l \in {k \in Range(L) : DevRule(k, node)}}
  BY <1>4 DEF L
<1>6. ASSUME OwnRules(x, node) # {} PROVE HasRule(t, node)
  <2>1. PICK l \in Range(L) : DevRule(l, node)
    BY <1>5, <1>6
  <2>2. PICK i \in 1..n : L[i] = l
    BY <1>2, <2>1 DEF Range
  <2>3. i \in 1..(n + 1)
    BY <1>2
  <2> QED BY <1>2, <2>1, <2>2, <2>3 DEF HasRule
<1>7. ASSUME NEW p \in Paths \ {x} PROVE Followed(t, Alone(p, node), node)
  <2> SUFFICES ASSUME NEW i \in 1..(n + 1), DevRule(t[i], node), t[i].arg.rule \in Alone(p, node)
               PROVE  FALSE
    BY <1>2 DEF Followed
  <2>1. i \in 1..n /\ t[i] = L[i]
    BY <1>2, <1>3
  <2>2. L[i] \in Range(L)
    BY <1>2, <2>1 DEF Range
  <2>3. t[i].arg.rule \in OwnRules(x, node)
    BY <1>5, <2>1, <2>2
  <2> QED BY <1>7, <2>3 DEF Alone
<1> QED BY <1>2, <1>6, <1>7 DEF t, L

\* Wherever a path is parsed, a rule that only p has is followed by another, if p imports one.
LEMMA OverriddenBelow ==
  ASSUME files \in FileSystems, NEW p \in Paths, NEW q \in Range(ImportsIn(files[p].lines)),
         NEW node, OwnRules(q, node) # {}
  PROVE  \A s \in Seq(Paths) : Followed(AllOf(LinesOf(files), s), Alone(p, node), node)
<1> DEFINE T == LinesOf(files)
           R == Alone(p, node)
           G == {t \in Seq(TextLine) : Followed(t, R, node)}
           H == {t \in Seq(TextLine) : HasRule(t, node)}
           V == {n \in Nat : \A x \in Paths : ImportDepth[x] < n => T[x] \in G}
<1>0. ImportDepth \in [Paths -> Nat]
  BY ImportsAcyclic
<1>1. T \in Listings(Paths, TextLine) /\ \A x \in Paths : T[x] = LinesFrom(files, T, x) /\ T[x] \in Seq(TextLine)
  BY LinesOfEquation DEF Texts, Listings
<1>2. /\ <<>> \in G
      /\ \A x, y \in G : x \o y \in G
      /\ \A x \in Seq(TextLine) : \A y \in G \cap H : x \o y \in G
      /\ \A x \in H : \A y \in Seq(TextLine) : x \o y \in H /\ y \o x \in H
  <2>1. <<>> \in G
    BY EmptySeq DEF Followed
  <2>2. \A x, y \in Seq(TextLine) :
          /\ x \o y \in Seq(TextLine)
          /\ HasRule(x, node) \/ HasRule(y, node) => HasRule(x \o y, node)
          /\ Followed(y, R, node) /\ (Followed(x, R, node) \/ HasRule(y, node)) =>
               Followed(x \o y, R, node)
    BY RulesJoin, ConcatProperties
  <2> QED BY <2>1, <2>2
<1>3. \A B \in SUBSET Paths : (\A b \in B : T[b] \in G) => \A s \in Seq(B) : AllOf(T, s) \in G
  <2> SUFFICES ASSUME NEW B \in SUBSET Paths, \A b \in B : T[b] \in G
               PROVE  \A s \in Seq(B) : Gathered(T, s) \in G
    BY AllOfGathered
  <2> HIDE DEF T, G
  <2> QED BY <1>1, <1>2, GatheredAll
<1>4. \A s \in Seq(Paths) : (\E i \in DOMAIN s : T[s[i]] \in H) => AllOf(T, s) \in H
  <2> HIDE DEF T, H
  <2>1. \A s \in Seq(Paths) : (\E i \in DOMAIN s : T[s[i]] \in H) => Gathered(T, s) \in H
    BY <1>1, <1>2, GatheredSome
  <2> QED BY <2>1, AllOfGathered
\* q has a rule, so what p imports has one.
<1>5. q \in Paths /\ T[q] \in H
  <2>1. ImportsIn(files[p].lines) \in Seq(Paths)
    BY LinesSay, ImportsGathered
  <2>2. q \in Paths
    <3> DEFINE s == ImportsIn(files[p].lines)
    <3>1. \A i \in DOMAIN s : s[i] \in Paths
      BY <2>1, LenProperties, ElementOfSeq
    <3> QED BY <3>1 DEF Range
  <2>3. files[q].kind = "file"
    <3>1. files[q].lines # <<>>
      BY DEF OwnRules, Range
    <3> QED BY <2>2, <3>1, FilesAssumption
  <2> DEFINE t == Append(files[q].lines, EndMark)
             u == AllOf(T, ImportsIn(files[q].lines))
  <2>4. T[q] = t \o u
    BY <1>1, <2>2, <2>3 DEF LinesFrom
  <2>5. t \in H
    BY <2>2, FileRules
  <2>6. u \in Seq(TextLine)
    BY <2>2, LinesSay, ImportsGathered, PathsSay
  <2> HIDE DEF t, u, T, H
  <2> QED BY <1>2, <2>2, <2>4, <2>5, <2>6
<1>6. AllOf(T, ImportsIn(files[p].lines)) \in H
  <2>1. ImportsIn(files[p].lines) \in Seq(Paths)
    BY LinesSay, ImportsGathered
  <2>2. \E i \in DOMAIN ImportsIn(files[p].lines) : ImportsIn(files[p].lines)[i] = q
    BY DEF Range
  <2> HIDE DEF T, H
  <2> QED BY <1>4, <1>5, <2>1, <2>2
<1>7. ASSUME NEW n \in Nat, n \in V PROVE n + 1 \in V
  <2> SUFFICES ASSUME NEW x \in Paths, ImportDepth[x] < n + 1 PROVE T[x] \in G
    OBVIOUS
  <2> DEFINE is == ImportsIn(files[x].lines)
             es == SortedEntries(files[x].entries)
             t == Append(files[x].lines, EndMark)
  <2>1. is \in Seq(Below(x)) /\ es \in Seq(Below(x))
    BY FollowedBelow
  <2>2. Below(x) \in SUBSET Paths /\ \A y \in Below(x) : T[y] \in G
    <3>1. \A y \in Below(x) : y \in Paths /\ ImportDepth[y] < n
      BY <1>0 DEF Below
    <3> QED BY <1>7, <3>1
  <2>3. AllOf(T, is) \in G /\ AllOf(T, es) \in G
    <3> HIDE DEF T, G, is, es
    <3> QED BY <1>3, <2>1, <2>2
  <2>4. t \in Seq(TextLine) /\ (x # p => t \in G)
    BY FileRules
  <2>5. T[x] = LinesFrom(files, T, x) /\ files[x].kind \in {"file", "directory", "missing"}
    BY <1>1, FilesAssumption
  <2>6. CASE files[x].kind = "file"
    <3>1. T[x] = t \o AllOf(T, is)
      BY <2>5, <2>6 DEF LinesFrom
    <3>2. x = p => AllOf(T, is) \in G \cap H
      BY <1>6, <2>3
    <3> HIDE DEF T, G, H, is, t
    <3> QED BY <1>2, <2>3, <2>4, <3>1, <3>2
  <2>7. CASE files[x].kind = "directory"
    <3>1. T[x] = AllOf(T, es)
      BY <2>5, <2>7 DEF LinesFrom
    <3> QED BY <2>3, <3>1
  <2>8. CASE files[x].kind = "missing"
    <3>1. T[x] = <<>>
      BY <2>5, <2>8 DEF LinesFrom
    <3> QED BY <1>2, <3>1
  <2> QED BY <2>5, <2>6, <2>7, <2>8
<1>8. Nat \subseteq V
  <2>1. 0 \in V
    BY <1>0
  <2> HIDE DEF V
  <2> QED BY <1>7, <2>1, SetInduction
<1>9. \A x \in Paths : T[x] \in G
  <2> SUFFICES ASSUME NEW x \in Paths PROVE T[x] \in G
    OBVIOUS
  <2>1. ImportDepth[x] + 1 \in Nat /\ ImportDepth[x] < ImportDepth[x] + 1
    BY <1>0
  <2>2. ImportDepth[x] + 1 \in V
    BY <1>8, <2>1
  <2> QED BY <2>1, <2>2
<1>10. \A s \in Seq(Paths) : AllOf(T, s) \in G
  <2> HIDE DEF T, G
  <2>1. Paths \in SUBSET Paths
    OBVIOUS
  <2> QED BY <1>3, <1>9, <2>1
<1> QED BY <1>10

\* A rule that only the importing file has for a node is not used where an imported file has
\* one for the node as well: the import's rule stands behind it, whatever other files and
\* imports there are and wherever the file is imported.
THEOREM ImportsOverride == RcSpec => []ImportOverrides
<1>1. ASSUME ParserInv, ReadInv PROVE ImportOverrides
  <2> SUFFICES ASSUME AllParsed, NEW p \in Paths, NEW q \in Range(ImportsIn(files[p].lines)),
                      NEW node \in Nodes, OwnRules(q, node) # {},
                      RuleFor(config.devPermissions, node, {}) # 0,
                      config.devPermissions[RuleFor(config.devPermissions, node, {})]
                        \in Alone(p, node)
               PROVE  FALSE
    BY DEF ImportOverrides, Alone
  <2> DEFINE t == AllLines
             r == config.devPermissions
             I == ForNode(r, node)
             K == RuleLines(t, node)
  <2>1. t \in Seq(TextLine) /\ r = Rules(t, "/dev/")
    BY <1>1, AllRead DEF TextSays, ListsSay
  <2>2. RuleFor(r, node, {}) = IF I # {} THEN Max(I) ELSE 0
    BY DEF RuleFor, SelectLastInSeq, ForNode
  <2>3. (I = {} <=> K = {}) /\ (K # {} => r[Max(I)] = t[Max(K)].arg.rule)
    BY <2>1, LastRuleIsLastLine DEF LastRule
  <2>4. Followed(t, Alone(p, node), node)
    <3>1. files \in FileSystems /\ Configs \in Seq(Paths)
      BY <1>1, FilesAssumption DEF ParserInv
    <3> QED BY <3>1, OverriddenBelow DEF AllLines
  <2>5. /\ Len(t) \in Nat /\ K = {k \in 1..Len(t) : DevRule(t[k], node)}
        /\ \A i \in 1..Len(t) : DevRule(t[i], node) /\ t[i].arg.rule \in Alone(p, node) =>
             \E j \in 1..Len(t) : i < j /\ DevRule(t[j], node)
    BY <2>1, <2>4, LenProperties DEF RuleLines, Followed
  <2> HIDE DEF t, r, I, K
  <2>6. K # {} /\ t[Max(K)].arg.rule \in Alone(p, node)
    <3>1. RuleFor(r, node, {}) # 0 /\ r[RuleFor(r, node, {})] \in Alone(p, node)
      BY DEF r
    <3> QED BY <2>2, <2>3, <3>1
  <2>7. K \in SUBSET (0..Len(t))
    BY <2>5
  <2>8. PICK d \in K : \A f \in K : f <= d
    BY <2>5, <2>6, <2>7, LargestExists
  <2>9. Max(K) \in K /\ \A f \in K : f <= Max(K)
    <3>1. \A f \in K : d >= f
      BY <2>8
    <3>2. Max(K) \in K /\ \A f \in K : Max(K) >= f
      BY <3>1 DEF Max
    <3> QED BY <3>2
  <2> DEFINE m == Max(K)
  <2> HIDE DEF m
  <2>10. m \in K /\ (\A f \in K : f <= m) /\ t[m].arg.rule \in Alone(p, node)
    BY <2>6, <2>9 DEF m
  <2>11. PICK j \in 1..Len(t) : m < j /\ DevRule(t[j], node)
    BY <2>5, <2>10
  <2>12. j \in K
    BY <2>5, <2>11
  <2> QED BY <2>5, <2>10, <2>11, <2>12
<1>2. RcInv => ParserInv
  BY DEF RcInv
<1> QED BY <1>1, <1>2, RcInvariant, ReadInvariant, PTL
=============================================================================
