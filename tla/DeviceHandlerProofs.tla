------------------------- MODULE DeviceHandlerProofs -------------------------
(***************************************************************************)
(* Theorems about DeviceHandler, for any devices and any number of uevents:*)
(* the variables keep their types, and when all uevents have been handled, *)
(* the nodes, their permissions and the links are those of the devices.    *)
(***************************************************************************)
EXTENDS DeviceHandler, DataLemmas

-----------------------------------------------------------------------------
(* What a queue of uevents tells of one device *)

Is(e, action, d) == e.action = action /\ e.dev = d

\* No device is removed by an event behind the i-th.
NoneBehind(q, i, d) == \A j \in 1..Len(q) : j > i => ~Is(q[j], "remove", d)

\* Of a device with the number p (None if it is not there) and the node n: behind the last
\* removal only its present number is announced, and it is announced if the device is
\* there; without a removal the node is right or not made yet, and it is right if it was
\* asked for and nothing more is to come.
Right(q, d, p, n, asked) ==
  /\ \A i \in 1..Len(q) : Is(q[i], "add", d) /\ NoneBehind(q, i, d) => q[i].number = p
  /\ \A i \in 1..Len(q) :
       Is(q[i], "remove", d) /\ NoneBehind(q, i, d) /\ p # None =>
         \E k \in 1..Len(q) : k > i /\ Is(q[k], "add", d)
  /\ NoneBehind(q, 0, d) => n \in {None, p}
  /\ NoneBehind(q, 0, d) /\ asked /\ (\A i \in 1..Len(q) : ~Is(q[i], "add", d)) => n = p

LEMMA RightUnasked ==
  ASSUME NEW q, NEW d, NEW p, NEW n, NEW asked, Right(q, d, p, n, asked)
  PROVE  Right(q, d, p, n, FALSE)
BY DEF Right

\* An event of another device, or one that is neither an add nor a remove, tells nothing.
LEMMA RightAppendOther ==
  ASSUME NEW q \in Seq(Uevents), NEW e \in Uevents, NEW d, NEW p, NEW n, NEW asked,
         Right(q, d, p, n, asked), ~Is(e, "add", d), ~Is(e, "remove", d)
  PROVE  Right(Append(q, e), d, p, n, asked)
<1> DEFINE r == Append(q, e)
<1>1. /\ Len(q) \in Nat /\ Len(r) = Len(q) + 1
      /\ \A i \in 1..Len(q) : r[i] = q[i]
      /\ r[Len(q) + 1] = e
  BY AppendProperties, LenProperties
<1> HIDE DEF r
<1>2. \A i \in 0..Len(q) : NoneBehind(r, i, d) => NoneBehind(q, i, d)
  BY <1>1 DEF NoneBehind
<1>3. \A i \in 1..Len(r) : Is(r[i], "add", d) \/ Is(r[i], "remove", d) => i \in 1..Len(q)
  <2>1. \A i \in 1..Len(r) : i \in 1..Len(q) \/ r[i] = e
    BY <1>1
  <2> QED BY <2>1
<1>4. \A i \in 1..Len(q) : i \in 1..Len(r)
  BY <1>1
<1>5. ASSUME NEW i \in 1..Len(r), Is(r[i], "add", d), NoneBehind(r, i, d)
      PROVE  r[i].number = p
  BY <1>1, <1>2, <1>3, <1>5 DEF Right
<1>6. ASSUME NEW i \in 1..Len(r), Is(r[i], "remove", d), NoneBehind(r, i, d), p # None
      PROVE  \E k \in 1..Len(r) : k > i /\ Is(r[k], "add", d)
  <2>1. i \in 1..Len(q) /\ Is(q[i], "remove", d) /\ NoneBehind(q, i, d)
    BY <1>1, <1>2, <1>3, <1>6
  <2>2. PICK k \in 1..Len(q) : k > i /\ Is(q[k], "add", d)
    BY <1>6, <2>1 DEF Right
  <2> QED BY <1>1, <1>4, <2>2
<1>7. NoneBehind(r, 0, d) => n \in {None, p}
  BY <1>1, <1>2 DEF Right
<1>8. NoneBehind(r, 0, d) /\ asked /\ (\A i \in 1..Len(r) : ~Is(r[i], "add", d)) => n = p
  BY <1>1, <1>2, <1>4 DEF Right
<1> QED BY <1>5, <1>6, <1>7, <1>8 DEF Right, r

\* A device is announced with its number; before, it was not there or had the same one.
LEMMA RightAppendAdd ==
  ASSUME NEW q \in Seq(Uevents), NEW e \in Uevents, NEW d, NEW p, NEW n, NEW asked, NEW asked2,
         Right(q, d, p, n, asked), Is(e, "add", d), e.number # None, p \in {None, e.number},
         \A i \in 1..Len(q) : Is(q[i], "add", d) => q[i].number # None
  PROVE  Right(Append(q, e), d, e.number, n, asked2)
<1> DEFINE r == Append(q, e)
<1>1. /\ Len(q) \in Nat /\ Len(r) = Len(q) + 1
      /\ \A i \in 1..Len(q) : r[i] = q[i]
      /\ r[Len(q) + 1] = e
  BY AppendProperties, LenProperties
<1> HIDE DEF r
<1>2. \A i \in 0..Len(q) : NoneBehind(r, i, d) => NoneBehind(q, i, d)
  BY <1>1 DEF NoneBehind
<1>3. \A i \in 1..Len(r) : i \in 1..Len(q) \/ (i = Len(q) + 1 /\ r[i] = e)
  BY <1>1
<1>4. ASSUME NEW i \in 1..Len(r), Is(r[i], "add", d), NoneBehind(r, i, d)
      PROVE  r[i].number = e.number
  <2>1. CASE i \in 1..Len(q)
    <3>1. q[i].number = p /\ q[i].number # None
      BY <1>1, <1>2, <1>4, <2>1 DEF Right
    <3> QED BY <1>1, <2>1, <3>1
  <2> QED BY <1>3, <2>1
<1>5. ASSUME NEW i \in 1..Len(r), Is(r[i], "remove", d)
      PROVE  \E k \in 1..Len(r) : k > i /\ Is(r[k], "add", d)
  <2>1. i \in 1..Len(q)
    BY <1>3, <1>5 DEF Is
  <2>2. Len(q) + 1 \in 1..Len(r) /\ Len(q) + 1 > i
    BY <1>1, <2>1
  <2> QED BY <1>1, <2>2
<1>6. NoneBehind(r, 0, d) => n \in {None, e.number}
  BY <1>1, <1>2 DEF Right
<1>7. ~ \A i \in 1..Len(r) : ~Is(r[i], "add", d)
  <2>1. Len(q) + 1 \in 1..Len(r)
    BY <1>1
  <2> QED BY <1>1, <2>1
<1> QED BY <1>4, <1>5, <1>6, <1>7 DEF Right, r

\* After a removal all that was announced before is void.
LEMMA RightAppendRemove ==
  ASSUME NEW q \in Seq(Uevents), NEW e \in Uevents, NEW d, NEW n, NEW asked, Is(e, "remove", d)
  PROVE  Right(Append(q, e), d, None, n, asked)
<1> DEFINE r == Append(q, e)
<1>1. Len(q) \in Nat /\ Len(r) = Len(q) + 1 /\ r[Len(q) + 1] = e
  BY AppendProperties, LenProperties
<1> HIDE DEF r
<1>2. Len(q) + 1 \in 1..Len(r)
  BY <1>1
<1>3. \A i \in 0..Len(q) : ~NoneBehind(r, i, d)
  BY <1>1, <1>2 DEF NoneBehind
<1>4. \A i \in 1..Len(r) : i \in 0..Len(q) \/ i = Len(q) + 1
  BY <1>1
<1>5. ~Is(e, "add", d)
  BY DEF Is
<1>6. \A i \in 1..Len(r) : ~(Is(r[i], "add", d) /\ NoneBehind(r, i, d))
  BY <1>1, <1>3, <1>4, <1>5
<1>7. ~NoneBehind(r, 0, d)
  BY <1>1, <1>3
<1> QED BY <1>6, <1>7 DEF Right, r

\* The head of the queue is handled, or lost.
LEMMA RightTail ==
  ASSUME NEW q \in Seq(Uevents), q # <<>>, NEW d, NEW p, NEW n, NEW asked, Right(q, d, p, n, asked)
  PROVE  /\ ~Is(Head(q), "remove", d) => Right(Tail(q), d, p, n, FALSE)
         /\ ~Is(Head(q), "remove", d) /\ ~Is(Head(q), "add", d) => Right(Tail(q), d, p, n, asked)
         /\ Is(Head(q), "add", d) =>
              Right(Tail(q), d, p, IF n = None THEN Head(q).number ELSE n, asked)
         /\ Is(Head(q), "remove", d) => Right(Tail(q), d, p, None, asked)
<1> DEFINE h == Head(q)
           t == Tail(q)
<1>1. /\ Len(q) \in Nat \ {0} /\ Len(t) = Len(q) - 1
      /\ \A i \in 1..Len(t) : t[i] = q[i + 1]
      /\ q[1] = h
  <2>1. Len(q) \in Nat \ {0}
    BY EmptySeq, LenProperties
  <2> QED BY <2>1, HeadTailProperties
<1> HIDE DEF h, t
<1>2. \A i \in 0..Len(t) : NoneBehind(t, i, d) <=> NoneBehind(q, i + 1, d)
  <2>1. TAKE i \in 0..Len(t)
  <2>2. ASSUME NoneBehind(t, i, d), NEW j \in 1..Len(q), j > i + 1
        PROVE  ~Is(q[j], "remove", d)
    <3>1. j - 1 \in 1..Len(t) /\ j - 1 > i /\ (j - 1) + 1 = j
      BY <1>1, <2>2
    <3> QED BY <1>1, <2>2, <3>1 DEF NoneBehind
  <2>3. ASSUME NoneBehind(q, i + 1, d), NEW j \in 1..Len(t), j > i
        PROVE  ~Is(t[j], "remove", d)
    <3>1. j + 1 \in 1..Len(q) /\ j + 1 > i + 1
      BY <1>1, <2>3
    <3> QED BY <1>1, <2>3, <3>1 DEF NoneBehind
  <2> QED BY <2>2, <2>3 DEF NoneBehind
<1>3. \A i \in 1..Len(t) : i + 1 \in 1..Len(q) /\ i \in 0..Len(t)
  BY <1>1
<1>4. ASSUME NEW i \in 1..Len(t), Is(t[i], "add", d), NoneBehind(t, i, d)
      PROVE  t[i].number = p
  BY <1>1, <1>2, <1>3, <1>4 DEF Right
<1>5. ASSUME NEW i \in 1..Len(t), Is(t[i], "remove", d), NoneBehind(t, i, d), p # None
      PROVE  \E k \in 1..Len(t) : k > i /\ Is(t[k], "add", d)
  <2>1. PICK k \in 1..Len(q) : k > i + 1 /\ Is(q[k], "add", d)
    BY <1>1, <1>2, <1>3, <1>5 DEF Right
  <2>2. k - 1 \in 1..Len(t) /\ k - 1 > i /\ t[k - 1] = q[k]
    <3>1. k - 1 \in 1..Len(t) /\ k - 1 > i /\ (k - 1) + 1 = k
      BY <1>1, <2>1
    <3> QED BY <1>1, <3>1
  <2> QED BY <2>1, <2>2
<1>6. NoneBehind(t, 0, d) => NoneBehind(q, 1, d)
  BY <1>1, <1>2
<1>7. NoneBehind(q, 1, d) /\ ~Is(h, "remove", d) => NoneBehind(q, 0, d)
  <2> SUFFICES ASSUME NoneBehind(q, 1, d), ~Is(h, "remove", d), NEW j \in 1..Len(q)
               PROVE  ~Is(q[j], "remove", d)
    BY DEF NoneBehind
  <2>1. j = 1 \/ j > 1
    BY <1>1
  <2> QED BY <1>1, <2>1 DEF NoneBehind
<1>8. (\A i \in 1..Len(t) : ~Is(t[i], "add", d)) => \A i \in 1..Len(q) : i > 1 => ~Is(q[i], "add", d)
  <2> SUFFICES ASSUME \A i \in 1..Len(t) : ~Is(t[i], "add", d), NEW i \in 1..Len(q), i > 1
               PROVE  ~Is(q[i], "add", d)
    OBVIOUS
  <2>1. i - 1 \in 1..Len(t) /\ (i - 1) + 1 = i
    BY <1>1
  <2> QED BY <1>1, <2>1
<1>9. 1 \in 1..Len(q)
  BY <1>1
<1>10. CASE Is(h, "remove", d)
  <2>1. NoneBehind(t, 0, d) /\ (\A i \in 1..Len(t) : ~Is(t[i], "add", d)) => p = None
    BY <1>1, <1>6, <1>8, <1>9, <1>10 DEF Right
  <2>2. Right(t, d, p, None, asked)
    BY <1>4, <1>5, <2>1 DEF Right
  <2> QED BY <1>10, <2>2 DEF Is, h, t
<1>11. CASE ~Is(h, "remove", d)
  <2>1. NoneBehind(t, 0, d) => n \in {None, p}
    BY <1>6, <1>7, <1>11 DEF Right
  <2>2. Right(t, d, p, n, FALSE)
    BY <1>4, <1>5, <2>1 DEF Right
  <2>3. CASE Is(h, "add", d)
    <3>1. NoneBehind(t, 0, d) => (IF n = None THEN h.number ELSE n) = p
      <4> SUFFICES ASSUME NoneBehind(t, 0, d) PROVE (IF n = None THEN h.number ELSE n) = p
        OBVIOUS
      <4>1. h.number = p
        BY <1>1, <1>6, <1>9, <2>3 DEF Right
      <4> QED BY <2>1, <4>1
    <3>2. Right(t, d, p, IF n = None THEN h.number ELSE n, asked)
      BY <1>4, <1>5, <3>1 DEF Right
    <3> QED BY <1>11, <2>2, <2>3, <3>2 DEF h, t
  <2>4. CASE ~Is(h, "add", d)
    <3>1. (\A i \in 1..Len(t) : ~Is(t[i], "add", d)) => \A i \in 1..Len(q) : ~Is(q[i], "add", d)
      <4> SUFFICES ASSUME \A i \in 1..Len(t) : ~Is(t[i], "add", d), NEW i \in 1..Len(q)
                   PROVE  ~Is(q[i], "add", d)
        OBVIOUS
      <4>1. i = 1 \/ i > 1
        BY <1>1
      <4> QED BY <1>1, <1>8, <2>4, <4>1
    <3>2. Right(t, d, p, n, asked)
      BY <1>4, <1>5, <1>6, <1>7, <1>11, <2>1, <3>1 DEF Right
    <3> QED BY <1>11, <2>2, <2>4, <3>2 DEF h, t
  <2> QED BY <2>3, <2>4
<1> QED BY <1>10, <1>11

LEMMA RightEmpty ==
  ASSUME NEW q \in Seq(Uevents), NEW d, NEW p, NEW n, NEW asked, Right(q, d, p, n, asked),
         \A i \in 1..Len(q) : ~Is(q[i], "remove", d)
  PROVE  Right(<<>>, d, p, n, FALSE)
<1>1. NoneBehind(q, 0, d)
  BY DEF NoneBehind
<1>2. n \in {None, p}
  BY <1>1 DEF Right
<1> QED BY <1>2, EmptySeq DEF Right

-----------------------------------------------------------------------------
(* The inductive invariant *)

\* The uevent of a device that is there has come, or is in the queue.
Asked(d) == phase = "handle" \/ (phase = "regenerate" /\ d \notin walk)

QueueRight == \A d \in Devices \ missed : Right(queue, d, present[d], nodes[d], Asked(d))

DeviceInv ==
  /\ DevTypeOK
  /\ phase = "off" => queue = <<>>
  /\ phase # "off" => run # 0
  /\ QueueRight

LEMMA InitDevices == Init => DeviceInv
<1> SUFFICES ASSUME Init PROVE DeviceInv
  OBVIOUS
<1>1. DevTypeOK
  <2>1. <<>> \in Seq(Uevents) /\ <<>> \in Seq(Numbers)
    BY EmptySeq
  <2>2. 0 \in 0..MaxUevents /\ 0 \in 0..2
    BY DeviceAssumption
  <2>3. trackedUevents = [d \in Devices |-> <<>>] /\ queue = <<>>
    BY DEF Init
  <2>4. /\ trackedUevents \in [Devices -> Seq(Numbers)]
        /\ \A d \in Disks \cup Dms : trackedUevents[d] = <<>>
    BY <2>1, <2>3 DEF Devices
  <2>5. /\ present \in [Devices -> Numbers \cup {None}] /\ dmName \in [Dms -> DmNames \cup {None}]
        /\ nodes \in [Nodes -> Numbers \cup {None}] /\ modes \in [Nodes -> Perms \cup {None}]
        /\ links \in [Links -> Disks \cup Dms \cup {None}]
    BY DEF Init
  <2> QED BY <2>1, <2>2, <2>3, <2>4, <2>5 DEF Init, DevTypeOK
<1>2. QueueRight
  <2>1. Len(<<>>) = 0
    BY EmptySeq
  <2> QED BY <2>1 DEF Init, QueueRight, Right, Asked, Nodes
<1> QED BY <1>1, <1>2 DEF Init, DeviceInv

LEMMA NumbersOfDevices ==
  /\ \A d \in Devices : DevNumbers[d] \subseteq Numbers
  /\ None \notin Numbers
BY DeviceAssumption DEF Numbers

LEMMA QueuedNumbers ==
  ASSUME NEW q \in Seq(Uevents)
  PROVE  \A i \in 1..Len(q) : \A d : Is(q[i], "add", d) => q[i].number # None
<1>1. \A i \in 1..Len(q) : q[i] \in Uevents
  BY ElementOfSeq
<1>2. \A e \in Uevents : e.action = "add" => e.number \in Numbers
  BY DEF Uevents
<1> QED BY <1>1, <1>2, NumbersOfDevices DEF Is

\* What the kernel sends tells nothing of another device, and nothing at all if it is
\* neither an add nor a remove.
LEMMA SendOther ==
  ASSUME DeviceInv, NEW e \in Uevents, Send(e), NEW d \in Devices \ missed,
         ~Is(e, "add", d), ~Is(e, "remove", d), present'[d] = present[d],
         d \in walk' <=> d \in walk
  PROVE  Right(queue', d, present'[d], nodes'[d], Asked(d)')
<1>1. UNCHANGED <<phase, nodes>>
  BY DEF Send, handlerVars
<1>2. Asked(d)' = Asked(d)
  BY <1>1 DEF Asked
<1>3. Right(queue, d, present[d], nodes[d], Asked(d)) /\ queue \in Seq(Uevents)
  BY DEF DeviceInv, QueueRight, DevTypeOK
<1>4. queue' = queue \/ queue' = Append(queue, e)
  BY DEF Send
<1> QED BY <1>1, <1>2, <1>3, <1>4, RightAppendOther

LEMMA SendTypes ==
  ASSUME DeviceInv, NEW e \in Uevents, Send(e)
  PROVE  /\ sent' \in 0..MaxUevents /\ queue' \in Seq(Uevents) /\ missed' \subseteq Devices
         /\ missed \subseteq missed' /\ (phase = "off" => queue' = <<>>)
         /\ UNCHANGED <<astray, phase, run, nodes, modes, links, trackedUevents, boundDrivers>>
<1>1. sent \in 0..MaxUevents /\ queue \in Seq(Uevents) /\ missed \subseteq Devices
  BY DEF DeviceInv, DevTypeOK
<1>2. Append(queue, e) \in Seq(Uevents)
  BY <1>1, AppendProperties
<1>3. e.dev \in Devices
  BY DEF Uevents, Devices
<1>4. sent' \in 0..MaxUevents
  BY <1>1, DeviceAssumption DEF Send
<1> QED BY <1>1, <1>2, <1>3, <1>4 DEF Send, DeviceInv, handlerVars

LEMMA AddDeviceKeeps ==
  ASSUME DeviceInv, NEW d0 \in Devices, AddDevice(d0)
  PROVE  DeviceInv'
<1>1. PICK n \in DevNumbers[d0] : /\ present' = [present EXCEPT ![d0] = n]
                                  /\ Send(Uevent("add", d0, n))
  BY DEF AddDevice
<1> DEFINE e == Uevent("add", d0, n)
<1>2. n \in Numbers /\ n # None /\ present[d0] = None
  BY NumbersOfDevices DEF AddDevice
<1>3. e \in Uevents /\ Is(e, "add", d0) /\ e.number = n
  BY <1>2 DEF Uevent, Uevents, Is
<1>4. /\ sent' \in 0..MaxUevents /\ queue' \in Seq(Uevents) /\ missed' \subseteq Devices
      /\ missed \subseteq missed' /\ (phase = "off" => queue' = <<>>)
      /\ UNCHANGED <<astray, phase, run, nodes, modes, links, trackedUevents, boundDrivers>>
  BY <1>1, <1>3, SendTypes
<1>5. walk' \in {walk, walk \ {d0}} /\ UNCHANGED bound
  BY DEF AddDevice
<1>6. DevTypeOK'
  <2>1. present' \in [Devices -> Numbers \cup {None}]
    BY <1>1, <1>2 DEF DeviceInv, DevTypeOK
  <2>2. dmName' \in [Dms -> DmNames \cup {None}] /\ late' \subseteq Dms
    BY DEF AddDevice, FreeNames, DeviceInv, DevTypeOK
  <2> QED BY <1>4, <1>5, <2>1, <2>2 DEF DeviceInv, DevTypeOK
<1>7. ASSUME NEW d \in Devices \ missed'
      PROVE  Right(queue', d, present'[d], nodes'[d], Asked(d)')
  <2>1. d \in Devices \ missed
    BY <1>4
  <2>2. Right(queue, d, present[d], nodes[d], Asked(d)) /\ queue \in Seq(Uevents)
    BY <2>1 DEF DeviceInv, QueueRight, DevTypeOK
  <2>3. CASE d # d0
    <3>1. present'[d] = present[d] /\ (d \in walk' <=> d \in walk)
      BY <1>1, <1>5, <2>3 DEF DeviceInv, DevTypeOK
    <3>2. ~Is(e, "add", d) /\ ~Is(e, "remove", d)
      BY <1>3, <2>3 DEF Is
    <3> QED BY <1>1, <1>3, <2>1, <3>1, <3>2, SendOther
  <2>4. CASE d = d0 /\ phase # "off"
    <3>1. queue' = Append(queue, e)
      BY <1>1, <2>4 DEF Send
    <3>2. present'[d] = e.number
      BY <1>1, <1>3, <2>4 DEF DeviceInv, DevTypeOK
    <3> QED BY <1>2, <1>3, <1>4, <2>2, <2>4, <3>1, <3>2, QueuedNumbers, RightAppendAdd
  <2>5. CASE d = d0 /\ phase = "off"
    <3>1. queue = <<>> /\ queue' = <<>> /\ Len(<<>>) = 0
      BY <1>4, <2>5, EmptySeq DEF DeviceInv
    <3>2. nodes[d] = None
      BY <1>2, <2>2, <2>5, <3>1 DEF Right, NoneBehind
    <3>3. ~Asked(d)'
      BY <1>4, <2>5 DEF Asked
    <3> QED BY <1>4, <3>1, <3>2, <3>3 DEF Right
  <2> QED BY <2>3, <2>4, <2>5
<1> QED BY <1>4, <1>6, <1>7 DEF DeviceInv, QueueRight

LEMMA RemoveDeviceKeeps ==
  ASSUME DeviceInv, NEW d0 \in Devices, RemoveDevice(d0)
  PROVE  DeviceInv'
<1> DEFINE e == Uevent("remove", d0, present[d0])
<1>1. /\ Send(e) /\ present' = [present EXCEPT ![d0] = None]
      /\ UNCHANGED <<bound, walk>> /\ present[d0] # None
  BY DEF RemoveDevice
<1>2. present[d0] \in Numbers
  BY <1>1 DEF DeviceInv, DevTypeOK
<1>3. e \in Uevents /\ Is(e, "remove", d0)
  BY <1>2 DEF Uevent, Uevents, Is
<1>4. /\ sent' \in 0..MaxUevents /\ queue' \in Seq(Uevents) /\ missed' \subseteq Devices
      /\ missed \subseteq missed' /\ (phase = "off" => queue' = <<>>)
      /\ UNCHANGED <<astray, phase, run, nodes, modes, links, trackedUevents, boundDrivers>>
  BY <1>1, <1>3, SendTypes
<1>5. DevTypeOK'
  <2>1. present' \in [Devices -> Numbers \cup {None}]
    BY <1>1 DEF DeviceInv, DevTypeOK
  <2>2. dmName' \in [Dms -> DmNames \cup {None}] /\ late' \subseteq Dms
    BY DEF RemoveDevice, DeviceInv, DevTypeOK
  <2> QED BY <1>1, <1>4, <2>1, <2>2 DEF DeviceInv, DevTypeOK
<1>6. ASSUME NEW d \in Devices \ missed'
      PROVE  Right(queue', d, present'[d], nodes'[d], Asked(d)')
  <2>1. d \in Devices \ missed
    BY <1>4
  <2>2. CASE d # d0
    <3>1. present'[d] = present[d]
      BY <1>1, <2>2 DEF DeviceInv, DevTypeOK
    <3>2. ~Is(e, "add", d) /\ ~Is(e, "remove", d)
      BY <1>3, <2>2 DEF Is
    <3> QED BY <1>1, <1>3, <2>1, <3>1, <3>2, SendOther
  <2>3. CASE d = d0
    <3>1. phase # "off"
      BY <1>1, <1>3, <1>6, <2>3 DEF Send, Is
    <3>2. queue' = Append(queue, e) /\ queue \in Seq(Uevents)
      BY <1>1, <3>1 DEF Send, DeviceInv, DevTypeOK
    <3>3. present'[d] = None
      BY <1>1, <2>3 DEF DeviceInv, DevTypeOK
    <3> QED BY <1>3, <2>3, <3>2, <3>3, RightAppendRemove
  <2> QED BY <2>2, <2>3
<1> QED BY <1>4, <1>5, <1>6 DEF DeviceInv, QueueRight

LEMMA OtherUeventsKeep ==
  ASSUME DeviceInv, NEW d0 \in Devices,
         \/ ChangeDevice(d0) \/ NameTable(d0)
         \/ d0 \in Children /\ (BindDriver(d0) \/ UnbindDriver(d0))
  PROVE  DeviceInv'
<1>1. PICK e \in Uevents : Send(e) /\ e.action \in {"change", "bind", "unbind"}
  <2>1. CASE ChangeDevice(d0) \/ NameTable(d0)
    <3>1. present[d0] \in Numbers
      BY <2>1 DEF ChangeDevice, NameTable, DeviceInv, DevTypeOK
    <3>2. Uevent("change", d0, present[d0]) \in Uevents
      BY <3>1 DEF Uevent, Uevents
    <3> QED BY <2>1, <3>2 DEF ChangeDevice, NameTable, Uevent
  <2>2. CASE d0 \in Children /\ BindDriver(d0)
    <3>1. Uevent("bind", d0, None) \in Uevents
      BY <2>2 DEF Uevent, Uevents
    <3> QED BY <2>2, <3>1 DEF BindDriver, Uevent
  <2>3. CASE d0 \in Children /\ UnbindDriver(d0)
    <3>1. Uevent("unbind", d0, None) \in Uevents
      BY <2>3 DEF Uevent, Uevents
    <3> QED BY <2>3, <3>1 DEF UnbindDriver, Uevent
  <2> QED BY <2>1, <2>2, <2>3
<1>2. /\ UNCHANGED <<present, late, walk>> /\ bound' \in {bound, bound \cup {d0}, bound \ {d0}}
      /\ bound' # bound => d0 \in Children
      /\ dmName' \in [Dms -> DmNames \cup {None}]
  BY DEF ChangeDevice, NameTable, FreeNames, BindDriver, UnbindDriver, DeviceInv, DevTypeOK
<1>3. /\ sent' \in 0..MaxUevents /\ queue' \in Seq(Uevents) /\ missed' \subseteq Devices
      /\ missed \subseteq missed' /\ (phase = "off" => queue' = <<>>)
      /\ UNCHANGED <<astray, phase, run, nodes, modes, links, trackedUevents, boundDrivers>>
  BY <1>1, SendTypes
<1>4. DevTypeOK'
  BY <1>2, <1>3 DEF DeviceInv, DevTypeOK
<1>5. ASSUME NEW d \in Devices \ missed'
      PROVE  Right(queue', d, present'[d], nodes'[d], Asked(d)')
  <2>1. ~Is(e, "add", d) /\ ~Is(e, "remove", d) /\ d \in Devices \ missed
    BY <1>1, <1>3 DEF Is
  <2> QED BY <1>1, <1>2, <2>1, SendOther
<1> QED BY <1>3, <1>4, <1>5 DEF DeviceInv, QueueRight

-----------------------------------------------------------------------------
(* The steps of ueventd *)

LEMMA StartKeeps == ASSUME DeviceInv, StartUeventd PROVE DeviceInv'
<1>1. /\ phase = "off" /\ phase' = "probe" /\ run < 2 /\ run' = run + 1 /\ walk' = {}
      /\ trackedUevents' = [d \in Devices |-> <<>>] /\ boundDrivers' = {}
      /\ UNCHANGED <<present, dmName, late, bound, sent, missed, astray, queue, nodes, modes, links>>
  BY DEF StartUeventd, kernelVars
<1>2. DevTypeOK'
  <2>1. <<>> \in Seq(Numbers)
    BY EmptySeq
  <2>2. /\ trackedUevents' \in [Devices -> Seq(Numbers)]
        /\ \A d \in Disks \cup Dms : trackedUevents'[d] = <<>>
    BY <1>1, <2>1 DEF Devices
  <2>3. run' \in 0..2
    BY <1>1 DEF DeviceInv, DevTypeOK
  <2> QED BY <1>1, <2>2, <2>3 DEF DeviceInv, DevTypeOK
<1>3. ASSUME NEW d \in Devices \ missed'
      PROVE  Right(queue', d, present'[d], nodes'[d], Asked(d)')
  <2>1. Right(queue, d, present[d], nodes[d], Asked(d)) /\ ~Asked(d)'
    BY <1>1, <1>3 DEF DeviceInv, QueueRight, Asked
  <2> QED BY <1>1, <2>1, RightUnasked DEF Right
<1>4. run' # 0
  BY <1>1 DEF DeviceInv, DevTypeOK
<1> QED BY <1>1, <1>2, <1>3, <1>4 DEF DeviceInv, QueueRight

\* The event that the search takes from the socket.
LEMMA ProbeKeeps == ASSUME DeviceInv, Probe PROVE DeviceInv'
<1>1. PICK q \in {queue} \cup {Append(queue, Uevent("add", d, present[d])) :
                                 d \in {x \in Devices : present[x] # None}} :
        IF q = <<>> THEN UNCHANGED <<queue, missed>>
        ELSE /\ queue' = Tail(q)
             /\ missed' = IF Head(q).action = "remove" THEN missed \cup {Head(q).dev} ELSE missed
  BY DEF Probe
<1>2. /\ phase = "probe" /\ phase' = "regenerate" /\ walk' = Devices
      /\ UNCHANGED <<present, dmName, late, bound, sent, astray, run, nodes, modes, links,
                     trackedUevents, boundDrivers>>
  BY DEF Probe, kernelVars, handlerVars
<1>3. q \in Seq(Uevents) /\ \A d \in Devices \ missed : Right(q, d, present[d], nodes[d], FALSE)
  <2>1. /\ queue \in Seq(Uevents)
        /\ \A d \in Devices \ missed : Right(queue, d, present[d], nodes[d], FALSE)
    BY RightUnasked DEF DeviceInv, DevTypeOK, QueueRight
  <2>2. CASE q # queue
    <3>1. PICK d0 \in Devices : present[d0] # None /\ q = Append(queue, Uevent("add", d0, present[d0]))
      BY <2>2
    <3> DEFINE e == Uevent("add", d0, present[d0])
    <3>2. e \in Uevents /\ Is(e, "add", d0) /\ e.number = present[d0] /\ e.number # None
      BY <3>1 DEF DeviceInv, DevTypeOK, Uevent, Uevents, Is
    <3> HIDE DEF e
    <3>3. q \in Seq(Uevents)
      BY <2>1, <3>1, <3>2, AppendProperties DEF e
    <3>4. ASSUME NEW d \in Devices \ missed
          PROVE  Right(q, d, present[d], nodes[d], FALSE)
      <4>1. CASE d = d0
        BY <2>1, <3>1, <3>2, <4>1, QueuedNumbers, RightAppendAdd DEF e
      <4>2. CASE d # d0
        <5>1. ~Is(e, "add", d) /\ ~Is(e, "remove", d)
          BY <3>2, <4>2 DEF Is
        <5> QED BY <2>1, <3>1, <3>2, <5>1, RightAppendOther DEF e
      <4> QED BY <4>1, <4>2
    <3> QED BY <3>3, <3>4
  <2> QED BY <2>1, <2>2
<1>4. q # <<>> => Head(q) \in Uevents /\ Tail(q) \in Seq(Uevents)
  BY <1>3, HeadTailProperties
<1>5. queue' \in Seq(Uevents) /\ missed' \subseteq Devices /\ missed \subseteq missed'
  <2>1. \A e \in Uevents : e.dev \in Devices
    BY DEF Uevents, Devices
  <2> QED BY <1>1, <1>4, <2>1 DEF DeviceInv, DevTypeOK
<1>6. DevTypeOK'
  BY <1>2, <1>5 DEF DeviceInv, DevTypeOK
<1>7. ASSUME NEW d \in Devices \ missed'
      PROVE  Right(queue', d, present'[d], nodes'[d], Asked(d)')
  <2>1. ~Asked(d)' /\ d \in Devices \ missed
    BY <1>2, <1>5 DEF Asked
  <2>2. Right(q, d, present[d], nodes[d], FALSE)
    BY <1>3, <2>1
  <2>3. Right(queue', d, present[d], nodes[d], FALSE)
    <3>1. CASE q = <<>>
      <4>1. queue' = queue
        BY <1>1, <3>1
      <4>2. Right(queue, d, present[d], nodes[d], Asked(d))
        BY <2>1 DEF DeviceInv, QueueRight
      <4> QED BY <4>1, <4>2, RightUnasked
    <3>2. CASE q # <<>>
      <4>1. ~Is(Head(q), "remove", d)
        BY <1>1, <1>7, <3>2 DEF Is
      <4> QED BY <1>1, <1>3, <2>2, <3>2, <4>1, RightTail
    <3> QED BY <3>1, <3>2
  <2>4. present'[d] = present[d] /\ nodes'[d] = nodes[d]
    BY <1>2
  <2> QED BY <2>1, <2>3, <2>4 DEF Right
<1> QED BY <1>2, <1>6, <1>7 DEF DeviceInv, QueueRight

LEMMA RegenerateKeeps == ASSUME DeviceInv, NEW d0 \in Devices, Regenerate(d0) PROVE DeviceInv'
<1> DEFINE e == Uevent("add", d0, present[d0])
<1>1. /\ phase = "regenerate" /\ present[d0] # None /\ walk' = walk \ {d0}
      /\ queue' = Append(queue, e)
      /\ UNCHANGED <<present, dmName, bound, sent, missed, astray, phase, run, nodes, modes, links,
                     trackedUevents, boundDrivers>>
      /\ late' \subseteq late
  BY DEF Regenerate, kernelVars, handlerVars
<1>2. e \in Uevents /\ Is(e, "add", d0) /\ e.number = present[d0]
  BY <1>1 DEF DeviceInv, DevTypeOK, Uevent, Uevents, Is
<1> HIDE DEF e
<1>3. queue \in Seq(Uevents) /\ queue' \in Seq(Uevents)
  BY <1>1, <1>2, AppendProperties DEF DeviceInv, DevTypeOK
<1>4. DevTypeOK'
  BY <1>1, <1>3 DEF DeviceInv, DevTypeOK
<1>5. ASSUME NEW d \in Devices \ missed'
      PROVE  Right(queue', d, present'[d], nodes'[d], Asked(d)')
  <2>1. Right(queue, d, present[d], nodes[d], Asked(d))
    BY <1>1, <1>5 DEF DeviceInv, QueueRight
  <2>2. CASE d = d0
    BY <1>1, <1>2, <1>3, <2>1, <2>2, QueuedNumbers, RightAppendAdd
  <2>3. CASE d # d0
    <3>1. Asked(d)' = Asked(d)
      BY <1>1, <2>3 DEF Asked
    <3>2. ~Is(e, "add", d) /\ ~Is(e, "remove", d)
      BY <1>2, <2>3 DEF Is
    <3> QED BY <1>1, <1>2, <1>3, <2>1, <3>1, <3>2, RightAppendOther
  <2> QED BY <2>2, <2>3
<1> QED BY <1>1, <1>4, <1>5 DEF DeviceInv, QueueRight

\* What the walk has not met is not there.
LEMMA RegenerateDoneKeeps == ASSUME DeviceInv, RegenerateDone PROVE DeviceInv'
<1>1. /\ phase = "regenerate" /\ phase' = "handle" /\ walk' = {}
      /\ \A d \in walk : present[d] = None
      /\ UNCHANGED <<present, dmName, late, bound, sent, missed, astray, run, queue, nodes, modes, links,
                     trackedUevents, boundDrivers>>
  BY DEF RegenerateDone, kernelVars, handlerVars
<1>2. DevTypeOK'
  BY <1>1 DEF DeviceInv, DevTypeOK
<1>3. ASSUME NEW d \in Devices \ missed'
      PROVE  Right(queue', d, present'[d], nodes'[d], Asked(d)')
  <2>1. Right(queue, d, present[d], nodes[d], Asked(d))
    BY <1>1, <1>3 DEF DeviceInv, QueueRight
  <2>2. Asked(d) \/ present[d] = None
    BY <1>1 DEF Asked
  <2>3. Right(queue, d, present[d], nodes[d], TRUE)
    BY <2>1, <2>2 DEF Right
  <2>4. Asked(d)'
    BY <1>1 DEF Asked
  <2> QED BY <1>1, <2>3, <2>4 DEF Right
<1> QED BY <1>1, <1>2, <1>3 DEF DeviceInv, QueueRight

\* A device with no removal among the lost events has its node or none.
LEMMA QuitKeeps == ASSUME DeviceInv, QuitUeventd PROVE DeviceInv'
<1>1. /\ phase' = "off" /\ queue' = <<>> /\ missed' = missed \cup RemovesIn(queue)
      /\ UNCHANGED <<present, dmName, late, bound, sent, astray, run, walk, nodes, modes, links,
                     trackedUevents, boundDrivers>>
  BY DEF QuitUeventd, kernelVars, handlerVars
<1>2. queue \in Seq(Uevents) /\ <<>> \in Seq(Uevents)
  BY EmptySeq DEF DeviceInv, DevTypeOK
<1>3. DOMAIN queue = 1..Len(queue) /\ \A i \in 1..Len(queue) : queue[i] \in Uevents
  BY <1>2, LenProperties, ElementOfSeq
<1>4. RemovesIn(queue) \subseteq Devices
  <2>1. \A e \in Uevents : e.dev \in Devices
    BY DEF Uevents, Devices
  <2> QED BY <1>3, <2>1 DEF RemovesIn
<1>5. DevTypeOK'
  BY <1>1, <1>2, <1>4 DEF DeviceInv, DevTypeOK
<1>6. ASSUME NEW d \in Devices \ missed'
      PROVE  Right(queue', d, present'[d], nodes'[d], Asked(d)')
  <2>1. Right(queue, d, present[d], nodes[d], Asked(d))
    BY <1>1, <1>6 DEF DeviceInv, QueueRight
  <2>2. \A i \in 1..Len(queue) : ~Is(queue[i], "remove", d)
    BY <1>1, <1>3, <1>6 DEF RemovesIn, Is
  <2>3. ~Asked(d)'
    BY <1>1 DEF Asked
  <2>4. Right(<<>>, d, present[d], nodes[d], FALSE)
    BY <1>2, <2>1, <2>2, RightEmpty
  <2> QED BY <1>1, <2>3, <2>4 DEF Right
<1> QED BY <1>1, <1>5, <1>6 DEF DeviceInv, QueueRight

-----------------------------------------------------------------------------
(* A uevent is handled *)

\* The node of a driver is not that of a device.
LEMMA DriverNodes ==
  \A c \in Children : DriverNode(c) \in Nodes /\ DriverNode(c) \notin Devices
BY DeviceAssumption DEF Nodes

\* What the rules of a run give a node is among their permissions: the last rule that applies
\* is one of them.
LEMMA PermissionsTyped ==
  ASSUME NEW r \in 1..2, NEW path, NEW ls
  PROVE  GetDevicePermissions(Rules[r], path, ls, Default) \in Perms
<1> DEFINE rules == Rules[r]
           I == {i \in 1..Len(rules) : Match(rules[i], path) \/ \E l \in ls : Match(rules[i], l)}
<1>1. rules \in Seq([paths : SUBSET (Nodes \cup Links), perm : Perms]) /\ Default \in Perms
  BY DeviceAssumption
<1> HIDE DEF rules
<1>2. Len(rules) \in Nat /\ \A i \in 1..Len(rules) : rules[i].perm \in Perms
  <2>1. \A i \in 1..Len(rules) : rules[i] \in [paths : SUBSET (Nodes \cup Links), perm : Perms]
    BY <1>1, ElementOfSeq
  <2> QED BY <1>1, <2>1, LenProperties
<1>3. RuleFor(rules, path, ls) = IF I # {} THEN Max(I) ELSE 0
  BY DEF RuleFor, SelectLastInSeq
<1>4. I # {} => Max(I) \in I
  <2> SUFFICES ASSUME I # {} PROVE Max(I) \in I
    OBVIOUS
  <2>1. I \in SUBSET (0..Len(rules))
    BY <1>2
  <2> HIDE DEF I
  <2>2. PICK d \in I : \A f \in I : f <= d
    BY <1>2, <2>1, LargestExists
  <2>3. \A y \in I : d >= y
    BY <1>2, <2>1, <2>2
  <2> QED BY <2>3 DEF Max
<1>5. RuleFor(rules, path, ls) = 0 \/ RuleFor(rules, path, ls) \in 1..Len(rules)
  BY <1>3, <1>4
<1> QED BY <1>1, <1>2, <1>5 DEF GetDevicePermissions, rules

\* The permissions of the node are those of a rule of the present run, or are left.
LEMMA ModesTyped ==
  ASSUME DevTypeOK, run # 0, NEW e, NEW path \in Nodes, NEW ls, HandleDevice(e, path, ls)
  PROVE  modes' \in [Nodes -> Perms \cup {None}]
<1>1. modes \in [Nodes -> Perms \cup {None}] /\ run \in 1..2
  BY DEF DevTypeOK
<1>2. GetDevicePermissions(Rules[run], path, ls, Default) \in Perms
  BY <1>1, PermissionsTyped
<1>3. modes' \in {SetPermissions(path, ls), [modes EXCEPT ![path] = None], modes}
  BY DEF HandleDevice
<1> QED BY <1>1, <1>2, <1>3 DEF SetPermissions

\* The links of a device lead to it if they lead anywhere, and no character device has any.
LEMMA LinksTyped ==
  ASSUME DevTypeOK, NEW ls, NEW path, path \in Disks \cup Dms \/ ls = {}
  PROVE  /\ MakeLinks(ls, path) \in [Links -> Disks \cup Dms \cup {None}]
         /\ RemoveLinks(ls, path) \in [Links -> Disks \cup Dms \cup {None}]
BY DEF DevTypeOK, MakeLinks, RemoveLinks

\* An add or a remove of a device.
LEMMA HandleDeviceTyped ==
  ASSUME DevTypeOK, NEW e, NEW path \in Nodes, NEW ls, HandleDevice(e, path, ls),
         path \in Disks \cup Dms \/ ls = {}, e.action = "add" => e.number \in Numbers
  PROVE  /\ nodes' \in [Nodes -> Numbers \cup {None}]
         /\ links' \in [Links -> Disks \cup Dms \cup {None}]
         /\ \A n \in Nodes \ {path} : nodes'[n] = nodes[n]
         /\ e.action = "add" => nodes'[path] = IF nodes[path] = None THEN e.number ELSE nodes[path]
         /\ e.action = "remove" => nodes'[path] = None
         /\ e.action \notin {"add", "remove"} => nodes'[path] = nodes[path]
<1>1. nodes \in [Nodes -> Numbers \cup {None}] /\ links \in [Links -> Disks \cup Dms \cup {None}]
  BY DEF DevTypeOK
<1>2. links' \in {MakeLinks(ls, path), RemoveLinks(ls, path), links}
  BY DEF HandleDevice
<1>3. links' \in [Links -> Disks \cup Dms \cup {None}]
  BY <1>1, <1>2, LinksTyped
<1>4. CASE e.action = "add"
  <2>1. nodes' = [nodes EXCEPT ![path] = IF nodes[path] = None THEN e.number ELSE nodes[path]]
    <3>1. nodes' = MakeDevice(path, e.number)
      BY <1>4 DEF HandleDevice, RemovesNode, MakesLinks
    <3> QED BY <1>1, <3>1 DEF MakeDevice
  <2>2. e.number \in Numbers \cup {None}
    BY <1>4
  <2>3. nodes' \in [Nodes -> Numbers \cup {None}]
    BY <1>1, <2>1, <2>2
  <2>4. nodes'[path] = IF nodes[path] = None THEN e.number ELSE nodes[path]
    BY <1>1, <2>1
  <2>5. \A n \in Nodes \ {path} : nodes'[n] = nodes[n]
    BY <1>1, <2>1
  <2> QED BY <1>3, <1>4, <2>3, <2>4, <2>5
<1>5. CASE e.action = "remove"
  <2>1. nodes' = [nodes EXCEPT ![path] = None]
    BY <1>5 DEF HandleDevice, RemovesNode, MakesLinks
  <2> QED BY <1>1, <1>3, <1>5, <2>1
<1>6. CASE e.action \notin {"add", "remove"}
  <2>1. nodes' = nodes
    BY <1>6 DEF HandleDevice, RemovesNode, MakesLinks
  <2> QED BY <1>1, <1>3, <1>6, <2>1
<1> QED BY <1>4, <1>5, <1>6

\* A bind or an unbind changes the node of the driver at most.
LEMMA BindTyped ==
  ASSUME DevTypeOK, run # 0, NEW e \in Uevents, e.action \in {"bind", "unbind"},
         HandleBindInternal(e)
  PROVE  /\ nodes' \in [Nodes -> Numbers \cup {None}]
         /\ modes' \in [Nodes -> Perms \cup {None}]
         /\ links' \in [Links -> Disks \cup Dms \cup {None}]
         /\ \A d \in Devices : nodes'[d] = nodes[d]
<1>1. e.dev \in Children /\ e.dev \in Devices
  BY DEF Uevents, Devices
<1>2. CASE trackedUevents[e.dev] = <<>>
  BY <1>2 DEF HandleBindInternal, DevTypeOK
<1>3. CASE trackedUevents[e.dev] # <<>>
  <2> DEFINE a == Uevent("add", e.dev, Head(trackedUevents[e.dev]))
  <2>1. HandleDevice(a, DriverNode(e.dev), {})
    BY <1>3 DEF HandleBindInternal
  <2>2. trackedUevents[e.dev] \in Seq(Numbers)
    BY <1>1 DEF DevTypeOK
  <2>3. Head(trackedUevents[e.dev]) \in Numbers
    BY <1>3, <2>2, HeadTailProperties
  <2>4. a.action = "add" /\ a.number \in Numbers
    BY <2>3 DEF Uevent
  <2>5. DriverNode(e.dev) \in Nodes /\ Devices \subseteq Nodes \ {DriverNode(e.dev)}
    BY <1>1, DriverNodes DEF Nodes
  <2> HIDE DEF a
  <2>6. modes' \in [Nodes -> Perms \cup {None}]
    BY <2>1, <2>5, ModesTyped
  <2> QED BY <2>1, <2>4, <2>5, <2>6, HandleDeviceTyped
<1> QED BY <1>2, <1>3

LEMMA HandleUeventKeeps == ASSUME DeviceInv, HandleUevent PROVE DeviceInv'
<1> DEFINE e == Head(queue)
<1>1. /\ phase = "handle" /\ queue # <<>> /\ queue' = Tail(queue)
      /\ UNCHANGED <<present, dmName, late, bound, sent, missed, phase, run, walk>>
  BY DEF HandleUevent, kernelVars, ueventdVars
<1>2. DevTypeOK /\ queue \in Seq(Uevents) /\ run # 0
  BY <1>1 DEF DeviceInv, DevTypeOK
<1>3. e \in Uevents /\ queue' \in Seq(Uevents)
  BY <1>1, <1>2, HeadTailProperties
<1>4. CASE e.action \in {"bind", "unbind"}
  <2>1. e.dev \in Children /\ e.dev \in Devices /\ e.dev \notin Disks \cup Dms
    BY <1>3, <1>4, DeviceAssumption DEF Uevents, Devices
  <2>2. /\ HandleBindInternal(e) \/ UNCHANGED <<nodes, modes, links>>
        /\ boundDrivers' \in {boundDrivers, boundDrivers \cup {e.dev}}
        /\ trackedUevents' \in {trackedUevents, [trackedUevents EXCEPT ![e.dev] = <<>>]}
        /\ astray' = astray
    BY <1>4 DEF HandleUevent, HandleBind, HandleUnbind
  <2>3. /\ nodes' \in [Nodes -> Numbers \cup {None}] /\ modes' \in [Nodes -> Perms \cup {None}]
        /\ links' \in [Links -> Disks \cup Dms \cup {None}]
        /\ \A d \in Devices : nodes'[d] = nodes[d]
    <3>1. CASE HandleBindInternal(e)
      BY <1>2, <1>3, <1>4, <3>1, BindTyped
    <3>2. CASE UNCHANGED <<nodes, modes, links>>
      BY <1>2, <3>2 DEF DevTypeOK
    <3> QED BY <2>2, <3>1, <3>2
  <2>4. /\ trackedUevents' \in [Devices -> Seq(Numbers)]
        /\ \A d \in Disks \cup Dms : trackedUevents'[d] = <<>>
    <3>1. <<>> \in Seq(Numbers)
      BY EmptySeq
    <3>2. /\ trackedUevents \in [Devices -> Seq(Numbers)]
          /\ \A d \in Disks \cup Dms : trackedUevents[d] = <<>> /\ d \in Devices
      BY <1>2 DEF DevTypeOK, Devices
    <3>3. CASE trackedUevents' = trackedUevents
      BY <3>2, <3>3
    <3>4. CASE trackedUevents' = [trackedUevents EXCEPT ![e.dev] = <<>>]
      <4>1. \A d \in Devices : trackedUevents'[d] \in {<<>>, trackedUevents[d]}
        BY <3>2, <3>4
      <4> QED BY <3>1, <3>2, <3>4, <4>1
    <3> QED BY <2>2, <3>3, <3>4
  <2>5. DevTypeOK'
    BY <1>1, <1>2, <1>3, <2>1, <2>2, <2>3, <2>4 DEF DevTypeOK
  <2>6. ASSUME NEW d \in Devices \ missed'
        PROVE  Right(queue', d, present'[d], nodes'[d], Asked(d)')
    <3>1. Right(queue, d, present[d], nodes[d], Asked(d)) /\ Asked(d)' = Asked(d)
      BY <1>1, <2>6 DEF DeviceInv, QueueRight, Asked
    <3>2. ~Is(e, "add", d) /\ ~Is(e, "remove", d)
      BY <1>4 DEF Is
    <3>3. Right(Tail(queue), d, present[d], nodes[d], Asked(d))
      BY <1>1, <1>2, <3>1, <3>2, RightTail
    <3> QED BY <1>1, <2>3, <3>1, <3>3
  <2> QED BY <1>1, <2>5, <2>6 DEF DeviceInv, QueueRight
<1>5. CASE e.action \notin {"bind", "unbind"}
  <2> PICK path \in PathsFound(e.dev) :
         /\ HandleDevice(e, e.dev, GetBlockDeviceSymlinks(e, path))
         /\ astray' = IF e.action # "change" /\ e.dev \in Disks /\ path # LinkPath[e.dev]
                      THEN astray \cup {e.dev} ELSE astray
    BY <1>5 DEF HandleUevent
  <2> DEFINE ls == GetBlockDeviceSymlinks(e, path)
  <2>1. /\ trackedUevents' = TrackDeviceUevent(e) /\ HandleDevice(e, e.dev, ls)
        /\ UNCHANGED boundDrivers
        /\ astray' \in {astray, astray \cup (Disks \cap {e.dev})}
    BY <1>5 DEF HandleUevent
  <2>2. e.dev \in Devices /\ e.number \in Numbers /\ e.action \in {"add", "change", "remove"}
    BY <1>3, <1>5 DEF Uevents
  <2>3. e.dev \in Disks \cup Dms \/ ls = {}
    BY <2>2 DEF GetBlockDeviceSymlinks
  <2> HIDE DEF ls
  <2>4. e.dev \in Nodes
    BY <2>2 DEF Nodes
  <2>5. /\ nodes' \in [Nodes -> Numbers \cup {None}]
        /\ links' \in [Links -> Disks \cup Dms \cup {None}]
        /\ \A n \in Nodes \ {e.dev} : nodes'[n] = nodes[n]
        /\ e.action = "add" =>
             nodes'[e.dev] = IF nodes[e.dev] = None THEN e.number ELSE nodes[e.dev]
        /\ e.action = "remove" => nodes'[e.dev] = None
        /\ e.action \notin {"add", "remove"} => nodes'[e.dev] = nodes[e.dev]
    BY <1>2, <2>1, <2>2, <2>3, <2>4, HandleDeviceTyped
  <2>6. /\ trackedUevents' \in [Devices -> Seq(Numbers)]
        /\ \A d \in Disks \cup Dms : trackedUevents'[d] = <<>>
    <3>1. trackedUevents \in [Devices -> Seq(Numbers)]
          /\ \A d \in Disks \cup Dms : trackedUevents[d] = <<>>
      BY <1>2 DEF DevTypeOK
    <3>2. CASE trackedUevents' = trackedUevents
      BY <3>1, <3>2
    <3>3. CASE /\ e.dev \notin Disks \cup Dms
               /\ trackedUevents' = [trackedUevents EXCEPT ![e.dev] = Append(@, e.number)]
      <4>1. Append(trackedUevents[e.dev], e.number) \in Seq(Numbers)
        BY <2>2, <3>1, AppendProperties
      <4> QED BY <2>2, <3>1, <3>3, <4>1 DEF Devices
    <3> QED BY <2>1, <3>2, <3>3 DEF TrackDeviceUevent
  <2>7. DevTypeOK'
    <3>1. modes' \in [Nodes -> Perms \cup {None}]
      BY <1>2, <2>1, <2>4, ModesTyped
    <3> QED BY <1>1, <1>2, <1>3, <2>1, <2>5, <2>6, <3>1 DEF DevTypeOK
  <2>8. ASSUME NEW d \in Devices \ missed'
        PROVE  Right(queue', d, present'[d], nodes'[d], Asked(d)')
    <3>1. Right(queue, d, present[d], nodes[d], Asked(d)) /\ Asked(d)' = Asked(d)
      BY <1>1, <2>8 DEF DeviceInv, QueueRight, Asked
    <3>2. Right(Tail(queue), d, present[d], nodes'[d], Asked(d))
      <4>1. CASE d = e.dev /\ e.action = "add"
        BY <1>1, <1>2, <2>5, <3>1, <4>1, RightTail DEF Is
      <4>2. CASE d = e.dev /\ e.action = "remove"
        BY <1>1, <1>2, <2>5, <3>1, <4>2, RightTail DEF Is
      <4>3. CASE d # e.dev \/ e.action \notin {"add", "remove"}
        <5>1. ~Is(e, "add", d) /\ ~Is(e, "remove", d)
          BY <4>3 DEF Is
        <5>2. nodes'[d] = nodes[d]
          BY <2>5, <2>8, <4>3 DEF Nodes
        <5> QED BY <1>1, <1>2, <3>1, <5>1, <5>2, RightTail
      <4> QED BY <4>1, <4>2, <4>3
    <3> QED BY <1>1, <3>1, <3>2
  <2> QED BY <1>1, <2>7, <2>8 DEF DeviceInv, QueueRight
<1> QED BY <1>4, <1>5

-----------------------------------------------------------------------------
(* The theorems *)

LEMMA DevicesUnchanged == ASSUME DeviceInv, UNCHANGED vars PROVE DeviceInv'
<1>1. UNCHANGED <<present, dmName, late, bound, sent, missed, astray, phase, run, walk, queue, nodes,
                  modes, links, trackedUevents, boundDrivers>>
  BY DEF vars, kernelVars, ueventdVars, handlerVars
<1>2. DevTypeOK'
  BY <1>1 DEF DeviceInv, DevTypeOK
<1>3. QueueRight'
  BY <1>1 DEF DeviceInv, QueueRight, Asked
<1> QED BY <1>1, <1>2, <1>3 DEF DeviceInv

LEMMA DevicesKept == DeviceInv /\ [Next]_vars => DeviceInv'
<1> SUFFICES ASSUME DeviceInv, [Next]_vars PROVE DeviceInv'
  OBVIOUS
<1>1. CASE Kernel
  <2>1. Children \subseteq Devices
    BY DEF Devices
  <2> QED BY <1>1, <2>1, AddDeviceKeeps, RemoveDeviceKeeps, OtherUeventsKeep DEF Kernel
<1>2. CASE Ueventd
  BY <1>2, StartKeeps, ProbeKeeps, RegenerateKeeps, RegenerateDoneKeeps, QuitKeeps,
     HandleUeventKeeps DEF Ueventd
<1>3. CASE UNCHANGED vars
  BY <1>3, DevicesUnchanged
<1> QED BY <1>1, <1>2, <1>3 DEF Next

\* What the queue tells of every device is right in every reachable state.
THEOREM DeviceInvariant == Spec => []DeviceInv
<1>1. Init => DeviceInv
  BY InitDevices
<1>2. DeviceInv /\ [Next]_vars => DeviceInv'
  BY DevicesKept
<1> QED BY <1>1, <1>2, PTL DEF Spec

\* Every variable of the device handler keeps its type, and no uevent of a block device is
\* tracked, for which HandleBindInternal would end in LOG(FATAL).
THEOREM DevTypeCorrect == Spec => []DevTypeOK
<1>1. DeviceInv => DevTypeOK
  BY DEF DeviceInv
<1> QED BY <1>1, DeviceInvariant, PTL

\* When HandleUevent has handled what came, every device has its node with the number it
\* has now, and no other one has a node: for any number of devices, numbers and uevents.
THEOREM NodesMatch == Spec => []NodesMatchDevices
<1>1. DeviceInv => NodesMatchDevices
  <2> SUFFICES ASSUME DeviceInv, Settled, NEW d \in Devices \ missed
               PROVE  nodes[d] = present[d]
    BY DEF NodesMatchDevices
  <2>1. Right(<<>>, d, present[d], nodes[d], Asked(d)) /\ Asked(d)
    BY DEF DeviceInv, QueueRight, Settled, Asked
  <2>2. 1..Len(<<>>) = {}
    BY EmptySeq
  <2> QED BY <2>1, <2>2 DEF Right, NoneBehind
<1> QED BY <1>1, DeviceInvariant, PTL

-----------------------------------------------------------------------------
(* The order of the uevents in a queue *)

Has(q, action, d) == \E i \in 1..Len(q) : Is(q[i], action, d)

\* An event at which the link of a table is made, if it has a name.
Tells(e, d) == Is(e, "add", d) \/ Is(e, "change", d)
Told(q, d) == Has(q, "add", d) \/ Has(q, "change", d)

\* Such an event of a device comes behind the removal of another one.
Follows(q, x, d) ==
  \E i, k \in 1..Len(q) : i < k /\ Is(q[i], "remove", x) /\ Tells(q[k], d)

\* A device comes back behind every removal of it.
Returns(q, d) ==
  \A i \in 1..Len(q) : Is(q[i], "remove", d) =>
    \E k \in 1..Len(q) : i < k /\ Is(q[k], "add", d)

\* What an event at the end of a queue makes of it.
Grown(q, e, r) ==
  /\ \A a, d : Has(r, a, d) <=> Has(q, a, d) \/ Is(e, a, d)
  /\ \A x, d : Follows(q, x, d) \/ (Has(q, "remove", x) /\ Tells(e, d)) => Follows(r, x, d)
  /\ \A d : (Returns(q, d) /\ ~Is(e, "remove", d)) \/ Is(e, "add", d) => Returns(r, d)

\* What is left of a queue without its head.
Shrunk(q, h, r) ==
  /\ \A a, d : Has(q, a, d) <=> Has(r, a, d) \/ Is(h, a, d)
  /\ \A x, d : Follows(q, x, d) => IF Is(h, "remove", x) THEN Told(r, d) ELSE Follows(r, x, d)
  /\ \A d : Returns(q, d) => Returns(r, d) /\ (Is(h, "remove", d) => Has(r, "add", d))

LEMMA AppendGrows ==
  ASSUME NEW q \in Seq(Uevents), NEW e \in Uevents
  PROVE  Grown(q, e, Append(q, e))
<1> DEFINE r == Append(q, e)
           n == Len(q)
<1>1. /\ n \in Nat /\ Len(r) = n + 1
      /\ \A i \in 1..n : r[i] = q[i]
      /\ r[n + 1] = e
  BY AppendProperties, LenProperties
<1> HIDE DEF r, n
<1>2. /\ \A i \in 1..Len(r) : i \in 1..n \/ i = n + 1
      /\ \A i \in 1..n : i \in 1..Len(r) /\ i < n + 1
      /\ n + 1 \in 1..Len(r)
  BY <1>1
<1>3. ASSUME NEW a, NEW d PROVE Has(r, a, d) <=> Has(q, a, d) \/ Is(e, a, d)
  BY <1>1, <1>2 DEF Has, n
<1>4. ASSUME NEW x, NEW d, Follows(q, x, d) \/ (Has(q, "remove", x) /\ Tells(e, d))
      PROVE  Follows(r, x, d)
  <2>1. CASE Follows(q, x, d)
    <3>1. PICK i \in 1..n, k \in 1..n : i < k /\ Is(q[i], "remove", x) /\ Tells(q[k], d)
      BY <2>1 DEF Follows, n
    <3>2. Is(r[i], "remove", x) /\ Tells(r[k], d)
      BY <1>1, <3>1
    <3> QED BY <1>2, <3>1, <3>2 DEF Follows
  <2>2. CASE Has(q, "remove", x) /\ Tells(e, d)
    <3>1. PICK i \in 1..n : Is(q[i], "remove", x)
      BY <2>2 DEF Has, n
    <3>2. Is(r[i], "remove", x) /\ Tells(r[n + 1], d)
      BY <1>1, <2>2, <3>1
    <3> QED BY <1>2, <3>1, <3>2 DEF Follows
  <2> QED BY <1>4, <2>1, <2>2
<1>5. ASSUME NEW d, (Returns(q, d) /\ ~Is(e, "remove", d)) \/ Is(e, "add", d)
      PROVE  Returns(r, d)
  <2> SUFFICES ASSUME NEW i \in 1..Len(r), Is(r[i], "remove", d)
               PROVE  \E k \in 1..Len(r) : i < k /\ Is(r[k], "add", d)
    BY DEF Returns
  <2>1. ~Is(e, "remove", d)
    BY <1>5 DEF Is
  <2>2. i \in 1..n /\ Is(q[i], "remove", d)
    BY <1>1, <1>2, <2>1
  <2>3. CASE Is(e, "add", d)
    BY <1>1, <1>2, <2>2, <2>3
  <2>4. CASE Returns(q, d)
    <3>1. PICK k \in 1..n : i < k /\ Is(q[k], "add", d)
      BY <2>2, <2>4 DEF Returns, n
    <3> QED BY <1>1, <1>2, <3>1
  <2> QED BY <1>5, <2>3, <2>4
<1> QED BY <1>3, <1>4, <1>5 DEF Grown, r

LEMMA TailShrinks ==
  ASSUME NEW q \in Seq(Uevents), q # <<>>
  PROVE  Shrunk(q, Head(q), Tail(q))
<1> DEFINE h == Head(q)
           t == Tail(q)
<1>1. /\ Len(q) \in Nat \ {0} /\ Len(t) = Len(q) - 1
      /\ \A i \in 1..Len(t) : t[i] = q[i + 1]
      /\ q[1] = h
  <2>1. Len(q) \in Nat \ {0}
    BY EmptySeq, LenProperties
  <2> QED BY <2>1, HeadTailProperties
<1> HIDE DEF h, t
<1>2. \A i \in 1..Len(q) : i = 1 \/ (i - 1 \in 1..Len(t) /\ q[i] = t[i - 1])
  <2> TAKE i \in 1..Len(q)
  <2>1. i = 1 \/ (i - 1 \in 1..Len(t) /\ (i - 1) + 1 = i)
    BY <1>1
  <2> QED BY <1>1, <2>1
<1>3. /\ \A i \in 1..Len(t) : i + 1 \in 1..Len(q) /\ i + 1 > 1
      /\ 1 \in 1..Len(q)
  BY <1>1
<1>4. ASSUME NEW a, NEW d PROVE Has(q, a, d) <=> Has(t, a, d) \/ Is(h, a, d)
  BY <1>1, <1>2, <1>3 DEF Has
<1>5. ASSUME NEW x, NEW d, Follows(q, x, d)
      PROVE  IF Is(h, "remove", x) THEN Told(t, d) ELSE Follows(t, x, d)
  <2>1. PICK i \in 1..Len(q), k \in 1..Len(q) : i < k /\ Is(q[i], "remove", x) /\ Tells(q[k], d)
    BY <1>5 DEF Follows
  <2>2. k # 1
    BY <2>1
  <2>3. k - 1 \in 1..Len(t) /\ Tells(t[k - 1], d)
    BY <1>2, <2>1, <2>2
  <2>4. ASSUME ~Is(h, "remove", x) PROVE Follows(t, x, d)
    <3>1. i # 1
      BY <1>1, <2>1, <2>4
    <3>2. i - 1 \in 1..Len(t) /\ Is(t[i - 1], "remove", x) /\ i - 1 < k - 1
      BY <1>2, <2>1, <3>1
    <3> QED BY <2>3, <3>2 DEF Follows
  <2> QED BY <2>3, <2>4 DEF Has, Told, Tells
<1>6. ASSUME NEW d, Returns(q, d)
      PROVE  Returns(t, d) /\ (Is(h, "remove", d) => Has(t, "add", d))
  <2>1. ASSUME NEW i \in 1..Len(t), Is(t[i], "remove", d)
        PROVE  \E k \in 1..Len(t) : i < k /\ Is(t[k], "add", d)
    <3>1. i + 1 \in 1..Len(q) /\ Is(q[i + 1], "remove", d)
      BY <1>1, <1>3, <2>1
    <3>2. PICK k \in 1..Len(q) : i + 1 < k /\ Is(q[k], "add", d)
      BY <1>6, <3>1 DEF Returns
    <3>3. k # 1 /\ i < k - 1
      BY <3>2
    <3> QED BY <1>2, <3>2, <3>3
  <2>2. ASSUME Is(h, "remove", d) PROVE Has(t, "add", d)
    <3>1. PICK k \in 1..Len(q) : 1 < k /\ Is(q[k], "add", d)
      BY <1>1, <1>3, <1>6, <2>2 DEF Returns
    <3>2. k # 1
      BY <3>1
    <3> QED BY <1>2, <3>1, <3>2 DEF Has
  <2> QED BY <2>1, <2>2 DEF Returns
<1> QED BY <1>4, <1>5, <1>6 DEF Shrunk, h, t

LEMMA NothingQueued ==
  /\ \A a, d : ~Has(<<>>, a, d)
  /\ \A x, d : ~Follows(<<>>, x, d)
  /\ \A d : Returns(<<>>, d) /\ ~Told(<<>>, d)
<1>1. 1..Len(<<>>) = {}
  BY EmptySeq
<1> QED BY <1>1 DEF Has, Told, Follows, Returns

-----------------------------------------------------------------------------
(* The permissions and the links of the nodes *)

PermissionsNow(d) == GetDevicePermissions(Rules[run], d, LinksNow(d), Default)
PermissionsBefore(d) == GetDevicePermissions(Rules[run], d, {}, Default)

\* A device that is there is announced behind every removal of it; when it is announced no
\* more, its node has the permissions of the present run, those without its link if it is a
\* table that got its name later.
PermissionsRight ==
  \A d \in Devices :
    present[d] # None =>
      /\ Returns(queue, d)
      /\ Asked(d) /\ ~Has(queue, "add", d) =>
           modes[d] = PermissionsNow(d) \/ (d \in late /\ modes[d] = PermissionsBefore(d))

\* A table with a name is there, and no other one has this name; one without a name was
\* announced before it got it.
NamesTaken ==
  /\ \A d \in Dms : dmName[d] # None => present[d] # None
  /\ \A d \in Dms : present[d] # None /\ dmName[d] = None => d \in late
  /\ \A c, d \in Dms : dmName[c] = dmName[d] /\ dmName[d] # None => c = d

\* The links of a disk that is handled while the devices above it are there.
LinksOfDisk(d) ==
  {OwnLink(LinkPath[d], d), ZonedLink}
  \cup {ByName(LinkPath[d], n) : n \in {PartitionName[d]} \ {None}}

LinksOwned ==
  \A l \in Links : /\ links[l] \in Dms => l \in MapperLinks
                   /\ links[l] \in Disks => l \notin MapperLinks
                   /\ \A d \in Disks \ astray : links[l] = d => l \in LinksOfDisk(d)

\* A link leads to a device that is there and has this name, or whose removal is to come.
LinksCurrent ==
  \A l \in Links \ {ZonedLink} :
    \A d \in (Disks \cup Dms) \ (missed \cup astray) :
      links[l] = d => \/ Has(queue, "remove", d)
                      \/ present[d] # None /\ (d \in Dms => l = Mapper(dmName[d]))

\* The link of a table's name leads to it, or is not made yet, or the device that had the
\* name before is removed before the present one is told of.
MapperCurrent(d) ==
  LET x == links[Mapper(dmName[d])]
  IN  \/ x = d
      \/ x = None /\ (Asked(d) => Told(queue, d))
      \/ Follows(queue, x, d)

TablesCurrent ==
  missed \cap Dms = {} => \A d \in Dms : dmName[d] # None => MapperCurrent(d)

LinksInv == PermissionsRight /\ NamesTaken /\ LinksOwned /\ LinksCurrent /\ TablesCurrent

LEMMA InitLinks == Init => LinksInv
<1> SUFFICES ASSUME Init PROVE LinksInv
  OBVIOUS
<1>1. /\ \A d \in Devices : present[d] = None
      /\ \A d \in Dms : dmName[d] = None /\ d \in Devices
      /\ \A l \in Links : links[l] = None
      /\ None \notin Devices
  BY DeviceAssumption DEF Init, Devices
<1>2. PermissionsRight /\ NamesTaken /\ TablesCurrent
  BY <1>1 DEF PermissionsRight, NamesTaken, TablesCurrent
<1>3. LinksOwned /\ LinksCurrent
  BY <1>1 DEF LinksOwned, LinksCurrent, Devices
<1> QED BY <1>2, <1>3 DEF LinksInv

\* The permissions of a device change with the run, the device and its table's name.
LEMMA PermissionsStay ==
  ASSUME NEW d \in Devices, run' = run, present'[d] = present[d], d \in Dms => dmName'[d] = dmName[d]
  PROVE  PermissionsNow(d)' = PermissionsNow(d) /\ PermissionsBefore(d)' = PermissionsBefore(d)
<1>1. LinksNow(d)' = LinksNow(d)
  BY DEF LinksNow, GetBlockDeviceSymlinks, LinksAt, Uevent
<1> QED BY <1>1 DEF PermissionsNow, PermissionsBefore

\* Links of the device mapper are none of those of disks.
LEMMA MapperLinksApart ==
  /\ \A n \in DmNames : Mapper(n) \in MapperLinks
  /\ MapperLinks \subseteq Links \ {ZonedLink}
  /\ \A m, n : Mapper(m) = Mapper(n) => m = n
  /\ \A m \in MapperLinks : m # ZonedLink /\ (\A path, x : m # OwnLink(path, x) /\ m # ByName(path, x))
<1>1. \A m, n : Mapper(m) = Mapper(n) => m = n
  BY DEF Mapper
<1>2. ASSUME NEW n, NEW path, NEW x
      PROVE  Mapper(n) # ZonedLink /\ Mapper(n) # OwnLink(path, x) /\ Mapper(n) # ByName(path, x)
  BY DEF Mapper, ZonedLink, OwnLink, ByName
<1>3. \A m \in MapperLinks : \E n \in DmNames : m = Mapper(n)
  BY DEF MapperLinks
<1> QED BY <1>1, <1>2, <1>3 DEF MapperLinks, Links

LEMMA DeviceKinds ==
  /\ Devices = Disks \cup Dms \cup Children
  /\ Disks \cap Dms = {} /\ Disks \cap Children = {} /\ Dms \cap Children = {}
  /\ None \notin Devices /\ None \notin DmNames /\ None \notin Numbers
BY DeviceAssumption DEF Devices

\* What the kernel does is queued, if ueventd runs.
LEMMA SendQueues ==
  ASSUME DeviceInv, NEW e \in Uevents, Send(e)
  PROVE  /\ phase # "off" => Grown(queue, e, queue') /\ missed' = missed
         /\ phase = "off" =>
              /\ queue = <<>> /\ queue' = <<>>
              /\ missed' = IF e.action = "remove" THEN missed \cup {e.dev} ELSE missed
         /\ UNCHANGED <<astray, phase, run, nodes, modes, links>>
<1>1. queue \in Seq(Uevents) /\ (phase = "off" => queue = <<>>)
  BY DEF DeviceInv, DevTypeOK
<1> QED BY <1>1, AppendGrows DEF Send, handlerVars

\* Nothing that the invariant tells of a queue is lost when nothing else changes, no add is
\* taken from it and no removal is put into it.
LEMMA QueueLonger ==
  ASSUME LinksInv, UNCHANGED <<missed, astray, links, present, dmName>>,
         \A d \in late \ late' : dmName[d] # None /\ (Asked(d)' => Has(queue', "add", d)),
         run' = run \/ \A d \in Devices : ~Asked(d)',
         \A d \in Devices : modes'[d] = modes[d],
         \A d \in Devices : Asked(d)' /\ ~Has(queue', "add", d) /\ present[d] # None =>
                              Asked(d) /\ ~Has(queue, "add", d),
         \A d \in Devices : Asked(d)' /\ ~Told(queue', d) /\ present[d] # None =>
                              Asked(d) /\ ~Told(queue, d),
         \A d : Has(queue, "remove", d) => Has(queue', "remove", d),
         \A x, d : Follows(queue, x, d) => Follows(queue', x, d),
         \A d : Returns(queue, d) => Returns(queue', d)
  PROVE  LinksInv'
<1>1. \A d \in Devices : Asked(d)' => /\ PermissionsNow(d)' = PermissionsNow(d)
                                      /\ PermissionsBefore(d)' = PermissionsBefore(d)
  BY PermissionsStay
<1>2. PermissionsRight'
  <2> SUFFICES ASSUME NEW d \in Devices, present[d] # None
               PROVE  /\ Returns(queue', d)
                      /\ Asked(d)' /\ ~Has(queue', "add", d) =>
                           \/ modes'[d] = PermissionsNow(d)'
                           \/ d \in late' /\ modes'[d] = PermissionsBefore(d)'
    BY DEF PermissionsRight
  <2> QED BY <1>1 DEF LinksInv, PermissionsRight
<1>3. NamesTaken' /\ LinksOwned' /\ LinksCurrent'
  BY DEF LinksInv, NamesTaken, LinksOwned, LinksCurrent
<1>4. TablesCurrent'
  <2> SUFFICES ASSUME missed \cap Dms = {}, NEW d \in Dms, dmName[d] # None
               PROVE  MapperCurrent(d)'
    BY DEF TablesCurrent
  <2>1. MapperCurrent(d) /\ d \in Devices /\ present[d] # None
    BY DeviceKinds DEF LinksInv, TablesCurrent, NamesTaken
  <2> QED BY <2>1 DEF MapperCurrent
<1> QED BY <1>2, <1>3, <1>4 DEF LinksInv

\* The link of a name leads to a table or nowhere.
LEMMA MapperLinksTyped ==
  ASSUME DeviceInv, LinksOwned, NEW n \in DmNames
  PROVE  Mapper(n) \in Links \ {ZonedLink} /\ links[Mapper(n)] \in Dms \cup {None}
<1>1. Mapper(n) \in MapperLinks /\ Mapper(n) \in Links \ {ZonedLink}
  BY MapperLinksApart
<1>2. links[Mapper(n)] \in Disks \cup Dms \cup {None}
  BY <1>1 DEF DeviceInv, DevTypeOK
<1> QED BY <1>1, <1>2, MapperLinksApart DEF LinksOwned

LEMMA AddDeviceLinks ==
  ASSUME DeviceInv, LinksInv, NEW d0 \in Devices, AddDevice(d0)
  PROVE  LinksInv'
<1>1. PICK n \in DevNumbers[d0] :
        present' = [present EXCEPT ![d0] = n] /\ Send(Uevent("add", d0, n))
  BY DEF AddDevice
<1> DEFINE e == Uevent("add", d0, n)
<1>2. n \in Numbers /\ n # None /\ present[d0] = None
  BY NumbersOfDevices DEF AddDevice
<1>3. e \in Uevents /\ Is(e, "add", d0) /\ \A d : ~Is(e, "remove", d)
  BY <1>2 DEF Uevent, Uevents, Is
<1>4. e.action # "remove"
  BY DEF Uevent
<1> HIDE DEF e
<1>5. /\ phase # "off" => Grown(queue, e, queue')
      /\ phase = "off" => queue = <<>> /\ queue' = <<>>
      /\ UNCHANGED <<missed, astray, phase, run, nodes, modes, links>>
  BY <1>1, <1>3, <1>4, SendQueues DEF e
<1>6. /\ \A d \in Devices : present'[d] = IF d = d0 THEN n ELSE present[d]
      /\ \A d \in Dms \ {d0} : dmName'[d] = dmName[d]
      /\ d0 \in Dms => \/ /\ dmName'[d0] \in DmNames
                          /\ \A m \in Dms : dmName'[d0] # dmName[m]
                       \/ dmName'[d0] = None /\ d0 \in late'
      /\ late \subseteq late'
  <2>1. present \in [Devices -> Numbers \cup {None}] /\ dmName \in [Dms -> DmNames \cup {None}]
    BY DEF DeviceInv, DevTypeOK
  <2>2. d0 \in Dms => dmName[d0] = None
    BY <1>2 DEF LinksInv, NamesTaken
  <2> QED BY <1>1, <2>1, <2>2 DEF AddDevice, FreeNames
<1>7. /\ \A d \in Devices \ {d0} : Asked(d)' = Asked(d)
      /\ \A d \in Devices : Asked(d)' => phase # "off"
  BY <1>5 DEF AddDevice, Asked
<1>8. /\ \A a, d : Has(queue, a, d) => Has(queue', a, d)
      /\ \A d : d # d0 => (Has(queue', "add", d) <=> Has(queue, "add", d))
      /\ phase # "off" => Has(queue', "add", d0)
      /\ \A x, d : Follows(queue, x, d) => Follows(queue', x, d)
      /\ \A d : Returns(queue, d) \/ d = d0 => Returns(queue', d)
      /\ \A d : Told(queue, d) \/ (phase # "off" /\ d = d0) => Told(queue', d)
  <2>1. \A d : d # d0 => ~Is(e, "add", d)
    BY <1>3 DEF Is
  <2>2. CASE phase = "off"
    BY <1>5, <2>2, NothingQueued
  <2>3. CASE phase # "off"
    BY <1>3, <1>5, <2>1, <2>3 DEF Grown, Told, Tells
  <2> QED BY <2>2, <2>3
<1>9. PermissionsRight'
  <2> SUFFICES ASSUME NEW d \in Devices, present'[d] # None
               PROVE  /\ Returns(queue', d)
                      /\ Asked(d)' /\ ~Has(queue', "add", d) =>
                           \/ modes'[d] = PermissionsNow(d)'
                           \/ d \in late' /\ modes'[d] = PermissionsBefore(d)'
    BY DEF PermissionsRight
  <2>1. CASE d = d0
    BY <1>7, <1>8, <2>1
  <2>2. CASE d # d0
    <3>1. PermissionsNow(d)' = PermissionsNow(d) /\ PermissionsBefore(d)' = PermissionsBefore(d)
      BY <1>5, <1>6, <2>2, PermissionsStay
    <3> QED BY <1>5, <1>6, <1>7, <1>8, <2>2, <3>1 DEF LinksInv, PermissionsRight
  <2> QED BY <2>1, <2>2
<1>10. NamesTaken'
  BY <1>2, <1>6, DeviceKinds DEF LinksInv, NamesTaken
<1>11. LinksOwned'
  BY <1>5 DEF LinksInv, LinksOwned
<1>12. LinksCurrent'
  BY <1>2, <1>5, <1>6, <1>8, DeviceKinds DEF LinksInv, LinksCurrent
<1>13. TablesCurrent'
  <2> SUFFICES ASSUME missed \cap Dms = {}, NEW d \in Dms, dmName'[d] # None
               PROVE  MapperCurrent(d)'
    BY <1>5 DEF TablesCurrent
  <2>1. CASE d # d0
    <3>1. MapperCurrent(d)
      BY <1>6, <2>1, DeviceKinds DEF LinksInv, TablesCurrent
    <3> QED BY <1>5, <1>6, <1>7, <1>8, <2>1, <3>1, DeviceKinds DEF MapperCurrent
  <2>2. CASE d = d0
    <3> DEFINE l == Mapper(dmName'[d])
               x == links[l]
    <3>1. l \in MapperLinks /\ l \in Links \ {ZonedLink}
      BY <1>6, <2>2, MapperLinksApart
    <3>2. x \in Dms \cup {None}
      <4>1. x \in Disks \cup Dms \cup {None}
        BY <3>1 DEF DeviceInv, DevTypeOK
      <4> QED BY <3>1, <4>1, MapperLinksApart DEF LinksInv, LinksOwned
    <3>3. x \in Dms => Has(queue, "remove", x)
      <4> SUFFICES ASSUME x \in Dms PROVE Has(queue, "remove", x)
        OBVIOUS
      <4>1. l # Mapper(dmName[x])
        BY <1>6, <2>2, MapperLinksApart
      <4>2. x \in (Disks \cup Dms) \ (missed \cup astray)
        BY DeviceKinds DEF DeviceInv, DevTypeOK
      <4> QED BY <3>1, <4>1, <4>2 DEF LinksInv, LinksCurrent
    <3>4. x \in Dms => Follows(queue', x, d)
      BY <1>3, <1>5, <2>2, <3>3, NothingQueued DEF Grown, Tells
    <3> QED BY <1>5, <1>7, <1>8, <2>2, <3>2, <3>4, DeviceKinds DEF MapperCurrent
  <2> QED BY <2>1, <2>2
<1> QED BY <1>9, <1>10, <1>11, <1>12, <1>13 DEF LinksInv

\* A device that goes leaves its links until its removal is handled.
LEMMA RemoveDeviceLinks ==
  ASSUME DeviceInv, LinksInv, NEW d0 \in Devices, RemoveDevice(d0)
  PROVE  LinksInv'
<1> DEFINE e == Uevent("remove", d0, present[d0])
<1>1. Send(e) /\ present[d0] \in Numbers /\ UNCHANGED walk
  BY DEF RemoveDevice, DeviceInv, DevTypeOK
<1>2. /\ e \in Uevents /\ Is(e, "remove", d0) /\ e.action = "remove" /\ e.dev = d0
      /\ \A d : ~Is(e, "add", d) /\ (d # d0 => ~Is(e, "remove", d))
  BY <1>1 DEF Uevent, Uevents, Is
<1> HIDE DEF e
<1>3. /\ phase # "off" => Grown(queue, e, queue') /\ missed' = missed
      /\ phase = "off" => queue = <<>> /\ queue' = <<>> /\ missed' = missed \cup {d0}
      /\ UNCHANGED <<astray, phase, run, nodes, modes, links>>
  BY <1>1, <1>2, SendQueues
<1>4. /\ \A d \in Devices : present'[d] = IF d = d0 THEN None ELSE present[d]
      /\ \A d \in Dms : dmName'[d] = IF d = d0 THEN None ELSE dmName[d]
      /\ late' = late \ {d0}
  BY DEF RemoveDevice, DeviceInv, DevTypeOK
<1>5. \A d \in Devices : Asked(d)' = Asked(d)
  BY <1>1, <1>3 DEF Asked
<1>6. /\ \A a, d : Has(queue, a, d) => Has(queue', a, d)
      /\ \A d : Has(queue', "add", d) <=> Has(queue, "add", d)
      /\ phase # "off" => Has(queue', "remove", d0)
      /\ \A x, d : Follows(queue, x, d) => Follows(queue', x, d)
      /\ \A d : Returns(queue, d) /\ d # d0 => Returns(queue', d)
      /\ \A d : Told(queue, d) => Told(queue', d)
  <2>1. CASE phase = "off"
    BY <1>3, <2>1, NothingQueued
  <2>2. CASE phase # "off"
    BY <1>2, <1>3, <2>2 DEF Grown, Told
  <2> QED BY <2>1, <2>2
<1>7. PermissionsRight'
  <2> SUFFICES ASSUME NEW d \in Devices, present'[d] # None
               PROVE  /\ Returns(queue', d)
                      /\ Asked(d)' /\ ~Has(queue', "add", d) =>
                           \/ modes'[d] = PermissionsNow(d)'
                           \/ d \in late' /\ modes'[d] = PermissionsBefore(d)'
    BY DEF PermissionsRight
  <2>1. d # d0
    BY <1>4
  <2>2. PermissionsNow(d)' = PermissionsNow(d) /\ PermissionsBefore(d)' = PermissionsBefore(d)
    BY <1>3, <1>4, <2>1, PermissionsStay
  <2> QED BY <1>3, <1>4, <1>5, <1>6, <2>1, <2>2 DEF LinksInv, PermissionsRight
<1>8. NamesTaken'
  BY <1>4, DeviceKinds DEF LinksInv, NamesTaken
<1>9. LinksOwned'
  BY <1>3 DEF LinksInv, LinksOwned
<1>10. LinksCurrent'
  <2> SUFFICES ASSUME NEW l \in Links \ {ZonedLink},
                      NEW d \in (Disks \cup Dms) \ (missed' \cup astray), links[l] = d
               PROVE  \/ Has(queue', "remove", d)
                      \/ present'[d] # None /\ (d \in Dms => l = Mapper(dmName'[d]))
    BY <1>3 DEF LinksCurrent
  <2>1. CASE d = d0
    BY <1>3, <1>6, <2>1
  <2>2. CASE d # d0
    BY <1>3, <1>4, <1>6, <2>2, DeviceKinds DEF LinksInv, LinksCurrent
  <2> QED BY <2>1, <2>2
<1>11. TablesCurrent'
  <2> SUFFICES ASSUME missed' \cap Dms = {}, NEW d \in Dms, dmName'[d] # None
               PROVE  MapperCurrent(d)'
    BY DEF TablesCurrent
  <2>1. d # d0 /\ missed \cap Dms = {}
    BY <1>3, <1>4, DeviceKinds
  <2>2. MapperCurrent(d)
    BY <1>4, <2>1, DeviceKinds DEF LinksInv, TablesCurrent
  <2> QED BY <1>3, <1>4, <1>5, <1>6, <2>1, <2>2, DeviceKinds DEF MapperCurrent
<1> QED BY <1>7, <1>8, <1>9, <1>10, <1>11 DEF LinksInv

\* The other uevents say nothing of what is there.
LEMMA OtherUeventsLinks ==
  ASSUME DeviceInv, LinksInv, NEW d0 \in Devices,
         ChangeDevice(d0) \/ (d0 \in Children /\ (BindDriver(d0) \/ UnbindDriver(d0)))
  PROVE  LinksInv'
<1>1. PICK e \in Uevents : Send(e) /\ e.action \in {"change", "bind", "unbind"}
  <2>1. CASE ChangeDevice(d0)
    <3>1. present[d0] \in Numbers
      BY <2>1 DEF ChangeDevice, DeviceInv, DevTypeOK
    <3> QED BY <2>1, <3>1 DEF ChangeDevice, Uevent, Uevents
  <2>2. CASE d0 \in Children /\ (BindDriver(d0) \/ UnbindDriver(d0))
    BY <2>2 DEF BindDriver, UnbindDriver, Uevent, Uevents
  <2> QED BY <2>1, <2>2
<1>2. \A d : ~Is(e, "add", d) /\ ~Is(e, "remove", d)
  BY <1>1 DEF Is
<1>3. /\ phase # "off" => Grown(queue, e, queue')
      /\ phase = "off" => queue = <<>> /\ queue' = <<>>
      /\ UNCHANGED <<missed, astray, phase, run, nodes, modes, links>>
  BY <1>1, SendQueues
<1>4. UNCHANGED <<present, dmName, late, walk>>
  BY DEF ChangeDevice, BindDriver, UnbindDriver
<1>5. \A d \in Devices : Asked(d)' = Asked(d) /\ PermissionsNow(d)' = PermissionsNow(d)
  BY <1>3, <1>4, PermissionsStay DEF Asked
<1>6. /\ \A d : /\ Has(queue', "add", d) <=> Has(queue, "add", d)
                /\ Has(queue, "remove", d) => Has(queue', "remove", d)
                /\ Told(queue, d) => Told(queue', d)
      /\ \A x, d : Follows(queue, x, d) => Follows(queue', x, d)
      /\ \A d : Returns(queue, d) => Returns(queue', d)
  <2>1. CASE phase = "off"
    BY <1>3, <2>1, NothingQueued
  <2>2. CASE phase # "off"
    BY <1>2, <1>3, <2>2 DEF Grown, Told
  <2> QED BY <2>1, <2>2
<1> QED BY <1>3, <1>4, <1>5, <1>6, QueueLonger

\* A table without a name has no link.
LEMMA UnnamedTable ==
  ASSUME NEW e, e.dev \in Dms, dmName[e.dev] = None, NEW path
  PROVE  GetBlockDeviceSymlinks(e, path) = {}
<1> DEFINE names == IF e.action = "remove" THEN {} ELSE {dmName[e.dev]} \ {None}
<1>1. names = {}
  OBVIOUS
<1>2. GetBlockDeviceSymlinks(e, path) = {Mapper(n) : n \in names}
  BY DeviceKinds DEF GetBlockDeviceSymlinks
<1> HIDE DEF names
<1>3. {Mapper(n) : n \in names} = {}
  BY <1>1
<1> QED BY <1>2, <1>3

\* A table gets its name: a link of this name leads to a device whose removal is to come, if
\* anywhere, and the change that is sent comes behind it.
LEMMA NameTableLinks ==
  ASSUME DeviceInv, LinksInv, NEW d0 \in Devices, NameTable(d0)
  PROVE  LinksInv'
<1> DEFINE e == Uevent("change", d0, present[d0])
<1>1. /\ d0 \in Dms /\ present[d0] \in Numbers /\ dmName[d0] = None /\ Send(e)
      /\ UNCHANGED <<present, late, walk>>
  BY DEF NameTable, DeviceInv, DevTypeOK
<1>2. PICK name \in FreeNames : dmName' = [dmName EXCEPT ![d0] = name]
  BY DEF NameTable
<1>3. /\ e \in Uevents /\ e.action # "remove" /\ Tells(e, d0)
      /\ \A d : ~Is(e, "add", d) /\ ~Is(e, "remove", d)
  BY <1>1 DEF Uevent, Uevents, Is, Tells
<1> HIDE DEF e
<1>4. /\ phase # "off" => Grown(queue, e, queue')
      /\ phase = "off" => queue = <<>> /\ queue' = <<>>
      /\ UNCHANGED <<missed, astray, phase, run, nodes, modes, links>>
  BY <1>1, <1>3, SendQueues
<1>5. /\ name \in DmNames /\ name # None /\ \A m \in Dms : dmName[m] # name
      /\ \A d \in Dms : dmName'[d] = IF d = d0 THEN name ELSE dmName[d]
  BY <1>2, DeviceKinds DEF FreeNames, DeviceInv, DevTypeOK
<1>6. \A d \in Devices : Asked(d)' = Asked(d) /\ (Asked(d) => phase # "off")
  BY <1>1, <1>4 DEF Asked
<1>7. /\ \A d : /\ Has(queue', "add", d) <=> Has(queue, "add", d)
                /\ Has(queue, "remove", d) => Has(queue', "remove", d)
                /\ Told(queue, d) \/ (phase # "off" /\ d = d0) => Told(queue', d)
      /\ \A x, d : Follows(queue, x, d) => Follows(queue', x, d)
      /\ \A x : Has(queue, "remove", x) => Follows(queue', x, d0)
      /\ \A d : Returns(queue, d) => Returns(queue', d)
  <2>1. CASE phase = "off"
    BY <1>4, <2>1, NothingQueued
  <2>2. CASE phase # "off"
    BY <1>3, <1>4, <2>2 DEF Grown, Told, Tells
  <2> QED BY <2>1, <2>2
<1>8. PermissionsRight'
  <2> SUFFICES ASSUME NEW d \in Devices, present[d] # None
               PROVE  /\ Returns(queue', d)
                      /\ Asked(d) /\ ~Has(queue, "add", d) =>
                           \/ modes[d] = PermissionsNow(d)'
                           \/ d \in late /\ modes[d] = PermissionsBefore(d)'
    BY <1>1, <1>4, <1>6, <1>7 DEF PermissionsRight
  <2>1. /\ Returns(queue, d)
        /\ Asked(d) /\ ~Has(queue, "add", d) =>
             modes[d] = PermissionsNow(d) \/ (d \in late /\ modes[d] = PermissionsBefore(d))
    BY DEF LinksInv, PermissionsRight
  <2>2. CASE d # d0
    <3>1. PermissionsNow(d)' = PermissionsNow(d) /\ PermissionsBefore(d)' = PermissionsBefore(d)
      BY <1>1, <1>4, <1>5, <2>2, PermissionsStay
    <3> QED BY <1>7, <2>1, <3>1
  <2>3. CASE d = d0
    <3>1. LinksNow(d) = {}
      <4> DEFINE a == Uevent("add", d, present[d])
      <4>1. a.dev \in Dms /\ dmName[a.dev] = None
        BY <1>1, <2>3 DEF Uevent
      <4>2. LinksNow(d) = GetBlockDeviceSymlinks(a, None)
        BY <1>1, <2>3, DeviceKinds DEF LinksNow
      <4> HIDE DEF a
      <4> QED BY <4>1, <4>2, UnnamedTable
    <3>2. PermissionsNow(d) = PermissionsBefore(d)
      BY <3>1 DEF PermissionsNow, PermissionsBefore
    <3>3. d \in late
      BY <1>1, <2>3 DEF LinksInv, NamesTaken
    <3>4. PermissionsBefore(d)' = PermissionsBefore(d)
      BY <1>4 DEF PermissionsBefore
    <3> QED BY <1>7, <2>1, <3>2, <3>3, <3>4
  <2> QED BY <2>2, <2>3
<1>9. NamesTaken'
  BY <1>1, <1>5, DeviceKinds DEF LinksInv, NamesTaken
<1>10. LinksOwned'
  BY <1>4 DEF LinksInv, LinksOwned
<1>11. ASSUME NEW l \in Links \ {ZonedLink}, links[l] = d0, d0 \notin missed
       PROVE  Has(queue, "remove", d0)
  <2>1. l \in MapperLinks
    BY <1>1, <1>11 DEF LinksInv, LinksOwned
  <2>2. l # Mapper(None)
    BY <2>1, MapperLinksApart, DeviceKinds DEF MapperLinks
  <2>3. d0 \notin astray
    BY <1>1, DeviceKinds DEF DeviceInv, DevTypeOK
  <2> QED BY <1>1, <1>11, <2>2, <2>3 DEF LinksInv, LinksCurrent
<1>12. LinksCurrent'
  <2> SUFFICES ASSUME NEW l \in Links \ {ZonedLink},
                      NEW d \in (Disks \cup Dms) \ (missed \cup astray), links[l] = d
               PROVE  \/ Has(queue', "remove", d)
                      \/ present[d] # None /\ (d \in Dms => l = Mapper(dmName'[d]))
    BY <1>1, <1>4 DEF LinksCurrent
  <2>1. CASE d = d0
    BY <1>7, <1>11, <2>1
  <2>2. CASE d # d0
    BY <1>5, <1>7, <2>2 DEF LinksInv, LinksCurrent
  <2> QED BY <2>1, <2>2
<1>13. TablesCurrent'
  <2> SUFFICES ASSUME missed \cap Dms = {}, NEW d \in Dms, dmName'[d] # None
               PROVE  MapperCurrent(d)'
    BY <1>4 DEF TablesCurrent
  <2>1. CASE d # d0
    <3>1. MapperCurrent(d)
      BY <1>5, <2>1 DEF LinksInv, TablesCurrent
    <3> QED BY <1>4, <1>5, <1>6, <1>7, <2>1, <3>1, DeviceKinds DEF MapperCurrent
  <2>2. CASE d = d0
    <3> DEFINE l == Mapper(name)
               x == links[l]
    <3>1. dmName'[d] = name /\ l \in MapperLinks /\ l \in Links \ {ZonedLink}
      BY <1>5, <2>2, MapperLinksApart
    <3>2. x \in Dms \cup {None}
      BY <1>5, MapperLinksTyped DEF LinksInv
    <3>3. x \in Dms => Has(queue, "remove", x)
      <4> SUFFICES ASSUME x \in Dms PROVE Has(queue, "remove", x)
        OBVIOUS
      <4>1. l # Mapper(dmName[x]) /\ x \notin missed \cup astray
        BY <1>5, MapperLinksApart, DeviceKinds DEF DeviceInv, DevTypeOK
      <4> QED BY <3>1, <4>1 DEF LinksInv, LinksCurrent
    <3>4. x \in Dms => Follows(queue', x, d)
      BY <1>7, <2>2, <3>3
    <3> QED BY <1>4, <1>6, <1>7, <2>2, <3>1, <3>2, <3>4, DeviceKinds DEF MapperCurrent
  <2> QED BY <2>1, <2>2
<1> QED BY <1>8, <1>9, <1>10, <1>12, <1>13 DEF LinksInv

LEMMA StartLinks == ASSUME DeviceInv, LinksInv, StartUeventd PROVE LinksInv'
<1>1. /\ UNCHANGED <<missed, astray, queue, modes, links, present, dmName, late>>
      /\ \A d \in Devices : ~Asked(d)'
  BY DEF StartUeventd, kernelVars, Asked
<1> QED BY <1>1, QueueLonger

\* What the search for the boot partition takes from the socket is lost; a removal among it
\* is missed.
LEMMA ProbeLinks == ASSUME DeviceInv, LinksInv, Probe PROVE LinksInv'
<1>1. /\ \A d \in Devices : ~Asked(d)'
      /\ UNCHANGED <<astray, run, modes, links, present, dmName, late>>
  BY DEF Probe, Asked, kernelVars, handlerVars
<1>2. PICK q \in {queue} \cup {Append(queue, Uevent("add", d, present[d])) :
                                 d \in {x \in Devices : present[x] # None}} :
        IF q = <<>> THEN UNCHANGED <<queue, missed>>
        ELSE /\ queue' = Tail(q)
             /\ missed' = IF Head(q).action = "remove" THEN missed \cup {Head(q).dev} ELSE missed
  BY DEF Probe
<1>3. queue \in Seq(Uevents)
  BY DEF DeviceInv, DevTypeOK
<1>4. /\ q \in Seq(Uevents)
      /\ \A d : Has(queue, "remove", d) => Has(q, "remove", d)
      /\ \A x, d : Follows(queue, x, d) => Follows(q, x, d)
      /\ \A d : Returns(queue, d) => Returns(q, d)
  <2>1. CASE q = queue
    BY <1>3, <2>1
  <2>2. CASE q # queue
    <3>1. PICK d \in Devices : present[d] # None /\ q = Append(queue, Uevent("add", d, present[d]))
      BY <1>2, <2>2
    <3> DEFINE e == Uevent("add", d, present[d])
    <3>2. present[d] \in Numbers
      BY <3>1 DEF DeviceInv, DevTypeOK
    <3>3. e \in Uevents /\ \A c : ~Is(e, "remove", c)
      BY <3>2 DEF Uevent, Uevents, Is
    <3> HIDE DEF e
    <3>4. q \in Seq(Uevents) /\ Grown(queue, e, q)
      BY <1>3, <3>1, <3>3, AppendGrows, AppendProperties DEF e
    <3> QED BY <3>3, <3>4 DEF Grown
  <2> QED BY <2>1, <2>2
<1>5. CASE q = <<>>
  <2>1. UNCHANGED <<queue, missed>>
    BY <1>2, <1>5
  <2> QED BY <1>1, <2>1, QueueLonger
<1>6. CASE q # <<>>
  <2> DEFINE h == Head(q)
  <2>1. Shrunk(q, h, queue') /\ h \in Uevents
    BY <1>2, <1>4, <1>6, TailShrinks, HeadTailProperties
  <2>2. missed \subseteq missed' /\ \A d : Is(h, "remove", d) => d \in missed'
    BY <1>2, <1>6 DEF Is
  <2> HIDE DEF h
  <2>3. /\ \A d : d \notin missed' /\ Has(queue, "remove", d) => Has(queue', "remove", d)
        /\ \A x, d : x \notin missed' /\ Follows(queue, x, d) => Follows(queue', x, d)
        /\ \A d : Returns(queue, d) => Returns(queue', d)
    BY <1>4, <2>1, <2>2 DEF Shrunk
  <2>4. PermissionsRight'
    BY <1>1, <2>3 DEF LinksInv, PermissionsRight
  <2>5. NamesTaken' /\ LinksOwned'
    BY <1>1 DEF LinksInv, NamesTaken, LinksOwned
  <2>6. LinksCurrent'
    BY <1>1, <2>2, <2>3 DEF LinksInv, LinksCurrent
  <2>7. TablesCurrent'
    <3> SUFFICES ASSUME missed' \cap Dms = {}, NEW d \in Dms, dmName[d] # None
                 PROVE  MapperCurrent(d)'
      BY <1>1 DEF TablesCurrent
    <3>1. MapperCurrent(d) /\ dmName[d] \in DmNames /\ d \in Devices
      BY <2>2, DeviceKinds DEF LinksInv, TablesCurrent, NamesTaken, DeviceInv, DevTypeOK
    <3>2. links[Mapper(dmName[d])] \in Dms \cup {None}
      BY <3>1, MapperLinksTyped DEF LinksInv
    <3> QED BY <1>1, <2>3, <3>1, <3>2 DEF MapperCurrent
  <2> QED BY <2>4, <2>5, <2>6, <2>7 DEF LinksInv
<1> QED BY <1>5, <1>6

LEMMA RegenerateLinks ==
  ASSUME DeviceInv, LinksInv, NEW d0 \in Devices, Regenerate(d0)
  PROVE  LinksInv'
<1> DEFINE e == Uevent("add", d0, present[d0])
<1>1. /\ queue' = Append(queue, e) /\ walk' = walk \ {d0} /\ phase = "regenerate"
      /\ UNCHANGED <<phase, missed, astray, run, modes, links, present, dmName>>
      /\ late' = IF d0 \in Dms /\ dmName[d0] # None THEN late \ {d0} ELSE late
      /\ present[d0] \in Numbers /\ queue \in Seq(Uevents)
  BY DEF Regenerate, kernelVars, handlerVars, DeviceInv, DevTypeOK
<1>2. e \in Uevents /\ Is(e, "add", d0) /\ \A d : ~Is(e, "remove", d)
  BY <1>1 DEF Uevent, Uevents, Is
<1> HIDE DEF e
<1>3. Grown(queue, e, queue')
  BY <1>1, <1>2, AppendGrows
<1>4. \A d \in Devices : d # d0 => (Asked(d)' <=> Asked(d))
  BY <1>1 DEF Asked
<1>5. \A d \in Devices : /\ Asked(d)' /\ ~Has(queue', "add", d) => Asked(d) /\ ~Has(queue, "add", d)
                         /\ Asked(d)' /\ ~Told(queue', d) => Asked(d) /\ ~Told(queue, d)
  BY <1>1, <1>2, <1>3, <1>4 DEF Grown, Told
<1>6. /\ \A d : Has(queue, "remove", d) => Has(queue', "remove", d)
      /\ \A x, d : Follows(queue, x, d) => Follows(queue', x, d)
      /\ \A d : Returns(queue, d) => Returns(queue', d)
  BY <1>2, <1>3 DEF Grown
<1>7. \A d \in late \ late' : dmName[d] # None /\ Has(queue', "add", d)
  <2>1. \A d \in late \ late' : d = d0 /\ dmName[d0] # None
    BY <1>1
  <2> QED BY <1>2, <1>3, <2>1 DEF Grown
<1> QED BY <1>1, <1>5, <1>6, <1>7, QueueLonger

LEMMA RegenerateDoneLinks == ASSUME DeviceInv, LinksInv, RegenerateDone PROVE LinksInv'
<1>1. /\ UNCHANGED <<missed, astray, run, queue, modes, links, present, dmName, late>>
      /\ \A d \in Devices : Asked(d) \/ present[d] = None
  BY DEF RegenerateDone, kernelVars, handlerVars, Asked
<1> QED BY <1>1, QueueLonger

LEMMA QuitLinks == ASSUME DeviceInv, LinksInv, QuitUeventd PROVE LinksInv'
<1>1. /\ UNCHANGED <<astray, run, modes, links, present, dmName, late>>
      /\ queue' = <<>> /\ missed' = missed \cup RemovesIn(queue)
      /\ \A d \in Devices : ~Asked(d)'
  BY DEF QuitUeventd, kernelVars, handlerVars, Asked
<1>2. /\ \A d : Has(queue, "remove", d) => d \in missed'
      /\ \A x, d : Follows(queue, x, d) => x \in missed'
  <2>1. DOMAIN queue = 1..Len(queue)
    BY LenProperties DEF DeviceInv, DevTypeOK
  <2>2. \A d : Has(queue, "remove", d) => d \in missed'
    BY <1>1, <2>1 DEF RemovesIn, Has, Is
  <2>3. \A x, d : Follows(queue, x, d) => Has(queue, "remove", x)
    BY DEF Follows, Has
  <2> QED BY <2>2, <2>3
<1>3. PermissionsRight'
  BY <1>1, NothingQueued DEF PermissionsRight
<1>4. NamesTaken' /\ LinksOwned' /\ LinksCurrent'
  BY <1>1, <1>2 DEF LinksInv, NamesTaken, LinksOwned, LinksCurrent
<1>5. TablesCurrent'
  <2> SUFFICES ASSUME missed' \cap Dms = {}, NEW d \in Dms, dmName[d] # None
               PROVE  MapperCurrent(d)'
    BY <1>1 DEF TablesCurrent
  <2>1. MapperCurrent(d) /\ dmName[d] \in DmNames /\ d \in Devices
    BY <1>1, DeviceKinds DEF LinksInv, TablesCurrent, NamesTaken, DeviceInv, DevTypeOK
  <2>2. links[Mapper(dmName[d])] \in Dms \cup {None}
    BY <2>1, MapperLinksTyped DEF LinksInv
  <2> QED BY <1>1, <1>2, <2>1, <2>2 DEF MapperCurrent
<1> QED BY <1>3, <1>4, <1>5 DEF LinksInv

\* A bind or an unbind touches the node of the driver only: no link, no permissions of
\* another node.
LEMMA BindLeaves ==
  ASSUME DeviceInv, NEW e \in Uevents, e.action \in {"bind", "unbind"},
         HandleBindInternal(e) \/ UNCHANGED <<nodes, modes, links>>
  PROVE  links' = links /\ \A d \in Devices : modes'[d] = modes[d]
<1>1. links \in [Links -> Disks \cup Dms \cup {None}] /\ modes \in [Nodes -> Perms \cup {None}]
  BY DEF DeviceInv, DevTypeOK
<1>2. CASE UNCHANGED <<nodes, modes, links>>
  BY <1>2
<1>3. CASE HandleBindInternal(e) /\ ~UNCHANGED <<nodes, modes, links>>
  <2> DEFINE a == Uevent("add", e.dev, Head(trackedUevents[e.dev]))
  <2>1. HandleDevice(a, DriverNode(e.dev), {}) /\ a.action = "add"
    BY <1>3 DEF HandleBindInternal, Uevent
  <2> HIDE DEF a
  <2>2. links' = MakeLinks({}, DriverNode(e.dev)) /\ modes' = SetPermissions(DriverNode(e.dev), {})
    BY <2>1 DEF HandleDevice, RemovesNode, MakesLinks
  <2>3. e.dev \in Children
    BY DEF Uevents
  <2>4. \A d \in Devices : d \in Nodes /\ d # DriverNode(e.dev)
    BY <2>3, DriverNodes DEF Nodes
  <2> QED BY <1>1, <2>2, <2>4 DEF MakeLinks, SetPermissions
<1> QED BY <1>2, <1>3

\* The links that are asked for when an event of a device is handled: those of a disk are
\* its own, if the devices above it are there.
LEMMA LinksAskedFor ==
  ASSUME DeviceInv, NEW e \in Uevents, NEW path
  PROVE  LET ls == GetBlockDeviceSymlinks(e, path)
         IN  /\ e.dev \in Dms /\ e.action # "remove" =>
                  ls = {Mapper(n) : n \in {dmName[e.dev]} \ {None}}
             /\ e.dev \in Disks => ls \cap MapperLinks = {}
             /\ e.dev \in Disks /\ path = LinkPath[e.dev] =>
                  ls \subseteq LinksOfDisk(e.dev) /\ LinksOfDisk(e.dev) \ {ZonedLink} \subseteq ls
             /\ e.dev \in Children => ls = {}
<1> DEFINE ls == GetBlockDeviceSymlinks(e, path)
<1>1. CASE e.dev \in Dms
  BY <1>1, DeviceKinds DEF GetBlockDeviceSymlinks
<1>2. CASE e.dev \in Disks
  <2>1. ls = LinksAt(e.dev, path)
    BY <1>2, DeviceKinds DEF GetBlockDeviceSymlinks
  <2>2. ls \cap MapperLinks = {}
    BY <2>1, MapperLinksApart DEF LinksAt
  <2>3. path = LinkPath[e.dev] => /\ ls \subseteq LinksOfDisk(e.dev)
                                  /\ LinksOfDisk(e.dev) \ {ZonedLink} \subseteq ls
    BY <1>2, <2>1, DeviceAssumption DEF LinksAt, LinksOfDisk
  <2> QED BY <1>2, <2>2, <2>3, DeviceKinds
<1>3. CASE e.dev \in Children
  BY <1>3, DeviceKinds DEF GetBlockDeviceSymlinks
<1> QED BY <1>1, <1>2, <1>3, DeviceKinds DEF Uevents

\* An event of a device changes the permissions and the links of this device only.
LEMMA HandleDeviceEffects ==
  ASSUME DeviceInv, NEW e \in Uevents, e.action \in {"add", "change", "remove"}, NEW ls,
         HandleDevice(e, e.dev, ls)
  PROVE  /\ \A d \in Devices \ {e.dev} : modes'[d] = modes[d]
         /\ e.action = "add" =>
              modes'[e.dev] = GetDevicePermissions(Rules[run], e.dev, ls, Default)
         /\ e.action = "change" => modes'[e.dev] = modes[e.dev]
         /\ e.action = "remove" =>
              \A l \in Links :
                links'[l] = IF l \in ls \cup (IF e.dev \in Dms THEN MapperLinks ELSE {})
                               /\ links[l] = e.dev
                            THEN None ELSE links[l]
         /\ e.action = "add" \/ (e.action = "change" /\ e.dev \in Dms) =>
              \A l \in Links : links'[l] = IF l \in ls /\ links[l] = None THEN e.dev ELSE links[l]
         /\ e.action = "change" /\ e.dev \notin Dms => links' = links
<1>1. modes \in [Nodes -> Perms \cup {None}] /\ e.dev \in Devices /\ Devices \subseteq Nodes
  BY DEF DeviceInv, DevTypeOK, Uevents, Devices, Nodes
<1>2. CASE e.action = "add"
  <2>1. modes' = SetPermissions(e.dev, ls) /\ links' = MakeLinks(ls, e.dev)
    BY <1>2 DEF HandleDevice, RemovesNode, MakesLinks
  <2> QED BY <1>1, <1>2, <2>1 DEF SetPermissions, MakeLinks
<1>3. CASE e.action = "remove"
  <2>1. modes' = [modes EXCEPT ![e.dev] = None] /\ links' = RemoveLinks(ls, e.dev)
    BY <1>3 DEF HandleDevice, RemovesNode, MakesLinks
  <2> QED BY <1>1, <1>3, <2>1 DEF RemoveLinks
<1>4. CASE e.action = "change"
  <2>1. modes' = modes /\ links' = IF e.dev \in Dms THEN MakeLinks(ls, e.dev) ELSE links
    BY <1>4 DEF HandleDevice, RemovesNode, MakesLinks
  <2> QED BY <1>1, <1>4, <2>1 DEF MakeLinks
<1> QED BY <1>2, <1>3, <1>4

LEMMA HandleUeventLinks == ASSUME DeviceInv, LinksInv, HandleUevent PROVE LinksInv'
<1> DEFINE e == Head(queue)
<1>1. /\ phase = "handle" /\ queue # <<>> /\ queue' = Tail(queue) /\ queue \in Seq(Uevents)
      /\ UNCHANGED <<present, dmName, late, missed, phase, run, walk>>
  BY DEF HandleUevent, kernelVars, ueventdVars, DeviceInv, DevTypeOK
<1>2. e \in Uevents /\ e.dev \in Devices /\ Shrunk(queue, e, queue')
  <2>1. e \in Uevents
    BY <1>1, HeadTailProperties
  <2> QED BY <1>1, <2>1, TailShrinks DEF Uevents, Devices
<1>3. \A d \in Devices : /\ Asked(d) /\ Asked(d)'
                         /\ PermissionsNow(d)' = PermissionsNow(d)
                         /\ PermissionsBefore(d)' = PermissionsBefore(d)
  BY <1>1, PermissionsStay DEF Asked
<1>4. CASE e.action \in {"bind", "unbind"}
  <2>1. HandleBindInternal(e) \/ UNCHANGED <<nodes, modes, links>>
    BY <1>4 DEF HandleUevent, HandleBind, HandleUnbind
  <2>2. links' = links /\ \A d \in Devices : modes'[d] = modes[d]
    BY <1>2, <1>4, <2>1, BindLeaves
  <2>3. \A d : ~Is(e, "add", d) /\ ~Is(e, "remove", d) /\ ~Is(e, "change", d)
    BY <1>4 DEF Is
  <2>4. /\ \A d : /\ Has(queue, "remove", d) => Has(queue', "remove", d)
                  /\ Has(queue, "add", d) => Has(queue', "add", d)
                  /\ Told(queue, d) => Told(queue', d)
        /\ \A x, d : Follows(queue, x, d) => Follows(queue', x, d)
        /\ \A d : Returns(queue, d) => Returns(queue', d)
    BY <1>2, <2>3 DEF Shrunk, Told
  <2>5. astray' = astray
    BY <1>4 DEF HandleUevent, HandleBind, HandleUnbind
  <2> HIDE DEF e
  <2> QED BY <1>1, <1>3, <2>2, <2>4, <2>5, QueueLonger
<1>5. CASE e.action \notin {"bind", "unbind"}
  <2> PICK path \in PathsFound(e.dev) :
         /\ HandleDevice(e, e.dev, GetBlockDeviceSymlinks(e, path))
         /\ astray' = IF e.action # "change" /\ e.dev \in Disks /\ path # LinkPath[e.dev]
                      THEN astray \cup {e.dev} ELSE astray
    BY <1>5 DEF HandleUevent
  <2> DEFINE ls == GetBlockDeviceSymlinks(e, path)
  <2>1. HandleDevice(e, e.dev, ls) /\ e.action \in {"add", "change", "remove"}
    BY <1>2, <1>5 DEF Uevents
  <2>2. e.action = "add" /\ present[e.dev] # None => ls = LinksNow(e.dev)
    <3> SUFFICES ASSUME e.action = "add", present[e.dev] # None PROVE ls = LinksNow(e.dev)
      OBVIOUS
    <3>1. path = IF e.dev \in Disks THEN LinkPath[e.dev] ELSE None
      BY DEF PathsFound
    <3> QED BY <3>1 DEF LinksNow, GetBlockDeviceSymlinks, Uevent
  <2>3. /\ e.dev \in Dms /\ e.action # "remove" =>
             ls = {Mapper(n) : n \in {dmName[e.dev]} \ {None}}
        /\ e.dev \in Disks => ls \cap MapperLinks = {}
        /\ e.dev \in Disks \ astray' /\ e.action # "change" =>
             ls \subseteq LinksOfDisk(e.dev) /\ LinksOfDisk(e.dev) \ {ZonedLink} \subseteq ls
        /\ e.dev \in Children => ls = {}
        /\ astray \subseteq astray'
    <3>1. e.dev \in Disks \ astray' /\ e.action # "change" => path = LinkPath[e.dev]
      OBVIOUS
    <3> QED BY <1>2, <3>1, LinksAskedFor
  <2>4. e.action = "add" => e.number # None /\ (e.dev \notin missed /\ ~Has(queue', "remove", e.dev)
                                                  => e.number = present[e.dev])
    <3> SUFFICES ASSUME e.action = "add"
                 PROVE  e.number # None /\ (e.dev \notin missed /\ ~Has(queue', "remove", e.dev)
                                              => e.number = present[e.dev])
      OBVIOUS
    <3>1. e.number # None
      BY <1>2, NumbersOfDevices DEF Uevents
    <3>2. ASSUME e.dev \notin missed, ~Has(queue', "remove", e.dev)
          PROVE  e.number = present[e.dev]
      <4>1. Right(queue, e.dev, present[e.dev], nodes[e.dev], Asked(e.dev))
        BY <1>2, <3>2 DEF DeviceInv, QueueRight
      <4>2. ~Has(queue, "remove", e.dev)
        BY <1>2, <3>2 DEF Shrunk, Is
      <4>3. 1 \in 1..Len(queue) /\ queue[1] = e
        BY <1>1, EmptySeq, LenProperties, HeadTailProperties
      <4>4. NoneBehind(queue, 1, e.dev)
        BY <4>2 DEF NoneBehind, Has
      <4>5. Is(queue[1], "add", e.dev)
        BY <4>3 DEF Is
      <4> QED BY <4>1, <4>3, <4>4, <4>5 DEF Right
    <3> QED BY <3>1, <3>2
  <2> HIDE DEF e, ls
  <2>5. /\ \A d \in Devices \ {e.dev} : modes'[d] = modes[d]
        /\ e.action = "add" /\ present[e.dev] # None => modes'[e.dev] = PermissionsNow(e.dev)
        /\ e.action = "change" => modes'[e.dev] = modes[e.dev]
    BY <1>2, <2>1, <2>2, HandleDeviceEffects DEF PermissionsNow
  <2>6. /\ e.action = "remove" =>
             \A l \in Links :
               links'[l] = IF l \in ls \cup (IF e.dev \in Dms THEN MapperLinks ELSE {})
                              /\ links[l] = e.dev
                           THEN None ELSE links[l]
        /\ e.action = "add" \/ (e.action = "change" /\ e.dev \in Dms) =>
             \A l \in Links : links'[l] = IF l \in ls /\ links[l] = None THEN e.dev ELSE links[l]
        /\ e.action = "change" /\ e.dev \notin Dms => links' = links
    <3>1. ASSUME e.action = "remove", NEW l \in Links
          PROVE  links'[l] = IF l \in ls \cup (IF e.dev \in Dms THEN MapperLinks ELSE {})
                                /\ links[l] = e.dev
                             THEN None ELSE links[l]
      BY <1>2, <2>1, <3>1, HandleDeviceEffects
    <3>2. ASSUME e.action = "add" \/ (e.action = "change" /\ e.dev \in Dms), NEW l \in Links
          PROVE  links'[l] = IF l \in ls /\ links[l] = None THEN e.dev ELSE links[l]
      BY <1>2, <2>1, <3>2, HandleDeviceEffects
    <3>3. e.action = "change" /\ e.dev \notin Dms => links' = links
      BY <1>2, <2>1, HandleDeviceEffects
    <3> QED BY <3>1, <3>2, <3>3
  <2>7. PermissionsRight'
    <3> SUFFICES ASSUME NEW d \in Devices, present[d] # None
                 PROVE  /\ Returns(queue', d)
                        /\ ~Has(queue', "add", d) =>
                             \/ modes'[d] = PermissionsNow(d)
                             \/ d \in late /\ modes'[d] = PermissionsBefore(d)
      BY <1>1, <1>3 DEF PermissionsRight
    <3>1. /\ Returns(queue, d)
          /\ ~Has(queue, "add", d) =>
               modes[d] = PermissionsNow(d) \/ (d \in late /\ modes[d] = PermissionsBefore(d))
      BY <1>3 DEF LinksInv, PermissionsRight
    <3> QED BY <1>2, <2>1, <2>5, <3>1 DEF Shrunk, Is
  <2>8. NamesTaken'
    BY <1>1 DEF LinksInv, NamesTaken
  <2>9. LinksOwned'
    <3> SUFFICES ASSUME NEW l \in Links
                 PROVE  /\ links'[l] \in Dms => l \in MapperLinks
                        /\ links'[l] \in Disks => l \notin MapperLinks
                        /\ \A d \in Disks \ astray' : links'[l] = d => l \in LinksOfDisk(d)
      BY DEF LinksOwned
    <3>1. /\ links[l] \in Dms => l \in MapperLinks
          /\ links[l] \in Disks => l \notin MapperLinks
          /\ \A d \in Disks \ astray : links[l] = d => l \in LinksOfDisk(d)
      BY DEF LinksInv, LinksOwned
    <3>2. links'[l] \in {links[l], None}
          \/ (links'[l] = e.dev /\ l \in ls /\ (e.action = "add" \/ (e.dev \in Dms /\ e.action # "remove")))
      BY <2>1, <2>6
    <3>3. e.dev \in Dms /\ l \in ls /\ e.action # "remove" => l \in MapperLinks
      BY <2>3 DEF MapperLinks, DeviceInv, DevTypeOK
    <3> QED BY <1>2, <2>3, <3>1, <3>2, <3>3, DeviceKinds
  <2>10. LinksCurrent'
    <3> SUFFICES ASSUME NEW l \in Links \ {ZonedLink},
                        NEW d \in (Disks \cup Dms) \ (missed \cup astray'), links'[l] = d
                 PROVE  \/ Has(queue', "remove", d)
                        \/ present[d] # None /\ (d \in Dms => l = Mapper(dmName[d]))
      BY <1>1 DEF LinksCurrent
    <3>1. CASE links[l] = d
      <4>1. ~Is(e, "remove", d)
        <5> SUFFICES ASSUME e.action = "remove", e.dev = d PROVE FALSE
          BY DEF Is
        <5>1. l \in ls \cup (IF d \in Dms THEN MapperLinks ELSE {})
          BY <2>3, <3>1 DEF LinksInv, LinksOwned
        <5> QED BY <2>6, <3>1, <5>1, DeviceKinds DEF Devices
      <4>2. d \notin astray
        BY <2>3
      <4> QED BY <1>2, <3>1, <4>1, <4>2 DEF LinksInv, LinksCurrent, Shrunk
    <3>2. CASE links[l] # d
      <4>1. d = e.dev /\ l \in ls /\ (e.action = "add" \/ (e.action = "change" /\ d \in Dms))
        BY <2>1, <2>6, <3>2, DeviceKinds
      <4>2. CASE d \in Dms
        <5>1. dmName[d] # None /\ l = Mapper(dmName[d])
          BY <2>3, <4>1, <4>2
        <5> QED BY <4>2, <5>1 DEF LinksInv, NamesTaken
      <4>3. CASE d \notin Dms
        BY <2>4, <4>1, <4>3
      <4> QED BY <4>2, <4>3
    <3> QED BY <3>1, <3>2
  <2>11. TablesCurrent'
    <3> SUFFICES ASSUME missed \cap Dms = {}, NEW d \in Dms, dmName[d] # None
                 PROVE  MapperCurrent(d)'
      BY <1>1 DEF TablesCurrent
    <3> DEFINE l == Mapper(dmName[d])
               x == links[l]
    <3>1. MapperCurrent(d) /\ dmName[d] \in DmNames /\ d \in Devices /\ Returns(queue, d)
      BY DeviceKinds DEF LinksInv, TablesCurrent, NamesTaken, PermissionsRight, DeviceInv, DevTypeOK
    <3>2. l \in Links \ {ZonedLink} /\ l \in MapperLinks /\ x \in Dms \cup {None}
      BY <3>1, MapperLinksTyped, MapperLinksApart DEF LinksInv
    <3>3. l \in ls /\ e.action # "remove" => e.dev = d
      <4> SUFFICES ASSUME l \in ls, e.action # "remove" PROVE e.dev = d
        OBVIOUS
      <4>1. e.dev \in Dms
        BY <1>2, <2>3, <3>2, MapperLinksApart, DeviceKinds
      <4>2. dmName[e.dev] = dmName[d]
        BY <2>3, <4>1, MapperLinksApart
      <4> QED BY <3>1, <4>1, <4>2, DeviceKinds DEF LinksInv, NamesTaken
    <3>4. Tells(e, d) => l \in ls
      BY <2>3, <3>1, DeviceKinds DEF Tells, Is
    <3> HIDE DEF l
    <3>5. CASE x = d
      <4>1. CASE e.action = "remove" /\ e.dev = d
        <5>1. links'[l] = None /\ Told(queue', d)
          BY <1>2, <2>6, <3>1, <3>2, <3>5, <4>1 DEF Shrunk, Is, Told
        <5> QED BY <1>1, <5>1 DEF MapperCurrent, l
      <4>2. CASE ~(e.action = "remove" /\ e.dev = d)
        <5>1. links'[l] = d
          BY <2>1, <2>6, <3>2, <3>5, <4>2, DeviceKinds
        <5> QED BY <1>1, <5>1 DEF MapperCurrent, l
      <4> QED BY <4>1, <4>2
    <3>6. CASE x = None
      <4>1. Told(queue, d)
        <5>1. ~Follows(queue, None, d)
          <6>1. \A i \in 1..Len(queue) : queue[i].dev \in Devices
            BY <1>1, ElementOfSeq DEF Uevents, Devices
          <6> QED BY <6>1, DeviceKinds DEF Follows, Is
        <5> QED BY <1>3, <3>1, <3>6, <5>1, DeviceKinds DEF MapperCurrent, l
      <4>2. links'[l] \in {None, d} /\ (Tells(e, d) => links'[l] = d)
        BY <2>1, <2>6, <3>2, <3>3, <3>4, <3>6 DEF Is, Tells
      <4>3. links'[l] = d \/ Told(queue', d)
        BY <1>2, <4>1, <4>2 DEF Shrunk, Told, Tells
      <4> QED BY <1>1, <4>2, <4>3 DEF MapperCurrent, l
    <3>7. CASE x \notin {None, d}
      <4>1. Follows(queue, x, d)
        BY <3>1, <3>7 DEF MapperCurrent, l
      <4>2. CASE Is(e, "remove", x)
        <5>1. links'[l] = None
          BY <2>6, <3>2, <3>7, <4>2 DEF Is
        <5>2. Told(queue', d)
          BY <1>2, <4>1, <4>2 DEF Shrunk
        <5> QED BY <1>1, <5>1, <5>2 DEF MapperCurrent, l
      <4>3. CASE ~Is(e, "remove", x)
        <5>1. links'[l] = x
          BY <2>1, <2>6, <3>2, <3>7, <4>3 DEF Is
        <5>2. Follows(queue', x, d)
          BY <1>2, <4>1, <4>3 DEF Shrunk
        <5> QED BY <1>1, <5>1, <5>2 DEF MapperCurrent, l
      <4> QED BY <4>2, <4>3
    <3> QED BY <3>5, <3>6, <3>7
  <2> QED BY <2>7, <2>8, <2>9, <2>10, <2>11 DEF LinksInv
<1> QED BY <1>4, <1>5

LEMMA LinksKept == DeviceInv /\ LinksInv /\ [Next]_vars => LinksInv'
<1> SUFFICES ASSUME DeviceInv, LinksInv, [Next]_vars PROVE LinksInv'
  OBVIOUS
<1>1. CASE Kernel
  BY <1>1, DeviceKinds, AddDeviceLinks, RemoveDeviceLinks, NameTableLinks, OtherUeventsLinks DEF Kernel
<1>2. CASE Ueventd
  BY <1>2, StartLinks, ProbeLinks, RegenerateLinks, RegenerateDoneLinks, QuitLinks,
     HandleUeventLinks DEF Ueventd
<1>3. CASE UNCHANGED vars
  <2>1. UNCHANGED <<missed, astray, modes, links, present, dmName, late, run, queue, phase, walk>>
    BY <1>3 DEF vars, kernelVars, ueventdVars, handlerVars
  <2>2. \A d \in Devices : Asked(d)' = Asked(d)
    BY <2>1 DEF Asked
  <2> QED BY <2>1, <2>2, QueueLonger
<1> QED BY <1>1, <1>2, <1>3 DEF Next

\* The permissions and the links are those that the queue leaves to be made, in every
\* reachable state.
THEOREM LinksInvariant == Spec => []LinksInv
<1>1. Init => LinksInv
  BY InitLinks
<1>2. DeviceInv /\ LinksInv /\ [Next]_vars => LinksInv'
  BY LinksKept
<1> QED BY <1>1, <1>2, DeviceInvariant, PTL DEF Spec

\* When all uevents have been handled, HandleDevice has given every node the permissions of
\* the present run's rules for it and its present links, however it was made; those of a table
\* that was announced before its name are those with its link or those without it.
THEOREM PermissionsLast == Spec => []PermissionsOfLastRules
<1>1. LinksInv => PermissionsOfLastRules
  <2> SUFFICES ASSUME LinksInv, Settled, NEW d \in Devices, present[d] # None
               PROVE  \E ls \in {LinksNow(d)} \cup (IF d \in late THEN {{}} ELSE {}) :
                        modes[d] = GetDevicePermissions(Rules[run], d, ls, Default)
    BY DEF PermissionsOfLastRules
  <2>1. modes[d] = PermissionsNow(d) \/ (d \in late /\ modes[d] = PermissionsBefore(d))
    BY NothingQueued DEF LinksInv, PermissionsRight, Settled, Asked
  <2> QED BY <2>1 DEF PermissionsNow, PermissionsBefore
<1> QED BY <1>1, LinksInvariant, PTL

\* When all uevents have been handled, RemoveDeviceMapperLinks and HandleDevice have left no
\* link behind that leads to a node which is gone, the one of a zoned disk excepted and those
\* of a disk one of whose uevents was handled when the devices above it had gone as well.
THEOREM LinksLead == Spec => []LinksLeadToNodes
<1>1. DeviceInv /\ LinksInv /\ NodesMatchDevices => LinksLeadToNodes
  <2> SUFFICES ASSUME DeviceInv, LinksInv, NodesMatchDevices, Settled,
                      NEW l \in Links \ {ZonedLink}, links[l] \notin missed \cup astray \cup {None}
               PROVE  nodes[links[l]] # None
    BY DEF LinksLeadToNodes
  <2>1. links[l] \in (Disks \cup Dms) \ (missed \cup astray)
    BY DEF DeviceInv, DevTypeOK
  <2>2. present[links[l]] # None
    BY <2>1, NothingQueued DEF LinksInv, LinksCurrent, Settled
  <2> QED BY <2>1, <2>2, DeviceKinds DEF NodesMatchDevices
<1> QED BY <1>1, DeviceInvariant, LinksInvariant, NodesMatch, PTL

\* When all uevents have been handled and no removal of a table was missed, the name of every
\* table leads to it, whether it had the name when it was announced or got it later, although
\* tables take over the names of others and HandleDevice reads the name later than the event
\* was sent.
THEOREM TablesAreLinked == Spec => []TablesLinked
<1>1. DeviceInv /\ LinksInv => TablesLinked
  <2> SUFFICES ASSUME DeviceInv, LinksInv, Settled, missed \cap Dms = {}, NEW d \in Dms,
                      dmName[d] # None
               PROVE  links[Mapper(dmName[d])] = d
    BY DEF TablesLinked
  <2>1. MapperCurrent(d)
    BY DEF LinksInv, TablesCurrent
  <2> QED BY <2>1, NothingQueued DEF MapperCurrent, Settled, Asked
<1> QED BY <1>1, DeviceInvariant, LinksInvariant, PTL
=============================================================================
