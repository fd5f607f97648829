-------------------------- MODULE FirmwareHandler --------------------------
(***************************************************************************)
(* The firmware handler of ueventd, in the only thread of ueventd that     *)
(* handles uevents, with the part of the kernel that it serves.  A driver  *)
(* that needs an image makes a request: the kernel announces it by a       *)
(* uevent and waits until somebody has written the image, and then "0" or  *)
(* "-1", to the files of the request, or until its timeout.  ueventd forks *)
(* a child for each announcement; if it cannot, it serves the request      *)
(* itself.  The same thread loads the modules that uevents ask for, and a  *)
(* module may make a request while it is loaded.  A run of ueventd ends    *)
(* when everything that is to be mounted was found: what is announced and  *)
(* not read then is lost with its socket.                                  *)
(***************************************************************************)
EXTENDS Integers, Sequences, FiniteSets, SequencesExt

CONSTANTS
  Requests,        \* the requests, by the devpath
  Probes,          \* those made by a module that ueventd loads, while it loads it
  Firmware,        \* the name of the image that each request is for
  Names,           \* the names of images, in requests and given by external handlers
  Invalid,         \* the names with ".." in them
  Provides,        \* the name that each external handler answers with
  PathsMatching,   \* the devpaths that a pattern matches, by its stem and its kind
  Images,          \* the names in each firmware directory
  ApexDirectories, \* the directories /apex/*/etc/firmware/, in the order of glob
  Versioned,       \* those of them with an @ in the name
  Children,        \* the children that ueventd can fork before fork fails for good
  Ueventd,         \* ueventd itself
  None

ASSUME FirmwareAssumption ==
  /\ Probes \subseteq Requests
  /\ Firmware \in [Requests -> Names]
  /\ Invalid \subseteq Names
  /\ Provides \in [DOMAIN Provides -> Names]
  /\ IsFiniteSet(Children) /\ Ueventd \notin Children
  /\ None \notin Requests \cup Names

VARIABLES
  directories,     \* firmware_directories_
  handlers,        \* external_firmware_handlers_
  asks,            \* the requests that the machine at hand makes
  request,         \* how far the kernel is with each request
  buffer,          \* what has been written to its data since the last "1"
  announced,       \* how often it has been announced
  walking,         \* whether ueventd is still asking for the uevents of all devices
  uevents,         \* the uevents that are sent and not read, in the order of sending
  coldboot,        \* how many of the uevents the cold boot has still to handle
  over,            \* whether ueventd has quit: it reads no uevent any more
  loading,         \* the request of the module that ueventd is loading, or None
  server,          \* what each process is doing for a request
  hampered         \* the requests for which sendfile failed or wrote a part only
handlerData == <<directories, handlers>>
kernelVars == <<asks, request, buffer, announced>>
runVars == <<coldboot, over>>
firmwareVars == <<handlerData, kernelVars, walking, runVars, uevents, loading, server, hampered>>

Servers == Children \cup {Ueventd}
Idle == [step |-> "idle", request |-> None, name |-> None, source |-> None]
Exited == [Idle EXCEPT !.step = "exited"]

Uevent(kind, r) == [kind |-> kind, request |-> r]

\* The request is there: its files can be opened and written to.
Live(r) == request[r] \in {"pending", "loading"}

FirmwareInit(machine) ==
  /\ asks = machine
  /\ request = [r \in Requests |-> "none"]
  /\ buffer = [r \in Requests |-> None]
  /\ announced = [r \in Requests |-> 0]
  /\ walking = TRUE /\ uevents = <<>> /\ loading = None
  /\ coldboot = 0 /\ over = FALSE
  /\ server = [p \in Servers |-> Idle]
  /\ hampered = {}

-----------------------------------------------------------------------------
(* The kernel *)

\* A driver asks for an image.
Ask(r) ==
  /\ r \in asks \ Probes /\ request[r] = "none"
  /\ request' = [request EXCEPT ![r] = "pending"]
  /\ announced' = [announced EXCEPT ![r] = 1]
  /\ uevents' = Append(uevents, Uevent("add", r))
  /\ UNCHANGED <<handlerData, asks, buffer, walking, runVars, loading, server, hampered>>

\* The walk before the cold boot comes to a request that ueventd has heard of already.
AnnounceAgain(r) ==
  /\ walking /\ Live(r) /\ announced[r] = 1
  /\ announced' = [announced EXCEPT ![r] = 2]
  /\ uevents' = Append(uevents, Uevent("add", r))
  /\ UNCHANGED <<handlerData, asks, request, buffer, walking, runVars, loading, server, hampered>>

\* A device comes up whose module will make a request.
ModuleWanted(r) ==
  /\ r \in asks \cap Probes /\ request[r] = "none"
  /\ request' = [request EXCEPT ![r] = "wanted"]
  /\ uevents' = Append(uevents, Uevent("modalias", r))
  /\ UNCHANGED <<handlerData, asks, buffer, announced, walking, runVars, loading, server, hampered>>

\* A request has ended: its device goes away.
Ended(r) == request[r] \in {"done", "aborted", "timed out"}

End(r, how) ==
  /\ request' = [request EXCEPT ![r] = how]
  /\ uevents' = Append(uevents, Uevent("remove", r))

\* The kernel waits no longer.
TimeOut(r) ==
  /\ Live(r)
  /\ End(r, "timed out")
  /\ UNCHANGED <<handlerData, asks, buffer, announced, walking, runVars, loading, server, hampered>>

-----------------------------------------------------------------------------
(* GetFirmwarePath *)

\* The index of the first external handler that matches, 0 if none does.
HandlerFor(r) ==
  LET Match(h) == r \in PathsMatching[<<h.devpath, h.match>>] IN SelectInSeq(handlers, Match)

\* The names it may return: the handler may fail, and what it says may be invalid.
FirmwarePaths(r) ==
  {Firmware[r]} \cup IF HandlerFor(r) = 0 THEN {}
                     ELSE {Provides[handlers[HandlerFor(r)].path]} \ Invalid

GetFirmwarePath(p) ==
  /\ server[p].step = "choose"
  /\ \E name \in FirmwarePaths(server[p].request) :
       server' = [server EXCEPT ![p].step = "open", ![p].name = name]
  /\ UNCHANGED <<handlerData, kernelVars, walking, runVars, uevents, loading, hampered>>

-----------------------------------------------------------------------------
(* ProcessFirmwareEvent *)

\* Variant: a process that serves exits, whoever it is.
LeaveByExit(p) == server' = [server EXCEPT ![p] = Exited]

\* The process is done with the announcement: a child exits, ueventd goes on.
Leave(p) == server' = [server EXCEPT ![p] = IF p = Ueventd THEN Idle ELSE Exited]

\* The files of the request are opened, or are not there any more.
OpenRequest(p) ==
  /\ server[p].step = "open"
  /\ IF Live(server[p].request) THEN server' = [server EXCEPT ![p].step = "search"]
     ELSE Leave(p)
  /\ UNCHANGED <<handlerData, kernelVars, walking, runVars, uevents, loading, hampered>>

\* The directories that glob finds, without those that are there under two names.
OfApexes == LET Plain(d) == d \notin Versioned IN SelectSeq(ApexDirectories, Plain)

\* Variant: the directories of the APEXes come first.
SearchedDirectoriesApexFirst == OfApexes \o directories

\* The directories in the order of ForEachFirmwareDirectory.
SearchedDirectories == directories \o OfApexes

FirstWith(name) ==
  LET Has(d) == name \in Images[d] IN SelectInSeq(SearchedDirectories, Has)

\* Variant: nothing is answered if nothing was found.
SearchSilently(p) ==
  LET s == server[p] IN
  /\ s.step = "search"
  /\ IF FirstWith(s.name) # 0
     THEN server' = [server EXCEPT ![p].step = "start",
                                   ![p].source = SearchedDirectories[FirstWith(s.name)]]
     ELSE Leave(p)
  /\ UNCHANGED <<handlerData, kernelVars, walking, runVars, uevents, loading, hampered>>

\* TryLoadFirmware, in each directory until one has the image.
Search(p) ==
  LET s == server[p] IN
  /\ s.step = "search"
  /\ server' = [server EXCEPT
       ![p] = IF FirstWith(s.name) = 0 THEN [s EXCEPT !.step = "abort"]
              ELSE [s EXCEPT !.step = "start", !.source = SearchedDirectories[FirstWith(s.name)]]]
  /\ UNCHANGED <<handlerData, kernelVars, walking, runVars, uevents, loading, hampered>>

-----------------------------------------------------------------------------
(* LoadFirmware *)

\* "1": the kernel forgets what it was given before.
StartTransfer(p) ==
  LET r == server[p].request IN
  /\ server[p].step = "start"
  /\ IF Live(r)
     THEN request' = [request EXCEPT ![r] = "loading"] /\ buffer' = [buffer EXCEPT ![r] = None]
     ELSE UNCHANGED <<request, buffer>>
  /\ server' = [server EXCEPT ![p].step = "copy"]
  /\ UNCHANGED <<handlerData, asks, announced, walking, runVars, uevents, loading, hampered>>

\* sendfile has copied the image.
CopyWhole(p) ==
  LET r == server[p].request IN
  /\ server[p].step = "copy" /\ Live(r)
  /\ buffer' = [buffer EXCEPT ![r] = server[p].source]
  /\ server' = [server EXCEPT ![p].step = "commit"]
  /\ UNCHANGED <<handlerData, asks, request, announced, walking, runVars, uevents, loading, hampered>>

\* It has copied nothing: the request is gone, or the kernel is out of memory.
CopyFails(p) ==
  LET r == server[p].request IN
  /\ server[p].step = "copy"
  /\ server' = [server EXCEPT ![p].step = "abort"]
  /\ hampered' = hampered \cup {r}
  /\ UNCHANGED <<handlerData, kernelVars, walking, runVars, uevents, loading>>

\* It has copied a part: it returns how much, and that is not -1.
CopyShort(p) ==
  LET r == server[p].request IN
  /\ server[p].step = "copy" /\ Live(r)
  /\ buffer' = [buffer EXCEPT ![r] = None]
  /\ server' = [server EXCEPT ![p].step = "commit"]
  /\ hampered' = hampered \cup {r}
  /\ UNCHANGED <<handlerData, asks, request, announced, walking, runVars, uevents, loading>>

\* "0": the kernel takes what it has been given, if anybody has said "1".
Commit(p) ==
  LET r == server[p].request IN
  /\ server[p].step = "commit"
  /\ IF request[r] = "loading" THEN End(r, "done") ELSE UNCHANGED <<request, uevents>>
  /\ Leave(p)
  /\ UNCHANGED <<handlerData, asks, buffer, announced, walking, runVars, loading, hampered>>

\* "-1", after a failed transfer or if no directory has the image.
Abort(p) ==
  LET r == server[p].request IN
  /\ server[p].step = "abort"
  /\ IF Live(r) THEN End(r, "aborted") ELSE UNCHANGED <<request, uevents>>
  /\ Leave(p)
  /\ UNCHANGED <<handlerData, asks, buffer, announced, walking, runVars, loading, hampered>>

Serve(p) ==
  \/ GetFirmwarePath(p) \/ OpenRequest(p) \/ Search(p) \/ StartTransfer(p)
  \/ CopyWhole(p) \/ CopyFails(p) \/ CopyShort(p) \/ Commit(p) \/ Abort(p)

-----------------------------------------------------------------------------
(* The thread of ueventd: one uevent after another *)

Free == ~walking /\ server[Ueventd].step = "idle" /\ loading = None

\* RegenerateUevents returns: the cold boot handles what it has read.
WalkOver ==
  /\ walking
  /\ walking' = FALSE /\ coldboot' = Len(uevents)
  /\ UNCHANGED <<handlerData, kernelVars, over, uevents, loading, server, hampered>>

NextUevent(kind) ==
  /\ Free /\ ~over /\ uevents # <<>> /\ Head(uevents).kind = kind
  /\ uevents' = Tail(uevents)
  /\ coldboot' = IF coldboot = 0 THEN 0 ELSE coldboot - 1

\* Only the adding of a request is looked at.
IgnoreUevent ==
  /\ NextUevent("remove")
  /\ UNCHANGED <<handlerData, kernelVars, walking, over, loading, server, hampered>>

Start(r) == [Idle EXCEPT !.step = "choose", !.request = r]

\* Variant: the parent does not return, and serves the request as well.
ForkChildAndGoOn(c) ==
  /\ NextUevent("add") /\ server[c] = Idle
  /\ server' = [server EXCEPT ![c] = Start(Head(uevents).request),
                              ![Ueventd] = Start(Head(uevents).request)]
  /\ UNCHANGED <<handlerData, kernelVars, walking, over, loading, hampered>>

\* HandleUevent: a child serves the request.
ForkChild(c) ==
  /\ NextUevent("add") /\ server[c] = Idle
  /\ server' = [server EXCEPT ![c] = Start(Head(uevents).request)]
  /\ UNCHANGED <<handlerData, kernelVars, walking, over, loading, hampered>>

\* fork may fail, and children are never waited for: ueventd serves the request itself.
ForkFails ==
  /\ NextUevent("add")
  /\ server' = [server EXCEPT ![Ueventd] = Start(Head(uevents).request)]
  /\ UNCHANGED <<handlerData, kernelVars, walking, over, loading, hampered>>

\* The modalias handler has the kernel initialise a module, which asks for its image.
LoadModule ==
  /\ Free /\ ~over /\ uevents # <<>> /\ Head(uevents).kind = "modalias"
  /\ LET r == Head(uevents).request IN
     /\ loading' = r
     /\ request' = [request EXCEPT ![r] = "pending"]
     /\ announced' = [announced EXCEPT ![r] = 1]
     /\ uevents' = Append(Tail(uevents), Uevent("add", r))
  /\ coldboot' = IF coldboot = 0 THEN 0 ELSE coldboot - 1
  /\ UNCHANGED <<handlerData, asks, buffer, walking, over, server, hampered>>

ModuleLoaded ==
  /\ loading # None /\ Ended(loading)
  /\ loading' = None
  /\ UNCHANGED <<handlerData, kernelVars, walking, runVars, uevents, server, hampered>>

HandleUevent ==
  \/ WalkOver \/ IgnoreUevent \/ (\E c \in Children : ForkChild(c)) \/ ForkFails
  \/ LoadModule \/ ModuleLoaded

\* The run ends when the mount handler says that it can: the first one after the cold boot
\* and after any uevent, whatever is in the socket, and both after 5 seconds without one.
Quit ==
  /\ Free /\ ~over /\ coldboot = 0
  /\ over' = TRUE
  /\ UNCHANGED <<handlerData, kernelVars, walking, coldboot, uevents, loading, server, hampered>>

KernelStep == \E r \in Requests : Ask(r) \/ AnnounceAgain(r) \/ ModuleWanted(r) \/ TimeOut(r)

FirmwareNext == KernelStep \/ HandleUevent \/ Quit \/ \E p \in Servers : Serve(p)

-----------------------------------------------------------------------------
(* Properties *)

Steps == {"idle", "choose", "open", "search", "start", "copy", "commit", "abort", "exited"}

\* Every variable stays in its domain; ueventd does not serve and load at the same time,
\* never exits, and quits with nothing of its own left to do.
FirmwareTypeOK ==
  /\ asks \subseteq Requests /\ hampered \subseteq Requests
  /\ request \in [Requests -> {"none", "wanted", "pending", "loading", "done", "aborted", "timed out"}]
  /\ announced \in [Requests -> 0..2]
  /\ walking \in BOOLEAN /\ loading \in Probes \cup {None}
  /\ coldboot \in Nat /\ over \in BOOLEAN
  /\ \A p \in Servers : /\ server[p].step \in Steps
                        /\ server[p].request \in Requests \cup {None}
                        /\ server[p].name \in Names \cup {None}
  /\ server[Ueventd].step = "idle" \/ loading = None
  /\ server[Ueventd].step # "exited"
  /\ over => Free /\ coldboot = 0

\* How many announcements of a request nobody has read.
Unread(r) == Cardinality({i \in DOMAIN uevents : uevents[i] = Uevent("add", r)})

\* Whoever serves a request works for one announcement of it: no announcement is served
\* twice, and a process that serves is in the middle of an announcement that nobody else has.
AnnouncementServedOnce ==
  \A r \in Requests : Cardinality({p \in Servers : server[p].request = r}) + Unread(r) <= announced[r]

\* Every request of which ueventd has read an announcement ends, by an answer or by the
\* kernel's timeout, also after ueventd has quit.  Only for the requests of modules that
\* ueventd itself loads is the timeout needed: it is taken to expire for those alone.  What
\* this run does not end are the requests of which it has read nothing when it quits: they
\* are left to the timeout, or to the next run, for which they are announced again.
RequestsEnd ==
  \A r \in Requests :
    request[r] \in {"wanted", "pending"} ~> Ended(r) \/ (over /\ Unread(r) = announced[r])

\* ueventd gets back to its uevents, or to its end, whatever it waits for.
UeventdReturns == (~Free) ~> Free
=============================================================================
