-------------------------- MODULE UeventdFirmware --------------------------
(***************************************************************************)
(* From the files to the image in the device: ueventd parses its           *)
(* configuration, gives the firmware handler its part of it, and serves    *)
(* the requests of the machine.                                            *)
(***************************************************************************)
EXTENDS UeventdParser, FirmwareHandler

CONSTANT
  Machines         \* the file systems of machines that make requests: none of them turns
                   \* the loading of modules by ueventd off

\* The handlers that the files name are there.
ASSUME HandlersAssumption ==
  \A fs \in FileSystems, p \in Paths : \A line \in Range(fs[p].lines) :
    Says(line, "external_firmware_handler") => line.arg.path \in DOMAIN Provides

\* A devpath is the stem of a prefix, has a star in it, or is the only one it matches: what a
\* line matches is matched by any other line with the same devpath, unless it ends in a star.
ASSUME PatternsAssumption ==
  LET Handlers == {line \in UNION {Range(fs[p].lines) : fs \in FileSystems, p \in Paths} :
                     Says(line, "external_firmware_handler")}
  IN  \A l, m \in Handlers :
        l.arg.devpath = m.arg.devpath /\ l.arg.match # "prefix" =>
          PathsMatching[<<l.arg.devpath, l.arg.match>>]
            \subseteq PathsMatching[<<m.arg.devpath, m.arg.match>>]

RcInit ==
  /\ ParserInit
  /\ directories = <<>> /\ handlers = <<>>
  /\ \E made \in IF files \in Machines THEN SUBSET Requests ELSE {{}} : FirmwareInit(made)

\* The FirmwareHandler is constructed from the configuration.
ConstructHandler ==
  /\ ConfigParsed
  /\ directories' = config.firmwareDirectories
  /\ handlers' = config.externalFirmwareHandlers
  /\ UNCHANGED <<kernelVars, walking, runVars, uevents, loading, server, hampered>>

RcNext ==
  \/ ParserStep /\ UNCHANGED firmwareVars
  \/ ConstructHandler
  \/ parsing = "done" /\ FirmwareNext /\ UNCHANGED parserVars

rcVars == <<parserVars, firmwareVars>>

\* The parser, the thread that handles uevents and each process that serves a request go on;
\* the kernel's timeout expires for a request that ueventd waits for itself.
RcSpec ==
  /\ RcInit /\ [][RcNext]_rcVars
  /\ WF_rcVars((ParserStep /\ UNCHANGED firmwareVars) \/ ConstructHandler)
  /\ WF_rcVars(parsing = "done" /\ HandleUevent /\ UNCHANGED parserVars)
  /\ \A p \in Servers : WF_rcVars(parsing = "done" /\ Serve(p) /\ UNCHANGED parserVars)
  /\ \A r \in Probes : WF_rcVars(parsing = "done" /\ TimeOut(r) /\ UNCHANGED parserVars)

-----------------------------------------------------------------------------
(* Properties *)

\* The type invariants of the parser and of the firmware handler, once both are one system.
RcTypeOK == ParserTypeOK /\ FirmwareTypeOK

\* What ParseConfig returns is what the files say, line by line: their lists in order, the
\* settings of the last good lines, and sections with the options that stand in them.
ConfigurationAsWritten == ListsInOrder /\ LastSettingWins /\ OptionsOfOwnSection

\* The first line for a request in the order of the files, 0 if there is none; and the names
\* that it allows: the default, and what its handler says if that is valid.
LineFor(r) ==
  LET ForRequest(line) == /\ Says(line, "external_firmware_handler")
                          /\ r \in PathsMatching[<<line.arg.devpath, line.arg.match>>]
  IN  SelectInSeq(AllLines, ForRequest)

NamesSaid(r) ==
  {Firmware[r]} \cup IF LineFor(r) = 0 THEN {} ELSE {Provides[AllLines[LineFor(r)].arg.path]} \ Invalid

\* A request is served by the handler on the first line that matches it, and by none only if
\* no line does: refusing a second line for a devpath, which compares patterns without their
\* star, never costs a request its handler and never lets a later line decide.
HandlerOfFirstLine ==
  parsing = "done" =>
    \A r \in asks : IF LineFor(r) = 0 THEN HandlerFor(r) = 0
                    ELSE /\ HandlerFor(r) # 0
                         /\ handlers[HandlerFor(r)].path = AllLines[LineFor(r)].arg.path

SaidDirectories == FirmwareDirectories(AllLines) \o OfApexes

\* What a driver gets is a whole image, from the first directory that the files and the
\* APEXes name and that has one of the names allowed, unless the transfer was hampered or the
\* request announced twice (two children then write to the same request, and the second's
\* "1" may drop what the first is about to commit).
CommittedImage ==
  \A r \in Requests :
    request[r] = "done" /\ announced[r] = 1 /\ r \notin hampered =>
      \E n \in NamesSaid(r) :
        LET Has(d) == n \in Images[d]
            i == SelectInSeq(SaidDirectories, Has)
        IN  i # 0 /\ buffer[r] = SaidDirectories[i]

\* A request that ueventd has aborted could not be served: no directory has an image of a
\* name allowed for it, or the transfer failed.
AbortedForAReason ==
  \A r \in Requests :
    request[r] = "aborted" /\ r \notin hampered =>
      \E n \in NamesSaid(r) :
        \A i \in 1..Len(SaidDirectories) : n \notin Images[SaidDirectories[i]]

\* How a request ends, whoever served it and in whatever order the children ran, is what
\* ueventd.rc, read without the parser, says of it.
ServedAsConfigured == HandlerOfFirstLine /\ CommittedImage /\ AbortedForAReason
=============================================================================
