--------------------------- MODULE UeventdParser ---------------------------
(***************************************************************************)
(* The parser of ueventd's configuration: Parser with the import parser    *)
(* and the parsers of ueventd.rc.  A line is a record of its first word    *)
(* (key) and of what the rest of it says (arg); arg.ok tells whether the   *)
(* number of words, the users, the groups and the modes on it are right.   *)
(* Reports of errors and their count are left out: nothing depends on them *)
(***************************************************************************)
EXTENDS FiniteSets, DevicePermissions

CONSTANTS
  Paths,           \* the names of files and directories
  PathOrder,       \* the rank of each name in the order of strings
  Configs,         \* the paths that ParseConfig is called with
  FileSystems,     \* what the paths may hold: lines, the files of a directory, or nothing
  Sizes,           \* the words that ParseByteCount takes for a size
  AbsoluteNames,   \* the names that start with a slash
  Nodes,           \* the device nodes that /dev/ lines may match
  ImportDepth      \* a rank of the paths that falls along every import

File(lines) == [kind |-> "file", lines |-> lines, entries |-> {}]
Directory(entries) == [kind |-> "directory", lines |-> <<>>, entries |-> entries]
NoFile == [kind |-> "missing", lines |-> <<>>, entries |-> {}]

\* Stands for the end of a file where the lines of several are put together.
EndMark == [key |-> "end of file", arg |-> [ok |-> TRUE]]

\* A file that imports itself, alone or with the help of others, is parsed for ever:
\* the configurations considered here have no such cycle.  The entries of their directories
\* are files that can be read.
ASSUME ImportsAcyclic ==
  /\ ImportDepth \in [Paths -> Nat]
  /\ \A fs \in FileSystems, p \in Paths :
       /\ \A e \in fs[p].entries : fs[e].kind = "file" /\ ImportDepth[e] < ImportDepth[p]
       /\ \A i \in DOMAIN fs[p].lines :
            LET line == fs[p].lines[i]
            IN  line.key = "import" /\ line.arg.ok => ImportDepth[line.arg.path] < ImportDepth[p]

\* Files have lines, none of which is taken for the mark of an end, and directories have files,
\* whose names are different and can be sorted.
ASSUME FilesAssumption ==
  /\ Configs \in Seq(Paths) /\ PathOrder \in [Paths -> Nat]
  /\ \A fs \in FileSystems, p \in Paths :
       /\ fs[p].lines \in Seq(Range(fs[p].lines))
       /\ fs[p].kind \in {"file", "directory", "missing"}
       /\ fs[p].kind # "file" => fs[p].lines = <<>>
       /\ \A line \in Range(fs[p].lines) :
            /\ line.key # EndMark.key
            /\ line.arg.ok => /\ line.key = "import" => line.arg.path \in Paths
                              /\ line.key = "firmware_directories" =>
                                   line.arg.directories \in Seq(Range(line.arg.directories))
       /\ fs[p].entries \subseteq Paths /\ IsFiniteSet(fs[p].entries)
       /\ \A e, f \in fs[p].entries : PathOrder[e] = PathOrder[f] => e = f

VARIABLES
  files,           \* the file system
  todo,            \* the paths still to parse: of the configs, and of the imports and
                   \* directories that are being followed, the innermost first
  parsing,         \* what the parser does: "next" path, "lines" of a file, or "done"
  lines,           \* the lines of the file that are not parsed yet
  section,         \* section_parser, by the word it is registered for
  subsystem,       \* subsystem_ of that parser
  imports,         \* imports_ of the ImportParser
  config           \* the UeventdConfiguration
parserVars == <<files, todo, parsing, lines, section, subsystem, imports, config>>

DefaultSubsystem(name) == [name |-> name, devname |-> "uevent_devname", dirname |-> "/dev"]

DefaultConfig ==
  [subsystem |-> <<>>, driver |-> <<>>, sysfsPermissions |-> <<>>, devPermissions |-> <<>>,
   firmwareDirectories |-> <<>>, externalFirmwareHandlers |-> <<>>,
   modaliasHandling |-> TRUE, rcvbufSize |-> "16M",
   parallelMainLoop |-> FALSE, maxWorkers |-> "unset"]

ParserInit ==
  /\ files \in FileSystems
  /\ todo = Configs
  /\ parsing = "next" /\ lines = <<>> /\ section = "none"
  /\ subsystem = DefaultSubsystem("") /\ imports = <<>>
  /\ config = DefaultConfig

-----------------------------------------------------------------------------
(* The parsers of single lines: each gives the configuration after its line *)

ParsePermissionsLine(c, field, arg) ==
  IF arg.ok THEN [c EXCEPT ![field] = Append(@, arg.rule)] ELSE c

ParseFirmwareDirectoriesLine(c, arg) ==
  IF arg.ok THEN [c EXCEPT !.firmwareDirectories = @ \o arg.directories] ELSE c

\* A star at the end of a devpath is not in the devpath of the handler any more.
SameDevpath(other, arg) == arg.match # "prefix" /\ other.devpath = arg.devpath

ParseExternalFirmwareHandlerLine(c, arg) ==
  IF /\ arg.ok
     /\ \A i \in DOMAIN c.externalFirmwareHandlers :
          ~SameDevpath(c.externalFirmwareHandlers[i], arg)
  THEN [c EXCEPT !.externalFirmwareHandlers =
          Append(@, [devpath |-> arg.devpath, match |-> arg.match, path |-> arg.path])]
  ELSE c

ParseEnabledDisabledLine(c, field, arg) ==
  IF arg.ok /\ arg.word \in {"enabled", "disabled"}
  THEN [c EXCEPT ![field] = arg.word = "enabled"] ELSE c

\* ParseUeventSocketRcvbufSizeLine and ParseMainLoopMaxWorkers
ParseSizeLine(c, field, arg) ==
  IF arg.ok /\ arg.word \in Sizes THEN [c EXCEPT ![field] = arg.word] ELSE c

-----------------------------------------------------------------------------
(* SubsystemParser, for "subsystem" and for "driver" *)

DevnameSources == {"uevent_devname", "uevent_devpath", "sys_name"}

\* ParseLineSection of a subsystem: devname or dirname, each with one word.
ParseOption(s, line) ==
  CASE line.arg.ok /\ line.key = "devname" /\ line.arg.word \in DevnameSources ->
         [s EXCEPT !.devname = line.arg.word]
    [] line.arg.ok /\ line.key = "dirname" /\ line.arg.word \in AbsoluteNames ->
         [s EXCEPT !.dirname = line.arg.word]
    [] OTHER -> s

IsDuplicate(c, key, name) == \E i \in DOMAIN c[key] : c[key][i].name = name

\* end_section: the section's subsystem is committed.
EndSection ==
  IF section \in {"subsystem", "driver"} THEN [config EXCEPT ![section] = Append(@, subsystem)]
  ELSE config

-----------------------------------------------------------------------------
(* ParseData *)

SectionKeys == {"import", "subsystem", "driver"}

\* The words that single-line parsers are registered for, in their order.
LineCallbacks ==
  <<"/sys/", "/dev/", "firmware_directories", "external_firmware_handler",
    "modalias_handling", "uevent_socket_rcvbuf_size",
    "parallel_ueventd_main_loop_max_workers", "parallel_ueventd_main_loop">>

\* Any word that starts with a registered one is taken for it.
StartsWith(key, word) ==
  \/ key = word
  \/ key = "parallel_ueventd_main_loop_max_workers" /\ word = "parallel_ueventd_main_loop"

\* The index of the parser that takes a line with this word, 0 if there is none.
CallbackFor(key) ==
  LET Takes(word) == StartsWith(key, word) IN SelectInSeq(LineCallbacks, Takes)

ParseLine(c, callback, arg) ==
  CASE callback = "/sys/" -> ParsePermissionsLine(c, "sysfsPermissions", arg)
    [] callback = "/dev/" -> ParsePermissionsLine(c, "devPermissions", arg)
    [] callback = "firmware_directories" -> ParseFirmwareDirectoriesLine(c, arg)
    [] callback = "external_firmware_handler" -> ParseExternalFirmwareHandlerLine(c, arg)
    [] callback = "modalias_handling" -> ParseEnabledDisabledLine(c, "modaliasHandling", arg)
    [] callback = "parallel_ueventd_main_loop" ->
         ParseEnabledDisabledLine(c, "parallelMainLoop", arg)
    [] callback = "uevent_socket_rcvbuf_size" -> ParseSizeLine(c, "rcvbufSize", arg)
    [] callback = "parallel_ueventd_main_loop_max_workers" -> ParseSizeLine(c, "maxWorkers", arg)

NextLine == parsing = "lines" /\ lines # <<>> /\ lines' = Tail(lines)

\* A line for a single-line parser ends the section before it.
LineCallback ==
  LET line == Head(lines) IN
  /\ NextLine
  /\ CallbackFor(line.key) # 0
  /\ config' = ParseLine(EndSection, LineCallbacks[CallbackFor(line.key)], line.arg)
  /\ section' = "none"
  /\ UNCHANGED <<files, todo, parsing, subsystem, imports>>

\* Variant: a duplicate opens its section all the same.
ParseSubsystemSectionAnyway(line) ==
  /\ line.key \in {"subsystem", "driver"}
  /\ IF line.arg.ok
     THEN section' = line.key /\ subsystem' = DefaultSubsystem(line.arg.name)
     ELSE section' = "none" /\ UNCHANGED subsystem
  /\ UNCHANGED imports

\* ParseSection of a subsystem: one that is there already is refused, with its options.
ParseSubsystemSection(line) ==
  /\ line.key \in {"subsystem", "driver"}
  /\ IF line.arg.ok /\ ~IsDuplicate(EndSection, line.key, line.arg.name)
     THEN section' = line.key /\ subsystem' = DefaultSubsystem(line.arg.name)
     ELSE section' = "none" /\ UNCHANGED subsystem
  /\ UNCHANGED imports

\* ParseSection of an import: the path is kept for the end of the file.
ParseImportSection(line) ==
  /\ line.key = "import"
  /\ IF line.arg.ok
     THEN section' = "import" /\ imports' = Append(imports, line.arg.path)
     ELSE section' = "none" /\ UNCHANGED imports
  /\ UNCHANGED subsystem

SectionStart ==
  LET line == Head(lines) IN
  /\ NextLine
  /\ CallbackFor(line.key) = 0 /\ line.key \in SectionKeys
  /\ config' = EndSection
  /\ ParseSubsystemSection(line) \/ ParseImportSection(line)
  /\ UNCHANGED <<files, todo, parsing>>

\* Any other line is the open section's; there may be none, or one that refuses it.
SectionLine ==
  LET line == Head(lines) IN
  /\ NextLine
  /\ CallbackFor(line.key) = 0 /\ line.key \notin SectionKeys
  /\ subsystem' = IF section \in {"subsystem", "driver"} THEN ParseOption(subsystem, line)
                  ELSE subsystem
  /\ UNCHANGED <<files, todo, parsing, section, imports, config>>

\* Variant: the imports follow what was to be parsed after the file.
EndOfFileImportsLast ==
  /\ parsing = "lines" /\ lines = <<>>
  /\ config' = EndSection /\ section' = "none"
  /\ todo' = todo \o imports /\ imports' = <<>>
  /\ parsing' = "next"
  /\ UNCHANGED <<files, lines, subsystem>>

\* T_EOF, with EndFile of the import parser: what the file imports is parsed at once.
EndOfFile ==
  /\ parsing = "lines" /\ lines = <<>>
  /\ config' = EndSection /\ section' = "none"
  /\ todo' = imports \o todo /\ imports' = <<>>
  /\ parsing' = "next"
  /\ UNCHANGED <<files, lines, subsystem>>

-----------------------------------------------------------------------------
(* ParseConfig *)

\* The files of a directory in the order of their names.
SortedEntries(entries) ==
  LET Place(p) == Cardinality({q \in entries : PathOrder[q] <= PathOrder[p]})
  IN  [i \in 1..Cardinality(entries) |-> CHOOSE p \in entries : Place(p) = i]

\* ParseConfigFile
OpenFile ==
  /\ parsing = "next" /\ todo # <<>> /\ files[Head(todo)].kind = "file"
  /\ todo' = Tail(todo) /\ lines' = files[Head(todo)].lines /\ parsing' = "lines"
  /\ UNCHANGED <<files, section, subsystem, imports, config>>

\* ParseConfigDir
OpenDirectory ==
  /\ parsing = "next" /\ todo # <<>> /\ files[Head(todo)].kind = "directory"
  /\ todo' = SortedEntries(files[Head(todo)].entries) \o Tail(todo)
  /\ UNCHANGED <<files, parsing, lines, section, subsystem, imports, config>>

\* A file that cannot be read is passed over.
SkipMissing ==
  /\ parsing = "next" /\ todo # <<>> /\ files[Head(todo)].kind = "missing"
  /\ todo' = Tail(todo)
  /\ UNCHANGED <<files, parsing, lines, section, subsystem, imports, config>>

\* Every config and all that it imports has been parsed.
AllParsed == parsing = "next" /\ todo = <<>>

\* ParseConfig returns the configuration.
ConfigParsed ==
  /\ AllParsed
  /\ parsing' = "done"
  /\ UNCHANGED <<files, todo, lines, section, subsystem, imports, config>>

ParserStep ==
  \/ LineCallback \/ SectionStart \/ SectionLine \/ EndOfFile
  \/ OpenFile \/ OpenDirectory \/ SkipMissing

-----------------------------------------------------------------------------
(* Properties: what the files say, without the parser *)

\* Every variable stays in its domain, and no subsystem or driver is there twice, neither
\* committed nor about to be.
ParserTypeOK ==
  /\ todo \in Seq(Paths) /\ imports \in Seq(Paths)
  /\ parsing \in {"next", "lines", "done"} /\ section \in SectionKeys \cup {"none"}
  /\ parsing # "lines" => lines = <<>> /\ section = "none" /\ imports = <<>>
  /\ subsystem.devname \in DevnameSources
  /\ \A key \in {"subsystem", "driver"} :
       /\ section = key => ~IsDuplicate(config, key, subsystem.name)
       /\ \A i, j \in DOMAIN config[key] : config[key][i].name = config[key][j].name => i = j

\* The line says something with this first word, and nothing is wrong with it.
Says(line, key) == line.key = key /\ line.arg.ok

ImportsIn(ls) ==
  FlattenSeq([i \in DOMAIN ls |-> IF Says(ls[i], "import") THEN <<ls[i].arg.path>> ELSE <<>>])

AllOf(text, paths) == FlattenSeq([i \in DOMAIN paths |-> text[paths[i]]])

\* The lines that a path stands for, if text gives those of other paths: a file's, then those
\* of all it imports; those of a directory's files in their order.
LinesFrom(fs, text, p) ==
  CASE fs[p].kind = "file" -> Append(fs[p].lines, EndMark) \o AllOf(text, ImportsIn(fs[p].lines))
    [] fs[p].kind = "directory" -> AllOf(text, SortedEntries(fs[p].entries))
    [] fs[p].kind = "missing" -> <<>>

LinesOf(fs) == LET text[p \in Paths] == LinesFrom(fs, text, p) IN text

\* All lines of the configuration, as the files and their imports have them.
AllLines == AllOf(LinesOf(files), Configs)

Rules(text, key) ==
  FlattenSeq([i \in DOMAIN text |-> IF Says(text[i], key) THEN <<text[i].arg.rule>> ELSE <<>>])

FirmwareDirectories(text) ==
  FlattenSeq([i \in DOMAIN text |-> IF Says(text[i], "firmware_directories")
                                    THEN text[i].arg.directories ELSE <<>>])

\* Every list of the configuration is in the order of the lines: the imports of a file, of
\* whatever depth, count as if they stood at its end and before all that is parsed later.
\* The first directory that has an image gives it, and the last rule that matches a node
\* gives its permissions, so the order is what the files decide.
ListsInOrder ==
  AllParsed \/ parsing = "done" =>
    /\ config.firmwareDirectories = FirmwareDirectories(AllLines)
    /\ config.devPermissions = Rules(AllLines, "/dev/")
    /\ config.sysfsPermissions = Rules(AllLines, "/sys/")

LastWord(text, key, words, default) ==
  LET Gives(line) == Says(line, key) /\ line.arg.word \in words
      i == SelectLastInSeq(text, Gives)
  IN  IF i = 0 THEN default ELSE text[i].arg.word

Switch(text, key, default) == LastWord(text, key, {"enabled", "disabled"}, default) = "enabled"

\* A setting has the value of the last line that gives it one; a line that is refused does
\* not reset it, and no line is taken for another whose word begins the same.
LastSettingWins ==
  AllParsed =>
    /\ config.modaliasHandling = Switch(AllLines, "modalias_handling", "enabled")
    /\ config.parallelMainLoop = Switch(AllLines, "parallel_ueventd_main_loop", "disabled")
    /\ config.rcvbufSize = LastWord(AllLines, "uevent_socket_rcvbuf_size", Sizes, "16M")
    /\ config.maxWorkers =
         LastWord(AllLines, "parallel_ueventd_main_loop_max_workers", Sizes, "unset")

\* The lines after the i-th, up to the next that is not an option.
OptionsAfter(text, i) ==
  LET Ends(line) == line.key \in SectionKeys \cup Range(LineCallbacks) \cup {EndMark.key}
  IN  {j \in (i + 1)..Len(text) : \A k \in (i + 1)..j : ~Ends(text[k])}

LastOption(text, i, key, words, default) ==
  LET given == {j \in OptionsAfter(text, i) : Says(text[j], key) /\ text[j].arg.word \in words}
  IN  IF given = {} THEN default ELSE text[Max(given)].arg.word

SectionAt(text, i) ==
  [name |-> text[i].arg.name,
   devname |-> LastOption(text, i, "devname", DevnameSources, "uevent_devname"),
   dirname |-> LastOption(text, i, "dirname", AbsoluteNames, "/dev")]

\* The first lines with this word for each name.
Openings(text, key) ==
  {i \in DOMAIN text : /\ Says(text[i], key)
                       /\ \A j \in 1..(i - 1) :
                            Says(text[j], key) => text[j].arg.name # text[i].arg.name}

\* The subsystems and the drivers are those that the files name, each with the options
\* between its first line and the next line that is not an option: none of a section that
\* was refused, of the section before, or of another file.
OptionsOfOwnSection ==
  AllParsed =>
    \A key \in {"subsystem", "driver"} :
      Range(config[key]) = {SectionAt(AllLines, i) : i \in Openings(AllLines, key)}

OwnRules(p, node) ==
  {line.arg.rule : line \in {l \in Range(files[p].lines) : /\ l.key = "/dev/" /\ l.arg.ok
                                                           /\ Match(l.arg.rule, node)}}

\* "Search the perms list in reverse so that ueventd.$hardware can override ueventd.rc"
\* (devices.cpp:380): a rule of an imported file overrides those that only the file that
\* imports it has, wherever the import stands.
ImportOverrides ==
  AllParsed =>
    \A p \in Paths : \A q \in Range(ImportsIn(files[p].lines)) :
      \A node \in Nodes :
        LET i == RuleFor(config.devPermissions, node, {})
            Others == UNION {OwnRules(o, node) : o \in Paths \ {p}}
        IN  OwnRules(q, node) # {} /\ i # 0 =>
              config.devPermissions[i] \notin OwnRules(p, node) \ Others
=============================================================================
