----------------------------- MODULE HookEvents -----------------------------
(***************************************************************************)
(* packages/codex/src/hook.ts: the execution event that a Codex hook       *)
(* records, as a function of the JSON object on its standard input and of  *)
(* the files it can see.                                                   *)
(*                                                                         *)
(* An input has fields hook (hook_event_name) and fields, a function from  *)
(* the names of its other members to values.  A value is a record with a   *)
(* type; a string has a text, of which the code asks four things: raw (the *)
(* text itself), slug (what is left of it when every character that is not *)
(* a letter, digit, dot, dash or underscore becomes a dash and the outer   *)
(* dashes are cut), long (over 96 characters) and token (every character   *)
(* is one of those or a colon).  Distinct texts may have the same slug.    *)
(* No text begins or ends with white space, so that trim leaves it as it   *)
(* is; the blank one is "".                                                *)
(* SHA-256 is a constructor: a hash is <<"hash", what was hashed>>, and    *)
(* <<>> stands for an optional hash or label that is absent.               *)
(*                                                                         *)
(* A definition whose comment begins with "Faulty" is not part of the      *)
(* model: it is a variant with a plausible bug, which a property must      *)
(* catch (PROJECT.json, mutants).                                          *)
(***************************************************************************)
EXTENDS Integers, FiniteSets, Sequences, SequencesExt

CONSTANTS
  Resolve(_, _),  \* node's path.resolve(cwd, path), both given by their raw text
  Lower(_)        \* toLowerCase of a text, which is as long and as much a token

-----------------------------------------------------------------------------
(***************************************************************************)
(* Values, and the readers at the end of the file.                         *)
(***************************************************************************)
Plain(s) == [raw |-> s, slug |-> s, long |-> FALSE, token |-> TRUE]
Str(text) == [type |-> "string", text |-> text]
Num(n) == [type |-> "number", number |-> n]
Bool(b) == [type |-> "boolean", boolean |-> b]
Obj(fields) == [type |-> "object", fields |-> fields]
Undefined == [type |-> "undefined"]

Hash(value) == <<"hash", value>>

\* readUnknown, readString, readNumberValue.
Read(object, key) ==
  IF key \in DOMAIN object.fields THEN object.fields[key] ELSE Undefined
ReadAs(type, object, key) ==
  IF Read(object, key).type = type THEN Read(object, key) ELSE Undefined
ReadString(object, key) == ReadAs("string", object, key)
HasString(object, key) == ReadString(object, key) # Undefined
HasAny(object, keys) == \E k \in keys : Read(object, k) # Undefined

\* readString(keys[1]) ?? readString(keys[2]) ?? ...
FirstString(object, keys) ==
  LET present == SelectSeq(keys, LAMBDA k : HasString(object, k))
  IN IF present = <<>> THEN Undefined ELSE ReadString(object, present[1])

RawIn(value, raws) == value.type = "string" /\ value.text.raw \in raws
LowerIn(value, raws) == value.type = "string" /\ Lower(value.text).raw \in raws

\* safeIdentifier: the slug, cut and completed by a digest when it is long,
\* and a digest alone when nothing is left.
SafeIdentifier(text) ==
  CASE text.slug = "" -> <<"digest", text.raw>>
    [] text.slug # "" /\ text.long -> <<"slug", text.slug, text.raw>>
    [] OTHER -> <<"slug", text.slug>>

\* isSafeMetadataToken
IsSafeToken(text) == text.token /\ ~text.long

-----------------------------------------------------------------------------
(***************************************************************************)
(* The signals without which a hook records nothing, the members its       *)
(* fingerprint covers, and the members kept as metadata.                   *)
(***************************************************************************)
PermissionKeys ==
  {"approval_policy", "approval_status", "outcome", "permission_decision",
   "permission_request_id", "request_id", "sandbox_mode", "status", "tool_name",
   "tool_use_id"}
SubagentKeys ==
  {"agent_id", "agent_name", "parent_session_id", "parent_turn_id", "status",
   "subagent_id", "task_id"}
BoundaryKeys ==
  {"boundary_kind", "event", "session_start_kind", "source", "startup_type"}
CompactNumbers == {"context_window_percent", "input_tokens", "token_count"}

HasPermissionRequestSignal(input) ==
  \/ \E k \in PermissionKeys \cup {"pause_reason", "reason"} : HasString(input, k)
  \/ HasAny(input, {"sandbox_permissions", "tool_input"})

HasCompactSignal(input) ==
  \/ \E k \in {"acceptance_criteria", "compact_id", "compaction_id",
               "inspected_files_summary", "reason", "summary", "trigger"} : HasString(input, k)
  \/ \E k \in CompactNumbers : ReadAs("number", input, k) # Undefined

HasSubagentSignal(input) ==
  \/ \E k \in SubagentKeys \cup {"delegated_prompt", "prompt", "result", "task",
                                 "transcript"} : HasString(input, k)
  \/ HasAny(input, {"tool_input", "tool_response"})

HasSessionStartSignal(input) ==
  /\ \E k \in {"session_id", "thread_id"} : HasString(input, k)
  /\ \E k \in BoundaryKeys \cup {"prompt", "reason", "summary"} : HasString(input, k)

\* a ?? b of two members of any type
Coalesce(input, first, second) ==
  IF Read(input, first) # Undefined THEN Read(input, first) ELSE Read(input, second)

\* The hash of the hook's name and of the named members, read as they are.
Fingerprint(input, keys, renamed) ==
  Hash([hook |-> input.hook,
        members |-> [k \in {j \in keys : Read(input, j) # Undefined} |-> Read(input, k)],
        coalesced |-> renamed])

PermissionRequestFingerprint(input) ==
  Fingerprint(input, PermissionKeys \cup {"sandbox_permissions", "tool_input"},
              Coalesce(input, "pause_reason", "reason"))

CompactFingerprint(input) ==
  Fingerprint(input, CompactNumbers \cup
                {"acceptance_criteria", "compact_id", "compaction_id",
                 "inspected_files_summary", "reason", "summary", "trigger"}, Undefined)

SubagentFingerprint(input) ==
  Fingerprint(input, SubagentKeys \cup
                {"result", "task", "tool_input", "tool_response", "transcript"},
              Coalesce(input, "delegated_prompt", "prompt"))

SessionStartFingerprint(input) ==
  Fingerprint(input, BoundaryKeys \cup {"prompt", "reason", "summary", "thread_id"}, Undefined)

\* safeMetadataString: a safe token is kept, any other text is hashed.
SafeMetadataString(input, key) ==
  IF IsSafeToken(ReadString(input, key).text)
  THEN [key |-> key, mode |-> "raw", value |-> ReadString(input, key).text.raw]
  ELSE [key |-> key, mode |-> "fingerprint", value |-> Hash(ReadString(input, key).text.raw)]

SafeMetadata(input, keys) ==
  {SafeMetadataString(input, k) : k \in {j \in keys : HasString(input, j)}}

\* reasonFingerprint and pauseReasonFingerprint
ReasonMetadata(input, keys) ==
  IF FirstString(input, keys) = Undefined THEN {}
  ELSE {[key |-> "reason", mode |-> "fingerprint",
         value |-> Hash(FirstString(input, keys).text.raw)]}

NumberMetadata(input) ==
  {[key |-> k, mode |-> "number", value |-> Read(input, k).number] :
     k \in {j \in CompactNumbers : ReadAs("number", input, j) # Undefined}}

\* The members codexMetadata keeps as they are, and those it hashes; transcript_path
\* may also be null.
CodexMetadata(input) ==
  {[key |-> k, mode |-> "raw", value |-> Read(input, k).text.raw] :
     k \in {j \in {"model", "permission_mode", "session_id", "thread_id", "turn_id"} :
              Read(input, j) # Undefined}}
  \cup
  {[key |-> k, mode |-> "fingerprint", value |-> Hash(Read(input, k).text.raw)] :
     k \in {j \in {"cwd", "transcript_path"} : HasString(input, j)}}

-----------------------------------------------------------------------------
(***************************************************************************)
(* Artifacts.  All of them but files are a redacted text: a fingerprint.   *)
(***************************************************************************)
RedactedArtifact(id, kind, hashed) ==
  [id |-> id, kind |-> kind, fingerprint |-> hashed, file |-> <<>>]

\* sessionStartStringArtifact, subagentStringArtifact, subagentUnknownArtifact
\* and compactStringArtifact: none if the member is absent.
ArtifactOf(id, kind, value) ==
  IF value = Undefined THEN {} ELSE {RedactedArtifact(<<id>>, kind, Hash(value))}

SessionStartArtifacts(input) ==
  {RedactedArtifact(<<"session-start">>, "session_start", SessionStartFingerprint(input))}
  \cup ArtifactOf("session-start-prompt", "prompt", ReadString(input, "prompt"))
  \cup ArtifactOf("session-start-reason", "session_reason", ReadString(input, "reason"))
  \cup ArtifactOf("session-start-summary", "summary", ReadString(input, "summary"))

SubagentArtifacts(input) ==
  ArtifactOf("subagent-delegated-prompt", "delegated_prompt",
             FirstString(input, <<"delegated_prompt", "prompt">>))
  \cup ArtifactOf("subagent-task", "subagent_task", ReadString(input, "task"))
  \cup ArtifactOf("subagent-result", "subagent_result", ReadString(input, "result"))
  \cup ArtifactOf("subagent-transcript", "transcript", ReadString(input, "transcript"))
  \cup ArtifactOf("subagent-tool-intent", "tool_intent", Read(input, "tool_input"))
  \cup ArtifactOf("subagent-tool-result", "tool_result", Read(input, "tool_response"))

CompactArtifacts(input, phase) ==
  {RedactedArtifact(<<"compact-context", phase>>, "compact_context", CompactFingerprint(input))}
  \cup ArtifactOf("compact-acceptance-criteria", "acceptance_criteria",
                  ReadString(input, "acceptance_criteria"))
  \cup ArtifactOf("compact-inspected-files-summary", "inspected_files_summary",
                  ReadString(input, "inspected_files_summary"))
  \cup ArtifactOf("compact-summary", "summary", ReadString(input, "summary"))

PermissionRequestArtifacts(input) ==
  {RedactedArtifact(<<"permission-request">>, "permission_request",
                    PermissionRequestFingerprint(input))}
  \cup ArtifactOf("permission-tool-intent", "tool_intent", Read(input, "tool_input"))
  \cup ArtifactOf("permission-pause-reason", "pause_reason",
                  FirstString(input, <<"pause_reason", "reason">>))

-----------------------------------------------------------------------------
(***************************************************************************)
(* Read-like Bash commands.  A command is the sequence of words that       *)
(* parseShellWords finds (none if a quote is left open); a word has a      *)
(* shape: plain, dash ("-"), end ("--"), short ("-n"), glued ("-n5"),      *)
(* long ("--lines"), valued ("--lines=5"), pattern (no option, but a glob, *)
(* a URL, "." or "..") or unsafe (it holds an operator or a substitution); *)
(* name is the option of a short, glued, long or valued word, and value    *)
(* the rest of it.                                                         *)
(***************************************************************************)
Word(shape, name, value) == [shape |-> shape, name |-> name, value |-> value]
Name(value) == Word("plain", "", value)
Command(words) == [type |-> "command", words |-> words]

Operands == {"plain", "dash", "pattern", "unsafe"}

CONSTANTS
  Counts,       \* the values that are positive decimal numbers
  SedRanges     \* the sed scripts that print one line or one range ("1,5p")

\* stripSupportedBashReadPrefix: ". scripts/env &&" in front.
StripPrefix(words) ==
  IF /\ Len(words) > 3
     /\ words[1] \in {Name("."), Name("source")}
     /\ words[2] = Name("scripts/env")
     /\ words[3] = Word("unsafe", "", "&&")
  THEN SubSeq(words, 4, Len(words))
  ELSE words

OptionsWithValues ==
  [cat |-> {}, head |-> {"-c", "-n", "--bytes", "--lines"},
   tail |-> {"-c", "-n", "--bytes", "--lines"},
   nl |-> {"-d", "-i", "-l", "-n", "-s", "-v", "-w"}, wc |-> {"--files0-from"}]


\* readOptionOnlyCommandPathTokens: the words that are neither options nor the
\* value of the option before them, and everything behind "--".
PathTokens(args, valued) ==
  LET Walk[i \in 1 .. Len(args) + 2] ==
        CASE i > Len(args) -> <<>>
          [] i <= Len(args) /\ args[i].shape = "end" -> SubSeq(args, i + 1, Len(args))
          [] i <= Len(args) /\ args[i].shape \in Operands ->
               <<args[i]>> \o Walk[i + 1]
          [] i <= Len(args) /\ args[i].shape \in {"short", "long"} /\ args[i].name \in valued ->
               Walk[i + 2]
          [] OTHER -> Walk[i + 1]
  IN Walk[1]

NoCommand == [paths |-> <<>>, range |-> <<>>]

\* readSedCommand: -n, -E and -r, the script (or -e and the script), files.
SedScriptAndFiles(rest) ==
  LET explicit == rest # <<>> /\ \/ rest[1] = Word("short", "-e", "")
                                 \/ rest[1] = Word("long", "--expression", "")
      glued == rest # <<>> /\ rest[1].shape = "glued" /\ rest[1].name = "-e"
      scriptAt == IF explicit THEN 2 ELSE 1
      files == SubSeq(rest, scriptAt + 1, Len(rest))
      ends == {i \in DOMAIN files : files[i].shape = "end"}
  IN IF \/ Len(rest) < scriptAt
        \/ ~explicit /\ ~glued /\ rest[1].shape \notin Operands \ {"dash"}
     THEN NoCommand
     ELSE [paths |-> IF ends = {} THEN files ELSE RemoveAt(files, Min(ends)),
           range |-> IF rest[scriptAt].value \in SedRanges
                     THEN <<"lines", rest[scriptAt].value>> ELSE <<>>]

SedCommand(args) ==
  LET Skip == {i \in DOMAIN args :
                 \A j \in 1 .. i : args[j].shape = "short" /\ args[j].name \in {"-n", "-E", "-r"}}
  IN SedScriptAndFiles(SubSeq(args, Cardinality(Skip) + 1, Len(args)))

\* headTailRangeLabel: the first count given as -n N, -nN, --lines N or
\* --lines=N, wherever it stands.
LineCount(args) ==
  LET ValueAt(i) ==
        CASE args[i].name \in {"-n", "--lines"} /\ args[i].shape \in {"short", "long"} ->
               IF i < Len(args) THEN args[i + 1].value ELSE ""
          [] args[i].name \in {"-n", "--lines"} /\ args[i].shape \in {"glued", "valued"} ->
               args[i].value
          [] OTHER -> ""
      found == {i \in DOMAIN args : ValueAt(i) \in Counts}
  IN IF found = {} THEN <<>> ELSE <<"count", ValueAt(Min(found))>>

ReadCommandPaths(name, args) ==
  IF name = "sed" THEN SedCommand(args).paths ELSE PathTokens(args, OptionsWithValues[name])

RangeLabel(name, args) ==
  CASE name = "cat" -> <<"full file">>
    [] name \in {"head", "tail"} -> LineCount(args)
    [] name = "sed" -> SedCommand(args).range
    [] OTHER -> <<>>

\* The reads of a command: its name, the shape it is reported under, its range and
\* its paths; none unless every path is a literal one.
ReadsOf(name, paths, range) ==
  IF paths = <<>> \/ \E i \in DOMAIN paths : paths[i].shape # "plain" THEN <<>>
  ELSE <<[name |-> name, range |-> range, paths |-> [i \in DOMAIN paths |-> paths[i].value],
          shape |-> <<name, name \in {"head", "tail", "sed"} /\ range # <<>>>>]>>

ReadsOfWords(words) ==
  IF \/ words = <<>>
     \/ \E i \in DOMAIN words : words[i].shape = "unsafe"
     \/ words[1].shape # "plain"
     \/ words[1].value \notin DOMAIN OptionsWithValues \cup {"sed"}
  THEN <<>>
  ELSE ReadsOf(words[1].value, ReadCommandPaths(words[1].value, Tail(words)),
               RangeLabel(words[1].value, Tail(words)))

\* parseSupportedBashReadLikeCommand: none for anything but a plain read of files.
ParsedCommand(command) == ReadsOfWords(StripPrefix(command))

-----------------------------------------------------------------------------
(***************************************************************************)
(* File artifacts.  A disk is a function from paths to files; a file has a *)
(* kind ("file" or "directory"), a content, an mtime, a size, and is or is *)
(* not over ten megabytes (big).                                           *)
(***************************************************************************)
FilePathField == [Grep |-> "path", Glob |-> "path", LS |-> "path", Read |-> "file_path"]

\* codexReadToolRangeLabel
ReadToolRange(toolInput) ==
  LET Positive(key) ==
        IF ReadAs("number", toolInput, key) # Undefined /\ Read(toolInput, key).number > 0
        THEN Read(toolInput, key).number ELSE 0
      offset == Positive("offset")
      limit == Positive("limit")
  IN CASE offset > 0 /\ limit > 0 -> <<"lines", offset, offset + limit - 1>>
       [] offset > 0 /\ limit = 0 -> <<"from line", offset>>
       [] offset = 0 /\ limit > 0 -> <<"first", limit>>
       [] OTHER -> <<"full file">>

\* uniquePaths: each path of a parsed command once, at its first place.
ObservedPaths(parsed, cwd) ==
  LET paths == parsed.paths
      Known(i) == \E j \in 1 .. i - 1 : Resolve(cwd, paths[j]) = Resolve(cwd, paths[i])
      first == SelectSeq([i \in DOMAIN paths |-> i], LAMBDA i : ~Known(i))
  IN [n \in DOMAIN first |->
        [path |-> Resolve(cwd, paths[first[n]]), source |-> parsed.name, shape |-> parsed.shape,
         range |-> parsed.range]]

\* codexFilePathObservations: what a tool call reads, by its input alone.
FilePathObservations(toolName, toolInput, cwd) ==
  IF toolInput.type # "object" THEN <<>>
  ELSE IF toolName \in DOMAIN FilePathField
  THEN LET value == ReadString(toolInput, FilePathField[toolName])
       IN IF value = Undefined \/ RawIn(value, {""}) THEN <<>>
          ELSE <<[path |-> Resolve(cwd, value.text.raw), source |-> toolName,
                  shape |-> <<toolName, FALSE>>,
                  range |-> IF toolName = "Read" THEN ReadToolRange(toolInput) ELSE <<>>]>>
  ELSE IF toolName = "Bash" /\ Read(toolInput, "command").type = "command"
  THEN LET Observed(found) == IF found = <<>> THEN <<>> ELSE ObservedPaths(found[1], cwd)
       IN Observed(ParsedCommand(Read(toolInput, "command").words))
  ELSE <<>>

\* codexFileFreshnessMetadata: the digest of the content, unless the file is
\* too big, its size and time; or why there is none.
FileFreshness(path, disk) ==
  IF path \notin DOMAIN disk
  THEN [content |-> <<>>, version |-> <<>>, unavailable |-> "stat_unavailable"]
  ELSE IF disk[path].kind # "file"
  THEN [content |-> <<>>, version |-> <<>>, unavailable |-> "not_a_file"]
  ELSE [content |-> IF disk[path].big THEN <<>> ELSE Hash(disk[path].content),
        version |-> <<disk[path].size, disk[path].mtime>>, unavailable |-> "none"]

\* codexOutputTransform and codexSourceEquivalenceMetadata: the key under which
\* two reads count as reading the same.  Options that are not a range are no
\* part of it.
SourceEquivalence(observation) ==
  IF observation.source \notin {"Read", "cat", "head", "sed", "tail"}
  THEN [key |-> <<>>, unavailable |-> "shape_unavailable"]
  ELSE IF observation.source \in {"head", "sed", "tail"} /\ observation.range = <<>>
  THEN [key |-> <<>>, unavailable |-> "range_unavailable"]
  ELSE [key |-> Hash(<<observation.shape,
                       IF observation.range = <<>> THEN <<"full file">> ELSE observation.range>>),
        unavailable |-> "none"]

\* codexFilePathArtifacts: one artifact for each file, numbered if there are
\* several.
FilePathArtifacts(op, observations, disk) ==
  {[id |-> IF Len(observations) > 1 THEN <<"file-path", op, i>> ELSE <<"file-path", op>>,
    kind |-> "file",
    fingerprint |-> Hash(<<"codex.file_path.v0", observations[i].path>>),
    file |-> <<FileFreshness(observations[i].path, disk), SourceEquivalence(observations[i])>>] :
     i \in DOMAIN observations}

-----------------------------------------------------------------------------
(***************************************************************************)
(* The events.                                                             *)
(***************************************************************************)
NoEvents == {}

Event(run, id, op, kind, lifecycle) ==
  [run |-> run, id |-> id, op |-> op, kind |-> kind, lifecycle |-> lifecycle,
   status |-> "none", runStatus |-> "none", at |-> 0, scope |-> run,
   duration |-> -1, deps |-> {}, fingerprint |-> <<>>, artifacts |-> {}, metadata |-> {}]

\* codexRunId and codexSessionRunId.  The scope of an event is its run.
CodexRunId(turn) == <<"codex-turn", SafeIdentifier(turn)>>
CodexSessionRunId(scopeId) ==
  <<"codex-session", IF IsSafeToken(scopeId) THEN SafeIdentifier(scopeId)
                     ELSE <<"digest", scopeId.raw>>>>

\* subagentOperationId, compactOperationId and permissionRequestOperationId: an
\* operation is named by the id it was given, if that is a safe token, and
\* else by the fingerprint of the hook that reports it.
OperationId(prefix, given, fingerprint) ==
  IF given # Undefined /\ IsSafeToken(given.text)
  THEN <<prefix, SafeIdentifier(given.text)>>
  ELSE <<prefix, <<"digest", fingerprint>>>>

IsDenied(input) ==
  \E k \in {"approval_status", "permission_decision", "status", "outcome"} :
    LowerIn(Read(input, k), {"denied", "deny", "rejected", "reject", "blocked", "error",
                             "failed", "failure"})

PermissionRequestEvent(input, turn) ==
  LET op == OperationId("permission",
              FirstString(input, <<"permission_request_id", "request_id", "tool_use_id">>),
              PermissionRequestFingerprint(input))
  IN IF ~HasPermissionRequestSignal(input) THEN NoEvents
     ELSE {[Event(CodexRunId(turn), <<SafeIdentifier(turn), op>>, op, "permission_request", "point")
              EXCEPT !.status = IF IsDenied(input) THEN "error" ELSE "ok",
                     !.fingerprint = PermissionRequestFingerprint(input),
                     !.artifacts = PermissionRequestArtifacts(input),
                     !.metadata = CodexMetadata(input)
                                    \cup SafeMetadata(input, PermissionKeys \cup {"sandbox_permissions"})
                                    \cup ReasonMetadata(input, <<"pause_reason", "reason">>)]}

\* Faulty: a compaction is always named by its fingerprint.
CompactEventByFingerprint(input, turn) ==
  LET phase == IF input.hook = "PreCompact" THEN "pre" ELSE "post"
      op == OperationId("compaction", Undefined, CompactFingerprint(input))
  IN IF ~HasCompactSignal(input) THEN NoEvents
     ELSE {[Event(CodexRunId(turn), <<SafeIdentifier(turn), op, phase>>, op, "context_compaction",
                  IF phase = "pre" THEN "start" ELSE "finish")
              EXCEPT !.status = IF phase = "post" THEN "ok" ELSE "none"]}

CompactEvent(input, turn) ==
  LET phase == IF input.hook = "PreCompact" THEN "pre" ELSE "post"
      op == OperationId("compaction", FirstString(input, <<"compaction_id", "compact_id">>),
                        CompactFingerprint(input))
  IN IF ~HasCompactSignal(input) THEN NoEvents
     ELSE {[Event(CodexRunId(turn), <<SafeIdentifier(turn), op, phase>>, op, "context_compaction",
                  IF phase = "pre" THEN "start" ELSE "finish")
              EXCEPT !.status = IF phase = "post" THEN "ok" ELSE "none",
                     !.fingerprint = CompactFingerprint(input),
                     !.artifacts = CompactArtifacts(input, phase),
                     !.metadata = CodexMetadata(input) \cup NumberMetadata(input)
                                    \cup SafeMetadata(input, {"compact_id", "compaction_id", "trigger"})
                                    \cup ReasonMetadata(input, <<"reason">>)]}

SubagentStatus(input) ==
  IF LowerIn(Read(input, "status"), {"error", "failed", "failure", "timeout", "timed_out"})
  THEN "error" ELSE "ok"

SubagentEvent(input, turn) ==
  LET phase == IF input.hook = "SubagentStart" THEN "start" ELSE "stop"
      op == OperationId("subagent", FirstString(input, <<"subagent_id", "agent_id", "task_id">>),
                        SubagentFingerprint(input))
  IN IF ~HasSubagentSignal(input) THEN NoEvents
     ELSE {[Event(CodexRunId(turn), <<SafeIdentifier(turn), op, phase>>, op, "subagent",
                  IF phase = "start" THEN "start" ELSE "finish")
              EXCEPT !.status = IF phase = "stop" THEN SubagentStatus(input) ELSE "none",
                     !.fingerprint = SubagentFingerprint(input),
                     !.artifacts = SubagentArtifacts(input),
                     !.metadata = CodexMetadata(input) \cup SafeMetadata(input, SubagentKeys)]}

\* The prompt is one operation of the turn, whatever it says.
PromptEvent(input, turn) ==
  LET fingerprint == Hash([hook |-> input.hook, prompt |-> ReadString(input, "prompt")])
  IN IF ~HasString(input, "prompt") THEN NoEvents
     ELSE {[Event(CodexRunId(turn), <<SafeIdentifier(turn), <<"prompt">>, Hash(ReadString(input, "prompt"))>>,
                  <<"prompt">>, "user_prompt", "point")
              EXCEPT !.status = "ok",
                     !.fingerprint = fingerprint,
                     !.artifacts = {RedactedArtifact(<<"prompt-input">>, "prompt", fingerprint)},
                     !.metadata = CodexMetadata(input)]}

\* isErrorLikeToolResponse: any of the ways a tool says that it failed.
IsErrorLikeToolResponse(response) ==
  /\ response.type = "object"
  /\ \/ Read(response, "error") # Undefined
     \/ Bool(TRUE) \in {ReadAs("boolean", response, k) : k \in {"is_error", "isError"}}
     \/ Bool(FALSE) \in {ReadAs("boolean", response, k) : k \in {"ok", "success"}}
     \/ LET FirstNumber(a, b) == IF ReadAs("number", response, a) # Undefined
                                 THEN Read(response, a) ELSE ReadAs("number", response, b)
            exit == FirstNumber("exit_code", "exitCode")
            http == FirstNumber("status_code", "statusCode")
        IN \/ exit # Undefined /\ exit.number # 0
           \/ http # Undefined /\ (http.number < 200 \/ http.number >= 400)
     \/ RawIn(FirstString(response, <<"status", "conclusion">>),
              {"error", "failed", "failure", "timed_out", "timeout"})

\* PreToolUse and PostToolUse are joined by the tool_use_id; both record the
\* files that the input names, as they are when the hook runs.
ToolUseEvent(input, turn, disk) ==
  LET id == ReadString(input, "tool_use_id").text
      name == ReadString(input, "tool_name").text.raw
      op == <<"tool", SafeIdentifier(id)>>
      toolInput == Read(input, "tool_input")
      response == Read(input, "tool_response")
      fingerprint == Hash([name |-> name, input |-> toolInput])
      pre == input.hook = "PreToolUse"
  IN IF ~HasString(input, "tool_use_id") \/ ~HasString(input, "tool_name") THEN NoEvents
     ELSE {[Event(CodexRunId(turn), <<SafeIdentifier(turn), op, input.hook>>, op, "tool_call",
                  IF pre THEN "start" ELSE "finish")
              EXCEPT !.status = IF pre THEN "none"
                                ELSE IF IsErrorLikeToolResponse(response) THEN "error" ELSE "ok",
                     !.fingerprint = fingerprint,
                     !.artifacts =
                       FilePathArtifacts(op, FilePathObservations(name, toolInput,
                                                                  Read(input, "cwd")), disk) \cup
                       {IF pre THEN RedactedArtifact(<<"input", op>>, "tool_input", fingerprint)
                        ELSE RedactedArtifact(<<"output", op>>, "tool_result",
                                              Hash([name |-> name, response |-> response]))},
                     !.metadata = CodexMetadata(input) \cup
                       {[key |-> "tool_name", mode |-> "raw", value |-> name],
                        [key |-> "tool_use_id", mode |-> "raw", value |-> id.raw]}]}

\* Stop completes the run.
StopEvent(input, turn) ==
  {[Event(CodexRunId(turn), <<SafeIdentifier(turn), <<"stop">>>>, <<"turn">>, "turn", "point")
      EXCEPT !.status = "ok", !.runStatus = "ok",
             !.artifacts = ArtifactOf("last-assistant-message", "assistant_message",
                                      ReadString(input, "last_assistant_message")),
             !.metadata = CodexMetadata(input)]}

\* sessionBoundaryKind: the first member that names it, in lower case, if that is a
\* safe token.
SessionBoundaryKind(input) ==
  LET value == FirstString(input, <<"session_start_kind", "boundary_kind", "startup_type",
                                    "source", "event", "reason">>)
  IN IF value # Undefined /\ IsSafeToken(value.text) THEN Lower(value.text)
     ELSE Plain("start")

\* sessionStartToExecutionEvent: a run of its own, complete with its one event.
SessionStartEvent(input) ==
  LET scopeId == FirstString(input, <<"session_id", "thread_id">>)
      kind == SessionBoundaryKind(input)
      op == <<"session", SafeIdentifier(kind)>>
  IN IF ~HasSessionStartSignal(input) \/ RawIn(scopeId, {""}) THEN NoEvents
     ELSE {[Event(CodexSessionRunId(scopeId.text), <<CodexSessionRunId(scopeId.text), op>>, op,
                  "session_boundary", "point")
              EXCEPT !.status = "ok", !.runStatus = "ok",
                     !.scope = IF HasString(input, "turn_id")
                               THEN CodexRunId(ReadString(input, "turn_id").text)
                               ELSE CodexSessionRunId(scopeId.text),
                     !.fingerprint = SessionStartFingerprint(input),
                     !.artifacts = SessionStartArtifacts(input),
                     !.metadata = CodexMetadata(input)
                                    \cup {[key |-> "sessionBoundaryKind", mode |-> "raw",
                                           value |-> kind.raw]}
                                    \cup SafeMetadata(input, BoundaryKeys \cup {"thread_id"})
                                    \cup ReasonMetadata(input, <<"reason">>)]}

SupportedHooks ==
  {"PermissionRequest", "PostCompact", "PostToolUse", "PreCompact", "PreToolUse",
   "SessionStart", "Stop", "SubagentStart", "SubagentStop", "UserPromptSubmit"}

\* parseCodexHookInput and codexHookInputToExecutionEvent: at most one event.
\* Every hook but SessionStart needs the turn it belongs to.
HookEvent(input, disk) ==
  LET turn == ReadString(input, "turn_id")
  IN IF input.hook \notin SupportedHooks THEN NoEvents
     ELSE IF input.hook = "SessionStart" THEN SessionStartEvent(input)
     ELSE IF turn = Undefined \/ RawIn(turn, {""}) THEN NoEvents
     ELSE CASE input.hook = "PermissionRequest" -> PermissionRequestEvent(input, turn.text)
            [] input.hook \in {"PreCompact", "PostCompact"} -> CompactEvent(input, turn.text)
            [] input.hook \in {"SubagentStart", "SubagentStop"} -> SubagentEvent(input, turn.text)
            [] input.hook = "UserPromptSubmit" -> PromptEvent(input, turn.text)
            [] input.hook \in {"PreToolUse", "PostToolUse"} -> ToolUseEvent(input, turn.text, disk)
            [] OTHER -> StopEvent(input, turn.text)
=============================================================================
