----------------------------- MODULE MCDecisions -----------------------------
(***************************************************************************)
(* Small plans through the passes, the mock backend, the export and the    *)
(* provider adapters; requests through the fetch wrapper; and hook inputs  *)
(* through the hook adapter, the graph and the report; and two runs        *)
(* through the comparison.                                                 *)
(*                                                                         *)
(* A behaviour is of one of four subjects: a run of the passes on one of   *)
(* the plans, after which the plan is executed and exported or a model     *)
(* call of it is sent; a request of its own; or some hooks or two graphs,  *)
(* which are only looked at.                                               *)
(***************************************************************************)
EXTENDS FetchWrapper, OptimizedRun

CONSTANT AbsentMember

VARIABLES hooked,  \* what some hooks were given: input and disk
          compared \* the graphs of two runs

-----------------------------------------------------------------------------
(***************************************************************************)
(* The plans: a system instruction (1), three documents (2, 3, 4), an      *)
(* answer (5) and a verdict (6).  A retrieval writes document 4, so that   *)
(* it must stay even as a duplicate.                                       *)
(***************************************************************************)
Block(id, role, mutability, source) ==
  [id |-> id, contentRef |-> <<"ref", id>>, role |-> role, mutability |-> mutability,
   tokenEstimate |-> id, provenance |-> [source |-> source]]

Same(id) == [contentHash |-> <<"hash", 1>>] @@ Block(id, "retrieved_document", "deduplicable", "retrieval")

\* What may tell a document from the others.
Documents(id) ==
  {Same(id),
   [Same(id) EXCEPT !.contentHash = <<"hash", 2>>],
   [Block(id, "retrieved_document", "deduplicable", "retrieval") EXCEPT !.contentRef = <<"ref", 0>>],
   [Same(id) EXCEPT !.role = "tool_result"],
   [Same(id) EXCEPT !.mutability = "fixed"],
   [Same(id) EXCEPT !.provenance = [source |-> "memory"]],
   [privacyClass |-> "secret"] @@ Same(id)}

Instruction ==
  [cachePolicy |-> [mode |-> "eligible", keyRef |-> "key"]]
    @@ Block(1, "system_instruction", "fixed", "system")

Nodes ==
  <<[id |-> 11, kind |-> "retrieval_call", queryContext |-> 2, resultContext |-> 4,
     retrieval |-> [source |-> "store"]],
    [id |-> 12, kind |-> "model_call", inputContext |-> <<1, 4, 3, 2>>, outputContext |-> 5,
     model |-> [task |-> "ranking", requiredCapabilities |-> <<"structured_output">>],
     metadata |-> [staticRouting |-> [candidates |-> <<[provider |-> "mock"],
                                                       [provider |-> "openai-style"]>>,
                                      requiredValidators |-> <<"grounding">>],
                   retryFallback |-> [fallbackProviders |-> <<"openai-style", "mock">>]]],
    [id |-> 13, kind |-> "validator", inputContext |-> <<5, 3>>, outputContext |-> 6,
     failurePolicy |-> "retry_node", validator |-> [kind |-> "policy", name |-> "grounding"]],
    [id |-> 14, kind |-> "tool_call", inputContext |-> <<6>>, tool |-> [name |-> "send"],
     metadata |-> [retryFallback |-> [sideEffectClass |-> "non_idempotent_mutation"]]]>>

Edges ==
  <<[id |-> 21, kind |-> "data", fromNodeId |-> 11, toNodeId |-> 12, contextIds |-> <<3, 4>>],
    [id |-> 22, kind |-> "validation", fromNodeId |-> 12, toNodeId |-> 13]>>

Plan(documents, constraints) ==
  [id |-> "plan", version |-> "migaki.mir.v0", metadata |-> [createdAt |-> 0],
   constraints |-> [requiredValidators |-> <<"grounding">>] @@ constraints,
   context |-> <<Instruction>> \o documents
                 \o <<Block(5, "scratchpad", "fixed", "generated"),
                      Block(6, "validator_output", "fixed", "validator")>>,
   nodes |-> Nodes, edges |-> Edges]

Allowed == [allowedProviders |-> <<"mock">>]
Denied == [deniedProviders |-> <<"mock">>]

Supporting(able) == [name \in {"automatic_caching", "explicit_cache_breakpoints"} |-> name \in able]

Run(p, names, disabled, policy) ==
  [plan |-> p, passes |-> [i \in DOMAIN names |-> [name |-> names[i], version |-> "v0"]],
   disabled |-> disabled, failurePolicy |-> policy,
   providers |-> <<[provider |-> "mock", supports |-> Supporting({})],
                   [provider |-> "anthropic-style",
                    supports |-> Supporting({"explicit_cache_breakpoints"})]>>]

\* All the documents, twice through the pass that drops some of them; and all the
\* passes under all the provider lists.
MCConfigurations ==
  {Run(Plan(<<a, b, c>>, <<>>), <<"exact_duplicates", "exact_duplicates">>, {}, {"continue"}) :
     a \in Documents(2), b \in Documents(3), c \in Documents(4)}
  \cup
  {Run(Plan(<<Same(2), Same(3), Same(4)>>, limits),
       <<"exact_duplicates", "stable_prefix", "prompt_cache_layout", "static_routing",
         "retry_fallback">>, disabled, policy) :
     limits \in {<<>>, Allowed, Denied, Allowed @@ [deniedProviders |-> <<"openai-style">>]},
     disabled \in {{}, {[name |-> "exact_duplicates"]},
                   {[name |-> "stable_prefix", version |-> "v1"]}},
     policy \in {{}, {"continue"}}}

\* The plans are valid to begin with: PlanStaysValid says something of every one of them.
ASSUME PlansAssumption == \A c \in MCConfigurations : IsMirPlan(c.plan)

\* Answers for some nodes; the validator's node fails in one fixture.
MCFixtures ==
  {<<[nodeId |-> 12, usage |-> [latencyMs |-> 3, inputTokens |-> 2], contextId |-> 5],
     [nodeId |-> 13, validation |-> [passed |-> TRUE], usage |-> [latencyMs |-> 1]],
     [nodeId |-> 14, error |-> "refused", usage |-> [latencyMs |-> 2]]>>,
   <<[nodeId |-> 11, error |-> "unreachable"]>>}

Observed(id, class, replay, redaction) ==
  [version |-> "v0", id |-> <<"observed", id>>, kind |-> "policy_decision", summary |-> "text",
   source |-> [kind |-> "runtime"], privacy |-> [privacyClass |-> class, replayMode |-> replay],
   redaction |-> [mode |-> redaction], policyDecision |-> "detail"]

MCObservations ==
  {<<Observed(1, "secret", "metadata", "none"), Observed(2, "public", "full_trace", "none"),
     Observed(3, "confidential", "none", "omitted"), Observed(4, "unspecified", "metadata", "redacted")>>}

MCJsonLength(shape) == 7

-----------------------------------------------------------------------------
\* Requests of its own: the retry policies, and keys under names as they are typed.
MCRequests ==
  {[headers |-> <<Header("X-Api-Key", "x-api-key", "secret"),
                  Header("Accept", "accept", "json")>>,
    body |-> {7}, capture |-> [requestBody |-> mode, responseBody |-> "omitted"],
    maxAttempts |-> most, retryStatusCodes |-> codes, retryTransportErrors |-> again] :
     mode \in {"omitted", "metadata_only"}, most \in 0..3, codes \in {{}, {429}},
     again \in BOOLEAN}

MCResponses ==
  {[status |-> code, body |-> {5},
    headers |-> <<Header("Set-Cookie", "set-cookie", "secret")>>] :
     code \in {200, 204, 400, 429}}

-----------------------------------------------------------------------------
(***************************************************************************)
(* Hooks.  A prose text is no token, a long one is cut; "a:b" and "a-b"    *)
(* have one slug.                                                          *)
(***************************************************************************)
Files == {"f", "g"}
FileAt(cwd, path) == path
LowerCase(text) == IF text.raw = "ERROR" THEN [text EXCEPT !.raw = "error", !.slug = "error"] ELSE text

Hooks == INSTANCE HookEvents
           WITH Resolve <- FileAt, Lower <- LowerCase, Counts <- {"5"}, SedRanges <- {"1,5p"}
Report == INSTANCE ExecutionReport

Token == Hooks!Plain("token")
Shout == Hooks!Plain("ERROR")
Prose == [raw |-> "secret prose", slug |-> "secret-prose", long |-> FALSE, token |-> FALSE]
Long == [raw |-> "secret token", slug |-> "cut", long |-> TRUE, token |-> TRUE]
Colon == [raw |-> "a:b", slug |-> "a-b", long |-> FALSE, token |-> TRUE]

Given(hook, members, disk) ==
  [input |-> [hook |-> hook, fields |-> [turn_id |-> Hooks!Str(Hooks!Plain("turn")),
                                         session_id |-> Hooks!Str(Hooks!Plain("session"))]
                                          @@ members],
   disk |-> disk]

\* Every hook, with a text in one of its members or one of the texts in all of them.
TextKeys ==
  Hooks!PermissionKeys \cup Hooks!SubagentKeys \cup Hooks!BoundaryKeys
    \cup {"sandbox_permissions", "pause_reason", "reason", "acceptance_criteria", "compact_id", "compaction_id",
          "inspected_files_summary", "summary", "trigger", "delegated_prompt", "prompt",
          "result", "task", "transcript", "thread_id", "last_assistant_message"}

HooksWithTexts ==
  {<<Given(hook, [k \in TextKeys |-> Hooks!Str(text)], <<>>)>> :
     hook \in Hooks!SupportedHooks, text \in {Token, Shout, Prose, Long}}
  \cup {<<Given(hook, key :> Hooks!Str(Prose), <<>>)>> :
          hook \in Hooks!SupportedHooks, key \in TextKeys}

\* The hooks before and after an operation, with the members that may name it.
Brackets ==
  {<<"PreCompact", "PostCompact", "compaction_id">>, <<"PreCompact", "PostCompact", "compact_id">>,
   <<"SubagentStart", "SubagentStop", "subagent_id">>, <<"SubagentStart", "SubagentStop", "task_id">>,
   <<"PreToolUse", "PostToolUse", "tool_use_id">>}

Names == {Hooks!Plain("one"), Hooks!Plain("two"), Colon, Hooks!Plain("a-b")}

\* What only the second hook knows.
Learnt == {<<>>, [summary |-> Hooks!Str(Prose), status |-> Hooks!Str(Shout),
                  result |-> Hooks!Str(Prose), reason |-> Hooks!Str(Prose)]}

HookPairs ==
  {<<Given(b[1], b[3] :> Hooks!Str(first) @@ "tool_name" :> Hooks!Str(Hooks!Plain("Task")), <<>>),
     Given(b[2], b[3] :> Hooks!Str(second) @@ "tool_name" :> Hooks!Str(Hooks!Plain("Task")) @@ more,
           <<>>)>> :
     b \in Brackets, first \in Names, second \in Names, more \in Learnt}

\* Reads of files by the shell, each with the files it reads, and the program and the
\* lines that it names.
Cmd(words, files, part) ==
  [words |-> [i \in DOMAIN words |->
                CASE words[i] = "-n" -> Hooks!Word("short", "-n", "")
                  [] words[i] = "--" -> Hooks!Word("end", "", "")
                  [] OTHER -> Hooks!Name(words[i])],
   files |-> files, part |-> part]

Commands ==
  {Cmd(<<"cat", "f">>, {"f"}, "cat, all"), Cmd(<<"cat", "-n", "f">>, {"f"}, "cat, all"),
   Cmd(<<"cat", "--", "f", "g">>, {"f", "g"}, "cat, all"),
   Cmd(<<"head", "-n", "5", "f">>, {"f"}, "head, 5"),
   Cmd(<<"tail", "-n", "5", "f">>, {"f"}, "tail, 5"),
   Cmd(<<"sed", "-n", "1,5p", "f">>, {"f"}, "sed, 1 to 5"),
   Cmd(<<"sed", "1,5p", "f">>, {"f"}, "sed, 1 to 5"), Cmd(<<"nl", "f">>, {"f"}, "unknown")}

Contents == {[kind |-> "file", content |-> c, mtime |-> t, size |-> 1, big |-> b] :
               c \in {"old", "new"}, t \in {1, 2}, b \in BOOLEAN}

Disks == {[f \in {"f"} |-> c] : c \in Contents} \cup {<<>>}

ReadBy(command, id, disk) ==
  Given("PostToolUse",
        "tool_name" :> Hooks!Str(Hooks!Plain("Bash")) @@ "tool_use_id" :> Hooks!Str(Hooks!Plain(id))
          @@ "tool_input" :> Hooks!Obj([command |-> Hooks!Command(command.words)]), disk)

\* Any two commands, the file changed or not; and one command twice, on any two disks.
HooksThatRead ==
  LET Read(first, second, before, after) ==
        <<ReadBy(first, "one", before), ReadBy(second, "two", after)>>
      file == [kind |-> "file", content |-> "old", mtime |-> 1, size |-> 1, big |-> FALSE]
      cat == Cmd(<<"cat", "f">>, {"f"}, "cat, all")
  IN {Read(first, second, [f \in {"f"} |-> file], [f \in {"f"} |-> after]) :
        first \in Commands, second \in Commands, after \in {file, [file EXCEPT !.content = "new"]}}
     \cup {Read(cat, cat, before, after) : before \in Disks, after \in Disks}

-----------------------------------------------------------------------------
(***************************************************************************)
(* Two runs of one call: it is told alike in both, or with one or two      *)
(* differences in either.  Only the second run may have a call besides.    *)
(***************************************************************************)
Trajectory == INSTANCE TrajectoryComparison WITH Empty <- Blank

ToolCall ==
  [id |-> 1, kind |-> "tool_call", status |-> "ok", fingerprint |-> "key", dependencies |-> <<>>,
   files |-> {"verified"}, metrics |-> [totalTokens |-> 3], durationMs |-> 2,
   reuse |-> [policyAllowed |-> TRUE, sideEffectClass |-> "read_only",
              validatorsRequired |-> {"grounding"}, validatorsPassed |-> {"grounding"},
              approvalEvidenceRef |-> "a", idempotencyKeyRef |-> "i", policyEvidenceRef |-> "p"]]

Without(node, key) ==
  [node EXCEPT !.reuse = [k \in DOMAIN node.reuse \ {key} |-> node.reuse[k]]]

\* The kinds of calls, and of no call, with the side effects a tool may have.
Called ==
  {[ToolCall EXCEPT !.kind = kind] : kind \in {"model_call", "turn"}}
    \cup {[ToolCall EXCEPT !.reuse.sideEffectClass = class] :
            class \in {"read_only", "idempotent_mutation", "approval_required",
                      "non_idempotent_mutation", "unknown", "unheard_of"}}
    \cup {[Without(ToolCall, "sideEffectClass") EXCEPT !.reuse = [sideEffecting |-> e] @@ @] :
            e \in BOOLEAN}

\* What may be told of a call otherwise, or not at all.
ToldOf(node) ==
  {node,
   [node EXCEPT !.fingerprint = AbsentMember], [node EXCEPT !.fingerprint = "other"],
   [node EXCEPT !.status = "error"], [node EXCEPT !.dependencies = <<1>>],
   [node EXCEPT !.files = {}], [node EXCEPT !.files = {"verified", "stale"}],
   [node EXCEPT !.reuse.policyAllowed = FALSE], Without(node, "policyAllowed"),
   Without(node, "validatorsRequired"), [node EXCEPT !.reuse.validatorsPassed = {}],
   [node EXCEPT !.reuse.idempotencyKeyRef = "other"],
   [node EXCEPT !.reuse.policyEvidenceRef = Blank], Without(node, "approvalEvidenceRef")}

Ran(runId, keys, nodes) ==
  [runId |-> runId, nodes |-> nodes, reuse |-> [k \in keys |-> "runtime"]]

\* One kind of call told in any two ways; and any two kinds, in runs of one runtime or
\* of two that are not known to be compatible.
MCComparisons ==
  LET keys == {"runtimeCompatibilityKey"}
  IN (UNION {{<<Ran("one", keys, <<a>>), Ran("two", keys, <<b>>)>> : a \in ToldOf(node), b \in ToldOf(node)} :
               node \in Called})
     \cup {<<Ran("one", keys, <<a>>), Ran("two", known, <<[ToolCall EXCEPT !.id = 2], b>>)>> :
             a \in Called, b \in Called, known \in {{}, keys}}
ASSUME ComparisonsAssumption ==
  \A graphs \in MCComparisons : \A graph \in ToSet(graphs) : Trajectory!HasUniqueIds(graph)

-----------------------------------------------------------------------------
planVars == <<configuration, plan, at, records, evidence, warnings, status, execution, bundle>>
lookedAt == <<hooked, compared>>

\* No pass is run.
NoPlan ==
  /\ configuration = [plan |-> [metadata |-> <<>>, constraints |-> <<>>, context |-> <<>>,
                                nodes |-> <<>>, edges |-> <<>>]]
  /\ plan = configuration.plan /\ at = 0
  /\ records = <<>> /\ evidence = <<>> /\ warnings = <<>>
  /\ status = "none"
  /\ execution = {} /\ bundle = {}

MCInit ==
  /\ Init
  /\ \/ PipelineInit /\ hooked = <<>> /\ compared = <<>>
     \/ /\ NoPlan
        /\ hooked \in {<<>>} \cup HooksWithTexts \cup HookPairs \cup HooksThatRead
        /\ compared = <<>>
     \/ NoPlan /\ hooked = <<>> /\ compared \in MCComparisons

OptimizeAndExport ==
  /\ request = NoRequest
  /\ PipelineNext
  /\ UNCHANGED <<vars, lookedAt>>

ModelCallNode == LET found == ModelNode(plan, 12) IN found[1]

\* The three requests that the adapters make of the model call.
Lowered(key) ==
  LET node == ModelCallNode
  IN {SendOpenAIStyle(
        LowerOpenAIStyle(plan, node, OpenAIStyleCapabilities, <<>>), key),
      SendAnthropicStyle(
        LowerAnthropicStyle(plan, node, AnthropicStyleCapabilities, <<>>), key),
      SendLiteLLMCompatible(
        LowerLiteLLMCompatible(plan, node, LiteLLMCompatibleCapabilities, <<>>),
        key)}

SendModelCall ==
  /\ status = "done"
  /\ execution = {}
  /\ \E key \in {<<>>, <<"secret">>} : \E r \in Lowered(key) : Begin(r)
  /\ UNCHANGED <<planVars, lookedAt>>

SendDirectly ==
  /\ status = "none"
  /\ lookedAt = <<<<>>, <<>>>>
  /\ \E r \in Requests : Begin(r)
  /\ UNCHANGED <<planVars, lookedAt>>

Answer == Attempt /\ UNCHANGED <<planVars, lookedAt>>

MCNext == OptimizeAndExport \/ SendModelCall \/ SendDirectly \/ Answer

MCSpec == MCInit /\ [][MCNext]_<<vars, planVars, lookedAt>>
-----------------------------------------------------------------------------
(***************************************************************************)
(* Properties of the plans.                                                *)
(***************************************************************************)
\* Once a plan is executed or sent, nothing changes it any more.
IsPlanned == status # "none" /\ execution = {} /\ request = NoRequest

\* The estimates in the evidence add up to the tokens that the plan has lost, and a plan
\* never gets dearer.
EstimatesAddUp ==
  LET first == configuration.plan
      Tokens(p) == EstimatePlanTokens(p, <<>>)
      estimates == Where(evidence, LAMBDA e : e.id[1] = "exact-duplicate-context"
                                                /\ e.kind = "estimate")
      options == [rates |-> ProviderCostRateFixtures,
                  modelSelections |-> <<[nodeId |-> 12, provider |-> "openai-style",
                                         model |-> "openai-style-synthesis"]>>]
      Cost(p) == EstimatePlanCosts(p, Tokens(p), options)
  IN /\ DiffPlanTokens(Tokens(first), Tokens(plan)).knownTokenDelta
          = -Total(estimates, LAMBDA e : e.value)
     /\ DiffPlanCosts(Cost(first), Cost(plan)).knownCostDelta <= 0

\* However the passes are ordered, repeated, disabled or fail, they leave a plan that
\* validateMIRPlan accepts, a ledger without a diagnostic that the first plan had not, and
\* estimates that add up; and the trace of its execution and the bundle of its evidence
\* validate as well, shells and all, the events of it being events.
ArtifactsStayValid ==
  /\ PlanStaysValid
  /\ IsPlanned => EstimatesAddUp
  /\ \A run \in execution : TraceErrors(run.trace) = {}
  /\ \A b \in bundle : AreEvents(b.events) /\ BundleErrors(b.exported) = {}

-----------------------------------------------------------------------------
(***************************************************************************)
(* Properties of hooks, and of what is kept of texts.                      *)
(***************************************************************************)
EventsOfHooks ==
  [i \in DOMAIN hooked |-> Hooks!HookEvent(hooked[i].input, hooked[i].disk)]

\* The log of two hooks, each of which records an event.
LogOfHooks == [i \in {1, 2} |-> CHOOSE e \in EventsOfHooks[i] : TRUE]

\* A key of a request is not in what is captured of it or of its response, whatever the
\* case of a header's name.  And a text that says something in words is told by no part
\* of the event of a hook, neither as it is nor spelled in an id: of texts only hashes,
\* and tokens, are kept.  Excepted is what Codex itself names: the model, the permission
\* mode, the session, thread and turn, and for a tool call its tool and its id, which
\* hook.ts keeps as they are given and spells in the ids of the run and of the tool call.
SecretsStayOut ==
  LET messages == captured \cup UNION {{r.message : r \in result.response} : result \in outcome}
      inWords == {Prose.raw, Prose.slug, Long.raw, Long.slug}
      Named(e) == {"model", "permission_mode", "session_id", "thread_id", "turn_id"}
                    \cup (IF e.kind = "tool_call" THEN {"tool_name", "tool_use_id"} ELSE {})
      Kept(e) == {m.value : m \in {n \in e.metadata : n.mode = "raw" /\ n.key \notin Named(e)}}
      Spelled(e) == IF e.kind = "tool_call" \/ Len(e.op) = 1 \/ e.op[2][1] # "slug" THEN {}
                    ELSE {e.op[2][2]}
      IsHash(value) == value[1] = "hash"
      TellsNothing(e) ==
        /\ (Kept(e) \cup Spelled(e)) \cap inWords = {}
        /\ \A m \in e.metadata : m.mode = "fingerprint" => IsHash(m.value)
        /\ \A a \in e.artifacts : IsHash(a.fingerprint)
        /\ e.fingerprint = <<>> \/ IsHash(e.fingerprint)
        \* an event is named by its run, its operation and, last, a phase or a hash
        /\ e.id[1] \in {e.run, e.run[2]} /\ e.id[2] \in {e.op, <<"stop">>}
        /\ e.kind = "user_prompt" => IsHash(e.id[3])
  IN /\ SecretsAreRedacted
     /\ \A m \in messages : \A i \in DOMAIN m.headers : "secret" \notin m.headers[i].value
     /\ \A i \in DOMAIN hooked : \A e \in EventsOfHooks[i] : TellsNothing(e)

\* A start and a finish that were given one id meet in one node, which is then closed,
\* whatever else the second hook was told; given ids that are not spelled alike, they
\* do not.
HookPairsMeet ==
  LET Id(i) == LET fields == hooked[i].input.fields
               IN fields[CHOOSE k \in DOMAIN fields \cap {b[3] : b \in Brackets} : TRUE].text
      AreToldApart(log) ==
        /\ Id(1) = Id(2) => /\ Report!Operations(log) = {log[1].op}
                            /\ Report!NodeStatus(log, log[1].op) \in {"ok", "error"}
        /\ Id(1).slug # Id(2).slug => Cardinality(Report!Operations(log)) = 2
  IN hooked \in HookPairs => AreToldApart(LogOfHooks)


-----------------------------------------------------------------------------
(***************************************************************************)
(* Comparing two runs.                                                     *)
(***************************************************************************)

\* Whichever of two runs is taken for the earlier one, a call of both gets the same
\* verdict for the same reasons.  Every call of the current run has exactly one verdict,
\* and what may be avoided is what the calls that are not blocked have cost.
ComparisonsAgreeBothWays ==
  LET IsComplete(comparison) ==
        LET decisions == Trajectory!ReuseDecisions(comparison)
            free == {i \in DOMAIN decisions : decisions[i].status # "blocked"}
        IN /\ ToSet(decisions) = Trajectory!Decisions(comparison)
           /\ Len(decisions) = Cardinality(ToSet(decisions))
           /\ comparison.avoidable.totalTokens
                = IF free = {} THEN {} ELSE {3 * Cardinality(free)}
  IN compared # <<>> =>
       /\ Trajectory!AgreeBothWays(compared[1], compared[2])
       /\ Trajectory!EveryCallIsDecided(compared[1], compared[2])
       /\ IsComplete(Trajectory!CompareObservedExecutionGraphs(compared[1], compared[2]))
=============================================================================
