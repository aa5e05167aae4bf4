--------------------------- MODULE MirValidation ---------------------------
(***************************************************************************)
(* packages/mir/src: the mIR plan of types.ts and validateMIRPlan of       *)
(* validation.ts.                                                          *)
(*                                                                         *)
(* An object is a record or a function whose domain is the set of members  *)
(* it has; an array is a sequence.  Junk is a value of a type the code     *)
(* does not expect where it stands (a number for a string, null for an     *)
(* object, a negative number for an amount).  The result of a check is the *)
(* set of the codes of its errors; the paths and messages are left out.    *)
(***************************************************************************)
EXTENDS Integers, FiniteSets, Sequences, SequencesExt

CONSTANT Junk

-----------------------------------------------------------------------------
\* The string unions of types.ts, and the sets validation.ts checks them with.
NodeKinds == {"approval", "branch", "cache_read", "cache_write", "context_transform",
              "join", "model_call", "retrieval_call", "tool_call", "validator"}
ContextRoles == {"developer_instruction", "example", "memory", "retrieved_document",
                 "scratchpad", "system_instruction", "tool_result", "user_input",
                 "validator_output"}
ContextMutabilities == {"compressible", "deduplicable", "droppable", "fixed", "summarizable"}
ProvenanceSources == {"cache", "developer", "generated", "memory", "retrieval", "system",
                      "tool", "user", "validator"}
PrivacyClasses == {"confidential", "internal", "public", "restricted", "secret"}
CacheModes == {"eligible", "forbidden", "none", "required"}
CacheScopes == {"context", "node", "plan", "session"}
RetentionModes == {"ephemeral", "full", "metadata_only", "redacted"}
SideEffectClasses == {"approval_required", "idempotent_mutation", "non_idempotent_mutation",
                      "read_only", "unknown"}
ModelTasks == {"classification", "embedding", "general", "ranking", "reasoning", "synthesis"}
ModelCapabilities == {"json_mode", "prompt_caching", "reasoning_controls",
                      "structured_output", "tool_calling"}
TransformKinds == {"assemble", "compress", "deduplicate", "filter", "redact", "summarize"}

\* A member's value, or the default if it is absent.
Get(object, key, default) == IF key \in DOMAIN object THEN object[key] ELSE default

\* One object spread over another, as in { ...more, ...object }.
Over(object, more) ==
  [key \in DOMAIN object \cup DOMAIN more |->
     IF key \in DOMAIN object THEN object[key] ELSE more[key]]

\* An array.
IsList(items) == /\ Len(items) \in Nat
                 /\ items = [i \in 1 .. Len(items) |-> items[i]]

\* Array.filter: the items that pass a test, in order.  It is SelectSeq in a form that
\* proofs can unfold.
Where(items, Test(_)) ==
  FlattenSeq([i \in DOMAIN items |-> IF Test(items[i]) THEN <<items[i]>> ELSE <<>>])

-----------------------------------------------------------------------------
(***************************************************************************)
(* The require... and optional... readers: a check of a member.            *)
(***************************************************************************)
Require(object, key, Check(_)) ==
  IF key \in DOMAIN object THEN Check(object[key]) ELSE {"missing_required"}
Optional(object, key, Check(_)) ==
  IF key \in DOMAIN object THEN Check(object[key]) ELSE {}

Typed(value, errors) == IF value = Junk THEN {"invalid_type"} ELSE errors
Unless(condition, code) == IF condition THEN {} ELSE {code}

\* validateStringValue; requireBoolean and optionalNonNegativeNumber fail alike.
Scalar(value) == Typed(value, {})

\* validateEnumValue
Enum(value, allowed) == Typed(value, Unless(value \in allowed, "invalid_enum"))

\* validateContextReference and validateNodeReference
Ref(value, ids) == Typed(value, Unless(value \in ids, "invalid_reference"))

\* requireArray and the loops over its items
Each(value, Check(_)) == Typed(value, UNION {Check(value[i]) : i \in DOMAIN value})

\* validateStringArrayItems: an item that is no string hides what is wrong with the others.
Strings(value, Check(_)) ==
  Typed(value, IF Junk \in ToSet(value) THEN {"invalid_type"} ELSE Each(value, Check))

Texts(value) == Strings(value, Scalar)
Refs(value, ids) == Strings(value, LAMBDA v : Ref(v, ids))

OptionalScalars(object, keys) == UNION {Optional(object, k, Scalar) : k \in keys}
RequireScalars(object, keys) == UNION {Require(object, k, Scalar) : k \in keys}

\* addUniqueId over a collection
UniqueIds(items) ==
  LET named == Where(items, LAMBDA r : r # Junk /\ Get(r, "id", Junk) # Junk)
  IN Unless(Cardinality({r.id : r \in ToSet(named)}) = Len(named), "duplicate_id")

\* The ids that references are looked up in; collectIds.
IdsOf(plan, collection) ==
  LET items == Get(plan, collection, Junk)
  IN {r.id : r \in {x \in (IF items = Junk THEN {} ELSE ToSet(items)) \ {Junk} :
                      Get(x, "id", Junk) # Junk}}

-----------------------------------------------------------------------------
CachePolicyErrors(policy) ==
  Typed(policy,
        Require(policy, "mode", LAMBDA v : Enum(v, CacheModes))
          \cup Optional(policy, "scope", LAMBDA v : Enum(v, CacheScopes))
          \cup OptionalScalars(policy, {"keyRef", "ttlMs"}))

RetentionPolicyErrors(policy) ==
  Typed(policy,
        Require(policy, "mode", LAMBDA v : Enum(v, RetentionModes))
          \cup OptionalScalars(policy, {"reason", "ttlMs"}))

MetadataErrors(metadata) ==
  Typed(metadata,
        Require(metadata, "createdAt", Scalar)
          \cup OptionalScalars(metadata, {"application", "description", "framework", "traceId"})
          \cup Optional(metadata, "tags", Texts))

\* A threshold is Junk or a number in range (non-negative, or between 0 and 1).
\* A provider that is both allowed and denied is looked for only when both lists
\* are lists of strings.  dataPolicy is not looked at.
ConstraintErrors(constraints) ==
  LET Threshold(v) == Unless(v # Junk, "invalid_constraint")
      Providers(key) == IF Optional(constraints, key, Texts) = {}
                        THEN ToSet(Get(constraints, key, <<>>)) ELSE {}
  IN Typed(constraints,
       (UNION {Optional(constraints, k, Threshold) :
                 k \in {"maxCostUsd", "maxLatencyMs", "allowedRegression", "minEvalScore",
                        "minValidatorPassRate"}})
         \cup (UNION {Optional(constraints, k, Texts) :
                 k \in {"allowedProviders", "deniedProviders", "requiredHumanApprovals",
                        "requiredValidators"}})
         \cup Unless(Providers("allowedProviders") \cap Providers("deniedProviders") = {},
                     "invalid_constraint")
         \cup Optional(constraints, "auditLevel",
                       LAMBDA v : Enum(v, {"evidence_bundle", "none", "summary"}))
         \cup Optional(constraints, "replayPolicy",
                       LAMBDA v : Enum(v, {"full_trace", "metadata", "none"}))
         \cup Optional(constraints, "cachePolicy", CachePolicyErrors)
         \cup Optional(constraints, "retentionPolicy", RetentionPolicyErrors))

\* derivedFromContextIds is a list of strings; whether they are ids is not asked.
ProvenanceErrors(provenance) ==
  Typed(provenance,
        Require(provenance, "source", LAMBDA v : Enum(v, ProvenanceSources))
          \cup OptionalScalars(provenance, {"createdAt", "nodeId", "sourceRef"})
          \cup Optional(provenance, "derivedFromContextIds", Texts))

ContextBlockErrors(block) ==
  Typed(block,
        RequireScalars(block, {"id", "contentRef"})
          \cup OptionalScalars(block, {"contentHash", "tokenEstimate"})
          \cup Require(block, "role", LAMBDA v : Enum(v, ContextRoles))
          \cup Require(block, "mutability", LAMBDA v : Enum(v, ContextMutabilities))
          \cup Optional(block, "privacyClass", LAMBDA v : Enum(v, PrivacyClasses))
          \cup Optional(block, "cachePolicy", CachePolicyErrors)
          \cup Optional(block, "retentionPolicy", RetentionPolicyErrors)
          \cup Require(block, "provenance", ProvenanceErrors))

-----------------------------------------------------------------------------
(***************************************************************************)
(* One check per node kind.                                                *)
(***************************************************************************)
ModelCallErrors(node) ==
  LET Model(m) ==
        Typed(m, Require(m, "task", LAMBDA v : Enum(v, ModelTasks))
                   \cup Optional(m, "requiredCapabilities",
                          LAMBDA vs : Strings(vs, LAMBDA v : Enum(v, ModelCapabilities))))
      Parameters(p) == Typed(p, OptionalScalars(p, {"maxOutputTokens", "temperature", "topP"}))
      hasModel == "model" \in DOMAIN node /\ node.model # Junk
  IN Require(node, "model", Model)
       \cup IF hasModel THEN Optional(node, "parameters", Parameters)
                               \cup Optional(node, "validators", Texts)
            ELSE {}

ToolCallErrors(node) ==
  LET SideEffects(s) ==
        Typed(s, Require(s, "sideEffectClass", LAMBDA v : Enum(v, SideEffectClasses))
                   \cup OptionalScalars(s, {"approvalEvidenceRef", "idempotencyKeyRef",
                                            "policyEvidenceRef"}))
      Tool(t) ==
        Typed(t, Require(t, "name", Scalar)
                   \cup OptionalScalars(t, {"inputRef", "requiresApprovalId", "schemaRef"})
                   \cup Optional(t, "sideEffects", SideEffects))
  IN Require(node, "tool", Tool)

RetrievalCallErrors(node, contextIds) ==
  (UNION {Require(node, k, LAMBDA v : Ref(v, contextIds)) :
            k \in {"queryContext", "resultContext"}})
    \cup Require(node, "retrieval",
           LAMBDA r : Typed(r, Require(r, "source", Scalar)
                                 \cup OptionalScalars(r, {"filterRef", "topK"})))

ContextTransformErrors(node, contextIds) ==
  Require(node, "inputContext", LAMBDA v : Refs(v, contextIds))
    \cup Require(node, "outputContext", LAMBDA v : Ref(v, contextIds))
    \cup Require(node, "transform",
           LAMBDA t : Typed(t, Require(t, "kind", LAMBDA v : Enum(v, TransformKinds))
                                 \cup Require(t, "lossy", Scalar)
                                 \cup Optional(t, "requiresValidatorIds", Texts)))

ValidatorErrors(node, contextIds) ==
  Require(node, "inputContext", LAMBDA v : Refs(v, contextIds))
    \cup Optional(node, "failurePolicy", LAMBDA v : Enum(v, {"fail_plan", "retry_node", "warn"}))
    \cup Require(node, "validator",
           LAMBDA w : Typed(w, Require(w, "kind",
                                 LAMBDA v : Enum(v, {"custom", "policy", "schema",
                                                     "source_grounding"}))
                                 \cup Require(w, "name", Scalar)
                                 \cup Optional(w, "schemaRef", Scalar)))

ApprovalErrors(node, contextIds) ==
  Require(node, "inputContext", LAMBDA v : Refs(v, contextIds))
    \cup Require(node, "approval",
           LAMBDA a : Typed(a, RequireScalars(a, {"approvalId", "reason"})
                                 \cup Optional(a, "approverRef", Scalar)))

CacheReadErrors(node, contextIds) ==
  Require(node, "cacheKeyRef", Scalar)
    \cup Require(node, "outputContext", LAMBDA v : Ref(v, contextIds))
    \cup Optional(node, "cachePolicy", CachePolicyErrors)

CacheWriteErrors(node, contextIds) ==
  Require(node, "cacheKeyRef", Scalar)
    \cup Require(node, "inputContext", LAMBDA v : Refs(v, contextIds))
    \cup Optional(node, "cachePolicy", CachePolicyErrors)

BranchErrors(node, nodeIds) ==
  LET Branch(b) == Typed(b, Require(b, "id", Scalar)
                              \cup Optional(b, "conditionRef", Scalar)
                              \cup Require(b, "targetNodeId", LAMBDA v : Ref(v, nodeIds)))
  IN Require(node, "branches", LAMBDA v : Each(v, Branch))

JoinErrors(node, nodeIds) ==
  Require(node, "strategy", LAMBDA v : Enum(v, {"all", "first_success", "quorum"}))
    \cup Require(node, "inputNodeIds", LAMBDA v : Refs(v, nodeIds))

\* validateNodeBase
NodeBaseErrors(node, contextIds) ==
  Optional(node, "label", Scalar)
    \cup Optional(node, "inputContext", LAMBDA v : Refs(v, contextIds))
    \cup Optional(node, "outputContext", LAMBDA v : Ref(v, contextIds))

KindErrors(node, nodeIds, contextIds) ==
  CASE node.kind = "approval" -> ApprovalErrors(node, contextIds)
    [] node.kind = "branch" -> BranchErrors(node, nodeIds)
    [] node.kind = "cache_read" -> CacheReadErrors(node, contextIds)
    [] node.kind = "cache_write" -> CacheWriteErrors(node, contextIds)
    [] node.kind = "context_transform" -> ContextTransformErrors(node, contextIds)
    [] node.kind = "join" -> JoinErrors(node, nodeIds)
    [] node.kind = "model_call" -> ModelCallErrors(node)
    [] node.kind = "retrieval_call" -> RetrievalCallErrors(node, contextIds)
    [] node.kind = "tool_call" -> ToolCallErrors(node)
    [] node.kind = "validator" -> ValidatorErrors(node, contextIds)

\* collectIds and validateNodes: nothing more is asked of a node of an unknown kind.
NodeErrors(node, nodeIds, contextIds) ==
  Typed(node,
    Require(node, "id", Scalar)
      \cup Require(node, "kind", Scalar)
      \cup CASE Get(node, "kind", Junk) = Junk -> {}
             [] Get(node, "kind", Junk) \in NodeKinds ->
                  NodeBaseErrors(node, contextIds) \cup KindErrors(node, nodeIds, contextIds)
             [] OTHER -> {"unknown_node_kind"})

EdgeErrors(edge, nodeIds, contextIds) ==
  Typed(edge,
    Require(edge, "id", Scalar)
      \cup Require(edge, "kind",
             LAMBDA v : Enum(v, {"control", "data", "fallback", "validation"}))
      \cup Optional(edge, "conditionRef", Scalar)
      \cup (UNION {Require(edge, k, LAMBDA v : Ref(v, nodeIds)) : k \in {"fromNodeId", "toNodeId"}})
      \cup Optional(edge, "contextIds", LAMBDA v : Refs(v, contextIds)))

-----------------------------------------------------------------------------
\* validateMIRPlan: the codes of a plan's errors.
PlanErrors(plan) ==
  LET contextIds == IdsOf(plan, "context")
      nodeIds == IdsOf(plan, "nodes")
      Blocks(v) == Each(v, ContextBlockErrors) \cup Typed(v, UniqueIds(v))
      Nodes(v) == Each(v, LAMBDA n : NodeErrors(n, nodeIds, contextIds)) \cup Typed(v, UniqueIds(v))
      EdgeList(v) == Each(v, LAMBDA e : EdgeErrors(e, nodeIds, contextIds))
                       \cup Typed(v, UniqueIds(v))
      Version(v) == Typed(v, Unless(v = "migaki.mir.v0", "unknown_version"))
  IN Typed(plan,
       Require(plan, "id", Scalar)
         \cup Require(plan, "version", Version)
         \cup Require(plan, "metadata", MetadataErrors)
         \cup Require(plan, "constraints", ConstraintErrors)
         \cup Require(plan, "context", Blocks)
         \cup Require(plan, "nodes", Nodes)
         \cup Require(plan, "edges", EdgeList))

\* isMIRPlan
IsMirPlan(plan) == PlanErrors(plan) = {}
=============================================================================
