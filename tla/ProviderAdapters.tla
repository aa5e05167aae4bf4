-------------------------- MODULE ProviderAdapters --------------------------
(***************************************************************************)
(* How a model call of a plan becomes a request of a provider: the three   *)
(* adapters of packages/providers (openai-style.ts, anthropic-style.ts,    *)
(* litellm-compatible.ts).                                                 *)
(*                                                                         *)
(* Lowering is a function of the plan, the node, the provider's            *)
(* capabilities and the adapter's model, in a sequence that is empty if    *)
(* none is set.  A node that is missing or is not a model call has no      *)
(* lowering, the code throws.  A lowering keeps the request's inputs,      *)
(* model, parameters, response format and tools; versions, plan ids and    *)
(* descriptions are left out.  JsonLength is the length of a request's     *)
(* text.                                                                   *)
(***************************************************************************)
EXTENDS PlanEstimates

CONSTANT JsonLength(_)

\* getModelNode: the first node with the id, if it is a model call.
ModelNode(plan, nodeId) ==
  LET at == SelectInSeq(plan.nodes, LAMBDA n : n.id = nodeId)
  IN IF at = 0 THEN <<>>
     ELSE IF plan.nodes[at].kind = "model_call" THEN <<plan.nodes[at]>> ELSE <<>>

\* collectInputContextBlocks: the blocks the node reads; a missing one is skipped.
InputBlocks(plan, node) ==
  LET ids == Get(node, "inputContext", <<>>)
  IN FlattenSeq([i \in DOMAIN ids |-> LastWith(plan.context, LAMBDA b : b.id = ids[i])])

\* mapModelCapability
ModelCapability(name) ==
  IF name \in {"json_mode", "structured_output"} THEN "structured_outputs" ELSE name

\* collectCapabilityRequirements
Requirements(node) ==
  LET asked == Get(node.model, "requiredCapabilities", <<>>)
      names == Distinct([i \in DOMAIN asked |-> ModelCapability(asked[i])])
  IN [i \in DOMAIN names |-> [capability |-> names[i], required |-> TRUE]]

\* A node's metadata for one adapter; anything but an object counts as none.
AdapterMetadata(node, key) ==
  LET raw == Get(Get(node, "metadata", <<>>), key, Junk) IN IF raw = Junk THEN <<>> ELSE raw

\* isResponseFormat
ReadResponseFormat(metadata) ==
  LET raw == Get(metadata, "responseFormat", Junk)
  IN IF raw = Junk \/ ~(Has(raw, "name") /\ Has(raw, "schemaRef")) THEN <<>> ELSE <<raw>>

\* readTools: one ill-formed tool and there are none.
ReadTools(metadata) ==
  LET raw == Get(metadata, "tools", Junk)
  IN IF raw = Junk THEN <<>> ELSE IF Junk \in ToSet(raw) THEN <<>> ELSE raw

Supports(capabilities, name) == Get(capabilities.supports, name, FALSE)

HasKeyRef(block) == Has(Get(block, "cachePolicy", <<>>), "keyRef")

\* model ?? metadata.model ?? the adapter's default
ChosenModel(model, metadata, default) ==
  IF model # <<>> THEN model[1] ELSE Get(metadata, "model", default)

Downgraded(name) ==
  <<[code |-> "downgraded_capability", severity |-> "warning", capability |-> name]>>

\* What the three lower functions share: the check, the shape, the warnings.
Lowering(plan, node, capabilities, shape, assumptions, more) ==
  LET check == CheckRequirements(capabilities, Requirements(node),
                                 [checkedAt |-> plan.metadata.createdAt])
      warnings == check.warnings \o more
  IN [requestShape |-> shape, assumptions |-> assumptions, warnings |-> warnings,
      supported |-> \A i \in DOMAIN warnings : warnings[i].severity # "error"]

\* Where the tools and the response format of the metadata can be lowered.
Offered(capabilities, name, wanted) == IF Supports(capabilities, name) THEN wanted ELSE <<>>

Assume(holds, name) == IF holds THEN {name} ELSE {}

-----------------------------------------------------------------------------
(***************************************************************************)
(* openai-style.ts                                                         *)
(***************************************************************************)
OpenAIRole(role) ==
  CASE role = "developer_instruction" -> "developer"
    [] role = "system_instruction" -> "system"
    [] role = "tool_result" -> "tool"
    [] OTHER -> "user"

\* createRequestShape and collectInputItems
OpenAIShape(plan, node, capabilities, model) ==
  LET metadata == AdapterMetadata(node, "openaiStyle")
      blocks == InputBlocks(plan, node)
      Item(block) == [role |-> OpenAIRole(block.role), contentRef |-> block.contentRef,
                      contextId |-> block.id]
  IN [input |-> [i \in DOMAIN blocks |-> Item(blocks[i])],
      model |-> ChosenModel(model, metadata, "openai-style-synthesis"),
      parameters |-> Get(node, "parameters", <<>>),
      responseFormat |-> Offered(capabilities, "structured_outputs", ReadResponseFormat(metadata)),
      tools |-> Offered(capabilities, "tool_calling", ReadTools(metadata))]

\* createAssumptions
OpenAIAssumptions(blocks, capabilities, shape) ==
  LET cacheable == \E i \in DOMAIN blocks :
                     Get(Get(blocks[i], "cachePolicy", <<>>), "mode", "none")
                       \in {"eligible", "required"}
  IN Assume(shape.responseFormat # <<>>, "structured_outputs")
       \cup Assume(shape.tools # <<>>, "tool_calling")
       \cup Assume(cacheable /\ Supports(capabilities, "automatic_caching"), "automatic_caching")

\* createCacheWarnings, of openai-style.ts and anthropic-style.ts alike
BreakpointWarnings(blocks, capabilities) ==
  IF /\ ~Supports(capabilities, "explicit_cache_breakpoints")
     /\ \E i \in DOMAIN blocks : HasKeyRef(blocks[i])
  THEN Downgraded("explicit_cache_breakpoints") ELSE <<>>

LowerOpenAIStyle(plan, node, capabilities, model) ==
  LET shape == OpenAIShape(plan, node, capabilities, model)
      blocks == InputBlocks(plan, node)
  IN Lowering(plan, node, capabilities, shape, OpenAIAssumptions(blocks, capabilities, shape),
              BreakpointWarnings(blocks, capabilities))

-----------------------------------------------------------------------------
(***************************************************************************)
(* anthropic-style.ts                                                      *)
(***************************************************************************)

\* createContentBlock: a breakpoint where the block has a key, with the node's time
\* to live or the provider's first.
ContentBlock(block, capabilities, metadata) ==
  LET options == Get(capabilities, "cacheTtlOptions", <<>>)
      ttl == IF Has(metadata, "cacheTtl") THEN <<metadata.cacheTtl>>
             ELSE IF options = <<>> THEN <<>> ELSE <<options[1]>>
  IN [contentRef |-> block.contentRef,
      cacheControl |-> IF HasKeyRef(block) /\ Supports(capabilities, "explicit_cache_breakpoints")
                       THEN <<[ttl |-> ttl]>> ELSE <<>>]

\* createRequestShape: the system blocks apart, all others in one user message.
AnthropicShape(plan, node, capabilities, model) ==
  LET metadata == AdapterMetadata(node, "anthropicStyle")
      blocks == InputBlocks(plan, node)
      Content(some) == [i \in DOMAIN some |-> ContentBlock(some[i], capabilities, metadata)]
      Is(block) == block.role = "system_instruction"
  IN [system |-> Content(Where(blocks, Is)),
      user |-> Content(Where(blocks, LAMBDA b : ~Is(b))),
      model |-> ChosenModel(model, metadata, "anthropic-style-synthesis"),
      parameters |-> Get(node, "parameters", <<>>),
      tools |-> Offered(capabilities, "tool_calling", ReadTools(metadata))]

\* createAssumptions
AnthropicAssumptions(blocks, capabilities, shape) ==
  Assume((\E i \in DOMAIN blocks : HasKeyRef(blocks[i]))
           /\ Supports(capabilities, "explicit_cache_breakpoints"), "explicit_cache_breakpoints")
    \cup Assume(shape.tools # <<>>, "tool_calling")

LowerAnthropicStyle(plan, node, capabilities, model) ==
  LET shape == AnthropicShape(plan, node, capabilities, model)
      blocks == InputBlocks(plan, node)
  IN Lowering(plan, node, capabilities, shape, AnthropicAssumptions(blocks, capabilities, shape),
              BreakpointWarnings(blocks, capabilities))

-----------------------------------------------------------------------------
(***************************************************************************)
(* litellm-compatible.ts: the gateway routes, retries and caches, and says *)
(* nothing of how.                                                         *)
(***************************************************************************)
LiteLLMRole(role) ==
  CASE role \in {"developer_instruction", "system_instruction"} -> "system"
    [] role = "tool_result" -> "tool"
    [] role \in {"scratchpad", "validator_output"} -> "assistant"
    [] OTHER -> "user"

\* createRequestShape and collectMessages
LiteLLMShape(plan, node, capabilities, model) ==
  LET metadata == AdapterMetadata(node, "litellmCompatible")
      blocks == InputBlocks(plan, node)
      Message(block) == [role |-> LiteLLMRole(block.role), contentRef |-> block.contentRef,
                         contextId |-> block.id]
  IN [messages |-> [i \in DOMAIN blocks |-> Message(blocks[i])],
      model |-> ChosenModel(model, metadata, "litellm-compatible-synthesis"),
      parameters |-> Get(node, "parameters", <<>>),
      responseFormat |-> Offered(capabilities, "structured_outputs", ReadResponseFormat(metadata)),
      tools |-> Offered(capabilities, "tool_calling", ReadTools(metadata))]

\* createGatewayWarnings
GatewayWarnings(blocks, capabilities) ==
  IF /\ ~Supports(capabilities, "prompt_caching")
     /\ \E i \in DOMAIN blocks : Has(blocks[i], "cachePolicy")
  THEN Downgraded("prompt_caching") ELSE <<>>

LowerLiteLLMCompatible(plan, node, capabilities, model) ==
  LET shape == LiteLLMShape(plan, node, capabilities, model)
  IN Lowering(plan, node, capabilities, shape,
              Assume(shape.responseFormat # <<>>, "structured_outputs")
                \cup Assume(shape.tools # <<>>, "tool_calling"),
              GatewayWarnings(InputBlocks(plan, node), capabilities))

-----------------------------------------------------------------------------
(***************************************************************************)
(* executeModelRequest of each adapter: what it lowered is sent, supported *)
(* or not, with metadata-only capture and without a retry policy.          *)
(***************************************************************************)
Send(shape, headers) ==
  [headers |-> headers, body |-> {JsonLength(shape)},
   capture |-> [requestBody |-> "metadata_only", responseBody |-> "metadata_only"],
   maxAttempts |-> 1, retryStatusCodes |-> {408, 409, 425, 429, 500, 502, 503, 504},
   retryTransportErrors |-> FALSE]

Header(name, lower, value) == [name |-> name, lower |-> lower, value |-> value]

\* createHeaders; apiKey is empty if there is none.
BearerHeaders(apiKey) ==
  <<Header("content-type", "content-type", "json")>>
    \o [i \in DOMAIN apiKey |-> Header("Authorization", "authorization", apiKey[i])]

AnthropicHeaders(apiKey) ==
  <<Header("anthropic-version", "anthropic-version", "2023-06-01"),
    Header("content-type", "content-type", "json")>>
    \o [i \in DOMAIN apiKey |-> Header("x-api-key", "x-api-key", apiKey[i])]

SendOpenAIStyle(lowering, apiKey) == Send(lowering.requestShape, BearerHeaders(apiKey))
SendAnthropicStyle(lowering, apiKey) == Send(lowering.requestShape, AnthropicHeaders(apiKey))
SendLiteLLMCompatible(lowering, apiKey) == Send(lowering.requestShape, BearerHeaders(apiKey))
=============================================================================
