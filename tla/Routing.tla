------------------------------- MODULE Routing -------------------------------
(***************************************************************************)
(* The proxy's decisions as operators: which routes there are and what     *)
(* each table of the code says of them, the model policy of a key          *)
(* (auth/policy.rs), the plan for a request (servers/proxy/planner.rs),    *)
(* the models a request is authorised for (servers/proxy/admission.rs),    *)
(* and the model its usage is recorded under (shared/http/mod.rs).         *)
(*                                                                         *)
(* A route is its method and path.  A request is a record: route; node,    *)
(* the Node header; stream, what its body says of streaming; and for each  *)
(* field the code reads of a JSON body the string found there.  A model    *)
(* name is a name and a tag, split as split_model_tag splits it.           *)
(*                                                                         *)
(* The registry gives each worker's backend and tags, None if it is not    *)
(* connected.  It is a HashMap: of several workers any may come first.     *)
(***************************************************************************)
EXTENDS Integers, FiniteSets

CONSTANT None  \* Option::None

-----------------------------------------------------------------------------
(* The model policy of a key *)

\* A rule without a tag covers every tag, and one for "latest" the bare name.
RuleMatches(rule, model) ==
  \/ rule = model
  \/ /\ rule.name = model.name
     /\ \/ rule.tag = None
        \/ rule.tag = "latest" /\ model.tag = None

AllowsModel(key, model) ==
  /\ \A rule \in key.blacklist : ~ RuleMatches(rule, model)
  /\ key.whitelist = {} \/ \E rule \in key.whitelist : RuleMatches(rule, model)

\* A request whose key is not found again is planned as one without a key.
Visible(key, model) == key = None \/ AllowsModel(key, model)

-----------------------------------------------------------------------------
(* The routes *)

OllamaInference == {"POST /api/generate", "POST /api/chat", "POST /api/embed",
                    "POST /api/embeddings"}
OpenAiInference == {"POST /v1/chat/completions", "POST /v1/chat/completions/batch",
                    "POST /v1/completions", "POST /v1/responses", "POST /v1/embeddings"}
VllmInference   == {"POST /v2/embed", "POST /score", "POST /v1/score", "POST /rerank",
                    "POST /v1/rerank", "POST /v2/rerank", "POST /tokenize",
                    "POST /detokenize", "POST /generative_scoring"}
SystemOneEval   == {"POST /", "POST /v1/evaluate", "POST /v1/systemone", "POST /ai/run"}
OllamaAdmin     == {"POST /api/create", "POST /api/copy", "POST /api/pull",
                    "POST /api/push", "DELETE /api/delete"}
VllmAny         == {"GET /tokenizer_info", "GET /version", "GET /load", "GET /is_sleeping"}
VllmTargeted    == {"GET /metrics", "POST /v1/load_lora_adapter",
                    "POST /v1/unload_lora_adapter", "POST /v1/lora_adapters",
                    "POST /start_profile", "POST /stop_profile", "POST /sleep",
                    "POST /wake_up"}
\* GET /v1/responses/<id> and POST /v1/responses/<id>/cancel
ResponseState   == {"GET /v1/responses/", "POST /v1/responses//cancel"}
Lists           == {"GET /api/tags", "GET /api/ps", "GET /api/version", "GET /v1/models"}
\* "GET /v1/models/" is that path with a model, which the request carries in path.
OpenAiModel     == "GET /v1/models/"

Routes == OllamaInference \cup OpenAiInference \cup VllmInference \cup SystemOneEval
            \cup OllamaAdmin \cup VllmAny \cup VllmTargeted \cup ResponseState \cup Lists
            \cup {OpenAiModel, "POST /api/show", "GET /health", "GET /model", "unknown"}

-----------------------------------------------------------------------------
(* The tables of admission *)

AdminOnly == {
  "POST /api/create", "POST /api/copy", "POST /api/pull", "POST /api/push",
  "DELETE /api/delete", "GET /load", "GET /metrics", "POST /v1/load_lora_adapter",
  "POST /v1/unload_lora_adapter", "POST /v1/lora_adapters", "POST /start_profile",
  "POST /stop_profile", "POST /sleep", "POST /wake_up"}

Discovery == Lists \cup {OpenAiModel, "GET /health", "GET /tokenizer_info",
                         "GET /version", "GET /is_sleeping"}

ShowModel(ask) == IF ask.model # None THEN ask.model ELSE ask.name

\* What a mistake would look like: a route that the planner sends to any worker is
\* forgotten.
ModelChecked_BugNoPull ==
  OllamaInference \cup OpenAiInference \cup VllmInference \cup SystemOneEval
    \cup {"POST /api/push", "DELETE /api/delete"}

\* The routes of request_models whose "model" is authorised.
ModelChecked == {
  "POST /api/generate", "POST /api/chat", "POST /api/embed", "POST /api/embeddings",
  "POST /v1/chat/completions", "POST /v1/chat/completions/batch", "POST /v1/completions",
  "POST /v1/responses", "POST /v1/embeddings", "POST /v2/embed", "POST /score",
  "POST /v1/score", "POST /rerank", "POST /v1/rerank", "POST /v2/rerank",
  "POST /tokenize", "POST /detokenize", "POST /generative_scoring", "POST /api/pull",
  "POST /api/push", "DELETE /api/delete", "POST /", "POST /v1/evaluate",
  "POST /v1/systemone", "POST /ai/run"}

RequestModel(ask) ==
  CASE ask.route \in ModelChecked    -> ask.model
    [] ask.route = "POST /api/show"   -> ShowModel(ask)
    [] ask.route = "POST /api/copy"   -> ask.source
    [] ask.route = "POST /api/create" -> ask.from
    [] OTHER                          -> None

\* The status authorize_request refuses a request with before it asks the
\* limiter, None if it does not.
Refusal(ask, key, userAuthentication) ==
  IF key = None /\ (userAuthentication \/ ask.node # None \/ ask.route \in AdminOnly)
    THEN 401
  ELSE IF key = None THEN None
  ELSE IF key.role # "Admin" /\ (ask.node # None \/ ask.route \in AdminOnly) THEN 403
  ELSE IF RequestModel(ask) # None /\ ~ AllowsModel(key, RequestModel(ask)) THEN 403
  ELSE None

\* The routes of request_usage_model_name.
UsageRoutes == {
  "POST /api/generate", "POST /api/chat", "POST /api/embed", "POST /api/embeddings",
  "POST /v1/chat/completions", "POST /v1/chat/completions/batch", "POST /v1/completions",
  "POST /v1/responses", "POST /v1/embeddings", "POST /v2/embed", "POST /score",
  "POST /v1/score", "POST /rerank", "POST /v1/rerank", "POST /v2/rerank",
  "POST /tokenize", "POST /detokenize", "POST /generative_scoring", "POST /",
  "POST /v1/evaluate", "POST /v1/systemone", "POST /ai/run"}

\* The model a request that is queued for a worker is recorded under.
UsageModel(ask) == IF ask.route \in UsageRoutes THEN ask.model ELSE None

\* ensure_openai_stream_usage: a stream that does not ask for its usage is made
\* to, unless its stream_options are not an object.
AddsStreamUsage(ask) ==
  /\ ask.route \in {"POST /v1/chat/completions", "POST /v1/completions"}
  /\ ask.stream = "on"

-----------------------------------------------------------------------------
(* The plan *)

Ollama == {"OllamaLegacy", "Ollama"}
AnyBackend    == {"OllamaLegacy", "Ollama", "Vllm", "SystemOne", "Unknown"}

\* ModelRouteKind::compatible_with
CompatibleWith(kind) ==
  CASE kind = "OllamaNative"     -> Ollama
    [] kind = "OpenAiCompatible" -> AnyBackend
    [] kind = "VllmSpecific"     -> {"Vllm"}
    [] kind = "SystemOne"        -> {"SystemOne"}

Connected(registry, backends) ==
  {w \in DOMAIN registry : registry[w] # None /\ registry[w].backend \in backends}

Owners(registry, model, backends) ==
  {w \in Connected(registry, backends) : model \in registry[w].tags}

Reject(status)        == [to |-> "reject", status |-> status]
Local                 == [to |-> "local", status |-> 200]
ByModel(model, kind)  == [to |-> "model", model |-> model, kind |-> kind]
ByNode(w)             == [to |-> "node", node |-> w]
Probe(route, workers) == [to |-> "probe", route |-> route, workers |-> workers]

\* The first of these workers, or this status if there is none.
FirstOf(workers, status) ==
  IF workers = {} THEN {Reject(status)} ELSE {ByNode(w) : w \in workers}

ByRequiredModel(ask, kind) ==
  IF ask.model = None THEN {Reject(400)} ELSE {ByModel(ask.model, kind)}

\* A plan for a field's model: missing, masked by the key's policy, or routed.
OfModel(model, key, plans) ==
  IF model = None THEN {Reject(400)}
  ELSE IF ~ Visible(key, model) THEN {Reject(404)} ELSE plans

\* The lists are asked of the workers that keep them; without any the list
\* is empty.
ListOf(route, registry) ==
  LET workers == Connected(registry, IF route = "GET /v1/models" THEN AnyBackend ELSE Ollama)
  IN  {IF workers = {} THEN Local ELSE Probe(route, workers)}

OwnerPlans(model, registry) == FirstOf(Owners(registry, model, Ollama), 404)

AdminPlans(ask, key, registry) ==
  CASE ask.route = "POST /api/show" ->
         LET model == ShowModel(ask)
             owners == Owners(registry, model, Ollama)
         IN  OfModel(model, key,
               IF owners # {} THEN FirstOf(owners, 503)
                              ELSE FirstOf(Connected(registry, Ollama), 503))
    [] ask.route = "POST /api/create" -> OfModel(ask.from, key, OwnerPlans(ask.from, registry))
    [] ask.route = "POST /api/copy"   -> OfModel(ask.source, key, OwnerPlans(ask.source, registry))
    [] ask.route = "POST /api/push"   -> OfModel(ask.model, key, OwnerPlans(ask.model, registry))
    [] ask.route = "POST /api/pull"   -> FirstOf(Connected(registry, Ollama), 503)
    [] ask.route = "DELETE /api/delete" ->
         OfModel(ask.model, key, FirstOf(Owners(registry, ask.model, Ollama), 503))

RoutePlans(ask, key, registry) ==
  CASE ask.route \in OllamaInference -> ByRequiredModel(ask, "OllamaNative")
    [] ask.route \in OpenAiInference -> ByRequiredModel(ask, "OpenAiCompatible")
    [] ask.route \in VllmInference   -> ByRequiredModel(ask, "VllmSpecific")
    [] ask.route \in SystemOneEval   ->
         IF ask.model # None THEN {ByModel(ask.model, "SystemOne")}
                             ELSE FirstOf(Connected(registry, {"SystemOne"}), 503)
    [] ask.route = "GET /model"      -> FirstOf(Connected(registry, {"SystemOne"}), 503)
    [] ask.route \in VllmAny \cup ResponseState ->
         FirstOf(Connected(registry, {"Vllm"}), 503)
    [] ask.route \in VllmTargeted    -> {Reject(400)}
    [] ask.route \in Lists           -> ListOf(ask.route, registry)
    [] ask.route = OpenAiModel       ->
         IF Visible(key, ask.path) /\ Owners(registry, ask.path, AnyBackend) # {}
           THEN {Local} ELSE {Reject(404)}
    [] ask.route = "GET /health"     -> {Local}
    [] ask.route \in OllamaAdmin \cup {"POST /api/show"} -> AdminPlans(ask, key, registry)
    [] ask.route = "unknown"         -> {Reject(404)}

\* plan_request: what may be decided for ask with this key in this registry.
Plans(ask, key, registry) ==
  IF ask.hive THEN {Reject(405)}
  ELSE IF ask.node # None THEN {ByNode(ask.node)}
  ELSE RoutePlans(ask, key, registry)

=============================================================================
