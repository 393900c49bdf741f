--------------------------- MODULE RequestPathProofs ----------------------------
(* Proofs about the path of a request, for any requests, workers, keys and    *)
(* policies: what the tables of admission and of the planner have to do with  *)
(* each other, and what follows for the requests on their way.                *)
EXTENDS RequestPath, TLAPS

-----------------------------------------------------------------------------
(* The tables of routes *)

\* Admission authorises every model the planner routes by, every model usage is
\* recorded under and every model an administrator transfers or deletes, and it
\* leaves no administrative route to others.
LEMMA TablesAgree ==
  /\ Inference \subseteq ModelChecked
  /\ UsageRoutes \subseteq ModelChecked
  /\ {"POST /api/pull", "POST /api/push", "DELETE /api/delete"} \subseteq ModelChecked
  /\ Administrative \subseteq AdminOnly
BY DEF Inference, OllamaInference, OpenAiInference, VllmInference, SystemOneEval,
       ModelChecked, UsageRoutes, Administrative, OllamaAdmin, VllmTargeted, AdminOnly

\* The model admission reads of a request is the one its route is about.
LEMMA AdmissionReads ==
  ASSUME NEW a, Concerned(a) # None
  PROVE  RequestModel(a) = Concerned(a)
<1> DEFINE transfers == {"POST /api/pull", "POST /api/push", "DELETE /api/delete"}
<1>1. {"POST /api/show", "POST /api/create", "POST /api/copy"}
          \cap (ModelChecked \cup Inference \cup transfers) = {}
  BY DEF ModelChecked, Inference, OllamaInference, OpenAiInference, VllmInference, SystemOneEval
<1>2. CASE a.route \in Inference \cup transfers
  <2>1. a.route \in ModelChecked
    BY <1>2, TablesAgree
  <2>2. /\ a.route # "POST /api/show" /\ a.route # "POST /api/create"
        /\ a.route # "POST /api/copy"
    BY <1>1, <1>2
  <2>3. RequestModel(a) = a.model
    BY <2>1, <2>2 DEF RequestModel
  <2>4. Concerned(a) = a.model
    BY <1>2, <2>2 DEF Concerned
  <2>5. QED
    BY <2>3, <2>4
<1>3. CASE a.route \notin Inference \cup transfers
  <2>1. a.route \in {"POST /api/show", "POST /api/create", "POST /api/copy"}
    BY <1>3 DEF Concerned
  <2>2. a.route \notin ModelChecked
    BY <1>1, <2>1
  <2>3. QED
    BY <1>3, <2>1, <2>2 DEF Concerned, RequestModel
<1>4. QED
  BY <1>2, <1>3

\* The tables of the planner have no route in common.
LEMMA TablesDisjoint ==
  ASSUME NEW route
  PROVE  /\ route \in OllamaInference =>
              route \notin OpenAiInference \cup VllmInference \cup SystemOneEval
         /\ route \in OpenAiInference => route \notin VllmInference \cup SystemOneEval
         /\ route \in VllmInference => route \notin SystemOneEval
         /\ route \in OllamaInference \cup OpenAiInference \cup VllmInference \cup SystemOneEval =>
              /\ route \notin VllmAny \cup ResponseState \cup VllmTargeted \cup Lists
              /\ route \notin OllamaAdmin \cup {"POST /api/show", "GET /health", "GET /model",
                                                "unknown", OpenAiModel}
<1>1. route \in OllamaInference =>
        route \notin OpenAiInference \cup VllmInference \cup SystemOneEval
  BY DEF OllamaInference, OpenAiInference, VllmInference, SystemOneEval
<1>2. route \in OpenAiInference => route \notin VllmInference \cup SystemOneEval
  BY DEF OpenAiInference, VllmInference, SystemOneEval
<1>3. route \in VllmInference => route \notin SystemOneEval
  BY DEF VllmInference, SystemOneEval
<1> DEFINE others == VllmAny \cup ResponseState \cup VllmTargeted \cup Lists \cup OllamaAdmin
             \cup {"POST /api/show", "GET /health", "GET /model", "unknown", OpenAiModel}
<1>4. route \in OllamaInference => route \notin others
  BY DEF OllamaInference, VllmAny, ResponseState, VllmTargeted, Lists, OllamaAdmin, OpenAiModel
<1>5. route \in OpenAiInference => route \notin others
  BY DEF OpenAiInference, VllmAny, ResponseState, VllmTargeted, Lists, OllamaAdmin, OpenAiModel
<1>6. route \in VllmInference => route \notin others
  BY DEF VllmInference, VllmAny, ResponseState, VllmTargeted, Lists, OllamaAdmin, OpenAiModel
<1>7. route \in SystemOneEval => route \notin others
  BY DEF SystemOneEval, VllmAny, ResponseState, VllmTargeted, Lists, OllamaAdmin, OpenAiModel
<1>8. QED
  BY <1>1, <1>2, <1>3, <1>4, <1>5, <1>6, <1>7


\* A plan by model is for the model the request names, and of its route's kind.
FitsModel(a, p) ==
  /\ a.model # None
  /\ p.model = a.model
  /\ \/ a.route \in OllamaInference /\ p.kind = "OllamaNative"
     \/ a.route \in OpenAiInference /\ p.kind = "OpenAiCompatible"
     \/ a.route \in VllmInference /\ p.kind = "VllmSpecific"
     \/ a.route \in SystemOneEval /\ p.kind = "SystemOne"

\* What the rest of a request's way relies on in its plan.
Sound(a, reg, p) ==
  /\ p.to = "model" => FitsModel(a, p)
  /\ p.to = "probe" => p.route = a.route /\ p.workers \subseteq DOMAIN reg
  /\ p.to = "node" => /\ p.node \in DOMAIN reg
                      /\ Needs(a, reg[p.node])

LEMMA FirstOfIsSound ==
  ASSUME NEW a, NEW reg, NEW W, NEW status, NEW p \in FirstOf(W, status),
         \A w \in W : w \in DOMAIN reg /\ Needs(a, reg[w])
  PROVE  Sound(a, reg, p)
<1>1. CASE p = Reject(status)
  BY <1>1 DEF Sound, Reject
<1>2. CASE \E w \in W : p = ByNode(w)
  BY <1>2 DEF Sound, ByNode
<1>3. QED
  BY <1>1, <1>2 DEF FirstOf

LEMMA RejectIsSound ==
  ASSUME NEW a, NEW reg, NEW status
  PROVE  Sound(a, reg, Reject(status)) /\ Sound(a, reg, Local)
BY DEF Sound, Reject, Local

\* The planner finds a worker that has what the route needs.
LEMMA ModelPlansAreSound ==
  ASSUME NEW a, NEW key, NEW reg, NEW p \in RoutePlans(a, key, reg),
         a.route \in OllamaInference \cup OpenAiInference \cup VllmInference \cup SystemOneEval
  PROVE  Sound(a, reg, p)
<1> DEFINE kinds == {"OllamaNative", "OpenAiCompatible", "VllmSpecific", "SystemOne"}
<1>1. ASSUME NEW kind, p \in ByRequiredModel(a, kind)
      PROVE  p = Reject(400) \/ (a.model # None /\ p = ByModel(a.model, kind))
  BY <1>1 DEF ByRequiredModel
<1>2. ASSUME NEW kind, p = ByModel(a.model, kind), a.model # None,
             \/ a.route \in OllamaInference /\ kind = "OllamaNative"
             \/ a.route \in OpenAiInference /\ kind = "OpenAiCompatible"
             \/ a.route \in VllmInference /\ kind = "VllmSpecific"
             \/ a.route \in SystemOneEval /\ kind = "SystemOne"
      PROVE  Sound(a, reg, p)
  BY <1>2 DEF Sound, FitsModel, ByModel
<1>3. CASE a.route \in OllamaInference
  <2>1. RoutePlans(a, key, reg) = ByRequiredModel(a, "OllamaNative")
    BY <1>3, TablesDisjoint DEF RoutePlans
  <2>2. QED
    BY <1>1, <1>2, <1>3, <2>1, RejectIsSound
<1>4. CASE a.route \in OpenAiInference
  <2>1. RoutePlans(a, key, reg) = ByRequiredModel(a, "OpenAiCompatible")
    BY <1>4, TablesDisjoint DEF RoutePlans
  <2>2. QED
    BY <1>1, <1>2, <1>4, <2>1, RejectIsSound
<1>5. CASE a.route \in VllmInference
  <2>1. RoutePlans(a, key, reg) = ByRequiredModel(a, "VllmSpecific")
    BY <1>5, TablesDisjoint DEF RoutePlans
  <2>2. QED
    BY <1>1, <1>2, <1>5, <2>1, RejectIsSound
<1>6. CASE a.route \in SystemOneEval
  <2>0. /\ a.route \notin OllamaInference
        /\ a.route \notin OpenAiInference
        /\ a.route \notin VllmInference
        /\ a.route # "GET /model"
        /\ a.route \notin VllmAny \cup ResponseState
        /\ a.route \notin VllmTargeted
        /\ a.route \notin Lists
        /\ a.route # OpenAiModel
        /\ a.route # "GET /health"
        /\ a.route \notin OllamaAdmin \cup {"POST /api/show"}
        /\ a.route # "unknown"
    BY <1>6, TablesDisjoint
  <2>1. CASE a.model # None
    <3>1. RoutePlans(a, key, reg) = {ByModel(a.model, "SystemOne")}
      BY <1>6, <2>0, <2>1, ZenonT(60) DEF RoutePlans
    <3>2. QED
      BY <1>2, <1>6, <2>1, <3>1
  <2>2. CASE a.model = None
    <3>1. RoutePlans(a, key, reg) = FirstOf(Connected(reg, {"SystemOne"}), 503)
      BY <1>6, <2>0, <2>2, ZenonT(60) DEF RoutePlans
    <3>2. \A w \in Connected(reg, {"SystemOne"}) : w \in DOMAIN reg /\ Needs(a, reg[w])
      BY <1>6, <2>0, <2>2 DEF Connected, Needs, OllamaAdmin
    <3>3. QED
      BY <3>1, <3>2, FirstOfIsSound
  <2>3. QED
    BY <2>1, <2>2
<1>7. QED
  BY <1>3, <1>4, <1>5, <1>6

\* Neither have those of no inference.
LEMMA OtherTablesDisjoint ==
  ASSUME NEW route
  PROVE  /\ route \in VllmAny \cup ResponseState =>
              /\ route \notin Inference
              /\ route \notin VllmTargeted \cup Lists \cup OllamaAdmin
              /\ route \notin {"GET /model", OpenAiModel, "GET /health", "POST /api/show", "unknown"}
         /\ route \in VllmTargeted =>
              /\ route \notin Inference
              /\ route \notin VllmAny \cup ResponseState \cup Lists \cup OllamaAdmin
              /\ route \notin {"GET /model", OpenAiModel, "GET /health", "POST /api/show", "unknown"}
         /\ route \in Lists =>
              /\ route \notin Inference
              /\ route \notin VllmAny \cup ResponseState \cup VllmTargeted \cup OllamaAdmin
              /\ route \notin {"GET /model", OpenAiModel, "GET /health", "POST /api/show", "unknown"}
         /\ route \in OllamaAdmin \cup {"POST /api/show"} =>
              /\ route \notin Inference
              /\ route \notin VllmAny \cup ResponseState \cup VllmTargeted \cup Lists
              /\ route \notin {"GET /model", OpenAiModel, "GET /health", "unknown"}
         /\ route \in {"GET /model", OpenAiModel, "GET /health", "unknown"} =>
              /\ route \notin Inference
              /\ route \notin VllmAny \cup ResponseState \cup VllmTargeted \cup Lists
              /\ route \notin OllamaAdmin \cup {"POST /api/show"}
              /\ route = "GET /model" => route \notin {OpenAiModel, "GET /health", "unknown"}
              /\ route = OpenAiModel => route \notin {"GET /health", "unknown"}
              /\ route = "GET /health" => route # "unknown"
<1> DEFINE singles == {"GET /model", OpenAiModel, "GET /health", "unknown"}
<1>1. route \in VllmAny \cup ResponseState =>
        route \notin VllmTargeted \cup Lists \cup OllamaAdmin \cup singles \cup {"POST /api/show"}
  BY DEF VllmAny, ResponseState, VllmTargeted, Lists, OllamaAdmin, OpenAiModel
<1>2. route \in VllmTargeted => route \notin Lists \cup OllamaAdmin \cup singles \cup {"POST /api/show"}
  BY DEF VllmTargeted, Lists, OllamaAdmin, OpenAiModel
<1>3. route \in Lists => route \notin OllamaAdmin \cup singles \cup {"POST /api/show"}
  BY DEF Lists, OllamaAdmin, OpenAiModel
<1>4. route \in OllamaAdmin \cup {"POST /api/show"} => route \notin singles
  BY DEF OllamaAdmin, OpenAiModel
<1>5. /\ route = "GET /model" => route \notin {OpenAiModel, "GET /health", "unknown"}
      /\ route = OpenAiModel => route \notin {"GET /health", "unknown"}
      /\ route = "GET /health" => route # "unknown"
  BY DEF OpenAiModel
<1>6. QED
  BY <1>1, <1>2, <1>3, <1>4, <1>5, TablesDisjoint DEF Inference

LEMMA OtherPlansAreSound ==
  ASSUME NEW a, NEW key, NEW reg, NEW p \in RoutePlans(a, key, reg),
         a.route \in Routes, a.route \notin Inference
  PROVE  Sound(a, reg, p)
<1>0. /\ a.route \notin OllamaInference
      /\ a.route \notin OpenAiInference
      /\ a.route \notin VllmInference
      /\ a.route \notin SystemOneEval
  BY DEF Inference
<1>1. ASSUME a.route = "GET /model"
      PROVE  Sound(a, reg, p)
  <2>0. /\ a.route \notin VllmAny \cup ResponseState
        /\ a.route \notin VllmTargeted
        /\ a.route \notin Lists
        /\ a.route # OpenAiModel
        /\ a.route # "GET /health"
        /\ a.route \notin OllamaAdmin \cup {"POST /api/show"}
        /\ a.route # "unknown"
    BY <1>1, OtherTablesDisjoint
  <2>1. RoutePlans(a, key, reg) = FirstOf(Connected(reg, {"SystemOne"}), 503)
    BY <1>0, <1>1, <2>0, ZenonT(60) DEF RoutePlans
  <2>2. \A w \in Connected(reg, {"SystemOne"}) : w \in DOMAIN reg /\ Needs(a, reg[w])
    BY <1>1, OtherTablesDisjoint
    DEF Connected, Needs, OllamaAdmin, Inference
  <2>3. QED
    BY <2>1, <2>2, FirstOfIsSound
<1>2. ASSUME a.route \in VllmAny \cup ResponseState
      PROVE  Sound(a, reg, p)
  <2>0. /\ a.route # "GET /model"
        /\ a.route \notin VllmTargeted
        /\ a.route \notin Lists
        /\ a.route # OpenAiModel
        /\ a.route # "GET /health"
        /\ a.route \notin OllamaAdmin \cup {"POST /api/show"}
        /\ a.route # "unknown"
    BY <1>2, OtherTablesDisjoint
  <2>1. RoutePlans(a, key, reg) = FirstOf(Connected(reg, {"Vllm"}), 503)
    BY <1>0, <1>2, <2>0, ZenonT(60) DEF RoutePlans
  <2>2. \A w \in Connected(reg, {"Vllm"}) : w \in DOMAIN reg /\ Needs(a, reg[w])
    BY <1>2, OtherTablesDisjoint
    DEF Connected, Needs, OllamaAdmin, Inference
  <2>3. QED
    BY <2>1, <2>2, FirstOfIsSound
<1>3. ASSUME a.route \in VllmTargeted
      PROVE  Sound(a, reg, p)
  <2>0. /\ a.route # "GET /model"
        /\ a.route \notin VllmAny \cup ResponseState
        /\ a.route \notin Lists
        /\ a.route # OpenAiModel
        /\ a.route # "GET /health"
        /\ a.route \notin OllamaAdmin \cup {"POST /api/show"}
        /\ a.route # "unknown"
    BY <1>3, OtherTablesDisjoint
  <2>1. RoutePlans(a, key, reg) = {Reject(400)}
    BY <1>0, <1>3, <2>0 DEF RoutePlans
  <2>2. QED
    BY <2>1, RejectIsSound
<1>4. ASSUME a.route \in Lists
      PROVE  Sound(a, reg, p)
  <2>1. RoutePlans(a, key, reg) = ListOf(a.route, reg)
    BY <1>4, OtherTablesDisjoint DEF RoutePlans, Inference
  <2>2. p = Local \/ \E backends : p = Probe(a.route, Connected(reg, backends))
    BY <2>1 DEF ListOf
  <2>3. ASSUME NEW backends, p = Probe(a.route, Connected(reg, backends))
        PROVE  Sound(a, reg, p)
    BY <2>3 DEF Sound, Probe, Connected
  <2>4. QED
    BY <2>2, <2>3, RejectIsSound
<1>5. ASSUME a.route = OpenAiModel
      PROVE  Sound(a, reg, p)
  <2>0. /\ a.route # "GET /model"
        /\ a.route \notin VllmAny \cup ResponseState
        /\ a.route \notin VllmTargeted
        /\ a.route \notin Lists
        /\ a.route # "GET /health"
        /\ a.route \notin OllamaAdmin \cup {"POST /api/show"}
        /\ a.route # "unknown"
    BY <1>5, OtherTablesDisjoint
  <2>1. RoutePlans(a, key, reg) \subseteq {Local, Reject(404)}
    BY <1>0, <1>5, <2>0 DEF RoutePlans
  <2>2. QED
    BY <2>1, RejectIsSound
<1>6. ASSUME a.route \in {"GET /health", "unknown"}
      PROVE  Sound(a, reg, p)
  <2>0. /\ a.route # "GET /model"
        /\ a.route \notin VllmAny \cup ResponseState
        /\ a.route \notin VllmTargeted
        /\ a.route \notin Lists
        /\ a.route # OpenAiModel
        /\ a.route \notin OllamaAdmin \cup {"POST /api/show"}
    BY <1>6, OtherTablesDisjoint
  <2>1. RoutePlans(a, key, reg) \subseteq {Local, Reject(404)}
    <3>1. CASE a.route = "GET /health"
      BY <1>0, <2>0, <3>1 DEF RoutePlans
    <3>2. CASE a.route = "unknown"
      BY <1>0, <2>0, <3>2 DEF RoutePlans
    <3>3. QED
      BY <1>6, <3>1, <3>2
  <2>2. QED
    BY <2>1, RejectIsSound
<1>7. ASSUME a.route \in OllamaAdmin \cup {"POST /api/show"}
      PROVE  Sound(a, reg, p)
  <2>0. /\ a.route # "GET /model"
        /\ a.route \notin VllmAny \cup ResponseState
        /\ a.route \notin VllmTargeted
        /\ a.route \notin Lists
        /\ a.route # OpenAiModel
        /\ a.route # "GET /health"
        /\ a.route # "unknown"
    BY <1>7, OtherTablesDisjoint
  <2>1. RoutePlans(a, key, reg) = AdminPlans(a, key, reg)
    BY <1>0, <1>7, <2>0 DEF RoutePlans
  <2> DEFINE owned(model) == Owners(reg, model, Ollama)
  <2>2. ASSUME NEW model, NEW plans, p \in OfModel(model, key, plans)
        PROVE  p = Reject(400) \/ p = Reject(404) \/ p \in plans
    BY <2>2 DEF OfModel
  <2>3. a.route \notin VllmInference \cup VllmAny \cup ResponseState \cup SystemOneEval
                         \cup Inference \cup {"GET /model"}
    BY <1>7, OtherTablesDisjoint DEF Inference
  <2>4. ASSUME NEW w \in Connected(reg, Ollama)
        PROVE  /\ w \in DOMAIN reg
               /\ a.route \in {"POST /api/show", "POST /api/pull"} => Needs(a, reg[w])
    BY <2>3, <2>4 DEF Connected, Needs
  <2>5. ASSUME NEW model, NEW w \in Owners(reg, model, Ollama),
               \/ a.route \in {"POST /api/push", "DELETE /api/delete"} /\ model = a.model
               \/ a.route = "POST /api/create" /\ model = a.from
               \/ a.route = "POST /api/copy" /\ model = a.source
               \/ a.route = "POST /api/show"
        PROVE  w \in DOMAIN reg /\ Needs(a, reg[w])
    BY <2>3, <2>5 DEF Owners, Connected, Needs
  <2>6. CASE a.route = "POST /api/show"
    <3>1. p \in OfModel(ShowModel(a), key,
                  IF Owners(reg, ShowModel(a), Ollama) # {}
                    THEN FirstOf(Owners(reg, ShowModel(a), Ollama), 503)
                    ELSE FirstOf(Connected(reg, Ollama), 503))
      BY <2>1, <2>6 DEF AdminPlans
    <3>2. \/ p = Reject(400) \/ p = Reject(404)
          \/ p \in FirstOf(Owners(reg, ShowModel(a), Ollama), 503)
          \/ p \in FirstOf(Connected(reg, Ollama), 503)
      BY <2>2, <3>1
    <3>3. /\ \A w \in Owners(reg, ShowModel(a), Ollama) : w \in DOMAIN reg /\ Needs(a, reg[w])
          /\ \A w \in Connected(reg, Ollama) : w \in DOMAIN reg /\ Needs(a, reg[w])
      BY <2>4, <2>5, <2>6
    <3>4. QED
      BY <3>2, <3>3, FirstOfIsSound, RejectIsSound
  <2>7. CASE a.route = "POST /api/create"
    <3>1. p \in OfModel(a.from, key, FirstOf(Owners(reg, a.from, Ollama), 404))
      BY <2>1, <2>7 DEF AdminPlans, OwnerPlans
    <3>2. \A w \in Owners(reg, a.from, Ollama) : w \in DOMAIN reg /\ Needs(a, reg[w])
      BY <2>5, <2>7
    <3>3. QED
      BY <2>2, <3>1, <3>2, FirstOfIsSound, RejectIsSound
  <2>8. CASE a.route = "POST /api/copy"
    <3>1. p \in OfModel(a.source, key, FirstOf(Owners(reg, a.source, Ollama), 404))
      BY <2>1, <2>8 DEF AdminPlans, OwnerPlans
    <3>2. \A w \in Owners(reg, a.source, Ollama) : w \in DOMAIN reg /\ Needs(a, reg[w])
      BY <2>5, <2>8
    <3>3. QED
      BY <2>2, <3>1, <3>2, FirstOfIsSound, RejectIsSound
  <2>9. CASE a.route = "POST /api/push"
    <3>1. p \in OfModel(a.model, key, FirstOf(Owners(reg, a.model, Ollama), 404))
      BY <2>1, <2>9 DEF AdminPlans, OwnerPlans
    <3>2. \A w \in Owners(reg, a.model, Ollama) : w \in DOMAIN reg /\ Needs(a, reg[w])
      BY <2>5, <2>9
    <3>3. QED
      BY <2>2, <3>1, <3>2, FirstOfIsSound, RejectIsSound
  <2>10. CASE a.route = "POST /api/pull"
    <3>1. p \in FirstOf(Connected(reg, Ollama), 503)
      BY <2>1, <2>10 DEF AdminPlans
    <3>2. QED
      BY <2>4, <2>10, <3>1, FirstOfIsSound
  <2>11. CASE a.route = "DELETE /api/delete"
    <3>1. p \in OfModel(a.model, key, FirstOf(Owners(reg, a.model, Ollama), 503))
      BY <2>1, <2>11 DEF AdminPlans
    <3>2. \A w \in Owners(reg, a.model, Ollama) : w \in DOMAIN reg /\ Needs(a, reg[w])
      BY <2>5, <2>11
    <3>3. QED
      BY <2>2, <3>1, <3>2, FirstOfIsSound, RejectIsSound
  <2>12. QED
    BY <1>7, <2>6, <2>7, <2>8, <2>9, <2>10, <2>11 DEF OllamaAdmin
<1>8. QED
  BY <1>1, <1>2, <1>3, <1>4, <1>5, <1>6, <1>7 DEF Routes, Inference

\* A plan the planner makes for a request it is left to plan.
LEMMA PlansAreSound ==
  ASSUME NEW a, NEW key, NEW reg, NEW p \in Plans(a, key, reg), a.route \in Routes
  PROVE  \/ p.to = "node" /\ a.node # None
         \/ Sound(a, reg, p)
<1>1. CASE a.hive
  BY <1>1, RejectIsSound DEF Plans
<1>2. CASE ~ a.hive /\ a.node # None
  BY <1>2 DEF Plans, ByNode
<1>3. CASE ~ a.hive /\ a.node = None
  BY <1>3, ModelPlansAreSound, OtherPlansAreSound DEF Plans, Inference
<1>4. QED
  BY <1>1, <1>2, <1>3

-----------------------------------------------------------------------------
(* The way of a request, as an inductive invariant *)

Shapes ==
  /\ stage \in [Requests -> Stages]
  /\ admitted \in [Requests -> Keys \cup {None}]
  /\ visible \in [Requests -> Keys \cup {None}]
  /\ DOMAIN ask = Requests
  /\ DOMAIN plan = Requests
  /\ DOMAIN planned = Requests
  /\ DOMAIN answer = Requests
  /\ DOMAIN probe = Requests
  /\ \A r \in Requests : DOMAIN probe[r] = Workers
  /\ conn \in [Workers -> {"down", "up", "parked", "sent", "body"}]
  /\ job \in [Workers -> Requests \cup {None}]
  /\ DOMAIN registry = Workers
  /\ DOMAIN polled = Workers
  /\ DOMAIN relay = Workers
  /\ live \subseteq Keys

AllAsks == UNION {Asks[r] : r \in Requests}

\* What is known of a request at a stage: s is its stage, a what it asks, k and v
\* the keys of its two look-ups, p its plan and e the entry it was planned for.
\* The policy passed it, and its plan is one for what it asks.
Known(s, a, k, v, p, e) ==
  /\ s = "new" => a = None /\ k = None /\ v = None
  /\ s # "new" => a \in AllAsks /\ {k, v} \subseteq {a.key, None}
  /\ s \in {"new", "read", "authorized"} => p = None
  /\ s \in {"authorized", "probing", "queued", "taken", "served"} =>
       Refusal(a, RecordOf(k), UserAuthentication) = None
  /\ s = "probing" => p.to = "probe" /\ p.route = a.route /\ p.workers \subseteq Workers
  /\ s \in {"queued", "taken", "served"} =>
       /\ p.to \in {"model", "node"}
       /\ p.to = "model" => FitsModel(a, p)
       /\ p.to = "node" /\ a.node = None => Needs(a, e)
  /\ s = "ended" /\ p # None /\ p.to = "probe" =>
       p.route = a.route /\ p.workers \subseteq Workers

KnownOk(r) == Known(stage[r], ask[r], admitted[r], visible[r], plan[r], planned[r])

\* Only the request of a list has probes, and its answer is the list of them all.
ProbesOk(r) ==
  \A w \in Workers :
    probe[r][w].at # "none" => stage[r] \in {"probing", "ended"} /\ plan[r].to = "probe"

ListOk(r) ==
  stage[r] = "ended" /\ plan[r] # None /\ plan[r].to = "probe" =>
    /\ answer[r].names = Listed(r)
    /\ \A w \in plan[r].workers : probe[r][w].at = "done"

RequestOk(r) == KnownOk(r) /\ ProbesOk(r) /\ ListOk(r)

\* A worker's thread serves a request that was taken, which no other serves, or
\* a probe, whose prober may have given up.
Serves(w) ==
  \/ stage[job[w]] = "taken"
  \/ /\ stage[job[w]] \in {"probing", "ended"}
     /\ plan[job[w]].to = "probe"
     /\ conn[w] = "sent"

JobsOk ==
  /\ \A w \in Workers : job[w] # None <=> conn[w] \in {"sent", "body"}
  /\ \A w \in Workers : job[w] # None => Serves(w)
  /\ \A v, w \in Workers :
       job[v] = job[w] /\ job[w] # None /\ stage[job[w]] = "taken" => v = w
  /\ \A r \in Requests : stage[r] = "taken" => \E w \in Workers : job[w] = r

ThreadsOk ==
  \A w \in Workers :
    /\ IF conn[w] = "body"
         THEN /\ DOMAIN relay[w] = {"rest", "scan", "reply"}
              /\ relay[w].reply \in Replies
         ELSE relay[w] = None
    /\ IF conn[w] \in {"parked", "sent", "body"}
         THEN \E p \in Profiles[w] : polled[w] \in {p, [p EXCEPT !.tags = {}]}
         ELSE polled[w] = None

PathInv == Shapes /\ (\A r \in Requests : RequestOk(r)) /\ JobsOk /\ ThreadsOk

\* The initial state.
LEMMA PathInvInit == Init => PathInv
<1> SUFFICES ASSUME Init PROVE PathInv
  OBVIOUS
<1> USE DEF Init
<1>1. Shapes
  BY DEF Shapes, Stages
<1>2. ASSUME NEW r \in Requests PROVE RequestOk(r)
  <2>1. KnownOk(r)
    BY DEF KnownOk, Known
  <2>2. ProbesOk(r)
    BY DEF ProbesOk, At
  <2>3. ListOk(r)
    BY DEF ListOk
  <2>4. QED
    BY <2>1, <2>2, <2>3 DEF RequestOk
<1>3. JobsOk
  BY PathAssumption DEF JobsOk
<1>4. ThreadsOk
  BY DEF ThreadsOk
<1>5. QED
  BY <1>1, <1>2, <1>3, <1>4 DEF PathInv

-----------------------------------------------------------------------------
(* What steps of a kind leave true *)

\* A request keeps what is known of it while its own part of the state stays.
LEMMA RequestKept ==
  ASSUME NEW q \in Requests, RequestOk(q),
         stage'[q] = stage[q], ask'[q] = ask[q], admitted'[q] = admitted[q],
         visible'[q] = visible[q], plan'[q] = plan[q], planned'[q] = planned[q],
         stage[q] = "ended" => answer'[q] = answer[q], probe'[q] = probe[q]
  PROVE  RequestOk(q)'
<1>1. KnownOk(q)'
  BY DEF RequestOk, KnownOk
<1>2. ProbesOk(q)'
  BY DEF RequestOk, ProbesOk
<1>3. Listed(q)' = Listed(q)
  BY DEF Listed
<1>4. ListOk(q)'
  BY <1>3 DEF RequestOk, ListOk
<1>5. QED
  BY <1>1, <1>2, <1>4 DEF RequestOk

\* A request that waits for a worker or has one goes on to be taken, served or ended.
LEMMA RequestMoves ==
  ASSUME PathInv, NEW r \in Requests, NEW s \in {"taken", "served", "ended"},
         stage[r] \in {"queued", "taken"},
         stage' = [stage EXCEPT ![r] = s],
         UNCHANGED <<ask, admitted, visible, plan, planned, probe>>,
         \A q \in Requests \ {r} : answer'[q] = answer[q]
  PROVE  \A q \in Requests : RequestOk(q)'
<1>1. ASSUME NEW q \in Requests, q # r PROVE RequestOk(q)'
  <2>1. stage'[q] = stage[q]
    BY <1>1 DEF PathInv, Shapes
  <2>2. QED
    BY <1>1, <2>1, RequestKept DEF PathInv
<1>2. RequestOk(r)'
  <2>1. stage'[r] = s
    BY DEF PathInv, Shapes
  <2>2. KnownOk(r) /\ ProbesOk(r)
    BY DEF PathInv, RequestOk
  <2>3. plan[r].to \in {"model", "node"}
    BY <2>2 DEF KnownOk, Known
  <2>4. KnownOk(r)'
    BY <2>1, <2>2, <2>3 DEF KnownOk, Known
  <2>5. ProbesOk(r)'
    BY <2>2, <2>3 DEF ProbesOk
  <2>6. ListOk(r)'
    BY <2>3 DEF ListOk
  <2>7. QED
    BY <2>4, <2>5, <2>6 DEF RequestOk
<1>3. QED
  BY <1>1, <1>2

\* A probe under way goes on or ends.
LEMMA ProbeMoves ==
  ASSUME PathInv, NEW r \in Requests, NEW w \in Workers, NEW x,
         probe[r][w].at \notin {"none", "done"},
         probe' = [probe EXCEPT ![r][w] = x],
         UNCHANGED <<stage, ask, admitted, visible, plan, planned, answer>>
  PROVE  \A q \in Requests : RequestOk(q)'
<1>1. ASSUME NEW q \in Requests, q # r PROVE RequestOk(q)'
  <2>1. probe'[q] = probe[q]
    BY <1>1 DEF PathInv, Shapes
  <2>2. QED
    BY <1>1, <2>1, RequestKept DEF PathInv
<1>2. RequestOk(r)'
  <2>1. KnownOk(r) /\ ProbesOk(r) /\ ListOk(r)
    BY DEF PathInv, RequestOk
  <2>2. \A v \in Workers : v # w => probe'[r][v] = probe[r][v]
    BY DEF PathInv, Shapes
  <2>3. KnownOk(r)'
    BY <2>1 DEF KnownOk
  <2>4. ProbesOk(r)'
    BY <2>1, <2>2 DEF ProbesOk
  <2>5. ListOk(r)'
    <3>1. SUFFICES ASSUME stage[r] = "ended", plan[r] # None, plan[r].to = "probe"
                   PROVE  /\ (answer[r].names = Listed(r))'
                          /\ \A v \in plan[r].workers : probe'[r][v].at = "done"
      BY DEF ListOk
    <3>2. plan[r].workers \subseteq Workers
      BY <2>1, <3>1 DEF KnownOk, Known
    <3>3. \A v \in plan[r].workers : probe'[r][v] = probe[r][v]
      BY <2>1, <2>2, <3>1, <3>2 DEF ListOk
    <3>4. Listed(r)' = Listed(r)
      BY <3>3 DEF Listed
    <3>5. QED
      BY <2>1, <3>1, <3>3, <3>4 DEF ListOk
  <2>6. QED
    BY <2>3, <2>4, <2>5 DEF RequestOk
<1>3. QED
  BY <1>1, <1>2

\* The threads of workers have nothing to do with a request that is not theirs.
LEMMA JobsKept ==
  ASSUME PathInv, NEW r \in Requests, NEW s \in Stages \ {"taken"},
         stage' = [stage EXCEPT ![r] = s],
         stage[r] \notin {"taken", "ended"},
         stage[r] = "probing" => s = "ended" /\ plan'[r] = plan[r],
         \A q \in Requests \ {r} : plan'[q] = plan[q],
         UNCHANGED <<job, conn>>
  PROVE  JobsOk'
<1>1. JobsOk /\ stage \in [Requests -> Stages]
  BY DEF PathInv, Shapes
<1>2. job \in [Workers -> Requests \cup {None}]
  BY DEF PathInv, Shapes
<1>3. ASSUME NEW w \in Workers, job[w] # None PROVE Serves(w)'
  <2>1. CASE job[w] = r
    BY <1>1, <1>3, <2>1 DEF JobsOk, Serves
  <2>2. CASE job[w] # r
    BY <1>1, <1>2, <1>3, <2>2 DEF JobsOk, Serves
  <2>3. QED
    BY <2>1, <2>2
<1>4. \A q \in Requests : stage'[q] = "taken" <=> stage[q] = "taken"
  BY <1>1
<1>5. QED
  BY <1>1, <1>2, <1>3, <1>4 DEF JobsOk

-----------------------------------------------------------------------------
(* The steps of the client's side *)

LEMMA ReadKeeps ==
  ASSUME PathInv, NEW r \in Requests, ReadRequest(r)
  PROVE  PathInv'
<1>1. /\ stage[r] = "new" /\ stage' = [stage EXCEPT ![r] = "read"]
      /\ UNCHANGED <<admitted, visible, plan, planned, workerVars, probe, answer, live>>
  BY DEF ReadRequest
<1>2. PICK a \in Asks[r] : ask' = [ask EXCEPT ![r] = a]
  BY DEF ReadRequest
<1>3. Shapes'
  BY <1>1, <1>2 DEF PathInv, Shapes, Stages, workerVars
<1>4. ASSUME NEW q \in Requests PROVE RequestOk(q)'
  <2>1. CASE q # r
    <3>1. stage'[q] = stage[q] /\ ask'[q] = ask[q]
      BY <1>1, <1>2, <2>1 DEF PathInv, Shapes
    <3>2. QED
      BY <1>1, <3>1, RequestKept DEF PathInv
  <2>2. CASE q = r
    <3>1. stage'[r] = "read" /\ ask'[r] = a /\ KnownOk(r) /\ ProbesOk(r)
      BY <1>1, <1>2 DEF PathInv, Shapes, RequestOk
    <3>2. KnownOk(r)'
      BY <1>1, <3>1 DEF KnownOk, Known, AllAsks
    <3>3. ProbesOk(r)' /\ ListOk(r)'
      BY <1>1, <3>1 DEF ProbesOk, ListOk
    <3>4. QED
      BY <2>2, <3>2, <3>3 DEF RequestOk
  <2>3. QED
    BY <2>1, <2>2
<1>5. JobsOk'
  BY <1>1, JobsKept DEF workerVars, Stages
<1>6. ThreadsOk'
  BY <1>1 DEF PathInv, ThreadsOk, workerVars
<1>7. QED
  BY <1>3, <1>4, <1>5, <1>6 DEF PathInv

LEMMA AuthorizeKeeps ==
  ASSUME PathInv, NEW r \in Requests, AuthorizeRequest(r)
  PROVE  PathInv'
<1>1. /\ stage[r] = "read"
      /\ UNCHANGED <<ask, visible, plan, planned, workerVars, probe, live>>
  BY DEF AuthorizeRequest
<1>0. PICK key \in VerifiedKeys(r) :
        LET refusal == Refusal(ask[r], RecordOf(key), UserAuthentication)
        IN  \/ /\ refusal # None
               /\ End(r, Got(refusal))
               /\ UNCHANGED admitted
            \/ /\ refusal = None /\ key # None /\ ask[r].route \notin Discovery
               /\ End(r, Got(429))
               /\ UNCHANGED admitted
            \/ /\ refusal = None
               /\ stage' = [stage EXCEPT ![r] = "authorized"]
               /\ admitted' = [admitted EXCEPT ![r] = key]
               /\ UNCHANGED answer
  BY DEF AuthorizeRequest
<1>2. key \in Keys \cup {None} /\ key \in {ask[r].key, None}
  BY DEF VerifiedKeys, PathInv, Shapes
<1>3. PICK s \in {"ended", "authorized"} :
        /\ stage' = [stage EXCEPT ![r] = s]
        /\ s = "ended" => admitted' = admitted /\ \A q \in Requests \ {r} : answer'[q] = answer[q]
        /\ s = "authorized" => /\ Refusal(ask[r], RecordOf(key), UserAuthentication) = None
                               /\ admitted' = [admitted EXCEPT ![r] = key]
                               /\ answer' = answer
        /\ DOMAIN answer' = DOMAIN answer
  <2>1. ASSUME NEW with, End(r, with), UNCHANGED admitted
        PROVE  /\ stage' = [stage EXCEPT ![r] = "ended"]
               /\ admitted' = admitted /\ \A q \in Requests \ {r} : answer'[q] = answer[q]
               /\ DOMAIN answer' = DOMAIN answer
    BY <2>1 DEF End, PathInv, Shapes
  <2> DEFINE refusal == Refusal(ask[r], RecordOf(key), UserAuthentication)
  <2>2. \/ End(r, Got(refusal)) /\ UNCHANGED admitted
        \/ End(r, Got(429)) /\ UNCHANGED admitted
        \/ /\ refusal = None
           /\ stage' = [stage EXCEPT ![r] = "authorized"]
           /\ admitted' = [admitted EXCEPT ![r] = key]
           /\ UNCHANGED answer
    BY <1>0
  <2>3. QED
    BY <2>1, <2>2
<1>4. Shapes'
  BY <1>1, <1>2, <1>3 DEF PathInv, Shapes, Stages, workerVars
<1>5. ASSUME NEW q \in Requests PROVE RequestOk(q)'
  <2>1. CASE q # r
    <3>1. stage'[q] = stage[q] /\ admitted'[q] = admitted[q] /\ answer'[q] = answer[q]
      BY <1>3, <2>1 DEF PathInv, Shapes
    <3>2. QED
      BY <1>1, <3>1, RequestKept DEF PathInv
  <2>2. CASE q = r
    <3>1. stage'[r] = s /\ KnownOk(r) /\ ProbesOk(r)
      BY <1>3 DEF PathInv, Shapes, RequestOk
    <3>2. admitted'[r] = IF s = "authorized" THEN key ELSE admitted[r]
      BY <1>3 DEF PathInv, Shapes
    <3>3. KnownOk(r)'
      BY <1>1, <1>2, <1>3, <3>1, <3>2 DEF KnownOk, Known
    <3>4. ProbesOk(r)' /\ ListOk(r)'
      BY <1>1, <3>1 DEF ProbesOk, ListOk, KnownOk, Known
    <3>5. QED
      BY <2>2, <3>3, <3>4 DEF RequestOk
  <2>3. QED
    BY <2>1, <2>2
<1>6. JobsOk'
  BY <1>1, <1>3, JobsKept DEF workerVars, Stages
<1>7. ThreadsOk'
  BY <1>1 DEF PathInv, ThreadsOk, workerVars
<1>8. QED
  BY <1>4, <1>5, <1>6, <1>7 DEF PathInv

LEMMA PlanKeeps ==
  ASSUME PathInv, NEW r \in Requests, PlanRequest(r)
  PROVE  PathInv'
<1>0. PICK key \in VerifiedKeys(r) :
        /\ visible' = [visible EXCEPT ![r] = key]
        /\ \E p \in Plans(ask[r], RecordOf(key), registry) :
             /\ plan' = [plan EXCEPT ![r] = p]
             /\ \/ /\ p.to \in {"local", "reject"}
                   /\ End(r, Got(p.status))
                   /\ UNCHANGED <<probe, planned>>
                \/ /\ p.to = "probe"
                   /\ stage' = [stage EXCEPT ![r] = "probing"]
                   /\ probe' = [probe EXCEPT ![r] = [w \in Workers |->
                                  At(IF w \in p.workers THEN "starting" ELSE "none")]]
                   /\ UNCHANGED <<answer, planned>>
                \/ /\ p.to \in {"model", "node"}
                   /\ stage' = [stage EXCEPT ![r] = "queued"]
                   /\ planned' = [planned EXCEPT ![r] =
                        IF p.to = "node" /\ p.node \in Workers THEN registry[p.node] ELSE None]
                   /\ UNCHANGED <<answer, probe>>
  BY DEF PlanRequest
<1>1. /\ stage[r] = "authorized"
      /\ visible' = [visible EXCEPT ![r] = key]
      /\ UNCHANGED <<ask, admitted, workerVars, live>>
  BY <1>0 DEF PlanRequest
<1>2. key \in Keys \cup {None} /\ key \in {ask[r].key, None}
  BY DEF VerifiedKeys, PathInv, Shapes
<1>3. PICK p \in Plans(ask[r], RecordOf(key), registry) :
        /\ plan' = [plan EXCEPT ![r] = p]
        /\ \/ /\ p.to \in {"local", "reject"}
              /\ End(r, Got(p.status))
              /\ UNCHANGED <<probe, planned>>
           \/ /\ p.to = "probe"
              /\ stage' = [stage EXCEPT ![r] = "probing"]
              /\ probe' = [probe EXCEPT ![r] = [w \in Workers |->
                             At(IF w \in p.workers THEN "starting" ELSE "none")]]
              /\ UNCHANGED <<answer, planned>>
           \/ /\ p.to \in {"model", "node"}
              /\ stage' = [stage EXCEPT ![r] = "queued"]
              /\ planned' = [planned EXCEPT ![r] =
                   IF p.to = "node" /\ p.node \in Workers THEN registry[p.node] ELSE None]
              /\ UNCHANGED <<answer, probe>>
  BY <1>0
<1>4. KnownOk(r) /\ ProbesOk(r) /\ stage \in [Requests -> Stages] /\ DOMAIN registry = Workers
  BY DEF PathInv, Shapes, RequestOk
<1>5. ask[r] \in AllAsks /\ ask[r].route \in Routes
  BY <1>1, <1>4, PathAssumption DEF KnownOk, Known, AllAsks
<1>6. (p.to = "node" /\ ask[r].node # None) \/ Sound(ask[r], registry, p)
  BY <1>3, <1>5, PlansAreSound
<1> DEFINE s == CASE p.to \in {"local", "reject"} -> "ended"
                  [] p.to = "probe" -> "probing"
                  [] p.to \in {"model", "node"} -> "queued"
<1>7. /\ s \in {"ended", "probing", "queued"}
      /\ stage' = [stage EXCEPT ![r] = s]
      /\ s = "ended" => p.to \in {"local", "reject"}
      /\ s = "probing" => p.to = "probe"
      /\ s = "queued" => p.to \in {"model", "node"}
  BY <1>3 DEF End
<1> HIDE DEF s
<1>8. /\ \A q \in Requests \ {r} : /\ plan'[q] = plan[q]
                                   /\ planned'[q] = planned[q]
                                   /\ answer'[q] = answer[q]
                                   /\ probe'[q] = probe[q]
                                   /\ stage'[q] = stage[q]
                                   /\ visible'[q] = visible[q]
      /\ plan'[r] = p /\ stage'[r] = s /\ visible'[r] = key
      /\ s # "probing" => probe'[r] = probe[r]
      /\ p.to = "node" /\ p.node \in Workers => planned'[r] = registry[p.node]
  BY <1>1, <1>3, <1>7 DEF PathInv, Shapes, End
<1>9. Shapes'
  <2>1. stage' \in [Requests -> Stages] /\ visible' \in [Requests -> Keys \cup {None}]
    BY <1>1, <1>2, <1>7 DEF PathInv, Shapes, Stages
  <2>2. /\ DOMAIN plan' = Requests /\ DOMAIN planned' = Requests
        /\ DOMAIN answer' = Requests
    BY <1>3 DEF PathInv, Shapes, End
  <2>3. DOMAIN probe' = Requests /\ \A q \in Requests : DOMAIN probe'[q] = Workers
    BY <1>3 DEF PathInv, Shapes
  <2>4. QED
    BY <1>1, <2>1, <2>2, <2>3 DEF PathInv, Shapes, workerVars
<1>10. ASSUME NEW q \in Requests PROVE RequestOk(q)'
  <2>1. CASE q # r
    BY <1>1, <1>8, <2>1, RequestKept DEF PathInv
  <2>2. CASE q = r
    <3>1. KnownOk(r)'
      BY <1>1, <1>2, <1>4, <1>6, <1>7, <1>8 DEF KnownOk, Known, Sound
    <3>2. ProbesOk(r)'
      BY <1>1, <1>4, <1>7, <1>8 DEF ProbesOk
    <3>3. ListOk(r)'
      BY <1>7, <1>8 DEF ListOk
    <3>4. QED
      BY <2>2, <3>1, <3>2, <3>3 DEF RequestOk
  <2>3. QED
    BY <2>1, <2>2
<1>11. JobsOk'
  BY <1>1, <1>7, <1>8, JobsKept DEF workerVars, Stages
<1>12. ThreadsOk'
  BY <1>1 DEF PathInv, ThreadsOk, workerVars
<1>13. QED
  BY <1>9, <1>10, <1>11, <1>12 DEF PathInv

LEMMA ExpireKeeps ==
  ASSUME PathInv, NEW r \in Requests, ExpireQueued(r)
  PROVE  PathInv'
<1>1. /\ stage[r] = "queued" /\ stage' = [stage EXCEPT ![r] = "ended"]
      /\ answer' = [answer EXCEPT ![r] = Got(504)]
      /\ UNCHANGED <<ask, admitted, visible, plan, planned, workerVars, probe, live>>
  BY DEF ExpireQueued, End
<1>2. Shapes'
  BY <1>1 DEF PathInv, Shapes, Stages, workerVars
<1>3. \A q \in Requests : RequestOk(q)'
  <2>1. \A q \in Requests \ {r} : answer'[q] = answer[q]
    BY <1>1 DEF PathInv, Shapes
  <2>2. QED
    BY <1>1, <2>1, RequestMoves
<1>4. JobsOk'
  BY <1>1, JobsKept DEF workerVars, Stages
<1>5. ThreadsOk'
  BY <1>1 DEF PathInv, ThreadsOk, workerVars
<1>6. QED
  BY <1>2, <1>3, <1>4, <1>5 DEF PathInv

LEMMA AnswerListKeeps ==
  ASSUME PathInv, NEW r \in Requests, AnswerList(r)
  PROVE  PathInv'
<1>1. /\ stage[r] = "probing" /\ stage' = [stage EXCEPT ![r] = "ended"]
      /\ \A w \in plan[r].workers : probe[r][w].at = "done"
      /\ answer' = [answer EXCEPT ![r] = [status |-> 200, names |-> Listed(r)]]
      /\ UNCHANGED <<ask, admitted, visible, plan, planned, workerVars, probe, live>>
  BY DEF AnswerList, End
<1>2. Shapes'
  BY <1>1 DEF PathInv, Shapes, Stages, workerVars
<1>3. ASSUME NEW q \in Requests PROVE RequestOk(q)'
  <2>1. CASE q # r
    <3>1. stage'[q] = stage[q] /\ answer'[q] = answer[q]
      BY <1>1, <2>1 DEF PathInv, Shapes
    <3>2. QED
      BY <1>1, <3>1, RequestKept DEF PathInv
  <2>2. CASE q = r
    <3>1. stage'[r] = "ended" /\ KnownOk(r) /\ ProbesOk(r)
      BY <1>1 DEF PathInv, Shapes, RequestOk
    <3>2. KnownOk(r)'
      BY <1>1, <3>1 DEF KnownOk, Known
    <3>3. ProbesOk(r)'
      BY <1>1, <3>1 DEF ProbesOk
    <3>4. Listed(r)' = Listed(r)
      BY <1>1 DEF Listed
    <3>5. answer'[r].names = Listed(r)
      BY <1>1 DEF PathInv, Shapes
    <3>6. ListOk(r)'
      BY <1>1, <3>4, <3>5 DEF ListOk
    <3>7. QED
      BY <2>2, <3>2, <3>3, <3>6 DEF RequestOk
  <2>3. QED
    BY <2>1, <2>2
<1>4. JobsOk'
  BY <1>1, JobsKept DEF workerVars, Stages
<1>5. ThreadsOk'
  BY <1>1 DEF PathInv, ThreadsOk, workerVars
<1>6. QED
  BY <1>2, <1>3, <1>4, <1>5 DEF PathInv

-----------------------------------------------------------------------------
(* The steps of the probes and of the workers' threads *)

LEMMA ProbeStepKeeps ==
  ASSUME PathInv, NEW r \in Requests, NEW w \in Workers,
         StartProbe(r, w) \/ ProbeTimesOut(r, w)
  PROVE  PathInv'
<1>1. PICK x : probe' = [probe EXCEPT ![r][w] = x]
  BY DEF StartProbe, ProbeTimesOut, Deliver
<1>2. /\ probe[r][w].at \notin {"none", "done"}
      /\ UNCHANGED <<ask, stage, admitted, visible, plan, planned, workerVars, answer, live>>
  BY DEF StartProbe, ProbeTimesOut
<1>3. Shapes'
  BY <1>1, <1>2 DEF PathInv, Shapes, workerVars
<1>4. \A q \in Requests : RequestOk(q)'
  BY <1>1, <1>2, ProbeMoves
<1>5. JobsOk' /\ ThreadsOk'
  BY <1>2 DEF PathInv, JobsOk, Serves, ThreadsOk, workerVars
<1>6. QED
  BY <1>3, <1>4, <1>5 DEF PathInv

\* A step of a worker's thread that is in no request's way.
LEMMA ThreadMoves ==
  ASSUME PathInv, NEW w \in Workers, NEW to \in {"down", "up", "parked"},
         conn[w] \notin {"sent", "body"},
         conn' = [conn EXCEPT ![w] = to],
         DOMAIN registry' = Workers, DOMAIN polled' = Workers,
         \A v \in Workers \ {w} : polled'[v] = polled[v],
         IF to = "parked" THEN \E p \in Profiles[w] : polled'[w] \in {p, [p EXCEPT !.tags = {}]}
                          ELSE polled'[w] = None,
         UNCHANGED <<clientVars, stage, job, relay, probe, answer>>
  PROVE  PathInv'
<1>1. Shapes'
  BY DEF PathInv, Shapes, clientVars
<1>2. \A q \in Requests : RequestOk(q)'
  BY RequestKept DEF PathInv, clientVars
<1>3. JobsOk'
  <2>1. \A v \in Workers : conn'[v] \in {"sent", "body"} <=> conn[v] \in {"sent", "body"}
    BY DEF PathInv, Shapes
  <2>2. \A v \in Workers : job[v] # None /\ Serves(v) => Serves(v)'
    BY DEF Serves, clientVars, PathInv, JobsOk, Shapes
  <2>3. QED
    BY <2>1, <2>2 DEF PathInv, JobsOk
<1>4. ThreadsOk'
  BY DEF PathInv, Shapes, ThreadsOk
<1>5. QED
  BY <1>1, <1>2, <1>3, <1>4 DEF PathInv

LEMMA IdleKeeps ==
  ASSUME PathInv, NEW w \in Workers, Register(w) \/ Poll(w) \/ Pong(w) \/ Disconnect(w)
  PROVE  PathInv'
<1>1. CASE Register(w)
  BY <1>1, ThreadMoves DEF Register, PathInv, Shapes, ThreadsOk
<1>2. CASE Poll(w)
  <2>1. PICK p \in Profiles[w] :
          /\ DOMAIN registry' = DOMAIN registry
          /\ polled' = [polled EXCEPT ![w] =
                          [p EXCEPT !.tags = IF registry[w] = None THEN {} ELSE @]]
    <3>1. PICK p \in Profiles[w] :
            /\ registry' = IF registry[w] = None THEN registry
                            ELSE [registry EXCEPT ![w].backend = p.backend, ![w].tags = p.tags,
                                                  ![w].phase = "Polling"]
            /\ polled' = [polled EXCEPT ![w] =
                            [p EXCEPT !.tags = IF registry[w] = None THEN {} ELSE @]]
      BY <1>2 DEF Poll
    <3>2. QED
      BY <3>1
  <2>2. p = [backend |-> p.backend, tags |-> p.tags]
    BY PathAssumption
  <2>3. [p EXCEPT !.tags = IF registry[w] = None THEN {} ELSE @] \in {p, [p EXCEPT !.tags = {}]}
    BY <2>2
  <2>4. /\ DOMAIN registry' = Workers /\ DOMAIN polled' = Workers
        /\ \A v \in Workers \ {w} : polled'[v] = polled[v]
        /\ polled'[w] \in {p, [p EXCEPT !.tags = {}]}
    BY <2>1, <2>3 DEF PathInv, Shapes
  <2>5. /\ conn[w] = "up" /\ conn' = [conn EXCEPT ![w] = "parked"]
        /\ UNCHANGED <<clientVars, stage, job, relay, probe, answer>>
    BY <1>2 DEF Poll
  <2>6. QED
    BY <2>4, <2>5, ThreadMoves
<1>3. CASE Pong(w)
  BY <1>3, ThreadMoves DEF Pong, PathInv, Shapes, ThreadsOk
<1>4. CASE Disconnect(w)
  BY <1>4, ThreadMoves DEF Disconnect, PathInv, Shapes, ThreadsOk
<1>5. QED
  BY <1>1, <1>2, <1>3, <1>4

LEMMA RemoveKeeps ==
  ASSUME PathInv, NEW w \in Workers, OverseerRemove(w)
  PROVE  PathInv'
<1>1. /\ DOMAIN registry' = DOMAIN registry
      /\ UNCHANGED <<clientVars, stage, conn, polled, job, relay, probe, answer>>
  BY DEF OverseerRemove
<1>2. Shapes'
  BY <1>1 DEF PathInv, Shapes, clientVars
<1>3. \A q \in Requests : RequestOk(q)'
  BY <1>1, RequestKept DEF PathInv, clientVars
<1>4. JobsOk' /\ ThreadsOk'
  BY <1>1 DEF PathInv, JobsOk, Serves, ThreadsOk, clientVars
<1>5. QED
  BY <1>2, <1>3, <1>4 DEF PathInv

LEMMA DeleteKeeps ==
  ASSUME PathInv, NEW k \in Keys, DeleteKey(k)
  PROVE  PathInv'
<1>1. /\ live' \subseteq live
      /\ UNCHANGED <<ask, stage, admitted, visible, plan, planned, workerVars, probe, answer>>
  BY DEF DeleteKey
<1>2. Shapes'
  BY <1>1 DEF PathInv, Shapes, workerVars
<1>3. \A q \in Requests : RequestOk(q)'
  BY <1>1, RequestKept DEF PathInv
<1>4. JobsOk' /\ ThreadsOk'
  BY <1>1 DEF PathInv, JobsOk, Serves, ThreadsOk, workerVars
<1>5. QED
  BY <1>2, <1>3, <1>4 DEF PathInv

\* What a worker's thread takes: a request queued for it, or a probe of it.
LEMMA WorkIs ==
  ASSUME PathInv, NEW w \in Workers, NEW r \in Work(w)
  PROVE  /\ r \in Requests
         /\ plan[r].to = "probe" => probe[r][w].at = "queued" /\ stage[r] \in {"probing", "ended"}
         /\ plan[r].to # "probe" =>
              /\ stage[r] = "queued"
              /\ \/ plan[r] = ByNode(w)
                 \/ /\ plan[r].to = "model"
                    /\ plan[r].model \in polled[w].tags
                    /\ polled[w].backend \in CompatibleWith(plan[r].kind)
<1>1. \/ r \in Requests /\ stage[r] = "queued" /\ plan[r] = ByNode(w)
      \/ r \in Requests /\ probe[r][w].at = "queued"
      \/ /\ r \in Requests /\ stage[r] = "queued" /\ plan[r].to = "model"
         /\ plan[r].model \in polled[w].tags
         /\ polled[w].backend \in CompatibleWith(plan[r].kind)
  BY DEF Work, NodeWork, ModelWork
<1>2. probe[r][w].at = "queued" => stage[r] \in {"probing", "ended"} /\ plan[r].to = "probe"
  BY <1>1 DEF PathInv, RequestOk, ProbesOk
<1>3. stage[r] = "queued" => plan[r].to # "probe"
  BY <1>1 DEF PathInv, RequestOk, KnownOk, Known
<1>4. QED
  BY <1>1, <1>2, <1>3

LEMMA TakeKeeps ==
  ASSUME PathInv, NEW w \in Workers, Take(w)
  PROVE  PathInv'
<1>1. PICK r \in Work(w) :
        /\ job' = [job EXCEPT ![w] = r]
        /\ IF plan[r].to = "probe"
             THEN probe' = [probe EXCEPT ![r][w] = At("taken")] /\ UNCHANGED stage
             ELSE stage' = [stage EXCEPT ![r] = "taken"] /\ UNCHANGED probe
  BY DEF Take
<1>2. /\ conn[w] = "parked" /\ conn' = [conn EXCEPT ![w] = "sent"]
      /\ DOMAIN registry' = DOMAIN registry
      /\ UNCHANGED <<clientVars, polled, relay, answer>>
  BY DEF Take, Phase
<1>3. /\ r \in Requests
      /\ plan[r].to = "probe" => probe[r][w].at = "queued" /\ stage[r] \in {"probing", "ended"}
      /\ plan[r].to # "probe" => stage[r] = "queued"
  BY WorkIs
<1>4. Shapes'
  BY <1>1, <1>2, <1>3 DEF PathInv, Shapes, Stages, clientVars
<1>5. \A q \in Requests : RequestOk(q)'
  <2>1. CASE plan[r].to = "probe"
    BY <1>1, <1>2, <1>3, <2>1, ProbeMoves DEF clientVars
  <2>2. CASE plan[r].to # "probe"
    BY <1>1, <1>2, <1>3, <2>2, RequestMoves DEF clientVars
  <2>3. QED
    BY <2>1, <2>2
<1>6. /\ job[w] = None /\ job'[w] = r /\ conn'[w] = "sent"
      /\ \A v \in Workers \ {w} : job'[v] = job[v] /\ conn'[v] = conn[v]
      /\ plan' = plan
      /\ \A q \in Requests : stage'[q] = IF q = r /\ plan[r].to # "probe" THEN "taken" ELSE stage[q]
  BY <1>1, <1>2, <1>3 DEF PathInv, Shapes, JobsOk, clientVars
<1>7. /\ JobsOk /\ job \in [Workers -> Requests \cup {None}] /\ r # None
  BY <1>3, PathAssumption DEF PathInv, Shapes
<1>8. JobsOk'
  <2>1. \A v \in Workers : (job[v] # None <=> conn[v] \in {"sent", "body"})'
    BY <1>6, <1>7 DEF JobsOk
  <2>2. ASSUME NEW v \in Workers, job'[v] # None PROVE Serves(v)'
    <3>1. CASE v = w
      BY <1>3, <1>6, <3>1 DEF Serves
    <3>2. CASE v # w
      BY <1>3, <1>6, <1>7, <2>2, <3>2 DEF JobsOk, Serves
    <3>3. QED
      BY <3>1, <3>2
  <2>3. ASSUME NEW u \in Workers, NEW v \in Workers, job'[u] = job'[v], job'[v] # None,
               stage'[job'[v]] = "taken"
        PROVE  u = v
    <3>1. ASSUME NEW x \in Workers, x # w, job[x] = r PROVE plan[r].to = "probe"
      BY <1>3, <1>7, <3>1 DEF JobsOk, Serves
    <3>2. CASE u = w \/ v = w
      BY <1>3, <1>6, <2>3, <3>1, <3>2
    <3>3. CASE u # w /\ v # w
      BY <1>3, <1>6, <1>7, <2>3, <3>1, <3>3 DEF JobsOk
    <3>4. QED
      BY <3>2, <3>3
  <2>4. ASSUME NEW q \in Requests, stage'[q] = "taken" PROVE \E v \in Workers : job'[v] = q
    BY <1>6, <1>7, <2>4, PathAssumption DEF JobsOk
  <2>5. QED
    BY <2>1, <2>2, <2>3, <2>4 DEF JobsOk
<1>9. ThreadsOk'
  BY <1>2 DEF PathInv, Shapes, ThreadsOk
<1>10. QED
  BY <1>4, <1>5, <1>8, <1>9 DEF PathInv

\* The job of a thread, by what IsProbe says of it.
LEMMA JobIs ==
  ASSUME PathInv, NEW w \in Workers, conn[w] \in {"sent", "body"}
  PROVE  /\ job[w] \in Requests
         /\ ~ IsProbe(w) => stage[job[w]] = "taken"
         /\ IsProbe(w) => /\ conn[w] = "sent"
                          /\ stage[job[w]] \in {"probing", "ended"}
                          /\ plan[job[w]].to = "probe"
<1>1. job[w] # None /\ job[w] \in Requests /\ Serves(w)
  BY DEF PathInv, Shapes, JobsOk
<1>2. stage[job[w]] = "taken" => plan[job[w]].to # "probe"
  BY <1>1 DEF PathInv, RequestOk, KnownOk, Known
<1>3. QED
  BY <1>1, <1>2 DEF Serves, IsProbe

\* The thread leaves handle_poll, with its request served or failed.
LEMMA ThreadLeaves ==
  ASSUME PathInv, NEW w \in Workers, conn[w] \in {"sent", "body"},
         NEW to \in {"up", "down"}, LeavePoll(w, to),
         \/ IsProbe(w) /\ UNCHANGED stage
         \/ /\ ~ IsProbe(w)
            /\ \E s \in {"served", "ended"} : stage' = [stage EXCEPT ![job[w]] = s],
         plan' = plan
  PROVE  JobsOk' /\ ThreadsOk'
<1>1. /\ conn' = [conn EXCEPT ![w] = to]
      /\ polled' = [polled EXCEPT ![w] = None]
      /\ job' = [job EXCEPT ![w] = None]
      /\ relay' = [relay EXCEPT ![w] = None]
  BY DEF LeavePoll
<1> DEFINE r == job[w]
<1>2. /\ r \in Requests /\ r # None
      /\ ~ IsProbe(w) => stage[r] = "taken"
      /\ IsProbe(w) => stage[r] \in {"probing", "ended"}
  BY JobIs, PathAssumption
<1>3. /\ job'[w] = None /\ conn'[w] = to
      /\ \A v \in Workers \ {w} : job'[v] = job[v] /\ conn'[v] = conn[v]
      /\ \A q \in Requests \ {r} : stage'[q] = stage[q]
      /\ stage'[r] # "taken"
      /\ IsProbe(w) => stage' = stage
  BY <1>1, <1>2 DEF PathInv, Shapes
<1>4. JobsOk /\ job \in [Workers -> Requests \cup {None}]
  BY DEF PathInv, Shapes
<1>5. ASSUME NEW v \in Workers, v # w, job[v] = r
      PROVE  /\ stage'[r] = stage[r]
             /\ stage[r] # "taken"
  <2>1. stage[r] # "taken"
    BY <1>2, <1>4, <1>5 DEF JobsOk
  <2>2. QED
    BY <1>2, <1>3, <2>1
<1>6. JobsOk'
  <2>1. \A v \in Workers : (job[v] # None <=> conn[v] \in {"sent", "body"})'
    BY <1>3, <1>4 DEF JobsOk
  <2>2. ASSUME NEW v \in Workers, job'[v] # None PROVE Serves(v)'
    <3>1. v # w /\ job'[v] = job[v] /\ conn'[v] = conn[v] /\ job[v] \in Requests /\ Serves(v)
      BY <1>3, <1>4, <2>2 DEF JobsOk
    <3>2. stage'[job[v]] = stage[job[v]]
      BY <1>3, <1>5, <3>1
    <3>3. QED
      BY <3>1, <3>2 DEF Serves
  <2>3. \A u, v \in Workers :
          job'[u] = job'[v] /\ job'[v] # None /\ stage'[job'[v]] = "taken" => u = v
    BY <1>3, <1>4 DEF JobsOk
  <2>4. ASSUME NEW q \in Requests, stage'[q] = "taken" PROVE \E v \in Workers : job'[v] = q
    BY <1>3, <1>4, <2>4 DEF JobsOk
  <2>5. QED
    BY <2>1, <2>2, <2>3, <2>4 DEF JobsOk
<1>7. ThreadsOk'
  BY <1>1 DEF PathInv, Shapes, ThreadsOk
<1>8. QED
  BY <1>6, <1>7

LEMMA RelayHeadKeeps ==
  ASSUME PathInv, NEW w \in Workers, RelayHead(w)
  PROVE  PathInv'
<1>1. PICK reply \in Replies :
        /\ relay' = [relay EXCEPT ![w] =
                       [rest |-> reply.body, scan |-> EmptyScan, reply |-> reply]]
        /\ answer' = [answer EXCEPT ![job[w]] = Got(reply.status)]
  BY DEF RelayHead
<1>2. /\ conn[w] = "sent" /\ ~ IsProbe(w) /\ conn' = [conn EXCEPT ![w] = "body"]
      /\ UNCHANGED <<clientVars, stage, registry, polled, job, probe>>
  BY DEF RelayHead
<1>3. job[w] \in Requests /\ stage[job[w]] = "taken"
  BY <1>2, JobIs
<1>4. Shapes'
  BY <1>1, <1>2 DEF PathInv, Shapes, clientVars
<1>5. ASSUME NEW q \in Requests PROVE RequestOk(q)'
  <2>1. stage[q] = "ended" => answer'[q] = answer[q]
    BY <1>1, <1>3 DEF PathInv, Shapes
  <2>2. QED
    BY <1>2, <2>1, RequestKept DEF PathInv, clientVars
<1>6. JobsOk'
  <2>1. \A v \in Workers : conn'[v] \in {"sent", "body"} <=> conn[v] \in {"sent", "body"}
    BY <1>2 DEF PathInv, Shapes
  <2>2. \A v \in Workers : job[v] # None /\ Serves(v) => Serves(v)'
    BY <1>2, <1>3 DEF Serves, clientVars, PathInv, Shapes
  <2>3. QED
    BY <1>2, <2>1, <2>2 DEF PathInv, JobsOk
<1>7. ThreadsOk'
  BY <1>1, <1>2 DEF PathInv, Shapes, ThreadsOk
<1>8. QED
  BY <1>4, <1>5, <1>6, <1>7 DEF PathInv

LEMMA RelayChunkKeeps ==
  ASSUME PathInv, NEW w \in Workers, RelayChunk(w)
  PROVE  PathInv'
<1>1. PICK n \in 1..Len(relay[w].rest) :
        relay' = [relay EXCEPT
          ![w].scan = Push(@, SubSeq(relay[w].rest, 1, n)),
          ![w].rest = SubSeq(@, n + 1, Len(@))]
  BY DEF RelayChunk
<1>2. /\ conn[w] = "body"
      /\ UNCHANGED <<clientVars, stage, registry, conn, polled, job, probe, answer>>
  BY DEF RelayChunk
<1>3. /\ DOMAIN relay' = Workers
      /\ \A v \in Workers \ {w} : relay'[v] = relay[v]
      /\ DOMAIN relay'[w] = DOMAIN relay[w]
  BY <1>1 DEF PathInv, Shapes
<1>4. relay'[w].reply = relay[w].reply
  <2>1. DOMAIN relay[w] = {"rest", "scan", "reply"}
    BY <1>2 DEF PathInv, ThreadsOk
  <2>2. QED
    BY <1>1, <2>1 DEF PathInv, Shapes
<1>5. Shapes'
  BY <1>2, <1>3 DEF PathInv, Shapes, clientVars
<1>6. \A q \in Requests : RequestOk(q)'
  BY <1>2, RequestKept DEF PathInv, clientVars
<1>7. JobsOk'
  BY <1>2 DEF PathInv, JobsOk, Serves, clientVars
<1>8. ThreadsOk'
  BY <1>2, <1>3, <1>4 DEF PathInv, ThreadsOk
<1>9. QED
  BY <1>5, <1>6, <1>7, <1>8 DEF PathInv

LEMMA ServedKeeps ==
  ASSUME PathInv, NEW w \in Workers, FinishRelay(w) \/ EmptyStatusLine(w)
  PROVE  PathInv'
<1>1. /\ conn[w] \in {"sent", "body"} /\ ~ IsProbe(w)
      /\ stage' = [stage EXCEPT ![job[w]] = "served"]
      /\ LeavePoll(w, "up")
      /\ DOMAIN registry' = DOMAIN registry
      /\ UNCHANGED <<clientVars, probe>>
  BY JobIs DEF FinishRelay, EmptyStatusLine, Served, Phase
<1>2. job[w] \in Requests /\ stage[job[w]] = "taken"
  BY <1>1, JobIs
<1>3. /\ DOMAIN answer' = DOMAIN answer
      /\ \A q \in Requests \ {job[w]} : answer'[q] = answer[q]
  BY <1>2 DEF FinishRelay, EmptyStatusLine, PathInv, Shapes
<1>4. Shapes'
  BY <1>1, <1>2, <1>3 DEF PathInv, Shapes, Stages, clientVars, LeavePoll
<1>5. \A q \in Requests : RequestOk(q)'
  BY <1>1, <1>2, <1>3, RequestMoves DEF clientVars
<1>6. JobsOk' /\ ThreadsOk'
  BY <1>1, ThreadLeaves DEF clientVars
<1>7. QED
  BY <1>4, <1>5, <1>6 DEF PathInv

LEMMA AnswerProbeKeeps ==
  ASSUME PathInv, NEW w \in Workers, AnswerProbe(w)
  PROVE  PathInv'
<1>1. /\ conn[w] = "sent" /\ IsProbe(w) /\ LeavePoll(w, "up")
      /\ DOMAIN registry' = DOMAIN registry
      /\ UNCHANGED <<clientVars, stage, answer>>
  BY DEF AnswerProbe
<1>2. job[w] \in Requests
  BY <1>1, JobIs
<1>3. \/ UNCHANGED probe
      \/ /\ probe[job[w]][w].at = "taken"
         /\ \E x : probe' = [probe EXCEPT ![job[w]][w] = x]
  BY DEF AnswerProbe, Deliver
<1>4. Shapes'
  BY <1>1, <1>2, <1>3 DEF PathInv, Shapes, clientVars, LeavePoll
<1>5. \A q \in Requests : RequestOk(q)'
  <2>1. CASE UNCHANGED probe
    BY <1>1, <2>1, RequestKept DEF PathInv, clientVars
  <2>2. CASE ~ UNCHANGED probe
    <3>1. PICK x : probe' = [probe EXCEPT ![job[w]][w] = x]
      BY <1>3, <2>2
    <3>2. probe[job[w]][w].at \notin {"none", "done"}
      BY <1>3, <2>2
    <3>3. QED
      BY <1>1, <1>2, <3>1, <3>2, ProbeMoves DEF clientVars
  <2>3. QED
    BY <2>1, <2>2
<1>6. JobsOk' /\ ThreadsOk'
  BY <1>1, ThreadLeaves DEF clientVars
<1>7. QED
  BY <1>4, <1>5, <1>6 DEF PathInv

LEMMA JobFailsKeeps ==
  ASSUME PathInv, NEW w \in Workers, JobFails(w)
  PROVE  PathInv'
<1>1. /\ conn[w] \in {"sent", "body"} /\ LeavePoll(w, "down")
      /\ UNCHANGED <<clientVars, registry>>
  BY DEF JobFails
<1>2. /\ job[w] \in Requests
      /\ ~ IsProbe(w) => stage[job[w]] = "taken"
  BY <1>1, JobIs
<1>3. CASE IsProbe(w)
  <2>1. /\ UNCHANGED <<stage, answer>>
        /\ \/ UNCHANGED probe
           \/ /\ probe[job[w]][w].at = "taken"
              /\ \E x : probe' = [probe EXCEPT ![job[w]][w] = x]
    BY <1>3 DEF JobFails, Deliver
  <2>2. Shapes'
    BY <1>1, <1>2, <2>1 DEF PathInv, Shapes, clientVars, LeavePoll
  <2>3. \A q \in Requests : RequestOk(q)'
    <3>1. CASE UNCHANGED probe
      BY <1>1, <2>1, <3>1, RequestKept DEF PathInv, clientVars
    <3>2. CASE ~ UNCHANGED probe
      <4>1. PICK x : probe' = [probe EXCEPT ![job[w]][w] = x]
        BY <2>1, <3>2
      <4>2. probe[job[w]][w].at \notin {"none", "done"}
        BY <2>1, <3>2
      <4>3. QED
        BY <1>1, <1>2, <2>1, <4>1, <4>2, ProbeMoves DEF clientVars
    <3>3. QED
      BY <3>1, <3>2
  <2>4. JobsOk' /\ ThreadsOk'
    BY <1>1, <1>3, <2>1, ThreadLeaves DEF clientVars
  <2>5. QED
    BY <2>2, <2>3, <2>4 DEF PathInv
<1>4. CASE ~ IsProbe(w)
  <2>1. /\ stage' = [stage EXCEPT ![job[w]] = "ended"]
        /\ answer' = [answer EXCEPT ![job[w]] = answer[job[w]]]
        /\ UNCHANGED probe
    BY <1>4 DEF JobFails, End
  <2>2. Shapes'
    BY <1>1, <1>2, <2>1 DEF PathInv, Shapes, Stages, clientVars, LeavePoll
  <2>3. \A q \in Requests : RequestOk(q)'
    <3>1. \A q \in Requests \ {job[w]} : answer'[q] = answer[q]
      BY <2>1 DEF PathInv, Shapes
    <3>2. QED
      BY <1>1, <1>2, <1>4, <2>1, <3>1, RequestMoves DEF clientVars
  <2>4. JobsOk' /\ ThreadsOk'
    BY <1>1, <1>4, <2>1, ThreadLeaves DEF clientVars
  <2>5. QED
    BY <2>2, <2>3, <2>4 DEF PathInv
<1>5. QED
  BY <1>3, <1>4

LEMMA PathInvStep == PathInv /\ [Next]_vars => PathInv'
<1> SUFFICES ASSUME PathInv, [Next]_vars PROVE PathInv'
  OBVIOUS
<1>1. CASE UNCHANGED vars
  <2>1. Shapes' /\ JobsOk' /\ ThreadsOk'
    BY <1>1 DEF vars, PathInv, Shapes, JobsOk, Serves, ThreadsOk
  <2>2. \A q \in Requests : RequestOk(q)'
    BY <1>1, RequestKept DEF PathInv, vars
  <2>3. QED
    BY <2>1, <2>2 DEF PathInv
<1>2. ASSUME NEW r \in Requests, ReadRequest(r) \/ Proceed(r) \/ ExpireQueued(r)
      PROVE  PathInv'
  BY <1>2, ReadKeeps, AuthorizeKeeps, PlanKeeps, AnswerListKeeps, ExpireKeeps DEF Proceed
<1>3. ASSUME NEW w \in Workers, Relay(w)
      PROVE  PathInv'
  BY <1>3, RelayHeadKeeps, RelayChunkKeeps, ServedKeeps, AnswerProbeKeeps, JobFailsKeeps
  DEF Relay
<1>4. ASSUME NEW w \in Workers,
             \/ Register(w) \/ Poll(w) \/ Take(w) \/ Pong(w)
             \/ Disconnect(w) \/ OverseerRemove(w)
      PROVE  PathInv'
  BY <1>4, IdleKeeps, TakeKeeps, RemoveKeeps
<1>5. QED
  BY <1>1, <1>2, <1>3, <1>4, ProbeStepKeeps, DeleteKeeps DEF Next

LEMMA PathInvHolds == Spec => []PathInv
<1>1. QED
  BY PathInvInit, PathInvStep, PTL DEF Spec

-----------------------------------------------------------------------------
(* The theorems *)

\* A request is passed on by a worker's thread exactly while it is taken, its plan
\* is set once it is planned, and a thread keeps nothing of a request it has left
\* (servers/worker/server.rs, handle_poll).
THEOREM PathTypes == Spec => []TypeOK
<1>1. PathInv => TypeOK
  <2> SUFFICES ASSUME PathInv PROVE TypeOK
    OBVIOUS
  <2>1. ASSUME NEW r \in Requests
        PROVE  /\ ask[r] # None => ask[r].route \in Routes
               /\ stage[r] \in {"new", "read", "authorized"} => plan[r] = None
               /\ stage[r] = "probing" => plan[r].to = "probe"
               /\ stage[r] \in {"queued", "taken", "served"} => plan[r].to \in {"model", "node"}
    BY PathAssumption DEF PathInv, RequestOk, KnownOk, Known, AllAsks
  <2>2. ASSUME NEW r \in Requests
        PROVE  stage[r] = "taken" <=> \E w \in Workers : job[w] = r /\ ~ IsProbe(w)
    <3>1. ASSUME stage[r] = "taken" PROVE \E w \in Workers : job[w] = r /\ ~ IsProbe(w)
      <4>1. PICK w \in Workers : job[w] = r
        BY <3>1 DEF PathInv, JobsOk
      <4>2. plan[r].to # "probe"
        BY <2>1, <3>1
      <4>3. QED
        BY <4>1, <4>2 DEF IsProbe
    <3>2. ASSUME NEW w \in Workers, job[w] = r, ~ IsProbe(w) PROVE stage[r] = "taken"
      <4>1. conn[w] \in {"sent", "body"}
        BY <3>2, PathAssumption DEF PathInv, JobsOk
      <4>2. QED
        BY <3>2, <4>1, JobIs
    <3>3. QED
      BY <3>1, <3>2
  <2>3. QED
    BY <2>1, <2>2 DEF PathInv, Shapes, JobsOk, ThreadsOk, TypeOK
<1>2. QED
  BY <1>1, PathInvHolds, PTL

\* What the refusals of authorize_request leave: a model the key's policy allows, and
\* an administrator where a node is named or a route is an administrator's
\* (auth/policy.rs and servers/proxy/admission.rs).
LEMMA PassedPolicy ==
  ASSUME NEW a, NEW k \in Keys \cup {None},
         Refusal(a, RecordOf(k), UserAuthentication) = None
  PROVE  /\ k # None /\ RequestModel(a) # None => AllowsModel(KeyRecord[k], RequestModel(a))
         /\ a.node # None \/ a.route \in AdminOnly => k # None /\ KeyRecord[k].role = "Admin"
<1>1. k # None => RecordOf(k) = KeyRecord[k] /\ RecordOf(k) # None
  BY PathAssumption DEF RecordOf
<1>2. k = None => RecordOf(k) = None
  BY DEF RecordOf
<1>3. None \notin {401, 403}
  BY PathAssumption
<1>4. QED
  BY <1>1, <1>2, <1>3 DEF Refusal

\* A request that is queued, taken or served is one its key's policy and role admit,
\* however its worker was found: for the model its route is about, for the model its
\* usage is recorded under, and for the node or the administrative route it asks for.
\* The tables of admission and of the planner are separate in the code
\* (servers/proxy/admission.rs and planner.rs): that the one covers the other is
\* TablesAgree and AdmissionReads.
THEOREM EveryPathWithinPolicy == Spec => []WithinPolicy
<1>1. PathInv => WithinPolicy
  <2> SUFFICES ASSUME PathInv,
                      NEW r \in Requests, stage[r] \in {"queued", "taken", "served"}
               PROVE  /\ admitted[r] # None =>
                           \A m \in {Concerned(ask[r]), ContextModel(r)} \ {None} :
                             AllowsModel(KeyRecord[admitted[r]], m)
                      /\ ask[r].node # None \/ ask[r].route \in Administrative =>
                           admitted[r] # None /\ KeyRecord[admitted[r]].role = "Admin"
    BY DEF WithinPolicy
  <2>1. /\ Refusal(ask[r], RecordOf(admitted[r]), UserAuthentication) = None
        /\ plan[r].to = "model" => FitsModel(ask[r], plan[r])
        /\ admitted[r] \in Keys \cup {None}
    BY DEF PathInv, Shapes, RequestOk, KnownOk, Known
  <2>2. /\ admitted[r] # None /\ RequestModel(ask[r]) # None =>
             AllowsModel(KeyRecord[admitted[r]], RequestModel(ask[r]))
        /\ ask[r].node # None \/ ask[r].route \in AdminOnly =>
             admitted[r] # None /\ KeyRecord[admitted[r]].role = "Admin"
    BY <2>1, PassedPolicy
  <2>3. ask[r].route \in ModelChecked => RequestModel(ask[r]) = ask[r].model
    BY DEF RequestModel, ModelChecked
  <2>4. ASSUME ContextModel(r) # None
        PROVE  ask[r].route \in ModelChecked /\ ContextModel(r) = ask[r].model
    <3>1. CASE plan[r].to = "model"
      BY <2>1, <3>1, TablesAgree DEF ContextModel, FitsModel, Inference
    <3>2. CASE plan[r].to # "model"
      BY <2>4, <3>2, TablesAgree DEF ContextModel, UsageModel
    <3>3. QED
      BY <3>1, <3>2
  <2>5. \A m \in {Concerned(ask[r]), ContextModel(r)} \ {None} : RequestModel(ask[r]) = m
    BY <2>3, <2>4, AdmissionReads
  <2>6. QED
    BY <2>2, <2>5, TablesAgree
<1>2. QED
  BY <1>1, PathInvHolds, PTL

\* The list a client gets shows only names its key may use, and exactly those of the
\* answers that are ones to the list's route (servers/proxy/probe.rs), however many
\* requests share the workers' cached answers: a probe that is over keeps its answer,
\* and a key that was found twice is the same key.
THEOREM ListsShowTheVisible == Spec => []ListsFaithful
<1>1. PathInv => ListsFaithful
  <2> SUFFICES ASSUME PathInv, NEW r \in Requests,
                      stage[r] = "ended", plan[r] # None, plan[r].to = "probe"
               PROVE  LET given == {w \in plan[r].workers :
                            probe[r][w].got # None /\ probe[r][w].got.route = ask[r].route}
                      IN  /\ admitted[r] # None /\ visible[r] # None =>
                               \A m \in answer[r].names :
                                 AllowsModel(KeyRecord[admitted[r]], m)
                          /\ \A m \in answer[r].names :
                               \E w \in given : m \in probe[r][w].got.names
                          /\ \A w \in given : \A m \in probe[r][w].got.names :
                               Visible(RecordOf(visible[r]), m) => m \in answer[r].names
    BY DEF ListsFaithful
  <2> DEFINE given == {w \in plan[r].workers :
                         probe[r][w].got # None /\ probe[r][w].got.route = ask[r].route}
             answers == {probe[r][v].got : v \in plan[r].workers} \ {None}
  <2>1. /\ answer[r].names = Listed(r)
        /\ plan[r].route = ask[r].route
        /\ {admitted[r], visible[r]} \subseteq {ask[r].key, None}
        /\ {admitted[r], visible[r]} \subseteq Keys \cup {None}
    BY DEF PathInv, Shapes, RequestOk, ListOk, KnownOk, Known
  <2>2. ASSUME admitted[r] # None, visible[r] # None, NEW m \in answer[r].names
        PROVE  AllowsModel(KeyRecord[admitted[r]], m)
    <3>1. Visible(RecordOf(visible[r]), m)
      BY <2>1, <2>2 DEF Listed
    <3>2. /\ admitted[r] = visible[r]
          /\ RecordOf(visible[r]) = KeyRecord[admitted[r]]
          /\ KeyRecord[admitted[r]] # None
      BY <2>1, <2>2, PathAssumption DEF RecordOf
    <3>3. QED
      BY <3>1, <3>2 DEF Visible
  <2>3. ASSUME NEW m \in answer[r].names
        PROVE  \E w \in given : m \in probe[r][w].got.names
    <3>1. m \in UNION {b.names : b \in {c \in answers : c.route = plan[r].route}}
      BY <2>1, <2>3 DEF Listed
    <3>2. PICK b \in answers : b.route = plan[r].route /\ m \in b.names
      BY <3>1
    <3>3. PICK w \in plan[r].workers : b = probe[r][w].got
      OBVIOUS
    <3>4. QED
      BY <2>1, <3>2, <3>3
  <2>4. ASSUME NEW w \in given, NEW m \in probe[r][w].got.names, Visible(RecordOf(visible[r]), m)
        PROVE  m \in answer[r].names
    <3>1. probe[r][w].got \in {b \in answers : b.route = plan[r].route}
      BY <2>1, <2>4
    <3>2. m \in UNION {b.names : b \in {c \in answers : c.route = plan[r].route}}
      BY <2>4, <3>1
    <3>3. m \in Listed(r)
      BY <2>4, <3>2 DEF Listed
    <3>4. QED
      BY <2>1, <3>3
  <2>5. QED
    BY <2>2, <2>3, <2>4
<1>2. QED
  BY <1>1, PathInvHolds, PTL

\* A worker with the model and a backend a plan asks for can serve its request.
LEMMA ModelServes ==
  ASSUME NEW a, NEW p, NEW entry, FitsModel(a, p),
         p.model \in entry.tags, entry.backend \in CompatibleWith(p.kind)
  PROVE  Needs(a, entry)
<1>1. /\ a.route \in Inference
      /\ a.route \notin VllmAny \cup ResponseState
      /\ a.route \notin OllamaAdmin \cup {"POST /api/show", "GET /model"}
  BY TablesDisjoint DEF FitsModel, Inference
<1>2. a.model \in entry.tags
  BY DEF FitsModel
<1>3. a.route \in OllamaInference => entry.backend \in Ollama
  BY TablesDisjoint DEF FitsModel, CompatibleWith
<1>4. a.route \in VllmInference => entry.backend = "Vllm"
  BY TablesDisjoint DEF FitsModel, CompatibleWith
<1>5. a.route \in SystemOneEval => entry.backend = "SystemOne"
  BY TablesDisjoint DEF FitsModel, CompatibleWith
<1>6. a.route \notin {"POST /api/push", "DELETE /api/delete", "POST /api/create", "POST /api/copy"}
  BY <1>1 DEF OllamaAdmin
<1>7. QED
  BY <1>1, <1>2, <1>3, <1>4, <1>5, <1>6 DEF Needs

\* Only Take gives a thread a job.
LEMMA OnlyTakeGivesJobs ==
  ASSUME PathInv, Next, NEW r \in Requests, NEW w \in Workers, job[w] = None, job'[w] = r
  PROVE  \E v \in Workers : Take(v)
<1>1. r # None /\ w \in DOMAIN job
  BY PathAssumption DEF PathInv, Shapes
<1>2. ASSUME NEW v \in Workers, NEW to, LeavePoll(v, to) PROVE FALSE
  BY <1>1, <1>2 DEF LeavePoll
<1>3. job' # job
  BY <1>1
<1>4. ASSUME NEW q \in Requests, ReadRequest(q) \/ Proceed(q) \/ ExpireQueued(q)
      PROVE  FALSE
  BY <1>3, <1>4
  DEF ReadRequest, Proceed, AuthorizeRequest, PlanRequest, AnswerList, ExpireQueued, workerVars
<1>5. ASSUME NEW q \in Requests, NEW v \in Workers, StartProbe(q, v) \/ ProbeTimesOut(q, v)
      PROVE  FALSE
  BY <1>3, <1>5 DEF StartProbe, ProbeTimesOut, workerVars
<1>6. ASSUME NEW v \in Workers,
             Register(v) \/ Poll(v) \/ Pong(v) \/ Disconnect(v) \/ OverseerRemove(v)
      PROVE  FALSE
  BY <1>3, <1>6 DEF Register, Poll, Pong, Disconnect, OverseerRemove
<1>7. ASSUME NEW v \in Workers, Relay(v) PROVE FALSE
  <2>1. RelayHead(v) \/ RelayChunk(v) => job' = job
    BY DEF RelayHead, RelayChunk
  <2>2. FinishRelay(v) \/ EmptyStatusLine(v) \/ AnswerProbe(v) \/ JobFails(v) =>
          \E to \in {"up", "down"} : LeavePoll(v, to)
    BY DEF FinishRelay, EmptyStatusLine, Served, AnswerProbe, JobFails
  <2>3. QED
    BY <1>2, <1>3, <1>7, <2>1, <2>2 DEF Relay
<1>8. ASSUME NEW k \in Keys, DeleteKey(k) PROVE FALSE
  BY <1>3, <1>8 DEF DeleteKey, workerVars
<1>9. QED
  BY <1>4, <1>5, <1>6, <1>7, <1>8 DEF Next

\* The worker that takes a request has what its route needs, or was sent it by a
\* plan whose node has changed since: queued work is matched with the poll itself
\* (servers/proxy/queue.rs) and a node is chosen from the registry for what it has there
\* (servers/proxy/planner.rs).
THEOREM TheRightWorkerTakes == Spec => RightWorker
<1> DEFINE Right == \A r \in Requests, w \in Workers :
       job[w] = None /\ job'[w] = r /\ plan[r].to # "probe" /\ ask[r].node = None =>
         \/ Needs(ask[r], polled[w])
         \/ /\ plan[r].to = "node"
            /\ [backend |-> planned[r].backend, tags |-> planned[r].tags] # polled[w]
<1>1. PathInv /\ Next => Right
  <2> SUFFICES ASSUME PathInv, Next, NEW r \in Requests, NEW w \in Workers,
                      job[w] = None, job'[w] = r, plan[r].to # "probe", ask[r].node = None
               PROVE  \/ Needs(ask[r], polled[w])
                      \/ /\ plan[r].to = "node"
                         /\ [backend |-> planned[r].backend, tags |-> planned[r].tags] # polled[w]
    OBVIOUS
  <2>1. PICK v \in Workers : Take(v)
    BY OnlyTakeGivesJobs
  <2>2. PICK q \in Work(v) : job' = [job EXCEPT ![v] = q]
    BY <2>1 DEF Take
  <2>3. v = w /\ q = r
    BY <2>2, PathAssumption DEF PathInv, Shapes
  <2>4. /\ stage[r] = "queued"
        /\ \/ plan[r] = ByNode(w)
           \/ /\ plan[r].to = "model"
              /\ plan[r].model \in polled[w].tags
              /\ polled[w].backend \in CompatibleWith(plan[r].kind)
    BY <2>2, <2>3, WorkIs
  <2>5. /\ plan[r].to = "model" => FitsModel(ask[r], plan[r])
        /\ plan[r].to = "node" => Needs(ask[r], planned[r])
    BY <2>4 DEF PathInv, RequestOk, KnownOk, Known
  <2>6. CASE plan[r] = ByNode(w)
    <3>1. plan[r].to = "node"
      BY <2>6 DEF ByNode
    <3>2. CASE [backend |-> planned[r].backend, tags |-> planned[r].tags] = polled[w]
      <4>1. planned[r].backend = polled[w].backend /\ planned[r].tags = polled[w].tags
        BY <3>2
      <4>2. QED
        BY <2>5, <3>1, <4>1 DEF Needs
    <3>3. QED
      BY <3>1, <3>2
  <2>7. CASE plan[r] # ByNode(w)
    BY <2>4, <2>5, <2>7, ModelServes
  <2>8. QED
    BY <2>6, <2>7
<1>2. PathInv /\ UNCHANGED vars => Right
  BY PathAssumption DEF PathInv, Shapes, vars
<1>3. QED
  BY <1>1, <1>2, PathInvHolds, PTL DEF Spec, RightWorker

-----------------------------------------------------------------------------
(* What is recorded of a request *)

\* Nothing is recorded before a request is served.
Unrecorded(r) ==
  stage[r] \notin {"served", "ended"} => usage[r] = <<>> /\ captures[r] = 0

RecordInv ==
  /\ DOMAIN usage = Requests
  /\ DOMAIN captures = Requests
  /\ \A r \in Requests : Unrecorded(r)

LEMMA RecordInvInit == Init => RecordInv
BY DEF Init, RecordInv, Unrecorded

\* A step that records nothing and brings no request back.
LEMMA NothingRecorded ==
  ASSUME RecordInv, UNCHANGED <<usage, captures>>,
         \A q \in Requests : stage[q] \in {"served", "ended"} => stage'[q] \in {"served", "ended"}
  PROVE  RecordInv'
BY DEF RecordInv, Unrecorded

LEMMA RecordInvStep == PathInv /\ RecordInv /\ [Next]_vars => RecordInv'
<1> SUFFICES ASSUME PathInv, RecordInv, [Next]_vars PROVE RecordInv'
  OBVIOUS
<1>0. stage \in [Requests -> Stages]
  BY DEF PathInv, Shapes
<1>1. CASE UNCHANGED vars
  BY <1>1 DEF vars, RecordInv, Unrecorded
<1>2. ASSUME NEW r \in Requests,
             ReadRequest(r) \/ Proceed(r) \/ ExpireQueued(r)
      PROVE  RecordInv'
  <2>1. /\ UNCHANGED <<usage, captures>>
        /\ stage[r] \notin {"served", "ended"}
        /\ \E s : stage' = [stage EXCEPT ![r] = s]
    BY <1>2 DEF ReadRequest, Proceed, AuthorizeRequest, PlanRequest, AnswerList, ExpireQueued, End
  <2>2. \A q \in Requests \ {r} : stage'[q] = stage[q]
    BY <1>0, <2>1
  <2>3. QED
    BY <2>1, <2>2, NothingRecorded
<1>3. ASSUME UNCHANGED <<stage, usage, captures>> PROVE RecordInv'
  BY <1>3, NothingRecorded
<1>4. ASSUME NEW r \in Requests, NEW w \in Workers, StartProbe(r, w) \/ ProbeTimesOut(r, w)
      PROVE  RecordInv'
  BY <1>3, <1>4 DEF StartProbe, ProbeTimesOut
<1>5. ASSUME NEW w \in Workers,
             \/ Register(w) \/ Poll(w) \/ Pong(w) \/ Disconnect(w) \/ OverseerRemove(w)
             \/ RelayHead(w) \/ RelayChunk(w) \/ AnswerProbe(w)
      PROVE  RecordInv'
  <2>1. UNCHANGED <<stage, usage, captures>>
    BY <1>5 DEF Register, Poll, Pong, Disconnect, OverseerRemove, RelayHead, RelayChunk,
                AnswerProbe
  <2>2. QED
    BY <1>3, <2>1
<1>6. ASSUME NEW k \in Keys, DeleteKey(k) PROVE RecordInv'
  BY <1>3, <1>6 DEF DeleteKey
<1>7. ASSUME NEW w \in Workers, Take(w) PROVE RecordInv'
  <2>1. PICK r \in Work(w) :
          IF plan[r].to = "probe" THEN UNCHANGED stage ELSE stage' = [stage EXCEPT ![r] = "taken"]
    BY <1>7 DEF Take
  <2>2. r \in Requests /\ (plan[r].to # "probe" => stage[r] = "queued")
    BY WorkIs
  <2>3. UNCHANGED <<usage, captures>>
    BY <1>7 DEF Take
  <2>4. \A q \in Requests : stage'[q] = stage[q] \/ (stage[q] = "queued" /\ stage'[q] = "taken")
    BY <1>0, <2>1, <2>2
  <2>5. QED
    BY <2>3, <2>4, NothingRecorded
<1>8. ASSUME NEW w \in Workers, JobFails(w) PROVE RecordInv'
  <2>1. /\ job[w] \in Requests /\ (~ IsProbe(w) => stage[job[w]] = "taken")
        /\ UNCHANGED <<usage, captures>>
    BY <1>8, JobIs DEF JobFails
  <2>2. stage' = stage \/ (~ IsProbe(w) /\ stage' = [stage EXCEPT ![job[w]] = "ended"])
    BY <1>8 DEF JobFails, End
  <2>3. \A q \in Requests : stage'[q] = stage[q] \/ (stage[q] = "taken" /\ stage'[q] = "ended")
    BY <1>0, <2>1, <2>2
  <2>4. QED
    BY <2>1, <2>3, NothingRecorded
<1>9. ASSUME NEW w \in Workers, FinishRelay(w) \/ EmptyStatusLine(w) PROVE RecordInv'
  <2> DEFINE r == job[w]
  <2>1. PICK status, tokens : Served(w, status, tokens)
    BY <1>9 DEF FinishRelay, EmptyStatusLine
  <2>2. stage' = [stage EXCEPT ![r] = "served"]
    BY <2>1 DEF Served
  <2>3. /\ DOMAIN usage' = Requests /\ DOMAIN captures' = Requests
        /\ \A q \in Requests \ {r} : usage'[q] = usage[q] /\ captures'[q] = captures[q]
    BY <2>1 DEF Served, RecordInv
  <2>4. \A q \in Requests : stage'[q] = IF q = r THEN "served" ELSE stage[q]
    BY <1>0, <2>2
  <2>5. \A q \in Requests : Unrecorded(q)'
    BY <2>3, <2>4 DEF RecordInv, Unrecorded
  <2>6. QED
    BY <2>3, <2>5 DEF RecordInv
<1>10. QED
  BY <1>1, <1>2, <1>4, <1>5, <1>6, <1>7, <1>8, <1>9 DEF Next, Relay

\* One event of a relayed response with a model, none of a relay that failed, and the
\* capture its key asks for (servers/worker/server.rs): whatever else happens meanwhile,
\* the request of a thread is untouched until the thread has served it.
THEOREM ResponsesRecordedOnce == Spec => RecordedOnce
<1> DEFINE Once ==
      \A w \in Workers :
        LET r == job[w]
        IN  conn[w] = "body" =>
              /\ conn'[w] = "up" /\ ask[r].route \in Inference /\ ask[r].model # None =>
                   /\ Len(usage'[r]) = 1
                   /\ usage'[r][1].model = ask[r].model
                   /\ usage'[r][1].status = relay[w].reply.status
              /\ conn'[w] = "down" => usage'[r] = <<>> /\ captures'[r] = 0
              /\ captures'[r] > 0 => captures'[r] = 1 /\ KeyRecord[ask[r].key].capture
<1>1. PathInv /\ RecordInv /\ [Next]_vars => Once
  <2> SUFFICES ASSUME PathInv, RecordInv, [Next]_vars,
                      NEW w \in Workers, conn[w] = "body"
               PROVE  /\ conn'[w] = "up" /\ ask[job[w]].route \in Inference
                            /\ ask[job[w]].model # None =>
                           /\ Len(usage'[job[w]]) = 1
                           /\ usage'[job[w]][1].model = ask[job[w]].model
                           /\ usage'[job[w]][1].status = relay[w].reply.status
                      /\ conn'[w] = "down" => usage'[job[w]] = <<>> /\ captures'[job[w]] = 0
                      /\ captures'[job[w]] > 0 =>
                           captures'[job[w]] = 1 /\ KeyRecord[ask[job[w]].key].capture
    OBVIOUS
  <2> DEFINE r == job[w]
  <2>1. /\ r \in Requests /\ stage[r] = "taken"
        /\ usage[r] = <<>> /\ captures[r] = 0
        /\ visible[r] # None => visible[r] = ask[r].key
    BY JobIs DEF RecordInv, Unrecorded, PathInv, RequestOk, KnownOk, Known
  <2>2. \A v \in Workers : job[v] = r => v = w
    BY <2>1, PathAssumption DEF PathInv, JobsOk
  <2>3. CASE FinishRelay(w)
    <3>1. PICK tokens : Served(w, relay[w].reply.status, tokens)
      BY <2>3 DEF FinishRelay
    <3>2. conn'[w] = "up"
      BY <3>1 DEF Served, LeavePoll, PathInv, Shapes
    <3>3. captures'[r] \in {0, 1} /\ (captures'[r] = 1 => KeyRecord[ask[r].key].capture)
      BY <2>1, <3>1 DEF Served, RecordInv
    <3>4. ASSUME ask[r].route \in Inference, ask[r].model # None
          PROVE  ContextModel(r) = ask[r].model
      <4>1. ask[r].route \in UsageRoutes
        BY <3>4 DEF Inference, OllamaInference, OpenAiInference, VllmInference, SystemOneEval,
                    UsageRoutes
      <4>2. plan[r].to = "model" => plan[r].model = ask[r].model
        BY <2>1 DEF PathInv, RequestOk, KnownOk, Known, FitsModel
      <4>3. QED
        BY <4>1, <4>2 DEF ContextModel, UsageModel
    <3>5. ASSUME ask[r].route \in Inference, ask[r].model # None
          PROVE  usage'[r] = Append(<<>>, [model |-> ask[r].model,
                                           status |-> relay[w].reply.status, tokens |-> tokens])
      BY <2>1, <3>1, <3>4, <3>5 DEF Served, RecordInv
    <3>6. ASSUME ask[r].route \in Inference, ask[r].model # None
          PROVE  /\ Len(usage'[r]) = 1
                 /\ usage'[r][1].model = ask[r].model
                 /\ usage'[r][1].status = relay[w].reply.status
      <4> DEFINE event == [model |-> ask[r].model, status |-> relay[w].reply.status,
                           tokens |-> tokens]
      <4>1. ASSUME NEW x PROVE Append(<<>>, x) = <<x>> /\ Len(<<x>>) = 1 /\ <<x>>[1] = x
        OBVIOUS
      <4>2. usage'[r] = Append(<<>>, event)
        BY <3>5, <3>6
      <4>3. event.model = ask[r].model /\ event.status = relay[w].reply.status
        OBVIOUS
      <4> HIDE DEF event
      <4>4. Len(usage'[r]) = 1 /\ usage'[r][1] = event
        BY <4>1, <4>2
      <4>5. QED
        BY <4>3, <4>4
    <3>7. captures'[r] > 0 => captures'[r] = 1
      BY <3>3
    <3>8. QED
      BY <3>2, <3>3, <3>6, <3>7, Zenon
  <2>4. ASSUME usage'[r] = usage[r], captures'[r] = captures[r], conn'[w] # "up"
        PROVE  /\ usage'[r] = <<>> /\ captures'[r] = 0 /\ ~ (captures'[r] > 0)
               /\ conn'[w] # "up"
    BY <2>1, <2>4
  <2>5. ASSUME UNCHANGED <<usage, captures>>, conn' = conn
        PROVE  usage'[r] = usage[r] /\ captures'[r] = captures[r] /\ conn'[w] # "up"
    BY <2>5
  <2>6. ASSUME NEW v \in Workers, v # w, NEW to, conn' = [conn EXCEPT ![v] = to]
        PROVE  conn'[w] # "up"
    BY <2>6 DEF PathInv, Shapes
  <2>7. CASE UNCHANGED vars
    <3>1. usage'[r] = usage[r] /\ captures'[r] = captures[r] /\ conn'[w] # "up"
      BY <2>5, <2>7 DEF vars
    <3>2. QED
      BY <2>4, <3>1, Zenon
  <2>8. ASSUME NEW q \in Requests, ReadRequest(q) \/ Proceed(q) \/ ExpireQueued(q)
        PROVE  UNCHANGED <<usage, captures>> /\ conn' = conn
    BY <2>8
    DEF ReadRequest, Proceed, AuthorizeRequest, PlanRequest, AnswerList, ExpireQueued, workerVars
  <2>9. ASSUME NEW q \in Requests, NEW v \in Workers, StartProbe(q, v) \/ ProbeTimesOut(q, v)
        PROVE  UNCHANGED <<usage, captures>> /\ conn' = conn
    BY <2>9 DEF StartProbe, ProbeTimesOut, workerVars
  <2>10. ASSUME NEW k \in Keys, DeleteKey(k)
         PROVE  UNCHANGED <<usage, captures>> /\ conn' = conn
    BY <2>10 DEF DeleteKey, workerVars
  <2>11. ASSUME NEW v \in Workers,
                \/ Register(v) \/ Poll(v) \/ Take(v) \/ Pong(v) \/ Disconnect(v)
                \/ OverseerRemove(v)
                \/ RelayHead(v) \/ RelayChunk(v) \/ AnswerProbe(v)
         PROVE  UNCHANGED <<usage, captures>> /\ conn'[w] # "up"
    <3>1. UNCHANGED <<usage, captures>>
      BY <2>11 DEF Register, Poll, Take, Pong, Disconnect, OverseerRemove, RelayHead,
                   RelayChunk, AnswerProbe
    <3>2. CASE OverseerRemove(v) \/ RelayChunk(v)
      BY <3>2 DEF OverseerRemove, RelayChunk
    <3>3. CASE \/ Register(v) \/ Poll(v) \/ Take(v) \/ Pong(v) \/ Disconnect(v)
               \/ RelayHead(v) \/ AnswerProbe(v)
      <4>1. v # w /\ \E to : conn' = [conn EXCEPT ![v] = to]
        BY <3>3 DEF Register, Poll, Take, Pong, Disconnect, RelayHead, AnswerProbe, LeavePoll
      <4>2. QED
        <5>1. PICK to : conn' = [conn EXCEPT ![v] = to]
          BY <4>1
        <5>2. QED
          BY <2>6, <3>1, <4>1, <5>1
    <3>4. QED
      BY <2>11, <3>1, <3>2, <3>3
  <2>12. ASSUME NEW v \in Workers, JobFails(v)
         PROVE  UNCHANGED <<usage, captures>> /\ conn'[w] # "up"
    <3>1. conn' = [conn EXCEPT ![v] = "down"]
      BY <2>12 DEF JobFails, LeavePoll
    <3>2. QED
      BY <2>12, <3>1 DEF JobFails, PathInv, Shapes
  <2>13. ASSUME NEW v \in Workers, v # w, FinishRelay(v) \/ EmptyStatusLine(v)
         PROVE  usage'[r] = usage[r] /\ captures'[r] = captures[r] /\ conn'[w] # "up"
    <3>1. PICK status, tokens : Served(v, status, tokens)
      BY <2>13 DEF FinishRelay, EmptyStatusLine
    <3>2. job[v] # r
      BY <2>2, <2>13
    <3>3. usage'[r] = usage[r] /\ captures'[r] = captures[r]
      BY <2>1, <3>1, <3>2 DEF Served, RecordInv
    <3>4. conn'[w] # "up"
      BY <2>6, <2>13, <3>1 DEF Served, LeavePoll
    <3>5. QED
      BY <3>3, <3>4
  <2>14. ~ EmptyStatusLine(w)
    BY DEF EmptyStatusLine
  <2>15. CASE Next /\ ~ FinishRelay(w)
    <3>1. usage'[r] = usage[r] /\ captures'[r] = captures[r] /\ conn'[w] # "up"
      BY <2>8, <2>9, <2>10, <2>11, <2>12, <2>13, <2>14, <2>15 DEF Next, Relay
    <3>2. QED
      BY <2>4, <3>1, Zenon
  <2>16. QED
    BY <2>3, <2>7, <2>15
<1>2. Spec => []RecordInv
  BY RecordInvInit, RecordInvStep, PathInvHolds, PTL DEF Spec
<1>3. QED
  BY <1>1, <1>2, PathInvHolds, PTL DEF Spec, RecordedOnce
=============================================================================
