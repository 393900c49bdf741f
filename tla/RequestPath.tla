----------------------------- MODULE RequestPath -----------------------------
(***************************************************************************)
(* A client request from the proxy's listener to its end: authorised,      *)
(* looked up again and planned (servers/proxy/server.rs), answered at      *)
(* once, from probes of the workers (servers/proxy/probe.rs), or queued,   *)
(* taken by a worker's poll and relayed (handle_poll and the relay of      *)
(* servers/worker/server.rs) with its usage and capture events, or expired *)
(* by the overseer.  The decisions are the operators of Routing.           *)
(*                                                                         *)
(* Each worker has one connection here: several, and who may register, are *)
(* the business of WorkerRegistry; the queue's locks that of RequestQueue; *)
(* the limiter, here a refusal that may happen, that of Admission.         *)
(***************************************************************************)
EXTENDS Routing, UsageScan, Sequences

CONSTANTS
  Requests,   \* client requests, each handled by a thread of its own
  Workers,    \* worker names
  Keys,       \* API keys
  KeyRecord,  \* key -> its role, policy and capture flag
  Asks,       \* request -> what it may ask: the inputs enumerated
  Profiles,   \* worker -> the [backend, tags] it may poll with
  Replies,    \* the responses of a worker to a forwarded request
  UserAuthentication  \* Config::user_authentication

ASSUME PathAssumption ==
  /\ None \notin Requests \cup Keys /\ None \notin Nat
  /\ \A k \in Keys : KeyRecord[k] # None
  /\ \A r \in Requests : \A a \in Asks[r] : a.route \in Routes
  /\ \A w \in Workers : \A p \in Profiles[w] : p = [backend |-> p.backend, tags |-> p.tags]

VARIABLES
  ask,        \* request -> what it asks, None before it is read
  stage,      \* request -> where its handling stands
  admitted,   \* request -> the key authorize_request verified (history)
  visible,    \* request -> the key found by the second look
  plan,       \* request -> its RoutePlan
  planned,    \* request -> the registry's entry of the node chosen (history)
  registry,   \* worker -> its entry of AppState::workers, None if it has none
  conn,       \* worker -> where its connection's thread is
  polled,     \* worker -> the backend and tags of its poll
  job,        \* worker -> the request it serves
  relay,      \* worker -> the response being relayed: rest, scan, reply
  probe,      \* request -> worker -> where its probe is, or its answer
  answer,     \* request -> the status its client got, and the names of a list
  usage,      \* request -> the usage events sent for it
  captures,   \* request -> how many capture events were sent for it
  live        \* the keys that verify accepts

vars == <<ask, stage, admitted, visible, plan, planned, registry, conn, polled,
          job, relay, probe, answer, usage, captures, live>>

Stages == {"new", "read", "authorized", "probing", "queued", "taken", "served", "ended"}

IsProbe(w) == job[w] # None /\ plan[job[w]].to = "probe"

\* A probe under way, and one that is over with the answer it got.
At(step) == [at |-> step, got |-> None]

Init ==
  /\ ask = [r \in Requests |-> None]
  /\ stage = [r \in Requests |-> "new"]
  /\ admitted = [r \in Requests |-> None]
  /\ visible = [r \in Requests |-> None]
  /\ plan = [r \in Requests |-> None]
  /\ planned = [r \in Requests |-> None]
  /\ registry = [w \in Workers |-> None]
  /\ conn = [w \in Workers |-> "down"]
  /\ polled = [w \in Workers |-> None]
  /\ job = [w \in Workers |-> None]
  /\ relay = [w \in Workers |-> None]
  /\ probe = [r \in Requests |-> [w \in Workers |-> At("none")]]
  /\ answer = [r \in Requests |-> None]
  /\ usage = [r \in Requests |-> <<>>]
  /\ captures = [r \in Requests |-> 0]
  /\ live = Keys

-----------------------------------------------------------------------------
(* The client's connection: handle_connection of the proxy *)

workerVars == <<registry, conn, polled, job, relay>>

Got(status) == [status |-> status, names |-> {}]

End(r, with) ==
  /\ stage' = [stage EXCEPT ![r] = "ended"]
  /\ answer' = [answer EXCEPT ![r] = with]

ReadRequest(r) ==
  /\ stage[r] = "new"
  /\ \E a \in Asks[r] : ask' = [ask EXCEPT ![r] = a]
  /\ stage' = [stage EXCEPT ![r] = "read"]
  /\ UNCHANGED <<admitted, visible, plan, planned, workerVars, probe, answer, usage,
                 captures, live>>

RecordOf(key) == IF key = None THEN None ELSE KeyRecord[key]

\* authorized_key: the key the request presents if it verifies, and None if it does
\* not, or if the read of the table fails (auth/keys.rs:38).
VerifiedKeys(r) == {None} \cup ({ask[r].key} \cap live)

\* authorize_request; the limiter may refuse any request with a key that is not
\* of a discovery route.
AuthorizeRequest(r) ==
  /\ stage[r] = "read"
  /\ \E key \in VerifiedKeys(r) :
       LET refusal == Refusal(ask[r], RecordOf(key), UserAuthentication)
       IN  \/ /\ refusal # None
              /\ End(r, Got(refusal))
              /\ UNCHANGED admitted
           \/ /\ refusal = None /\ key # None /\ ask[r].route \notin Discovery
              /\ End(r, Got(429))
              /\ UNCHANGED admitted
           \/ /\ refusal = None
              /\ stage' = [stage EXCEPT ![r] = "authorized"]
              /\ admitted' = [admitted EXCEPT ![r] = key]
              /\ UNCHANGED answer
  /\ UNCHANGED <<ask, visible, plan, planned, workerVars, probe, usage, captures, live>>

\* The key is looked up again, the request planned on a snapshot of the
\* registry, and the plan carried out.
PlanRequest(r) ==
  /\ stage[r] = "authorized"
  /\ \E key \in VerifiedKeys(r) :
       /\ visible' = [visible EXCEPT ![r] = key]
       /\ \E p \in Plans(ask[r], RecordOf(key), registry) :
            /\ plan' = [plan EXCEPT ![r] = p]
            /\ \/ /\ p.to \in {"local", "reject"}
                  /\ End(r, Got(p.status))
                  /\ UNCHANGED <<probe, planned>>
               \/ /\ p.to = "probe"
                  /\ stage' = [stage EXCEPT ![r] = "probing"]
                  /\ probe' = [probe EXCEPT ![r] = [w \in Workers |->
                                 At(IF w \in p.workers THEN "starting" ELSE "none")]]
                  /\ UNCHANGED <<answer, planned>>
               \/ /\ p.to \in {"model", "node"}
                  /\ stage' = [stage EXCEPT ![r] = "queued"]
                  /\ planned' = [planned EXCEPT ![r] =
                       IF p.to = "node" /\ p.node \in Workers THEN registry[p.node] ELSE None]
                  /\ UNCHANGED <<answer, probe>>
  /\ UNCHANGED <<ask, admitted, workerVars, usage, captures, live>>

\* What a mistake would look like: requests sent to a node are not recorded.
ContextModel_BugPlanOnly(r) == IF plan[r].to = "model" THEN plan[r].model ELSE None

\* RequestContext::model
ContextModel(r) == IF plan[r].to = "model" THEN plan[r].model ELSE UsageModel(ask[r])

\* What a mistake would look like: requests for a node wait for their node.
ExpireQueued_BugModelOnly(r) ==
  /\ stage[r] = "queued" /\ plan[r].to = "model"
  /\ End(r, Got(504))
  /\ UNCHANGED <<ask, admitted, visible, plan, planned, workerVars, probe, usage,
                 captures, live>>

\* The overseer answers a request that waited too long, whatever it waits for.
ExpireQueued(r) ==
  /\ stage[r] = "queued"
  /\ End(r, Got(504))
  /\ UNCHANGED <<ask, admitted, visible, plan, planned, workerVars, probe, usage,
                 captures, live>>

-----------------------------------------------------------------------------
(* Probes of the workers for the lists *)

\* The entry's slot for the answers to a route: the two model lists share one.
Slot(route) ==
  CASE route \in {"GET /api/tags", "GET /v1/models"} -> "catalog"
    [] route = "GET /api/ps"      -> "running"
    [] route = "GET /api/version" -> "version"

Cached(w, route) == IF registry[w] = None THEN None ELSE registry[w].cache[Slot(route)]

Deliver(r, w, reported) ==
  probe' = [probe EXCEPT ![r][w] = [at |-> "done", got |-> reported]]

\* A worker that is not waiting in a poll is not asked.
StartProbe(r, w) ==
  /\ probe[r][w].at = "starting"
  /\ IF registry[w] # None /\ registry[w].phase = "Polling"
       THEN probe' = [probe EXCEPT ![r][w] = At("queued")]
       ELSE Deliver(r, w, Cached(w, plan[r].route))
  /\ UNCHANGED <<ask, stage, admitted, visible, plan, planned, workerVars, answer, usage,
                 captures, live>>

\* recv_timeout: the queue drops a probe when its prober gives up, and an answer
\* that comes later finds the channel closed.
ProbeTimesOut(r, w) ==
  /\ probe[r][w].at \in {"queued", "taken"}
  /\ Deliver(r, w, Cached(w, plan[r].route))
  /\ UNCHANGED <<ask, stage, admitted, visible, plan, planned, workerVars, answer, usage,
                 captures, live>>

\* What a mistake would look like: the names of every answer, whatever it answers.
Listed_BugAnyShape(r) ==
  LET answers == {probe[r][w].got : w \in plan[r].workers} \ {None}
  IN  {m \in UNION {a.names : a \in answers} : Visible(RecordOf(visible[r]), m)}

\* The names of the answers that have the list's shape and that the key may see.
Listed(r) ==
  LET answers == {probe[r][w].got : w \in plan[r].workers} \ {None}
  IN  {m \in UNION {a.names : a \in {b \in answers : b.route = plan[r].route}} :
         Visible(RecordOf(visible[r]), m)}

AnswerList(r) ==
  /\ stage[r] = "probing"
  /\ \A w \in plan[r].workers : probe[r][w].at = "done"
  /\ End(r, [status |-> 200, names |-> Listed(r)])
  /\ UNCHANGED <<ask, admitted, visible, plan, planned, workerVars, probe, usage,
                 captures, live>>

-----------------------------------------------------------------------------
(* The worker's connection: registered, polling, and handle_poll *)

clientVars == <<ask, admitted, visible, plan, planned, live>>

\* Bound: workers are followed while a request may need one.  What they do before one
\* is read they may as well do after.
Awaited == \E r \in Requests : stage[r] \in {"read", "authorized", "probing", "queued"}

EmptyCache == [slot \in {"catalog", "running", "version"} |-> None]

\* touch_worker finds nothing if the overseer has removed the entry.
Phase(w, phase) ==
  registry' = IF registry[w] = None THEN registry ELSE [registry EXCEPT ![w].phase = phase]

\* authenticate_worker as one step: the connection counts as polling from its AUTH on.
Register(w) ==
  /\ conn[w] = "down" /\ Awaited
  /\ conn' = [conn EXCEPT ![w] = "up"]
  /\ registry' = [registry EXCEPT ![w] =
       IF @ # None THEN [@ EXCEPT !.phase = "Polling"]
       ELSE [backend |-> "Unknown", tags |-> {}, phase |-> "Polling", cache |-> EmptyCache]]
  /\ UNCHANGED <<clientVars, stage, polled, job, relay, probe, answer, usage, captures>>

\* A poll gives the node's backend and tags; one that leaves its tags as they were
\* is like one that repeats them.
Poll(w) ==
  /\ conn[w] = "up" /\ Awaited
  /\ conn' = [conn EXCEPT ![w] = "parked"]
  /\ \E p \in Profiles[w] :
       /\ registry' = IF registry[w] = None THEN registry
                       ELSE [registry EXCEPT ![w].backend = p.backend, ![w].tags = p.tags,
                                             ![w].phase = "Polling"]
       /\ polled' = [polled EXCEPT ![w] =
                       [p EXCEPT !.tags = IF registry[w] = None THEN {} ELSE @]]
  /\ UNCHANGED <<clientVars, stage, job, relay, probe, answer, usage, captures>>

\* What next_for_worker finds: work for the node first, then for its models.
NodeWork(w) ==
  {r \in Requests : \/ stage[r] = "queued" /\ plan[r] = ByNode(w)
                    \/ probe[r][w].at = "queued"}

\* What a mistake would look like: any backend that has the model.
ModelWork_BugAnyBackend(w) ==
  {r \in Requests : /\ stage[r] = "queued"
                    /\ plan[r].to = "model"
                    /\ plan[r].model \in polled[w].tags}

ModelWork(w) ==
  {r \in Requests : /\ stage[r] = "queued"
                    /\ plan[r].to = "model"
                    /\ plan[r].model \in polled[w].tags
                    /\ polled[w].backend \in CompatibleWith(plan[r].kind)}

Work(w) == IF NodeWork(w) # {} THEN NodeWork(w) ELSE ModelWork(w)

Take(w) ==
  /\ conn[w] = "parked"
  /\ \E r \in Work(w) :
       /\ job' = [job EXCEPT ![w] = r]
       /\ IF plan[r].to = "probe"
            THEN probe' = [probe EXCEPT ![r][w] = At("taken")] /\ UNCHANGED stage
            ELSE stage' = [stage EXCEPT ![r] = "taken"] /\ UNCHANGED probe
  /\ conn' = [conn EXCEPT ![w] = "sent"]
  /\ Phase(w, "Working")
  /\ UNCHANGED <<clientVars, polled, relay, answer, usage, captures>>

Pong(w) ==
  /\ conn[w] = "parked" /\ Work(w) = {} /\ Awaited
  /\ conn' = [conn EXCEPT ![w] = "up"]
  /\ polled' = [polled EXCEPT ![w] = None]
  /\ UNCHANGED <<clientVars, stage, registry, job, relay, probe, answer, usage, captures>>

\* What a mistake would look like: the thread keeps what it relayed.
LeavePoll_BugKeepsRelay(w, to) ==
  /\ conn' = [conn EXCEPT ![w] = to]
  /\ polled' = [polled EXCEPT ![w] = None]
  /\ job' = [job EXCEPT ![w] = None]
  /\ UNCHANGED relay

\* The connection leaves handle_poll: for the next frame, or for good on an error.
LeavePoll(w, to) ==
  /\ conn' = [conn EXCEPT ![w] = to]
  /\ polled' = [polled EXCEPT ![w] = None]
  /\ job' = [job EXCEPT ![w] = None]
  /\ relay' = [relay EXCEPT ![w] = None]

\* The response is relayed: a capture event if the key asks for it, a usage
\* event if the request has a model, whatever the status.
Served(w, status, tokens) ==
  LET r == job[w]
  IN  /\ stage' = [stage EXCEPT ![r] = "served"]
      /\ captures' = IF visible[r] # None /\ KeyRecord[visible[r]].capture
                        THEN [captures EXCEPT ![r] = @ + 1] ELSE captures
      /\ usage' = IF ContextModel(r) = None THEN usage
                   ELSE [usage EXCEPT ![r] = Append(@,
                           [model |-> ContextModel(r), status |-> status, tokens |-> tokens])]
      /\ LeavePoll(w, "up")
      /\ Phase(w, "Polling")
      /\ UNCHANGED <<clientVars, probe>>

\* A worker reports its usage, but in these streams only if it is asked to.
ReportsUsage(r) ==
  \/ ask[r].route \notin {"POST /v1/chat/completions", "POST /v1/completions"}
  \/ ask[r].stream \in {"off", "usage"}
  \/ AddsStreamUsage(ask[r])

RelayHead(w) ==
  /\ conn[w] = "sent" /\ ~ IsProbe(w)
  /\ \E reply \in Replies :
       /\ reply.status < 400 => (ReportsUsage(job[w]) <=> reply.reports)
       /\ relay' = [relay EXCEPT ![w] =
                      [rest |-> reply.body, scan |-> EmptyScan, reply |-> reply]]
       /\ answer' = [answer EXCEPT ![job[w]] = Got(reply.status)]
  /\ conn' = [conn EXCEPT ![w] = "body"]
  /\ UNCHANGED <<clientVars, stage, registry, polled, job, probe, usage, captures>>

\* relay_chunked_body: chunks are cut anywhere.
RelayChunk(w) ==
  /\ conn[w] = "body" /\ relay[w].reply.transfer = "chunked"
  /\ \E n \in 1..Len(relay[w].rest) :
       relay' = [relay EXCEPT
         ![w].scan = Push(@, SubSeq(relay[w].rest, 1, n)),
         ![w].rest = SubSeq(@, n + 1, Len(@))]
  /\ UNCHANGED <<clientVars, stage, registry, conn, polled, job, probe, answer, usage,
                 captures>>

\* The last chunk and its trailers, or a whole body by its length or up to EOF.
FinishRelay(w) ==
  LET reply == relay[w].reply
  IN  /\ conn[w] = "body"
      /\ reply.transfer = "chunked" => relay[w].rest = <<>>
      /\ Served(w, reply.status,
                IF reply.transfer = "chunked" THEN Finish(relay[w].scan)
                                              ELSE Parse(reply.body))
      /\ UNCHANGED answer

\* The worker hangs up before its status line: the client is told 502.
EmptyStatusLine(w) ==
  /\ conn[w] = "sent" /\ ~ IsProbe(w)
  /\ answer' = [answer EXCEPT ![job[w]] = Got(502)]
  /\ Served(w, 502, NoUsage)

\* What a worker answers to a probe: the models it has, or its version.
Report(w, route) ==
  [route |-> route, names |-> IF route = "GET /api/version" THEN {} ELSE polled[w].tags]

\* capture_worker_response: the answer goes to the prober if it still waits.
\* One that is no JSON is dropped, one with an error status replaced by the cache.
AnswerProbe(w) ==
  LET r       == job[w]
      route   == plan[r].route
      waiting == probe[r][w].at = "taken"
  IN  /\ conn[w] = "sent" /\ IsProbe(w)
      /\ \E reported \in {None, Cached(w, route), Report(w, route)} :
           /\ IF waiting THEN Deliver(r, w, reported) ELSE UNCHANGED probe
           /\ registry' = IF registry[w] = None THEN registry
                ELSE [registry EXCEPT ![w].phase = "Polling",
                        ![w].cache[Slot(route)] =
                           IF waiting /\ reported # None THEN reported ELSE @]
      /\ LeavePoll(w, "up")
      /\ UNCHANGED <<clientVars, stage, answer, usage, captures>>

\* A write or read that fails on either side ends the worker's connection, and
\* its entry stays: the client sees its connection closed, a prober its channel.
JobFails(w) ==
  LET r == job[w]
  IN  /\ conn[w] \in {"sent", "body"}
      /\ IF IsProbe(w)
           THEN /\ IF probe[r][w].at = "taken"
                     THEN Deliver(r, w, Cached(w, plan[r].route)) ELSE UNCHANGED probe
                /\ UNCHANGED <<stage, answer>>
           ELSE /\ End(r, answer[r])
                /\ UNCHANGED probe
      /\ LeavePoll(w, "down")
      /\ UNCHANGED <<clientVars, registry, usage, captures>>

Disconnect(w) ==
  /\ conn[w] = "up" /\ Awaited
  /\ conn' = [conn EXCEPT ![w] = "down"]
  /\ registry' = [registry EXCEPT ![w] = None]
  /\ UNCHANGED <<clientVars, stage, polled, job, relay, probe, answer, usage, captures>>

\* The overseer removes an entry that was silent too long, its thread or not.
OverseerRemove(w) ==
  /\ registry[w] # None /\ conn[w] # "parked" /\ (Awaited \/ job[w] # None)
  /\ registry' = [registry EXCEPT ![w] = None]
  /\ UNCHANGED <<clientVars, stage, conn, polled, job, relay, probe, answer, usage, captures>>

-----------------------------------------------------------------------------
\* A key that no request presents makes no difference.
DeleteKey(k) ==
  /\ k \in live
  /\ \E r \in Requests : stage[r] \notin {"new", "served", "ended"} /\ ask[r].key = k
  /\ live' = live \ {k}
  /\ UNCHANGED <<ask, stage, admitted, visible, plan, planned, workerVars, probe, answer,
                 usage, captures>>

Proceed(r) == AuthorizeRequest(r) \/ PlanRequest(r) \/ AnswerList(r)

Relay(w) ==
  RelayHead(w) \/ RelayChunk(w) \/ FinishRelay(w) \/ EmptyStatusLine(w)
    \/ AnswerProbe(w) \/ JobFails(w)

Next ==
  \/ \E r \in Requests : ReadRequest(r) \/ Proceed(r) \/ ExpireQueued(r)
  \/ \E r \in Requests, w \in Workers : StartProbe(r, w) \/ ProbeTimesOut(r, w)
  \/ \E w \in Workers : \/ Register(w) \/ Poll(w) \/ Take(w) \/ Pong(w) \/ Relay(w)
                         \/ Disconnect(w) \/ OverseerRemove(w)
  \/ \E k \in Keys : DeleteKey(k)

Spec == Init /\ [][Next]_vars

\* The proxy's threads go on, probes time out, the overseer clears the queue, and
\* a response ends: sockets have read and write timeouts.  Nothing makes a worker
\* connect or poll.  (That the overseer sees what is queued is RequestQueue's
\* VisibleLeaves; the race it excepts is left out here.)
FairSpec ==
  /\ Spec
  /\ \A r \in Requests : WF_vars(Proceed(r)) /\ WF_vars(ExpireQueued(r))
  /\ \A r \in Requests, w \in Workers :
       WF_vars(StartProbe(r, w)) /\ WF_vars(ProbeTimesOut(r, w))
  /\ \A w \in Workers : WF_vars(Relay(w))

-----------------------------------------------------------------------------
(* What is checked *)

\* The routes that ask a model for something, by the planner.
Inference == OllamaInference \cup OpenAiInference \cup VllmInference \cup SystemOneEval

\* Types: the worker's thread holds a request exactly while it serves one.
TypeOK ==
  /\ \A r \in Requests : ask[r] # None => ask[r].route \in Routes
  /\ stage \in [Requests -> Stages]
  /\ admitted \in [Requests -> Keys \cup {None}]
  /\ visible \in [Requests -> Keys \cup {None}]
  /\ \A r \in Requests :
       /\ stage[r] \in {"new", "read", "authorized"} => plan[r] = None
       /\ stage[r] = "probing" => plan[r].to = "probe"
       /\ stage[r] \in {"queued", "taken", "served"} => plan[r].to \in {"model", "node"}
       /\ stage[r] = "taken" <=> \E w \in Workers : job[w] = r /\ ~ IsProbe(w)
  /\ \A w \in Workers :
       /\ conn[w] \in {"down", "up", "parked", "sent", "body"}
       /\ (job[w] # None) = (conn[w] \in {"sent", "body"})
       /\ IF conn[w] = "body" THEN relay[w].reply \in Replies ELSE relay[w] = None
       /\ IF conn[w] \in {"parked", "sent", "body"}
            THEN \E p \in Profiles[w] : polled[w] \in {p, [p EXCEPT !.tags = {}]}
            ELSE polled[w] = None
  /\ live \subseteq Keys

\* The model a route has a worker run, show, copy, delete or transfer.
Concerned(a) ==
  CASE a.route = "POST /api/show"   -> ShowModel(a)
    [] a.route = "POST /api/create" -> a.from
    [] a.route = "POST /api/copy"   -> a.source
    [] a.route \in Inference \cup {"POST /api/pull", "POST /api/push", "DELETE /api/delete"}
                                    -> a.model
    [] OTHER                        -> None

\* The routes that change a worker or its models, or look into its load.
Administrative == OllamaAdmin \cup VllmTargeted \cup {"GET /load"}

\* A key's policy and role hold for what a worker gets, whatever the route and
\* however the planner finds the worker: by the model, as its owner, any of a backend,
\* or by a Node header.  The tables of admission, the planner and the usage events list
\* the routes separately (admission.rs:104, :130): a model that the route is about, or
\* that its usage is recorded under, and that admission does not read would escape the
\* policy.  A Node header and an administrative route are for administrators only.
WithinPolicy ==
  \A r \in Requests : stage[r] \in {"queued", "taken", "served"} =>
    /\ admitted[r] # None =>
         \A m \in {Concerned(ask[r]), ContextModel(r)} \ {None} :
           AllowsModel(KeyRecord[admitted[r]], m)
    /\ ask[r].node # None \/ ask[r].route \in Administrative =>
         admitted[r] # None /\ KeyRecord[admitted[r]].role = "Admin"

\* A model list shows only names that the key may use, unless one of the request's two
\* look-ups did not find the key (proxy/server.rs:93).  Whatever lists other requests
\* ask for meanwhile, each name it shows is one a worker gave for this list, then or
\* before, and it shows every such name of an answer its own probes came to.  An
\* answer to the other list, which shares the worker's cached one (probe.rs:90), has
\* another shape and gives no names.
ListsFaithful ==
  \A r \in Requests :
    stage[r] = "ended" /\ plan[r] # None /\ plan[r].to = "probe" =>
      LET given == {w \in plan[r].workers :
                      probe[r][w].got # None /\ probe[r][w].got.route = ask[r].route}
      IN  /\ admitted[r] # None /\ visible[r] # None =>
               \A m \in answer[r].names : AllowsModel(KeyRecord[admitted[r]], m)
          /\ \A m \in answer[r].names : \E w \in given : m \in probe[r][w].got.names
          /\ \A w \in given : \A m \in probe[r][w].got.names :
               Visible(RecordOf(visible[r]), m) => m \in answer[r].names

\* What a route needs of the worker that gets its request.
Needs(a, entry) ==
  /\ a.route \in OllamaAdmin \cup OllamaInference \cup {"POST /api/show"} =>
       entry.backend \in Ollama
  /\ a.route \in VllmInference \cup VllmAny \cup ResponseState => entry.backend = "Vllm"
  /\ a.route \in SystemOneEval \cup {"GET /model"} => entry.backend = "SystemOne"
  /\ a.route \in {"POST /api/push", "DELETE /api/delete"} => a.model \in entry.tags
  /\ a.route = "POST /api/create" => a.from \in entry.tags
  /\ a.route = "POST /api/copy" => a.source \in entry.tags
  /\ a.route \in Inference /\ a.model # None => a.model \in entry.tags

\* The worker that gets a request is one that can serve it: it has the backend and
\* the model its route needs as of its poll.  Only a request the planner sent to
\* a node of its snapshot may find that node changed since (planner.rs:121), and
\* a Node header is obeyed as it is.
RightWorker ==
  [][\A r \in Requests, w \in Workers :
       job[w] = None /\ job'[w] = r /\ plan[r].to # "probe" /\ ask[r].node = None =>
         \/ Needs(ask[r], polled[w])
         \/ /\ plan[r].to = "node"
            /\ [backend |-> planned[r].backend, tags |-> planned[r].tags] # polled[w]]_vars

\* An inference request whose response was relayed to the end is recorded once, under
\* the model it asked for, and one whose relay failed is not recorded
\* (worker/server.rs:470).  A response is captured at most once, and only if the key that
\* the request presents asks for it.
RecordedOnce ==
  [][\A w \in Workers :
       LET r == job[w]
       IN  conn[w] = "body" =>
             /\ conn'[w] = "up" /\ ask[r].route \in Inference /\ ask[r].model # None =>
                  /\ Len(usage'[r]) = 1
                  /\ usage'[r][1].model = ask[r].model
                  /\ usage'[r][1].status = relay[w].reply.status
             /\ conn'[w] = "down" => usage'[r] = <<>> /\ captures'[r] = 0
             /\ captures'[r] > 0 => captures'[r] = 1 /\ KeyRecord[ask[r].key].capture]_vars

\* The tokens recorded are those of the last usage line of the response, however it was
\* transferred and cut into chunks (worker/server.rs:959); a stream that does not ask for
\* its usage has one all the same, unless its stream_options are no object
\* (http/mod.rs:83).
TokensAsRelayed ==
  [][\A w \in Workers :
       LET r     == job[w]
           reply == relay[w].reply
       IN  conn[w] = "body" /\ conn'[w] = "up" /\ usage'[r] # <<>> =>
             /\ OwnLines(reply.body) => usage'[r][1].tokens = LastUsage(reply.body)
             /\ usage'[r][1].tokens = NoUsage =>
                  reply.status >= 400 \/ ask[r].stream = "malformed"
                    \/ ~ OwnLines(reply.body)]_vars

\* Every request that was read comes to an end although workers come and go, the one
\* planned for a worker that has left included (planner.rs:121).
EveryRequestEnds == \A r \in Requests : stage[r] = "read" ~> stage[r] \in {"served", "ended"}

=============================================================================
