---------------------------- MODULE MCRequestPath ----------------------------
(* RequestPath with every route, two keys, and two workers of two backends;    *)
(* and with two requests at once for the lists of one worker.                  *)
EXTENDS RequestPath, TLC

CONSTANTS r1, r2, w1, w2, client, admin

Plain(name)       == [name |-> name, tag |-> None]
Tagged(name, tag) == [name |-> name, tag |-> tag]
a  == Plain("a")
a7 == Tagged("a", "7b")
b  == Plain("b")

Client == [role |-> "Client", whitelist |-> {Tagged("a", "latest"), b},
           blacklist |-> {Tagged("b", "7b")}, capture |-> TRUE]
Admin  == [role |-> "Admin", whitelist |-> {}, blacklist |-> {a7, b}, capture |-> FALSE]
MCKeyRecord == (client :> Client) @@ (admin :> Admin)

Bare == [route |-> "unknown", hive |-> FALSE, node |-> None, key |-> None, stream |-> "off",
         model |-> None, name |-> None, from |-> None, source |-> None, path |-> None]

\* Each field the code may read, with each of two models, by itself or with another.
Bodies == {Bare} \cup {[Bare EXCEPT !.model = m] : m \in {a, a7}}
            \cup {[Bare EXCEPT !.name = m] : m \in {a, b}}
            \cup {[Bare EXCEPT !.from = a, !.source = b], [Bare EXCEPT !.from = b, !.source = a]}
            \cup {[Bare EXCEPT !.path = m] : m \in {a, b}}

\* For each route the bodies that say something of it: none, and its own fields.
Reads(route) ==
  CASE route = OpenAiModel        -> {x \in Bodies : x.path # None}
    [] route = "POST /api/show"   -> {x \in Bodies : x.path = None /\ x.from = None}
    [] route \in {"POST /api/create", "POST /api/copy"}
                                  -> {x \in Bodies : x.from # None \/ x = Bare}
    [] route \in Inference \cup OllamaAdmin
                                  -> {x \in Bodies : x.model # None \/ x = Bare}
    [] OTHER                      -> {Bare}

Streams(route) ==
  IF route = "POST /v1/completions" THEN {"off", "on", "usage", "malformed"} ELSE {"off"}

MCAsks ==
  {[Bare EXCEPT !.hive = TRUE]} \cup
  UNION {{[x EXCEPT !.route = route, !.key = k, !.node = n, !.stream = s] :
            x \in Reads(route), k \in Keys \cup {None}, n \in {None, w1}, s \in Streams(route)}
         : route \in Routes}

\* Of each route, requests that get through.
Typical == {x \in MCAsks : /\ x.key = admin /\ x.node = None /\ x.stream = "off"
                           /\ x.from # b /\ {a7, b} \cap {x.model, x.name, x.path} = {}}

\* The lists, which two requests may ask for at once.
ListAsks == {[Bare EXCEPT !.route = route, !.key = k] : route \in {"GET /api/tags", "GET /v1/models"},
                                                        k \in {client, None}}

MCFirstAny == (r1 :> MCAsks) @@ (r2 :> ListAsks)

\* The typical ones, and one for a node, for what becomes of them.
MCFirstTypical ==
  r1 :> Typical \cup {[Bare EXCEPT !.route = "POST /sleep", !.key = admin, !.node = w1]}

MCProfiles == (w1 :> {[backend |-> "Ollama", tags |-> {a, b}], [backend |-> "Vllm", tags |-> {a}]})
           @@ (w2 :> {[backend |-> "SystemOne", tags |-> {a}]})

\* Bounds: two workers for the typical requests, one or the other for the rest; and a
\* second request for the lists of one worker.
Present == {w \in Workers : conn[w] # "down" \/ registry[w] # None}
MCBound ==
  IF stage[r2] = "new"
    THEN Present \subseteq {w1} \/ Present \subseteq {w2} \/ ask[r1] \in Typical
    ELSE Present \subseteq {w1} /\ ask[r1] \in ListAsks

Reply(status, transfer, body, reports) ==
  [status |-> status, transfer |-> transfer, body |-> body, reports |-> reports]
Two    == Record(1) \o <<Newline>> \o Record(2)
Broken == <<<<1, "open">>, Newline, <<1, "close">>>>
MCReplies ==
  {Reply(200, "chunked", Two, TRUE), Reply(200, "length", Broken, TRUE),
   Reply(200, "eof", <<Filler>>, FALSE), Reply(404, "length", <<Filler>>, FALSE)}

=============================================================================
