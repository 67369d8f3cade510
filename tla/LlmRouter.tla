------------------------------ MODULE LlmRouter ------------------------------
(***************************************************************************)
(* The cost-aware router of crates/llm/src/router.rs, with the live        *)
(* routing (routing.rs) and the live allowlist (live_policy.rs,            *)
(* model_policy.rs) it consults.  A request makes a plan, a snapshot of    *)
(* what may be tried in which order, and then works through it while the   *)
(* owner turns switches, the registry changes its mind and other requests  *)
(* fail.  The providers are external: a call answers, refuses or fails.    *)
(***************************************************************************)
EXTENDS Naturals, Sequences, FiniteSets

CONSTANTS ChatRequests,     \* requests in flight
          Asks,         \* what a request may ask for
          Candidates,   \* the backends that are built
          OllamaRemote, \* the Ollama endpoint is not on this host
          Pairs,        \* <<backend, model>> pairs the policy may list
          StartPolicy,  \* the state of each pair at start
          Catalog,      \* the models of the registry, cheapest first in a class
          Routings,     \* the routing snapshots the owner may activate
          NoModel,      \* no model, no provider
          CooldownFor,  \* how long a kind of failure bars a backend
          MaxInstant,       \* bound: the clock
          MaxTurns    \* bound: switches turned

VARIABLES routing,    \* LiveRouting
          policy,     \* LiveModelPolicy: the state of each pair
          suspended,  \* LiveModelPolicy was suspended (version 0)
          available,  \* the backends the registry says are up and within the cap
          until,      \* health: when a backend's cooldown ends
          instant,        \* the monotonic clock
          req,        \* the requests
          changes     \* switches turned so far

routerVars == <<routing, policy, suspended, available, until, instant, req, changes>>

Ids == {"ollama", "claude-cli", "codex-cli", "deepseek-api", "zai-api", "openai-api",
        "xai-api", "anthropic-api", "ollama-cloud", "huggingface"}
Failures == {"Authentication", "RateLimited", "Unavailable"}
Tiers == {"Cheap", "Default", "Hard"}

(* Only the local and subscription backends are unmetered, and Ollama only on
   loopback: fails closed. *)
MeteredId(b) == b \notin {"ollama", "claude-cli", "codex-cli"}
Metered(b) == MeteredId(b) \/ (b = "ollama" /\ OllamaRemote)
Subscription(b) == b \in {"claude-cli", "codex-cli"}
DynamicCloud(b) == b \in Ids \ {"ollama", "claude-cli"}

-----------------------------------------------------------------------------
(* routing.json.                                                            *)

MaxChain == 9

(* validate: entries name a provider and a model, none twice, and a metered entry
   after a subscription needs explicit approval. *)
ValidChain(route) ==
    /\ \E n \in 0 .. MaxChain : DOMAIN route.chain = 1 .. n
    /\ \A i, j \in DOMAIN route.chain :
        /\ route.chain[i].provider \in Ids /\ route.chain[i].model # NoModel
        /\ i # j => route.chain[i] # route.chain[j]
        /\ i < j /\ Subscription(route.chain[i].provider)
             /\ MeteredId(route.chain[j].provider) => route.metered_after_subscription

ValidRouting(r) == \A t \in Tiers : ValidChain(r.tiers[t])

ASSUME RoutingAssumption == \A r \in Routings : ValidRouting(r)
ASSUME EntryAssumption ==
    \A r \in Routings : \A t \in Tiers : \A i \in DOMAIN r.tiers[t].chain :
        LET e == r.tiers[t].chain[i] IN e = [provider |-> e.provider, model |-> e.model]
ASSUME BackendAssumption == Candidates \subseteq Ids
ASSUME AsksAssumption == \A ask \in Asks : ask.tier \in Tiers
ASSUME PairsAssumption == \A p \in Pairs : p = <<p[1], p[2]>>
ASSUME CatalogAssumption == DOMAIN Catalog \subseteq Nat

PaidApiOff(r) == r.file = "unavailable" \/ (r.file = "usable" /\ r.paid_api = "off")
ResearchOn(r) == r.file = "usable" /\ r.research_web_search = "on"
RefusesProvider(r, b) == PaidApiOff(r) /\ Metered(b)
Routed(r, t) == r.file = "usable" /\ r.tiers[t].chain # <<>>

(* The entries of sequence s at the places in K, in their order. *)
Picked(s, K) ==
    [n \in 1 .. Cardinality(K) |-> s[CHOOSE i \in K : Cardinality({j \in K : j < i}) = n - 1]]

(* Fault: the chain is routed as it was validated. *)
RuntimeChainAsValidated(route) == route.chain

(* runtime_chain: a remote Ollama passes validation and is metered here. *)
RuntimeChain(route) ==
    Picked(route.chain, {i \in DOMAIN route.chain :
        \/ route.metered_after_subscription
        \/ ~Metered(route.chain[i].provider)
        \/ \A j \in 1 .. i - 1 : ~Subscription(route.chain[j].provider)})

-----------------------------------------------------------------------------
(* The allowlist and the catalog.                                           *)

Allows(b, m) ==
    /\ ~suspended
    /\ IF <<b, m>> \in Pairs /\ policy[<<b, m>>] # "absent" THEN policy[<<b, m>>] = "on"
       ELSE b = "ollama"

Least(S) == CHOOSE i \in S : \A j \in S : i <= j

TargetClasses(t) == CASE t = "Cheap" -> <<"Light">>
                      [] t = "Default" -> <<"Light", "Mid">>
                      [] OTHER -> <<"Heavy", "Reasoning", "Mid">>

(* The first catalog model of the class; a discovered and enabled cloud model
   counts as Mid. *)
OfClass(b, class) ==
    LET listed == {i \in DOMAIN Catalog : /\ Catalog[i].backend = b /\ Catalog[i].class = class
                                          /\ Allows(b, Catalog[i].id)}
        new == {p[2] : p \in {q \in Pairs : /\ q[1] = b /\ ~suspended
                                            /\ policy[q] = "on"
                                            /\ \A i \in DOMAIN Catalog :
                                                  <<Catalog[i].backend, Catalog[i].id>> # q}}
    IN  IF listed # {} THEN {Catalog[Least(listed)].id}
        ELSE IF class = "Mid" /\ DynamicCloud(b) THEN new ELSE {}

ModelFor(b, t) ==
    LET usable == {i \in DOMAIN TargetClasses(t) : OfClass(b, TargetClasses(t)[i]) # {}}
    IN  IF usable = {} THEN {} ELSE OfClass(b, TargetClasses(t)[Least(usable)])

RequestedIsAllowed(b, m) ==
    /\ DynamicCloud(b) \/ \E i \in DOMAIN Catalog : Catalog[i].backend = b /\ Catalog[i].id = m
    /\ Allows(b, m)

(* choose_model: the models that may be sent to b, none to skip it. *)
ChooseModel(b, pinned, ask) ==
    IF ask.model # NoModel
    THEN {m \in {ask.model} : RequestedIsAllowed(b, m)}
    ELSE IF pinned # NoModel THEN {m \in {pinned} : Allows(b, m)}
    ELSE ModelFor(b, ask.tier)

-----------------------------------------------------------------------------
(* The plan.                                                                *)

BuiltIn(t) == CASE t = "Cheap" -> <<"ollama", "claude-cli", "deepseek-api", "zai-api",
                                    "openai-api", "xai-api", "anthropic-api",
                                    "ollama-cloud", "huggingface">>
                [] t = "Default" -> <<"claude-cli", "anthropic-api", "openai-api",
                                      "deepseek-api", "xai-api", "zai-api", "ollama-cloud",
                                      "huggingface", "ollama">>
                [] OTHER -> <<"claude-cli", "anthropic-api", "openai-api", "xai-api",
                              "zai-api", "ollama-cloud", "huggingface">>

(* The tier's routed chain, if it has one and the request is not more specific. *)
RouteOf(ask) ==
    {t \in {routing.tiers[ask.tier]} :
        ask.only = NoModel /\ ask.model = NoModel /\ Routed(routing, ask.tier)}

Step(b, m) == [backend |-> b, pinned |-> m]

Ordered(ask) ==
    IF ask.only # NoModel THEN <<Step(ask.only, NoModel)>>
    ELSE IF RouteOf(ask) # {}
    THEN LET chain == RuntimeChain(routing.tiers[ask.tier])
         IN  [i \in DOMAIN chain |-> Step(chain[i].provider, chain[i].model)]
    ELSE [i \in DOMAIN BuiltIn(ask.tier) |-> Step(BuiltIn(ask.tier)[i], NoModel)]

Healthy(b) == until[b] <= instant

(* If the registry says none is up, the unmetered ones are tried anyway. *)
SafetyNet(steps, paid) == {i \in paid : ~Metered(steps[i].backend)}

PlanFor(ask) ==
    LET steps == Ordered(ask)
        paid == {i \in DOMAIN steps : /\ steps[i].backend \in Candidates
                                      /\ ~RefusesProvider(routing, steps[i].backend)}
        up == {i \in paid : steps[i].backend \in available}
        base == IF up = {} THEN SafetyNet(steps, paid) ELSE up
    IN  Picked(steps, {i \in base : Healthy(steps[i].backend)})

-----------------------------------------------------------------------------
(* Requests.                                                                *)

NoAsk == [kind |-> "none", tier |-> "Cheap", model |-> NoModel, only |-> NoModel]
NoRequest == [at |-> "idle", ask |-> NoAsk, plan |-> <<>>, model |-> NoModel, calls |-> 0,
              up |-> {}, barred |-> {}, route |-> {}]

Say(q, r) == req' = [req EXCEPT ![q] = r]
Done(q) == [NoRequest EXCEPT !.at = "done", !.ask = req[q].ask, !.calls = req[q].calls]

(* up, barred and route are history: what the plan was made from. *)
Begin(q, ask) ==
    /\ req[q].at = "idle"
    /\ \/ ask.kind = "research" /\ ~ResearchOn(routing)
          /\ Say(q, [NoRequest EXCEPT !.at = "done", !.ask = ask])
       \/ /\ ask.kind # "research" \/ ResearchOn(routing)
          /\ Say(q, [NoRequest EXCEPT !.at = "trying", !.ask = ask, !.plan = PlanFor(ask),
                                      !.up = available,
                                      !.barred = {b \in Candidates : ~Healthy(b)},
                                      !.route = RouteOf(ask)])
    /\ UNCHANGED <<routing, policy, suspended, available, until, instant, changes>>

NextBackend(q) == req[q].plan[1].backend

(* The owner may switch paid APIs off while a request is in flight: looked at
   again right before every attempt. *)
PaidApiNowRefuses(b) == RefusesProvider(routing, b)

OpenModels(q) ==
    IF req[q].ask.kind = "research" /\ ~Subscription(NextBackend(q)) THEN {}
    ELSE IF req[q].ask.kind # "research" /\ PaidApiNowRefuses(NextBackend(q)) THEN {}
    ELSE ChooseModel(NextBackend(q), req[q].plan[1].pinned, req[q].ask)

Skip(q) ==
    /\ req[q].at = "trying" /\ req[q].plan # <<>>
    /\ req[q].ask.kind = "research" /\ Subscription(NextBackend(q)) => ResearchOn(routing)
    /\ OpenModels(q) = {}
    /\ Say(q, [req[q] EXCEPT !.plan = Tail(@)])
    /\ UNCHANGED <<routing, policy, suspended, available, until, instant, changes>>

(* Research that was switched off meanwhile stops. *)
StopResearch(q) ==
    /\ req[q].at = "trying" /\ req[q].plan # <<>> /\ req[q].ask.kind = "research"
    /\ Subscription(NextBackend(q)) /\ ~ResearchOn(routing)
    /\ Say(q, Done(q))
    /\ UNCHANGED <<routing, policy, suspended, available, until, instant, changes>>

Attempt(q) ==
    /\ req[q].at = "trying" /\ req[q].plan # <<>>
    /\ req[q].ask.kind = "research" => ResearchOn(routing)
    /\ \E m \in OpenModels(q) :
          Say(q, [req[q] EXCEPT !.at = "calling", !.model = m, !.calls = @ + 1])
    /\ UNCHANGED <<routing, policy, suspended, available, until, instant, changes>>

Exhausted(q) ==
    /\ req[q].at = "trying" /\ req[q].plan = <<>>
    /\ Say(q, Done(q))
    /\ UNCHANGED <<routing, policy, suspended, available, until, instant, changes>>

Answer(q) ==
    /\ req[q].at = "calling"
    /\ until' = [until EXCEPT ![NextBackend(q)] = 0]
    /\ Say(q, Done(q))
    /\ UNCHANGED <<routing, policy, suspended, available, instant, changes>>

Refuse(q) ==
    /\ req[q].at = "calling"
    /\ Say(q, Done(q))
    /\ UNCHANGED <<routing, policy, suspended, available, until, instant, changes>>

(* A failed search says nothing of chat on the same subscription, unless the
   login or the plan is what failed. *)
Bars(q, f) == req[q].ask.kind = "research" => f \in {"Authentication", "RateLimited"}

(* A realtime run makes exactly one attempt. *)
AfterFailure(q) ==
    IF req[q].ask.kind = "stream" THEN Done(q)
    ELSE [req[q] EXCEPT !.at = "trying", !.plan = Tail(@), !.model = NoModel]

FailAttempt(q, f) ==
    /\ req[q].at = "calling"
    /\ until' = IF Bars(q, f) THEN [until EXCEPT ![NextBackend(q)] = instant + CooldownFor[f]] ELSE until
    /\ Say(q, AfterFailure(q))
    /\ UNCHANGED <<routing, policy, suspended, available, instant, changes>>

-----------------------------------------------------------------------------
(* The rest of the world.                                                   *)

Turn == changes < MaxTurns /\ changes' = changes + 1

(* swap and fail_closed of LiveRouting. *)
SwapRouting(r) ==
    /\ Turn /\ r # routing /\ routing' = r
    /\ UNCHANGED <<policy, suspended, available, until, instant, req>>

Toggle(p) ==
    /\ Turn /\ ~suspended /\ policy[p] # "absent"
    /\ policy' = [policy EXCEPT ![p] = IF @ = "on" THEN "off" ELSE "on"]
    /\ UNCHANGED <<routing, suspended, available, until, instant, req>>

(* refresh_discovery: a new model arrives disabled. *)
Discover(p) ==
    /\ Turn /\ ~suspended /\ policy[p] = "absent"
    /\ policy' = [policy EXCEPT ![p] = "off"]
    /\ UNCHANGED <<routing, suspended, available, until, instant, req>>

Suspend ==
    /\ Turn /\ ~suspended /\ suspended' = TRUE
    /\ UNCHANGED <<routing, policy, available, until, instant, req>>

Registry(b) ==
    /\ Turn
    /\ available' = IF b \in available THEN available \ {b} ELSE available \cup {b}
    /\ UNCHANGED <<routing, policy, suspended, until, instant, req>>

Clock ==
    /\ instant < MaxInstant /\ instant' = instant + 1
    /\ UNCHANGED <<routing, policy, suspended, available, until, req, changes>>

RequestStep(q) ==
    \/ Skip(q) \/ StopResearch(q) \/ Attempt(q) \/ Exhausted(q) \/ Answer(q) \/ Refuse(q)
    \/ \E f \in Failures : FailAttempt(q, f)

RouterInit ==
    /\ routing \in Routings
    /\ policy = StartPolicy /\ suspended = FALSE
    /\ available = Candidates
    /\ until = [b \in Candidates |-> 0] /\ instant = 0
    /\ req = [q \in ChatRequests |-> NoRequest]
    /\ changes = 0

RouterNext ==
    \/ \E q \in ChatRequests : RequestStep(q) \/ \E ask \in Asks : Begin(q, ask)
    \/ \E r \in Routings : SwapRouting(r)
    \/ \E p \in Pairs : Toggle(p) \/ Discover(p)
    \/ \E b \in Candidates : Registry(b)
    \/ Suspend \/ Clock

RouterSpec == RouterInit /\ [][RouterNext]_routerVars

-----------------------------------------------------------------------------
Starts(q) == req[q].at # "calling" /\ req'[q].at = "calling"

(* At the moment of every attempt the owner's switches allow it, however old the
   plan is: the model is on the allowlist, a metered backend is not refused,
   research is on and never metered. *)
AttemptIsAllowed(q) ==
    /\ Allows(NextBackend(q), req'[q].model)
    /\ ~RefusesProvider(routing, NextBackend(q))
    /\ req[q].ask.kind = "research" => ResearchOn(routing) /\ ~Metered(NextBackend(q))

(* What the plan was made from allows the call: no backend is called whose
   cooldown the plan saw; "nothing available" never becomes a paid call; and
   behind a subscription a routed request pays only where its tier says so. *)
PlanAllows(q) ==
    /\ NextBackend(q) \notin req[q].barred
    /\ Metered(NextBackend(q)) =>
          /\ NextBackend(q) \in req[q].up
          /\ \A t \in req[q].route : \A i, j \in DOMAIN t.chain :
                i < j /\ Subscription(t.chain[i].provider)
                      /\ t.chain[j] = [provider |-> NextBackend(q), model |-> req[q].model]
                    => t.metered_after_subscription

(* A realtime run is never replayed, and a request pinned to a provider never
   leaves it: each makes at most one call. *)
OneCall(q) == req[q].ask.kind = "stream" \/ req[q].ask.only # NoModel => req[q].calls <= 1

(* A paid call is always one the owner chose, and a run that was shown to the
   owner is never asked again. *)
NoSilentPayment ==
    \A q \in ChatRequests : OneCall(q) /\ (req[q].at = "calling" => PlanAllows(q))

(* The owner's routing and switches are obeyed while they change under a request:
   by every attempt when it starts, and by the plan it came from. *)
RoutingIsObeyed ==
    [][/\ NoSilentPayment'
       /\ \A q \in ChatRequests : Starts(q) => AttemptIsAllowed(q)]_routerVars
=============================================================================
