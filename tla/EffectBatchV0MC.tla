--------------------------- MODULE EffectBatchV0MC ---------------------------
\* Scenarios for EffectBatchV0: a catalogue of drivers and requests of which each
\* kind meets each rule, under policies that differ from a permissive one in one or
\* two points; and batches of five effects for the scheduler.
EXTENDS EffectBatchV0

Manifest(id, class, labels, recovery) ==
  [id |-> id, refs |-> {"a"}, classes |-> {class}, statuses |-> {"ok"}, ops |-> {"read", "write"},
   labels |-> labels, recovery |-> recovery, maxRequest |-> 2, maxResponse |-> 1, limit |-> 1,
   deterministic |-> FALSE, root |-> None, origins |-> None, endpoint |-> "request",
   configured |-> None]

Live == [Manifest("live", "model", {"model:http-json"}, "idempotent") EXCEPT
           !.endpoint = "request-or-config", !.configured = "o1"]
Fixture == [Manifest("fixture", "model", {"model:fixture"}, "pure") EXCEPT !.deterministic = TRUE]
Loose == Manifest("loose", "model", {"model:fixture"}, "idempotent")
Api == [Manifest("api", "http", {"network:api"}, "idempotent") EXCEPT !.origins = {"o1", "o2"}]
Fixed == [Manifest("fixed", "http", {"network:api"}, "best_effort") EXCEPT
            !.endpoint = "config", !.configured = "o2"]
Files == [Manifest("files", "file", {"file:root"}, "pure") EXCEPT !.root = "root"]
Human == Manifest("human", "human", {"human:ask"}, "externally_recoverable")
Wild == Manifest("wild", "other", {}, "best_effort")
Small == [Manifest("small", "other", {}, "pure") EXCEPT !.maxRequest = 1, !.ops = {"read"}]

Ask1(class) ==
  [ref |-> "a", class |-> class, status |-> "ok", size |-> 1, url |-> "o1", op |-> "write",
   record |-> None, prefers |-> {}]

Recorded(recovery, fits, rerun) == [recovery |-> recovery, fits |-> fits, rerun |-> rerun]

Permissive ==
  [durable |-> TRUE, bestEffort |-> TRUE, human |-> TRUE, partial |-> FALSE, auditOnly |-> FALSE,
   approveDestructive |-> FALSE, approveNetwork |-> FALSE, approveBestEffort |-> FALSE,
   budget |-> 1, labels |-> {}, packs |-> {}, deniedPacks |-> {}, roots |-> {"root"},
   origins |-> {"o1", "o2"}, maxRequest |-> 2, maxResponse |-> 1, concurrency |-> 2]

Stricter(p) ==
  {[p EXCEPT !.durable = FALSE, !.bestEffort = FALSE], [p EXCEPT !.bestEffort = FALSE],
   [p EXCEPT !.human = FALSE], [p EXCEPT !.auditOnly = TRUE],
   [p EXCEPT !.approveDestructive = TRUE], [p EXCEPT !.approveNetwork = TRUE],
   [p EXCEPT !.approveBestEffort = TRUE], [p EXCEPT !.budget = 0], [p EXCEPT !.budget = 2],
   [p EXCEPT !.labels = {"model:fixture", "file:root"}], [p EXCEPT !.deniedPacks = {"live"}],
   [p EXCEPT !.packs = {"live", "api", "wild"}], [p EXCEPT !.roots = {}],
   [p EXCEPT !.origins = {"o1"}], [p EXCEPT !.origins = {}], [p EXCEPT !.maxRequest = 1]}

Policies == UNION {{p} \cup Stricter(p) : p \in {Permissive, [Permissive EXCEPT !.partial = TRUE]}}

ModelRequests ==
  <<Ask1("model"), [Ask1("model") EXCEPT !.prefers = {"model:http-json"}],
   [Ask1("model") EXCEPT !.url = None],
   [Ask1("model") EXCEPT !.record = Recorded("idempotent", TRUE, TRUE)],
   [Ask1("model") EXCEPT !.record = Recorded("idempotent", FALSE, TRUE)],
   [Ask1("model") EXCEPT !.record = Recorded("pure", FALSE, FALSE)]>>

OtherRequests ==
  <<Ask1("http"), [Ask1("http") EXCEPT !.url = "o2", !.prefers = {"network:api"}],
   Ask1("file"), [Ask1("file") EXCEPT !.op = "read"], Ask1("human"), Ask1("other"),
   [Ask1("other") EXCEPT !.size = 2]>>

Pairs(rs) == UNION {{<<rs[i], rs[j]>> : j \in i .. Len(rs)} : i \in DOMAIN rs}

Scenario(drivers, requests, p, deferred) ==
  [drivers |-> drivers, requests |-> requests, policy |-> p, deferred |-> deferred]

ModelScenarios ==
  {Scenario(d, r, p, FALSE) :
     d \in {<<Live>>, <<Live, Fixture>>, <<Loose, Live>>},
     r \in Pairs(ModelRequests),
     p \in Policies}

OtherScenarios ==
  {Scenario(d, r, p, f) :
     d \in {<<Api, Fixed, Files, Human, Wild, Small>>, <<Small, Wild, Fixed, Api, Files>>},
     r \in Pairs(OtherRequests),
     p \in Policies, f \in BOOLEAN}

Swarm ==
  {Scenario(<<[Api EXCEPT !.limit = l], [Small EXCEPT !.limit = 2], Files>>,
            <<Ask1("http"), [Ask1("other") EXCEPT !.op = "read"], Ask1("http"), q, Ask1("http")>>,
            [Permissive EXCEPT !.concurrency = c], FALSE) :
     l \in 1 .. 2, c \in {1, 3}, q \in {Ask1("file"), [Ask1("other") EXCEPT !.op = "read"]}}

MCScenarios == ModelScenarios \cup OtherScenarios \cup Swarm
===============================================================================
