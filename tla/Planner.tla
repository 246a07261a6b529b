------------------------------ MODULE Planner -------------------------------
(***************************************************************************)
(* AutoDAGPlanner.build (planner.py): the plan for an analysed prompt.  A  *)
(* plan is a sequence of nodes [id, skill, text, tool, deps]; the tool is  *)
(* Unset when the node does not choose one, and "" when it chooses none.   *)
(*                                                                         *)
(* Only a prompt that no fixed plan fits is split into tasks, routed, and  *)
(* given dependencies by the model or by rule.                             *)
(***************************************************************************)
EXTENDS InputAnalysis

Unset == "unset"

Node(id, skill, t, tool, deps) == [id |-> id, skill |-> skill, text |-> t, tool |-> tool, deps |-> deps]
Step(id, skill, t, deps) == Node(id, skill, t, Unset, deps)
Synthesis(deps) == Step("synthesis", "synthesizer", {}, deps)

Ids(plan) == {plan[i].id : i \in DOMAIN plan}
Skills(plan) == {plan[i].skill : i \in DOMAIN plan}

DirectPlan(t) == <<Step("task-1", "general_answer", t, {})>>

AmbiguousPlan(t) ==
  << Step("path-a", "general_answer", t, {}), Step("path-b", "research", t, {}),
     Step("fusion", "fusion", t, {"path-a", "path-b"}) >>

WeatherPlan(t) == <<Node("task-1", "research", t, "weather", {}), Synthesis({"task-1"})>>

TrendPlan(t) ==
  << Node("task-1", "research", t, "", {}), Node("task-2", "research", t, "", {}),
     Step("analysis", "analysis", t, {"task-1", "task-2"}), Synthesis({"task-1", "task-2", "analysis"}) >>

PricePlan(t) == <<Node("task-1", "finance", t, "finance", {}), Synthesis({"task-1"})>>

LocalPlan(t) ==
  << Step("geo-intent", "geo_intent", t, {}),
     Node("local-search", "local_discovery", t, "local_search", {"geo-intent"}),
     Step("place-verify", "place_verification", {}, {"geo-intent", "local-search"}),
     Step("review-consensus", "review_consensus", {}, {"local-search"}),
     Step("candidate-extract", "candidate_extraction", {}, {"local-search", "review-consensus"}),
     Synthesis({"geo-intent", "place-verify", "candidate-extract", "review-consensus"}) >>

TravelPlanOf(t) ==
  << Step("geo-intent", "geo_intent", t, {}),
     Node("local-search", "local_discovery", t, "local_search", {"geo-intent"}),
     Step("place-verify", "place_verification", {}, {"local-search"}),
     Step("candidate-extract", "candidate_extraction", {}, {"local-search"}),
     Step("itinerary", "itinerary_planner", t, {"place-verify", "candidate-extract"}),
     Synthesis({"itinerary", "candidate-extract"}) >>

LookupPlan(t) == <<Node("task-1", "research", t, "web_search", {}), Synthesis({"task-1"})>>

-----------------------------------------------------------------------------
(* The plan from tasks.                                                    *)

TaskIds == <<"task-1", "task-2", "task-3", "task-4", "task-5">>

(* A prompt about now gets a research task of its own, unless a task       *)
(* already asks for one.                                                   *)
Tasks(a) ==
  IF Mentions(a.text, TimeSensitive) /\ \A i \in DOMAIN a.tasks : ~Mentions(a.tasks[i], {"search", "research"})
  THEN <<a.text>> \o a.tasks ELSE a.tasks

(* The guardrails: a task is never given to the synthesizer, nor to a      *)
(* skill that needs the output of another.                                 *)
Guarded(skill, t) ==
  IF skill \in {"synthesizer", "place_verification", "review_consensus", "candidate_extraction",
                "itinerary_planner", "geo_intent", "fusion"}
  THEN IF NeedsResearch(t) THEN "research" ELSE "general_answer" ELSE skill

Routings(a, skills) ==
  LET tasks == Tasks(a)
      choices == [i \in DOMAIN tasks |-> {Guarded(s, tasks[i]) : s \in Routes(tasks[i], skills)}]
  IN {r \in [DOMAIN tasks -> UNION Range(choices)] : \A i \in DOMAIN tasks : r[i] \in choices[i]}

(* The dependencies the model gives, as pairs <<node, needed>> of indices; *)
(* a name that is no task's, and a task's own, are dropped.                *)
Normalized(links, nodes) ==
  {l \in links : l[1] \in DOMAIN nodes /\ l[2] \in DOMAIN nodes /\ l[1] # l[2]}

LooksReasonable(links, nodes) ==
  /\ nodes # <<>>
  /\ \A l \in links : l[2] < l[1]
  /\ \A i \in DOMAIN nodes \ {1} : nodes[i].skill = "compare" => \E l \in links : l[1] = i

(* By rule: a comparison or a conclusion needs all that precedes it; an    *)
(* example the comparisons, or else its predecessor.                       *)
RuleLinks(nodes) ==
  LET compares == {i \in DOMAIN nodes : Mentions(nodes[i].text, {"compare", "assess"})}
      needs(i) ==
        IF i \in compares THEN 1..(i - 1)
        ELSE IF Mentions(nodes[i].text, {"code example", "snippet", "example"})
             THEN IF \E c \in compares : c < i THEN {c \in compares : c < i} ELSE {i - 1}
        ELSE IF Mentions(nodes[i].text, {"synthesize", "conclusion"}) THEN 1..(i - 1)
        ELSE {}
  IN {l \in (DOMAIN nodes) \X (DOMAIN nodes) : l[2] \in needs(l[1])}

InferredLinks(reply, nodes) ==
  IF reply # Failed /\ LooksReasonable(Normalized(reply.links, nodes), nodes)
  THEN Normalized(reply.links, nodes) ELSE RuleLinks(nodes)

(* In a prompt about now whatever is not research waits for all of it.     *)
Enforced(links, nodes, t) ==
  LET research == {i \in DOMAIN nodes : nodes[i].skill = "research"}
  IN IF Mentions(t, TimeSensitive) THEN links \cup ((DOMAIN nodes \ research) \X research) ELSE links

(* The check left out.                                                     *)
BugHasCycle(links) == FALSE

(* Some of the nodes only need each other.                                 *)
HasCycle(links) ==
  \E S \in (SUBSET {l[1] : l \in links}) \ {{}} : \A i \in S : \E l \in links : l[1] = i /\ l[2] \in S

Sequential(nodes) == {<<i, i - 1>> : i \in DOMAIN nodes \ {1}}

InjectsAnalysis(a, nodes) ==
  LET hinted == Mentions(a.text, GenericAnalysis)
      lookup == a.intent \in {"knowledge_lookup", "research"}
  IN /\ "analysis" \notin Skills(nodes) /\ "research" \in Skills(nodes)
     /\ ~Mentions(a.text, Weather)
     /\ \/ a.intent \in {"trend_analysis", "market_analysis"}
        \/ (lookup \/ a.intent = "information_retrieval") /\ hinted
        \/ hinted /\ Mentions(a.text, Commodity)
           /\ Mentions(a.text, {"month", "past", "last", "week", "quarter", "year", "6 months"})
        \/ lookup /\ a.mode = "parallel" /\ Cardinality({i \in DOMAIN nodes : nodes[i].skill = "research"}) >= 2

TaskPlan(a, routing, reply) ==
  LET tasks == Tasks(a)
      nodes == [i \in DOMAIN tasks |-> Step(TaskIds[i], routing[i], tasks[i], {})]
      enforced == Enforced(InferredLinks(reply, nodes), nodes, a.text)
      links == IF HasCycle(enforced) THEN Sequential(nodes) ELSE enforced
      linked == [i \in DOMAIN nodes |->
                   [nodes[i] EXCEPT !.deps = {TaskIds[l[2]] : l \in {k \in links : k[1] = i}}]]
      reasoned == IF InjectsAnalysis(a, linked)
                  THEN Append(linked, Step("analysis", "analysis", {}, Ids(linked))) ELSE linked
  IN IF Len(reasoned) > 1 \/ "research" \in Skills(reasoned)
     THEN Append(reasoned, Synthesis(Ids(reasoned))) ELSE reasoned

-----------------------------------------------------------------------------
(* The first plan that fits; TaskPlan when none does (<<>>).               *)
FixedPlan(a) ==
  LET t == a.text IN
  IF ~a.pipeline \/ IsGreeting(t, a.words) THEN DirectPlan(t)
  ELSE IF a.ambiguous THEN AmbiguousPlan(t)
  ELSE IF Mentions(t, Weather) \/ a.reason = "implicit_weather_suitability" THEN WeatherPlan(t)
  ELSE IF a.intent \in {"market_analysis", "trend_analysis"} \/ IsMarketAnalysis(t) \/ IsTrendAnalysis(t)
       THEN TrendPlan(t)
  ELSE IF a.intent = "market_price" \/ Mentions(t, Market) THEN PricePlan(t)
  ELSE IF a.intent = "local_discovery" \/ Mentions(t, LocalDiscovery) THEN LocalPlan(t)
  ELSE IF a.intent = "travel_planning" \/ Mentions(t, TravelPlan) THEN TravelPlanOf(t)
  ELSE IF a.intent = "simple_fact" \/ IsSimpleFact(t, a.words) THEN DirectPlan(t)
  ELSE IF a.intent \in {"knowledge_lookup", "information_retrieval"} \/ Mentions(t, Lookup) THEN LookupPlan(t)
  ELSE <<>>

(* The tools the orchestrator adds: a finance node always gets its own, a  *)
(* research node that says nothing of one the suggested one.               *)
Hinted(plan, a) ==
  [i \in DOMAIN plan |->
     CASE plan[i].skill = "finance" -> [plan[i] EXCEPT !.tool = "finance"]
       [] plan[i].skill = "research" /\ plan[i].tool = Unset ->
            [plan[i] EXCEPT !.tool = SuggestTool(IF plan[i].text = {} THEN a.text ELSE plan[i].text, a.text)]
       [] OTHER -> plan[i]]

Plans(a, skills, replies) ==
  IF FixedPlan(a) # <<>> THEN {Hinted(FixedPlan(a), a)}
  ELSE {Hinted(TaskPlan(a, r, reply), a) : r \in Routings(a, skills), reply \in replies}
=============================================================================
