--------------------------- MODULE InputAnalysis ---------------------------
(***************************************************************************)
(* What is decided about a prompt before anything is planned: the analyzer *)
(* (input_analyzer.py), the two gates (search_decision_gate.py,            *)
(* execution_gate.py), the strategy (meta_reasoning_agent.py) and the      *)
(* paths to run in parallel (parallel_execution_orchestrator.py).  Each of *)
(* them asks the model for JSON and has rules for when that fails.         *)
(*                                                                         *)
(* A prompt is [clauses, words]: the texts that ". , ; and" separate, and  *)
(* how many words there are.  A reply of the model is a record, or Failed  *)
(* when the call raised or its JSON did not validate.  Confidences and     *)
(* risks are in hundredths.                                                *)
(***************************************************************************)
EXTENDS Prompts, SequencesExt

Failed == [failed |-> TRUE]

Text(p) == UNION Range(p.clauses)

TierOf(intent, other) ==
  CASE intent \in {"market_price", "knowledge_lookup", "information_retrieval", "local_discovery", "research"}
         -> "research"
    [] intent \in {"market_analysis", "trend_analysis", "travel_planning"} -> "analytical"
    [] intent \in {"simple_fact", "question", "request"} -> "direct"
    [] OTHER -> other

KnownIntents ==
  {"request", "question", "research", "knowledge_lookup", "information_retrieval", "market_price",
   "market_analysis", "trend_analysis", "local_discovery", "travel_planning", "simple_fact"}

Analysis(p, intent, tasks, mode, window, conf, tier, candidates) ==
  [text |-> Text(p), words |-> p.words, intent |-> intent, tasks |-> tasks, mode |-> mode,
   window |-> window, conf |-> conf, tier |-> tier, candidates |-> candidates, ambiguous |-> FALSE,
   pipeline |-> TRUE, reason |-> ""]

(* The two most likely intents are too close to tell apart.                *)
IsAmbiguous(candidates) ==
  /\ Len(candidates) >= 2
  /\ candidates[1].conf >= 30
  /\ candidates[1].conf - candidates[2].conf < 20

(* _resolve_intent: the words of the prompt decide prices, places and      *)
(* trips whatever the model says; after that two close candidates, then a  *)
(* confident model, and otherwise research.                                *)
Resolve(a) ==
  LET as(intent, other) == [a EXCEPT !.intent = intent, !.tier = TierOf(intent, other)]
      known(intent) == IF intent \in KnownIntents THEN intent ELSE "research"
  IN CASE a.words = 0 -> a
       [] OTHER ->
            IF a.tier = "trivial" THEN [a EXCEPT !.intent = "request"]
            ELSE IF Mentions(a.text, Market) THEN as("market_price", "research")
            ELSE IF Mentions(a.text, AnalyzerLocal) THEN as("local_discovery", "research")
            ELSE IF Mentions(a.text, AnalyzerTravel) THEN as("travel_planning", "analytical")
            ELSE IF IsAmbiguous(a.candidates) /\ a.conf < 70
                 THEN [as(known(a.candidates[1].name), "research") EXCEPT !.ambiguous = TRUE]
            ELSE IF a.conf >= 70 THEN as(known(a.intent), "direct")
            ELSE as("research", "research")

(* The clauses as tasks: one at least, and no more than four whoever makes *)
(* them of the prompt.                                                     *)
SubTasks(p) == IF p.clauses = <<>> THEN <<Text(p)>> ELSE SubSeq(p.clauses, 1, Min({4, Len(p.clauses)}))

(* Without the model.                                                      *)
RuleAnalysis(p) ==
  LET t == Text(p)
      tasks == SubTasks(p)
      intent == IF NeedsResearch(t) THEN "research" ELSE IF "?" \in t THEN "question" ELSE "request"
  IN Analysis(p, intent, tasks, IF Len(tasks) > 1 THEN "parallel" ELSE "sequential",
              TimeWindow(t), 35, "", <<>>)

(* With it: the model keeps the hints of the prompt when it rewrites it,   *)
(* as it is told to.                                                       *)
ModelAnalysis(p, reply) ==
  Analysis(p, reply.intent, IF reply.split THEN SubTasks(p) ELSE <<Text(p)>>, reply.mode,
           TimeWindow(Text(p)), reply.conf, reply.tier, reply.candidates)

Analyze(p, reply) ==
  Resolve(IF reply = Failed THEN RuleAnalysis(p) ELSE ModelAnalysis(p, reply))

-----------------------------------------------------------------------------
(* The search gate: is live data needed.  The model's answer is taken      *)
(* whatever its confidence.                                                *)

NeedSearch(a, reply) ==
  IF reply # Failed THEN reply.need
  ELSE CASE a.intent \in {"market_price", "market_analysis", "trend_analysis", "local_discovery",
                          "travel_planning", "knowledge_lookup"} -> TRUE
         [] a.intent \in {"simple_fact", "request", "question"} -> FALSE
         [] OTHER -> a.tier \notin {"trivial", "direct"}

-----------------------------------------------------------------------------
(* The execution gate: is a pipeline needed.                               *)

Decision(tier, pipeline, conf, reason) ==
  [tier |-> tier, pipeline |-> pipeline, conf |-> conf, reason |-> reason]

DecideByRules(a) ==
  LET t == a.text IN
  IF AsksWeatherTacitly(t) THEN Decision("lookup", TRUE, 88, "implicit_weather_suitability")
  ELSE IF IsTrivial(t, a.words) THEN Decision("trivial", FALSE, 95, "trivial_small_talk")
  ELSE IF a.intent = "market_price" \/ Mentions(t, Market)
       THEN Decision("market_realtime", TRUE, 90, "market_realtime_detected")
  ELSE IF a.intent \in {"knowledge_lookup", "information_retrieval", "research"} \/ Mentions(t, Lookup \cup Weather)
       THEN Decision("lookup", TRUE, 85, "lookup_or_research_detected")
  ELSE IF a.intent \in {"market_analysis", "trend_analysis"} \/ IsMarketAnalysis(t) \/ Mentions(t, GateAnalysis)
       THEN Decision("analysis", TRUE, 84, "analysis_detected")
  ELSE IF a.intent \in {"local_discovery", "travel_planning"} \/ Mentions(t, LocalDiscovery)
       THEN Decision("lookup", TRUE, 88, "local_discovery_detected")
  ELSE IF Len(a.tasks) >= 2 THEN Decision("complex_task", TRUE, 70, "multiple_subtasks")
  ELSE Decision(IF a.intent = "simple_fact" THEN "lookup" ELSE "trivial", FALSE, 68, "default_direct_answer")

(* A model that is sure enough overrules the rules.                        *)
Decide(a, reply) ==
  LET d == IF reply # Failed /\ reply.conf >= 70 THEN reply ELSE DecideByRules(a)
      intent == IF d.reason \in {"implicit_weather_suitability", "lookup_or_research_detected",
                                 "market_realtime_detected"} THEN "research"
                ELSE IF d.tier = "analysis" /\ a.intent = "request" THEN "trend_analysis" ELSE a.intent
  IN [a EXCEPT !.intent = intent, !.tier = d.tier, !.pipeline = d.pipeline, !.reason = d.reason]

-----------------------------------------------------------------------------
(* The strategy, and the paths it would have run side by side.             *)

Strategy(a, reply) ==
  IF reply # Failed THEN reply
  ELSE CASE a.tier = "trivial" -> [name |-> "direct", conf |-> 40, hallucination |-> 10, missing |-> 10]
         [] a.tier = "lookup" -> [name |-> "research_first", conf |-> 40, hallucination |-> 20, missing |-> 30]
         [] OTHER -> [name |-> "hybrid_parallel", conf |-> 40, hallucination |-> 40, missing |-> 50]

SkillOf(intent) ==
  CASE intent = "market_price" -> "FinanceSkill"
    [] intent \in {"research"} -> "ResearchSkill"
    [] intent \in {"travel_planning"} -> "PlanningSkill"
    [] intent \in {"market_analysis", "trend_analysis"} -> "AnalysisSkill"
    [] OTHER -> "GeneralAnswerSkill"

(* should_enable_parallel_execution.  It looks for the risks under names   *)
(* the strategy does not give them, and finds none; it looks for the       *)
(* candidates' intents under a name they do not have, so that two close      *)
(* intents are one path, the general answer.                               *)
Paths(enabled, primary, secondary, merge) ==
  [enabled |-> enabled, primary |-> primary, secondary |-> secondary, merge |-> merge]

ParallelPaths(strategy, a) ==
  LET risk == [hallucination |-> 0, missing |-> 0]
      c == a.candidates
      confs == {c[i].conf : i \in DOMAIN c}
  IN IF strategy.conf < 60
     THEN IF risk.missing > risk.hallucination
          THEN Paths(TRUE, <<"GeneralAnswerSkill">>, <<"ResearchSkill">>, "weighted")
          ELSE Paths(TRUE, <<"ResearchSkill">>, <<"GeneralAnswerSkill">>, "confidence_first")
     ELSE IF risk.hallucination > 60 THEN Paths(TRUE, <<"ResearchSkill">>, <<"GeneralAnswerSkill">>, "weighted")
     ELSE IF risk.missing > 60 THEN Paths(TRUE, <<"GeneralAnswerSkill">>, <<"ResearchSkill">>, "weighted")
     ELSE IF Len(c) > 1 /\ Max(confs) - Min(confs) < 20
          THEN Paths(TRUE, <<SkillOf("")>>, <<>>, "voting")
     ELSE Paths(FALSE, CASE strategy.name = "direct" -> <<"GeneralAnswerSkill">>
                         [] strategy.name = "research_first" -> <<"ResearchSkill">>
                         [] OTHER -> <<"GeneralAnswerSkill", "ResearchSkill">>, <<>>, "weighted")
=============================================================================
