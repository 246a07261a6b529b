------------------------------ MODULE Prompts ------------------------------
(***************************************************************************)
(* What planner.py, input_analyzer.py, execution_gate.py, tool_analyzer.py *)
(* and semantic_router.py read out of a text.  All of them look for hint   *)
(* words and nothing else, so a text is the set of the hints that occur in *)
(* it; the Vietnamese spellings of a hint are left to the English one.     *)
(* "?" stands for a question, "place" for what _has_location_signal finds, *)
(* "url" and "sum" for what the tool analyzer takes for an address and for *)
(* an arithmetic operator.                                                 *)
(***************************************************************************)
EXTENDS Integers, Sequences, Texts

TimeSensitive == {"today", "latest", "weather", "news", "price", "current"}
Weather == {"weather", "forecast", "rain", "snow", "temperature", "humidity"}
Market == {"gold price", "xau", "xauusd", "crypto", "bitcoin", "btc", "ethereum", "eth",
           "exchange rate", "forex"}
MarketAnalysis == {"outlook", "trend", "assessment", "analyze", "analysis"}
GenericAnalysis == MarketAnalysis \cup {"impact"}
Commodity == {"cafe", "coffee", "arabica", "robusta", "commodity", "pepper"}
Research == {"search", "research"} \cup TimeSensitive
Lookup == {"information search", "lookup", "find information", "who is", "what is"}
LocalDiscovery ==
  {"restaurant", "hotel", "resort", "homestay", "attraction", "things to do", "near me", "food", "eat",
   "dining", "breakfast", "lunch", "dinner", "brunch", "meal", "cuisine", "street food", "vacation"}
TravelPlan == {"travel plan", "itinerary", "2 day", "3 day"}
SimpleFact == {"what is", "who is", "population", "capital", "definition", "meaning"}
Greeting == {"hello", "hi", "hey", "good morning", "good afternoon", "good evening"}

NeedsResearch(t) == Mentions(t, Research)

IsMarketAnalysis(t) ==
  /\ Mentions(t, MarketAnalysis)
  /\ Mentions(t, Commodity \cup Market \cup {"month", "week", "quarter", "recent"})

IsTrendAnalysis(t) ==
  /\ Mentions(t, MarketAnalysis)
  /\ Mentions(t, Commodity \cup Market \cup {"month", "week", "quarter", "recent", "year"})

IsGreeting(t, words) ==
  /\ words \in 1..6
  /\ Mentions(t, Greeting)
  /\ ~Mentions(t, Market \cup Lookup \cup Research \cup Weather \cup GenericAnalysis)

IsSimpleFact(t, words) ==
  /\ words <= 14
  /\ Mentions(t, SimpleFact)
  /\ ~Mentions(t, Market \cup {"today", "latest", "real-time"}) /\ ~IsMarketAnalysis(t)

-----------------------------------------------------------------------------
(* The analyzer's own tables, which differ from the planner's.             *)

AnalyzerLocal ==
  {"restaurant", "hotel", "resort", "homestay", "attraction", "things to do", "near me", "beach"}
AnalyzerTravel == TravelPlan \cup {"trip plan"}

(* The first window whose words occur.                                     *)
TimeWindow(t) ==
  FirstMention(t, << <<{"6 months"}, "6m">>, <<{"today"}, "intraday">>, <<{"week"}, "1w">>,
                     <<{"month"}, "1m">>, <<{"past", "last"}, "recent">>, <<{"quarter"}, "1q">>,
                     <<{"year"}, "1y">>, <<{"recent", "latest"}, "recent">> >>, "unspecified")

-----------------------------------------------------------------------------
(* The execution gate's tables.                                            *)

Trivial == {"hello", "hi", "hey", "yo", "good morning", "good afternoon", "good evening"}
GateAnalysis == {"analysis", "analyze", "trend", "outlook"}

(* A plan for the open air at a time and a place asks for the weather      *)
(* without saying so.                                                      *)
AsksWeatherTacitly(t) ==
  /\ Mentions(t, {"picnic", "camping", "walk", "hiking", "outdoor"})
  /\ Mentions(t, {"tomorrow", "weekend"})
  /\ "place" \in t

IsTrivial(t, words) ==
  \/ words = 0
  \/ /\ words <= 3
     /\ Mentions(t, Trivial)
     /\ ~Mentions(t, Market \cup Lookup \cup Weather \cup GateAnalysis)
     /\ ~IsMarketAnalysis(t) /\ ~AsksWeatherTacitly(t)

-----------------------------------------------------------------------------
(* The tool the analyzer of tools suggests for a text, and the skill the   *)
(* router gives a task.  Short of its guardrails the router compares       *)
(* vectors of token hashes that differ from process to process, so any     *)
(* skill may win, or none reach the threshold.                             *)

ToolMarket == (Market \ {"crypto", "bitcoin"}) \cup {"crypto price", "bitcoin price"}
ToolLocal == AnalyzerLocal \cup {"travel", "trip"}

SuggestTool(query, context) ==
  FirstMention(query \cup (context \ {"url", "sum"}),
               << <<{"url"}, "fetch_page">>, <<{"weather", "forecast", "temperature"}, "weather">>,
                  <<ToolMarket, "finance">>, <<{"news", "headline", "latest"}, "news_api">>,
                  <<ToolLocal, "local_search">>, <<{"sum", "calculate", "math", "equation"}, "calculator">>,
                  <<{"fetch", "website", "content from", "read"}, "fetch_page">> >>, "web_search")

SynthesisWords == {"synthesize", "merge outputs", "final answer", "conclusion"}
RouterLookup == {"lookup", "information search", "search", "find information", "weather", "forecast",
                 "temperature", "rain", "tomorrow", "restaurant", "hotel", "travel", "itinerary", "place name"}

Routes(t, skills) ==
  LET synthesis == Mentions(t, SynthesisWords)
  IN IF (NeedsResearch(t) \/ Mentions(t, RouterLookup)) /\ ~synthesis THEN {"research"}
     ELSE {"general_answer"} \cup (IF synthesis THEN skills ELSE skills \ {"synthesizer"})
=============================================================================
