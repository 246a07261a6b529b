----------------------------- MODULE MCPipeline -----------------------------
(* Prompts that lead to each kind of plan, a search that finds nothing,     *)
(* what contradicts itself, one figure, or what nobody wrote, and a model   *)
(* that may say anything.                                                   *)
EXTENDS Pipeline

Doc(url, provider, words) ==
  [title |-> {"page"}, snippet |-> words, url |-> url, site |-> url, provider |-> provider,
   freshness |-> "live", published |-> "none", reliability |-> 70]

Apart == Found(<<Doc("bloomberg", "serpapi", {"coffee", "harvest", "f100"}),
                 Doc("insight", "serpapi", {"coffee", "drought", "f130"})>>, 60)
Places == Found(<<Doc("guide", "osm_local", {"Bistro", "in town", "f110"})>>, 40)
Invented == Found(<<Doc("m1", "mock", {"coffee", "demo"})>>, 20)
Nothing == Found(<<>>, 0)

MCBatches == {Apart, Places, Invented, Nothing}
MCFeeds == {Silence, {}, {"stooq"}}
AllFeeds == {{"goldapi", "stooq", "coingecko"}}

Prompt(clauses, words) == [clauses |-> clauses, words |-> words]

Greet == Prompt(<<{"hello"}>>, 1)
Fact == Prompt(<<{"capital", "?"}>>, 6)
Sum == Prompt(<<{"sum"}>>, 20)
Coffee == Prompt(<<{"coffee", "trend"}>>, 5)
Lunch == Prompt(<<{"restaurant", "place"}>>, 5)
Trip == Prompt(<<{"itinerary", "place"}>>, 5)
Gold == Prompt(<<{"gold price"}>>, 3)
Crypto == Prompt(<<{"crypto"}>>, 3)
Rain == Prompt(<<{"weather", "place"}>>, 4)
Circle == Prompt(<<{"example"}, {"today", "search", "compare"}>>, 20)

AllPrompts == {Greet, Fact, Sum, Coffee, Lunch, Trip, Gold, Rain, Circle}
MarketPrompts == {Gold, Crypto}

Understood(intent, conf, tier, candidates) ==
  [intent |-> intent, split |-> TRUE, mode |-> "parallel", conf |-> conf, tier |-> tier, candidates |-> candidates]

Close == <<[name |-> "question", conf |-> 45], [name |-> "research", conf |-> 40]>>

MCAnalysisReplies == {P!Failed, Understood("request", 80, "direct", <<>>), Understood("question", 50, "direct", Close)}
NoReply == {P!Failed}
MCGateReplies == {P!Failed, [tier |-> "complex_task", pipeline |-> TRUE, conf |-> 90, reason |-> "model"]}
MCLinkReplies == {P!Failed, [links |-> {<<2, 1>>, <<3, 2>>}]}
MCCriticReplies == {Silence, {}, {"hallucination", "weak_reasoning"}, {"missing_context"}}
=============================================================================
