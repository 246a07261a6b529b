------------------------------ MODULE Pipeline ------------------------------
(***************************************************************************)
(* OrchestratorSkillAgent.stream: one prompt after the other is analysed,  *)
(* planned, carried out node by node, answered and reviewed.  Between two  *)
(* prompts the quotes of the finance tool and the breaker of the place     *)
(* extraction are all that the skills keep.                                *)
(*                                                                         *)
(* Nodes that could run side by side run in the order of the plan here:    *)
(* none of them sees another, and DAGExecutor has their interleavings.     *)
(* A node that is retried comes to the outcome of its last attempt, and    *)
(* one whose result is cached to an outcome it could have come to again.   *)
(***************************************************************************)
EXTENDS Answer

CONSTANTS
  Prompts,           \* prompts that may be asked: [clauses, words]
  AnalysisReplies,   \* what the model may reply to the analyzer,
  GateReplies,       \* to the execution gate,
  NeedReplies,       \* to the search gate,
  StrategyReplies,   \* to the choice of a strategy,
  LinkReplies,       \* to the question which tasks need which,
  CriticReplies,     \* and to the critic
  Says,              \* what it may say to a skill: subset of Sayings
  Batches,           \* what a search may reply
  FeedSets           \* finance providers that may answer

P == INSTANCE Planner

(* What a search may find; what an answer is made of: the words of what    *)
(* was asked and found, those the skills write themselves and those the    *)
(* model invents; and the addresses of the sources.                        *)
Replied == UNION {Range(b.docs) : b \in Batches}
NodeTexts == UNION {{P!Text(p)} \cup Range(p.clauses) : p \in Prompts}

Wording ==
  (UNION {d.snippet : d \in Replied}) \cup (UNION NodeTexts) \cup Invention \cup PlaceNames \cup Fallback
  \cup {"XAU", "BTC", "ETH", "price", "result", "fallback", "source", "not enough verified information",
        "task", "observed_value"} \cup DOMAIN Figures

Addresses ==
  {d.url : d \in Replied}
  \cup {"tool://calculator", "goldapi", "stooq", "duckduckgo", "coingecko", "kitco.com", "sjc.com.vn"}

(* A line with an address in it is no claim: the words of the others and   *)
(* the addresses are apart.                                                *)
ASSUME PipelineAssumption ==
  /\ Says \subseteq Sayings
  /\ Prompts \subseteq [clauses : Seq(SUBSET STRING), words : Nat]
  /\ \A b \in Batches :
       b.docs \in Seq([title : SUBSET STRING, snippet : SUBSET STRING, url : STRING, site : STRING, provider : STRING,
                      freshness : STRING, published : STRING, reliability : Int])
  /\ \A d \in Replied : IsFiniteSet(d.title) /\ IsFiniteSet(d.snippet)
  /\ \A q \in NodeTexts : IsFiniteSet(q)
  /\ Wording \cap Addresses = {}

VARIABLES
  quotes,      \* the cache of the finance tool
  extraction,  \* the breaker of the extraction of places
  chat         \* the prompt in hand

vars == <<quotes, extraction, chat>>

Registered ==
  {"research", "geo_intent", "local_discovery", "place_verification", "review_consensus", "candidate_extraction",
   "itinerary_planner", "finance", "analysis", "planning", "compare", "code_example", "general_answer", "synthesizer",
   "fusion"}

Asked == P!Text(chat.prompt)

(* A search, or a tool that searches, over the replies it may get.         *)
Attempts == {<<b>> : b \in Batches} \cup {<<Lost, b>> : b \in Batches} \cup {<<Lost, Lost, Lost>>}
SearchTools == {"web_search", "local_search", "news_api", "fetch_page", "weather", "calculator"}

ToolOutputs == [n \in NodeTexts \X SearchTools |-> {UseTool(n[2], n[1], a) : a \in Attempts}]

Outputs(q, tool) == IF tool = "" THEN {Output} ELSE ToolOutputs[<<q, tool>>]

Researches(q, tool) ==
  {ResearchSkill(q, tool, out, b, say) : out \in Outputs(q, tool), b \in Batches \cup {Lost}, say \in Says}

ResearchResults == [n \in NodeTexts \X (SearchTools \cup {""}) |-> Researches(n[1], n[2])]

Idle == [pc |-> "idle", prompt |-> [clauses |-> <<>>, words |-> 0], tasks |-> <<>>, plan |-> <<>>,
         paths |-> {}, live |-> FALSE, results |-> <<>>, payload |-> {}, issues |-> {}]

Init ==
  /\ quotes = EmptyCache
  /\ extraction = Unblocked
  /\ chat = Idle

-----------------------------------------------------------------------------
(* Analysis, gates, strategy and plan: nothing else happens meanwhile that *)
(* they could see.  The search gate's answer and the paths are told to the *)
(* user, and change nothing.                                               *)
Receive(p) ==
  /\ chat.pc = "idle"
  /\ \E reply \in AnalysisReplies, gate \in GateReplies, need \in NeedReplies, strategy \in StrategyReplies :
       LET known == P!Analyze(p, reply)
           a == P!Decide(known, gate)
       IN \E plan \in P!Plans(a, Registered, LinkReplies) :
            chat' = [Idle EXCEPT !.pc = "running", !.prompt = p, !.plan = plan,
                                 !.tasks = SubSeq(P!TaskIds, 1, Len(a.tasks)), !.live = P!NeedSearch(known, need),
                                 !.paths = P!ParallelPaths(P!Strategy(a, strategy), a)]
  /\ UNCHANGED <<quotes, extraction>>

(* A node that failed is tried again.                                      *)
BugTodo ==
  LET ended == IdsOf(chat.results)
      kept == {id \in ended : ResultOf(chat.results, id).ok}
  IN {i \in DOMAIN chat.plan : chat.plan[i].id \notin kept /\ chat.plan[i].deps \subseteq ended}

Todo == {i \in DOMAIN chat.plan : /\ chat.plan[i].id \notin IdsOf(chat.results)
                                  /\ chat.plan[i].deps \subseteq IdsOf(chat.results)}
Now == chat.plan[Min(Todo)]
At(skill) == chat.pc = "running" /\ Todo # {} /\ Now.skill = skill

Deps == [d \in Now.deps |-> ResultOf(chat.results, d)]
Query == IF Now.text = {} THEN Asked ELSE Now.text

(* Why a node failed is told to the user and to nobody else.               *)
Ends(r) == chat' = [chat EXCEPT !.results = Append(@, [id |-> Now.id, result |-> [r EXCEPT !.error = ""]])]
EndsWith(r) == Ends(r) /\ UNCHANGED <<quotes, extraction>>

(* The executor gives up on a node: its time is over, or the breaker of    *)
(* its skill refuses it.                                                   *)
NodeFails ==
  /\ chat.pc = "running" /\ Todo # {}
  /\ EndsWith(Fails("timeout"))

GeneralAnswerNode ==
  /\ At("general_answer") \/ At("planning")
  /\ \E say \in Says : EndsWith(GeneralAnswer(say))

CompareNode ==
  /\ At("compare") \/ At("code_example")
  /\ \E say \in Says : EndsWith(CompareOrExample(Deps, say))

ResearchNode ==
  /\ At("research")
  /\ \/ Now.tool # "finance" /\ \E r \in ResearchResults[<<Query, Now.tool>>] : EndsWith(r)
     \/ /\ Now.tool = "finance"
        /\ \E feeds \in FeedSets, say \in Says :
             /\ Ends(ResearchSkill(Query, "finance", Finance(Query, quotes, feeds), Lost, say))
             /\ quotes' = Cached(Query, quotes, feeds)
        /\ UNCHANGED extraction

FinanceNode ==
  /\ At("finance")
  /\ \E feeds \in FeedSets :
       /\ Ends(FinanceSkill(Finance(Query, quotes, feeds)))
       /\ quotes' = Cached(Query, quotes, feeds)
  /\ UNCHANGED extraction

AnalysisNode == At("analysis") /\ \E say \in Says : EndsWith(AnalysisSkill(Now.text, Deps, say))

SynthesizerNode ==
  At("synthesizer") /\ \E say \in Says : EndsWith(Synthesizer(Deps, Mentions(Asked, P!Weather), say))

FusionNode == At("fusion") /\ \E say \in Says : EndsWith(Fusion(Deps, say))

GeoIntentNode == At("geo_intent") /\ EndsWith(GeoIntent(Query))

LocalDiscoveryNode ==
  /\ At("local_discovery")
  /\ \E out \in ToolOutputs[<<Asked, "local_search">>], b \in Batches \cup {Lost} :
       EndsWith(LocalDiscovery(PlaceQuery(Query, Deps), out, b))

PlaceNode ==
  \/ At("place_verification") /\ EndsWith(PlaceVerification(Deps))
  \/ At("review_consensus") /\ EndsWith(ReviewConsensus(Deps))

CandidateNode ==
  /\ At("candidate_extraction")
  /\ \E say \in Says :
       /\ Ends(CandidateExtraction(Deps))
       /\ extraction' = IF Local(Deps).ok THEN Extracting(extraction, say) ELSE extraction
  /\ UNCHANGED quotes

ItineraryNode == At("itinerary_planner") /\ \E say \in Says : EndsWith(ItineraryPlanner(Deps, say))

-----------------------------------------------------------------------------
(* Every node that can run has run.                                        *)
Compose ==
  /\ chat.pc = "running" /\ Todo = {}
  /\ chat' = [chat EXCEPT !.pc = "answered",
       !.payload = Payload(chat.results, chat.tasks)]
  /\ UNCHANGED <<quotes, extraction>>

(* The answer is all that stays of the prompt.                             *)
Review ==
  /\ chat.pc = "answered"
  /\ \E reply \in CriticReplies :
       LET issues == Critique(reply, chat.payload.sources)
           p == chat.payload
       IN \E extra \in IF WantsEvidence(p, issues) THEN Batches \cup {Lost} ELSE {Lost},
             other \in IF MissingNiche(p) # "none" THEN Batches \cup {Lost} ELSE {Lost} :
            chat' = [Idle EXCEPT !.pc = "done", !.issues = issues, !.payload = Augmented(p, issues, extra, other)]
  /\ UNCHANGED <<quotes, extraction>>

(* The run service has taken the answer out of the cache of answers.       *)
Deliver ==
  /\ chat.pc = "done"
  /\ chat' = Idle
  /\ UNCHANGED <<quotes, extraction>>

-----------------------------------------------------------------------------
(* Time passes: a quote ages, the breaker of the extraction cools down.    *)
Age(k) ==
  /\ chat.pc = "idle"
  /\ quotes[k] # NoQuote
  /\ quotes' = [quotes EXCEPT ![k] = Aged(@)]
  /\ UNCHANGED <<extraction, chat>>

Unblock ==
  /\ chat.pc = "idle"
  /\ extraction.blocked
  /\ extraction' = [extraction EXCEPT !.blocked = FALSE]
  /\ UNCHANGED <<quotes, chat>>

Next ==
  \/ \E p \in Prompts : Receive(p)
  \/ NodeFails
  \/ GeneralAnswerNode \/ CompareNode \/ ResearchNode \/ FinanceNode \/ AnalysisNode \/ SynthesizerNode \/ FusionNode
  \/ GeoIntentNode \/ LocalDiscoveryNode \/ PlaceNode \/ CandidateNode \/ ItineraryNode
  \/ Compose \/ Review \/ Deliver
  \/ \E k \in CacheKeys : Age(k)
  \/ Unblock

Spec == Init /\ [][Next]_vars

-----------------------------------------------------------------------------
TypeOK ==
  /\ quotes \in [CacheKeys -> [asset : {"none", "XAU", "BTC", "ETH"}, age : {"none", "fresh", "stale"},
                               source : {"none", "goldapi", "stooq", "duckduckgo", "coingecko"}]]
  /\ extraction \in [streak : 0..ExtractionThreshold, blocked : BOOLEAN]
  /\ chat.pc \in {"idle", "running", "answered", "done"}
  /\ chat.pc \in {"running", "answered"} => chat.prompt \in Prompts
  /\ P!Skills(chat.plan) \subseteq Registered
  /\ IdsOf(chat.results) \subseteq P!Ids(chat.plan)
  /\ Len(chat.results) = Cardinality(IdsOf(chat.results))

(* planner.py: whatever the model says of the dependencies, every plan can *)
(* be carried out to its end: its nodes have different names, need only    *)
(* nodes of the plan, and none of them waits for itself; and when there    *)
(* are several, one of them ends the plan and hears of all the others.     *)
PlanIsExecutable ==
  LET plan == chat.plan
      ids == P!Ids(plan)
  IN chat.pc \in {"running", "answered"} =>
       /\ Cardinality(ids) = Len(plan)
       /\ \A i \in DOMAIN plan : plan[i].deps \subseteq ids
       /\ \A S \in (SUBSET ids) \ {{}} : \E i \in DOMAIN plan : plan[i].id \in S /\ plan[i].deps \cap S = {}
       /\ Len(plan) > 1 =>
            \E last \in {"synthesis", "fusion"} \cap ids :
              \A S \in SUBSET ids :
                last \in S /\ (\A i \in DOMAIN plan : plan[i].id \in S => plan[i].deps \subseteq S) => S = ids

(* final_response_builder.py: whichever nodes fail, the text of an error   *)
(* is never what the user is shown, and an answer that stands for a        *)
(* failure comes without claims of its own.                                *)
NoErrorShown ==
  chat.pc \in {"answered", "done"} =>
    /\ ~chat.payload.error
    /\ chat.payload.failed => ~Mentions(UNION chat.payload.claims, Invention)

(* An answer none of whose claims has two words of a piece of evidence, or *)
(* that a skill put a warning before, reaches the user under a notice, or  *)
(* as the message that nothing could be verified.  Evidence is what the    *)
(* research found and also what the ledger says of a data point, the       *)
(* description of the task among it (result_formatting.py:268,             *)
(* skills.py:818): a claim that the model invented and that repeats two    *)
(* words of its task counts as borne out.  The first promise is not made   *)
(* when the calculator is in the ledger: the line that cites it has no web *)
(* address, so that it is taken for a claim, and for one that is covered.  *)
Evidence(results) ==
  (UNION {{d.snippet : d \in Range(n.result.sources)} : n \in Kind(results, "research")})
  \cup {PointClaim(p) : p \in PointsOf(results)}

Unsupported(claims) ==
  claims # {} /\ \A c \in claims, s \in Evidence(chat.results) : Cardinality(c \cap s) < 2

WarningReachesUser ==
  LET last == {"synthesis", "fusion"} \cap IdsOf(chat.results)
      calculated == "tool://calculator" \in chat.payload.ledger
  IN chat.pc = "answered" /\ ~chat.payload.failed =>
       /\ Unsupported(chat.payload.claims) /\ ~calculated => chat.payload.notice
       /\ (\E id \in last : ResultOf(chat.results, id).text.notice) => chat.payload.notice

(* skills.py: what ResearchSkill cites was found and not invented, whether *)
(* a tool or the search policy brought it.                                 *)
Researched == {i \in DOMAIN chat.plan : chat.plan[i].skill = "research" /\ chat.plan[i].id \in IdsOf(chat.results)}

MockStaysOut ==
  \A i \in Researched :
    LET r == ResultOf(chat.results, chat.plan[i].id)
    IN \A d \in Range(r.sources) : d.provider # "mock" /\ d.site # "example.local"

(* finance_tool.py: a price that is quoted is the price of the asset that  *)
(* was asked for.                                                          *)
QuoteIsOfAsset ==
  \A n \in Range(chat.results) : \A d \in Range(n.result.sources) :
    Mentions(d.title, {"XAU", "BTC", "ETH"}) => d.title = {Asset(Asked)}
=============================================================================
