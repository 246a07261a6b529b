------------------------------- MODULE Skills -------------------------------
(***************************************************************************)
(* The skills of skills.py: what a node returns, from its text, what its   *)
(* dependencies returned, the tool or search it uses and what the model    *)
(* says.                                                                   *)
(*                                                                         *)
(* A text is [claims, notice, hedge, read, error]: the claims it makes,    *)
(* each a set of words; whether it opens with a disclaimer, note or        *)
(* warning; whether it reads as insufficient; the sources its author was   *)
(* shown; and whether it is the "ERROR:" text of a node that failed.       *)
(* What the model may say to a prompt is one of Sayings.                   *)
(***************************************************************************)
EXTENDS Tools

Sayings == {"down", "empty", "unsure", "grounded", "invented"}
Invention == {"invented", "claim"}

NoText == [claims |-> {}, notice |-> FALSE, hedge |-> FALSE, read |-> {}, error |-> FALSE]
Hedge == [NoText EXCEPT !.hedge = TRUE]
Notice(t) == [t EXCEPT !.notice = TRUE]
Excerpts(docs) == [NoText EXCEPT !.claims = {d.snippet : d \in docs}, !.read = {d.url : d \in docs}]
Merged(texts) ==
  [NoText EXCEPT !.claims = UNION {t.claims : t \in texts}, !.read = UNION {t.read : t \in texts}]

(* A sentence of the skill's own, where the model had nothing to say.      *)
Fallback == {"no conclusion"}
Inconclusive == [NoText EXCEPT !.claims = {Fallback}]

(* What the model makes of the texts it was shown, if it says anything;    *)
(* and what a skill puts in the place of an empty reply.                   *)
Said(say, texts) ==
  LET shown == Merged(texts)
  IN CASE say = "grounded" -> shown
       [] say = "invented" -> [shown EXCEPT !.claims = {Invention}]
       [] OTHER -> [shown EXCEPT !.claims = {}, !.hedge = (say = "unsure")]

SaidOr(other, say, texts) == IF say = "empty" THEN other ELSE Said(say, texts)

Result == [ok |-> TRUE, error |-> "", kind |-> "text", text |-> NoText, sources |-> <<>>, conf |-> 0,
           points |-> {}, conflicts |-> 0, quality |-> "none", names |-> {}]
Fails(error) == [Result EXCEPT !.ok = FALSE, !.error = error, !.text = [NoText EXCEPT !.error = TRUE]]
Plain(t) == [Result EXCEPT !.text = t]

(* _generate: an exception of the model is the failure of the skill.       *)
Generated(say, texts) == IF say = "down" THEN Fails("model") ELSE Plain(Said(say, texts))
GeneratedOr(other, say, texts) == IF say = "down" THEN Fails("model") ELSE Plain(SaidOr(other, say, texts))

Research(t, sources, conf) ==
  [Result EXCEPT !.kind = "research", !.text = t, !.sources = sources, !.conf = conf]

Of(deps, kind) == {d \in DOMAIN deps : deps[d].ok /\ deps[d].kind = kind}
Texts(deps) == {deps[d].text : d \in DOMAIN deps}
Mean(S, value(_)) == MapThenSumSet(value, S) \div Max({1, Cardinality(S)})

(* What a dependency returned: nothing, when the node has no such one.     *)
Got(deps, id) == IF id \in DOMAIN deps THEN deps[id] ELSE Fails("")

-----------------------------------------------------------------------------
(* ResearchSkill.                                                          *)

IsMock(d) == d.provider = "mock" \/ d.site = "example.local" \/ Mentions(d.title \cup d.snippet, {"demo", "simulation"})

SubjectGroups == << <<{"cafe", "coffee", "arabica", "robusta"}, {"cafe", "coffee", "arabica", "robusta"}>>,
                    <<{"pepper"}, {"pepper"}>>, <<{"gold price", "xau", "xauusd"}, {"gold price", "xau", "xauusd"}>>,
                    <<{"bitcoin", "btc", "ethereum", "eth", "crypto"}, {"bitcoin", "btc", "ethereum", "eth", "crypto"}>> >>

(* Whatever was found.                                                     *)
BugFilter(q, docs) == [docs |-> Ranked(q, docs, Len(docs)), reason |-> IF docs = <<>> THEN "mock_only" ELSE ""]

(* Live documents about the subject, the best first; or why there is none. *)
Filter(q, docs) ==
  LET live == {i \in DOMAIN docs : ~IsMock(docs[i])}
      subject == FirstMention(q, SubjectGroups, {})
      relevant == {i \in live : subject = {} \/ Mentions(docs[i].title \cup docs[i].snippet, subject)}
  IN [docs |-> RankedAmong(q, docs, relevant, Cardinality(relevant)),
      reason |-> CASE live = {} -> "mock_only" [] live # {} /\ relevant = {} -> "insufficient_relevance"
                   [] OTHER -> ""]

Unfit == [mock_only |-> "insufficient_live_evidence", insufficient_relevance |-> "insufficient_relevant_evidence"]

Summarised(q, batch, say) ==
  LET fit == Filter(q, batch.docs)
  IN IF fit.reason # "" THEN Fails(Unfit[fit.reason])
     ELSE IF say = "down" THEN Fails("model")
     ELSE Research(SaidOr(Inconclusive, say, {Excerpts(Range(fit.docs))}), fit.docs, batch.conf)

(* The chosen tool, then the search provider: not after a failure of the   *)
(* finance tool, nor of one that has asked the same providers already.     *)
ResearchSkill(q, tool, out, batch, say) ==
  CASE tool # "" /\ out.ok -> Summarised(q, Found(AsDocuments(tool, out.docs), out.conf), say)
    [] tool = "finance" /\ ~out.ok -> Fails(out.error)
    [] tool \notin {"", "finance"} /\ ~out.ok /\ out.orchestrated -> Fails(out.error)
    [] OTHER -> IF batch = Lost THEN Fails("search") ELSE Summarised(q, batch, say)

-----------------------------------------------------------------------------
(* FinanceSkill: no answer of the tool fails it.  Without a price it names *)
(* two sites as its sources.                                               *)

Hint(site) ==
  [title |-> {"reference"}, snippet |-> {"fallback", "source"}, url |-> site, site |-> site,
   provider |-> "finance_chain", freshness |-> "live", published |-> "none", reliability |-> 55]

FinanceSkill(out) ==
  IF out.ok THEN Research(Excerpts(Range(out.docs)), out.docs, out.conf)
  ELSE Research(Hedge, <<Hint("kitco.com"), Hint("sjc.com.vn")>>, Max({20, out.conf}))

-----------------------------------------------------------------------------
(* AnalysisSkill.  The first figure of a source is a data point of the     *)
(* task q, and is written down under the first 120 characters of the       *)
(* description of the task: the planner's words ("task"), which name what  *)
(* the prompt is about and for which time (its hint words, q).             *)

Figures == [f100 |-> 100, f103 |-> 103, f110 |-> 110, f130 |-> 130]

Point(q, d, f) ==
  [subject |-> q, figure |-> f, value |-> Figures[f], source |-> d.url, reliability |-> d.reliability,
   published |-> d.published]
PointClaim(p) == p.subject \cup {"task", "observed_value", p.figure}

PointsIn(q, d) == {Point(q, d, f) : f \in DOMAIN Figures \cap d.snippet}
Points(q, payloads) == UNION {PointsIn(q, d) : d \in UNION {Range(r.sources) : r \in payloads}}

(* All points are about one subject, the task.                             *)
Conflicts(points) ==
  LET values == {p.value : p \in points}
  IN IF Cardinality(points) >= 2 /\ 100 * (Max(values) - Min(values)) >= 6 * Max({1, Min(values)}) THEN 1 ELSE 0

Reliability(points) == IF points = {} THEN 45 ELSE Mean(points, LAMBDA p : p.reliability)
DataCoverage(points) == Min({100, (100 * Cardinality(points)) \div 6})
Diversity(points, of) == Min({100, (100 * Cardinality({p.source : p \in points})) \div of})

Quality(points) ==
  LET score == (45 * Reliability(points) + 25 * Diversity(points, 4) + 20 * DataCoverage(points)) \div 100
               - 12 * Conflicts(points)
  IN CASE score >= 72 -> "high" [] score \in 50..71 -> "medium" [] OTHER -> "low"

AnalysisConfidence(payloads, points) ==
  LET sum == 50 * Mean(payloads, LAMBDA r : r.conf) + 20 * Reliability(points) + 15 * Diversity(points, 5)
             + 15 * DataCoverage(points)
  IN Max({5, Min({98, sum \div 100 - 10 * Conflicts(points)})})

Analysed(t, conf, points, quality) ==
  [Result EXCEPT !.kind = "analysis", !.text = t, !.conf = conf, !.points = points,
                 !.conflicts = Conflicts(points), !.quality = quality]

AnalysisSkill(q, deps, say) ==
  LET payloads == {deps[d] : d \in Of(deps, "research")}
      points == Points(q, payloads)
      said == SaidOr(Inconclusive, say, {r.text : r \in payloads})
  IN IF say = "down" THEN Fails("model")
     ELSE IF payloads = {} THEN Analysed(Notice(said), 20, {}, "low")
     ELSE Analysed(said, AnalysisConfidence(payloads, points), points, Quality(points))

-----------------------------------------------------------------------------
(* The skills that are one call of the model: the answer of GeneralAnswer- *)
(* and PlanningSkill is out of what it knows.                              *)
GeneralAnswer(say) == Generated(say, {})
CompareOrExample(deps, say) == Generated(say, Texts(deps))

-----------------------------------------------------------------------------
(* SynthesizerSkill: with research among its dependencies the answer lists *)
(* all of its sources, as the sources of the result; a summary that hedges *)
(* or is too short is doubtful.                                            *)

References(research) == SetToSeq(UNION {Range(r.sources) : r \in research})

SynthesizeEvidence(deps, weather, say) ==
  LET research == Of(deps, "research")
      analyses == Of(deps, "analysis")
      nothing == research \cup analyses = {} /\ \A d \in DOMAIN deps : deps[d].text.error
      said == IF nothing THEN GeneratedOr(Inconclusive, say, {}) ELSE Generated(say, Texts(deps))
      r == IF said.ok THEN [said EXCEPT !.sources = References({deps[d] : d \in research})] ELSE said
      doubtful == \E d \in research : deps[d].text.hedge \/ deps[d].text.claims \subseteq {Fallback}
      provisional == \/ \E d \in analyses : deps[d].conflicts > 0
                     \/ Mean(analyses, LAMBDA d : deps[d].conf) < 45
  IN CASE nothing /\ weather -> Fails("insufficient_live_evidence")
       [] ~(nothing /\ weather) /\ ~r.ok -> r
       [] OTHER -> IF nothing \/ (research # {} /\ doubtful) \/ (research = {} /\ analyses # {} /\ provisional)
                   THEN [r EXCEPT !.text = Notice(@)] ELSE r

(* Places and trips.  No plan makes it depend on the search for places     *)
(* itself, so that it sees no research and the places are never confirmed  *)
(* by two sources: it always ends with a warning.                          *)
SynthesizePlaces(deps, say) ==
  LET r == Generated(say, {deps[d].text : d \in {e \in DOMAIN deps : ~deps[e].text.error}})
  IN IF r.ok THEN [r EXCEPT !.text = Notice(@)] ELSE r

Synthesizer(deps, weather, say) ==
  IF "candidate-extract" \in DOMAIN deps THEN SynthesizePlaces(deps, say) ELSE SynthesizeEvidence(deps, weather, say)

-----------------------------------------------------------------------------
(* FusionSkill: of two paths, the research if it is strong, the direct     *)
(* answer if there is no other, and else both.  The model is shown the     *)
(* first of them, which also stands for an answer it does not give; the    *)
(* other one only when the research comes first.                           *)

IsBlank(t) == t.claims = {} /\ ~t.hedge /\ ~t.notice /\ ~t.error

Fusion(deps, say) ==
  LET cheap == Got(deps, "path-a").text
      research == Got(deps, "path-b")
      found == research.ok
      strong == found /\ research.conf >= 55 /\ ~research.text.hedge
      blend == found /\ (IsBlank(cheap) \/ ~research.text.hedge)
      primary == IF strong THEN research.text ELSE cheap
      shown == IF strong THEN {research.text, cheap} ELSE {cheap}
      r == GeneratedOr(IF IsBlank(primary) THEN Inconclusive ELSE primary, say, shown)
  IN IF r.ok THEN [r EXCEPT !.sources = IF strong \/ blend THEN research.sources ELSE <<>>] ELSE r

-----------------------------------------------------------------------------
(* Places.                                                                 *)

PlaceNames == {"Bistro", "Museum"}
NamesIn(docs) == PlaceNames \cap UNION {d.title \cup d.snippet : d \in docs}

GeoIntent(q) == [Result EXCEPT !.kind = "geo", !.names = q \cap {"place"}]

PlaceQuery(q, deps) ==
  IF "geo-intent" \in DOMAIN deps /\ "place" \in deps["geo-intent"].names
  THEN {"place", FirstMention(q, << <<{"restaurant", "food", "eat", "dining", "lunch", "dinner"}, "restaurant">>,
                                    <<{"hotel", "resort", "homestay"}, "hotel">>,
                                    <<{"attraction", "museum", "park"}, "attraction">> >>, "place")}
  ELSE q

(* Nothing is filtered here, and the model is not asked.                   *)
LocalDiscovery(q, out, batch) ==
  LET b == IF out.ok THEN Found(AsDocuments("local_search", out.docs), out.conf) ELSE batch
      docs == Ranked(q, b.docs, 6)
  IN IF ~out.ok /\ batch = Lost THEN Fails("search")
     ELSE IF b.docs = <<>> THEN Fails("no_local_places_found") ELSE Research(Excerpts(Range(docs)), docs, b.conf)

Local(deps) == Got(deps, "local-search")

(* The first of each title, up to five, in the town asked for if the node  *)
(* knows of one.                                                           *)
PlaceVerification(deps) ==
  LET docs == Local(deps).sources
      town == "geo-intent" \in DOMAIN deps /\ "place" \in deps["geo-intent"].names
      fitting == {i \in DOMAIN docs : /\ \A j \in 1..(i - 1) : docs[j].title # docs[i].title
                                      /\ town => Mentions(docs[i].snippet, {"in town"})}
      verified == {docs[i] : i \in {k \in fitting : Cardinality({j \in fitting : j < k}) < 5}}
  IN CASE ~Local(deps).ok -> Fails("local_evidence_missing")
       [] Local(deps).ok /\ verified = {} -> Fails("no_local_places_found")
       [] OTHER -> [Result EXCEPT !.kind = "places", !.names = NamesIn(verified), !.text = Excerpts(verified)]

ReviewConsensus(deps) ==
  IF Local(deps).ok THEN [Result EXCEPT !.kind = "reviews"] ELSE Fails("local_evidence_missing")

(* The breaker of the extraction by the model: [streak, blocked].  When it *)
(* has cooled down the streak is still there.                              *)
Unblocked == [streak |-> 0, blocked |-> FALSE]
ExtractionThreshold == 3

(* One call and, if it names nothing, a second to put it into form.        *)
Extracting(b, say) ==
  CASE b.blocked -> b
    [] ~b.blocked /\ say \in {"grounded", "invented"} -> Unblocked
    [] OTHER -> [streak |-> Min({b.streak + 1, ExtractionThreshold}),
                 blocked |-> b.streak + 1 >= ExtractionThreshold]

(* Whatever the model names, only what the documents mention is kept; the  *)
(* capitalised names in them are kept without it.                          *)
CandidateExtraction(deps) ==
  LET docs == Local(deps).sources
      names == NamesIn(Range(docs))
  IN CASE ~Local(deps).ok -> Fails("local_evidence_missing")
       [] Local(deps).ok /\ names = {} -> Fails("no_candidate_entities")
       [] OTHER -> [Result EXCEPT !.kind = "candidates", !.names = names,
                                  !.text = [NoText EXCEPT !.claims = {{n} : n \in names}]]

ItineraryPlanner(deps, say) ==
  IF ~Got(deps, "place-verify").ok /\ ~Got(deps, "candidate-extract").ok THEN Fails("no_verified_places_for_itinerary")
  ELSE GeneratedOr(Inconclusive, say, Texts(deps))
=============================================================================
