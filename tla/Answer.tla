------------------------------- MODULE Answer -------------------------------
(***************************************************************************)
(* The last two steps of an answer: FinalResponseBuilder and the evidence  *)
(* measures of result_formatting.py make it of the results of the nodes,   *)
(* and AnswerCriticAgent and the orchestrator may add sources to it.       *)
(*                                                                         *)
(* The results are a sequence of [id, result], in the order in which the   *)
(* nodes ended.  An item of the ledger is [claim, source], a claim being a *)
(* set of words as in Skills; ratios and scores are in hundredths.         *)
(***************************************************************************)
EXTENDS Skills

Kind(results, kind) == {n \in Range(results) : n.result.ok /\ n.result.kind = kind}
IdsOf(results) == {results[i].id : i \in DOMAIN results}
ResultOf(results, id) == results[CHOOSE i \in DOMAIN results : results[i].id = id].result

PointsOf(results) == UNION {n.result.points : n \in Kind(results, "analysis")}
Cited(results) == UNION {{d.url : d \in Range(n.result.sources)} : n \in Kind(results, "research")}

-----------------------------------------------------------------------------
(* What an answer is measured by.                                          *)

(* The items a result brings: six documents of a research, eight points of *)
(* an analysis.                                                            *)
Items(r) ==
  LET docs == First(r.sources, 6)
      points == First(SetToSeq(r.points), 8)
  IN CASE r.ok /\ r.kind = "research" ->
            [k \in DOMAIN docs |-> [claim |-> docs[k].snippet, source |-> docs[k].url]]
       [] r.ok /\ r.kind = "analysis" ->
            [k \in DOMAIN points |-> [claim |-> PointClaim(points[k]), source |-> points[k].source]]
       [] OTHER -> <<>>

(* The first n of the items, none of them twice: the ledger holds twelve,  *)
(* and six of them are listed under the answer.                            *)
Ledger(results, n) ==
  LET places == UNION {{<<i, k>> : k \in DOMAIN Items(results[i].result)} : i \in DOMAIN results}
      at(p) == Items(results[p[1]].result)[p[2]]
      before(p) == {at(o) : o \in {r \in places : r[1] < p[1] \/ (r[1] = p[1] /\ r[2] < p[2])}}
  IN {at(p) : p \in {r \in places : Cardinality(before(r)) < n}}

(* An address other than of the web is words like any other text.          *)
AddressWords(url) == IF url = "tool://calculator" THEN {"tool", "calculator"} ELSE {url}

Supports(e, claim) == Cardinality(claim \cap (e.claim \cup AddressWords(e.source))) >= 2

(* The share of the claims that some item has two words of; the first ten  *)
(* lines of an answer are looked at.                                       *)
Coverage(claims, ledger) ==
  LET covered == {c \in claims : \E e \in ledger : Supports(e, c)}
  IN IF claims = {} THEN 100 ELSE (100 * Cardinality(covered)) \div Cardinality(claims)

ConflictScore(results) ==
  LET analyses == Kind(results, "analysis")
      most == Max({0} \cup {n.result.conflicts : n \in analyses})
      low == Cardinality({n \in analyses : n.result.quality = "low"})
  IN (70 * Min({most, 3})) \div 3 + 15 * Min({low, 2})

(* Sources that are more than 15 % apart about the same thing.             *)
Contradictions(results) ==
  {pair \in SUBSET PointsOf(results) :
     \E p, q \in pair : /\ pair = {p, q} /\ p.subject = q.subject /\ p.source # q.source
                        /\ 100 * (p.value - q.value) > 15 * p.value}

-----------------------------------------------------------------------------
(* Evidence is of one of two niches, by the site it is from or else by its *)
(* words; that a source has data points says nothing of its niche.         *)

OfficialSites == {"sec.gov", "treasury.gov", "bls.gov", "fred.stlouisfed.org"}
OpinionSites == {"seeking", "investor", "zacks", "morningstar"}
QuantitativeWords ==
  {"bloomberg", "reuters", "cnbc", "ft.com", "stock", "nasdaq", "price", "dividend", "earnings", "gdp", "inflation",
   "unemployment", "yield", "revenue", "profit", "margin", "asset", "liability", "metric", "data", "number", "percent",
   "billion", "million", "quarterly", "annual", "report", "statement", "analysis"}
QualitativeWords ==
  {"opinion", "analysis", "insight", "expert", "commentary", "forecast", "outlook", "sentiment", "trend", "pattern",
   "interview", "roundtable", "perspective", "view", "stance", "risk", "opportunity", "concern", "positive", "negative",
   "believe", "think", "expect", "may", "could", "likely"}

Niche(source, claim) ==
  LET words == claim \cup {source}
      quantitative == Cardinality(words \cap QuantitativeWords)
      qualitative == Cardinality(words \cap QualitativeWords)
  IN CASE source \in OfficialSites -> "quantitative"
       [] source \in OpinionSites -> "qualitative"
       [] OTHER -> IF quantitative > qualitative \/ (quantitative = qualitative /\ source # "analysis")
                   THEN "quantitative" ELSE "qualitative"

InNiche(niche, results) == {e.source : e \in {f \in Ledger(results, 12) : Niche(f.source, f.claim) = niche}}

Balance(quantitative, qualitative) ==
  IF quantitative + qualitative = 0 THEN 50
  ELSE LET share == (100 * quantitative) \div (quantitative + qualitative)
       IN 100 - (IF share > 50 THEN share - 50 ELSE 50 - share)

(* A source is of the quantitative niche if one of its items is.           *)
CrossNiche(results) ==
  LET quantitative == InNiche("quantitative", results)
      qualitative == InNiche("qualitative", results) \ quantitative
  IN {pair \in Contradictions(results) :
        /\ \E p \in pair : p.source \in quantitative
        /\ \E p \in pair : p.source \in qualitative}

-----------------------------------------------------------------------------
(* FinalResponseBuilder.                                                   *)

FailureMessage == [NoText EXCEPT !.claims = {{"could not verify"}}]
NoDataMessage == [NoText EXCEPT !.claims = {{"not enough verified information"}}]

(* Whatever a node returned is shown.                                      *)
BugIsErrorOutput(t) == FALSE

IsErrorOutput(t) == t.error

(* What a result looks like: the first three data points of an analysis    *)
(* are one line more.                                                      *)
Rendered(r) ==
  IF r.points = {} THEN r.text
  ELSE [r.text EXCEPT !.claims = @ \cup {UNION {PointClaim(p) : p \in Range(First(SetToSeq(r.points), 3))}}]

(* The node that ends the plan speaks for it.  A plan without one answers  *)
(* with what its tasks returned, in the order of the analysis.             *)
SelectFinalAnswer(results, tasks) ==
  LET ending == {"synthesis", "fusion"} \cap IdsOf(results)
      last == Rendered(ResultOf(results, IF "synthesis" \in ending THEN "synthesis" ELSE "fusion"))
      ended == {k \in DOMAIN tasks : tasks[k] \in IdsOf(results)}
      text(k) == Rendered(ResultOf(results, tasks[k]))
      shown == {k \in ended : ~IsErrorOutput(text(k))}
      failed == shown # ended
      select(t, failure) == [text |-> t, failed |-> failure]
  IN IF ending # {} THEN IF IsErrorOutput(last) THEN select(FailureMessage, TRUE) ELSE select(last, FALSE)
     ELSE IF shown = {} THEN select(IF failed THEN FailureMessage ELSE NoDataMessage, failed)
     ELSE LET first == text(Min(shown))
          IN select([Merged({text(k) : k \in shown}) EXCEPT !.notice = first.notice, !.error = first.error,
                                                           !.hedge = \E k \in shown : text(k).hedge], failed)

(* The lines that count as claims: not those with a web address, so that   *)
(* the list of the evidence adds only what has another one.                *)
Claims(t, results) ==
  t.claims \cup (IF t.hedge THEN {{"insufficient"}} ELSE {})
  \cup {e.claim \cup AddressWords(e.source) : e \in {f \in Ledger(results, 6) : f.source = "tool://calculator"}}

(* The notice a skill put first is taken off and not put back.             *)
BugNeedsDisclaimer(selected, results) ==
  LET claims == Claims(selected.text, results)
  IN ~selected.failed /\ claims # {} /\ Coverage(claims, Ledger(results, 12)) < 50

NeedsDisclaimer(selected, results) ==
  LET claims == Claims(selected.text, results)
  IN \/ selected.text.notice
     \/ /\ ~selected.failed
        /\ \/ claims # {} /\ Coverage(claims, Ledger(results, 12)) < 50
           \/ ConflictScore(results) >= 45
           \/ CrossNiche(results) # {}

Payload(results, tasks) ==
  LET selected == SelectFinalAnswer(results, tasks)
      ledger == Ledger(results, 12)
      quantitative == Cardinality(InNiche("quantitative", results))
      qualitative == Cardinality(InNiche("qualitative", results))
  IN [claims |-> selected.text.claims, error |-> selected.text.error, failed |-> selected.failed,
      notice |-> NeedsDisclaimer(selected, results), contradicted |-> Contradictions(results) # {},
      sources |-> Cited(results), ledger |-> {e.source : e \in ledger},
      coverage |-> Coverage(Claims(selected.text, results), ledger),
      quantitative |-> quantitative, qualitative |-> qualitative, balance |-> Balance(quantitative, qualitative)]

-----------------------------------------------------------------------------
(* The critic.  A reply it cannot read finds no fault, and issues of a     *)
(* type it does not know are passed over: "hallucination" is one, which    *)
(* the prompt asks for under that name.  Nothing waits for its verdict.    *)

IssueTypes == {"pass", "needs_evidence", "potential_hallucination", "weak_reasoning", "missing_context", "contradiction"}

Critique(reply, sources) ==
  IF reply # Silence THEN reply \cap IssueTypes ELSE IF sources = {} THEN {"needs_evidence"} ELSE {}

(* _augment_payload_with_quick_evidence: sources are added, the text stays *)
(* as it is.  A coverage of nothing is taken for a full one.               *)
MissingNiche(p) ==
  CASE p.quantitative = 0 /\ p.qualitative > 0 -> "quantitative"
    [] p.qualitative = 0 /\ p.quantitative > 0 -> "qualitative"
    [] OTHER -> IF p.balance < 65 /\ p.quantitative # p.qualitative
                THEN IF p.quantitative < p.qualitative THEN "quantitative" ELSE "qualitative" ELSE "none"

WantsEvidence(p, issues) ==
  p.coverage \in 1..54 \/ issues \cap {"needs_evidence", "potential_hallucination", "missing_context"} # {}

(* `extra` answers the search for evidence and `other` the one for the     *)
(* missing niche.                                                          *)
Augmented(p, issues, extra, other) ==
  LET niche == MissingNiche(p)
      batches == (IF WantsEvidence(p, issues) THEN <<extra>> ELSE <<>>) \o (IF niche # "none" THEN <<other>> ELSE <<>>)
      docs == UNION {Range(b.docs) : b \in Range(batches)}
      of(d) == Niche(d.url, d.snippet)
      taken == {d \in docs : niche \in {"none", of(d)}}
      new(n) == Cardinality({d.url : d \in {e \in taken : of(e) = n}} \ p.ledger)
  IN IF Lost \in Range(batches) THEN p
     ELSE [p EXCEPT !.sources = @ \cup {d.url : d \in taken}, !.ledger = @ \cup {d.url : d \in taken},
                    !.quantitative = @ + new("quantitative"), !.qualitative = @ + new("qualitative"),
                    !.balance = IF \E d \in taken : d.url \notin p.ledger \cup p.sources
                                THEN Balance(p.quantitative + new("quantitative"), p.qualitative + new("qualitative")) ELSE @]
=============================================================================
