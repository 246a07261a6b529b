------------------------ MODULE PolicySearch_proofs ------------------------
(***************************************************************************)
(* What holds of PolicySearch for every number of searches, every policy,  *)
(* threshold and reply.                                                    *)
(*                                                                         *)
(* Steps of different searches meet in the breakers only, so the invariant *)
(* is one of each search: RowInv says of a search, and of the settings it  *)
(* runs under, what it has asked, what it awaits and what it has found.    *)
(* A lemma per operation shows that the search it leaves behind is such a  *)
(* one again.  What a page is worth comes from SearchProviders_proofs, for *)
(* whatever documents the services reply with.                             *)
(***************************************************************************)
EXTENDS PolicySearch, SearchProviders_proofs

-----------------------------------------------------------------------------
(* The smaller of two.                                                     *)
LEMMA Least ==
  ASSUME NEW a \in Int, NEW b \in Int
  PROVE  Min({a, b}) = IF a <= b THEN a ELSE b
<1> DEFINE c == IF a <= b THEN a ELSE b
<1>1. c \in {a, b} /\ \A y \in {a, b} : c <= y  OBVIOUS
<1>2. \A x \in {a, b} : (\A y \in {a, b} : x <= y) => x = c  OBVIOUS
<1> QED BY <1>1, <1>2 DEF Min

(* The first two of a line-up are its start.                               *)
LEMMA FirstTwo ==
  ASSUME NEW S, NEW q \in Seq(S)
  PROVE  /\ First(q, 2) \in Seq(S)
         /\ Len(First(q, 2)) \in 0..2 /\ Len(First(q, 2)) <= Len(q)
         /\ \A k \in 1..Len(First(q, 2)) : First(q, 2)[k] = q[k]
<1> DEFINE n == IF 2 <= Len(q) THEN 2 ELSE Len(q)
<1>0. Len(q) \in Nat  OBVIOUS
<1>1. First(q, 2) = SubSeq(q, 1, n)  BY <1>0, Least DEF First
<1>2. n \in 0..2 /\ n <= Len(q)
  <2> SUFFICES ASSUME NEW m \in Nat  PROVE LET x == IF 2 <= m THEN 2 ELSE m IN x \in 0..2 /\ x <= m
    BY <1>0
  <2> QED OBVIOUS
<1> HIDE DEF n
<1>3. SubSeq(q, 1, n) \in Seq(S) /\ Len(SubSeq(q, 1, n)) = n /\ \A k \in 1..n : SubSeq(q, 1, n)[k] = q[k]
  BY <1>0, <1>2
<1> QED BY <1>1, <1>2, <1>3

(* The line-up of Candidates without the references for commodities.       *)
ByIntent(intent) ==
  CASE intent = "weather_live" -> <<"weather_open_meteo", "duckduckgo">>
    [] intent = "news_live" -> <<"newsapi", "duckduckgo">>
    [] intent = "market_live" -> <<"serpapi", "duckduckgo">>
    [] intent \in {"local_discovery", "travel_planning"} -> <<"serpapi", "osm_local", "duckduckgo", "newsapi">>
    [] OTHER -> <<"duckduckgo">>

(* A line-up names each provider once, the mock provider in demo mode      *)
(* only.                                                                   *)
GoodLine(mode, line) ==
  /\ line \in Seq(Providers)
  /\ \A i, j \in 1..Len(line) : line[i] = line[j] => i = j
  /\ mode # "demo" => \A i \in 1..Len(line) : line[i] # "mock"

(* The references for commodities may be put before it.                    *)
LEMMA Prefixed ==
  ASSUME NEW mode, NEW line, GoodLine(mode, line), \A i \in 1..Len(line) : line[i] \notin {"commodity_refs", "newsapi"}
  PROVE  GoodLine(mode, <<"commodity_refs", "newsapi">> \o line)
<1> DEFINE ref == <<"commodity_refs", "newsapi">>
           all == ref \o line
<1>1. ref \in Seq(Providers) /\ Len(ref) = 2 /\ ref[1] = "commodity_refs" /\ ref[2] = "newsapi"
  BY DEF Providers
<1>2. line \in Seq(Providers) /\ Len(line) \in Nat  BY DEF GoodLine
<1> HIDE DEF ref
<1>3. all \in Seq(Providers) /\ Len(all) = Len(line) + 2
  BY <1>1, <1>2, ConcatProperties
<1>4. \A i \in 1..Len(all) : all[i] = IF i <= 2 THEN ref[i] ELSE line[i - 2]
  BY <1>1, <1>2, <1>3, ConcatProperties
<1> HIDE DEF all
<1>5. ASSUME NEW i \in 1..Len(all), NEW j \in 1..Len(all), all[i] = all[j]
      PROVE  i = j
  <2>1. CASE i <= 2 /\ j <= 2  BY <1>1, <1>4, <1>5, <1>3, <1>2, <2>1
  <2>2. CASE i <= 2 /\ j > 2
    <3>1. j - 2 \in 1..Len(line) /\ all[j] = line[j - 2]  BY <1>2, <1>3, <1>4, <2>2
    <3>2. all[i] \in {"commodity_refs", "newsapi"}  BY <1>1, <1>2, <1>3, <1>4, <2>2
    <3> QED BY <1>5, <3>1, <3>2
  <2>3. CASE i > 2 /\ j <= 2
    <3>1. i - 2 \in 1..Len(line) /\ all[i] = line[i - 2]  BY <1>2, <1>3, <1>4, <2>3
    <3>2. all[j] \in {"commodity_refs", "newsapi"}  BY <1>1, <1>2, <1>3, <1>4, <2>3
    <3> QED BY <1>5, <3>1, <3>2
  <2>4. CASE i > 2 /\ j > 2
    <3>1. i - 2 \in 1..Len(line) /\ all[i] = line[i - 2]  BY <1>2, <1>3, <1>4, <2>4
    <3>2. j - 2 \in 1..Len(line) /\ all[j] = line[j - 2]  BY <1>2, <1>3, <1>4, <2>4
    <3>3. i - 2 = j - 2  BY <1>5, <3>1, <3>2 DEF GoodLine
    <3> QED BY <3>3, <1>2, <1>3
  <2> QED BY <2>1, <2>2, <2>3, <2>4, <1>2, <1>3
<1>6. ASSUME mode # "demo", NEW i \in 1..Len(all)
      PROVE  all[i] # "mock"
  <2>1. CASE i <= 2  BY <1>1, <1>2, <1>3, <1>4, <2>1
  <2>2. CASE i > 2
    <3>1. i - 2 \in 1..Len(line) /\ all[i] = line[i - 2]  BY <1>2, <1>3, <1>4, <2>2
    <3> QED BY <1>6, <3>1 DEF GoodLine
  <2> QED BY <2>1, <2>2, <1>2, <1>3
<1>7. GoodLine(mode, all)
  BY <1>3, <1>5, <1>6 DEF GoodLine
<1> QED BY <1>7 DEF all, ref

(* Every line-up of the policy is such a one.                              *)
LEMMA PlanOf ==
  ASSUME NEW mode, NEW intent, NEW q
  PROVE  GoodLine(mode, Candidates(mode, intent, q))
<1> DEFINE named == IF mode = "demo" THEN <<"mock">> ELSE ByIntent(intent)
<1>1. Candidates(mode, intent, q) =
        IF intent = "market_live" /\ Mentions(q, CommodityWords) THEN <<"commodity_refs", "newsapi">> \o named
        ELSE named
  BY DEF Candidates, ByIntent
<1>2. CASE mode = "demo"
  <2>1. GoodLine(mode, <<"mock">>)  BY <1>2 DEF GoodLine, Providers
  <2>2. GoodLine(mode, <<"commodity_refs", "newsapi">> \o <<"mock">>)  BY <2>1, Prefixed
  <2> QED BY <1>1, <1>2, <2>1, <2>2
<1>3. CASE mode # "demo" /\ intent = "market_live"
  <2>1. named = <<"serpapi", "duckduckgo">>  BY <1>3 DEF ByIntent
  <2>2. GoodLine(mode, <<"serpapi", "duckduckgo">>)  BY DEF GoodLine, Providers
  <2>3. GoodLine(mode, <<"commodity_refs", "newsapi">> \o <<"serpapi", "duckduckgo">>)  BY <2>2, Prefixed
  <2> QED BY <1>1, <2>1, <2>2, <2>3
<1>4. CASE mode # "demo" /\ intent # "market_live"
  <2>1. named \in {<<"weather_open_meteo", "duckduckgo">>, <<"newsapi", "duckduckgo">>,
                   <<"serpapi", "osm_local", "duckduckgo", "newsapi">>, <<"duckduckgo">>}
    BY <1>4 DEF ByIntent
  <2>2. GoodLine(mode, <<"weather_open_meteo", "duckduckgo">>)  BY DEF GoodLine, Providers
  <2>3. GoodLine(mode, <<"newsapi", "duckduckgo">>)  BY DEF GoodLine, Providers
  <2>4. GoodLine(mode, <<"serpapi", "osm_local", "duckduckgo", "newsapi">>)  BY DEF GoodLine, Providers
  <2>5. GoodLine(mode, <<"duckduckgo">>)  BY DEF GoodLine, Providers
  <2> QED BY <1>1, <1>4, <2>1, <2>2, <2>3, <2>4, <2>5
<1> QED BY <1>2, <1>3, <1>4

(* A breaker stays a breaker; an answer or a failure leaves none half-     *)
(* open, with either threshold.                                            *)
LEMMA BreakerMoves ==
  ASSUME NEW b \in Real!Breaker
  PROVE  /\ Real!AfterRequest(b) \in Real!Breaker
         /\ Real!RecordSuccess(b) \in Real!Breaker /\ Real!RecordSuccess(b).state # "half_open"
         /\ Real!Cooled(b) \in Real!Breaker
         /\ Real!RecordFailure(b) \in Real!Breaker /\ Real!RecordFailure(b).state # "half_open"
         /\ Mock!RecordFailure(b) \in Real!Breaker /\ Mock!RecordFailure(b).state # "half_open"
<1>0. 0 \in 0..1 /\ 1 \in 0..1  OBVIOUS
<1>1. Real!Seen(b) \in Real!Breaker  BY <1>0 DEF Real!Seen, Real!Breaker
<1>2. Real!AfterRequest(b) \in Real!Breaker
  BY <1>1 DEF Real!AfterRequest, Real!SlotFree, Real!Breaker
<1>3. Real!RecordSuccess(b) \in Real!Breaker /\ Real!RecordSuccess(b).state # "half_open"
  BY DEF Real!RecordSuccess, Real!Closed, Real!Breaker
<1>4. Real!Cooled(b) \in Real!Breaker  BY DEF Real!Cooled, Real!Breaker
<1> DEFINE c == [b EXCEPT !.failures = @ + 1]
<1>5. ASSUME NEW d \in Real!Breaker
      PROVE  /\ Real!TripOpen(d) \in Real!Breaker /\ Real!TripOpen(d).state = "open"
             /\ Mock!TripOpen(d) = Real!TripOpen(d)
  BY <1>0 DEF Real!TripOpen, Mock!TripOpen, Real!Breaker
<1>6. c \in Real!Breaker /\ c.state = b.state
  BY DEF Real!Breaker
<1>7. Real!RecordFailure(b) \in {Real!TripOpen(b), Real!TripOpen(c)} \/ (b.state # "half_open" /\ Real!RecordFailure(b) = c)
  BY DEF Real!RecordFailure
<1>8. Mock!RecordFailure(b) \in {Mock!TripOpen(b), Mock!TripOpen(c)} \/ (b.state # "half_open" /\ Mock!RecordFailure(b) = c)
  BY DEF Mock!RecordFailure
<1> HIDE DEF c
<1>9. Real!RecordFailure(b) \in Real!Breaker /\ Real!RecordFailure(b).state # "half_open"
  BY <1>5, <1>6, <1>7
<1>10. Mock!RecordFailure(b) \in Real!Breaker /\ Mock!RecordFailure(b).state # "half_open"
  BY <1>5, <1>6, <1>8
<1> QED BY <1>2, <1>3, <1>4, <1>9, <1>10
-----------------------------------------------------------------------------
(* What a search may be asked and what a provider may make of it.          *)
Asks == UNION Range(Queries)
OutcomesOf(p) == UNION {UNION {Outcomes[q][p][key] : key \in Keys} : q \in Asks}
PagesOf(p) == {NoPage} \cup {a.page : a \in OutcomesOf(p)}
Pages == UNION {PagesOf(p) : p \in Providers}

Env == [mode : Modes, mockOptIn : BOOLEAN, key : Keys]

Intents == {"weather_live", "general_research"} \cup {SearchIntent(q) : q \in Asks}
Given == [provider : Providers \cup {"none"}, docs : {page.docs : page \in Pages},
          fallback : BOOLEAN, confidence : Int]

Rows ==
  [pc : {"idle", "speculating", "asking", "done"}, query : {{}} \cup Asks,
   intent : Intents,
   tried : Seq(Providers), turn : Nat, calls : SUBSET Providers,
   found : [Providers -> Pages],
   batch : Given]

(* The line-up of a search, the part of it asked at once, and the provider *)
(* whose turn is k.                                                        *)
Line(r, env) == Candidates(env.mode, r.intent, r.query)
Ahead(r, env) == IF Speculates(env.mode, r.intent) THEN First(Line(r, env), 2) ELSE <<>>
Due(r, env, k) == IF k <= Len(Line(r, env)) THEN Line(r, env)[k] ELSE "mock"

(* The types of a search.                                                  *)
Typed(s, r, env) ==
  /\ r \in Rows
  /\ r.query \in Queries[s] \cup {{}}
  /\ r.pc # "idle" => r.query \in Queries[s]
  /\ r.turn <= Len(Line(r, env)) + 1 /\ r.turn >= 1
  /\ \A p \in Providers : r.found[p] \in PagesOf(p)

(* Whose answers a search awaits: of the first two, of the one whose turn  *)
(* it is, or of nobody.                                                    *)
Awaits(r, env) ==
  /\ r.pc \in {"idle", "done"} => r.calls = {}
  /\ r.pc \in {"speculating", "asking"} => ~MockOnly(env.mode)
  /\ r.pc = "speculating" => r.calls \subseteq Range(Ahead(r, env)) /\ r.turn = 1 /\ Speculates(env.mode, r.intent)
  /\ r.pc = "asking" => r.calls \subseteq {Due(r, env, r.turn)}
  /\ "mock" \in r.calls => MockAllowed(env.mode, env.mockOptIn)

(* Whom it has asked: the first two if it speculated, then nobody twice,   *)
(* while it asks the line-up in its order.                                 *)
Went(r, env) ==
  LET n == Len(Ahead(r, env))
  IN /\ n <= Len(r.tried)
     /\ \A k \in 1..n : r.tried[k] = Ahead(r, env)[k]
     /\ \A i, j \in (n + 1)..Len(r.tried) : r.tried[i] = r.tried[j] => i = j
     /\ r.pc = "speculating" => Len(r.tried) = n
     /\ r.pc = "asking" =>
          /\ Len(r.tried) = n + r.turn - (IF r.calls = {} THEN 1 ELSE 0)
          /\ \A k \in 1..(Len(r.tried) - n) : r.tried[n + k] = Due(r, env, k)

(* Which real providers gave this search something.                        *)
RealIn(r) == {p \in Providers \ {"mock"} : r.found[p] # NoPage}
ScoreIn(r, p) == ProviderRank(p) + r.found[p].quality

(* What it makes of the answers: it goes on while there is none, and ends  *)
(* with the best or with what it declares as invented.                     *)
Kept(r, env) ==
  /\ r.pc = "asking" => RealIn(r) = {}
  /\ r.pc = "speculating" => RealIn(r) \subseteq Range(Ahead(r, env))
  /\ r.pc = "done" =>
       /\ RealIn(r) # {} => /\ r.batch.provider \in RealIn(r)
                            /\ \A p \in RealIn(r) : ScoreIn(r, p) <= ScoreIn(r, r.batch.provider)
       /\ r.batch.fallback <=> r.batch.provider = "mock"
       /\ (\E k \in DOMAIN r.batch.docs : r.batch.docs[k].provider = "mock") => r.batch.provider = "mock"
       /\ r.batch.provider = "mock" => MockAllowed(env.mode, env.mockOptIn) /\ r.batch.confidence <= 50

RowInv(s, r, env) == Typed(s, r, env) /\ Awaits(r, env) /\ Went(r, env) /\ Kept(r, env)

-----------------------------------------------------------------------------
(* What services reply with, and the providers make of it.                 *)
LEMMA RepliesGenuine == \A r \in Replies : AllGenuine(r.entries)
<1> DEFINE Document == [title : SUBSET STRING, snippet : SUBSET STRING, url : STRING, site : STRING,
                        provider : STRING, freshness : STRING, published : STRING, reliability : Int]
<1>1. ASSUME NEW s \in Seq(Document), \A d \in Range(s) : IsFiniteSet(d.title) /\ IsFiniteSet(d.snippet) /\ d.provider # "mock"
      PROVE  AllGenuine(s)
  <2>1. Len(s) \in Nat /\ DOMAIN s = 1..Len(s) /\ \A i \in 1..Len(s) : s[i] \in Document /\ s[i] \in Range(s)
    <3> HIDE DEF Document
    <3> QED BY DEF Range
  <2>2. s = [i \in 1..Len(s) |-> s[i]]
    <3> HIDE DEF Document
    <3> QED OBVIOUS
  <2>3. Listed(s)  BY <2>1, <2>2, Listing
  <2>4. ASSUME NEW i \in 1..Len(s)  PROVE Genuine(s[i])
    <3>1. PICK d \in Document : d = s[i]  BY <2>1
    <3>2. DOMAIN d = {"title", "snippet", "url", "site", "provider", "freshness", "published", "reliability"}
          /\ d.reliability \in Int
      OBVIOUS
    <3>3. IsFiniteSet(d.title) /\ IsFiniteSet(d.snippet) /\ d.provider # "mock"  BY <1>1, <2>1, <3>1
    <3> HIDE DEF Document
    <3> QED BY <3>1, <3>2, <3>3 DEF Genuine, Scored
  <2> QED BY <2>1, <2>3, <2>4 DEF AllGenuine
<1> QED BY <1>1, ReplyAssumption

LEMMA DuckDuckGoAnswers ==
  ASSUME NEW q, NEW key, NEW a \in Answers(q, "duckduckgo", key)
  PROVE  AllGenuine(a.docs)
<1>1. PICK x \in Replies, y \in Replies : a = DuckDuckGo(q, Limit, x, y)  BY DEF Answers
<1> QED BY <1>1, RepliesGenuine, SearchAssumption, DuckDuckGoGenuine

LEMMA OpenMeteoAnswers ==
  ASSUME NEW q, NEW key, NEW a \in Answers(q, "weather_open_meteo", key)
  PROVE  AllGenuine(a.docs)
<1>1. PICK x \in Replies, y \in Replies : a = OpenMeteo(q, Limit, x, y, y)  BY DEF Answers
<1> QED BY <1>1, RepliesGenuine, SearchAssumption, OpenMeteoGenuine

LEMMA NewsAnswers ==
  ASSUME NEW q, NEW key, NEW a \in Answers(q, "newsapi", key)
  PROVE  AllGenuine(a.docs)
<1>1. PICK x \in Replies : a = NewsAPI(key, Limit, x)  BY DEF Answers
<1> QED BY <1>1, RepliesGenuine, SearchAssumption, NewsGenuine

LEMMA SerpAnswers ==
  ASSUME NEW q, NEW key, NEW a \in Answers(q, "serpapi", key)
  PROVE  AllGenuine(a.docs)
<1>1. PICK x \in Replies, y \in Replies : a = SerpAPI(key, Limit, x, y)  BY DEF Answers
<1> QED BY <1>1, RepliesGenuine, SearchAssumption, SerpGenuine

LEMMA StreetMapAnswers ==
  ASSUME NEW q, NEW key, NEW a \in Answers(q, "osm_local", key)
  PROVE  AllGenuine(a.docs)
<1>1. PICK x \in Replies, y \in Replies : a = OpenStreetMap(q, Limit, x, y)  BY DEF Answers
<1> QED BY <1>1, RepliesGenuine, SearchAssumption, StreetMapGenuine

LEMMA ReferencesAnswers ==
  ASSUME NEW q, NEW key, NEW a \in Answers(q, "commodity_refs", key)
  PROVE  AllGenuine(a.docs)
<1>1. PICK x \in Replies : a = CommodityRefs(q, Limit, x)  BY DEF Answers
<1> QED BY <1>1, RepliesGenuine, SearchAssumption, ReferencesGenuine

(* The page of an answer.                                                  *)
PageOK(p, page) ==
  /\ page.quality \in Int
  /\ p # "mock" => \A k \in DOMAIN page.docs : page.docs[k].provider # "mock"
  /\ p = "mock" => page.quality <= 10000

LEMMA AnswerOK ==
  ASSUME NEW q, IsFiniteSet(q), NEW p \in Providers, NEW key, NEW a \in Answers(q, p, key)
  PROVE  PageOK(p, Page(q, a.docs, Limit))
<1>1. CASE p = "mock"
  <2>1. a = MockDocs(q, Limit)  BY <1>1 DEF Answers
  <2>2. Page(q, a.docs, Limit).quality \in Int /\ Page(q, a.docs, Limit).quality <= 10000
    BY <2>1, SearchAssumption, MockScored
  <2> QED BY <1>1, <2>2 DEF PageOK
<1>2. CASE p # "mock"
  <2>1. AllGenuine(a.docs)
    BY <1>2, DuckDuckGoAnswers, OpenMeteoAnswers, NewsAnswers, SerpAnswers, StreetMapAnswers, ReferencesAnswers
    DEF Providers
  <2>2. AllGenuine(Page(q, a.docs, Limit).docs) /\ Page(q, a.docs, Limit).quality \in Int
    BY <2>1, SearchAssumption, PageScored
  <2> QED BY <1>2, <2>2 DEF PageOK, AllGenuine, Genuine
<1> QED BY <1>1, <1>2

LEMMA OutcomeOK ==
  ASSUME NEW q \in Asks, NEW p \in Providers, NEW key \in Keys, NEW a \in Outcomes[q][p][key]
  PROVE  PageOK(p, a.page)
<1>1. Outcomes[q][p][key] = {[raises |-> b.raises, page |-> Page(q, b.docs, Limit)] : b \in Answers(q, p, key)}
  BY DEF Outcomes, Asks
<1>2. PICK b \in Answers(q, p, key) : a.page = Page(q, b.docs, Limit)
  BY <1>1
<1>3. IsFiniteSet(q)  BY SearchAssumption DEF Asks
<1> QED BY <1>2, <1>3, AnswerOK

(* A page any provider may come up with.                                   *)
LEMMA PageFacts ==
  ASSUME NEW p \in Providers, NEW page \in PagesOf(p)
  PROVE  /\ page.quality \in Int
         /\ p # "mock" => \A k \in DOMAIN page.docs : page.docs[k].provider # "mock"
         /\ p = "mock" => page.quality <= 10000
<1>1. CASE page = NoPage
  <2>1. NoPage.docs = <<>> /\ NoPage.quality = 0  BY DEF NoPage
  <2> QED BY <1>1, <2>1
<1>2. CASE page # NoPage
  <2>1. PICK a \in OutcomesOf(p) : page = a.page  BY <1>2 DEF PagesOf
  <2>2. PICK q \in Asks : a \in UNION {Outcomes[q][p][key] : key \in Keys}  BY DEF OutcomesOf
  <2>3. PICK key \in Keys : a \in Outcomes[q][p][key]  BY <2>2
  <2> QED BY <2>1, <2>3, OutcomeOK DEF PageOK
<1> QED BY <1>1, <1>2

(* What a batch of a page says.                                            *)
LEMMA BatchFacts ==
  ASSUME NEW p \in Providers, NEW page \in PagesOf(p), NEW fallback \in BOOLEAN
  PROVE  /\ Batch(p, page, fallback) \in Given
         /\ Batch(p, page, fallback).provider = p
         /\ Batch(p, page, fallback).docs = page.docs
         /\ Batch(p, page, fallback).fallback = fallback
         /\ p = "mock" /\ fallback => Batch(p, page, fallback).confidence <= 50
<1> DEFINE n == IF fallback THEN 2 ELSE 1
           c == (page.quality \div n) \div 100
           b == Batch(p, page, fallback)
<1>1. page.quality \in Int /\ (p = "mock" => page.quality <= 10000)  BY PageFacts
<1>2. c \in Int /\ (p = "mock" /\ fallback => c <= 50)  BY <1>1
<1>3. Confidence(page, fallback) = Min({100, c})  BY DEF Confidence
<1>4. page \in Pages  BY DEF Pages
<1> HIDE DEF c
<1>5. 100 \in Int  OBVIOUS
<1>6. Min({100, c}) = IF 100 <= c THEN 100 ELSE c  BY <1>2, <1>5, Least
<1>7. Confidence(page, fallback) \in Int /\ (p = "mock" /\ fallback => Confidence(page, fallback) <= 50)
  BY <1>2, <1>3, <1>6
<1>8. b = [provider |-> p, docs |-> page.docs, fallback |-> fallback, confidence |-> Confidence(page, fallback)]
  BY DEF Batch
<1> HIDE DEF b
<1>9. b \in Given
  BY <1>4, <1>7, <1>8 DEF Given
<1>10. b.provider = p /\ b.docs = page.docs /\ b.fallback = fallback /\ b.confidence = Confidence(page, fallback)
  BY <1>8
<1> QED BY <1>7, <1>9, <1>10 DEF b

(* What a batch of a real page says.                                       *)
LEMMA RealBatch ==
  ASSUME NEW p \in Providers, NEW page \in PagesOf(p)
  PROVE  /\ Batch(p, page, FALSE) \in Given /\ Batch(p, page, FALSE).provider = p
         /\ Batch(p, page, FALSE).docs = page.docs /\ Batch(p, page, FALSE).fallback = FALSE
<1> DEFINE b == Batch(p, page, FALSE)
<1>1. PICK no \in BOOLEAN : no = FALSE  OBVIOUS
<1>2. Batch(p, page, no) \in Given /\ Batch(p, page, no).provider = p /\ Batch(p, page, no).docs = page.docs
  BY BatchFacts
<1>3. Batch(p, page, no) = b
  BY <1>1
<1>4. b.fallback = FALSE
  BY DEF Batch
<1> HIDE DEF b
<1>5. b \in Given /\ b.provider = p /\ b.docs = page.docs /\ b.fallback = FALSE
  BY <1>2, <1>3, <1>4
<1> QED BY <1>5 DEF b

(* Pairs are compared by their first, then by their second number.         *)
LEMMA Worth ==
  ASSUME NEW a \in Int, NEW b \in Int, NEW i \in Int, NEW j \in Int
  PROVE  Precedes(<<a, i>>, <<b, j>>) <=> a > b \/ (a = b /\ i > j)
<1> DEFINE x == <<a, i>>
           y == <<b, j>>
<1>1. DOMAIN x = {1, 2} /\ x[1] = a /\ x[2] = i /\ y[1] = b /\ y[2] = j  OBVIOUS
<1> HIDE DEF x, y
<1>2. (\E k \in DOMAIN x : x[k] > y[k] /\ \A m \in 1..(k - 1) : x[m] = y[m]) <=> a > b \/ (a = b /\ i > j)
  BY <1>1
<1> QED BY <1>2 DEF Precedes, x, y

(* Every provider has a rank.                                              *)
LEMMA Ranks == \A p \in Providers : ProviderRank(p) \in Int
  BY DEF Providers, ProviderRank

(* What the lists of a row are.                                            *)
LEMMA Lines ==
  ASSUME NEW r, NEW env
  PROVE  /\ Line(r, env) \in Seq(Providers) /\ Len(Line(r, env)) \in Nat
         /\ Ahead(r, env) \in Seq(Providers) /\ Len(Ahead(r, env)) \in Nat
         /\ Len(Ahead(r, env)) \in 0..2 /\ Len(Ahead(r, env)) <= Len(Line(r, env))
         /\ DOMAIN Ahead(r, env) = 1..Len(Ahead(r, env))
         /\ \A k \in 1..Len(Ahead(r, env)) : Ahead(r, env)[k] = Line(r, env)[k]
         /\ \A i, j \in 1..Len(Line(r, env)) : Line(r, env)[i] = Line(r, env)[j] => i = j
         /\ ~MockOnly(env.mode) =>
              /\ "mock" \notin Range(Ahead(r, env))
              /\ \A i \in 1..Len(Line(r, env)) : Line(r, env)[i] # "mock"
              /\ \A i, j \in 1..(Len(Line(r, env)) + 1) : Due(r, env, i) = Due(r, env, j) => i = j
         /\ \A i : Due(r, env, i) = "mock" \/ i <= Len(Line(r, env))
         /\ \A i \in Nat \ {0} : Due(r, env, i) \in Providers
<1>1. GoodLine(env.mode, Line(r, env))  BY PlanOf DEF Line
<1> DEFINE line == Line(r, env)
           ahead == Ahead(r, env)
<1>2. line \in Seq(Providers) /\ Len(line) \in Nat /\ \A i \in 1..Len(line) : line[i] \in Providers
  BY <1>1 DEF GoodLine
<1>3. /\ ahead \in Seq(Providers) /\ Len(ahead) \in 0..2 /\ Len(ahead) <= Len(line)
      /\ \A k \in 1..Len(ahead) : ahead[k] = line[k]
  <2>1. CASE Speculates(env.mode, r.intent)
    BY <1>2, <2>1, FirstTwo DEF Ahead
  <2>2. CASE ~Speculates(env.mode, r.intent)
    <3>1. ahead = <<>>  BY <2>2 DEF Ahead
    <3> QED BY <1>2, <3>1
  <2> QED BY <2>1, <2>2
<1>4. Len(ahead) \in Nat /\ DOMAIN ahead = 1..Len(ahead)  BY <1>3
<1>5. \A i, j \in 1..Len(line) : line[i] = line[j] => i = j  BY <1>1 DEF GoodLine
<1>6. ~MockOnly(env.mode) => \A i \in 1..Len(line) : line[i] # "mock"  BY <1>1 DEF GoodLine, MockOnly
<1>7. \A i : Due(r, env, i) = IF i <= Len(line) THEN line[i] ELSE "mock"  BY DEF Due
<1>8. "mock" \in Providers  BY DEF Providers
<1> HIDE DEF line, ahead
<1>9. ~MockOnly(env.mode) => "mock" \notin Range(ahead)
  BY <1>2, <1>3, <1>4, <1>6 DEF Range
<1>10. ASSUME ~MockOnly(env.mode), NEW i \in 1..(Len(line) + 1), NEW j \in 1..(Len(line) + 1),
              Due(r, env, i) = Due(r, env, j)
       PROVE  i = j
  BY <1>2, <1>5, <1>6, <1>7, <1>10
<1>11. \A i \in Nat \ {0} : Due(r, env, i) \in Providers
  BY <1>2, <1>7, <1>8
<1>12. \A i : Due(r, env, i) = "mock" \/ i <= Len(line)  BY <1>7
<1> QED BY <1>2, <1>3, <1>4, <1>5, <1>6, <1>9, <1>10, <1>11, <1>12 DEF line, ahead
-----------------------------------------------------------------------------
(* A search as it is before and after a caller.                            *)
LEMMA FreshRow ==
  ASSUME NEW s, NEW env
  PROVE  RowInv(s, Fresh, env)
<1>1. /\ DOMAIN Fresh = {"pc", "query", "intent", "tried", "turn", "calls", "found", "batch"}
      /\ Fresh.pc = "idle" /\ Fresh.query = {} /\ Fresh.intent = "general_research" /\ Fresh.tried = <<>>
      /\ Fresh.turn = 1 /\ Fresh.calls = {} /\ Fresh.found = [p \in Providers |-> NoPage] /\ Fresh.batch = NoBatch
  BY DEF Fresh
<1>2. \A p \in Providers : NoPage \in PagesOf(p)  BY DEF PagesOf
<1>3. "mock" \in Providers  BY DEF Providers
<1>4. NoBatch \in Given
  <2>1. NoPage \in Pages /\ NoPage.docs = <<>>  BY <1>2, <1>3 DEF Pages, NoPage
  <2> QED BY <2>1 DEF NoBatch, Given
<1>5. Fresh \in Rows
  BY <1>2, <1>4 DEF Rows, Fresh, Pages, Intents
<1>6. Typed(s, Fresh, env)
  BY <1>1, <1>2, <1>5, Lines DEF Typed
<1>7. Len(Ahead(Fresh, env)) = 0
  BY <1>1 DEF Ahead, Speculates
<1> QED BY <1>1, <1>6, <1>7 DEF RowInv, Awaits, Went, Kept

(* What a search goes by stays as long as it is not asked anew.            *)
Same(r, r2) == r2.query = r.query /\ r2.intent = r.intent

(* Then its line-up stays too.                                             *)
LEMMA SameLines ==
  ASSUME NEW r, NEW r2, NEW env, Same(r, r2)
  PROVE  /\ Line(r2, env) = Line(r, env) /\ Ahead(r2, env) = Ahead(r, env)
         /\ \A k : Due(r2, env, k) = Due(r, env, k)
  BY DEF Same, Line, Ahead, Due

(* In demo mode the mock provider answers.                                 *)
LEMMA DemoRow ==
  ASSUME NEW s \in Searches, NEW env \in Env, NEW q \in Queries[s], NEW intent \in {SearchIntent(q), "weather_live"},
         MockOnly(env.mode), NEW a \in Outcomes[q]["mock"][env.key]
  PROVE  RowInv(s, [Fresh EXCEPT !.pc = "done", !.query = q, !.intent = intent, !.tried = <<"mock">>,
                                 !.batch = Batch("mock", a.page, TRUE)], env)
<1> DEFINE b == Batch("mock", a.page, TRUE)
           r == [Fresh EXCEPT !.pc = "done", !.query = q, !.intent = intent, !.tried = <<"mock">>, !.batch = b]
<1>1. q \in Asks /\ env.key \in Keys
  BY SearchAssumption DEF Asks, Range, Env
<1>2. "mock" \in Providers /\ a.page \in PagesOf("mock")
  BY <1>1 DEF Providers, PagesOf, OutcomesOf
<1>3. /\ b \in Given
      /\ b.provider = "mock" /\ b.fallback = TRUE /\ b.confidence <= 50
  BY <1>2, BatchFacts
<1> HIDE DEF b
<1>4. Fresh \in Rows /\ Fresh.found = [p \in Providers |-> NoPage] /\ Fresh.turn = 1 /\ Fresh.calls = {}
  BY FreshRow DEF RowInv, Typed, Fresh
<1>5. r \in Rows
  <2>1. <<"mock">> \in Seq(Providers) /\ intent \in Intents /\ q \in {{}} \cup Asks  BY <1>1, <1>2 DEF Intents
  <2> QED BY <2>1, <1>3, <1>4 DEF Rows
<1>6. /\ r.pc = "done" /\ r.query = q /\ r.intent = intent /\ r.tried = <<"mock">> /\ r.turn = 1 /\ r.calls = {}
      /\ r.found = [p \in Providers |-> NoPage] /\ r.batch = b
  BY <1>4 DEF Rows
<1> HIDE DEF r
<1>7. \A p \in Providers : NoPage \in PagesOf(p)  BY DEF PagesOf
<1>8. Typed(s, r, env)
  BY <1>5, <1>6, <1>7, Lines DEF Typed
<1>9. Ahead(r, env) = <<>>
  BY DEF Ahead, Speculates, MockOnly
<1>10. Awaits(r, env) /\ Went(r, env)
  BY <1>6, <1>9 DEF Awaits, Went
<1>11. Kept(r, env)
  BY <1>3, <1>6 DEF Kept, RealIn, MockAllowed, MockOnly
<1> QED BY <1>8, <1>10, <1>11 DEF RowInv, r, b

(* A search starts with the first two of its providers, or one after the   *)
(* other.                                                                  *)
LEMMA SpeculatingRow ==
  ASSUME NEW s \in Searches, NEW env \in Env, NEW q \in Queries[s], NEW intent \in {SearchIntent(q), "weather_live"},
         ~MockOnly(env.mode), Speculates(env.mode, intent), NEW two, two = First(Candidates(env.mode, intent, q), 2),
         NEW calls \in SUBSET Range(two)
  PROVE  RowInv(s, [Fresh EXCEPT !.pc = "speculating", !.query = q, !.intent = intent, !.tried = two, !.calls = calls], env)
<1> DEFINE r == [Fresh EXCEPT !.pc = "speculating", !.query = q, !.intent = intent, !.tried = two, !.calls = calls]
<1>1. q \in Asks /\ intent \in Intents
  BY SearchAssumption DEF Asks, Range, Intents
<1>2. /\ Fresh \in Rows /\ Fresh.found = [p \in Providers |-> NoPage] /\ Fresh.turn = 1
  BY FreshRow DEF RowInv, Typed, Fresh
<1>3. /\ r.pc = "speculating" /\ r.query = q /\ r.intent = intent /\ r.tried = two /\ r.turn = 1 /\ r.calls = calls
      /\ r.found = [p \in Providers |-> NoPage]
  BY <1>2 DEF Rows
<1>4. Ahead(r, env) = two
  BY <1>3 DEF Ahead, Line
<1>5. two \in Seq(Providers) /\ calls \in SUBSET Providers /\ Len(two) \in Nat
  BY <1>4, Lines DEF Range
<1>6. r \in Rows
  BY <1>1, <1>2, <1>5 DEF Rows
<1>6a. "mock" \notin calls
  BY <1>4, Lines
<1> HIDE DEF r
<1>7. \A p \in Providers : NoPage \in PagesOf(p)  BY DEF PagesOf
<1>8. Typed(s, r, env)
  BY <1>3, <1>6, <1>7, Lines DEF Typed
<1>9. Awaits(r, env)
  BY <1>3, <1>4, <1>6a DEF Awaits
<1>10. Went(r, env)
  BY <1>3, <1>4, <1>5 DEF Went
<1>11. Kept(r, env)
  BY <1>3 DEF Kept, RealIn
<1> QED BY <1>8, <1>9, <1>10, <1>11 DEF RowInv, r

(* Or it asks one after the other from the start.                          *)
LEMMA AskingRow ==
  ASSUME NEW s \in Searches, NEW env \in Env, NEW q \in Queries[s], NEW intent \in {SearchIntent(q), "weather_live"},
         ~MockOnly(env.mode), ~Speculates(env.mode, intent)
  PROVE  RowInv(s, [Fresh EXCEPT !.pc = "asking", !.query = q, !.intent = intent], env)
<1> DEFINE r == [Fresh EXCEPT !.pc = "asking", !.query = q, !.intent = intent]
<1>1. q \in Asks /\ intent \in Intents
  BY SearchAssumption DEF Asks, Range, Intents
<1>2. /\ Fresh \in Rows /\ Fresh.found = [p \in Providers |-> NoPage] /\ Fresh.turn = 1 /\ Fresh.tried = <<>>
      /\ Fresh.calls = {}
  BY FreshRow DEF RowInv, Typed, Fresh
<1>3. /\ r.pc = "asking" /\ r.query = q /\ r.intent = intent /\ r.tried = <<>> /\ r.turn = 1 /\ r.calls = {}
      /\ r.found = [p \in Providers |-> NoPage]
  BY <1>2 DEF Rows
<1>4. Ahead(r, env) = <<>>
  BY <1>3 DEF Ahead
<1>6. r \in Rows
  BY <1>1, <1>2 DEF Rows
<1> HIDE DEF r
<1>7. \A p \in Providers : NoPage \in PagesOf(p)  BY DEF PagesOf
<1>8. Typed(s, r, env)
  BY <1>3, <1>6, <1>7, Lines DEF Typed
<1>9. Awaits(r, env)
  BY <1>3 DEF Awaits
<1>10. Went(r, env)
  BY <1>3, <1>4 DEF Went
<1>11. Kept(r, env)
  BY <1>3 DEF Kept, RealIn
<1> QED BY <1>8, <1>9, <1>10, <1>11 DEF RowInv, r

-----------------------------------------------------------------------------
(* Take, of a row.                                                         *)
TakeRow(here, p, page) ==
  LET after == [here EXCEPT !.calls = @ \ {p}, !.found[p] = page]
  IN CASE here.pc = "speculating" -> after
       [] here.pc = "asking" /\ p # "mock" /\ page # NoPage ->
            [after EXCEPT !.pc = "done", !.batch = Batch(p, page, FALSE)]
       [] here.pc = "asking" /\ p # "mock" /\ page = NoPage -> [after EXCEPT !.turn = @ + 1]
       [] OTHER -> [after EXCEPT !.pc = "done", !.batch = Batch("mock", page, TRUE)]

(* An answer taken: the search awaits one less, or ends.                   *)
LEMMA TakenRow ==
  ASSUME NEW s \in Searches, NEW env \in Env, NEW r, RowInv(s, r, env), NEW p \in r.calls, NEW page \in PagesOf(p)
  PROVE  RowInv(s, TakeRow(r, p, page), env)
<1> DEFINE after == [r EXCEPT !.calls = @ \ {p}, !.found[p] = page]
           line == Line(r, env)
           ahead == Ahead(r, env)
<1>1. r \in Rows /\ p \in Providers /\ r.pc \in {"speculating", "asking"} /\ page \in Pages /\ ~MockOnly(env.mode)
  BY DEF RowInv, Typed, Awaits, Rows, Pages
<1>2. /\ after \in Rows
      /\ after.pc = r.pc /\ after.query = r.query /\ after.intent = r.intent /\ after.tried = r.tried
      /\ after.turn = r.turn /\ after.calls = r.calls \ {p} /\ after.found = [r.found EXCEPT ![p] = page]
  BY <1>1 DEF Rows
<1>3. \A o \in Providers : after.found[o] = IF o = p THEN page ELSE r.found[o]
  BY <1>1, <1>2 DEF Rows
<1>4. \A o \in Providers : after.found[o] \in PagesOf(o)
  BY <1>3 DEF RowInv, Typed
<1> HIDE DEF after
<1>5. CASE r.pc = "speculating"
  <2>1. TakeRow(r, p, page) = after  BY <1>5 DEF TakeRow, after
  <2>2. Same(r, after)  BY <1>2 DEF Same
  <2>3. Line(after, env) = line /\ Ahead(after, env) = ahead  BY <2>2, SameLines
  <2> HIDE DEF line, ahead
  <2>4. Typed(s, after, env)
    BY <1>2, <1>4, <1>5, <2>3 DEF RowInv, Typed, line
  <2>5. Awaits(after, env)
    BY <1>2, <1>5, <2>3 DEF RowInv, Awaits, ahead
  <2>6. Went(after, env)
    BY <1>2, <1>5, <2>3 DEF RowInv, Went, ahead
  <2>7. RealIn(after) \subseteq RealIn(r) \cup {p}
    BY <1>3 DEF RealIn
  <2>8. p \in Range(ahead) /\ RealIn(r) \subseteq Range(ahead)
    BY <1>5 DEF RowInv, Awaits, Kept, ahead
  <2>9. Kept(after, env)
    BY <1>2, <1>5, <2>3, <2>7, <2>8 DEF Kept
  <2> QED BY <2>1, <2>4, <2>5, <2>6, <2>9 DEF RowInv
<1>6. CASE r.pc = "asking" /\ p # "mock" /\ page # NoPage
  <2> DEFINE b == Batch(p, page, FALSE)
             r2 == [after EXCEPT !.pc = "done", !.batch = b]
  <2>1. TakeRow(r, p, page) = r2  BY <1>6 DEF TakeRow, after
  <2>2. /\ b \in Given /\ b.provider = p /\ b.docs = page.docs /\ b.fallback = FALSE
    BY <1>1, RealBatch
  <2> HIDE DEF b
  <2>3. /\ r2 \in Rows /\ r2.pc = "done" /\ r2.batch = b /\ r2.query = r.query /\ r2.intent = r.intent
        /\ r2.tried = r.tried /\ r2.turn = r.turn /\ r2.found = after.found /\ r2.calls = r.calls \ {p}
    BY <1>2, <2>2 DEF Rows
  <2> HIDE DEF r2
  <2>4. Same(r, r2)  BY <2>3 DEF Same
  <2>5. Line(r2, env) = line /\ Ahead(r2, env) = ahead  BY <2>4, SameLines
  <2>6. r.calls = {p}
    BY <1>6 DEF RowInv, Awaits
  <2> HIDE DEF line, ahead
  <2>7. Typed(s, r2, env)
    BY <1>4, <1>6, <2>3, <2>5 DEF RowInv, Typed, line
  <2>8. Awaits(r2, env)
    BY <2>3, <2>6 DEF Awaits
  <2>9. Went(r2, env)
    BY <2>3, <2>5 DEF RowInv, Went, ahead
  <2>10. RealIn(r2) = {p}
    <3>1. RealIn(r) = {}  BY <1>6 DEF RowInv, Kept
    <3> QED BY <1>1, <1>3, <1>6, <2>3, <3>1 DEF RealIn
  <2>11. ScoreIn(r2, p) \in Int
    <3>1. r2.found[p] = page  BY <1>1, <1>3, <2>3
    <3> QED BY <1>1, <3>1, PageFacts, Ranks DEF ScoreIn
  <2>12. \A k \in DOMAIN b.docs : b.docs[k].provider # "mock"
    BY <1>1, <1>6, <2>2, PageFacts
  <2>13. Kept(r2, env)
    BY <1>6, <2>2, <2>3, <2>10, <2>11, <2>12 DEF Kept
  <2> QED BY <2>1, <2>7, <2>8, <2>9, <2>13 DEF RowInv
<1>7. CASE r.pc = "asking" /\ p # "mock" /\ page = NoPage
  <2> DEFINE r2 == [after EXCEPT !.turn = @ + 1]
  <2>1. TakeRow(r, p, page) = r2  BY <1>7 DEF TakeRow, after
  <2>2. /\ r2 \in Rows /\ r2.pc = "asking" /\ r2.query = r.query /\ r2.intent = r.intent
        /\ r2.tried = r.tried /\ r2.turn = r.turn + 1 /\ r2.found = after.found /\ r2.calls = r.calls \ {p}
    BY <1>2, <1>7 DEF Rows
  <2> HIDE DEF r2
  <2>3. Same(r, r2)  BY <2>2 DEF Same
  <2>4. Line(r2, env) = line /\ Ahead(r2, env) = ahead /\ \A k : Due(r2, env, k) = Due(r, env, k)  BY <2>3, SameLines
  <2>5. r.calls = {p} /\ p = Due(r, env, r.turn) /\ r2.calls = {}
    BY <1>7, <2>2 DEF RowInv, Awaits
  <2>6. r.turn <= Len(line) /\ Len(line) \in Nat /\ Len(ahead) \in Nat /\ r.turn \in Nat /\ Len(r.tried) \in Nat
    BY <1>1, <1>7, <2>5, Lines DEF Rows
  <2>7. Typed(s, r2, env)
    BY <1>4, <1>7, <2>2, <2>4, <2>6 DEF RowInv, Typed
  <2> HIDE DEF line, ahead
  <2>8. Awaits(r2, env)
    BY <1>1, <2>2, <2>5 DEF Awaits
  <2>9. Went(r2, env)
    <3>1. Len(r.tried) = Len(ahead) + r.turn
      BY <1>7, <2>5, <2>6 DEF RowInv, Went, ahead
    <3>2. Len(r2.tried) = Len(ahead) + r2.turn - 1
      BY <2>2, <2>6, <3>1
    <3> QED BY <1>7, <2>2, <2>4, <2>5, <3>2 DEF RowInv, Went, ahead
  <2>10. RealIn(r2) = {}
    <3>1. RealIn(r) = {}  BY <1>7 DEF RowInv, Kept
    <3> QED BY <1>1, <1>3, <1>7, <2>2, <3>1 DEF RealIn
  <2>11. Kept(r2, env)
    BY <2>2, <2>10 DEF Kept
  <2> QED BY <2>1, <2>7, <2>8, <2>9, <2>11 DEF RowInv
<1>8. CASE r.pc = "asking" /\ p = "mock"
  <2> DEFINE b == Batch("mock", page, TRUE)
             r2 == [after EXCEPT !.pc = "done", !.batch = b]
  <2>1. TakeRow(r, p, page) = r2  BY <1>8 DEF TakeRow, after
  <2>2. /\ b \in Given /\ b.provider = "mock" /\ b.fallback = TRUE /\ b.confidence <= 50
    BY <1>1, <1>8, BatchFacts
  <2> HIDE DEF b
  <2>3. /\ r2 \in Rows /\ r2.pc = "done" /\ r2.batch = b /\ r2.query = r.query /\ r2.intent = r.intent
        /\ r2.tried = r.tried /\ r2.turn = r.turn /\ r2.found = after.found /\ r2.calls = r.calls \ {p}
    BY <1>2, <2>2 DEF Rows
  <2> HIDE DEF r2
  <2>4. Same(r, r2)  BY <2>3 DEF Same
  <2>5. Line(r2, env) = line /\ Ahead(r2, env) = ahead  BY <2>4, SameLines
  <2>6. r.calls = {p} /\ MockAllowed(env.mode, env.mockOptIn)
    BY <1>8 DEF RowInv, Awaits
  <2> HIDE DEF line, ahead
  <2>7. Typed(s, r2, env)
    BY <1>4, <1>8, <2>3, <2>5 DEF RowInv, Typed, line
  <2>8. Awaits(r2, env)
    BY <2>3, <2>6 DEF Awaits
  <2>9. Went(r2, env)
    BY <2>3, <2>5 DEF RowInv, Went, ahead
  <2>10. RealIn(r2) = {}
    <3>1. RealIn(r) = {}  BY <1>8 DEF RowInv, Kept
    <3> QED BY <1>1, <1>3, <1>8, <2>3, <3>1 DEF RealIn
  <2>11. Kept(r2, env)
    BY <2>2, <2>3, <2>6, <2>10 DEF Kept
  <2> QED BY <2>1, <2>7, <2>8, <2>9, <2>11 DEF RowInv
<1> QED BY <1>1, <1>5, <1>6, <1>7, <1>8
-----------------------------------------------------------------------------
(* Settle, of a row: one of its two pages is the best.                     *)
SettleRow(here) ==
  LET two == here.tried
      with == {k \in DOMAIN two : here.found[two[k]] # NoPage}
      best == CHOOSE k \in with : \A m \in with \ {k} :
                Precedes(<<ScoreIn(here, two[k]), -k>>, <<ScoreIn(here, two[m]), -m>>)
  IN IF with = {} THEN [here EXCEPT !.pc = "asking"]
     ELSE [here EXCEPT !.pc = "done", !.batch = Batch(two[best], here.found[two[best]], FALSE)]

(* Of at most two there is a best, and none is worth more.                 *)
LEMMA BestOfTwo ==
  ASSUME NEW with \in SUBSET (1..2), with # {}, NEW score, \A k \in with : score[k] \in Int
  PROVE  /\ \E k \in with : \A m \in with \ {k} : Precedes(<<score[k], -k>>, <<score[m], -m>>)
         /\ \A k, m \in with : Precedes(<<score[k], -k>>, <<score[m], -m>>) => score[m] <= score[k]
<1> DEFINE Better(k, m) == score[k] > score[m] \/ (score[k] = score[m] /\ -k > -m)
<1>1. \A k, m \in with : Precedes(<<score[k], -k>>, <<score[m], -m>>) <=> Better(k, m)
  <2> SUFFICES ASSUME NEW k \in with, NEW m \in with
               PROVE  Precedes(<<score[k], -k>>, <<score[m], -m>>) <=> Better(k, m)
    OBVIOUS
  <2>1. score[k] \in Int /\ score[m] \in Int /\ -k \in Int /\ -m \in Int  OBVIOUS
  <2> QED BY <2>1, Worth
<1>0. with \subseteq {1, 2}  OBVIOUS
<1>2. \E k \in with : \A m \in with \ {k} : Better(k, m)
  <2>1. CASE 1 \notin with
    <3>1. with = {2}  BY <1>0, <2>1, Zenon
    <3> QED BY <3>1, Zenon
  <2>2. CASE 2 \notin with
    <3>1. with = {1}  BY <1>0, <2>2, Zenon
    <3> QED BY <3>1, Zenon
  <2>3. CASE 1 \in with /\ 2 \in with
    <3>0. with = {1, 2}  BY <1>0, <2>3, Zenon
    <3>1. score[1] \in Int /\ score[2] \in Int /\ with = {1, 2}  BY <3>0, Zenon
    <3>2. CASE score[1] >= score[2]  BY <3>1, <3>2
    <3>3. CASE score[2] > score[1]  BY <3>1, <3>3
    <3> QED BY <3>1, <3>2, <3>3
  <2> QED BY <2>1, <2>2, <2>3
<1>3. \E k \in with : \A m \in with \ {k} : Precedes(<<score[k], -k>>, <<score[m], -m>>)
  BY <1>1, <1>2
<1>4. ASSUME NEW k \in with, NEW m \in with, Better(k, m)
      PROVE  score[m] <= score[k]
  <2>1. score[k] \in Int /\ score[m] \in Int  BY Zenon
  <2> QED BY <1>4, <2>1
<1> QED BY <1>1, <1>3, <1>4, Zenon

(* A speculative round settled: it ends with the best page, or goes on     *)
(* when there is none.                                                     *)
LEMMA SettledRow ==
  ASSUME NEW s \in Searches, NEW env \in Env, NEW r, RowInv(s, r, env), r.pc = "speculating", r.calls = {}
  PROVE  RowInv(s, SettleRow(r), env)
<1> DEFINE two == r.tried
           with == {k \in DOMAIN two : r.found[two[k]] # NoPage}
           line == Line(r, env)
           ahead == Ahead(r, env)
           score == [k \in with |-> ScoreIn(r, two[k])]
           best == CHOOSE k \in with : \A m \in with \ {k} :
                     Precedes(<<ScoreIn(r, two[k]), -k>>, <<ScoreIn(r, two[m]), -m>>)
<1>1. r \in Rows /\ ~MockOnly(env.mode) /\ r.turn = 1
  BY DEF RowInv, Typed, Awaits
<1>2. /\ Len(two) = Len(ahead) /\ DOMAIN two = 1..Len(two) /\ DOMAIN ahead = 1..Len(ahead)
      /\ \A k \in 1..Len(two) : two[k] = ahead[k] /\ two[k] \in Providers
  <2>1. two \in Seq(Providers) /\ DOMAIN ahead = 1..Len(ahead)  BY <1>1, Lines DEF Rows
  <2> QED BY <2>1 DEF RowInv, Went
<1>3. with \subseteq 1..2
  BY <1>2, Lines
<1>4. \A k \in with : /\ two[k] \in Providers \ {"mock"} /\ r.found[two[k]] \in PagesOf(two[k])
                      /\ score[k] = ScoreIn(r, two[k]) /\ score[k] \in Int
  <2> SUFFICES ASSUME NEW k \in with
               PROVE  /\ two[k] \in Providers \ {"mock"} /\ r.found[two[k]] \in PagesOf(two[k])
                      /\ ScoreIn(r, two[k]) \in Int
    OBVIOUS
  <2>1. two[k] \in Providers \ {"mock"}
    BY <1>1, <1>2, Lines DEF Range
  <2>2. r.found[two[k]] \in PagesOf(two[k])
    BY <2>1 DEF RowInv, Typed
  <2> QED BY <2>1, <2>2, PageFacts, Ranks DEF ScoreIn
<1>5. RealIn(r) = {two[k] : k \in with}
  <2>1. RealIn(r) \subseteq {two[k] : k \in with}
    <3>1. RealIn(r) \subseteq Range(ahead)  BY DEF RowInv, Kept
    <3> QED BY <1>2, <3>1 DEF Range, RealIn
  <2>2. {two[k] : k \in with} \subseteq RealIn(r)
    BY <1>4 DEF RealIn
  <2> QED BY <2>1, <2>2
<1>6. CASE with = {}
  <2> DEFINE r2 == [r EXCEPT !.pc = "asking"]
  <2>1. SettleRow(r) = r2  BY <1>6 DEF SettleRow
  <2>2. /\ r2 \in Rows /\ r2.pc = "asking" /\ r2.query = r.query /\ r2.intent = r.intent
        /\ r2.tried = r.tried /\ r2.turn = 1 /\ r2.found = r.found /\ r2.calls = {}
    BY <1>1 DEF Rows
  <2> HIDE DEF r2
  <2>3. Same(r, r2)  BY <2>2 DEF Same
  <2>4. Line(r2, env) = line /\ Ahead(r2, env) = ahead  BY <2>3, SameLines
  <2>5. RealIn(r2) = {}  BY <1>5, <1>6, <2>2 DEF RealIn
  <2>6. Len(ahead) \in Nat  BY Lines
  <2> HIDE DEF line, with, score, best
  <2>7. Typed(s, r2, env)
    BY <2>2, <2>4 DEF RowInv, Typed, line
  <2> HIDE DEF ahead
  <2>8. Awaits(r2, env)
    BY <1>1, <2>2 DEF RowInv, Awaits
  <2>9. Went(r2, env)
    BY <1>2, <2>2, <2>4, <2>6 DEF RowInv, Went, ahead
  <2>10. Kept(r2, env)
    BY <2>2, <2>5 DEF Kept
  <2> QED BY <2>1, <2>7, <2>8, <2>9, <2>10 DEF RowInv
<1>7. CASE with # {}
  <2>1. best \in with /\ \A m \in with : score[m] <= score[best]
    <3>1. with \in SUBSET (1..2) /\ \A k \in with : score[k] \in Int
      BY <1>3, <1>4
    <3>2. /\ \E k \in with : \A m \in with \ {k} : Precedes(<<score[k], -k>>, <<score[m], -m>>)
          /\ \A k, m \in with : Precedes(<<score[k], -k>>, <<score[m], -m>>) => score[m] <= score[k]
      <4> HIDE DEF with, score, best
      <4> QED BY <1>7, <3>1, BestOfTwo
    <3>3. \A k \in with : score[k] = ScoreIn(r, two[k])  BY <1>4
    <3>4. \E k \in with : \A m \in with \ {k} : Precedes(<<ScoreIn(r, two[k]), -k>>, <<ScoreIn(r, two[m]), -m>>)
      <4> HIDE DEF with, score, best, two
      <4> QED BY <3>2, <3>3
    <3>5. best \in with /\ \A m \in with \ {best} : Precedes(<<ScoreIn(r, two[best]), -best>>, <<ScoreIn(r, two[m]), -m>>)
      <4> HIDE DEF with, score
      <4> QED BY <3>4, Zenon
    <3> HIDE DEF with, score, best, two
    <3>6. score[best] \in Int  BY <3>1, <3>5
    <3>7. ASSUME NEW m \in with \ {best}  PROVE score[m] <= score[best]
      BY <3>2, <3>3, <3>5
    <3> QED BY <3>5, <3>6, <3>7
  <2> DEFINE q == two[best]
             page == r.found[q]
             b == Batch(q, page, FALSE)
             r2 == [r EXCEPT !.pc = "done", !.batch = b]
  <2>2. SettleRow(r) = r2  BY <1>7 DEF SettleRow
  <2>3. q \in Providers \ {"mock"} /\ r.found[q] \in PagesOf(q) /\ q \in RealIn(r)
    BY <1>4, <1>5, <2>1
  <2>4. \A p \in RealIn(r) : ScoreIn(r, p) <= ScoreIn(r, q)
    BY <1>4, <1>5, <2>1
  <2>a. q \in Providers /\ q # "mock" /\ page \in PagesOf(q)  BY <2>3
  <2> HIDE DEF q, with, score, best, page
  <2>5. b \in Given /\ b.provider = q /\ b.docs = page.docs /\ b.fallback = FALSE
    BY <2>a, <2>3, RealBatch
  <2> HIDE DEF b
  <2>6. \A k \in DOMAIN b.docs : b.docs[k].provider # "mock"
    BY <2>a, <2>5, PageFacts
  <2>7. /\ r2 \in Rows /\ r2.pc = "done" /\ r2.batch = b /\ r2.query = r.query /\ r2.intent = r.intent
        /\ r2.tried = r.tried /\ r2.turn = r.turn /\ r2.found = r.found /\ r2.calls = {}
    BY <1>1, <2>5 DEF Rows
  <2> HIDE DEF r2
  <2>8. Same(r, r2)  BY <2>7 DEF Same
  <2>9. Line(r2, env) = line /\ Ahead(r2, env) = ahead  BY <2>8, SameLines
  <2> HIDE DEF line, ahead
  <2>10. Typed(s, r2, env)
    BY <2>7, <2>9 DEF RowInv, Typed, line
  <2>11. Awaits(r2, env)
    BY <2>7 DEF Awaits
  <2>12. Went(r2, env)
    BY <2>7, <2>9 DEF RowInv, Went, ahead
  <2>13. RealIn(r2) = RealIn(r) /\ \A p : ScoreIn(r2, p) = ScoreIn(r, p)
    BY <2>7 DEF RealIn, ScoreIn
  <2>14. Kept(r2, env)
    BY <2>3, <2>4, <2>5, <2>6, <2>7, <2>13 DEF Kept
  <2> QED BY <2>2, <2>10, <2>11, <2>12, <2>14 DEF RowInv
<1> QED BY <1>6, <1>7
-----------------------------------------------------------------------------
(* Ask, of a row, when the breaker of its provider allows the call or not. *)
AskRow(here, env, allowed) ==
  LET p == Due(here, env, here.turn)
      asked == [here EXCEPT !.tried = Append(@, p), !.calls = IF allowed THEN {p} ELSE {}]
  IN IF p # "mock" \/ MockAllowed(env.mode, env.mockOptIn)
     THEN IF allowed THEN asked
          ELSE IF p # "mock" THEN [asked EXCEPT !.turn = @ + 1]
          ELSE [asked EXCEPT !.pc = "done", !.batch = Batch("mock", NoPage, TRUE)]
     ELSE [here EXCEPT !.pc = "done", !.batch = NoBatch]

Longer(r, env, tried) ==
  LET n == Len(Ahead(r, env))
  IN /\ tried \in Seq(Providers) /\ Len(tried) = n + r.turn /\ n \in Nat /\ r.turn \in Nat
     /\ n <= Len(tried)
     /\ \A k \in 1..n : tried[k] = Ahead(r, env)[k]
     /\ \A i, j \in (n + 1)..Len(tried) : tried[i] = tried[j] => i = j
     /\ \A k \in 1..(Len(tried) - n) : tried[n + k] = Due(r, env, k)

(* A list that grows by the provider that is due.                          *)
LEMMA Grows ==
  ASSUME NEW s, NEW env, NEW r, RowInv(s, r, env), r.pc = "asking", r.calls = {}
  PROVE  Longer(r, env, Append(r.tried, Due(r, env, r.turn)))
<1> DEFINE n == Len(Ahead(r, env))
           p == Due(r, env, r.turn)
           l == Len(Line(r, env))
           tried == Append(r.tried, Due(r, env, r.turn))
<1>1. r \in Rows /\ ~MockOnly(env.mode) /\ r.turn \in 1..(l + 1)
  <2>1. r \in Rows /\ r.turn <= l + 1 /\ r.turn >= 1 /\ ~MockOnly(env.mode)  BY DEF RowInv, Typed, Awaits
  <2> QED BY <2>1, Lines DEF Rows
<1>2. n \in Nat /\ l \in Nat /\ p \in Providers /\ r.tried \in Seq(Providers)
  BY <1>1, Lines DEF Rows
<1>3. /\ Len(r.tried) = n + r.turn - 1
      /\ \A k \in 1..n : r.tried[k] = Ahead(r, env)[k]
      /\ \A k \in 1..(Len(r.tried) - n) : r.tried[n + k] = Due(r, env, k)
  BY DEF RowInv, Went
<1>4. \A i, j \in 1..(l + 1) : Due(r, env, i) = Due(r, env, j) => i = j
  BY <1>1, Lines
<1> HIDE DEF n, l
<1>5. /\ tried \in Seq(Providers) /\ Len(tried) = Len(r.tried) + 1
      /\ \A k \in 1..Len(r.tried) : tried[k] = r.tried[k]
      /\ tried[Len(r.tried) + 1] = p
  <2> HIDE DEF p
  <2>1. tried = Append(r.tried, p)  BY DEF p
  <2> HIDE DEF tried
  <2> QED BY <1>2, <2>1
<1> HIDE DEF tried, p
<1>6. Len(tried) = n + r.turn
  BY <1>1, <1>2, <1>3, <1>5
<1>7. \A k \in 1..n : tried[k] = Ahead(r, env)[k]
  BY <1>1, <1>2, <1>3, <1>5
<1>8. ASSUME NEW k \in 1..r.turn
      PROVE  tried[n + k] = Due(r, env, k)
  <2>1. CASE k = r.turn
    BY <1>1, <1>2, <1>3, <1>5, <2>1 DEF p
  <2>2. CASE k # r.turn
    <3>1. k \in 1..(Len(r.tried) - n) /\ n + k \in 1..Len(r.tried)  BY <1>1, <1>2, <1>3, <2>2
    <3> QED BY <1>3, <1>5, <3>1
  <2> QED BY <2>1, <2>2
<1>9. ASSUME NEW i \in (n + 1)..(n + r.turn), NEW j \in (n + 1)..(n + r.turn), tried[i] = tried[j]
      PROVE  i = j
  <2>1. i - n \in 1..r.turn /\ j - n \in 1..r.turn /\ i = n + (i - n) /\ j = n + (j - n)  BY <1>1, <1>2
  <2>2. Due(r, env, i - n) = Due(r, env, j - n)  BY <1>8, <1>9, <2>1
  <2>3. i - n \in 1..(l + 1) /\ j - n \in 1..(l + 1)  BY <1>1, <1>2, <2>1
  <2>4. i - n = j - n  BY <1>4, <2>2, <2>3
  <2> QED BY <2>4, <1>2
<1>10. Len(tried) - n = r.turn /\ n <= Len(tried) /\ r.turn \in Nat
  BY <1>1, <1>2, <1>6
<1>11. Longer(r, env, tried)
  BY <1>2, <1>5, <1>6, <1>7, <1>8, <1>9, <1>10 DEF n, Longer
<1> QED BY <1>11 DEF tried, p

(* The next provider asked, refused, or nobody left to ask.                *)
LEMMA AskedRow ==
  ASSUME NEW s \in Searches, NEW env \in Env, NEW r, RowInv(s, r, env), r.pc = "asking", r.calls = {},
         NEW allowed \in BOOLEAN
  PROVE  RowInv(s, AskRow(r, env, allowed), env)
<1> DEFINE p == Due(r, env, r.turn)
           line == Line(r, env)
           ahead == Ahead(r, env)
           tried == Append(r.tried, p)
           asked == [r EXCEPT !.tried = tried, !.calls = IF allowed THEN {p} ELSE {}]
<1>1. r \in Rows /\ ~MockOnly(env.mode) /\ RealIn(r) = {} /\ r.query \in Queries[s]
      /\ \A o \in Providers : r.found[o] \in PagesOf(o)
  BY DEF RowInv, Typed, Awaits, Kept
<1>2. /\ tried \in Seq(Providers) /\ Len(tried) = Len(ahead) + r.turn /\ Len(ahead) \in Nat /\ r.turn \in Nat
      /\ Len(ahead) <= Len(tried)
      /\ \A k \in 1..Len(ahead) : tried[k] = ahead[k]
      /\ \A i, j \in (Len(ahead) + 1)..Len(tried) : tried[i] = tried[j] => i = j
      /\ \A k \in 1..(Len(tried) - Len(ahead)) : tried[Len(ahead) + k] = Due(r, env, k)
  <2>1. Longer(r, env, tried)  BY Grows
  <2> HIDE DEF tried, p
  <2> QED BY <2>1 DEF Longer
<1>3. p \in Providers /\ r.turn <= Len(line) + 1 /\ r.turn >= 1 /\ Len(line) \in Nat /\ (p # "mock" => r.turn <= Len(line))
  BY <1>1, Lines DEF Rows, RowInv, Typed
<1> HIDE DEF p, line, ahead, tried
<1>4. /\ asked \in Rows /\ asked.pc = "asking" /\ asked.query = r.query /\ asked.intent = r.intent
      /\ asked.tried = tried /\ asked.turn = r.turn /\ asked.found = r.found
      /\ asked.calls = IF allowed THEN {p} ELSE {}
  BY <1>1, <1>2, <1>3 DEF Rows
<1> HIDE DEF asked
<1>5. CASE (p # "mock" \/ MockAllowed(env.mode, env.mockOptIn)) /\ allowed
  <2>1. AskRow(r, env, allowed) = asked  BY <1>5 DEF AskRow, asked, p, tried
  <2>2. Same(r, asked)  BY <1>4 DEF Same
  <2>3. Line(asked, env) = line /\ Ahead(asked, env) = ahead /\ \A k : Due(asked, env, k) = Due(r, env, k)
    BY <2>2, SameLines DEF line, ahead
  <2>4. asked.calls = {p}  BY <1>4, <1>5
  <2>5. Typed(s, asked, env)
    BY <1>1, <1>3, <1>4, <2>3 DEF Typed
  <2>6. Awaits(asked, env)
    BY <1>1, <1>4, <1>5, <2>3, <2>4 DEF Awaits, p
  <2>7. Went(asked, env)
    <3>1. asked.tried = tried /\ asked.turn = r.turn /\ asked.pc = "asking" /\ asked.calls # {}
      BY <1>4, <2>4
    <3>2. Len(tried) = Len(ahead) + r.turn - 0
      BY <1>2
    <3> QED BY <1>2, <2>3, <3>1, <3>2 DEF Went
  <2>8. Kept(asked, env)
    BY <1>1, <1>4 DEF Kept, RealIn
  <2> QED BY <2>1, <2>5, <2>6, <2>7, <2>8 DEF RowInv
<1>6. CASE p # "mock" /\ ~allowed
  <2> DEFINE r2 == [asked EXCEPT !.turn = @ + 1]
  <2>1. AskRow(r, env, allowed) = r2  BY <1>6 DEF AskRow, asked, p, tried
  <2>2. asked.calls = {}  BY <1>4, <1>6
  <2>3. /\ r2 \in Rows /\ r2.pc = "asking" /\ r2.query = r.query /\ r2.intent = r.intent
        /\ r2.tried = tried /\ r2.turn = r.turn + 1 /\ r2.found = r.found /\ r2.calls = {}
    BY <1>4, <2>2 DEF Rows
  <2> HIDE DEF r2
  <2>4. Same(r, r2)  BY <2>3 DEF Same
  <2>5. Line(r2, env) = line /\ Ahead(r2, env) = ahead /\ \A k : Due(r2, env, k) = Due(r, env, k)
    BY <2>4, SameLines DEF line, ahead
  <2>6. r2.turn <= Len(line) + 1 /\ r2.turn >= 1
    BY <1>2, <1>3, <1>6, <2>3
  <2>7. Typed(s, r2, env)
    BY <1>1, <2>3, <2>5, <2>6 DEF Typed
  <2>8. Awaits(r2, env)
    BY <1>1, <2>3 DEF Awaits
  <2>9. Len(tried) = Len(ahead) + r2.turn - 1
    BY <1>2, <2>3
  <2>10. Went(r2, env)
    BY <1>2, <2>3, <2>5, <2>9 DEF Went
  <2>11. Kept(r2, env)
    BY <1>1, <2>3 DEF Kept, RealIn
  <2> QED BY <2>1, <2>7, <2>8, <2>10, <2>11 DEF RowInv
<1>7. CASE p = "mock" /\ MockAllowed(env.mode, env.mockOptIn) /\ ~allowed
  <2> DEFINE b == Batch("mock", NoPage, TRUE)
             r2 == [asked EXCEPT !.pc = "done", !.batch = b]
  <2>1. AskRow(r, env, allowed) = r2  BY <1>7 DEF AskRow, asked, p, tried
  <2>2. "mock" \in Providers /\ NoPage \in PagesOf("mock")  BY DEF Providers, PagesOf
  <2>3. /\ b \in Given /\ b.provider = "mock" /\ b.fallback = TRUE /\ b.confidence <= 50
    BY <2>2, BatchFacts
  <2> HIDE DEF b
  <2>4. asked.calls = {}  BY <1>4, <1>7
  <2>5. /\ r2 \in Rows /\ r2.pc = "done" /\ r2.query = r.query /\ r2.intent = r.intent
        /\ r2.tried = tried /\ r2.turn = r.turn /\ r2.found = r.found /\ r2.calls = {} /\ r2.batch = b
    BY <1>4, <2>3, <2>4 DEF Rows
  <2> HIDE DEF r2
  <2>6. Same(r, r2)  BY <2>5 DEF Same
  <2>7. Line(r2, env) = line /\ Ahead(r2, env) = ahead
    BY <2>6, SameLines DEF line, ahead
  <2>8. Typed(s, r2, env)
    BY <1>1, <1>3, <2>5, <2>7 DEF Typed
  <2>9. Awaits(r2, env)
    BY <2>5 DEF Awaits
  <2>10. Went(r2, env)
    BY <1>2, <2>5, <2>7 DEF Went
  <2>11. Kept(r2, env)
    BY <1>1, <1>7, <2>3, <2>5 DEF Kept, RealIn
  <2> QED BY <2>1, <2>8, <2>9, <2>10, <2>11 DEF RowInv
<1>8. CASE p = "mock" /\ ~MockAllowed(env.mode, env.mockOptIn)
  <2> DEFINE r2 == [r EXCEPT !.pc = "done", !.batch = NoBatch]
  <2>1. AskRow(r, env, allowed) = r2  BY <1>8 DEF AskRow, asked, p, tried
  <2>2. NoBatch \in Given /\ NoBatch.provider = "none" /\ NoBatch.docs = <<>> /\ NoBatch.fallback = FALSE
    <3>1. NoBatch \in Given
      <4>1. NoPage \in Pages /\ NoPage.docs = <<>>  BY <1>3 DEF Pages, PagesOf, NoPage
      <4> QED BY <4>1 DEF NoBatch, Given
    <3> QED BY <3>1 DEF NoBatch
  <2>3. /\ r2 \in Rows /\ r2.pc = "done" /\ r2.query = r.query /\ r2.intent = r.intent
        /\ r2.tried = r.tried /\ r2.turn = r.turn /\ r2.found = r.found /\ r2.calls = {} /\ r2.batch = NoBatch
    BY <1>1, <2>2 DEF Rows
  <2> HIDE DEF r2
  <2>4. Same(r, r2)  BY <2>3 DEF Same
  <2>5. Line(r2, env) = line /\ Ahead(r2, env) = ahead
    BY <2>4, SameLines DEF line, ahead
  <2>6. Typed(s, r2, env)
    BY <1>1, <1>3, <2>3, <2>5 DEF Typed
  <2>7. Awaits(r2, env)
    BY <2>3 DEF Awaits
  <2>8. Went(r2, env)
    BY <2>3, <2>5 DEF RowInv, Went, ahead
  <2>9. RealIn(r2) = {}
    BY <1>1, <2>3 DEF RealIn
  <2>10. Kept(r2, env)
    BY <2>2, <2>3, <2>9 DEF Kept
  <2> QED BY <2>1, <2>6, <2>7, <2>8, <2>10 DEF RowInv
<1> QED BY <1>5, <1>6, <1>7, <1>8
-----------------------------------------------------------------------------
(* The inductive invariant.                                                *)
SearchInv ==
  /\ settings \in Env
  /\ breaker \in [Providers -> Real!Breaker]
  /\ DOMAIN search = Searches
  /\ \A s \in Searches : RowInv(s, search[s], settings)

(* It holds at the start.                                                  *)
LEMMA InitSearchInv == Init => SearchInv
<1> SUFFICES ASSUME Init PROVE SearchInv
  OBVIOUS
<1>1. Real!Closed \in Real!Breaker
  <2>1. 0 \in 0..1  OBVIOUS
  <2> QED BY <2>1 DEF Real!Closed, Real!Breaker
<1>2. \A s \in Searches : search[s] = Fresh  BY DEF Init
<1> QED BY <1>1, <1>2, FreshRow DEF Init, SearchInv, Env

(* A step that changes one search.                                         *)
LEMMA OneRow ==
  ASSUME SearchInv, UNCHANGED settings, breaker' \in [Providers -> Real!Breaker],
         NEW s \in Searches, NEW row, RowInv(s, row, settings), search' = [search EXCEPT ![s] = row]
  PROVE  SearchInv'
<1>1. DOMAIN search' = Searches /\ search'[s] = row /\ \A o \in Searches \ {s} : search'[o] = search[o]
  BY DEF SearchInv
<1>2. \A o \in Searches : RowInv(o, search'[o], settings')
  BY <1>1 DEF SearchInv
<1> QED BY <1>1, <1>2 DEF SearchInv

(* A breaker that hears of a call stays a breaker.                         *)
LEMMA BreakerStep ==
  ASSUME SearchInv, NEW p \in Providers
  PROVE  /\ breaker[p] \in Real!Breaker
         /\ Failed(p) \in Real!Breaker /\ Failed(p).state # "half_open"
         /\ \A b \in Real!Breaker : [breaker EXCEPT ![p] = b] \in [Providers -> Real!Breaker]
<1>1. breaker[p] \in Real!Breaker  BY DEF SearchInv
<1> QED BY <1>1, BreakerMoves DEF Failed, SearchInv

(* Every operation keeps it: a search begins,                              *)
LEMMA BeginInv ==
  ASSUME SearchInv, NEW s \in Searches, NEW q \in Queries[s], NEW intent \in {SearchIntent(q), "weather_live"},
         Begin(s, q, intent)
  PROVE  SearchInv'
<1> DEFINE env == settings
<1>1. env \in Env /\ UNCHANGED settings /\ breaker \in [Providers -> Real!Breaker]
  BY DEF SearchInv, Begin
<1>2. CASE MockOnly(settings.mode)
  <2>1. PICK a \in Outcomes[q]["mock"][settings.key] :
          search' = [search EXCEPT ![s] =
               [Fresh EXCEPT !.pc = "done", !.query = q, !.intent = intent, !.tried = <<"mock">>,
                             !.batch = Batch("mock", a.page, TRUE)]]
    BY <1>2 DEF Begin
  <2>2. UNCHANGED breaker  BY <1>2 DEF Begin
  <2> QED BY <1>1, <1>2, <2>1, <2>2, DemoRow, OneRow
<1>3. CASE ~MockOnly(settings.mode) /\ Speculates(settings.mode, intent)
  <2> DEFINE two == First(Candidates(settings.mode, intent, q), 2)
             calls == {p \in Range(two) : Real!Allows(breaker[p])}
             row == [Fresh EXCEPT !.pc = "speculating", !.query = q, !.intent = intent, !.tried = two, !.calls = calls]
  <2>1. /\ search' = [search EXCEPT ![s] = row]
        /\ breaker' = [p \in Providers |-> IF p \in Range(two) THEN Real!AfterRequest(breaker[p]) ELSE breaker[p]]
    BY <1>3 DEF Begin, Speculative
  <2>2. breaker' \in [Providers -> Real!Breaker]
    BY <1>1, <2>1, BreakerMoves
  <2>3. calls \in SUBSET Range(two)  OBVIOUS
  <2>4. RowInv(s, row, env)
    <3> HIDE DEF calls
    <3> QED BY <1>1, <1>3, <2>3, SpeculatingRow
  <2> HIDE DEF row
  <2> QED BY <1>1, <2>1, <2>2, <2>4, OneRow
<1>4. CASE ~MockOnly(settings.mode) /\ ~Speculates(settings.mode, intent)
  <2>1. search' = [search EXCEPT ![s] = [Fresh EXCEPT !.pc = "asking", !.query = q, !.intent = intent]]
        /\ UNCHANGED breaker
    BY <1>4 DEF Begin
  <2> QED BY <1>1, <1>4, <2>1, AskingRow, OneRow
<1> QED BY <1>2, <1>3, <1>4

(* a provider answers or raises,                                           *)
LEMMA AnswerInv ==
  ASSUME SearchInv, NEW s \in Searches, NEW p \in Providers, Answer(s, p)
  PROVE  SearchInv'
<1>1. PICK a \in Outcomes[search[s].query][p][settings.key] :
        /\ breaker' = [breaker EXCEPT ![p] = IF a.raises THEN Failed(p) ELSE Real!RecordSuccess(breaker[p])]
        /\ search' = [search EXCEPT ![s] = Take(s, p, a.page)]
  BY DEF Answer
<1>2. p \in search[s].calls /\ UNCHANGED settings /\ RowInv(s, search[s], settings) /\ settings \in Env
  BY DEF Answer, SearchInv
<1>3. a.page \in PagesOf(p)
  <2>1. search[s].query \in Queries[s] /\ settings.key \in Keys
    BY <1>2 DEF RowInv, Typed, Awaits, Env, Rows
  <2>2. search[s].query \in Asks
    BY <2>1, SearchAssumption DEF Asks, Range
  <2> QED BY <2>1, <2>2 DEF PagesOf, OutcomesOf
<1>4. Take(s, p, a.page) = TakeRow(search[s], p, a.page)
  BY DEF Take, TakeRow
<1>5. breaker' \in [Providers -> Real!Breaker]
  BY <1>1, BreakerStep, BreakerMoves
<1> QED BY <1>1, <1>2, <1>3, <1>4, <1>5, TakenRow, OneRow

(* keeps silent for too long,                                              *)
LEMMA TimeoutInv ==
  ASSUME SearchInv, NEW s \in Searches, NEW p \in Providers, Timeout(s, p)
  PROVE  SearchInv'
<1>1. /\ p \in search[s].calls /\ UNCHANGED settings /\ RowInv(s, search[s], settings) /\ settings \in Env
      /\ breaker' = [breaker EXCEPT ![p] = Failed(p)] /\ search' = [search EXCEPT ![s] = Take(s, p, NoPage)]
  BY DEF Timeout, SearchInv
<1>2. Take(s, p, NoPage) = TakeRow(search[s], p, NoPage)
  BY DEF Take, TakeRow
<1>3. NoPage \in PagesOf(p)  BY DEF PagesOf
<1>4. breaker' \in [Providers -> Real!Breaker]
  BY <1>1, BreakerStep
<1> QED BY <1>1, <1>2, <1>3, <1>4, TakenRow, OneRow

(* the speculative round is over,                                          *)
LEMMA SettleInv ==
  ASSUME SearchInv, NEW s \in Searches, Settle(s)
  PROVE  SearchInv'
<1>1. /\ search[s].pc = "speculating" /\ search[s].calls = {} /\ UNCHANGED <<settings, breaker>>
      /\ RowInv(s, search[s], settings) /\ settings \in Env /\ breaker \in [Providers -> Real!Breaker]
  BY DEF Settle, SearchInv
<1>2. search' = [search EXCEPT ![s] = SettleRow(search[s])]
  BY DEF Settle, SettleRow, Score, ScoreIn
<1> QED BY <1>1, <1>2, SettledRow, OneRow

(* the sequential round goes on,                                           *)
LEMMA AskInv ==
  ASSUME SearchInv, NEW s \in Searches, Ask(s)
  PROVE  SearchInv'
<1> DEFINE r == search[s]
           p == Due(r, settings, r.turn)
           allowed == Real!Allows(breaker[p])
           row == AskRow(r, settings, allowed)
<1>1. /\ r.pc = "asking" /\ r.calls = {} /\ UNCHANGED settings
      /\ RowInv(s, r, settings) /\ settings \in Env /\ breaker \in [Providers -> Real!Breaker]
  BY DEF Ask, SearchInv
<1>2. Plan(s) = Line(r, settings) /\ p = IF r.turn <= Len(Plan(s)) THEN Plan(s)[r.turn] ELSE "mock"
  BY DEF Plan, Line, Due
<1>3. p \in Providers
  <2>1. r.turn \in Nat \ {0}  BY <1>1 DEF RowInv, Typed, Rows
  <2> QED BY <2>1, Lines
<1>4. allowed \in BOOLEAN
  BY DEF Real!Allows, Real!SlotFree
<1>5. search' = [search EXCEPT ![s] = row]
  BY <1>2 DEF Ask, AskRow
<1>6. breaker' \in {breaker, [breaker EXCEPT ![p] = Real!AfterRequest(@)]}
  BY <1>2 DEF Ask
<1> HIDE DEF p
<1>7. breaker' \in [Providers -> Real!Breaker]
  BY <1>1, <1>3, <1>6, BreakerMoves, BreakerStep
<1> HIDE DEF allowed
<1>8. RowInv(s, row, settings)
  BY <1>1, <1>4, AskedRow
<1> QED BY <1>1, <1>5, <1>7, <1>8, OneRow

(* the caller gives up or takes the answer,                                *)
LEMMA LeaveInv ==
  ASSUME SearchInv, NEW s \in Searches, Abandon(s) \/ Deliver(s)
  PROVE  SearchInv'
<1>1. UNCHANGED <<settings, breaker>> /\ search' = [search EXCEPT ![s] = Fresh] /\ breaker \in [Providers -> Real!Breaker]
  BY DEF Abandon, Deliver, SearchInv
<1> QED BY <1>1, FreshRow, OneRow

(* and a breaker cools down.                                               *)
LEMMA CoolInv ==
  ASSUME SearchInv, NEW p \in Providers, Cool(p)
  PROVE  SearchInv'
<1>1. UNCHANGED <<settings, search>> /\ breaker' = [breaker EXCEPT ![p] = Real!Cooled(@)]
  BY DEF Cool
<1>2. breaker' \in [Providers -> Real!Breaker]
  BY <1>1, BreakerMoves DEF SearchInv
<1> QED BY <1>1, <1>2 DEF SearchInv

(* So does every step.                                                     *)
LEMMA SearchInvSteps ==
  SearchInv /\ [Next]_vars => SearchInv'
<1> SUFFICES ASSUME SearchInv, [Next]_vars  PROVE SearchInv'
  OBVIOUS
<1>1. ASSUME NEW s \in Searches, NEW q \in Queries[s], Begin(s, q, SearchIntent(q)) \/ Begin(s, q, "weather_live")
      PROVE  SearchInv'
  BY <1>1, BeginInv
<1>2. ASSUME NEW s \in Searches, NEW p \in Providers, Answer(s, p) \/ Timeout(s, p)
      PROVE  SearchInv'
  BY <1>2, AnswerInv, TimeoutInv
<1>3. ASSUME NEW s \in Searches, Settle(s) \/ Ask(s) \/ Abandon(s) \/ Deliver(s)
      PROVE  SearchInv'
  BY <1>3, SettleInv, AskInv, LeaveInv
<1>4. ASSUME NEW p \in Providers, Cool(p)
      PROVE  SearchInv'
  BY <1>4, CoolInv
<1>5. CASE UNCHANGED vars
  BY <1>5 DEF vars, SearchInv
<1> QED BY <1>1, <1>2, <1>3, <1>4, <1>5 DEF Next

(* The invariant of the specification.                                     *)
LEMMA SearchInvHolds == Spec => []SearchInv
  BY InitSearchInv, SearchInvSteps, PTL DEF Spec
-----------------------------------------------------------------------------
(* The types follow.                                                       *)
LEMMA TypesOfInv == SearchInv => TypeOK
<1> SUFFICES ASSUME SearchInv PROVE TypeOK
  OBVIOUS
<1>1. ASSUME NEW s \in Searches
      PROVE  /\ search[s].pc \in {"idle", "speculating", "asking", "done"}
             /\ search[s].query \in Queries[s] \cup {{}}
             /\ search[s].calls \subseteq Providers
             /\ search[s].tried \in Seq(Providers)
             /\ search[s].turn \in 1..(Len(Plan(s)) + 1)
  <2>1. Typed(s, search[s], settings)  BY DEF SearchInv, RowInv
  <2>2. Plan(s) = Line(search[s], settings) /\ Len(Plan(s)) \in Nat  BY Lines DEF Plan, Line
  <2>3. search[s].turn \in Nat /\ search[s].turn >= 1 /\ search[s].turn <= Len(Plan(s)) + 1
    BY <2>1, <2>2 DEF Typed, Rows
  <2> QED BY <2>1, <2>2, <2>3 DEF Typed, Rows
<1> QED BY <1>1 DEF TypeOK, SearchInv, Env

(* The searches and the breakers of PolicyDrivenSearchProvider keep their  *)
(* types, and the sequential round never runs past the last provider of    *)
(* its policy.                                                             *)
THEOREM TypeCorrect == Spec => []TypeOK
  BY SearchInvHolds, TypesOfInv, PTL

(* Once a real provider gave a search a document, _search_with_policy asks *)
(* nobody again and answers with the best of what it has.                  *)
THEOREM RealAnswerWinsHolds == Spec => []RealAnswerWins
<1>1. SearchInv => RealAnswerWins
  <2> SUFFICES ASSUME SearchInv, NEW s \in Searches
               PROVE  LET real == {p \in Providers \ {"mock"} : search[s].found[p] # NoPage}
                      IN /\ search[s].pc = "asking" => real = {}
                         /\ search[s].pc = "done" /\ real # {} =>
                              /\ search[s].batch.provider \in real
                              /\ \A p \in real : Score(s, p) <= Score(s, search[s].batch.provider)
    BY DEF RealAnswerWins
  <2>1. Kept(search[s], settings)  BY DEF SearchInv, RowInv
  <2> QED BY <2>1 DEF Kept, RealIn, ScoreIn, Score
<1> QED BY <1>1, SearchInvHolds, PTL

(* What the mock provider invents is answered with only where the          *)
(* environment allows it, and always declared as a fallback of low         *)
(* confidence; nothing else is.                                            *)
THEOREM MockIsDeclaredHolds == Spec => []MockIsDeclared
<1>1. SearchInv => MockIsDeclared
  <2> SUFFICES ASSUME SearchInv, NEW s \in Searches, search[s].pc = "done"
               PROVE  LET b == search[s].batch
                      IN /\ b.fallback <=> b.provider = "mock"
                         /\ (\E k \in DOMAIN b.docs : b.docs[k].provider = "mock") => b.provider = "mock"
                         /\ b.provider = "mock" =>
                              /\ settings.mode = "demo" \/ settings.mockOptIn
                              /\ b.confidence <= 50
    BY DEF MockIsDeclared
  <2>1. Kept(search[s], settings)  BY DEF SearchInv, RowInv
  <2> QED BY <2>1 DEF Kept, MockAllowed
<1> QED BY <1>1, SearchInvHolds, PTL

(* A set of two, or of one that is named twice.                            *)
LEMMA AtMostTwo ==
  ASSUME NEW S, NEW a, NEW b, S \subseteq {a, b}
  PROVE  Cardinality(S) <= 2 /\ (a = b => Cardinality(S) <= 1)
<1>1. IsFiniteSet({a, b}) /\ Cardinality({a, b}) <= 2 /\ (a = b => Cardinality({a, b}) = 1)
  <2>1. IsFiniteSet({a}) /\ Cardinality({a}) = 1  BY FS_Singleton
  <2>2. {a, b} = {a} \cup {b}  OBVIOUS
  <2> QED BY <2>1, <2>2, FS_AddElement
<1>2. Cardinality(S) \in Nat /\ Cardinality({a, b}) \in Nat /\ Cardinality(S) <= Cardinality({a, b})
  BY <1>1, FS_Subset, FS_CardinalityType
<1> QED BY <1>1, <1>2

(* The retry after a speculative round is bounded: of the first two, each  *)
(* is asked twice at the most, and every other provider once.              *)
THEOREM AskedAtMostTwiceHolds == Spec => []AskedAtMostTwice
<1>1. SearchInv => AskedAtMostTwice
  <2> SUFFICES ASSUME SearchInv, NEW s \in Searches, NEW p \in Providers
               PROVE  Asked(s, p) <= IF p \in Range(First(Plan(s), 2)) /\ Speculates(settings.mode, search[s].intent)
                                     THEN 2 ELSE 1
    BY DEF AskedAtMostTwice
  <2> DEFINE r == search[s]
             ahead == Ahead(r, settings)
             n == Len(ahead)
             at == {k \in DOMAIN r.tried : r.tried[k] = p}
             early == {k \in at : k <= n}
             late == {k \in at : k > n}
  <2>1. Went(r, settings) /\ r.tried \in Seq(Providers)
    BY DEF SearchInv, RowInv, Typed, Rows
  <2>2. n \in Nat /\ DOMAIN r.tried = 1..Len(r.tried) /\ Len(r.tried) \in Nat /\ DOMAIN ahead = 1..n
    BY <2>1, Lines
  <2>3. \A i, j \in early : i = j
    <3>1. \A k \in 1..n : r.tried[k] = ahead[k]  BY <2>1 DEF Went
    <3>2. \A i, j \in 1..n : ahead[i] = ahead[j] => i = j
      <4>1. n <= Len(Line(r, settings)) /\ Len(Line(r, settings)) \in Nat  BY Lines
      <4> QED BY <2>2, <4>1, Lines
    <3>3. early \subseteq 1..n  BY <2>2
    <3> HIDE DEF ahead, n
    <3> QED BY <3>1, <3>2, <3>3
  <2>4. \A i, j \in late : i = j
    <3>1. late \subseteq (n + 1)..Len(r.tried)  BY <2>2
    <3>2. \A i, j \in (n + 1)..Len(r.tried) : r.tried[i] = r.tried[j] => i = j  BY <2>1 DEF Went
    <3> HIDE DEF ahead, n
    <3> QED BY <3>1, <3>2
  <2>5. at = early \cup late  BY <2>2
  <2>6. early # {} => p \in Range(First(Plan(s), 2)) /\ Speculates(settings.mode, r.intent)
    <3> SUFFICES ASSUME early # {}  PROVE p \in Range(First(Plan(s), 2)) /\ Speculates(settings.mode, r.intent)
      OBVIOUS
    <3>1. PICK k \in early : TRUE  OBVIOUS
    <3>2. k \in 1..n /\ r.tried[k] = p  BY <2>2, <3>1
    <3>3. ahead[k] = p  BY <2>1, <3>2 DEF Went
    <3>4. p \in Range(ahead)  BY <2>2, <3>2, <3>3 DEF Range
    <3>5. Speculates(settings.mode, r.intent)
      <4> SUFFICES ASSUME ~Speculates(settings.mode, r.intent)  PROVE FALSE
        OBVIOUS
      <4>1. ahead = <<>>  BY DEF Ahead
      <4>2. n = 0  BY <4>1
      <4> QED BY <3>2, <4>2
    <3>6. ahead = First(Plan(s), 2)  BY <3>5 DEF Ahead, Line, Plan
    <3> QED BY <3>4, <3>5, <3>6
  <2>7. Asked(s, p) = Cardinality(at)  BY DEF Asked
  <2> HIDE DEF early, late, at
  <2>8. CASE early = {}
    <3>1. PICK b : at \subseteq {b}  BY <2>4, <2>5, <2>8
    <3>2. at \subseteq {b, b}  BY <3>1
    <3>3. Cardinality(at) <= 1  BY <3>2, AtMostTwo
    <3>4. Cardinality(at) <= 2  BY <3>2, AtMostTwo
    <3> QED BY <2>7, <3>3, <3>4
  <2>9. CASE early # {}
    <3>1. PICK a : early \subseteq {a}  BY <2>3
    <3>2. PICK b : late \subseteq {b}  BY <2>4
    <3>3. at \subseteq {a, b}  BY <2>5, <3>1, <3>2
    <3>4. Cardinality(at) <= 2  BY <3>3, AtMostTwo
    <3> QED BY <2>6, <2>7, <2>9, <3>4
  <2> QED BY <2>8, <2>9
<1> QED BY <1>1, SearchInvHolds, PTL

-----------------------------------------------------------------------------
(* What ProbesReport says of one provider.                                 *)
Reports(p) ==
  Probing(p) /\ InFlight(p) # {} /\ Probing(p)' /\ InFlight(p)' = {} => \E s \in Searches : Abandoned(s)

(* Nobody else than s stops waiting.                                       *)
LEMMA StillOut ==
  ASSUME SearchInv, NEW s \in Searches, NEW row, search' = [search EXCEPT ![s] = row], NEW p \in Providers,
         p \in search[s].calls => p \in row.calls
  PROVE  InFlight(p) \subseteq InFlight(p)'
<1> SUFFICES ASSUME NEW o \in Searches, p \in search[o].calls  PROVE p \in search'[o].calls
  BY DEF InFlight
<1>1. CASE o = s  BY <1>1 DEF SearchInv
<1>2. CASE o # s  BY <1>2 DEF SearchInv
<1> QED BY <1>1, <1>2

(* A search that has not begun or has ended awaits nobody.                 *)
LEMMA NobodyWaits ==
  ASSUME SearchInv, NEW s \in Searches, search[s].pc \in {"idle", "done"}
  PROVE  search[s].calls = {}
  BY DEF SearchInv, RowInv, Awaits

(* Whatever a call comes to, its breaker is not half-open after it.        *)
LEMMA Heard ==
  ASSUME SearchInv, NEW s \in Searches, NEW o \in Providers, NEW page, NEW b \in Real!Breaker, b.state # "half_open",
         breaker' = [breaker EXCEPT ![o] = b], search' = [search EXCEPT ![s] = Take(s, o, page)],
         NEW p \in Providers
  PROVE  Reports(p)
<1>1. CASE p = o
  <2>1. breaker'[p] = b  BY <1>1 DEF SearchInv
  <2> QED BY <2>1 DEF Reports, Probing
<1>2. CASE p # o
  <2>1. search[s] \in Rows  BY DEF SearchInv, RowInv, Typed
  <2>2. p \in search[s].calls => p \in Take(s, o, page).calls
    BY <1>2, <2>1 DEF Take, Rows
  <2>3. InFlight(p) \subseteq InFlight(p)'
    BY <2>2, StillOut
  <2> QED BY <2>3 DEF Reports
<1> QED BY <1>1, <1>2

(* The slot of a half-open breaker is given back by the answer, the        *)
(* failure or the timeout of the call that took it, unless its search is   *)
(* cancelled.                                                              *)
THEOREM ProbesReportHolds == Spec => ProbesReport
<1>1. ASSUME SearchInv, [Next]_vars, NEW p \in Providers
      PROVE  Reports(p)
  <2>1. ASSUME NEW s \in Searches, NEW q \in Queries[s], NEW intent, Begin(s, q, intent)
        PROVE  Reports(p)
    <3>1. search[s].calls = {}  BY <1>1, <2>1, NobodyWaits DEF Begin
    <3>2. PICK row : search' = [search EXCEPT ![s] = row]  BY <2>1 DEF Begin, Speculative
    <3>3. InFlight(p) \subseteq InFlight(p)'  BY <1>1, <3>1, <3>2, StillOut
    <3> QED BY <3>3 DEF Reports
  <2>2. ASSUME NEW s \in Searches, NEW o \in Providers, Answer(s, o)
        PROVE  Reports(p)
    <3>1. PICK a \in Outcomes[search[s].query][o][settings.key] :
            /\ breaker' = [breaker EXCEPT ![o] = IF a.raises THEN Failed(o) ELSE Real!RecordSuccess(breaker[o])]
            /\ search' = [search EXCEPT ![s] = Take(s, o, a.page)]
      BY <2>2 DEF Answer
    <3>2. PICK b \in Real!Breaker : b.state # "half_open" /\ breaker' = [breaker EXCEPT ![o] = b]
      BY <1>1, <3>1, BreakerStep, BreakerMoves
    <3> QED BY <1>1, <3>1, <3>2, Heard
  <2>3. ASSUME NEW s \in Searches, NEW o \in Providers, Timeout(s, o)
        PROVE  Reports(p)
    <3>1. /\ breaker' = [breaker EXCEPT ![o] = Failed(o)] /\ search' = [search EXCEPT ![s] = Take(s, o, NoPage)]
      BY <2>3 DEF Timeout
    <3> QED BY <1>1, <3>1, BreakerStep, Heard
  <2>4. ASSUME NEW s \in Searches, Settle(s) \/ Ask(s)
        PROVE  Reports(p)
    <3>1. search[s].calls = {}  BY <2>4 DEF Settle, Ask
    <3>2. PICK row : search' = [search EXCEPT ![s] = row]
      BY <1>1, <2>4 DEF Settle, Ask, SearchInv
    <3>3. InFlight(p) \subseteq InFlight(p)'  BY <1>1, <3>1, <3>2, StillOut
    <3> QED BY <3>3 DEF Reports
  <2>5. ASSUME NEW s \in Searches, Abandon(s)
        PROVE  Reports(p)
    <3>1. search'[s] = Fresh /\ Fresh.pc = "idle"
      BY <1>1, <2>5 DEF Abandon, SearchInv, Fresh
    <3>2. Abandoned(s)  BY <2>5, <3>1 DEF Abandon, Abandoned
    <3> QED BY <3>2 DEF Reports
  <2>6. ASSUME NEW s \in Searches, Deliver(s)
        PROVE  Reports(p)
    <3>1. search[s].calls = {}  BY <1>1, <2>6, NobodyWaits DEF Deliver
    <3>2. search' = [search EXCEPT ![s] = Fresh]  BY <2>6 DEF Deliver
    <3>3. InFlight(p) \subseteq InFlight(p)'  BY <1>1, <3>1, <3>2, StillOut
    <3> QED BY <3>3 DEF Reports
  <2>7. ASSUME NEW o \in Providers, Cool(o)
        PROVE  Reports(p)
    BY <2>7 DEF Cool, Reports, InFlight
  <2>8. CASE UNCHANGED vars
    BY <2>8 DEF vars, Reports, InFlight
  <2> QED BY <1>1, <2>1, <2>2, <2>3, <2>4, <2>5, <2>6, <2>7, <2>8 DEF Next
<1>2. SearchInv /\ [Next]_vars => [\A p \in Providers : Reports(p)]_vars
  BY <1>1
<1> QED BY <1>2, SearchInvHolds, PTL DEF Spec, ProbesReport, Reports
=============================================================================
