-------------------------- MODULE SearchProviders --------------------------
(***************************************************************************)
(* The pure part of search_providers.py: what a query asks for, which      *)
(* providers the policy names for it, what a provider makes of what its    *)
(* services reply, and how documents are scored and ranked.                *)
(*                                                                         *)
(* A query is the set of the hint words that occur in its text: nothing    *)
(* else of the text is looked at.  Scores are integers in ten thousandths, *)
(* the precision the code rounds them to; a reliability is in hundredths.  *)
(***************************************************************************)
EXTENDS Integers, FiniteSetsExt, SequencesExt, Texts

CoffeeWords == {"coffee", "robusta"}
CommodityWords == CoffeeWords \cup {"pepper", "commodity"}
FoodAndPlaces == {"restaurant", "hotel", "food", "travel", "itinerary"}

CommoditySubject(q) ==
  FirstMention(q, << <<CoffeeWords, "coffee">>, <<{"pepper"}, "pepper">> >>, "commodity")

SearchIntent(q) ==
  FirstMention(q, << <<{"weather", "forecast"}, "weather_live">>,
                     <<{"news", "latest"}, "news_live">>,
                     <<{"gold price", "bitcoin", "market"} \cup CommodityWords, "market_live">>,
                     <<IF Mentions(q, {"itinerary", "trip plan"}) THEN FoodAndPlaces ELSE {}, "travel_planning">>,
                     <<FoodAndPlaces, "local_discovery">> >>, "general_research")

-----------------------------------------------------------------------------
(* The policy                                                              *)

MockOnly(mode) == mode = "demo"

(* Invented documents whatever the environment says.                       *)
BugMockAllowed(mode, optIn) == TRUE

MockAllowed(mode, optIn) == mode = "demo" \/ optIn

Candidates(mode, intent, q) ==
  LET byIntent == CASE intent = "weather_live" -> <<"weather_open_meteo", "duckduckgo">>
                    [] intent = "news_live" -> <<"newsapi", "duckduckgo">>
                    [] intent = "market_live" -> <<"serpapi", "duckduckgo">>
                    [] intent \in {"local_discovery", "travel_planning"} ->
                         <<"serpapi", "osm_local", "duckduckgo", "newsapi">>
                    [] OTHER -> <<"duckduckgo">>
      named == IF mode = "demo" THEN <<"mock">> ELSE byIntent
  IN IF intent = "market_live" /\ Mentions(q, CommodityWords)
     THEN <<"commodity_refs", "newsapi">> \o named ELSE named

Speculates(mode, intent) == mode \in {"live", "hybrid"} /\ intent # "general_research"

-----------------------------------------------------------------------------
(* Documents.  The words of a title and of a snippet are sets like a query; *)
(* a reply without the title or without the address has {} or "" there.    *)

Official == [coffee    |-> {"ico.org", "fas.usda.gov", "fao.org", "worldbank.org"},
             pepper    |-> {"fao.org", "worldbank.org"},
             commodity |-> {"fao.org", "worldbank.org", "fas.usda.gov"}]

SourceTier(d, q) ==
  CASE d.site \in Official[CommoditySubject(q)] -> "official_statistics"
    [] d.site \in {"worldbank.org", "fao.org", "fas.usda.gov", "imf.org"} -> "intergovernmental_report"
    [] d.site \in {"cmegroup.com"} -> "major_exchange"
    [] d.site \in {"reuters.com", "ft.com"} -> "financial_media"
    [] OTHER -> IF d.provider \in {"newsapi", "serpapi"} \/ Mentions(d.title, {"news", "digest"})
                THEN "general_news" ELSE "other"

TierScore == [official_statistics |-> 100, intergovernmental_report |-> 88, major_exchange |-> 78,
              financial_media |-> 62, general_news |-> 45, other |-> 35]

(* How much of its score a document keeps: by its date, and when it has    *)
(* none by the freshness its provider claims.                              *)
RecencyDecay(d) ==
  CASE d.published = "day" -> 100 [] d.published = "week" -> 97 [] d.published = "month" -> 90
    [] d.published = "quarter" -> 78 [] d.published = "half" -> 66 [] d.published = "older" -> 55
    [] d.published = "unreadable" -> 86
    [] OTHER -> CASE d.freshness = "live" -> 100 [] d.freshness = "latest" -> 95
                  [] d.freshness = "today" -> 97 [] d.freshness = "recent" -> 90 [] OTHER -> 86

SourceGroup(d) ==
  IF d.site = "fas.usda.gov" THEN "usda.gov" ELSE IF d.site # "" THEN d.site ELSE d.provider

Relevance(d, q) ==
  LET text == d.title \cup d.snippet
      subject == FirstMention(q, << <<CoffeeWords, CoffeeWords>>, <<{"pepper"}, {"pepper"}>> >>,
                              {"commodity", "market"})
      tier == SourceTier(d, q)
      raw == 55 * d.reliability + 60 * TierScore[tier]
             + 500 * Cardinality(q \cap (text \cup {d.site, d.provider}))
             + 800 * Cardinality(q \cap d.title)
             + 700 * Cardinality(subject \cap text)
             + (IF d.freshness = "live" THEN 800 ELSE 0)
             + (IF tier = "official_statistics" THEN 2000 ELSE 0)
             + (IF d.provider = "commodity_refs" THEN 1000 ELSE 0)
             - (IF Mentions(d.title \cup {d.provider}, {"news", "newsapi", "digest", "latest"}) THEN 1800 ELSE 0)
  IN Max({0, Min({25000, (raw * RecencyDecay(d)) \div 100})})

(* What a candidate loses to the documents picked before it: for each of   *)
(* the same source, for a title already seen, and for a title like one of  *)
(* the last three.                                                         *)
Likeness(a, b) ==
  IF a = {} \/ b = {} THEN 0 ELSE (1200 * Cardinality(a \cap b)) \div Cardinality(a \cup b)

Penalty(d, picked) ==
  LET recent == {k \in DOMAIN picked : k > Len(picked) - 3}
  IN 1600 * Cardinality({k \in DOMAIN picked : SourceGroup(picked[k]) = SourceGroup(d)})
     + (IF \E k \in DOMAIN picked : picked[k].title = d.title THEN 1000 ELSE 0)
     + Max({0} \cup {Likeness(d.title, picked[k].title) : k \in recent})

(* What a candidate is picked by.  Documents worth less than minus one are *)
(* all the same: the first of the sorted list is taken, that is the one    *)
(* with the best score, reliability and freshness, the earlier of two.     *)
Standing(q, d, i, picked) ==
  <<Max({-10000, Relevance(d, q) - Penalty(d, picked)}), Relevance(d, q), d.reliability,
    IF d.freshness = "live" THEN 1 ELSE 0, -i>>

Precedes(a, b) == \E k \in DOMAIN a : a[k] > b[k] /\ \A m \in 1..(k - 1) : a[m] = b[m]

(* rank_documents_for_query: again and again the one that is worth most of *)
(* those that are left, of the documents at the indices S.                 *)
Picks(q, docs, S, f, k) ==
  LET before == {f[m] : m \in 1..(k - 1)}
      picked == [m \in 1..(k - 1) |-> docs[f[m]]]
  IN /\ f[k] \notin before
     /\ \A i \in S \ (before \cup {f[k]}) :
          Precedes(Standing(q, docs[f[k]], f[k], picked), Standing(q, docs[i], i, picked))

RankedAmong(q, docs, S, limit) ==
  LET n == Min({limit, Cardinality(S)})
      ranking == CHOOSE f \in [1..n -> S] : \A k \in 1..n : Picks(q, docs, S, f, k)
  IN [k \in 1..n |-> docs[ranking[k]]]

Ranked(q, docs, limit) == RankedAmong(q, docs, DOMAIN docs, limit)

ProviderRank(p) ==
  CASE p = "commodity_refs" -> 5800 [] p = "weather_open_meteo" -> 6000 [] p = "serpapi" -> 6500
    [] p = "osm_local" -> 6200 [] p = "duckduckgo" -> 4500 [] p = "mock" -> 1000 [] OTHER -> 2000

(* The reliabilities of all documents together, each of them no more than  *)
(* a hundred: as many as there are hundredths of one of them.              *)
TotalReliability(docs) == Cardinality({p \in (DOMAIN docs) \X (1..100) : p[2] <= docs[p[1]].reliability})

DocumentsQuality(q, docs) ==
  IF docs = <<>> THEN 0
  ELSE (100 * TotalReliability(docs)) \div Len(docs)
       + Min({500 * Cardinality({d.url : d \in Range(docs)}), 2000})
       + (IF \E d \in Range(docs) : d.freshness = "live" THEN 1000 ELSE 0)
       + Min({(15 * Relevance(docs[1], q)) \div 100, 3000})
       + (IF Mentions(q, CommodityWords) /\ docs[1].site \in Official[CommoditySubject(q)] THEN 1200 ELSE 0)

(* A page: documents in the order of the ranking, and what they are worth. *)
(* Its confidence is in hundredths.                                        *)
NoPage == [docs |-> <<>>, quality |-> 0]
Page(q, docs, limit) ==
  LET ranked == Ranked(q, docs, limit) IN [docs |-> ranked, quality |-> DocumentsQuality(q, ranked)]

Confidence(page, fallback) ==
  Min({100, (page.quality \div (IF fallback THEN 2 ELSE 1)) \div 100})

-----------------------------------------------------------------------------
(* The providers.  A service replies with a sequence of entries, or is     *)
(* down; what a provider then does is answer with documents, or raise.     *)

Down == [down |-> TRUE, entries |-> <<>>]
Reply(entries) == [down |-> FALSE, entries |-> entries]
Raises == [raises |-> TRUE, docs |-> <<>>]
Gives(docs) == [raises |-> FALSE, docs |-> docs]

(* The documents at the indices S, in their order.                         *)
Selected(docs, S) ==
  LET n == Cardinality(S)
      order == CHOOSE f \in [1..n -> S] : \A i, j \in 1..n : i < j => f[i] < f[j]
  IN [k \in 1..n |-> docs[order[k]]]

Titled(entries) == Selected(entries, {k \in DOMAIN entries : entries[k].title # {}})
Usable(entries) == Selected(entries, {k \in DOMAIN entries : entries[k].title # {} /\ entries[k].url # ""})
First(docs, n) == SubSeq(docs, 1, Min({n, Len(docs)}))
ByThem(p, docs) == [k \in DOMAIN docs |-> [docs[k] EXCEPT !.provider = p]]

MockDocs(q, limit) ==
  LET page(title, url, fresh, rel) ==
        [title |-> title, snippet |-> IF title \subseteq {"research"} THEN q ELSE {}, url |-> url,
         site |-> "example.local", provider |-> "mock",
         freshness |-> fresh, published |-> "none", reliability |-> rel]
      two == IF {"weather", "da nang"} \subseteq q
             THEN <<page({"weather"}, "m1", "today", 35), page({"forecast"}, "m2", "today", 32)>>
             ELSE IF Mentions(q, {"news", "latest"})
             THEN <<page({"latest"}, "m3", "latest", 30), page({"digest"}, "m4", "latest", 28)>>
             ELSE <<page({"research"}, "m5", "recent", 25), page({"source"}, "m6", "recent", 25)>>
  IN Gives(First(two, limit))

(* The instant answer, and the result page when it has nothing.            *)
DuckDuckGo(q, limit, instant, html) ==
  LET abstracts == First(Usable(instant.entries), limit)
  IN CASE instant.down -> Raises
       [] ~instant.down /\ abstracts # <<>> -> Gives(Ranked(q, ByThem("duckduckgo", abstracts), limit))
       [] OTHER -> IF html.down THEN Raises
                   ELSE Gives(Ranked(q, ByThem("duckduckgo", First(Usable(html.entries), limit)), limit))

(* Open-Meteo: the place is looked up, then its weather.  A forecast of up *)
(* to three days, from tomorrow on when the query says so; the current     *)
(* weather when it asks for no more or there is no forecast.               *)
OpenMeteo(q, limit, geocoder, daily, current) ==
  LET ahead == Mentions(q, {"tomorrow", "forecast"})
      from == IF Mentions(q, {"tomorrow"}) /\ Len(daily.entries) > 1 THEN 2 ELSE 1
      days == IF ahead THEN SubSeq(daily.entries, from, Min({Len(daily.entries), from + 2})) ELSE <<>>
      docs == IF days # <<>> THEN days ELSE First(current.entries, 1)
  IN CASE geocoder.down -> Raises
       [] ~geocoder.down /\ geocoder.entries = <<>> -> Gives(<<>>)
       [] OTHER -> IF daily.down THEN Raises
                   ELSE Gives(First(ByThem("weather_open_meteo", docs), Max({1, limit})))

(* These four answer with nothing when their service fails.  A place        *)
(* without an address of its own comes with that of a search for it.       *)
NewsAPI(key, limit, articles) ==
  IF ~key \/ articles.down THEN Gives(<<>>) ELSE Gives(Usable(First(articles.entries, limit)))

SerpAPI(key, limit, places, organic) ==
  IF ~key \/ organic.down THEN Gives(<<>>)
  ELSE Gives(ByThem("serpapi", First(Titled(First(places.entries, limit)) \o Usable(First(organic.entries, limit)),
                                     limit)))

(* The query as it stands, then its kind of place in its town: the first   *)
(* that finds something in that town.                                      *)
OpenStreetMap(q, limit, asAsked, byTown) ==
  LET town == "in town" \in q
      near(docs) == Selected(docs, {k \in DOMAIN docs : docs[k].title # {}
                                                       /\ (town => Mentions(docs[k].snippet, {"in town"}))})
      inTown(reply) == near(First(reply.entries, Max({1, Min({limit, 10})})))
      found == IF inTown(asAsked) # <<>> THEN inTown(asAsked)
               ELSE IF town THEN inTown(byTown) ELSE <<>>
  IN Gives(ByThem("osm_local", found))

CommodityRefs(q, limit, pages) ==
  IF ~Mentions(q, CommodityWords) THEN Gives(<<>>)
  ELSE Gives(ByThem("commodity_refs", First(pages.entries, limit)))
=============================================================================
