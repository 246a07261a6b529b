------------------------------- MODULE Tools --------------------------------
(***************************************************************************)
(* The tools a node may be given (tools/*.py), as functions of the query   *)
(* and of what the services behind them reply.  A reply is a batch         *)
(* [docs, conf], as search_providers.py makes it, or Lost when the call    *)
(* raised or outlived its attempt; a set of feeds or of issues is Silence. *)
(*                                                                         *)
(* Documents are those of SearchProviders; confidences are in hundredths.  *)
(***************************************************************************)
EXTENDS SearchProviders

Found(docs, conf) == [docs |-> docs, conf |-> conf]
Lost == Found(<<>>, -1)
Silence == {"silence"}

Output == [ok |-> FALSE, error |-> "", docs |-> <<>>, conf |-> 0, orchestrated |-> FALSE, quote |-> "none"]
Refused(error) == [Output EXCEPT !.error = error]
Given(docs, conf) == [Output EXCEPT !.ok = TRUE, !.docs = docs, !.conf = conf]

(* Attempts that answer, with a success or not, are not made again.        *)
Retries == [web_search |-> 2, local_search |-> 2, news_api |-> 2, fetch_page |-> 2, weather |-> 1,
            finance |-> 0, calculator |-> 0]

WithRetries(tool, attempts, output(_)) ==
  LET answered == {i \in DOMAIN attempts : i <= Retries[tool] + 1 /\ attempts[i] # Lost}
  IN IF answered = {} THEN Refused("timeout") ELSE output(attempts[Min(answered)])

(* The weather tool has the whole chain of the search policy behind it,    *)
(* and says so.                                                            *)
WeatherTool(batch) ==
  [(IF batch.docs = <<>> THEN Refused("insufficient_live_evidence") ELSE Given(batch.docs, Max({10, batch.conf})))
   EXCEPT !.orchestrated = TRUE]

(* Web, news and place search: the place tool asks DuckDuckGo when SerpAPI *)
(* has nothing.                                                            *)
SearchTool(batch) == IF batch.docs = <<>> THEN Refused("") ELSE Given(batch.docs, batch.conf)

(* A page that is there and has text.                                      *)
FetchPage(batch) == IF batch.docs = <<>> THEN Refused("") ELSE Given(First(batch.docs, 1), 85)

(* The whole task is taken for the expression.                             *)
Calculator(q) ==
  IF q = {"sum"}
  THEN Given(<<[title |-> {"calculation"}, snippet |-> {"result"}, url |-> "tool://calculator", site |-> "",
                provider |-> "calculator", freshness |-> "live", published |-> "none", reliability |-> 99]>>, 95)
  ELSE Refused("")

-----------------------------------------------------------------------------
(* The finance tool.  Its feeds are the providers that have a price within *)
(* the attempt; its cache keeps the last quote under each key.             *)

CacheKeys == {"crypto:ethusd", "crypto:btcusd", "gold:xauusd"}

CacheKey(q) ==
  FirstMention(q, << <<{"ethereum", "eth"}, "crypto:ethusd">>, <<{"bitcoin", "btc"}, "crypto:btcusd">> >>,
               "gold:xauusd")

Asset(q) ==
  FirstMention(q, << <<{"gold price", "xau", "xauusd"}, "XAU">>, <<{"ethereum", "eth"}, "ETH">>,
                     <<{"btc", "bitcoin", "crypto"}, "BTC">> >>, "unsupported")

NoQuote == [asset |-> "none", source |-> "none", age |-> "none"]
EmptyCache == [k \in CacheKeys |-> NoQuote]

(* Gold from the first of three that answers, a coin from one.             *)
Quote(q, feeds) ==
  LET chain == CASE Asset(q) = "XAU" -> <<"goldapi", "stooq", "duckduckgo">>
                 [] Asset(q) \in {"BTC", "ETH"} -> <<"coingecko">> [] OTHER -> <<>>
      live == {i \in DOMAIN chain : chain[i] \in feeds}
  IN IF live = {} THEN NoQuote ELSE [asset |-> Asset(q), source |-> chain[Min(live)], age |-> "fresh"]

(* The cache is asked before anything is known of the asset.  When the one *)
(* attempt runs out of time an old quote is not looked for.                *)
Finance(q, cache, feeds) ==
  LET kept == cache[CacheKey(q)]
      quoted(quote, conf) ==
        [Given(<<[title |-> {quote.asset}, snippet |-> {quote.asset, "price"}, url |-> quote.source, site |-> quote.source,
                  provider |-> quote.source, freshness |-> "live", published |-> "day", reliability |-> 92]>>, conf)
         EXCEPT !.quote = quote.asset]
  IN CASE kept.age = "fresh" -> quoted(kept, 20)
       [] OTHER ->
            IF Asset(q) = "unsupported" THEN Refused("unsupported_market_asset")
            ELSE IF feeds = Silence THEN Refused("timeout")
            ELSE IF Quote(q, feeds) # NoQuote THEN quoted(Quote(q, feeds), 87)
            ELSE IF kept.age = "stale" THEN quoted(kept, 20)
            ELSE [Refused("finance_data_unavailable") EXCEPT !.conf = IF Asset(q) = "XAU" THEN 45 ELSE 40]

Cached(q, cache, feeds) ==
  IF cache[CacheKey(q)].age = "fresh" \/ feeds = Silence \/ Quote(q, feeds) = NoQuote THEN cache
  ELSE [cache EXCEPT ![CacheKey(q)] = Quote(q, feeds)]

(* An entry serves as fresh for its time to live, and in need up to four   *)
(* times as long.                                                          *)
Aged(quote) ==
  CASE quote.age = "fresh" -> [quote EXCEPT !.age = "stale"] [] OTHER -> NoQuote

-----------------------------------------------------------------------------
(* Any other tool, and the documents ResearchSkill makes of its output:    *)
(* they bear the name of the tool, but for the news.                       *)

UseTool(tool, q, attempts) ==
  LET of(batch) == CASE tool = "weather" -> WeatherTool(batch) [] tool = "fetch_page" -> FetchPage(batch)
                     [] tool = "calculator" -> Calculator(q) [] OTHER -> SearchTool(batch)
  IN WithRetries(tool, attempts, of)

AsDocuments(tool, docs) ==
  LET by(d) == IF tool = "news_api" THEN [d EXCEPT !.freshness = "live"]
               ELSE [d EXCEPT !.provider = tool,
                              !.reliability = CASE tool = "web_search" -> 70 [] tool = "fetch_page" -> 72 [] OTHER -> @,
                              !.published = IF tool \in {"web_search", "local_search", "fetch_page"} THEN "none" ELSE @]
  IN [k \in DOMAIN docs |-> by(docs[k])]
=============================================================================
