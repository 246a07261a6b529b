---------------------------- MODULE PolicySearch ----------------------------
(***************************************************************************)
(* PolicyDrivenSearchProvider of search_providers.py: searches that share  *)
(* one circuit breaker per provider.  A search asks the first two          *)
(* providers of its policy at once; when neither has a document it asks    *)
(* all of them one after the other, and last the mock provider, if it may. *)
(*                                                                         *)
(* A search runs inside a node of the executor or a tool, whose own        *)
(* timeout cancels it wherever it waits.                                   *)
(***************************************************************************)
EXTENDS SearchProviders

CONSTANTS
  Searches,           \* searches that may run at the same time
  Queries,            \* what each of them may be asked
  Modes,              \* RESEARCH mode: subset of {"demo", "live", "hybrid"}
  Limit,              \* documents asked for, 4 or 5 in the code
  Keys,               \* BOOLEANs: may the keyed services have their key
  Replies,            \* the replies services may give
  ProviderThreshold,  \* failures that open the breaker of a provider, 3 in the code
  MockThreshold       \* the same for the mock provider, 5 in the code

ASSUME SearchAssumption ==
  /\ Limit \in Nat \ {0}
  /\ ProviderThreshold \in Nat \ {0}
  /\ MockThreshold \in Nat \ {0}
  /\ Keys \subseteq BOOLEAN
  /\ DOMAIN Queries = Searches
  /\ \A q \in UNION Range(Queries) : IsFiniteSet(q)

(* Services reply with documents, and none of them signs as the mock       *)
(* provider does.                                                          *)
ASSUME ReplyAssumption ==
  \A r \in Replies :
    /\ r.entries \in Seq([title : SUBSET STRING, snippet : SUBSET STRING, url : STRING, site : STRING, provider : STRING,
                         freshness : STRING, published : STRING, reliability : Int])
    /\ \A d \in Range(r.entries) : IsFiniteSet(d.title) /\ IsFiniteSet(d.snippet) /\ d.provider # "mock"

Real == INSTANCE CircuitBreaker WITH FailThreshold <- ProviderThreshold, HalfOpenMaxCalls <- 1
Mock == INSTANCE CircuitBreaker WITH FailThreshold <- MockThreshold, HalfOpenMaxCalls <- 1

Providers == {"duckduckgo", "weather_open_meteo", "newsapi", "serpapi", "osm_local", "commodity_refs", "mock"}

VARIABLES
  settings,   \* [mode, mockOptIn, key]: the environment the service was started in
  breaker,    \* [Providers -> Breaker]
  search      \* [Searches -> Search]

vars == <<settings, breaker, search>>

(* calls: the providers whose answer is awaited; found: what each provider *)
(* gave this search; turn: the position in the second, sequential round.   *)
NoBatch == [provider |-> "none", docs |-> <<>>, fallback |-> FALSE, confidence |-> 0]

Batch(p, page, fallback) ==
  [provider |-> p, docs |-> page.docs, fallback |-> fallback, confidence |-> Confidence(page, fallback)]

Fresh == [pc |-> "idle", query |-> {}, intent |-> "general_research", tried |-> <<>>, turn |-> 1,
          calls |-> {}, found |-> [p \in Providers |-> NoPage], batch |-> NoBatch]

Failed(p) == IF p = "mock" THEN Mock!RecordFailure(breaker[p]) ELSE Real!RecordFailure(breaker[p])

Plan(s) == Candidates(settings.mode, search[s].intent, search[s].query)

Init ==
  /\ settings \in [mode : Modes, mockOptIn : BOOLEAN, key : Keys]
  /\ breaker = [p \in Providers |-> Real!Closed]
  /\ search = [s \in Searches |-> Fresh]

(* What a provider may answer, over the replies its services may give it.  *)
Answers(q, p, key) ==
  CASE p = "mock"               -> {MockDocs(q, Limit)}
    [] p = "duckduckgo"         -> {DuckDuckGo(q, Limit, a, b) : a, b \in Replies}
    [] p = "weather_open_meteo" -> {OpenMeteo(q, Limit, g, a, a) : g, a \in Replies}
    [] p = "newsapi"            -> {NewsAPI(key, Limit, a) : a \in Replies}
    [] p = "serpapi"            -> {SerpAPI(key, Limit, a, b) : a, b \in Replies}
    [] p = "osm_local"          -> {OpenStreetMap(q, Limit, a, b) : a, b \in Replies}
    [] p = "commodity_refs"     -> {CommodityRefs(q, Limit, a) : a \in Replies}

(* What a call of a provider comes to: _run_single_provider ranks the      *)
(* documents of its answer.  What the page is worth is worked out here,    *)
(* the code does so when it compares.                                      *)
Outcomes ==
  [q \in UNION Range(Queries) |-> [p \in Providers |-> [key \in Keys |->
     {[raises |-> a.raises, page |-> Page(q, a.docs, Limit)] : a \in Answers(q, p, key)}]]]

-----------------------------------------------------------------------------
(* search_with_intent: the caller may name the intent, as the weather tool *)
(* does.  In demo mode the mock provider answers at once.  Both calls of a *)
(* speculative round are tasks made one after the other, and ask their     *)
(* breakers before anything else runs.                                     *)
Speculative(s, q, intent) ==
  LET two == First(Candidates(settings.mode, intent, q), 2)
      allowed == {p \in Range(two) : Real!Allows(breaker[p])}
  IN /\ search' = [search EXCEPT ![s] = [Fresh EXCEPT !.pc = "speculating", !.query = q, !.intent = intent,
                                                      !.tried = two, !.calls = allowed]]
     /\ breaker' = [p \in Providers |-> IF p \in Range(two) THEN Real!AfterRequest(breaker[p]) ELSE breaker[p]]

Begin(s, q, intent) ==
  /\ search[s].pc = "idle"
  /\ \/ /\ MockOnly(settings.mode)
        /\ \E a \in Outcomes[q]["mock"][settings.key] :
             search' = [search EXCEPT ![s] =
               [Fresh EXCEPT !.pc = "done", !.query = q, !.intent = intent, !.tried = <<"mock">>,
                             !.batch = Batch("mock", a.page, TRUE)]]
        /\ UNCHANGED breaker
     \/ /\ ~MockOnly(settings.mode)
        /\ Speculates(settings.mode, intent)
        /\ Speculative(s, q, intent)
     \/ /\ ~MockOnly(settings.mode)
        /\ ~Speculates(settings.mode, intent)
        /\ search' = [search EXCEPT ![s] = [Fresh EXCEPT !.pc = "asking", !.query = q, !.intent = intent]]
        /\ UNCHANGED breaker
  /\ UNCHANGED settings

(* _run_single_provider, after its wait_for: the breaker has learnt of it. *)
(* In the sequential round documents end the search.                       *)
Take(s, p, page) ==
  LET here == search[s]
      after == [here EXCEPT !.calls = @ \ {p}, !.found[p] = page]
  IN CASE here.pc = "speculating" -> after
       [] here.pc = "asking" /\ p # "mock" /\ page # NoPage ->
            [after EXCEPT !.pc = "done", !.batch = Batch(p, page, FALSE)]
       [] here.pc = "asking" /\ p # "mock" /\ page = NoPage -> [after EXCEPT !.turn = @ + 1]
       [] OTHER -> [after EXCEPT !.pc = "done", !.batch = Batch("mock", page, TRUE)]

Answer(s, p) ==
  /\ p \in search[s].calls
  /\ \E a \in Outcomes[search[s].query][p][settings.key] :
       /\ breaker' = [breaker EXCEPT ![p] = IF a.raises THEN Failed(p) ELSE Real!RecordSuccess(breaker[p])]
       /\ search' = [search EXCEPT ![s] = Take(s, p, a.page)]
  /\ UNCHANGED settings

(* The breaker is not told of a timeout.                                   *)
BugTimeout(s, p) ==
  /\ p \in search[s].calls \ {"mock"}
  /\ search' = [search EXCEPT ![s] = Take(s, p, NoPage)]
  /\ UNCHANGED <<settings, breaker>>

(* provider_timeout_seconds have passed.  The mock provider never waits.   *)
Timeout(s, p) ==
  /\ p \in search[s].calls \ {"mock"}
  /\ breaker' = [breaker EXCEPT ![p] = Failed(p)]
  /\ search' = [search EXCEPT ![s] = Take(s, p, NoPage)]
  /\ UNCHANGED settings

Score(s, p) == ProviderRank(p) + search[s].found[p].quality

(* Only the first of the two is looked at.                                 *)
BugSettle(s) ==
  /\ search[s].pc = "speculating"
  /\ search[s].calls = {}
  /\ LET p == search[s].tried[1]
     IN search' = [search EXCEPT ![s] =
          IF search[s].found[p] = NoPage THEN [@ EXCEPT !.pc = "asking"]
          ELSE [@ EXCEPT !.pc = "done", !.batch = Batch(p, search[s].found[p], FALSE)]]
  /\ UNCHANGED <<settings, breaker>>

(* _run_speculative, when both calls are in: the best of the two, the      *)
(* first when they are equal; the sequential round when there is none.  It *)
(* ranks both pages once more, which leaves them as they are.              *)
Settle(s) ==
  /\ search[s].pc = "speculating"
  /\ search[s].calls = {}
  /\ LET here == search[s]
         two == here.tried
         with == {k \in DOMAIN two : here.found[two[k]] # NoPage}
         best == CHOOSE k \in with : \A m \in with \ {k} :
                   Precedes(<<Score(s, two[k]), -k>>, <<Score(s, two[m]), -m>>)
     IN search' = [search EXCEPT ![s] =
          IF with = {} THEN [here EXCEPT !.pc = "asking"]
          ELSE [here EXCEPT !.pc = "done",
                  !.batch = Batch(two[best], here.found[two[best]], FALSE)]]
  /\ UNCHANGED <<settings, breaker>>

(* A provider its breaker refuses stays the next one.                      *)
BugAsk(s) ==
  /\ search[s].pc = "asking"
  /\ search[s].calls = {}
  /\ search[s].turn <= Len(Plan(s))
  /\ LET p == Plan(s)[search[s].turn]
     IN /\ breaker' = [breaker EXCEPT ![p] = Real!AfterRequest(@)]
        /\ search' = [search EXCEPT ![s].tried = Append(@, p),
                                    ![s].calls = IF Real!Allows(breaker[p]) THEN {p} ELSE {}]
  /\ UNCHANGED settings

(* The sequential round: the next provider, refused when its breaker says  *)
(* so; after the last, the mock provider if it may answer; or nothing.     *)
Ask(s) ==
  LET here == search[s]
      p == IF here.turn <= Len(Plan(s)) THEN Plan(s)[here.turn] ELSE "mock"
      allowed == Real!Allows(breaker[p])
      asked == [here EXCEPT !.tried = Append(@, p), !.calls = IF allowed THEN {p} ELSE {}]
  IN /\ here.pc = "asking"
     /\ here.calls = {}
     /\ IF p # "mock" \/ MockAllowed(settings.mode, settings.mockOptIn)
        THEN /\ breaker' = [breaker EXCEPT ![p] = Real!AfterRequest(@)]
             /\ search' = [search EXCEPT ![s] =
                  IF allowed THEN asked
                  ELSE IF p # "mock" THEN [asked EXCEPT !.turn = @ + 1]
                  ELSE [asked EXCEPT !.pc = "done", !.batch = Batch("mock", NoPage, TRUE)]]
        ELSE /\ search' = [search EXCEPT ![s].pc = "done", ![s].batch = NoBatch]
             /\ UNCHANGED breaker
     /\ UNCHANGED settings

-----------------------------------------------------------------------------
(* The caller's timeout cancels the search: CancelledError passes every    *)
(* `except Exception`, so no breaker hears of the calls that were waiting. *)
Abandon(s) ==
  /\ search[s].pc \in {"speculating", "asking"}
  /\ search' = [search EXCEPT ![s] = Fresh]
  /\ UNCHANGED <<settings, breaker>>

(* The caller has taken the batch.                                         *)
Deliver(s) ==
  /\ search[s].pc = "done"
  /\ search' = [search EXCEPT ![s] = Fresh]
  /\ UNCHANGED <<settings, breaker>>

(* recovery_timeout_seconds have passed, 20 s (8 s for the mock provider): *)
(* longer than any call admitted before can still last, at most 4 s.       *)
Cool(p) ==
  /\ breaker[p].cooling
  /\ \A s \in Searches : p \notin search[s].calls
  /\ breaker' = [breaker EXCEPT ![p] = Real!Cooled(@)]
  /\ UNCHANGED <<settings, search>>

Next ==
  \/ \E s \in Searches :
       \/ \E q \in Queries[s] : Begin(s, q, SearchIntent(q)) \/ Begin(s, q, "weather_live")
       \/ \E p \in Providers : Answer(s, p) \/ Timeout(s, p)
       \/ Settle(s) \/ Ask(s) \/ Abandon(s) \/ Deliver(s)
  \/ \E p \in Providers : Cool(p)

Spec == Init /\ [][Next]_vars

(* wait_for ends every call, and the event loop runs every coroutine that  *)
(* can go on.                                                              *)
Fairness ==
  \A s \in Searches :
    /\ WF_vars(\E p \in Providers : Answer(s, p) \/ Timeout(s, p))
    /\ WF_vars(Settle(s) \/ Ask(s))

FairSpec == Spec /\ Fairness

-----------------------------------------------------------------------------
TypeOK ==
  /\ settings \in [mode : Modes, mockOptIn : BOOLEAN, key : Keys]
  /\ breaker \in [Providers -> Real!Breaker]
  /\ \A s \in Searches :
       /\ search[s].pc \in {"idle", "speculating", "asking", "done"}
       /\ search[s].query \in Queries[s] \cup {{}}
       /\ search[s].calls \subseteq Providers
       /\ search[s].tried \in Seq(Providers)
       /\ search[s].turn \in 1..(Len(Plan(s)) + 1)

(* Once a real provider gave this search a document, no provider is asked  *)
(* again, the answer is a real one, and no other provider that answered    *)
(* had a better one.                                                       *)
RealAnswerWins ==
  \A s \in Searches :
    LET real == {p \in Providers \ {"mock"} : search[s].found[p] # NoPage}
    IN /\ search[s].pc = "asking" => real = {}
       /\ search[s].pc = "done" /\ real # {} =>
            /\ search[s].batch.provider \in real
            /\ \A p \in real : Score(s, p) <= Score(s, search[s].batch.provider)

(* The retry after a speculative round is bounded: a search asks a         *)
(* provider twice at the most, the second time only when it was one of the *)
(* first two, and the mock provider once.                                  *)
Asked(s, p) == Cardinality({k \in DOMAIN search[s].tried : search[s].tried[k] = p})

AskedAtMostTwice ==
  \A s \in Searches, p \in Providers :
    Asked(s, p) <= IF p \in Range(First(Plan(s), 2)) /\ Speculates(settings.mode, search[s].intent)
                   THEN 2 ELSE 1

(* Invented documents are returned only where the environment allows them, *)
(* are always declared as a fallback and never with more than half of the  *)
(* confidence; and no real document is declared as one.                    *)
MockIsDeclared ==
  \A s \in Searches :
    search[s].pc = "done" =>
      LET b == search[s].batch
      IN /\ b.fallback <=> b.provider = "mock"
         /\ (\E k \in DOMAIN b.docs : b.docs[k].provider = "mock") => b.provider = "mock"
         /\ b.provider = "mock" =>
              /\ settings.mode = "demo" \/ settings.mockOptIn
              /\ b.confidence <= 50

(* The slot of a half-open breaker is given back with the answer, the      *)
(* failure or the timeout of the call that took it.  Only a search that is *)
(* cancelled takes its slot away with it, and then for good: no request is *)
(* out that could report, and none is let in any more.                     *)
Probing(p) == breaker[p].state = "half_open" /\ breaker[p].calls > 0
InFlight(p) == {s \in Searches : p \in search[s].calls}
Abandoned(s) == search[s].pc \in {"speculating", "asking"} /\ search'[s].pc = "idle"

ProbesReport ==
  [][\A p \in Providers :
       Probing(p) /\ InFlight(p) # {} /\ Probing(p)' /\ InFlight(p)' = {}
         => \E s \in Searches : Abandoned(s)]_vars

(* However its providers fail or keep silent, a search comes to an end.    *)
SearchesEnd ==
  \A s \in Searches : search[s].pc \in {"speculating", "asking"} ~> search[s].pc \in {"done", "idle"}
=============================================================================
