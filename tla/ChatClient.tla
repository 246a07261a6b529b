----------------------------- MODULE ChatClient -----------------------------
(***************************************************************************)
(* The chat in the browser: use-chat-runtime.ts, chat-stream-action.ts,    *)
(* event-stream.ts, the trace store and its IndexedDB, and the route that  *)
(* stands between them and the backend.                                    *)
(*                                                                         *)
(* A tab is a session of its own.  While its page loads the trace of       *)
(* earlier runs, in three requests one after the other, its user may       *)
(* already send a prompt.  The backend stores an event before it streams   *)
(* it (AgentRuntime has that half).  Events are <<tab, n>>; the order in   *)
(* which the trace shows them, its window and the metrics are left out.    *)
(***************************************************************************)
EXTENDS Naturals, Sequences, FiniteSets, Bags

CONSTANTS
  Tabs,
  MaxEvents,   \* events a session may have,
  MaxTurns,    \* MaxTurns[t]: prompts a page may send,
  MaxLoads     \* MaxLoads[t]: and times the tab may load it

ASSUME ClientAssumption == MaxEvents \in Nat /\ MaxTurns \in [Tabs -> Nat] /\ MaxLoads \in [Tabs -> Nat]

VARIABLES
  logged,   \* logged[t]: how many events of the session the backend has stored
  run,      \* run[t]: how the run of the last prompt stands in the backend
  unheard,  \* unheard[t]: a run of the session that no page listens to goes on
  wire,     \* wire[t]: frames on their way to the page
  stored,   \* the events IndexedDB keeps, of all tabs
  page      \* page[t]

vars == <<logged, run, unheard, wire, stored, page>>

Events == Tabs \X (1..MaxEvents)
Of(t, n) == {t} \X (1..n)

Frame(kind) == [kind |-> kind, n |-> 0]

Ends == {"done", "overfull", "error", "done_error", "silent", "broken"}

(* One page: `heard` are the events it was sent, `known` those the backend *)
(* had when it was asked, `past` those it had when the trace was loaded,   *)
(* and `early` those heard before that; `told` is what the user was told   *)
(* since the last prompt.                                                  *)
Opened(loads) ==
  [load |-> "history", found |-> {}, trace |-> EmptyBag, saves |-> <<>>, sending |-> FALSE, conn |-> "none",
   status |-> "done", told |-> {}, turns |-> 0, loads |-> loads, heard |-> {}, known |-> {}, past |-> {}, early |-> {}]

Init ==
  /\ logged = [t \in Tabs |-> 0]
  /\ run = [t \in Tabs |-> "none"]
  /\ unheard = [t \in Tabs |-> FALSE]
  /\ wire = [t \in Tabs |-> <<>>]
  /\ stored = {}
  /\ page = [t \in Tabs |-> Opened(1)]

-----------------------------------------------------------------------------
(* The trace of earlier runs.                                              *)

(* The history may be refused as a whole or for some of the sessions; the  *)
(* backend is asked for no more than the last sessions.                    *)
LoadHistory(t) ==
  /\ page[t].load = "history"
  /\ \E answered \in SUBSET Tabs :
       page' = [page EXCEPT ![t].load = "metrics", ![t].found = UNION {Of(s, logged[s]) : s \in answered},
                            ![t].known = IF t \in answered THEN Of(t, logged[t]) ELSE {}]
  /\ UNCHANGED <<logged, run, unheard, wire, stored>>

LoadMetrics(t) ==
  /\ page[t].load = "metrics"
  /\ page' = [page EXCEPT ![t].load = "storage"]
  /\ UNCHANGED <<logged, run, unheard, wire, stored>>

(* What the backend found does not count when the storage cannot be read.  *)
BugMerged(found, readable) == IF readable THEN found \cup stored ELSE {}

Merged(found, readable) == IF readable THEN found \cup stored ELSE found

(* The trace that was loaded takes the place of the one there is.          *)
Hydrate(t) ==
  /\ page[t].load = "storage"
  /\ \E readable \in BOOLEAN :
       LET events == Merged(page[t].found, readable)
       IN page' = [page EXCEPT ![t].load = "ready", ![t].trace = SetToBag(events), ![t].saves = Append(@, events),
                                ![t].past = Of(t, logged[t])]
  /\ UNCHANGED <<logged, run, unheard, wire, stored>>

(* Every change of a loaded trace is saved, after the page shows it; the   *)
(* tabs of a browser share the place.                                      *)
Save(t) ==
  /\ page[t].saves # <<>>
  /\ page' = [page EXCEPT ![t].saves = Tail(@)]
  /\ \/ stored' = Head(page[t].saves)
     \/ UNCHANGED stored
  /\ UNCHANGED <<logged, run, unheard, wire>>

(* Another page of the same tab, which keeps the name of the session.      *)
Reload(t) ==
  /\ page[t].loads < MaxLoads[t]
  /\ page' = [page EXCEPT ![t] = Opened(page[t].loads + 1)]
  /\ wire' = [wire EXCEPT ![t] = <<>>]
  /\ UNCHANGED <<logged, run, unheard, stored>>

-----------------------------------------------------------------------------
(* A turn of the page.                                                     *)

(* The input is locked until the turn has settled; not while the trace is  *)
(* loading.                                                                *)
Send(t) ==
  /\ ~page[t].sending
  /\ page[t].turns < MaxTurns[t]
  /\ page' = [page EXCEPT ![t].sending = TRUE, ![t].status = "running", ![t].told = {}, ![t].turns = @ + 1,
                          ![t].conn = "posting"]
  /\ run' = [run EXCEPT ![t] = "none"]
  /\ unheard' = [unheard EXCEPT ![t] = @ \/ run[t] = "going"]
  /\ UNCHANGED <<logged, wire, stored>>

(* What becomes of a page whose turn failed.                               *)
BugFailed(p) == [p EXCEPT !.sending = FALSE, !.conn = "none", !.status = "waiting_user"]

Failed(p) ==
  [p EXCEPT !.sending = FALSE, !.conn = "none", !.status = "waiting_user", !.told = @ \cup {"failure"}]

(* The route, or the backend behind it, answers with an error, or nothing  *)
(* answers; the run may have begun all the same.                           *)
Refuse(t) ==
  /\ page[t].conn = "posting"
  /\ page' = [page EXCEPT ![t] = Failed(@)]
  /\ \E begun \in BOOLEAN : unheard' = [unheard EXCEPT ![t] = @ \/ begun]
  /\ UNCHANGED <<logged, run, wire, stored>>

Accept(t) ==
  /\ page[t].conn = "posting"
  /\ page' = [page EXCEPT ![t].conn = "open"]
  /\ run' = [run EXCEPT ![t] = "going"]
  /\ UNCHANGED <<logged, unheard, wire, stored>>

(* The route passes on the frames it can read; one it cannot, such as an   *)
(* answer with more than twelve sources, and a stream that breaks off      *)
(* become an error, and end the stream.                                    *)
Proxied(frame) ==
  IF frame.kind \in {"overfull", "broken"} THEN Frame("error") ELSE frame

Shown(p, e) ==
  LET trace == p.trace (+) SetToBag({e})
  IN [p EXCEPT !.trace = trace, !.heard = @ \cup {e},
               !.early = IF p.load # "ready" THEN @ \cup {e} ELSE @,
               !.saves = IF p.load = "ready" THEN Append(@, BagToSet(trace)) ELSE @]

(* The page reads one frame.  An error ends its turn, whatever was shown   *)
(* before and whatever may still come; the end of the stream is success.   *)
Read(t) ==
  /\ page[t].conn = "open"
  /\ wire[t] # <<>>
  /\ LET frame == Proxied(Head(wire[t]))
     IN /\ page' = [page EXCEPT ![t] =
             CASE frame.kind = "error" -> Failed(@)
               [] frame.kind = "done" -> [@ EXCEPT !.told = @ \cup {"answer"}]
               [] frame.kind = "close" -> [@ EXCEPT !.conn = "closed"]
               [] frame.kind = "message" -> Shown(@, <<t, frame.n>>)]
        /\ wire' = [wire EXCEPT ![t] = IF frame.kind = "error" THEN <<>> ELSE Tail(@)]
  /\ UNCHANGED <<logged, run, unheard, stored>>

(* The connection to the route is lost.                                    *)
Disconnect(t) ==
  /\ page[t].conn = "open"
  /\ page' = [page EXCEPT ![t] = Failed(@)]
  /\ wire' = [wire EXCEPT ![t] = <<>>]
  /\ UNCHANGED <<logged, run, unheard, stored>>

(* The input stays locked.                                                 *)
BugSettle(t) ==
  /\ page[t].conn = "closed"
  /\ page' = [page EXCEPT ![t].conn = "none", ![t].status = "done"]
  /\ UNCHANGED <<logged, run, unheard, wire, stored>>

(* The metrics have been asked for again.                                  *)
Settle(t) ==
  /\ page[t].conn = "closed"
  /\ page' = [page EXCEPT ![t].sending = FALSE, ![t].conn = "none", ![t].status = "done"]
  /\ UNCHANGED <<logged, run, unheard, wire, stored>>

-----------------------------------------------------------------------------
(* The backend.                                                            *)

Heard(t, frames) == wire' = [wire EXCEPT ![t] = IF page[t].conn = "open" THEN @ \o frames ELSE @]

Emit(t) ==
  /\ run[t] = "going"
  /\ logged[t] < MaxEvents
  /\ logged' = [logged EXCEPT ![t] = @ + 1]
  /\ Heard(t, <<[kind |-> "message", n |-> logged[t] + 1]>>)
  /\ UNCHANGED <<run, unheard, stored, page>>

EmitUnheard(t) ==
  /\ unheard[t]
  /\ \/ /\ logged[t] < MaxEvents
        /\ logged' = [logged EXCEPT ![t] = @ + 1]
        /\ UNCHANGED unheard
     \/ /\ unheard' = [unheard EXCEPT ![t] = FALSE]
        /\ UNCHANGED logged
  /\ UNCHANGED <<run, wire, stored, page>>

(* A run ends with its answer or an error, with both when the task cannot  *)
(* be marked complete, with neither when it cannot be set up, or with the  *)
(* backend.                                                                *)
LastFrames(end) ==
  CASE end = "done_error" -> <<Frame("done"), Frame("error"), Frame("close")>>
    [] end = "silent" -> <<Frame("close")>>
    [] end = "broken" -> <<Frame("broken")>>
    [] OTHER -> <<Frame(end), Frame("close")>>

Finish(t) ==
  /\ run[t] = "going"
  /\ \E end \in Ends :
       /\ run' = [run EXCEPT ![t] = end]
       /\ Heard(t, LastFrames(end))
  /\ UNCHANGED <<logged, unheard, stored, page>>

Step(t) ==
  \/ LoadHistory(t) \/ LoadMetrics(t) \/ Hydrate(t) \/ Save(t) \/ Reload(t)
  \/ Send(t) \/ Refuse(t) \/ Accept(t) \/ Read(t) \/ Disconnect(t) \/ Settle(t)
  \/ Emit(t) \/ EmitUnheard(t) \/ Finish(t)

Next == \E t \in Tabs : Step(t)

Spec == Init /\ [][Next]_vars

-----------------------------------------------------------------------------
TypeOK ==
  /\ logged \in [Tabs -> 0..MaxEvents]
  /\ run \in [Tabs -> Ends \cup {"none", "going"}]
  /\ unheard \in [Tabs -> BOOLEAN]
  /\ stored \subseteq Events
  /\ \A t \in Tabs :
       /\ page[t].load \in {"history", "metrics", "storage", "ready"}
       /\ page[t].found \subseteq Events
       /\ IsABag(page[t].trace) /\ BagToSet(page[t].trace) \subseteq Events
       /\ page[t].conn \in {"none", "posting", "open", "closed"}
       /\ page[t].sending <=> page[t].conn # "none"
       /\ page[t].sending <=> page[t].status = "running"
       /\ page[t].told \subseteq {"answer", "failure"}
       /\ page[t].conn # "open" => wire[t] = <<>>

(* use-chat-runtime.ts, chat-stream-action.ts: however a turn ends, its    *)
(* user is told: an answer, or that it failed, which the status says too.  *)
(* The one turn that ends as a success and tells nothing is one the        *)
(* backend closed without a word; and what is taken for an answer is one.  *)
EachTurnIsTold ==
  \A t \in Tabs : page[t].turns > 0 /\ ~page[t].sending =>
    /\ page[t].status = "waiting_user" <=> "failure" \in page[t].told
    /\ page[t].told = {} => run[t] = "silent"
    /\ "answer" \in page[t].told => run[t] \in {"done", "done_error"}

(* use-chat-runtime.ts, the effect that loads the trace: of the events a   *)
(* page was sent it loses only those that came while it was loading and    *)
(* that the backend did not have, or did not tell, when it was asked; and  *)
(* it shows twice only those that the backend had then and that came after *)
(* the trace was loaded.  Nothing the stream brings later is lost.         *)
OnlyTheGapIsLost ==
  \A t \in Tabs :
    LET p == page[t]
        twice == {e \in BagToSet(p.trace) : p.trace[e] > 1}
    IN /\ p.heard \ BagToSet(p.trace) \subseteq p.early \ p.known
       /\ twice \subseteq p.past \ p.early
=============================================================================
