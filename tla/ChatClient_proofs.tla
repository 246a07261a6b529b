-------------------------- MODULE ChatClient_proofs --------------------------
(***************************************************************************)
(* What ChatClient promises its users holds for every number of tabs,      *)
(* events, prompts and reloads.  The invariant has three parts: what is    *)
(* where (TypeInv), what the stream of a turn can still bring (TurnInv),   *)
(* and where an event of the trace comes from (GapInv).                    *)
(***************************************************************************)
EXTENDS ChatClient, SequenceTheorems, TLAPS

Fields == {"load", "found", "trace", "saves", "sending", "conn", "status", "told", "turns", "loads",
           "heard", "known", "past", "early"}

(* Only a message has a number.                                            *)
FrameType ==
  [kind : {"message"}, n : 1..MaxEvents] \cup [kind : {"close", "broken", "done", "overfull", "error"}, n : {0}]

(* Nothing follows the end of a stream.                                    *)
Closing(w) == \A i \in 1..Len(w) : w[i].kind \in {"close", "broken"} => i = Len(w)
Talking(w) == \A i \in 1..Len(w) : w[i].kind = "message"
Kinds(w) == {w[i].kind : i \in 1..Len(w)}

(* What the kinds of the frames of a stream say of how its run ended.      *)
Tells(kinds, end) ==
  /\ "message" \notin kinds
  /\ "done" \in kinds => end \in {"done", "done_error"}
  /\ "close" \in kinds => end = "silent" \/ kinds \cap {"done", "overfull", "error"} # {}

PageType(p) ==
  /\ DOMAIN p = Fields
  /\ p.load \in {"history", "metrics", "storage", "ready"}
  /\ p.found \subseteq Events
  /\ IsABag(p.trace)
  /\ BagToSet(p.trace) \subseteq Events
  /\ p.saves \in Seq(SUBSET Events)
  /\ p.conn \in {"none", "posting", "open", "closed"}
  /\ p.status \in {"running", "waiting_user", "done"}
  /\ p.sending \in BOOLEAN
  /\ p.sending <=> p.conn # "none"
  /\ p.sending <=> p.status = "running"
  /\ p.told \subseteq {"answer", "failure"}
  /\ p.turns \in Nat
  /\ p.loads \in Nat
  /\ p.heard \subseteq Events
  /\ p.known \subseteq Events
  /\ p.past \subseteq Events
  /\ p.early \subseteq Events

TypeInv ==
  /\ logged \in [Tabs -> 0..MaxEvents]
  /\ run \in [Tabs -> Ends \cup {"none", "going"}]
  /\ unheard \in [Tabs -> BOOLEAN]
  /\ wire \in [Tabs -> Seq(FrameType)]
  /\ stored \subseteq Events
  /\ page = [t \in Tabs |-> page[t]]
  /\ \A t \in Tabs : PageType(page[t])
  /\ \A t \in Tabs : page[t].conn # "open" => wire[t] = <<>>
  /\ \A t \in Tabs : Closing(wire[t])
  /\ \A t \in Tabs : page[t].conn = "open" /\ run[t] = "going" => Talking(wire[t])

(* Each step makes pages of pages.                                         *)
LEMMA EventsOf == ASSUME NEW t \in Tabs, NEW n \in 0..MaxEvents PROVE Of(t, n) \subseteq Events
  BY ClientAssumption DEF Of, Events

LEMMA OpenedType == ASSUME NEW n \in Nat PROVE PageType(Opened(n))
  BY DEF PageType, Opened, Fields, EmptyBag, SetToBag, IsABag, BagToSet

LEMMA BagOf == ASSUME NEW S \in SUBSET Events PROVE IsABag(SetToBag(S)) /\ BagToSet(SetToBag(S)) = S
  BY DEF SetToBag, IsABag, BagToSet

LEMMA FailedType == ASSUME NEW p, PageType(p) PROVE PageType(Failed(p)) /\ Failed(p).conn = "none"
  BY DEF PageType, Failed, Fields

LEMMA ShownType ==
  ASSUME NEW p, PageType(p), NEW e \in Events, p.conn = "open"
  PROVE  PageType(Shown(p, e)) /\ Shown(p, e).conn = "open"
<1> DEFINE b == p.trace (+) SetToBag({e})
<1>1. IsABag(b) /\ BagToSet(b) = BagToSet(p.trace) \cup {e}
  BY DEF PageType, IsABag, BagToSet, SetToBag, (+)
<1> HIDE DEF b
<1>2. BagToSet(b) \in SUBSET Events  BY <1>1 DEF PageType
<1> DEFINE s == IF p.load = "ready" THEN Append(p.saves, BagToSet(b)) ELSE p.saves
           y == IF p.load # "ready" THEN p.early \cup {e} ELSE p.early
<1>3. Shown(p, e) = [p EXCEPT !.trace = b, !.heard = @ \cup {e}, !.early = y, !.saves = s]
  BY DEF Shown, b
<1>4. s \in Seq(SUBSET Events) /\ y \subseteq Events /\ p.heard \cup {e} \subseteq Events
  BY <1>2 DEF PageType
<1> HIDE DEF s, y
<1> QED BY <1>1, <1>2, <1>3, <1>4 DEF PageType, Fields

LEMMA TypeInit == Init => TypeInv
<1> SUFFICES ASSUME Init PROVE TypeInv OBVIOUS
<1>1. 0 \in 0..MaxEvents  BY ClientAssumption
<1>2. <<>> \in Seq(FrameType) /\ Closing(<<>>) /\ Talking(<<>>)  BY DEF Closing, Talking
<1>3. \A t \in Tabs : PageType(page[t])  BY OpenedType DEF Init
<1> QED BY <1>1, <1>2, <1>3 DEF Init, TypeInv

(* The type invariant after a step that makes page q of that of tab t.     *)
LEMMA Retyped ==
  ASSUME TypeInv, NEW t \in Tabs, NEW q, PageType(q), page' = [page EXCEPT ![t] = q],
         logged' \in [Tabs -> 0..MaxEvents], unheard' \in [Tabs -> BOOLEAN], stored' \subseteq Events,
         NEW r \in Ends \cup {"none", "going"}, run' = [run EXCEPT ![t] = r],
         NEW w \in Seq(FrameType), wire' = [wire EXCEPT ![t] = w], q.conn # "open" => w = <<>>,
         Closing(w), q.conn = "open" /\ r = "going" => Talking(w)
  PROVE  TypeInv'
<1>1. page' = [u \in Tabs |-> page'[u]] /\ \A u \in Tabs : PageType(page'[u])  BY DEF TypeInv
<1>2. wire' \in [Tabs -> Seq(FrameType)] /\ \A u \in Tabs : page'[u].conn # "open" => wire'[u] = <<>>
  BY DEF TypeInv
<1>3. run' \in [Tabs -> Ends \cup {"none", "going"}] /\ \A u \in Tabs : Closing(wire'[u])
  BY DEF TypeInv
<1>4. \A u \in Tabs : page'[u].conn = "open" /\ run'[u] = "going" => Talking(wire'[u])
  BY DEF TypeInv
<1> QED BY <1>1, <1>2, <1>3, <1>4 DEF TypeInv

(* The same when it is only the page that has changed.                     *)
LEMMA Repaged ==
  ASSUME TypeInv, NEW t \in Tabs, NEW q, PageType(q), page' = [page EXCEPT ![t] = q],
         q.conn = page[t].conn \/ "open" \notin {q.conn, page[t].conn},
         UNCHANGED <<logged, run, unheard, wire>>, stored' \subseteq Events
  PROVE  TypeInv'
<1>1. /\ wire[t] \in Seq(FrameType) /\ wire' = [wire EXCEPT ![t] = wire[t]]
      /\ Closing(wire[t])
      /\ q.conn # "open" => wire[t] = <<>>
      /\ q.conn = "open" /\ run[t] = "going" => Talking(wire[t])
  BY DEF TypeInv
<1>2. run[t] \in Ends \cup {"none", "going"} /\ run' = [run EXCEPT ![t] = run[t]]  BY DEF TypeInv
<1>3. logged' \in [Tabs -> 0..MaxEvents] /\ unheard' \in [Tabs -> BOOLEAN]  BY DEF TypeInv
<1> QED BY <1>1, <1>2, <1>3, Retyped

LEMMA Silent == <<>> \in Seq(FrameType) /\ Closing(<<>>) /\ Talking(<<>>)
  BY DEF Closing, Talking

LEMMA LastOnes ==
  ASSUME NEW end \in Ends, NEW v, v = LastFrames(end)
  PROVE  v \in Seq(FrameType) /\ Closing(v) /\ Tells(Kinds(v), end)
<1>1. \A k \in {"close", "broken", "done", "overfull", "error"} : Frame(k) \in FrameType /\ Frame(k).kind = k
  BY DEF Frame, FrameType
<1>2. CASE end = "done_error"
  <2>1. v = <<Frame("done"), Frame("error"), Frame("close")>>  BY <1>2 DEF LastFrames
  <2>2. Kinds(v) = {"done", "error", "close"}  BY <1>1, <2>1 DEF Kinds
  <2>3. v \in Seq(FrameType)  BY <1>1, <2>1
  <2>4. Closing(v)  BY <1>1, <2>1 DEF Closing
  <2>5. Tells(Kinds(v), end)  BY <1>2, <2>2 DEF Tells
  <2> QED BY <2>3, <2>4, <2>5
<1>3. CASE end = "silent"
  <2>1. v = <<Frame("close")>>  BY <1>3 DEF LastFrames
  <2>2. Kinds(v) = {"close"}  BY <1>1, <2>1 DEF Kinds
  <2>3. v \in Seq(FrameType)  BY <1>1, <2>1
  <2>4. Closing(v)  BY <1>1, <2>1 DEF Closing
  <2>5. Tells(Kinds(v), end)  BY <1>3, <2>2 DEF Tells
  <2> QED BY <2>3, <2>4, <2>5
<1>4. CASE end = "broken"
  <2>1. v = <<Frame("broken")>>  BY <1>4 DEF LastFrames
  <2>2. Kinds(v) = {"broken"}  BY <1>1, <2>1 DEF Kinds
  <2>3. v \in Seq(FrameType)  BY <1>1, <2>1
  <2>4. Closing(v)  BY <1>1, <2>1 DEF Closing
  <2>5. Tells(Kinds(v), end)  BY <1>4, <2>2 DEF Tells
  <2> QED BY <2>3, <2>4, <2>5
<1>5. CASE end \in {"done", "overfull", "error"}
  <2>1. v = <<Frame(end), Frame("close")>>  BY <1>5 DEF LastFrames
  <2>2. Kinds(v) = {end, "close"}  BY <1>1, <1>5, <2>1 DEF Kinds
  <2> QED BY <1>1, <1>5, <2>1, <2>2 DEF Closing, Tells
<1> QED BY <1>2, <1>3, <1>4, <1>5 DEF Ends

LEMMA TailOf ==
  ASSUME NEW w \in Seq(FrameType), w # <<>>
  PROVE  /\ Tail(w) \in Seq(FrameType)
         /\ Closing(w) => Closing(Tail(w))
         /\ Closing(w) /\ Head(w).kind \in {"close", "broken"} => Tail(w) = <<>>
         /\ Talking(w) => Talking(Tail(w))
<1> DEFINE v == Tail(w)
           n == Len(w)
<1>1. v \in Seq(FrameType) /\ Len(v) = n - 1 /\ \A i \in 1..(n - 1) : v[i] = w[i + 1]
  OBVIOUS
<1>2. n \in Nat \ {0} /\ Head(w) = w[1]  OBVIOUS
<1> HIDE DEF v, n
<1>3. n = 1 => v = <<>>  BY <1>1, EmptySeq
<1>4. Closing(w) <=> \A i \in 1..n : w[i].kind \in {"close", "broken"} => i = n  BY DEF Closing, n
<1>5. Closing(v) <=> \A i \in 1..(n - 1) : w[i + 1].kind \in {"close", "broken"} => i = n - 1
  BY <1>1, <1>2 DEF Closing
<1>6. Closing(w) => Closing(v)
  BY <1>2, <1>4, <1>5
<1>7. Talking(w) => Talking(v)
  <2>1. Talking(w) <=> \A i \in 1..n : w[i].kind = "message"  BY DEF Talking, n
  <2> QED BY <1>1, <1>2, <2>1 DEF Talking
<1>8. Closing(w) /\ Head(w).kind \in {"close", "broken"} => n = 1
  BY <1>2, <1>4
<1> QED BY <1>1, <1>3, <1>6, <1>7, <1>8 DEF v

LEMMA AfterTalk ==
  ASSUME NEW w \in Seq(FrameType), Talking(w), NEW v \in Seq(FrameType), Closing(v)
  PROVE  w \o v \in Seq(FrameType) /\ Closing(w \o v) /\ (Talking(v) => Talking(w \o v))
<1>1. /\ w \o v \in Seq(FrameType)
      /\ Len(w \o v) = Len(w) + Len(v)
      /\ \A i \in 1..Len(w \o v) : (w \o v)[i] = IF i <= Len(w) THEN w[i] ELSE v[i - Len(w)]
  OBVIOUS
<1>2. Len(w) \in Nat /\ Len(v) \in Nat  OBVIOUS
<1>3. Closing(w \o v)
  <2> SUFFICES ASSUME NEW i \in 1..Len(w \o v), (w \o v)[i].kind \in {"close", "broken"}
               PROVE  i = Len(w \o v)
    BY DEF Closing
  <2>1. i > Len(w)  BY <1>1, <1>2 DEF Talking
  <2>2. i - Len(w) = Len(v)  BY <1>1, <1>2, <2>1 DEF Closing
  <2> QED BY <1>1, <1>2, <2>2
<1>4. Talking(v) => Talking(w \o v)  BY <1>1, <1>2 DEF Talking
<1> QED BY <1>1, <1>3, <1>4

LEMMA TypeStep == ASSUME TypeInv, NEW t \in Tabs, Step(t) PROVE TypeInv'
<1> DEFINE p == page[t]
<1>0. /\ PageType(p)
      /\ wire[t] \in Seq(FrameType)
      /\ wire = [wire EXCEPT ![t] = wire[t]]
      /\ p.conn # "open" => wire[t] = <<>>
      /\ Closing(wire[t])
      /\ p.conn = "open" /\ run[t] = "going" => Talking(wire[t])
  BY DEF TypeInv
<1>0a. /\ logged \in [Tabs -> 0..MaxEvents]
       /\ run[t] \in Ends \cup {"none", "going"}
       /\ run = [run EXCEPT ![t] = run[t]]
       /\ unheard \in [Tabs -> BOOLEAN]
       /\ stored \subseteq Events
  BY DEF TypeInv
<1>1. CASE LoadHistory(t)
  <2>1. PICK answered \in SUBSET Tabs :
          page' = [page EXCEPT ![t].load = "metrics", ![t].found = UNION {Of(s, logged[s]) : s \in answered},
                               ![t].known = IF t \in answered THEN Of(t, logged[t]) ELSE {}]
    BY <1>1 DEF LoadHistory
  <2> DEFINE f == UNION {Of(s, logged[s]) : s \in answered}
             k == IF t \in answered THEN Of(t, logged[t]) ELSE {}
             q == [p EXCEPT !.load = "metrics", !.found = f, !.known = k]
  <2>2. f \subseteq Events /\ k \subseteq Events  BY EventsOf, <1>0a
  <2>3. page' = [page EXCEPT ![t] = q]  BY <2>1
  <2> HIDE DEF f, k
  <2>4. PageType(q) /\ q.conn = p.conn  BY <1>0, <2>2 DEF PageType, Fields
  <2> HIDE DEF q
  <2> QED BY <1>0a, <1>1, <2>3, <2>4, Repaged DEF LoadHistory
<1>2. CASE LoadMetrics(t)
  <2> DEFINE q == [p EXCEPT !.load = "storage"]
  <2>1. PageType(q) /\ q.conn = p.conn  BY <1>0 DEF PageType, Fields
  <2>2. page' = [page EXCEPT ![t] = q]  BY <1>2 DEF LoadMetrics
  <2> HIDE DEF q
  <2> QED BY <1>0a, <1>2, <2>1, <2>2, Repaged DEF LoadMetrics
<1>3. CASE Hydrate(t)
  <2>1. PICK readable \in BOOLEAN :
          LET events == Merged(p.found, readable)
          IN page' = [page EXCEPT ![t].load = "ready", ![t].trace = SetToBag(events),
                                  ![t].saves = Append(@, events), ![t].past = Of(t, logged[t])]
    BY <1>3 DEF Hydrate
  <2> DEFINE events == Merged(p.found, readable)
             b == SetToBag(events)
             o == Of(t, logged[t])
             q == [p EXCEPT !.load = "ready", !.trace = b, !.saves = Append(@, events), !.past = o]
  <2>2. events \in SUBSET Events  BY <1>0, <1>0a DEF Merged, PageType
  <2>3. IsABag(b) /\ BagToSet(b) \subseteq Events  BY <2>2, BagOf
  <2>4. o \subseteq Events  BY EventsOf, <1>0a
  <2>5. page' = [page EXCEPT ![t] = q]  BY <2>1
  <2> HIDE DEF events, b, o
  <2>6. PageType(q) /\ q.conn = p.conn  BY <1>0, <2>2, <2>3, <2>4 DEF PageType, Fields
  <2> HIDE DEF q
  <2> QED BY <1>0a, <1>3, <2>5, <2>6, Repaged DEF Hydrate
<1>4. CASE Save(t)
  <2> DEFINE q == [p EXCEPT !.saves = Tail(@)]
  <2>1. Head(p.saves) \subseteq Events /\ PageType(q) /\ q.conn = p.conn
    BY <1>0, <1>4 DEF Save, PageType, Fields
  <2>2. stored' \subseteq Events  BY <1>0a, <1>4, <2>1 DEF Save
  <2>3. page' = [page EXCEPT ![t] = q]  BY <1>4 DEF Save
  <2> HIDE DEF q
  <2> QED BY <1>4, <2>1, <2>2, <2>3, Repaged DEF Save
<1>5. CASE Reload(t)
  <2>1. PageType(Opened(p.loads + 1))  BY <1>0, OpenedType DEF PageType
  <2>2. Opened(p.loads + 1).conn = "none"  BY DEF Opened
  <2> QED BY <1>0a, <1>5, <2>1, <2>2, Silent, Retyped DEF Reload
<1>6. CASE Send(t)
  <2> DEFINE q == [p EXCEPT !.sending = TRUE, !.status = "running", !.told = {}, !.turns = @ + 1, !.conn = "posting"]
  <2>1. PageType(q) /\ q.conn = "posting" /\ p.conn = "none"  BY <1>0, <1>6 DEF Send, PageType, Fields
  <2>2. page' = [page EXCEPT ![t] = q]  BY <1>6 DEF Send
  <2>3. unheard' \in [Tabs -> BOOLEAN]  BY <1>0a, <1>6 DEF Send
  <2> HIDE DEF q
  <2> QED BY <1>0, <1>0a, <1>6, <2>1, <2>2, <2>3, Retyped DEF Send
<1>7. CASE Refuse(t)
  <2>1. PageType(Failed(p)) /\ Failed(p).conn = "none"  BY <1>0, FailedType
  <2>2. unheard' \in [Tabs -> BOOLEAN]  BY <1>0a, <1>7 DEF Refuse
  <2> QED BY <1>0, <1>0a, <1>7, <2>1, <2>2, Retyped DEF Refuse
<1>8. CASE Accept(t)
  <2> DEFINE q == [p EXCEPT !.conn = "open"]
  <2>1. PageType(q) /\ q.conn = "open" /\ wire[t] = <<>>  BY <1>0, <1>8 DEF Accept, PageType, Fields
  <2>2. page' = [page EXCEPT ![t] = q]  BY <1>8 DEF Accept
  <2> HIDE DEF q
  <2> QED BY <1>0, <1>0a, <1>8, <2>1, <2>2, Silent, Retyped DEF Accept
<1>9. CASE Read(t)
  <2>0. p.conn = "open" /\ wire[t] # <<>> /\ UNCHANGED <<logged, run, unheard, stored>>  BY <1>9 DEF Read
  <2> DEFINE frame == Proxied(Head(wire[t]))
             w == IF frame.kind = "error" THEN <<>> ELSE Tail(wire[t])
             q == CASE frame.kind = "error" -> Failed(p)
                    [] frame.kind = "done" -> [p EXCEPT !.told = @ \cup {"answer"}]
                    [] frame.kind = "close" -> [p EXCEPT !.conn = "closed"]
                    [] frame.kind = "message" -> Shown(p, <<t, frame.n>>)
  <2>1. page' = [page EXCEPT ![t] = q] /\ wire' = [wire EXCEPT ![t] = w]  BY <1>9 DEF Read
  <2>2. Head(wire[t]) \in FrameType  BY <1>0, <2>0
  <2>3. /\ frame.kind \in {"message", "close", "done", "error"}
        /\ frame.kind = "message" => frame.n \in 1..MaxEvents
        /\ frame.kind = "close" => Head(wire[t]).kind = "close"
    BY <2>2 DEF Proxied, Frame, FrameType
  <2>4. /\ w \in Seq(FrameType) /\ Closing(w)
        /\ run[t] = "going" => Talking(w)
        /\ frame.kind = "close" => w = <<>>
    BY <1>0, <2>0, <2>3, TailOf, Silent
  <2>5. PageType(q) /\ (q.conn # "open" => w = <<>>)
    <3>1. CASE frame.kind = "error"  BY <1>0, <3>1, FailedType
    <3>2. CASE frame.kind = "done"
      <4>1. q = [p EXCEPT !.told = @ \cup {"answer"}]  BY <3>2
      <4> DEFINE o == p.told \cup {"answer"}
      <4>2. o \subseteq {"answer", "failure"} /\ q = [p EXCEPT !.told = o]  BY <1>0, <4>1 DEF PageType
      <4> HIDE DEF o, q
      <4>3. PageType(q) /\ q.conn = "open"  BY <1>0, <2>0, <4>2 DEF PageType, Fields
      <4> QED BY <4>3
    <3>3. CASE frame.kind = "close"
      <4>1. q = [p EXCEPT !.conn = "closed"]  BY <3>3
      <4> QED BY <1>0, <2>0, <2>4, <3>3, <4>1 DEF PageType, Fields
    <3>4. CASE frame.kind = "message"
      <4>1. q = Shown(p, <<t, frame.n>>)  BY <3>4
      <4>2. <<t, frame.n>> \in Events  BY <2>3, <3>4 DEF Events
      <4> QED BY <1>0, <2>0, <4>1, <4>2, ShownType
    <3> QED BY <2>3, <3>1, <3>2, <3>3, <3>4
  <2> HIDE DEF q, w, frame
  <2> QED BY <1>0, <1>0a, <2>0, <2>1, <2>4, <2>5, Retyped
<1>10. CASE Disconnect(t)
  <2>1. PageType(Failed(p)) /\ Failed(p).conn = "none"  BY <1>0, FailedType
  <2> QED BY <1>0a, <1>10, <2>1, Silent, Retyped DEF Disconnect
<1>11. CASE Settle(t)
  <2> DEFINE q == [p EXCEPT !.sending = FALSE, !.conn = "none", !.status = "done"]
  <2>1. PageType(q) /\ q.conn = "none" /\ p.conn # "open"  BY <1>0, <1>11 DEF Settle, PageType, Fields
  <2>2. page' = [page EXCEPT ![t] = q]  BY <1>11 DEF Settle
  <2> HIDE DEF q
  <2> QED BY <1>0a, <1>11, <2>1, <2>2, Repaged DEF Settle
<1>12. CASE Emit(t)
  <2> DEFINE v == <<[kind |-> "message", n |-> logged[t] + 1]>>
             w == IF p.conn = "open" THEN wire[t] \o v ELSE wire[t]
  <2>1. logged' \in [Tabs -> 0..MaxEvents] /\ logged[t] + 1 \in 1..MaxEvents
    BY <1>0a, <1>12, ClientAssumption DEF Emit
  <2>2. v \in Seq(FrameType)  BY <2>1 DEF FrameType
  <2>3. Closing(v) /\ Talking(v)  BY DEF Closing, Talking
  <2>4. run[t] = "going" /\ wire' = [wire EXCEPT ![t] = w]  BY <1>12 DEF Emit, Heard
  <2> HIDE DEF v
  <2>5. /\ w \in Seq(FrameType) /\ Closing(w)
        /\ p.conn = "open" => Talking(w)
        /\ p.conn # "open" => w = <<>>
    BY <1>0, <2>2, <2>3, <2>4, AfterTalk
  <2> HIDE DEF w
  <2>6. page' = [page EXCEPT ![t] = p] /\ UNCHANGED <<run, unheard, stored>>  BY <1>12 DEF Emit, TypeInv
  <2> QED BY <1>0, <1>0a, <2>1, <2>4, <2>5, <2>6, Retyped
<1>13. CASE EmitUnheard(t)
  <2>1. logged' \in [Tabs -> 0..MaxEvents] /\ unheard' \in [Tabs -> BOOLEAN]
    <3>1. CASE logged[t] < MaxEvents /\ logged' = [logged EXCEPT ![t] = @ + 1] /\ UNCHANGED unheard
      <4>1. logged[t] + 1 \in 0..MaxEvents  BY <1>0a, <3>1, ClientAssumption
      <4> QED BY <1>0a, <3>1, <4>1
    <3>2. CASE unheard' = [unheard EXCEPT ![t] = FALSE] /\ UNCHANGED logged  BY <1>0a, <3>2
    <3> QED BY <1>13, <3>1, <3>2 DEF EmitUnheard
  <2>2. page' = [page EXCEPT ![t] = p] /\ UNCHANGED <<run, wire, stored>>  BY <1>13 DEF EmitUnheard, TypeInv
  <2> QED BY <1>0, <1>0a, <2>1, <2>2, Retyped
<1>14. CASE Finish(t)
  <2>1. PICK end \in Ends : run' = [run EXCEPT ![t] = end] /\ Heard(t, LastFrames(end))
    BY <1>14 DEF Finish
  <2> DEFINE v == LastFrames(end)
             w == IF p.conn = "open" THEN wire[t] \o v ELSE wire[t]
  <2>2. v \in Seq(FrameType) /\ Closing(v)  BY LastOnes
  <2>3. wire' = [wire EXCEPT ![t] = w]  BY <2>1 DEF Heard
  <2> HIDE DEF v
  <2>4. run[t] = "going" /\ end # "going"  BY <1>14 DEF Finish, Ends
  <2>5. w \in Seq(FrameType) /\ Closing(w) /\ (p.conn # "open" => w = <<>>)
    BY <1>0, <2>2, <2>4, AfterTalk
  <2> HIDE DEF w
  <2>6. page' = [page EXCEPT ![t] = p] /\ UNCHANGED <<logged, unheard, stored>>  BY <1>14 DEF Finish, TypeInv
  <2> QED BY <1>0, <1>0a, <2>1, <2>3, <2>4, <2>5, <2>6, Retyped
<1> QED BY <1>1, <1>2, <1>3, <1>4, <1>5, <1>6, <1>7, <1>8, <1>9, <1>10, <1>11, <1>12, <1>13, <1>14 DEF Step

LEMMA OthersRest ==
  ASSUME TypeInv, NEW t \in Tabs, Step(t), NEW u \in Tabs \ {t}
  PROVE  page'[u] = page[u] /\ run'[u] = run[u] /\ wire'[u] = wire[u] /\ logged'[u] = logged[u]
<1> USE DEF TypeInv
<1>1. CASE LoadHistory(t) \/ LoadMetrics(t)  BY <1>1 DEF LoadHistory, LoadMetrics
<1>2. CASE Hydrate(t)  BY <1>2 DEF Hydrate
<1>3. CASE Save(t) \/ Reload(t)  BY <1>3 DEF Save, Reload
<1>4. CASE Send(t) \/ Refuse(t) \/ Accept(t)  BY <1>4 DEF Send, Refuse, Accept
<1>5. CASE Read(t)  BY <1>5 DEF Read
<1>6. CASE Disconnect(t) \/ Settle(t)  BY <1>6 DEF Disconnect, Settle
<1>7. CASE Emit(t) \/ EmitUnheard(t)  BY <1>7 DEF Emit, EmitUnheard, Heard
<1>8. CASE Finish(t)  BY <1>8 DEF Finish, Heard
<1> QED BY <1>1, <1>2, <1>3, <1>4, <1>5, <1>6, <1>7, <1>8 DEF Step

-----------------------------------------------------------------------------
(* A page p whose run stands at r while w is on its way: as long as it     *)
(* listens, an end of the stream that says nothing can only come from a    *)
(* run that said nothing.                                                  *)
Turn(p, r, w) ==
  /\ "answer" \in p.told => r \in {"done", "done_error"}
  /\ p.conn = "posting" => p.told = {} /\ r = "none"
  /\ p.conn \in {"open", "closed"} => "failure" \notin p.told /\ r # "none"
  /\ p.conn = "closed" /\ p.told = {} => r = "silent"
  /\ p.conn = "none" /\ p.turns > 0 =>
       /\ p.status = "waiting_user" <=> "failure" \in p.told
       /\ p.told = {} => r = "silent"
  /\ p.conn = "open" =>
       /\ "done" \in Kinds(w) => r \in {"done", "done_error"}
       /\ "close" \in Kinds(w) =>
            r = "silent" \/ "answer" \in p.told \/ Kinds(w) \cap {"done", "overfull", "error"} # {}

TurnInv == \A t \in Tabs : Turn(page[t], run[t], wire[t])

LEMMA NoKinds == Kinds(<<>>) = {}
  BY DEF Kinds

LEMMA TalkKinds == ASSUME NEW w, Talking(w) PROVE Kinds(w) \subseteq {"message"}
  BY DEF Kinds, Talking

LEMMA TailKinds ==
  ASSUME NEW w \in Seq(FrameType), w # <<>>
  PROVE  Kinds(w) = {Head(w).kind} \cup Kinds(Tail(w))
<1> DEFINE v == Tail(w)
           n == Len(w)
<1>1. Len(v) = n - 1 /\ \A i \in 1..(n - 1) : v[i] = w[i + 1]  OBVIOUS
<1>2. n \in Nat \ {0} /\ Head(w) = w[1]  OBVIOUS
<1> HIDE DEF v, n
<1>3. Kinds(w) = {w[i].kind : i \in 1..n} /\ Kinds(v) = {v[i].kind : i \in 1..(n - 1)}  BY <1>1 DEF Kinds, n
<1>4. \A i \in 1..n : i = 1 \/ (i - 1 \in 1..(n - 1) /\ v[i - 1] = w[i])  BY <1>1, <1>2
<1>5. \A i \in 1..(n - 1) : i + 1 \in 1..n /\ v[i] = w[i + 1]  BY <1>1, <1>2
<1>6. 1 \in 1..n  BY <1>2
<1>7. Kinds(w) \subseteq {Head(w).kind} \cup Kinds(v)  BY <1>2, <1>3, <1>4
<1>8. {Head(w).kind} \cup Kinds(v) \subseteq Kinds(w)  BY <1>2, <1>3, <1>5, <1>6
<1> QED BY <1>7, <1>8 DEF v

LEMMA JointKinds ==
  ASSUME NEW w \in Seq(FrameType), NEW v \in Seq(FrameType)
  PROVE  Kinds(w \o v) = Kinds(w) \cup Kinds(v)
<1> DEFINE u == w \o v
<1>1. Len(u) = Len(w) + Len(v) /\ \A i \in 1..Len(u) : u[i] = IF i <= Len(w) THEN w[i] ELSE v[i - Len(w)]
  OBVIOUS
<1>2. Len(w) \in Nat /\ Len(v) \in Nat  OBVIOUS
<1> HIDE DEF u
<1>3. ASSUME NEW i \in 1..Len(u) PROVE u[i].kind \in Kinds(w) \cup Kinds(v)
  <2>1. CASE i <= Len(w)
    <3>1. i \in 1..Len(w) /\ u[i] = w[i]  BY <1>1, <1>2, <2>1
    <3> QED BY <3>1 DEF Kinds
  <2>2. CASE i > Len(w)
    <3>1. i - Len(w) \in 1..Len(v) /\ u[i] = v[i - Len(w)]  BY <1>1, <1>2, <2>2
    <3> QED BY <3>1 DEF Kinds
  <2> QED BY <1>2, <2>1, <2>2
<1>4. ASSUME NEW i \in 1..Len(w) PROVE w[i].kind \in Kinds(u)
  <2>1. i \in 1..Len(u) /\ u[i] = w[i]  BY <1>1, <1>2
  <2> QED BY <2>1 DEF Kinds
<1>5. ASSUME NEW i \in 1..Len(v) PROVE v[i].kind \in Kinds(u)
  <2>1. i + Len(w) \in 1..Len(u) /\ u[i + Len(w)] = v[i]  BY <1>1, <1>2
  <2> QED BY <2>1 DEF Kinds
<1>6. Kinds(u) \subseteq Kinds(w) \cup Kinds(v)  BY <1>3 DEF Kinds
<1>7. Kinds(w) \cup Kinds(v) \subseteq Kinds(u)  BY <1>4, <1>5 DEF Kinds
<1> QED BY <1>6, <1>7 DEF u

(* The steps of a turn keep its promise; the others do not touch it.       *)
LEMMA TurnStep == ASSUME TypeInv, TurnInv, NEW t \in Tabs, Step(t) PROVE TurnInv'
<1> DEFINE p == page[t]
<1>0. PageType(p) /\ Turn(p, run[t], wire[t]) /\ wire[t] \in Seq(FrameType) /\ t \in DOMAIN page
  BY DEF TypeInv, TurnInv
<1>a. SUFFICES Turn(page'[t], run'[t], wire'[t])
  BY OthersRest DEF TurnInv
<1>1. CASE LoadHistory(t) \/ LoadMetrics(t) \/ Hydrate(t) \/ Save(t)
  <2>1. /\ page'[t].conn = p.conn /\ page'[t].told = p.told /\ page'[t].turns = p.turns
        /\ page'[t].status = p.status /\ UNCHANGED <<run, wire>>
    <3>1. CASE LoadHistory(t)
      <4>1. PICK answered \in SUBSET Tabs :
              page' = [page EXCEPT ![t].load = "metrics", ![t].found = UNION {Of(s, logged[s]) : s \in answered},
                                   ![t].known = IF t \in answered THEN Of(t, logged[t]) ELSE {}]
        BY <3>1 DEF LoadHistory
      <4> DEFINE f == UNION {Of(s, logged[s]) : s \in answered}
                 k == IF t \in answered THEN Of(t, logged[t]) ELSE {}
      <4>2. page' = [page EXCEPT ![t].load = "metrics", ![t].found = f, ![t].known = k]  BY <4>1
      <4> HIDE DEF f, k
      <4> QED BY <1>0, <3>1, <4>2 DEF LoadHistory, PageType, Fields
    <3>2. CASE LoadMetrics(t)  BY <1>0, <3>2 DEF LoadMetrics, PageType, Fields
    <3>3. CASE Hydrate(t)  BY <1>0, <3>3 DEF Hydrate, PageType, Fields
    <3>4. CASE Save(t)  BY <1>0, <3>4 DEF Save, PageType, Fields
    <3> QED BY <1>1, <3>1, <3>2, <3>3, <3>4
  <2> QED BY <1>0, <2>1 DEF Turn
<1>5. CASE Reload(t)
  <2>1. page'[t] = Opened(p.loads + 1) /\ run' = run  BY <1>0, <1>5 DEF Reload
  <2> QED BY <2>1 DEF Turn, Opened
<1>6. CASE Send(t)
  <2>1. page'[t].conn = "posting" /\ page'[t].told = {} /\ run'[t] = "none"
    BY <1>0, <1>6 DEF Send, PageType, Fields, TypeInv
  <2> QED BY <2>1 DEF Turn
<1>7. CASE Refuse(t) \/ Disconnect(t)
  <2>1. page'[t] = Failed(p) /\ run' = run  BY <1>0, <1>7 DEF Refuse, Disconnect
  <2>2. /\ page'[t].conn = "none" /\ page'[t].told = p.told \cup {"failure"}
        /\ page'[t].status = "waiting_user"
    BY <1>0, <2>1 DEF Failed, PageType, Fields
  <2> QED BY <1>0, <2>1, <2>2 DEF Turn
<1>8. CASE Accept(t)
  <2>1. page'[t].conn = "open" /\ page'[t].told = p.told /\ run'[t] = "going" /\ wire'[t] = <<>>
    BY <1>0, <1>8 DEF Accept, PageType, Fields, TypeInv
  <2>2. p.conn = "posting"  BY <1>8 DEF Accept
  <2> QED BY <1>0, <2>1, <2>2, NoKinds DEF Turn
<1>9. CASE Read(t)
  <2> DEFINE head == Head(wire[t])
             frame == Proxied(head)
  <2>0. /\ p.conn = "open" /\ wire[t] # <<>> /\ run' = run
        /\ wire' = [wire EXCEPT ![t] = IF frame.kind = "error" THEN <<>> ELSE Tail(@)]
    BY <1>9 DEF Read
  <2> DEFINE q == CASE frame.kind = "error" -> Failed(p)
                    [] frame.kind = "done" -> [p EXCEPT !.told = @ \cup {"answer"}]
                    [] frame.kind = "close" -> [p EXCEPT !.conn = "closed"]
                    [] frame.kind = "message" -> Shown(p, <<t, frame.n>>)
  <2>q. page'[t] = q
    <3>1. page' = [page EXCEPT ![t] = q]  BY <1>9 DEF Read
    <3> HIDE DEF q
    <3> QED BY <1>0, <3>1
  <2>1. Kinds(wire[t]) = {head.kind} \cup Kinds(Tail(wire[t]))  BY <1>0, <2>0, TailKinds
  <2>2. /\ head \in FrameType
        /\ head.kind \in {"close", "broken"} => Tail(wire[t]) = <<>>
    BY <1>0, <2>0, TailOf DEF TypeInv
  <2>3. CASE head.kind \in {"error", "overfull", "broken"}
    <3>1. frame.kind = "error"  BY <2>3 DEF Proxied, Frame
    <3>2. page'[t] = Failed(p)  BY <2>q, <3>1
    <3>3. /\ page'[t].conn = "none" /\ page'[t].told = p.told \cup {"failure"}
          /\ page'[t].status = "waiting_user"
      BY <1>0, <3>2 DEF Failed, PageType, Fields
    <3> QED BY <1>0, <2>0, <3>3 DEF Turn
  <2>4. CASE head.kind = "done"
    <3>1. frame.kind = "done"  BY <2>4 DEF Proxied
    <3>2. page'[t] = [p EXCEPT !.told = @ \cup {"answer"}]  BY <2>q, <3>1
    <3>3. page'[t].conn = "open" /\ page'[t].told = p.told \cup {"answer"}
      BY <1>0, <2>0, <3>2 DEF PageType, Fields
    <3>4. wire'[t] = Tail(wire[t])  BY <2>0, <3>1 DEF TypeInv
    <3> QED BY <1>0, <2>0, <2>1, <2>4, <3>3, <3>4 DEF Turn
  <2>5. CASE head.kind = "close"
    <3>1. frame.kind = "close"  BY <2>5 DEF Proxied
    <3>2. page'[t] = [p EXCEPT !.conn = "closed"]  BY <2>q, <3>1
    <3>3. page'[t].conn = "closed" /\ page'[t].told = p.told
      BY <1>0, <3>2 DEF PageType, Fields
    <3>4. Kinds(wire[t]) = {"close"}  BY <2>1, <2>2, <2>5, NoKinds
    <3> QED BY <1>0, <2>0, <3>3, <3>4 DEF Turn
  <2>6. CASE head.kind = "message"
    <3>1. frame.kind = "message"  BY <2>6 DEF Proxied
    <3>2. page'[t] = Shown(p, <<t, frame.n>>)  BY <2>q, <3>1
    <3>3. page'[t].conn = "open" /\ page'[t].told = p.told
      BY <1>0, <2>0, <3>2 DEF Shown, PageType, Fields
    <3>4. wire'[t] = Tail(wire[t])  BY <2>0, <3>1 DEF TypeInv
    <3> QED BY <1>0, <2>0, <2>1, <2>6, <3>3, <3>4 DEF Turn
  <2> QED BY <2>2, <2>3, <2>4, <2>5, <2>6 DEF FrameType
<1>11. CASE Settle(t)
  <2>1. /\ page'[t].conn = "none" /\ page'[t].told = p.told /\ page'[t].status = "done"
        /\ p.conn = "closed" /\ run' = run
    BY <1>0, <1>11 DEF Settle, PageType, Fields
  <2> QED BY <1>0, <2>1 DEF Turn
<1>12. CASE Emit(t)
  <2> DEFINE v == <<[kind |-> "message", n |-> logged[t] + 1]>>
  <2>1. page' = page /\ run' = run /\ run[t] = "going"  BY <1>12 DEF Emit
  <2>2. CASE p.conn = "open"
    <3>1. wire'[t] = wire[t] \o v  BY <1>12, <2>2 DEF Emit, Heard, TypeInv
    <3>2. logged[t] + 1 \in 1..MaxEvents  BY <1>12, ClientAssumption DEF Emit, TypeInv
    <3>3. v \in Seq(FrameType) /\ Talking(v)  BY <3>2 DEF FrameType, Talking
    <3> HIDE DEF v
    <3>4. Talking(wire[t])  BY <2>1, <2>2 DEF TypeInv
    <3>5. Kinds(wire'[t]) \subseteq {"message"}  BY <1>0, <3>1, <3>3, <3>4, JointKinds, TalkKinds
    <3> QED BY <1>0, <2>1, <2>2, <3>5 DEF Turn
  <2>3. CASE p.conn # "open"
    <3> QED BY <1>0, <2>1, <2>3 DEF Turn
  <2> QED BY <2>2, <2>3
<1>13. CASE EmitUnheard(t)
  BY <1>0, <1>13 DEF EmitUnheard
<1>14. CASE Finish(t)
  <2>0. page' = page /\ run[t] = "going" /\ p.told \subseteq {"answer", "failure"}
    BY <1>0, <1>14 DEF Finish, PageType
  <2>1. PICK end \in Ends : run' = [run EXCEPT ![t] = end] /\ Heard(t, LastFrames(end))
    BY <1>14 DEF Finish
  <2> DEFINE v == LastFrames(end)
  <2>2. run'[t] = end  BY <2>1 DEF TypeInv
  <2>3. CASE p.conn # "open"
    BY <1>0, <2>0, <2>2, <2>3 DEF Turn, Ends
  <2>4. CASE p.conn = "open"
    <3>1. wire'[t] = wire[t] \o v  BY <2>1, <2>4 DEF Heard, TypeInv
    <3>2. Kinds(wire[t]) \subseteq {"message"}  BY <2>0, <2>4, TalkKinds DEF TypeInv
    <3>3. v \in Seq(FrameType) /\ Tells(Kinds(v), end)  BY LastOnes
    <3> HIDE DEF v
    <3>4. Kinds(wire'[t]) = Kinds(wire[t]) \cup Kinds(v)  BY <1>0, <3>1, <3>3, JointKinds
    <3> QED BY <1>0, <2>0, <2>2, <2>4, <3>2, <3>3, <3>4 DEF Turn, Tells, Ends
  <2> QED BY <2>3, <2>4
<1> QED BY <1>1, <1>5, <1>6, <1>7, <1>8, <1>9, <1>11, <1>12, <1>13, <1>14 DEF Step

-----------------------------------------------------------------------------
(* All that the backend has stored.                                        *)
Log == UNION {Of(s, logged[s]) : s \in Tabs}

(* Each message on its way has been stored, has not been heard, and comes  *)
(* once.                                                                   *)
Fresh(t, w, h, m) ==
  \A i \in 1..Len(w) : w[i].kind = "message" =>
    /\ w[i].n \in 1..m
    /\ <<t, w[i].n>> \notin h
    /\ \A j \in 1..(i - 1) : w[j].kind = "message" => w[j].n # w[i].n

(* Until the trace is loaded a page shows what it heard; from then on what *)
(* it shows of its own session was loaded or heard.                        *)
Loading(p) ==
  /\ p.load = "history" => p.known = {}
  /\ p.load \in {"metrics", "storage"} => p.known \subseteq p.found
  /\ p.load # "ready" =>
       /\ BagToSet(p.trace) = p.heard
       /\ p.early = p.heard
       /\ \A e \in p.heard : p.trace[e] = 1

Loaded(t, p) ==
  p.load = "ready" =>
    /\ p.heard \ BagToSet(p.trace) \subseteq p.early \ p.known
    /\ \A e \in BagToSet(p.trace) : p.trace[e] > 1 => e \in p.past \ p.early
    /\ BagToSet(p.trace) \cap ({t} \X Nat) \subseteq p.past \cup p.heard

Gap(t, p, w, m, L) ==
  /\ p.heard \subseteq Of(t, m)
  /\ BagToSet(p.trace) \subseteq L
  /\ p.found \subseteq L
  /\ \A i \in 1..Len(p.saves) : p.saves[i] \subseteq L
  /\ p.early \subseteq p.heard
  /\ Loading(p)
  /\ Loaded(t, p)
  /\ Fresh(t, w, p.heard, m)

GapInv == stored \subseteq Log /\ \A t \in Tabs : Gap(t, page[t], wire[t], logged[t], Log)

(* The backend only adds to what it has stored.                            *)
LEMMA GapMono ==
  ASSUME NEW t, NEW p, NEW w, NEW m \in Nat, NEW L, Gap(t, p, w, m, L),
         NEW n \in Nat, m <= n, NEW M, L \subseteq M
  PROVE  Gap(t, p, w, n, M)
<1>1. Of(t, m) \subseteq Of(t, n)  BY DEF Of
<1>2. Fresh(t, w, p.heard, n)  BY DEF Gap, Fresh
<1> QED BY <1>1, <1>2 DEF Gap

(* The fields of a page that matter here.                                  *)
Alike(p, q) ==
  /\ q.heard = p.heard /\ q.trace = p.trace /\ q.found = p.found /\ q.saves = p.saves
  /\ q.early = p.early /\ q.known = p.known /\ q.past = p.past /\ q.load = p.load

LEMMA GapAlike ==
  ASSUME NEW t, NEW p, NEW w, NEW m, NEW L, Gap(t, p, w, m, L), NEW q, Alike(p, q), NEW v, Fresh(t, v, p.heard, m)
  PROVE  Gap(t, q, v, m, L)
BY DEF Gap, Alike, Loading, Loaded

LEMMA NoneFresh == ASSUME NEW t, NEW h, NEW m PROVE Fresh(t, <<>>, h, m)
  BY DEF Fresh

LEMMA TailFresh ==
  ASSUME NEW t, NEW h, NEW m \in Nat, NEW w \in Seq(FrameType), w # <<>>, Fresh(t, w, h, m)
  PROVE  /\ Fresh(t, Tail(w), h, m)
         /\ Head(w).kind = "message" =>
              /\ Head(w).n \in 1..m /\ <<t, Head(w).n>> \notin h
              /\ Fresh(t, Tail(w), h \cup {<<t, Head(w).n>>}, m)
<1> DEFINE v == Tail(w)
           n == Len(w)
<1>1. Len(v) = n - 1 /\ \A i \in 1..(n - 1) : v[i] = w[i + 1]  OBVIOUS
<1>2. n \in Nat \ {0} /\ Head(w) = w[1]  OBVIOUS
<1>3. \A i \in 1..n : w[i].kind = "message" =>
        /\ w[i].n \in 1..m /\ <<t, w[i].n>> \notin h
        /\ \A j \in 1..(i - 1) : w[j].kind = "message" => w[j].n # w[i].n
  BY DEF Fresh
<1> HIDE DEF v, n
<1>4. \A i \in 1..(n - 1) : v[i].kind = "message" =>
        /\ v[i].n \in 1..m /\ <<t, v[i].n>> \notin h
        /\ \A j \in 1..(i - 1) : v[j].kind = "message" => v[j].n # v[i].n
        /\ w[1].kind = "message" => w[1].n # v[i].n
  <2> SUFFICES ASSUME NEW i \in 1..(n - 1), v[i].kind = "message"
               PROVE  /\ v[i].n \in 1..m /\ <<t, v[i].n>> \notin h
                      /\ \A j \in 1..(i - 1) : v[j].kind = "message" => v[j].n # v[i].n
                      /\ w[1].kind = "message" => w[1].n # v[i].n
    OBVIOUS
  <2>1. i + 1 \in 1..n /\ v[i] = w[i + 1] /\ 1 \in 1..((i + 1) - 1)  BY <1>1, <1>2
  <2>2. \A j \in 1..(i - 1) : j + 1 \in 1..((i + 1) - 1) /\ v[j] = w[j + 1]  BY <1>1, <1>2
  <2> QED BY <1>3, <2>1, <2>2
<1>5. Fresh(t, v, h, m)  BY <1>1, <1>4 DEF Fresh
<1>6. ASSUME w[1].kind = "message"
      PROVE  w[1].n \in 1..m /\ <<t, w[1].n>> \notin h /\ Fresh(t, v, h \cup {<<t, w[1].n>>}, m)
  <2>1. w[1].n \in 1..m /\ <<t, w[1].n>> \notin h  BY <1>2, <1>3, <1>6
  <2> QED BY <1>1, <1>4, <1>6, <2>1 DEF Fresh
<1> QED BY <1>2, <1>5, <1>6 DEF v

LEMMA JointFresh ==
  ASSUME NEW t, NEW h, NEW m \in Nat, NEW w \in Seq(FrameType), Fresh(t, w, h, m), NEW v \in Seq(FrameType),
         \A i \in 1..Len(v) : v[i].kind = "message" => i = 1 /\ v[i].n = m + 1 /\ <<t, m + 1>> \notin h,
         NEW n \in {m, m + 1}, (\E i \in 1..Len(v) : v[i].kind = "message") => n = m + 1
  PROVE  Fresh(t, w \o v, h, n)
<1> DEFINE u == w \o v
<1>1. Len(u) = Len(w) + Len(v) /\ \A i \in 1..Len(u) : u[i] = IF i <= Len(w) THEN w[i] ELSE v[i - Len(w)]
  OBVIOUS
<1>2. Len(w) \in Nat /\ Len(v) \in Nat  OBVIOUS
<1> HIDE DEF u
<1> SUFFICES ASSUME NEW i \in 1..Len(u), u[i].kind = "message"
             PROVE  /\ u[i].n \in 1..n
                    /\ <<t, u[i].n>> \notin h
                    /\ \A j \in 1..(i - 1) : u[j].kind = "message" => u[j].n # u[i].n
  BY DEF Fresh, u
<1>3. CASE i <= Len(w)
  <2>1. i \in 1..Len(w) /\ u[i] = w[i] /\ \A j \in 1..(i - 1) : u[j] = w[j]  BY <1>1, <1>2, <1>3
  <2>2. w[i].n \in 1..m /\ <<t, w[i].n>> \notin h /\ \A j \in 1..(i - 1) : w[j].kind = "message" => w[j].n # w[i].n
    BY <2>1 DEF Fresh
  <2> QED BY <2>1, <2>2
<1>4. CASE i > Len(w)
  <2>1. i - Len(w) \in 1..Len(v) /\ u[i] = v[i - Len(w)]  BY <1>1, <1>2, <1>4
  <2>2. i - Len(w) = 1 /\ u[i].n = m + 1 /\ n = m + 1 /\ <<t, m + 1>> \notin h  BY <2>1
  <2>3. \A j \in 1..(i - 1) : j \in 1..Len(w) /\ u[j] = w[j]  BY <1>1, <1>2, <2>2
  <2>4. \A j \in 1..(i - 1) : u[j].kind = "message" => u[j].n \in 1..m  BY <2>3 DEF Fresh
  <2>5. m + 1 \in 1..(m + 1) /\ m + 1 \notin 1..m  OBVIOUS
  <2>6. u[i].n \in 1..n /\ <<t, u[i].n>> \notin h  BY <2>2, <2>5
  <2>7. \A j \in 1..(i - 1) : u[j].kind = "message" => u[j].n # u[i].n  BY <2>2, <2>4, <2>5
  <2> QED BY <2>6, <2>7
<1>5. i <= Len(w) \/ i > Len(w)  BY <1>1, <1>2
<1> QED BY <1>3, <1>4, <1>5

(* An event that arrives is new to the page, unless it was loaded.         *)
LEMMA ShownGap ==
  ASSUME NEW t, NEW p, PageType(p), p.conn = "open", NEW n \in Nat, NEW m \in Nat, n \in 1..m, NEW L, Of(t, m) \subseteq L,
         NEW w, NEW v, Gap(t, p, w, m, L), <<t, n>> \in Events, <<t, n>> \notin p.heard,
         Fresh(t, v, p.heard \cup {<<t, n>>}, m)
  PROVE  Gap(t, Shown(p, <<t, n>>), v, m, L)
<1> DEFINE e == <<t, n>>
           b == p.trace (+) SetToBag({e})
           y == IF p.load # "ready" THEN p.early \cup {e} ELSE p.early
           s == IF p.load = "ready" THEN Append(p.saves, BagToSet(b)) ELSE p.saves
           q == Shown(p, e)
           h == p.heard \cup {e}
<1>1. /\ BagToSet(b) = BagToSet(p.trace) \cup {e}
      /\ \A f \in BagToSet(p.trace) \ {e} : b[f] = p.trace[f]
      /\ e \notin BagToSet(p.trace) => b[e] = 1
  BY DEF PageType, IsABag, BagToSet, SetToBag, (+)
<1>2. q = [p EXCEPT !.trace = b, !.heard = h, !.early = y, !.saves = s]
  BY DEF Shown
<1>3. e \in Of(t, m) /\ e \in {t} \X Nat  BY DEF Of
<1>4. BagToSet(b) \subseteq L /\ h \subseteq Of(t, m) /\ y \subseteq h  BY <1>1, <1>3 DEF Gap
<1> HIDE DEF b
<1>5. \A i \in 1..Len(s) : s[i] \subseteq L
  BY <1>4 DEF Gap, PageType
<1> HIDE DEF q, s
<1>6. /\ q.trace = b /\ q.heard = h /\ q.early = y /\ q.saves = s
      /\ q.load = p.load /\ q.found = p.found /\ q.known = p.known /\ q.past = p.past
  BY <1>2 DEF PageType, Fields
<1>7. Loading(q)
  BY <1>1, <1>6 DEF Gap, Loading
<1>8. Loaded(t, q)
  <2> SUFFICES ASSUME p.load = "ready" PROVE Loaded(t, q)  BY <1>6 DEF Loaded
  <2>1. y = p.early /\ e \notin p.early  BY DEF Gap
  <2>2. h \ BagToSet(b) \subseteq p.early \ p.known  BY <1>1 DEF Gap, Loaded
  <2>3. e \in BagToSet(p.trace) => e \in p.past  BY <1>3 DEF Gap, Loaded
  <2>4. \A f \in BagToSet(b) : b[f] > 1 => f \in p.past \ p.early
    BY <1>1, <2>1, <2>3 DEF Gap, Loaded
  <2>5. BagToSet(b) \cap ({t} \X Nat) \subseteq p.past \cup h  BY <1>1 DEF Gap, Loaded
  <2> QED BY <1>6, <2>1, <2>2, <2>4, <2>5 DEF Loaded
<1> QED BY <1>4, <1>5, <1>6, <1>7, <1>8 DEF Gap, q

LEMMA LogGrows ==
  ASSUME TypeInv, NEW t \in Tabs, Step(t)
  PROVE  /\ \A u \in Tabs : logged[u] \in Nat /\ logged'[u] \in Nat /\ logged[u] <= logged'[u]
         /\ Log \subseteq Log'
<1>1. \A u \in Tabs : logged[u] \in Nat  BY ClientAssumption DEF TypeInv
<1>2. logged' = logged \/ logged' = [logged EXCEPT ![t] = @ + 1]
  BY DEF Step, LoadHistory, LoadMetrics, Hydrate, Save, Reload, Send, Refuse, Accept, Read, Disconnect, Settle,
         Emit, EmitUnheard, Finish
<1>3. \A u \in Tabs : logged'[u] \in Nat /\ logged[u] <= logged'[u]  BY <1>1, <1>2 DEF TypeInv
<1>4. \A u \in Tabs : Of(u, logged[u]) \subseteq Of(u, logged'[u])  BY <1>1, <1>3 DEF Of
<1> QED BY <1>1, <1>3, <1>4 DEF Log

(* No step of a tab loses more than the gap, or shows twice what it heard  *)
(* after the trace was loaded.                                             *)
LEMMA GapStep == ASSUME TypeInv, GapInv, NEW t \in Tabs, Step(t) PROVE GapInv'
<1> DEFINE p == page[t]
           w == wire[t]
           m == logged[t]
<1>0. /\ PageType(p) /\ t \in DOMAIN page /\ w \in Seq(FrameType)
      /\ Gap(t, p, w, m, Log) /\ m \in Nat /\ m <= MaxEvents /\ MaxEvents \in Nat
      /\ stored \subseteq Log /\ Of(t, m) \subseteq Log
      /\ Fresh(t, w, p.heard, m)
  <2>1. PageType(p) /\ t \in DOMAIN page /\ w \in Seq(FrameType)  BY DEF TypeInv
  <2>2. m \in 0..MaxEvents /\ MaxEvents \in Nat  BY ClientAssumption DEF TypeInv
  <2>3. stored \subseteq Log /\ Gap(t, p, w, m, Log)  BY DEF GapInv
  <2>4. Of(t, m) \subseteq Log  BY DEF Log
  <2>5. Fresh(t, w, p.heard, m)  BY <2>3 DEF Gap
  <2> QED BY <2>1, <2>2, <2>3, <2>4, <2>5
<1>a. SUFFICES stored' \subseteq Log' /\ Gap(t, page'[t], wire'[t], logged'[t], Log')
  <2> SUFFICES ASSUME NEW u \in Tabs \ {t} PROVE Gap(u, page'[u], wire'[u], logged'[u], Log')  BY DEF GapInv
  <2> QED BY OthersRest, LogGrows, GapMono DEF GapInv
<1>b. Log \subseteq Log' /\ (logged' = logged => Log' = Log)  BY LogGrows DEF Log
<1>1. CASE LoadHistory(t)
  <2>1. PICK answered \in SUBSET Tabs :
          page' = [page EXCEPT ![t].load = "metrics", ![t].found = UNION {Of(s, logged[s]) : s \in answered},
                               ![t].known = IF t \in answered THEN Of(t, logged[t]) ELSE {}]
    BY <1>1 DEF LoadHistory
  <2> DEFINE f == UNION {Of(s, logged[s]) : s \in answered}
             k == IF t \in answered THEN Of(t, logged[t]) ELSE {}
             q == page'[t]
  <2>2. f \subseteq Log /\ k \subseteq f  BY DEF Log
  <2>3. page' = [page EXCEPT ![t].load = "metrics", ![t].found = f, ![t].known = k]  BY <2>1
  <2> HIDE DEF f, k
  <2>4. /\ q.load = "metrics" /\ q.found = f /\ q.known = k /\ q.heard = p.heard /\ q.trace = p.trace
        /\ q.saves = p.saves /\ q.early = p.early
    BY <1>0, <2>3 DEF PageType, Fields
  <2>5. p.load = "history" /\ UNCHANGED <<logged, wire, stored>>  BY <1>1 DEF LoadHistory
  <2> HIDE DEF q
  <2>6. Gap(t, q, w, m, Log)  BY <1>0, <2>2, <2>4, <2>5 DEF Gap, Loading, Loaded
  <2> QED BY <1>0, <1>b, <2>5, <2>6 DEF q
<1>2. CASE LoadMetrics(t)
  <2> DEFINE q == page'[t]
  <2>1. /\ q.load = "storage" /\ q.found = p.found /\ q.known = p.known /\ q.heard = p.heard /\ q.trace = p.trace
        /\ q.saves = p.saves /\ q.early = p.early
    BY <1>0, <1>2 DEF LoadMetrics, PageType, Fields
  <2>2. p.load = "metrics" /\ UNCHANGED <<logged, wire, stored>>  BY <1>2 DEF LoadMetrics
  <2> HIDE DEF q
  <2>3. Gap(t, q, w, m, Log)  BY <1>0, <2>1, <2>2 DEF Gap, Loading, Loaded
  <2> QED BY <1>0, <1>b, <2>2, <2>3 DEF q
<1>3. CASE Hydrate(t)
  <2>1. PICK readable \in BOOLEAN :
          LET events == Merged(p.found, readable)
          IN page' = [page EXCEPT ![t].load = "ready", ![t].trace = SetToBag(events),
                                  ![t].saves = Append(@, events), ![t].past = Of(t, logged[t])]
    BY <1>3 DEF Hydrate
  <2> DEFINE events == Merged(p.found, readable)
             b == SetToBag(events)
             s == Append(p.saves, events)
             o == Of(t, m)
             q == page'[t]
  <2>2. p.found \subseteq events /\ events \subseteq Log  BY <1>0 DEF Merged, Gap
  <2>3. page' = [page EXCEPT ![t].load = "ready", ![t].trace = b, ![t].saves = s, ![t].past = o]  BY <2>1
  <2>4. BagToSet(b) = events /\ \A e \in events : b[e] = 1  BY DEF BagToSet, SetToBag
  <2>5. p.load = "storage" /\ UNCHANGED <<logged, wire, stored>>  BY <1>3 DEF Hydrate
  <2> HIDE DEF events, b
  <2>6. \A i \in 1..Len(s) : s[i] \subseteq Log
    <3>1. p.saves \in Seq(SUBSET Events) /\ \A i \in 1..Len(p.saves) : p.saves[i] \subseteq Log  BY <1>0 DEF PageType, Gap
    <3> QED BY <2>2, <3>1
  <2>7. events \cap ({t} \X Nat) \subseteq o
    BY <2>2 DEF Log, Of
  <2> HIDE DEF s, o
  <2>8. /\ q.load = "ready" /\ q.trace = b /\ q.saves = s /\ q.past = o
        /\ q.heard = p.heard /\ q.early = p.early /\ q.known = p.known /\ q.found = p.found
    BY <1>0, <2>3 DEF PageType, Fields
  <2> HIDE DEF q
  <2>9. Loaded(t, q)  BY <1>0, <2>2, <2>4, <2>5, <2>7, <2>8 DEF Gap, Loading, Loaded
  <2>10. Gap(t, q, w, m, Log)  BY <1>0, <2>2, <2>4, <2>6, <2>8, <2>9 DEF Gap, Loading
  <2> QED BY <1>0, <1>b, <2>5, <2>10 DEF q
<1>4. CASE Save(t)
  <2> DEFINE v == p.saves
             q == page'[t]
  <2>1. v # <<>> /\ v \in Seq(SUBSET Events) /\ \A i \in 1..Len(v) : v[i] \subseteq Log
    BY <1>0, <1>4 DEF Save, PageType, Gap
  <2> HIDE DEF v
  <2>2. Head(v) \subseteq Log /\ \A i \in 1..Len(Tail(v)) : Tail(v)[i] \subseteq Log  BY <2>1
  <2>3. page' = [page EXCEPT ![t].saves = Tail(v)] /\ (stored' = Head(v) \/ stored' = stored) /\ UNCHANGED <<logged, wire>>
    BY <1>4 DEF Save, v
  <2>4. /\ q.saves = Tail(v) /\ q.load = p.load /\ q.trace = p.trace /\ q.past = p.past
        /\ q.heard = p.heard /\ q.early = p.early /\ q.known = p.known /\ q.found = p.found
    BY <1>0, <2>3 DEF PageType, Fields
  <2> HIDE DEF q
  <2>5. Gap(t, q, w, m, Log)  BY <1>0, <2>2, <2>4 DEF Gap, Loading, Loaded
  <2> QED BY <1>0, <1>b, <2>2, <2>3, <2>5 DEF q
<1>5. CASE Reload(t)
  <2>1. page'[t] = Opened(p.loads + 1) /\ wire'[t] = <<>> /\ UNCHANGED <<logged, stored>>
    BY <1>0, <1>5 DEF Reload, TypeInv
  <2>2. \A n : Gap(t, Opened(n), <<>>, m, Log)
    BY NoneFresh DEF Opened, Gap, Loading, Loaded, EmptyBag, SetToBag, BagToSet
  <2> QED BY <1>0, <1>b, <2>1, <2>2
<1>6. CASE Send(t) \/ Accept(t) \/ Settle(t)
  <2>1. Alike(p, page'[t]) /\ UNCHANGED <<logged, wire, stored>>
    BY <1>0, <1>6 DEF Send, Accept, Settle, PageType, Fields, Alike
  <2> QED BY <1>0, <1>b, <2>1, GapAlike
<1>7. CASE Refuse(t) \/ Disconnect(t)
  <2>1. page'[t] = Failed(p) /\ (wire'[t] = w \/ wire'[t] = <<>>) /\ UNCHANGED <<logged, stored>>
    BY <1>0, <1>7 DEF Refuse, Disconnect, TypeInv
  <2>2. Alike(p, Failed(p))  BY <1>0 DEF PageType, Fields, Alike, Failed
  <2> QED BY <1>0, <1>b, <2>1, <2>2, GapAlike, NoneFresh
<1>9. CASE Read(t)
  <2> DEFINE head == Head(w)
             frame == Proxied(head)
             q == CASE frame.kind = "error" -> Failed(p)
                    [] frame.kind = "done" -> [p EXCEPT !.told = @ \cup {"answer"}]
                    [] frame.kind = "close" -> [p EXCEPT !.conn = "closed"]
                    [] frame.kind = "message" -> Shown(p, <<t, frame.n>>)
  <2>0. /\ p.conn = "open" /\ w # <<>> /\ UNCHANGED <<logged, stored>>
        /\ wire' = [wire EXCEPT ![t] = IF frame.kind = "error" THEN <<>> ELSE Tail(@)]
    BY <1>9 DEF Read
  <2>q. page'[t] = q
    <3>1. page' = [page EXCEPT ![t] = q]  BY <1>9 DEF Read
    <3> HIDE DEF q
    <3> QED BY <1>0, <3>1
  <2>w. wire'[t] = IF frame.kind = "error" THEN <<>> ELSE Tail(w)  BY <2>0 DEF TypeInv
  <2>2. head \in FrameType  BY <1>0, <2>0
  <2>f. /\ Fresh(t, Tail(w), p.heard, m)
        /\ head.kind = "message" =>
             /\ head.n \in 1..m /\ <<t, head.n>> \notin p.heard
             /\ Fresh(t, Tail(w), p.heard \cup {<<t, head.n>>}, m)
    BY <1>0, <2>0, TailFresh
  <2>l. logged'[t] = m /\ Log' = Log /\ stored' \subseteq Log'  BY <1>0, <1>b, <2>0
  <2>3. CASE head.kind \in {"error", "overfull", "broken"}
    <3>1. frame.kind = "error"  BY <2>3 DEF Proxied, Frame
    <3>2. page'[t] = Failed(p)  BY <2>q, <3>1
    <3>3. Alike(p, Failed(p))  BY <1>0 DEF PageType, Fields, Alike, Failed
    <3> QED BY <1>0, <2>l, <2>w, <3>1, <3>2, <3>3, GapAlike, NoneFresh
  <2>4. CASE head.kind \in {"done", "close"}
    <3>1. frame.kind = head.kind  BY <2>4 DEF Proxied
    <3>2. page'[t] = [p EXCEPT !.told = @ \cup {"answer"}] \/ page'[t] = [p EXCEPT !.conn = "closed"]
      BY <2>4, <2>q, <3>1
    <3>3. Alike(p, page'[t])  BY <1>0, <3>2 DEF PageType, Fields, Alike
    <3> QED BY <1>0, <2>4, <2>f, <2>l, <2>w, <3>1, <3>3, GapAlike
  <2>6. CASE head.kind = "message"
    <3>1. frame = head  BY <2>6 DEF Proxied
    <3>2. page'[t] = Shown(p, <<t, head.n>>)  BY <2>6, <2>q, <3>1
    <3>3. <<t, head.n>> \in Events /\ head.n \in Nat  BY <1>0, <2>6, <2>f DEF Events
    <3>4. wire'[t] = Tail(w)  BY <2>6, <2>w, <3>1
    <3>5. Gap(t, Shown(p, <<t, head.n>>), Tail(w), m, Log)
      BY <1>0, <2>0, <2>6, <2>f, <3>3, ShownGap
    <3> QED BY <2>l, <3>2, <3>4, <3>5
  <2> QED BY <2>2, <2>3, <2>4, <2>6 DEF FrameType
<1>12. CASE Emit(t)
  <2> DEFINE v == <<[kind |-> "message", n |-> m + 1]>>
  <2>1. page' = page /\ stored' = stored /\ logged'[t] = m + 1 /\ m + 1 \in 1..MaxEvents
    BY <1>0, <1>12 DEF Emit, TypeInv
  <2>2. v \in Seq(FrameType)  BY <2>1 DEF FrameType
  <2>3. wire'[t] = w \/ wire'[t] = w \o v  BY <1>0, <1>12 DEF Emit, Heard, TypeInv
  <2>4. <<t, m + 1>> \notin p.heard  BY <1>0 DEF Gap, Of
  <2>5. \A i \in 1..Len(v) : i = 1 /\ v[i].n = m + 1  OBVIOUS
  <2> HIDE DEF v
  <2>6. Fresh(t, w \o v, p.heard, m + 1)  BY <1>0, <2>2, <2>4, <2>5, JointFresh
  <2>7. Gap(t, p, w, m + 1, Log')  BY <1>0, <1>b, GapMono
  <2>8. Gap(t, p, w \o v, m + 1, Log')  BY <2>6, <2>7 DEF Gap
  <2> QED BY <1>0, <1>b, <2>1, <2>3, <2>7, <2>8
<1>13. CASE EmitUnheard(t)
  <2>1. page' = page /\ wire' = wire /\ stored' = stored  BY <1>13 DEF EmitUnheard
  <2> QED BY <1>0, <1>b, <2>1, LogGrows, GapMono
<1>14. CASE Finish(t)
  <2>0. page' = page /\ UNCHANGED <<logged, stored>>  BY <1>14 DEF Finish
  <2>1. PICK end \in Ends : Heard(t, LastFrames(end))  BY <1>14 DEF Finish
  <2> DEFINE v == LastFrames(end)
  <2>2. wire'[t] = w \/ wire'[t] = w \o v  BY <1>0, <2>1 DEF Heard, TypeInv
  <2>3. v \in Seq(FrameType) /\ "message" \notin Kinds(v)  BY LastOnes DEF Tells
  <2> HIDE DEF v
  <2>4. Fresh(t, w \o v, p.heard, m)  BY <1>0, <2>3, JointFresh DEF Kinds
  <2>5. Gap(t, p, w \o v, m, Log)  BY <1>0, <2>4 DEF Gap
  <2> QED BY <1>0, <1>b, <2>0, <2>2, <2>5
<1> QED BY <1>1, <1>2, <1>3, <1>4, <1>5, <1>6, <1>7, <1>9, <1>12, <1>13, <1>14 DEF Step

-----------------------------------------------------------------------------
IInv == TypeInv /\ TurnInv /\ GapInv

LEMMA InvInit == Init => IInv
<1> SUFFICES ASSUME Init PROVE IInv  OBVIOUS
<1>1. TypeInv  BY TypeInit
<1>2. TurnInv  BY NoKinds DEF Init, Opened, TurnInv, Turn
<1>3. GapInv
  <2>1. \A t, L : Gap(t, Opened(1), <<>>, 0, L)
    BY NoneFresh DEF Opened, Gap, Loading, Loaded, EmptyBag, SetToBag, BagToSet
  <2>2. \A t \in Tabs : page[t] = Opened(1) /\ wire[t] = <<>> /\ logged[t] = 0  BY DEF Init
  <2> QED BY <2>1, <2>2 DEF Init, GapInv
<1> QED BY <1>1, <1>2, <1>3 DEF IInv

LEMMA InvNext == IInv /\ [Next]_vars => IInv'
<1> SUFFICES ASSUME IInv, [Next]_vars PROVE IInv'  OBVIOUS
<1>1. ASSUME NEW t \in Tabs, Step(t) PROVE IInv'
  BY <1>1, TypeStep, TurnStep, GapStep DEF IInv
<1>2. CASE UNCHANGED vars
  BY <1>2 DEF vars, IInv, TypeInv, TurnInv, GapInv, Log
<1> QED BY <1>1, <1>2 DEF Next

(* The three parts together are inductive, whatever tabs, backend and      *)
(* network of use-chat-runtime.ts do.                                      *)
THEOREM Inductive == Spec => []IInv
  BY InvInit, InvNext, PTL DEF Spec

LEMMA TypeGiven == IInv => TypeOK
  BY DEF IInv, TypeInv, PageType, TypeOK

LEMMA TurnGiven == IInv => EachTurnIsTold
  BY DEF IInv, TypeInv, PageType, TurnInv, Turn, EachTurnIsTold

LEMMA GapGiven == IInv => OnlyTheGapIsLost
  BY DEF IInv, TypeInv, PageType, GapInv, Gap, Loading, Loaded, OnlyTheGapIsLost

(* use-chat-runtime.ts: pages, frames and the shared trace have their      *)
(* types, and a page without a connection has no frame to come.            *)
THEOREM TypeCorrect == Spec => []TypeOK
  BY Inductive, TypeGiven, PTL

(* chat-stream-action.ts: each turn that has ended told its user how, but  *)
(* for the one the backend closed without a word, and told no answer that  *)
(* its run did not give.                                                   *)
THEOREM EachTurnIsToldHolds == Spec => []EachTurnIsTold
  BY Inductive, TurnGiven, PTL

(* use-chat-runtime.ts, the loading of the trace: a page loses only events *)
(* that came in the gap, and shows only those twice that came after it.    *)
THEOREM OnlyTheGapIsLostHolds == Spec => []OnlyTheGapIsLost
  BY Inductive, GapGiven, PTL
=============================================================================
