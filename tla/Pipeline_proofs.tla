--------------------------- MODULE Pipeline_proofs ---------------------------
(***************************************************************************)
(* Every plan the planner makes can be carried out, for any prompt and any *)
(* reply of the model; what its nodes return, fail or not, has words and   *)
(* sources that were found, said or invented, and what ResearchSkill cites *)
(* was not invented; so that an answer shows no error, and one that        *)
(* nothing bears out is shown under a notice.                              *)
(***************************************************************************)
EXTENDS Pipeline, SearchProviders_proofs

-----------------------------------------------------------------------------
(* What Append makes of a sequence.                                        *)
LEMMA ListedAppend ==
  ASSUME NEW s, Listed(s), NEW e
  PROVE  /\ Listed(Append(s, e))
         /\ Len(Append(s, e)) = Len(s) + 1
         /\ DOMAIN Append(s, e) = 1..(Len(s) + 1)
         /\ \A i \in 1..Len(s) : Append(s, e)[i] = s[i]
         /\ Append(s, e)[Len(s) + 1] = e
<1> DEFINE S == {s[i] : i \in DOMAIN s} \cup {e}
           t == Append(s, e)
<1>1. s \in Seq(S) /\ e \in S
  <2>1. s \in [1..Len(s) -> S]  BY ListedFacts DEF Listed
  <2> QED BY <2>1, ListedFacts, SeqDef
<1>2. /\ t \in Seq(S) /\ Len(t) = Len(s) + 1
      /\ \A i \in 1..Len(s) : t[i] = s[i]
      /\ t[Len(s) + 1] = e
  BY <1>1, AppendProperties
<1>3. DOMAIN t = 1..(Len(s) + 1) /\ t \in [1..(Len(s) + 1) -> S]  BY <1>2, LenProperties
<1>4. Len(s) + 1 \in Nat  BY ListedFacts
<1>5. t = [i \in 1..(Len(s) + 1) |-> t[i]]  BY <1>3
<1>6. Listed(t)  BY <1>4, <1>5, Listing
<1> QED BY <1>2, <1>3, <1>6

(* The least of some numbers up to another.                                *)
LEMMA LeastOf ==
  ASSUME NEW n \in Nat, NEW S \in SUBSET (1..n), S # {}
  PROVE  Min(S) \in S /\ \A k \in S : Min(S) <= k
<1>1. S \in SUBSET Int  OBVIOUS
<1>2. IsFiniteSet(1..n)  BY FS_Interval
<1>3. IsFiniteSet(S)  BY <1>2, FS_Subset
<1> QED BY <1>1, <1>3, MinOf

-----------------------------------------------------------------------------
(* Plans.                                                                  *)

(* Nodes with names of their own, that need only nodes of the plan, and of *)
(* which no group waits for itself.                                        *)
Shaped(plan) ==
  /\ Listed(plan)
  /\ \A i, j \in DOMAIN plan : plan[i].id = plan[j].id => i = j
  /\ \A i \in DOMAIN plan : plan[i].deps \subseteq P!Ids(plan)
  /\ \A S \in (SUBSET P!Ids(plan)) \ {{}} : \E i \in DOMAIN plan : plan[i].id \in S /\ plan[i].deps \cap S = {}
  /\ P!Skills(plan) \subseteq Registered
  /\ \A i \in DOMAIN plan : DOMAIN plan[i] = {"id", "skill", "text", "tool", "deps"}

(* The empty plan.                                                         *)
LEMMA NoNodes == Shaped(<<>>) /\ P!Ids(<<>>) = {} /\ Len(<<>>) = 0
<1>1. Listed(<<>>)  BY DEF Listed
<1>2. DOMAIN <<>> = {}  OBVIOUS
<1>3. P!Ids(<<>>) = {} /\ P!Skills(<<>>) = {}  BY <1>2 DEF P!Ids, P!Skills
<1>4. Len(<<>>) = 0  OBVIOUS
<1>5. \A S \in SUBSET {} : S = {}  OBVIOUS
<1> QED BY <1>1, <1>2, <1>3, <1>4, <1>5 DEF Shaped

(* A node behind all those it needs.                                       *)
LEMMA Extended ==
  ASSUME NEW s, Shaped(s), NEW e, e.id \notin P!Ids(s), e.deps \subseteq P!Ids(s), e.skill \in Registered,
         DOMAIN e = {"id", "skill", "text", "tool", "deps"}
  PROVE  /\ Shaped(Append(s, e))
         /\ P!Ids(Append(s, e)) = P!Ids(s) \cup {e.id}
<1> DEFINE t == Append(s, e)
           n == Len(s)
<1>1. Listed(s)  BY DEF Shaped
<1>2. n \in Nat /\ DOMAIN s = 1..n  BY <1>1, ListedFacts
<1>3. /\ Listed(t) /\ DOMAIN t = 1..(n + 1)
      /\ \A i \in 1..n : t[i] = s[i]
      /\ t[n + 1] = e
  BY <1>1, ListedAppend
<1> HIDE DEF t, n
<1>4. 1..(n + 1) = (1..n) \cup {n + 1} /\ n + 1 \notin 1..n  BY <1>2
<1>5. P!Ids(t) = P!Ids(s) \cup {e.id}  BY <1>2, <1>3, <1>4 DEF P!Ids
<1>6. P!Skills(t) \subseteq Registered  BY <1>2, <1>3, <1>4 DEF P!Skills, Shaped
<1>7. ASSUME NEW i \in DOMAIN t, NEW j \in DOMAIN t, t[i].id = t[j].id  PROVE i = j
  <2>1. \A k \in 1..n : s[k].id # e.id  BY <1>2 DEF P!Ids
  <2>2. \A k, l \in 1..n : s[k].id = s[l].id => k = l  BY <1>2 DEF Shaped
  <2> QED BY <1>3, <1>4, <1>7, <2>1, <2>2
<1>8. \A i \in DOMAIN t : t[i].deps \subseteq P!Ids(t)
  <2>1. \A i \in 1..n : s[i].deps \subseteq P!Ids(s)  BY <1>2 DEF Shaped
  <2> QED BY <1>3, <1>4, <1>5, <2>1
<1>9. ASSUME NEW S \in (SUBSET P!Ids(t)) \ {{}}
      PROVE  \E i \in DOMAIN t : t[i].id \in S /\ t[i].deps \cap S = {}
  <2>1. CASE S \subseteq {e.id}
    <3>0. PICK x \in S : TRUE  OBVIOUS
    <3>1. S = {e.id}  BY <2>1, <3>0
    <3>2. e.deps \cap S = {}  BY <3>1
    <3>3. n + 1 \in DOMAIN t /\ t[n + 1] = e  BY <1>3, <1>4
    <3> QED BY <3>1, <3>2, <3>3
  <2>2. CASE ~(S \subseteq {e.id})
    <3> DEFINE T == S \ {e.id}
    <3>1. T \in (SUBSET P!Ids(s)) \ {{}}  BY <1>5, <2>2
    <3>2. PICK i \in DOMAIN s : s[i].id \in T /\ s[i].deps \cap T = {}  BY <3>1 DEF Shaped
    <3>3. s[i].deps \subseteq P!Ids(s)  BY DEF Shaped
    <3>4. i \in DOMAIN t /\ t[i] = s[i]  BY <1>2, <1>3, <1>4
    <3> QED BY <3>2, <3>3, <3>4
  <2> QED BY <2>1, <2>2
<1>10. \A i \in DOMAIN t : DOMAIN t[i] = {"id", "skill", "text", "tool", "deps"}
  <2>1. \A i \in 1..n : DOMAIN s[i] = {"id", "skill", "text", "tool", "deps"}  BY <1>2 DEF Shaped
  <2> QED BY <1>3, <1>4, <2>1
<1> QED BY <1>3, <1>5, <1>6, <1>7, <1>8, <1>9, <1>10 DEF Shaped, t

(* A sequence whose elements have names of their own.                      *)
Apart(s) == Listed(s) /\ \A i, j \in DOMAIN s : s[i].id = s[j].id => i = j

(* Its elements are as many as the names.                                  *)
LEMMA Named ==
  ASSUME NEW s, Apart(s)
  PROVE  Cardinality({s[i].id : i \in DOMAIN s}) = Len(s)
<1> DEFINE f == [i \in 1..Len(s) |-> s[i].id]
           ids == {s[i].id : i \in DOMAIN s}
<1>1. Len(s) \in Nat /\ DOMAIN s = 1..Len(s)  BY ListedFacts DEF Apart
<1>2. f \in Bijection(1..Len(s), ids)
  <2>1. f \in [1..Len(s) -> ids]  BY <1>1
  <2>2. \A i, j \in 1..Len(s) : f[i] = f[j] => i = j  BY <1>1 DEF Apart
  <2>3. \A x \in ids : \E i \in 1..Len(s) : f[i] = x  BY <1>1
  <2> QED BY <2>1, <2>2, <2>3 DEF Bijection, Injection, Surjection, IsInjective
<1>3. ExistsBijection(1..Len(s), ids)  BY <1>2 DEF ExistsBijection
<1> QED BY <1>1, <1>3, FS_CountingElements

-----------------------------------------------------------------------------
(* The plans that fit a kind of prompt.                                    *)

(* One node ends the plan and hears, through others, of all of them.       *)
Concluded(plan) ==
  /\ ~({"synthesis", "fusion"} \subseteq P!Ids(plan))
  /\ Len(plan) > 1 =>
       \E last \in {"synthesis", "fusion"} \cap P!Ids(plan) :
         \A S \in SUBSET P!Ids(plan) :
           last \in S /\ (\A i \in DOMAIN plan : plan[i].id \in S => plan[i].deps \subseteq S) => S = P!Ids(plan)

(* A shaped plan with these names.                                         *)
Spelled(plan, ids) == Shaped(plan) /\ P!Ids(plan) = ids

(* A registered skill, and the fields of a node.                           *)
Fit(e) == e.skill \in Registered /\ DOMAIN e = {"id", "skill", "text", "tool", "deps"}

(* A plan of one node, and of one more than another plan.                  *)
LEMMA Begun ==
  ASSUME NEW e, Fit(e), e.deps = {}
  PROVE  Spelled(<<e>>, {e.id})
<1>1. <<e>> = Append(<<>>, e)  OBVIOUS
<1>2. P!Ids(<<>>) \cup {e.id} = {e.id}  BY NoNodes
<1>3. Shaped(Append(<<>>, e)) /\ P!Ids(Append(<<>>, e)) = {e.id}  BY <1>2, NoNodes, Extended DEF Fit
<1> QED BY <1>1, <1>3 DEF Spelled

LEMMA Stepped ==
  ASSUME NEW s, NEW ids, Spelled(s, ids), NEW e, Fit(e), e.id \notin ids, e.deps \subseteq ids
  PROVE  Spelled(Append(s, e), ids \cup {e.id})
  BY Extended DEF Spelled, Fit

(* The answer alone.                                                       *)
LEMMA DirectShaped == ASSUME NEW t PROVE Shaped(P!DirectPlan(t)) /\ Concluded(P!DirectPlan(t))
<1> DEFINE a == P!Node("task-1", "general_answer", t, P!Unset, {})
<1>1. P!DirectPlan(t) = <<a>>  BY DEF P!DirectPlan, P!Step
<1>2. Fit(a) /\ a.id = "task-1" /\ a.deps = {}  BY DEF P!Node, Fit, Registered
<1> HIDE DEF a
<1>3. Shaped(<<a>>) /\ P!Ids(<<a>>) = {"task-1"}  BY <1>2, Begun DEF Spelled
<1>4. Len(<<a>>) = 1  OBVIOUS
<1> QED BY <1>1, <1>3, <1>4 DEF Concluded

(* One node, and the synthesis of what it returns.                         *)
LEMMA PairShaped ==
  ASSUME NEW a, Fit(a), a.id = "task-1", a.deps = {}
  PROVE  LET p == <<a, P!Synthesis({"task-1"})>> IN Shaped(p) /\ Concluded(p)
<1> DEFINE b == P!Synthesis({"task-1"})
           p1 == <<a>>
           p2 == <<a, b>>
<1>1. Fit(b) /\ b.id = "synthesis" /\ b.deps = {"task-1"}  BY DEF P!Synthesis, P!Step, P!Node, Fit, Registered
<1> HIDE DEF b
<1>2. p2 = Append(p1, b)  OBVIOUS
<1>3. DOMAIN p2 = 1..2 /\ p2[1] = a /\ p2[2] = b  OBVIOUS
<1>4. Spelled(p1, {"task-1"})  BY Begun
<1> HIDE DEF p1, p2
<1>5. Spelled(p2, {"task-1"} \cup {"synthesis"})
  BY <1>1, <1>2, <1>4, Stepped
<1>6. Concluded(p2)
  <2>1. SUFFICES ASSUME NEW S \in SUBSET P!Ids(p2), "synthesis" \in S,
                        \A i \in DOMAIN p2 : p2[i].id \in S => p2[i].deps \subseteq S
                 PROVE  S = P!Ids(p2)
    BY <1>5 DEF Concluded, Spelled
  <2>2. \A n \in {a, b} : n.id \in S => n.deps \subseteq S  BY <1>3, <2>1
  <2>3. {"task-1"} \subseteq S  BY <1>1, <2>1, <2>2
  <2>4. P!Ids(p2) = {"task-1"} \cup {"synthesis"}  BY <1>5 DEF Spelled
  <2> QED BY <2>1, <2>3, <2>4
<1> QED BY <1>5, <1>6 DEF Spelled, p2, b

(* The weather, a price, anything that is looked up.                       *)
LEMMA LookupsShaped ==
  ASSUME NEW t
  PROVE  /\ Shaped(P!WeatherPlan(t)) /\ Concluded(P!WeatherPlan(t))
         /\ Shaped(P!PricePlan(t)) /\ Concluded(P!PricePlan(t))
         /\ Shaped(P!LookupPlan(t)) /\ Concluded(P!LookupPlan(t))
<1>1. ASSUME NEW skill \in {"research", "finance"}, NEW tool
      PROVE  LET n == P!Node("task-1", skill, t, tool, {}) IN Fit(n) /\ n.id = "task-1" /\ n.deps = {}
  BY DEF Fit, Registered, P!Node
<1> QED BY <1>1, PairShaped DEF P!WeatherPlan, P!PricePlan, P!LookupPlan

(* Two paths and their fusion.                                             *)
LEMMA AmbiguousShaped == ASSUME NEW t PROVE Shaped(P!AmbiguousPlan(t)) /\ Concluded(P!AmbiguousPlan(t))
<1> DEFINE a == P!Node("path-a", "general_answer", t, P!Unset, {})
           b == P!Node("path-b", "research", t, P!Unset, {})
           c == P!Node("fusion", "fusion", t, P!Unset, {"path-a", "path-b"})
           p1 == <<a>>
           p2 == <<a, b>>
           p3 == <<a, b, c>>
<1>1. P!AmbiguousPlan(t) = p3  BY DEF P!AmbiguousPlan, P!Step
<1>2. Fit(a) /\ a.id = "path-a" /\ a.deps = {}  BY DEF P!Node, Fit, Registered
<1>3. Fit(b) /\ b.id = "path-b" /\ b.deps = {}  BY DEF P!Node, Fit, Registered
<1>4. Fit(c) /\ c.id = "fusion" /\ c.deps = {"path-a", "path-b"}  BY DEF P!Node, Fit, Registered
<1> HIDE DEF a, b, c
<1>5. p2 = Append(p1, b)  OBVIOUS
<1>6. p3 = Append(p2, c)  OBVIOUS
<1>7. DOMAIN p3 = 1..3 /\ p3[1] = a /\ p3[2] = b /\ p3[3] = c  OBVIOUS
<1>8. Spelled(p1, {"path-a"})  BY <1>2, Begun
<1> HIDE DEF p1, p2, p3
<1>9. Spelled(p2, {"path-a"} \cup {"path-b"})
  BY <1>3, <1>5, <1>8, Stepped
<1>10. Spelled(p3, {"path-a", "path-b"} \cup {"fusion"})
  BY <1>4, <1>6, <1>9, Stepped
<1>11. Concluded(p3)
  <2>1. SUFFICES ASSUME NEW S \in SUBSET P!Ids(p3), "fusion" \in S,
                        \A i \in DOMAIN p3 : p3[i].id \in S => p3[i].deps \subseteq S
                 PROVE  S = P!Ids(p3)
    BY <1>10 DEF Concluded, Spelled
  <2>2. \A n \in {a, b, c} : n.id \in S => n.deps \subseteq S  BY <1>7, <2>1
  <2>3. {"path-a", "path-b"} \subseteq S  BY <1>4, <2>1, <2>2
  <2>4. P!Ids(p3) = {"path-a", "path-b"} \cup {"fusion"}  BY <1>10 DEF Spelled
  <2> QED BY <2>1, <2>3, <2>4
<1> QED BY <1>1, <1>10, <1>11 DEF Spelled

(* Two searches, their analysis and the synthesis.                         *)
LEMMA TrendShaped == ASSUME NEW t PROVE Shaped(P!TrendPlan(t)) /\ Concluded(P!TrendPlan(t))
<1> DEFINE a == P!Node("task-1", "research", t, "", {})
           b == P!Node("task-2", "research", t, "", {})
           c == P!Node("analysis", "analysis", t, P!Unset, {"task-1", "task-2"})
           d == P!Node("synthesis", "synthesizer", {}, P!Unset, {"task-1", "task-2", "analysis"})
           p1 == <<a>>
           p2 == <<a, b>>
           p3 == <<a, b, c>>
           p4 == <<a, b, c, d>>
<1>1. P!TrendPlan(t) = p4  BY DEF P!TrendPlan, P!Step, P!Synthesis
<1>2. Fit(a) /\ a.id = "task-1" /\ a.deps = {}  BY DEF P!Node, Fit, Registered
<1>3. Fit(b) /\ b.id = "task-2" /\ b.deps = {}  BY DEF P!Node, Fit, Registered
<1>4. Fit(c) /\ c.id = "analysis" /\ c.deps = {"task-1", "task-2"}  BY DEF P!Node, Fit, Registered
<1>5. Fit(d) /\ d.id = "synthesis" /\ d.deps = {"task-1", "task-2", "analysis"}  BY DEF P!Node, Fit, Registered
<1> HIDE DEF a, b, c, d
<1>6. p2 = Append(p1, b)  OBVIOUS
<1>7. p3 = Append(p2, c)  OBVIOUS
<1>8. p4 = Append(p3, d)  OBVIOUS
<1>9. DOMAIN p4 = 1..4 /\ p4[1] = a /\ p4[2] = b /\ p4[3] = c /\ p4[4] = d  OBVIOUS
<1>10. Spelled(p1, {"task-1"})  BY <1>2, Begun
<1> HIDE DEF p1, p2, p3, p4
<1>11. Spelled(p2, {"task-1"} \cup {"task-2"})
  BY <1>3, <1>6, <1>10, Stepped
<1>12. Spelled(p3, {"task-1", "task-2"} \cup {"analysis"})
  BY <1>4, <1>7, <1>11, Stepped
<1>13. Spelled(p4, {"task-1", "task-2", "analysis"} \cup {"synthesis"})
  BY <1>5, <1>8, <1>12, Stepped
<1>14. Concluded(p4)
  <2>1. SUFFICES ASSUME NEW S \in SUBSET P!Ids(p4), "synthesis" \in S,
                        \A i \in DOMAIN p4 : p4[i].id \in S => p4[i].deps \subseteq S
                 PROVE  S = P!Ids(p4)
    BY <1>13 DEF Concluded, Spelled
  <2>2. \A n \in {a, b, c, d} : n.id \in S => n.deps \subseteq S  BY <1>9, <2>1
  <2>3. {"task-1", "task-2", "analysis"} \subseteq S  BY <1>5, <2>1, <2>2
  <2>4. P!Ids(p4) = {"task-1", "task-2", "analysis"} \cup {"synthesis"}  BY <1>13 DEF Spelled
  <2> QED BY <2>1, <2>3, <2>4
<1> QED BY <1>1, <1>13, <1>14 DEF Spelled

(* Places.                                                                 *)
LEMMA LocalShaped == ASSUME NEW t PROVE Shaped(P!LocalPlan(t)) /\ Concluded(P!LocalPlan(t))
<1> DEFINE a == P!Node("geo-intent", "geo_intent", t, P!Unset, {})
           b == P!Node("local-search", "local_discovery", t, "local_search", {"geo-intent"})
           c == P!Node("place-verify", "place_verification", {}, P!Unset, {"geo-intent", "local-search"})
           d == P!Node("review-consensus", "review_consensus", {}, P!Unset, {"local-search"})
           e == P!Node("candidate-extract", "candidate_extraction", {}, P!Unset, {"local-search", "review-consensus"})
           f == P!Node("synthesis", "synthesizer", {}, P!Unset,
                      {"geo-intent", "place-verify", "candidate-extract", "review-consensus"})
           p1 == <<a>>
           p2 == <<a, b>>
           p3 == <<a, b, c>>
           p4 == <<a, b, c, d>>
           p5 == <<a, b, c, d, e>>
           p6 == <<a, b, c, d, e, f>>
<1>1. P!LocalPlan(t) = p6  BY DEF P!LocalPlan, P!Step, P!Synthesis
<1>2. Fit(a) /\ a.id = "geo-intent" /\ a.deps = {}  BY DEF P!Node, Fit, Registered
<1>3. Fit(b) /\ b.id = "local-search" /\ b.deps = {"geo-intent"}  BY DEF P!Node, Fit, Registered
<1>4. Fit(c) /\ c.id = "place-verify" /\ c.deps = {"geo-intent", "local-search"}  BY DEF P!Node, Fit, Registered
<1>5. Fit(d) /\ d.id = "review-consensus" /\ d.deps = {"local-search"}  BY DEF P!Node, Fit, Registered
<1>6. Fit(e) /\ e.id = "candidate-extract" /\ e.deps = {"local-search", "review-consensus"}
  BY DEF P!Node, Fit, Registered
<1>7. Fit(f) /\ f.id = "synthesis" /\ f.deps = {"geo-intent", "place-verify", "candidate-extract", "review-consensus"}
  BY DEF P!Node, Fit, Registered
<1> HIDE DEF a, b, c, d, e, f
<1>8. p2 = Append(p1, b)  OBVIOUS
<1>9. p3 = Append(p2, c)  OBVIOUS
<1>10. p4 = Append(p3, d)  OBVIOUS
<1>11. p5 = Append(p4, e)  OBVIOUS
<1>12. p6 = Append(p5, f)  OBVIOUS
<1>13. DOMAIN p6 = 1..6 /\ p6[1] = a /\ p6[2] = b /\ p6[3] = c /\ p6[4] = d /\ p6[5] = e /\ p6[6] = f  OBVIOUS
<1>14. Spelled(p1, {"geo-intent"})  BY <1>2, Begun
<1> HIDE DEF p1, p2, p3, p4, p5, p6
<1>15. Spelled(p2, {"geo-intent"} \cup {"local-search"})
  BY <1>3, <1>8, <1>14, Stepped
<1>16. Spelled(p3, {"geo-intent", "local-search"} \cup {"place-verify"})
  BY <1>4, <1>9, <1>15, Stepped
<1>17. Spelled(p4, {"geo-intent", "local-search", "place-verify"} \cup {"review-consensus"})
  BY <1>5, <1>10, <1>16, Stepped
<1>18. Spelled(p5, {"geo-intent", "local-search", "place-verify", "review-consensus"} \cup {"candidate-extract"})
  BY <1>6, <1>11, <1>17, Stepped
<1>19. Spelled(p6, {"geo-intent", "local-search", "place-verify", "review-consensus", "candidate-extract"}
                      \cup {"synthesis"})
  BY <1>7, <1>12, <1>18, Stepped
<1>20. Concluded(p6)
  <2>1. SUFFICES ASSUME NEW S \in SUBSET P!Ids(p6), "synthesis" \in S,
                        \A i \in DOMAIN p6 : p6[i].id \in S => p6[i].deps \subseteq S
                 PROVE  S = P!Ids(p6)
    BY <1>19 DEF Concluded, Spelled
  <2>2. \A n \in {a, b, c, d, e, f} : n.id \in S => n.deps \subseteq S  BY <1>13, <2>1
  <2>3. {"geo-intent", "place-verify", "candidate-extract", "review-consensus"} \subseteq S  BY <1>7, <2>1, <2>2
  <2>4. {"local-search"} \subseteq S  BY <1>2, <1>4, <1>5, <1>6, <2>1, <2>2, <2>3
  <2>5. P!Ids(p6) = {"geo-intent", "local-search", "place-verify", "review-consensus", "candidate-extract"}
          \cup {"synthesis"}
    BY <1>19 DEF Spelled
  <2> QED BY <2>1, <2>3, <2>4, <2>5
<1> QED BY <1>1, <1>19, <1>20 DEF Spelled

(* Trips.                                                                  *)
LEMMA TravelShaped == ASSUME NEW t PROVE Shaped(P!TravelPlanOf(t)) /\ Concluded(P!TravelPlanOf(t))
<1> DEFINE a == P!Node("geo-intent", "geo_intent", t, P!Unset, {})
           b == P!Node("local-search", "local_discovery", t, "local_search", {"geo-intent"})
           c == P!Node("place-verify", "place_verification", {}, P!Unset, {"local-search"})
           d == P!Node("candidate-extract", "candidate_extraction", {}, P!Unset, {"local-search"})
           e == P!Node("itinerary", "itinerary_planner", t, P!Unset, {"place-verify", "candidate-extract"})
           f == P!Node("synthesis", "synthesizer", {}, P!Unset, {"itinerary", "candidate-extract"})
           p1 == <<a>>
           p2 == <<a, b>>
           p3 == <<a, b, c>>
           p4 == <<a, b, c, d>>
           p5 == <<a, b, c, d, e>>
           p6 == <<a, b, c, d, e, f>>
<1>1. P!TravelPlanOf(t) = p6  BY DEF P!TravelPlanOf, P!Step, P!Synthesis
<1>2. Fit(a) /\ a.id = "geo-intent" /\ a.deps = {}  BY DEF P!Node, Fit, Registered
<1>3. Fit(b) /\ b.id = "local-search" /\ b.deps = {"geo-intent"}  BY DEF P!Node, Fit, Registered
<1>4. Fit(c) /\ c.id = "place-verify" /\ c.deps = {"local-search"}  BY DEF P!Node, Fit, Registered
<1>5. Fit(d) /\ d.id = "candidate-extract" /\ d.deps = {"local-search"}  BY DEF P!Node, Fit, Registered
<1>6. Fit(e) /\ e.id = "itinerary" /\ e.deps = {"place-verify", "candidate-extract"}
  BY DEF P!Node, Fit, Registered
<1>7. Fit(f) /\ f.id = "synthesis" /\ f.deps = {"itinerary", "candidate-extract"}  BY DEF P!Node, Fit, Registered
<1> HIDE DEF a, b, c, d, e, f
<1>8. p2 = Append(p1, b)  OBVIOUS
<1>9. p3 = Append(p2, c)  OBVIOUS
<1>10. p4 = Append(p3, d)  OBVIOUS
<1>11. p5 = Append(p4, e)  OBVIOUS
<1>12. p6 = Append(p5, f)  OBVIOUS
<1>13. DOMAIN p6 = 1..6 /\ p6[1] = a /\ p6[2] = b /\ p6[3] = c /\ p6[4] = d /\ p6[5] = e /\ p6[6] = f  OBVIOUS
<1>14. Spelled(p1, {"geo-intent"})  BY <1>2, Begun
<1> HIDE DEF p1, p2, p3, p4, p5, p6
<1>15. Spelled(p2, {"geo-intent"} \cup {"local-search"})
  BY <1>3, <1>8, <1>14, Stepped
<1>16. Spelled(p3, {"geo-intent", "local-search"} \cup {"place-verify"})
  BY <1>4, <1>9, <1>15, Stepped
<1>17. Spelled(p4, {"geo-intent", "local-search", "place-verify"} \cup {"candidate-extract"})
  BY <1>5, <1>10, <1>16, Stepped
<1>18. Spelled(p5, {"geo-intent", "local-search", "place-verify", "candidate-extract"} \cup {"itinerary"})
  BY <1>6, <1>11, <1>17, Stepped
<1>19. Spelled(p6, {"geo-intent", "local-search", "place-verify", "candidate-extract", "itinerary"}
                      \cup {"synthesis"})
  BY <1>7, <1>12, <1>18, Stepped
<1>20. Concluded(p6)
  <2>1. SUFFICES ASSUME NEW S \in SUBSET P!Ids(p6), "synthesis" \in S,
                        \A i \in DOMAIN p6 : p6[i].id \in S => p6[i].deps \subseteq S
                 PROVE  S = P!Ids(p6)
    BY <1>19 DEF Concluded, Spelled
  <2>2. \A n \in {a, b, c, d, e, f} : n.id \in S => n.deps \subseteq S  BY <1>13, <2>1
  <2>3. {"itinerary", "candidate-extract"} \subseteq S  BY <1>7, <2>1, <2>2
  <2>4. {"place-verify", "local-search"} \subseteq S  BY <1>5, <1>6, <2>1, <2>2, <2>3
  <2>5. {"geo-intent"} \subseteq S  BY <1>3, <1>4, <2>1, <2>2, <2>3, <2>4
  <2>6. P!Ids(p6) = {"geo-intent", "local-search", "place-verify", "candidate-extract", "itinerary"}
          \cup {"synthesis"}
    BY <1>19 DEF Spelled
  <2> QED BY <2>1, <2>3, <2>4, <2>5, <2>6
<1> QED BY <1>1, <1>19, <1>20 DEF Spelled

-----------------------------------------------------------------------------
(* The plan from tasks.                                                    *)

(* Pairs of indices of nodes: what the links are, whoever gave them.       *)
Within(links, n) == \A l \in links : l[1] \in 1..n /\ l[2] \in 1..n

(* The names of tasks.                                                     *)
LEMMA TaskIdsDiffer ==
  /\ \A i, j \in 1..5 : P!TaskIds[i] = P!TaskIds[j] => i = j
  /\ \A i \in 1..5 : P!TaskIds[i] \notin {"analysis", "synthesis", "fusion"}
  BY DEF P!TaskIds

(* Each task after the one before it: none waits for itself.               *)
LEMMA SequentialFits ==
  ASSUME NEW n \in Nat, NEW nodes, DOMAIN nodes = 1..n
  PROVE  Within(P!Sequential(nodes), n) /\ ~P!HasCycle(P!Sequential(nodes))
<1> DEFINE L == P!Sequential(nodes)
<1>1. \A l \in L : l[1] \in 2..n /\ l[2] = l[1] - 1  BY DEF P!Sequential
<1>2. Within(L, n)  BY <1>1 DEF Within
<1> HIDE DEF L
<1>3. ASSUME NEW S \in SUBSET {l[1] : l \in L}, S # {},
             \A i \in S : \E l \in L : l[1] = i /\ l[2] \in S
      PROVE  FALSE
  <2>1. S \in SUBSET (1..n)  BY <1>1
  <2>2. Min(S) \in S /\ \A k \in S : Min(S) <= k  BY <1>3, <2>1, LeastOf
  <2>3. PICK l \in L : l[1] = Min(S) /\ l[2] \in S  BY <1>3, <2>2
  <2> QED BY <1>1, <2>1, <2>2, <2>3
<1> QED BY <1>2, <1>3 DEF P!HasCycle, L

(* The names of what node i needs.                                         *)
Needed(links, i) == {P!TaskIds[l[2]] : l \in {k \in links : k[1] = i}}

(* Tasks that need others along links without a cycle: when each of a group *)
(* needed one of the group, the links would have a cycle.                  *)
LEMMA LinkedShaped ==
  ASSUME NEW n \in 0..5, NEW links, Within(links, n), ~P!HasCycle(links),
         NEW p, p = [i \in 1..n |-> p[i]],
         \A i \in 1..n : Fit(p[i]) /\ p[i].id = P!TaskIds[i] /\ p[i].deps = Needed(links, i)
  PROVE  Shaped(p)
<1>1. Listed(p) /\ DOMAIN p = 1..n  BY Listing
<1>2. \A i, j \in 1..n : p[i].id = p[j].id => i = j  BY TaskIdsDiffer
<1>3. \A i \in 1..n : p[i].deps \subseteq P!Ids(p)  BY <1>1 DEF Within, P!Ids, Needed
<1>4. ASSUME NEW S \in SUBSET P!Ids(p), S # {},
             \A i \in 1..n : p[i].id \in S => p[i].deps \cap S # {}
      PROVE  FALSE
  <2> DEFINE T == {i \in 1..n : p[i].id \in S}
  <2>1. T # {}  BY <1>1, <1>4 DEF P!Ids
  <2>2. ASSUME NEW i \in T  PROVE \E l \in links : l[1] = i /\ l[2] \in T
    <3>1. PICK x \in p[i].deps : x \in S  BY <1>4
    <3>2. PICK l \in links : l[1] = i /\ x = P!TaskIds[l[2]]  BY <3>1 DEF Needed
    <3>3. l[2] \in 1..n  BY DEF Within
    <3> QED BY <3>1, <3>2, <3>3
  <2>3. T \in SUBSET {l[1] : l \in links}  BY <2>2
  <2> QED BY <2>1, <2>2, <2>3 DEF P!HasCycle
<1>5. P!Skills(p) \subseteq Registered  BY <1>1 DEF P!Skills, Fit
<1>6. \A i \in 1..n : DOMAIN p[i] = {"id", "skill", "text", "tool", "deps"}  BY DEF Fit
<1>7. \A S \in (SUBSET P!Ids(p)) \ {{}} : \E i \in 1..n : p[i].id \in S /\ p[i].deps \cap S = {}
  BY <1>4
<1> QED BY <1>1, <1>2, <1>3, <1>5, <1>6, <1>7 DEF Shaped

(* Links by the model or by rule, and those a prompt about now adds.       *)
LEMMA LinksWithin ==
  ASSUME NEW n \in Nat, NEW nodes, DOMAIN nodes = 1..n, NEW reply, NEW t
  PROVE  Within(P!Enforced(P!InferredLinks(reply, nodes), nodes, t), n)
<1>1. \A links : Within(P!Normalized(links, nodes), n)  BY DEF P!Normalized, Within
<1>2. Within(P!RuleLinks(nodes), n)  BY DEF P!RuleLinks, Within
<1>3. Within(P!InferredLinks(reply, nodes), n)  BY <1>1, <1>2 DEF P!InferredLinks
<1>4. ASSUME NEW links, Within(links, n)  PROVE Within(P!Enforced(links, nodes, t), n)
  BY <1>4 DEF P!Enforced, Within
<1> QED BY <1>3, <1>4

(* Four tasks, and the prompt itself before them when it asks for research. *)
LEMMA FewTasks ==
  ASSUME NEW a, Listed(a.tasks), Len(a.tasks) <= 4, a.text \in NodeTexts,
         \A i \in DOMAIN a.tasks : a.tasks[i] \in NodeTexts
  PROVE  (\E n \in 0..5 : DOMAIN P!Tasks(a) = 1..n) /\ \A i \in DOMAIN P!Tasks(a) : P!Tasks(a)[i] \in NodeTexts
<1>0. Len(a.tasks) \in Nat /\ DOMAIN a.tasks = 1..Len(a.tasks)  BY ListedFacts
<1>1. Len(a.tasks) \in 0..4 /\ DOMAIN a.tasks = 1..Len(a.tasks)
  <2> DEFINE k == Len(a.tasks)
  <2>1. k \in Nat /\ k <= 4  BY <1>0
  <2> HIDE DEF k
  <2>2. k \in 0..4  BY <2>1
  <2> QED BY <1>0, <2>2 DEF k
<1> DEFINE S == {a.tasks[i] : i \in DOMAIN a.tasks} \cup {a.text}
<1>2. a.tasks \in Seq(S)  BY <1>1, SeqDef DEF Listed
<1>3. <<a.text>> \in Seq(S)  OBVIOUS
<1> HIDE DEF S
<1> DEFINE s == <<a.text>> \o a.tasks
<1>4. s \in Seq(S) /\ Len(s) = Len(<<a.text>>) + Len(a.tasks)  BY <1>2, <1>3, ConcatProperties
<1>5. Len(<<a.text>>) = 1  OBVIOUS
<1>6. DOMAIN s = 1..(1 + Len(a.tasks))  BY <1>4, <1>5, LenProperties
<1>7. Len(a.tasks) \in 0..5 /\ 1 + Len(a.tasks) \in 0..5  BY <1>1
<1>8. P!Tasks(a) = s \/ P!Tasks(a) = a.tasks  BY DEF P!Tasks
<1>9. \A i \in DOMAIN s : s[i] \in NodeTexts
  <2>1. S \subseteq NodeTexts  BY DEF S
  <2> HIDE DEF s
  <2>2. \A i \in DOMAIN s : s[i] \in S  BY <1>4
  <2> QED BY <2>1, <2>2
<1> HIDE DEF s
<1>10. \E n \in 0..5 : DOMAIN P!Tasks(a) = 1..n  BY <1>1, <1>6, <1>7, <1>8
<1>11. \A i \in DOMAIN P!Tasks(a) : P!Tasks(a)[i] \in NodeTexts  BY <1>8, <1>9
<1> QED BY <1>10, <1>11

(* Whatever the router picks, a task gets a skill that is registered.      *)
LEMMA RoutedToSkills ==
  ASSUME NEW a, NEW r \in P!Routings(a, Registered)
  PROVE  \A i \in DOMAIN P!Tasks(a) : r[i] \in Registered
<1> DEFINE tasks == P!Tasks(a)
           choices == [i \in DOMAIN tasks |-> {P!Guarded(s, tasks[i]) : s \in P!Routes(tasks[i], Registered)}]
<1>1. \A i \in DOMAIN tasks : r[i] \in choices[i]  BY DEF P!Routings
<1> SUFFICES ASSUME NEW i \in DOMAIN tasks  PROVE r[i] \in Registered
  OBVIOUS
<1>2. PICK s \in P!Routes(tasks[i], Registered) : r[i] = P!Guarded(s, tasks[i])  BY <1>1
<1>3. {"research", "general_answer"} \subseteq Registered  BY DEF Registered
<1>4. s \in Registered  BY <1>2, <1>3 DEF P!Routes
<1> QED BY <1>2, <1>3, <1>4 DEF P!Guarded

(* Whatever is researched is asked for in the prompt, with a tool that     *)
(* searches or none that is named yet; and so is what is analysed, unless  *)
(* the planner describes it in words of its own.                           *)
Asks(e) ==
  /\ e.skill = "research" => e.text \in NodeTexts /\ e.tool \in {P!Unset, "", "weather", "web_search"}
  /\ e.skill = "analysis" => e.text \in NodeTexts \cup {{}}
Posed(plan) == \A i \in DOMAIN plan : Asks(plan[i])

LEMMA OtherPosed ==
  ASSUME NEW s, Listed(s), Posed(s), NEW e, Asks(e)
  PROVE  Posed(Append(s, e))
<1> DEFINE t == Append(s, e)
           n == Len(s)
<1>1. n \in Nat /\ DOMAIN s = 1..n  BY ListedFacts
<1>2. DOMAIN t = 1..(n + 1) /\ (\A k \in 1..n : t[k] = s[k]) /\ t[n + 1] = e  BY <1>1, ListedAppend
<1> HIDE DEF t, n
<1>3. \A k \in 1..(n + 1) : k \in 1..n \/ k = n + 1  BY <1>1
<1>4. Posed(t)  BY <1>1, <1>2, <1>3 DEF Posed
<1> QED BY <1>4 DEF t

(* A plan of tasks: those of the links, an analysis of all of them, and    *)
(* the synthesis of all of these.                                          *)
LEMMA TaskPlanShaped ==
  ASSUME NEW a, Listed(a.tasks), Len(a.tasks) <= 4, a.text \in NodeTexts,
         \A i \in DOMAIN a.tasks : a.tasks[i] \in NodeTexts,
         NEW r \in P!Routings(a, Registered), NEW reply
  PROVE  Shaped(P!TaskPlan(a, r, reply)) /\ Concluded(P!TaskPlan(a, r, reply)) /\ Posed(P!TaskPlan(a, r, reply))
<1> DEFINE tasks == P!Tasks(a)
           nodes == [i \in DOMAIN tasks |-> P!Step(P!TaskIds[i], r[i], tasks[i], {})]
           enforced == P!Enforced(P!InferredLinks(reply, nodes), nodes, a.text)
           links == IF P!HasCycle(enforced) THEN P!Sequential(nodes) ELSE enforced
           linked == [i \in DOMAIN nodes |->
                        [nodes[i] EXCEPT !.deps = {P!TaskIds[l[2]] : l \in {k \in links : k[1] = i}}]]
           injects == P!InjectsAnalysis(a, linked)
           analysis == P!Step("analysis", "analysis", {}, P!Ids(linked))
           reasoned == IF injects THEN Append(linked, analysis) ELSE linked
           synthesis == P!Synthesis(P!Ids(reasoned))
           whole == Append(reasoned, synthesis)
<1>1. PICK n \in 0..5 : DOMAIN tasks = 1..n  BY FewTasks
<1>2. \A i \in 1..n : r[i] \in Registered /\ tasks[i] \in NodeTexts  BY <1>1, FewTasks, RoutedToSkills
<1>3. Within(enforced, n)
  <2>1. n \in Nat /\ DOMAIN nodes = 1..n  BY <1>1
  <2> HIDE DEF nodes
  <2> QED BY <2>1, LinksWithin
<1>4. Within(P!Sequential(nodes), n) /\ ~P!HasCycle(P!Sequential(nodes))
  <2>1. n \in Nat /\ DOMAIN nodes = 1..n  BY <1>1
  <2> HIDE DEF nodes
  <2> QED BY <2>1, SequentialFits
<1> HIDE DEF enforced
<1>5. Within(links, n) /\ ~P!HasCycle(links)  BY <1>3, <1>4
<1> HIDE DEF links
<1>6. /\ linked = [i \in 1..n |-> linked[i]]
      /\ \A i \in 1..n : Fit(linked[i]) /\ linked[i].id = P!TaskIds[i] /\ linked[i].deps = Needed(links, i)
      /\ \A i \in 1..n : linked[i].text \in NodeTexts /\ linked[i].tool = P!Unset
  <2>1. DOMAIN linked = 1..n  BY <1>1
  <2>2. ASSUME NEW i \in 1..n
        PROVE  /\ Fit(linked[i]) /\ linked[i].id = P!TaskIds[i] /\ linked[i].deps = Needed(links, i)
               /\ linked[i].text \in NodeTexts /\ linked[i].tool = P!Unset
    <3>1. nodes[i] = [id |-> P!TaskIds[i], skill |-> r[i], text |-> tasks[i], tool |-> P!Unset, deps |-> {}]
      BY <1>1 DEF P!Step, P!Node
    <3>2. linked[i] = [nodes[i] EXCEPT !.deps = Needed(links, i)]
      BY <1>1 DEF Needed
    <3> HIDE DEF nodes, linked
    <3>3. linked[i] = [id |-> P!TaskIds[i], skill |-> r[i], text |-> tasks[i],
                      tool |-> P!Unset, deps |-> Needed(links, i)]
      BY <3>1, <3>2
    <3> HIDE DEF tasks
    <3> QED BY <1>2, <3>3 DEF Fit
  <2> QED BY <2>1, <2>2
<1> HIDE DEF linked, nodes, tasks
<1>7. Shaped(linked) /\ Posed(linked)
  <2>1. DOMAIN linked = 1..n  BY <1>6
  <2> QED BY <1>5, <1>6, <2>1, LinkedShaped DEF Posed, Asks
<1>8. P!Ids(linked) \cap {"analysis", "synthesis", "fusion"} = {}  BY <1>6, TaskIdsDiffer DEF P!Ids
<1>9. Shaped(reasoned) /\ "synthesis" \notin P!Ids(reasoned) /\ "fusion" \notin P!Ids(reasoned)
  <2>1. Fit(analysis) /\ analysis.id = "analysis" /\ analysis.deps = P!Ids(linked)
    BY DEF P!Step, P!Node, Fit, Registered
  <2> HIDE DEF analysis
  <2> QED BY <1>7, <1>8, <2>1, Extended DEF Fit
<1>10. Shaped(whole) /\ P!Ids(whole) = P!Ids(reasoned) \cup {"synthesis"} /\ Concluded(whole)
  <2>1. Fit(synthesis) /\ synthesis.id = "synthesis" /\ synthesis.deps = P!Ids(reasoned)
    BY DEF P!Synthesis, P!Step, P!Node, Fit, Registered
  <2> HIDE DEF synthesis, reasoned
  <2>2. Shaped(whole) /\ P!Ids(whole) = P!Ids(reasoned) \cup {"synthesis"}
    BY <1>9, <2>1, Extended DEF Fit
  <2>3. Len(reasoned) + 1 \in DOMAIN whole /\ whole[Len(reasoned) + 1] = synthesis
    <3>1. Listed(reasoned) /\ Len(reasoned) \in Nat  BY <1>9, ListedFacts DEF Shaped
    <3> QED BY <3>1, ListedAppend
  <2> HIDE DEF whole
  <2>4. ASSUME NEW S \in SUBSET P!Ids(whole), "synthesis" \in S,
               \A i \in DOMAIN whole : whole[i].id \in S => whole[i].deps \subseteq S
        PROVE  S = P!Ids(whole)
    <3>1. P!Ids(reasoned) \subseteq S  BY <2>1, <2>3, <2>4
    <3> QED BY <2>2, <2>4, <3>1
  <2> QED BY <1>9, <2>2, <2>4 DEF Concluded
<1>11. Posed(reasoned)
  <2>1. Asks(analysis)  BY DEF P!Step, P!Node, Asks
  <2> HIDE DEF analysis
  <2> QED BY <1>7, <2>1, OtherPosed DEF Shaped
<1>12. Posed(whole)
  <2>1. Asks(synthesis)  BY DEF P!Synthesis, P!Step, P!Node, Asks
  <2> HIDE DEF synthesis, reasoned
  <2> QED BY <1>9, <1>11, <2>1, OtherPosed DEF Shaped
<1>13. P!TaskPlan(a, r, reply) =
         IF Len(reasoned) > 1 \/ "research" \in P!Skills(reasoned) THEN whole ELSE reasoned
  BY DEF P!TaskPlan, tasks, nodes, enforced, links, linked
<1>14. ~(Len(reasoned) > 1) => Concluded(reasoned)  BY <1>9 DEF Concluded
<1> HIDE DEF whole, reasoned
<1> QED BY <1>9, <1>10, <1>13, <1>14, <1>11, <1>12

(* The plans that fit a kind of prompt.                                    *)
LEMMA FewPosed ==
  ASSUME NEW a, NEW b, NEW c, NEW d, NEW e, NEW f, Asks(a), Asks(b), Asks(c), Asks(d), Asks(e), Asks(f)
  PROVE  Posed(<<a>>) /\ Posed(<<a, b>>) /\ Posed(<<a, b, c>>) /\ Posed(<<a, b, c, d>>) /\ Posed(<<a, b, c, d, e, f>>)
  BY DEF Posed

LEMMA FixedPosed == ASSUME NEW a, a.text \in NodeTexts PROVE Posed(P!FixedPlan(a))
<1> PICK t : t = a.text  OBVIOUS
<1>1. \A id, skill, x, deps : skill \notin {"research", "analysis"} \/ x = t => Asks(P!Step(id, skill, x, deps))
  BY DEF P!Step, P!Node, Asks
<1>2. \A deps : Asks(P!Synthesis(deps))  BY DEF P!Synthesis, P!Step, P!Node, Asks
<1>3. \A id, skill, tool, deps : skill # "research" \/ tool \in {"", "weather", "web_search"} =>
        Asks(P!Node(id, skill, t, tool, deps))
  BY DEF P!Step, P!Node, Asks
<1>4. Posed(P!DirectPlan(t))  BY <1>1, FewPosed DEF P!DirectPlan
<1>5. Posed(P!AmbiguousPlan(t))  BY <1>1, FewPosed DEF P!AmbiguousPlan
<1>6. Posed(P!WeatherPlan(t)) /\ Posed(P!PricePlan(t)) /\ Posed(P!LookupPlan(t))
  BY <1>2, <1>3, FewPosed DEF P!WeatherPlan, P!PricePlan, P!LookupPlan
<1>7. Posed(P!TrendPlan(t))  BY <1>1, <1>2, <1>3, FewPosed DEF P!TrendPlan
<1>8. Posed(P!LocalPlan(t)) /\ Posed(P!TravelPlanOf(t))
  BY <1>1, <1>2, <1>3, FewPosed DEF P!LocalPlan, P!TravelPlanOf
<1>9. Posed(<<>>)
  <2>1. DOMAIN <<>> = {}  OBVIOUS
  <2> QED BY <2>1 DEF Posed
<1> QED BY <1>4, <1>5, <1>6, <1>7, <1>8, <1>9 DEF P!FixedPlan

-----------------------------------------------------------------------------
(* From the prompt to its plan.                                            *)

(* An analysis, before and after the gates.                                *)
Understood(a) ==
  /\ DOMAIN a = {"text", "words", "intent", "tasks", "mode", "window", "conf", "tier", "candidates", "ambiguous",
                 "pipeline", "reason"}
  /\ Listed(a.tasks) /\ Len(a.tasks) <= 4
  /\ a.text \in NodeTexts /\ \A i \in DOMAIN a.tasks : a.tasks[i] \in NodeTexts

LEMMA OneTask == ASSUME NEW x PROVE Listed(<<x>>) /\ Len(<<x>>) = 1 /\ \A i \in DOMAIN <<x>> : <<x>>[i] = x
<1>1. <<x>> = [i \in 1..1 |-> <<x>>[i]] /\ \A i \in DOMAIN <<x>> : <<x>>[i] = x  OBVIOUS
<1> QED BY <1>1, Listing

(* Four clauses at most become tasks.                                      *)
LEMMA FourAtMost ==
  ASSUME NEW p \in Prompts
  PROVE  /\ Listed(P!SubTasks(p)) /\ Len(P!SubTasks(p)) <= 4
         /\ P!Text(p) \in NodeTexts /\ \A i \in DOMAIN P!SubTasks(p) : P!SubTasks(p)[i] \in NodeTexts
<1> DEFINE c == p.clauses
           k == P!Min({4, Len(c)})
<1>1. c \in Seq(SUBSET STRING) /\ Len(c) \in Nat  BY PipelineAssumption
<1>2. k \in 0..4 /\ k <= Len(c)
  <2>1. P!Min({4, Len(c)}) = IF 4 <= Len(c) THEN 4 ELSE Len(c)
    <3> DEFINE m == IF 4 <= Len(c) THEN 4 ELSE Len(c)
    <3>1. m \in {4, Len(c)} /\ \A y \in {4, Len(c)} : m <= y  BY <1>1
    <3>2. \A x \in {4, Len(c)} : (\A y \in {4, Len(c)} : x <= y) => x = m  BY <1>1, <3>1
    <3> HIDE DEF m, c
    <3>3. P!Min({4, Len(c)}) = m  BY <3>1, <3>2 DEF P!Min
    <3> QED BY <3>3 DEF m
  <2> QED BY <1>1, <2>1
<1> HIDE DEF k
<1>3. /\ SubSeq(c, 1, k) \in Seq(SUBSET STRING)
      /\ Len(SubSeq(c, 1, k)) = IF 1 <= k THEN k - 1 + 1 ELSE 0
      /\ \A i \in 1..(k - 1 + 1) : SubSeq(c, 1, k)[i] = c[1 + i - 1]
  <2>1. \A i \in 1..k : c[i] \in SUBSET STRING  BY <1>1, <1>2
  <2> HIDE DEF c
  <2> QED BY <1>2, <2>1, SubSeqProperties
<1>4. Len(SubSeq(c, 1, k)) = k  BY <1>2, <1>3
<1>5. SubSeq(c, 1, k) = [i \in 1..k |-> SubSeq(c, 1, k)[i]]  BY <1>3, <1>4
<1>6. Listed(SubSeq(c, 1, k))
  <2> DEFINE s == SubSeq(c, 1, k)
  <2>1. k \in Nat /\ s = [i \in 1..k |-> s[i]]  BY <1>2, <1>5
  <2> HIDE DEF s
  <2>2. Listed(s)  BY <2>1, Listing
  <2> QED BY <2>2 DEF s
<1>7. P!SubTasks(p) = IF c = <<>> THEN <<P!Text(p)>> ELSE SubSeq(c, 1, k)  BY DEF P!SubTasks, k
<1>8. P!Text(p) \in NodeTexts /\ \A x \in Range(c) : x \in NodeTexts  BY DEF NodeTexts
<1>9. \A i \in DOMAIN SubSeq(c, 1, k) : SubSeq(c, 1, k)[i] \in NodeTexts
  <2> DEFINE s == SubSeq(c, 1, k)
  <2>1. DOMAIN s = 1..k  BY <1>3, <1>4, LenProperties
  <2>2. \A i \in 1..k : i \in 1..(k - 1 + 1) /\ 1 + i - 1 = i /\ i \in DOMAIN c  BY <1>1, <1>2
  <2>3. \A i \in 1..k : s[i] = c[i]  BY <1>3, <2>2
  <2>4. \A i \in 1..k : c[i] \in Range(c)  BY <2>2 DEF Range
  <2> HIDE DEF s, c
  <2>5. \A i \in DOMAIN s : s[i] \in NodeTexts  BY <1>8, <2>1, <2>3, <2>4
  <2> QED BY <2>5 DEF s
<1> HIDE DEF c
<1> QED BY <1>2, <1>4, <1>6, <1>7, <1>8, <1>9, OneTask

(* With the model or without it, before and after the execution gate.      *)
LEMMA AnalyzedWell ==
  ASSUME NEW p \in Prompts, NEW reply, NEW gate
  PROVE  Understood(P!Decide(P!Analyze(p, reply), gate))
<1>1. Understood(P!RuleAnalysis(p)) 
  BY FourAtMost DEF P!RuleAnalysis, P!Analysis, Understood
<1>2. Understood(P!ModelAnalysis(p, reply))
  BY FourAtMost, OneTask DEF P!ModelAnalysis, P!Analysis, Understood
<1>3. ASSUME NEW a, Understood(a)  PROVE Understood(P!Resolve(a))
  BY <1>3 DEF P!Resolve, Understood
<1>4. ASSUME NEW a, Understood(a)  PROVE Understood(P!Decide(a, gate))
  BY <1>4 DEF P!Decide, Understood
<1> QED BY <1>1, <1>2, <1>3, <1>4 DEF P!Analyze

(* A tool that is suggested is one of those there are.                     *)
LEMMA Suggested == ASSUME NEW q, NEW t PROVE P!SuggestTool(q, t) \in SearchTools \cup {"finance"}
<1> DEFINE table == << <<{"url"}, "fetch_page">>, <<{"weather", "forecast", "temperature"}, "weather">>,
                       <<P!ToolMarket, "finance">>, <<{"news", "headline", "latest"}, "news_api">>,
                       <<P!ToolLocal, "local_search">>, <<{"sum", "calculate", "math", "equation"}, "calculator">>,
                       <<{"fetch", "website", "content from", "read"}, "fetch_page">> >>
           words == q \cup (t \ {"url", "sum"})
           hits == {i \in DOMAIN table : P!Mentions(words, table[i][1])}
<1>1. P!SuggestTool(q, t) = P!FirstMention(words, table, "web_search")  BY DEF P!SuggestTool
<1>2. P!FirstMention(words, table, "web_search") = IF hits = {} THEN "web_search" ELSE table[P!Min(hits)][2]
  BY DEF P!FirstMention
<1>3. DOMAIN table = 1..7 /\ \A i \in 1..7 : table[i][2] \in SearchTools \cup {"finance"}  BY DEF SearchTools
<1> HIDE DEF table, words
<1>4. hits # {} => P!Min(hits) \in 1..7
  <2>1. hits \in SUBSET (1..7)  BY <1>3
  <2> HIDE DEF hits
  <2>2. P!Min(hits) = Min(hits)  BY DEF P!Min, Min
  <2> QED BY <2>1, <2>2, LeastOf
<1> HIDE DEF hits
<1> QED BY <1>1, <1>2, <1>3, <1>4 DEF SearchTools

(* What the pipeline researches it has a tool for, or needs none; what it  *)
(* analyses it was asked, or the planner says it.                          *)
Suited(plan) ==
  \A i \in DOMAIN plan :
    /\ plan[i].skill = "research" =>
         plan[i].text \in NodeTexts /\ plan[i].tool \in SearchTools \cup {"", "finance"}
    /\ plan[i].skill = "analysis" => plan[i].text \in NodeTexts \cup {{}}

(* The hints of a tool leave the shape of a plan.                          *)
LEMMA Hinted ==
  ASSUME NEW p, Shaped(p), Concluded(p), Posed(p), NEW a
  PROVE  Shaped(P!Hinted(p, a)) /\ Concluded(P!Hinted(p, a)) /\ Suited(P!Hinted(p, a))
<1> DEFINE h == P!Hinted(p, a)
           n == Len(p)
<1>1. Listed(p) /\ n \in Nat /\ DOMAIN p = 1..n  BY ListedFacts DEF Shaped
<1>2. h = [i \in 1..n |-> h[i]]  BY <1>1 DEF P!Hinted
<1>3. ASSUME NEW i \in 1..n
      PROVE  /\ h[i].id = p[i].id /\ h[i].deps = p[i].deps /\ h[i].skill = p[i].skill /\ DOMAIN h[i] = DOMAIN p[i]
             /\ h[i].text = p[i].text
             /\ h[i].skill = "research" /\ p[i].tool \in {P!Unset, "", "weather", "web_search"} =>
                  h[i].tool \in SearchTools \cup {"", "finance"}
  <2>1. DOMAIN p[i] = {"id", "skill", "text", "tool", "deps"}  BY <1>1 DEF Shaped
  <2> DEFINE suggested == P!SuggestTool(IF p[i].text = {} THEN a.text ELSE p[i].text, a.text)
  <2>2. h[i] = CASE p[i].skill = "finance" -> [p[i] EXCEPT !.tool = "finance"]
                 [] p[i].skill = "research" /\ p[i].tool = P!Unset -> [p[i] EXCEPT !.tool = suggested]
                 [] OTHER -> p[i]
    BY <1>1 DEF P!Hinted
  <2>3. suggested \in SearchTools \cup {"finance"}  BY Suggested
  <2> HIDE DEF h, suggested
  <2>4. CASE p[i].skill = "finance"
    <3>1. h[i] = [p[i] EXCEPT !.tool = "finance"]  BY <2>2, <2>4
    <3> QED BY <2>1, <2>4, <3>1
  <2>5. CASE p[i].skill = "research" /\ p[i].tool = P!Unset
    <3>1. h[i] = [p[i] EXCEPT !.tool = suggested]  BY <2>2, <2>5
    <3> QED BY <2>1, <2>3, <2>5, <3>1
  <2>6. CASE p[i].skill # "finance" /\ ~(p[i].skill = "research" /\ p[i].tool = P!Unset)
    <3>1. h[i] = p[i]  BY <2>2, <2>6
    <3> QED BY <2>6, <3>1 DEF SearchTools
  <2> QED BY <2>4, <2>5, <2>6
<1> HIDE DEF h
<1>4. Listed(h) /\ Len(h) = n /\ DOMAIN h = 1..n  BY <1>1, <1>2, Listing
<1>5. P!Ids(h) = P!Ids(p) /\ P!Skills(h) = P!Skills(p)  BY <1>1, <1>3, <1>4 DEF P!Ids, P!Skills
<1>6. Shaped(h)  BY <1>1, <1>3, <1>4, <1>5 DEF Shaped
<1>7. Concluded(h)  BY <1>1, <1>3, <1>4, <1>5 DEF Concluded
<1>8. Suited(h)  BY <1>1, <1>3, <1>4 DEF Suited, Posed, Asks
<1> QED BY <1>6, <1>7, <1>8 DEF h

(* Whatever the prompt is and the model replies.                           *)
LEMMA PlansShaped ==
  ASSUME NEW a, Understood(a), NEW replies, NEW plan \in P!Plans(a, Registered, replies)
  PROVE  Shaped(plan) /\ Concluded(plan) /\ Suited(plan)
<1>0. Posed(P!FixedPlan(a))  BY FixedPosed DEF Understood
<1>1. P!FixedPlan(a) = <<>> \/ (Shaped(P!FixedPlan(a)) /\ Concluded(P!FixedPlan(a)))
  BY DirectShaped, AmbiguousShaped, LookupsShaped, TrendShaped, LocalShaped, TravelShaped DEF P!FixedPlan
<1>2. ASSUME NEW r \in P!Routings(a, Registered), NEW reply
      PROVE  Shaped(P!TaskPlan(a, r, reply)) /\ Concluded(P!TaskPlan(a, r, reply)) /\ Posed(P!TaskPlan(a, r, reply))
  BY TaskPlanShaped DEF Understood
<1>3. CASE P!FixedPlan(a) # <<>>
  <2>1. plan = P!Hinted(P!FixedPlan(a), a)  BY <1>3 DEF P!Plans
  <2> QED BY <1>0, <1>1, <1>3, <2>1, Hinted
<1>4. CASE P!FixedPlan(a) = <<>>
  <2>1. PICK r \in P!Routings(a, Registered), reply \in replies : plan = P!Hinted(P!TaskPlan(a, r, reply), a)
    BY <1>4 DEF P!Plans
  <2> QED BY <1>2, <2>1, Hinted
<1> QED BY <1>3, <1>4

-----------------------------------------------------------------------------
(* What the skills keep.                                                   *)
Quotes == [asset : {"none", "XAU", "BTC", "ETH"}, age : {"none", "fresh", "stale"},
           source : {"none", "goldapi", "stooq", "duckduckgo", "coingecko"}]
Breakers == [streak : 0..ExtractionThreshold, blocked : BOOLEAN]

(* A quote of some age has its asset and its feed.                         *)
Kept(quote) ==
  quote \in Quotes /\ (quote.age # "none" => quote.asset # "none" /\ quote.source # "none")
Keeps(cache) == cache \in [CacheKeys -> Quotes] /\ \A k \in CacheKeys : Kept(cache[k])

LEMMA NothingQuoted == Kept(NoQuote) /\ Keeps(EmptyCache)
<1>1. Kept(NoQuote)  BY DEF NoQuote, Kept, Quotes
<1>2. EmptyCache = [k \in CacheKeys |-> NoQuote]  BY DEF EmptyCache
<1> QED BY <1>1, <1>2 DEF Keeps, Kept

LEMMA QuoteKept ==
  ASSUME NEW q, NEW feeds
  PROVE  Kept(Quote(q, feeds)) /\ (Quote(q, feeds) # NoQuote => Quote(q, feeds).age = "fresh")
<1> DEFINE chain == CASE Asset(q) = "XAU" -> <<"goldapi", "stooq", "duckduckgo">>
                      [] Asset(q) \in {"BTC", "ETH"} -> <<"coingecko">> [] OTHER -> <<>>
           live == {i \in DOMAIN chain : chain[i] \in feeds}
<1>1. Quote(q, feeds) = IF live = {} THEN NoQuote
                        ELSE [asset |-> Asset(q), source |-> chain[Min(live)], age |-> "fresh"]
  BY DEF Quote
<1>2. Kept(NoQuote)  BY NothingQuoted
<1>3. DOMAIN chain \subseteq 1..3 /\ \A i \in DOMAIN chain :
        Asset(q) \in {"XAU", "BTC", "ETH"} /\ chain[i] \in {"goldapi", "stooq", "duckduckgo", "coingecko"}
  <2>1. CASE Asset(q) = "XAU"
    <3>1. chain = <<"goldapi", "stooq", "duckduckgo">>  BY <2>1
    <3> HIDE DEF chain
    <3> QED BY <2>1, <3>1
  <2>2. CASE Asset(q) \in {"BTC", "ETH"}
    <3>1. chain = <<"coingecko">>  BY <2>2
    <3> HIDE DEF chain
    <3> QED BY <2>2, <3>1
  <2>3. CASE Asset(q) \notin {"XAU", "BTC", "ETH"}
    <3>1. chain = <<>>  BY <2>3
    <3> HIDE DEF chain
    <3> QED BY <3>1
  <2> QED BY <2>1, <2>2, <2>3
<1> HIDE DEF chain
<1>4. CASE live # {}
  <2>1. live \in SUBSET (1..3)  BY <1>3
  <2>2. Min(live) \in live  BY <1>4, <2>1, LeastOf
  <2>3. Asset(q) \in {"XAU", "BTC", "ETH"} /\ chain[Min(live)] \in {"goldapi", "stooq", "duckduckgo", "coingecko"}
    BY <1>3, <2>2
  <2> HIDE DEF live
  <2> QED BY <1>1, <1>4, <2>3 DEF Kept, Quotes
<1> QED BY <1>1, <1>2, <1>4

LEMMA CachedKept ==
  ASSUME NEW cache, Keeps(cache), NEW q, NEW feeds
  PROVE  Keeps(Cached(q, cache, feeds))
  BY QuoteKept DEF Cached, Keeps, Kept

LEMMA AgedKept == ASSUME NEW quote, Kept(quote) PROVE Kept(Aged(quote))
<1>1. CASE quote.age = "fresh"  BY <1>1 DEF Aged, Kept, Quotes
<1>2. CASE quote.age # "fresh"
  <2>1. Aged(quote) = NoQuote  BY <1>2 DEF Aged
  <2> QED BY <2>1, NothingQuoted
<1> QED BY <1>1, <1>2

LEMMA ExtractingTyped ==
  ASSUME NEW b \in Breakers, NEW say
  PROVE  Extracting(b, say) \in Breakers
<1>1. b.streak \in 0..3 /\ b.blocked \in BOOLEAN  BY DEF Breakers, ExtractionThreshold
<1>2. Min({b.streak + 1, 3}) \in 0..3
  <2> DEFINE S == {b.streak + 1, 3}
  <2>1. S \in SUBSET (1..4) /\ 3 \in S  BY <1>1
  <2>2. S # {}  BY <2>1
  <2> HIDE DEF S
  <2>3. Min(S) \in S /\ Min(S) <= 3  BY <2>1, <2>2, LeastOf
  <2>4. Min(S) \in 1..4  BY <2>1, <2>3
  <2>5. Min(S) \in 0..3  BY <2>3, <2>4
  <2> QED BY <2>5 DEF S
<1>3. CASE b.blocked  BY <1>3 DEF Extracting
<1>4. CASE ~b.blocked /\ say \in {"grounded", "invented"}
  BY <1>4 DEF Extracting, Unblocked, Breakers, ExtractionThreshold
<1>5. CASE ~b.blocked /\ say \notin {"grounded", "invented"}
  <2>1. Extracting(b, say) = [streak |-> Min({b.streak + 1, 3}), blocked |-> b.streak + 1 >= 3]
    BY <1>5 DEF Extracting, ExtractionThreshold
  <2>2. (b.streak + 1 >= 3) \in BOOLEAN  OBVIOUS
  <2> QED BY <1>2, <2>1, <2>2 DEF Breakers, ExtractionThreshold
<1> QED BY <1>3, <1>4, <1>5

-----------------------------------------------------------------------------
(* What is found.                                                          *)

(* A document whose words and whose address are of those there may be.     *)
Sourced(d) ==
  /\ DOMAIN d = {"title", "snippet", "url", "site", "provider", "freshness", "published", "reliability"}
  /\ Scored(d)
  /\ d.snippet \subseteq Wording
  /\ d.url \in Addresses

Sources(s) == Listed(s) /\ \A i \in DOMAIN s : Sourced(s[i])

LEMMA Written ==
  /\ Invention \subseteq Wording /\ PlaceNames \subseteq Wording
  /\ {"XAU", "BTC", "ETH", "price", "result", "fallback", "source", "not enough verified information",
       "task", "observed_value"} \subseteq Wording
  /\ DOMAIN Figures \subseteq Wording /\ Fallback \subseteq Wording
  /\ \A q \in NodeTexts : q \subseteq Wording
  /\ {"tool://calculator", "goldapi", "stooq", "duckduckgo", "coingecko", "kitco.com", "sjc.com.vn"} \subseteq Addresses
<1> DEFINE S == UNION {d.snippet : d \in Replied}
           T == {"XAU", "BTC", "ETH", "price", "result", "fallback", "source", "not enough verified information",
                 "task", "observed_value"}
           A == {d.url : d \in Replied}
           B == {"tool://calculator", "goldapi", "stooq", "duckduckgo", "coingecko", "kitco.com", "sjc.com.vn"}
<1>1. Wording = S \cup (UNION NodeTexts) \cup Invention \cup PlaceNames \cup Fallback \cup T \cup DOMAIN Figures
  BY DEF Wording
<1>2. Addresses = A \cup B  BY DEF Addresses
<1>3. /\ Invention \subseteq Wording /\ PlaceNames \subseteq Wording /\ T \subseteq Wording
      /\ DOMAIN Figures \subseteq Wording /\ Fallback \subseteq Wording
      /\ \A q \in NodeTexts : q \subseteq Wording
  <2> HIDE DEF S, T
  <2> QED BY <1>1
<1>4. B \subseteq Addresses
  <2> HIDE DEF A, B
  <2> QED BY <1>2
<1> QED BY <1>3, <1>4

LEMMA Unfound == Listed(<<>>) /\ Sources(<<>>)
<1>1. Listed(<<>>) /\ DOMAIN <<>> = {}  BY DEF Listed
<1> QED BY <1>1 DEF Sources

LEMMA RangeOf ==
  ASSUME NEW s, Listed(s)
  PROVE  IsFiniteSet(Range(s)) /\ \A x \in Range(s) : \E i \in DOMAIN s : x = s[i]
<1>1. Len(s) \in Nat /\ DOMAIN s = 1..Len(s)  BY ListedFacts
<1>2. Range(s) = {s[i] : i \in DOMAIN s}  BY DEF Range
<1> DEFINE f == [i \in DOMAIN s |-> s[i]]
<1>3. f \in Surjection(DOMAIN s, Range(s))  BY <1>2 DEF Surjection
<1>4. IsFiniteSet(DOMAIN s)  BY <1>1, FS_Interval
<1> HIDE DEF f
<1> QED BY <1>2, <1>3, <1>4, FS_Surjection

(* The first of a sequence.                                                *)
LEMMA FirstOf ==
  ASSUME NEW s, Listed(s), NEW n \in Nat
  PROVE  /\ Listed(First(s, n)) /\ DOMAIN First(s, n) \subseteq DOMAIN s
         /\ \A i \in DOMAIN First(s, n) : First(s, n)[i] = s[i]
<1> DEFINE k == Lower(n, Len(s))
           V == {s[i] : i \in DOMAIN s}
           t == SubSeq(s, 1, k)
<1>1. Len(s) \in Nat /\ DOMAIN s = 1..Len(s)  BY ListedFacts
<1>2. First(s, n) = t  BY DEF First, Lower
<1>3. k \in Nat /\ k <= Len(s)
  <2>1. n \in Int /\ Len(s) \in Int  BY <1>1
  <2> QED BY <1>1, <2>1, Clipped
<1> HIDE DEF k
<1>4. /\ t \in Seq(V)
      /\ Len(t) = IF 1 <= k THEN k - 1 + 1 ELSE 0
      /\ \A i \in 1..(k - 1 + 1) : t[i] = s[1 + i - 1]
  <2>1. \A i \in 1..k : s[i] \in V  BY <1>1, <1>3
  <2> HIDE DEF V
  <2> QED BY <1>3, <2>1, SubSeqProperties
<1>5. DOMAIN t = 1..k /\ \A i \in 1..k : t[i] = s[i]
  <2> HIDE DEF t, V
  <2>1. Len(t) = k  BY <1>3, <1>4
  <2>2. DOMAIN t = 1..k  BY <1>4, <2>1, LenProperties
  <2>3. \A i \in 1..k : i \in 1..(k - 1 + 1) /\ 1 + i - 1 = i  BY <1>3
  <2> QED BY <1>4, <2>2, <2>3
<1>6. Listed(t)
  <2> HIDE DEF t
  <2>1. t = [i \in 1..k |-> t[i]]  BY <1>4, <1>5, LenProperties
  <2> QED BY <1>3, <2>1, Listing
<1>7. 1..k \subseteq 1..Len(s)  BY <1>1, <1>3
<1> HIDE DEF t
<1> QED BY <1>1, <1>2, <1>5, <1>6, <1>7

LEMMA FirstSourced ==
  ASSUME NEW s, Sources(s), NEW n \in Nat
  PROVE  Sources(First(s, n))
<1>1. /\ Listed(First(s, n)) /\ DOMAIN First(s, n) \subseteq DOMAIN s
      /\ \A i \in DOMAIN First(s, n) : First(s, n)[i] = s[i]
  BY FirstOf DEF Sources
<1> QED BY <1>1 DEF Sources

(* What is ranked is of what was found.                                    *)
LEMMA RankedSourced ==
  ASSUME NEW q, NEW docs, Sources(docs), NEW S \in SUBSET DOMAIN docs, NEW limit \in Nat
  PROVE  LET r == RankedAmong(q, docs, S, limit)
         IN Sources(r) /\ \A i \in DOMAIN r : \E j \in S : r[i] = docs[j]
<1> DEFINE r == RankedAmong(q, docs, S, limit)
<1>1. Len(docs) \in Nat /\ DOMAIN docs = 1..Len(docs)  BY ListedFacts DEF Sources
<1>2. IsFiniteSet(DOMAIN docs)  BY <1>1, FS_Interval
<1>3. S \in SUBSET Int /\ IsFiniteSet(S)
  <2>1. S \in SUBSET Int  BY <1>1
  <2> QED BY <1>2, <2>1, FS_Subset
<1>4. \A i \in S : Sourced(docs[i]) /\ Scored(docs[i])  BY DEF Sources, Sourced
<1>5. \E n \in Nat : \E f \in [1..n -> S] : r = [k \in 1..n |-> docs[f[k]]]
  <2>1. \A i \in S : Scored(docs[i])  BY <1>4
  <2>2. \E n \in Nat : \E f \in [1..n -> S] :
          /\ n <= limit /\ n <= Cardinality(S) /\ (n = limit \/ n = Cardinality(S))
          /\ RankedAmong(q, docs, S, limit) = [k \in 1..n |-> docs[f[k]]]
          /\ \A k \in 1..n : Picks(q, docs, S, f, k)
    BY <1>3, <2>1, RankedAre
  <2> QED BY <2>2
<1> HIDE DEF r
<1>6. PICK n \in Nat : \E f \in [1..n -> S] : r = [k \in 1..n |-> docs[f[k]]]  BY <1>5
<1>7. PICK f \in [1..n -> S] : r = [k \in 1..n |-> docs[f[k]]]  BY <1>6
<1>8. r = [k \in 1..n |-> r[k]]  BY <1>7
<1>9. Listed(r) /\ DOMAIN r = 1..n  BY <1>8, Listing
<1>10. \A i \in DOMAIN r : r[i] = docs[f[i]] /\ f[i] \in S  BY <1>7, <1>9
<1>11. Sources(r) /\ \A i \in DOMAIN r : \E j \in S : r[i] = docs[j]  BY <1>4, <1>9, <1>10 DEF Sources
<1> QED BY <1>11 DEF r

(* A search finds such documents; so do its tools, and what a research     *)
(* makes of their output.                                                  *)
LEMMA BatchSourced == ASSUME NEW b \in Batches \cup {Lost} PROVE Sources(b.docs)
<1>1. CASE b \in Batches
  <2> DEFINE D == [title : SUBSET STRING, snippet : SUBSET STRING, url : STRING, site : STRING, provider : STRING,
                   freshness : STRING, published : STRING, reliability : Int]
  <2>1. b.docs \in Seq(D)  BY <1>1, PipelineAssumption
  <2>2. \A d \in D : d.reliability \in Int /\ DOMAIN d = {"title", "snippet", "url", "site", "provider", "freshness",
                                                       "published", "reliability"}
    OBVIOUS
  <2> HIDE DEF D
  <2>3. Len(b.docs) \in Nat /\ b.docs = [i \in 1..Len(b.docs) |-> b.docs[i]] /\ \A i \in DOMAIN b.docs : b.docs[i] \in D
    BY <2>1
  <2>4. Listed(b.docs)  BY <2>3, Listing
  <2>5. ASSUME NEW i \in DOMAIN b.docs  PROVE Sourced(b.docs[i])
    <3> DEFINE d == b.docs[i]
    <3>1. d \in D  BY <2>3
    <3>2. d \in Replied  BY <1>1 DEF Replied, Range
    <3> HIDE DEF d
    <3>3. IsFiniteSet(d.title) /\ IsFiniteSet(d.snippet)  BY <3>2, PipelineAssumption
    <3>4. d.snippet \subseteq Wording /\ d.url \in Addresses  BY <3>2 DEF Wording, Addresses
    <3>5. Sourced(d)  BY <2>2, <3>1, <3>3, <3>4 DEF Sourced, Scored
    <3> QED BY <3>5 DEF d
  <2> QED BY <2>4, <2>5 DEF Sources
<1>2. CASE b = Lost
  <2>1. b.docs = <<>>  BY <1>2 DEF Lost, Found
  <2> QED BY <2>1, Unfound
<1> QED BY <1>1, <1>2

LEMMA AsDocumentsSourced ==
  ASSUME NEW tool, NEW docs, Sources(docs)
  PROVE  Sources(AsDocuments(tool, docs))
<1> DEFINE by(d) == IF tool = "news_api" THEN [d EXCEPT !.freshness = "live"]
               ELSE [d EXCEPT !.provider = tool,
                              !.reliability = CASE tool = "web_search" -> 70 [] tool = "fetch_page" -> 72 [] OTHER -> @,
                              !.published = IF tool \in {"web_search", "local_search", "fetch_page"} THEN "none" ELSE @]
           r == AsDocuments(tool, docs)
<1>1. Len(docs) \in Nat /\ DOMAIN docs = 1..Len(docs)  BY ListedFacts DEF Sources
<1>2. r = [k \in DOMAIN docs |-> by(docs[k])]  BY DEF AsDocuments
<1>3. ASSUME NEW d, Sourced(d)  PROVE Sourced(by(d))
  BY <1>3 DEF Sourced, Scored
<1> HIDE DEF by, r
<1>4. r = [k \in 1..Len(docs) |-> r[k]]  BY <1>1, <1>2
<1>5. Listed(r) /\ DOMAIN r = DOMAIN docs  BY <1>1, <1>4, Listing
<1>6. \A k \in DOMAIN r : r[k] = by(docs[k])  BY <1>2, <1>5
<1>7. Sources(r)  BY <1>3, <1>5, <1>6 DEF Sources
<1> QED BY <1>7 DEF r

LEMMA OneSourced == ASSUME NEW d, Sourced(d) PROVE Sources(<<d>>)
<1> DEFINE s == <<d>>
<1>1. s = [i \in 1..1 |-> s[i]] /\ \A i \in 1..1 : s[i] = d  OBVIOUS
<1> HIDE DEF s
<1>2. Listed(s) /\ DOMAIN s = 1..1  BY <1>1, Listing
<1>3. Sources(s)  BY <1>1, <1>2 DEF Sources
<1> QED BY <1>3 DEF s

LEMMA ToolSourced ==
  ASSUME NEW tool, NEW q, NEW a \in Attempts
  PROVE  Sources(UseTool(tool, q, a).docs)
<1> DEFINE answered == {i \in DOMAIN a : i <= Retries[tool] + 1 /\ a[i] # Lost}
           of(batch) == CASE tool = "weather" -> WeatherTool(batch) [] tool = "fetch_page" -> FetchPage(batch)
                          [] tool = "calculator" -> Calculator(q) [] OTHER -> SearchTool(batch)
<1>1. \A i \in DOMAIN a : i \in 1..3 /\ a[i] \in Batches \cup {Lost}
  BY DEF Attempts
<1>2. UseTool(tool, q, a) = IF answered = {} THEN Refused("timeout") ELSE of(a[Min(answered)])
  BY DEF UseTool, WithRetries
<1>3. \A e : Refused(e).docs = <<>>  BY DEF Refused, Output
<1>4. \A s, c : Given(s, c).docs = s  BY DEF Given, Output
<1>5. ASSUME NEW b \in Batches \cup {Lost}  PROVE Sources(of(b).docs)
  <2>1. Sources(b.docs)  BY BatchSourced
  <2>2. CASE tool = "weather"
    <3>1. of(b) = WeatherTool(b)  BY <2>2
    <3>2. WeatherTool(b).docs = IF b.docs = <<>> THEN Refused("insufficient_live_evidence").docs
                                ELSE Given(b.docs, Max({10, b.conf})).docs
      BY DEF WeatherTool, Refused, Given, Output
    <3> QED BY <1>3, <1>4, <2>1, <3>1, <3>2, Unfound
  <2>3. CASE tool = "fetch_page"
    <3>1. of(b) = FetchPage(b)  BY <2>3
    <3>2. Sources(First(b.docs, 1))  BY <2>1, FirstSourced
    <3>3. FetchPage(b).docs = IF b.docs = <<>> THEN <<>> ELSE First(b.docs, 1)  BY <1>3, <1>4 DEF FetchPage
    <3> QED BY <3>1, <3>2, <3>3, Unfound
  <2>4. CASE tool = "calculator"
    <3> DEFINE d == [title |-> {"calculation"}, snippet |-> {"result"}, url |-> "tool://calculator",
                     site |-> "", provider |-> "calculator",
                     freshness |-> "live", published |-> "none", reliability |-> 99]
    <3>1. of(b) = Calculator(q)  BY <2>4
    <3>2. Calculator(q).docs = IF q = {"sum"} THEN <<d>> ELSE <<>>  BY <1>3, <1>4 DEF Calculator
    <3>3. Sourced(d)
      <4>1. IsFiniteSet({"calculation"}) /\ IsFiniteSet({"result"})  BY FS_Singleton
      <4>2. {"result"} \subseteq Wording /\ "tool://calculator" \in Addresses  BY Written
      <4> QED BY <4>1, <4>2 DEF Sourced, Scored
    <3> HIDE DEF d
    <3> QED BY <3>1, <3>2, <3>3, OneSourced, Unfound
  <2>5. CASE tool \notin {"weather", "fetch_page", "calculator"}
    <3>1. of(b) = SearchTool(b)  BY <2>5
    <3>2. SearchTool(b).docs = IF b.docs = <<>> THEN <<>> ELSE b.docs  BY <1>3, <1>4 DEF SearchTool
    <3> QED BY <2>1, <3>1, <3>2, Unfound
  <2> QED BY <2>2, <2>3, <2>4, <2>5
<1> HIDE DEF of
<1>6. answered # {} => Min(answered) \in answered
  <2>1. answered \in SUBSET (1..3)  BY <1>1
  <2> HIDE DEF answered
  <2> QED BY <2>1, LeastOf
<1>7. CASE answered = {}
  BY <1>2, <1>3, <1>7, Unfound
<1>8. CASE answered # {}
  <2> PICK b : b = a[Min(answered)]  OBVIOUS
  <2>1. b \in Batches \cup {Lost}  BY <1>1, <1>6, <1>8
  <2> HIDE DEF answered
  <2> QED BY <1>2, <1>5, <1>8, <2>1
<1> QED BY <1>7, <1>8

(* What a table of hints gives is in the table.                            *)
LEMMA FirstMentionOf ==
  ASSUME NEW t, NEW table, NEW n \in Nat, DOMAIN table = 1..n, NEW other
  PROVE  FirstMention(t, table, other) = other \/ \E i \in 1..n : FirstMention(t, table, other) = table[i][2]
<1> DEFINE hits == {i \in DOMAIN table : Mentions(t, table[i][1])}
<1>1. FirstMention(t, table, other) = IF hits = {} THEN other ELSE table[Min(hits)][2]  BY DEF FirstMention
<1>2. hits \in SUBSET (1..n)  OBVIOUS
<1> HIDE DEF hits
<1>3. hits # {} => Min(hits) \in 1..n  BY <1>2, LeastOf
<1> QED BY <1>1, <1>3

LEMMA CacheKeyOf == ASSUME NEW q PROVE CacheKey(q) \in CacheKeys
<1> DEFINE table == << <<{"ethereum", "eth"}, "crypto:ethusd">>, <<{"bitcoin", "btc"}, "crypto:btcusd">> >>
<1>1. CacheKey(q) = FirstMention(q, table, "gold:xauusd")  BY DEF CacheKey
<1>2. DOMAIN table = 1..2 /\ table[1][2] = "crypto:ethusd" /\ table[2][2] = "crypto:btcusd"  OBVIOUS
<1> HIDE DEF table
<1>3. CacheKey(q) = "gold:xauusd" \/ \E i \in 1..2 : CacheKey(q) = table[i][2]
  <2>1. \A n \in Nat : DOMAIN table = 1..n =>
          \/ FirstMention(q, table, "gold:xauusd") = "gold:xauusd"
          \/ \E i \in 1..n : FirstMention(q, table, "gold:xauusd") = table[i][2]
    BY FirstMentionOf
  <2> QED BY <1>1, <1>2, <2>1
<1> QED BY <1>2, <1>3 DEF CacheKeys

(* The finance tool quotes what it kept or what a feed answers.            *)
LEMMA FinanceSourced ==
  ASSUME NEW q, NEW cache, Keeps(cache), NEW feeds
  PROVE  Sources(Finance(q, cache, feeds).docs)
<1> DEFINE kept == cache[CacheKey(q)]
           live == Quote(q, feeds)
           doc(quote) == [title |-> {quote.asset}, snippet |-> {quote.asset, "price"}, url |-> quote.source,
                          site |-> quote.source, provider |-> quote.source, freshness |-> "live", published |-> "day",
                          reliability |-> 92]
           quoted(quote, conf) == [Given(<<doc(quote)>>, conf) EXCEPT !.quote = quote.asset]
           out == Finance(q, cache, feeds)
<1>1. Kept(kept)  BY CacheKeyOf DEF Keeps
<1>2. Kept(live) /\ (live # NoQuote => live.age = "fresh")  BY QuoteKept
<1>3. \/ \E conf : out = quoted(kept, conf) /\ kept.age \in {"fresh", "stale"}
      \/ live # NoQuote /\ out = quoted(live, 87)
      \/ \E error : out = Refused(error)
      \/ \E error, conf : out = [Refused(error) EXCEPT !.conf = conf]
  <2>1. out = IF kept.age = "fresh" THEN quoted(kept, 20)
              ELSE IF Asset(q) = "unsupported" THEN Refused("unsupported_market_asset")
              ELSE IF feeds = Silence THEN Refused("timeout")
              ELSE IF live # NoQuote THEN quoted(live, 87)
              ELSE IF kept.age = "stale" THEN quoted(kept, 20)
              ELSE [Refused("finance_data_unavailable") EXCEPT !.conf = IF Asset(q) = "XAU" THEN 45 ELSE 40]
    BY DEF Finance
  <2> HIDE DEF kept, live, quoted, out
  <2> QED BY <2>1
<1>4. ASSUME NEW quote, Kept(quote), quote.age # "none", NEW conf
      PROVE  Sources(quoted(quote, conf).docs)
  <2>1. /\ quote.asset \in {"XAU", "BTC", "ETH"}
        /\ quote.source \in {"goldapi", "stooq", "duckduckgo", "coingecko"}
    BY <1>4 DEF Kept, Quotes
  <2>2. {quote.asset, "price"} \subseteq Wording /\ quote.source \in Addresses  BY <2>1, Written
  <2>3. IsFiniteSet({quote.asset}) /\ IsFiniteSet({quote.asset, "price"})
    <3>1. {quote.asset, "price"} = {quote.asset} \cup {"price"}  OBVIOUS
    <3>2. IsFiniteSet({quote.asset}) /\ IsFiniteSet({"price"})  BY FS_Singleton
    <3>3. IsFiniteSet({quote.asset} \cup {"price"})  BY <3>2, FS_Union
    <3> QED BY <3>1, <3>2, <3>3
  <2>4. Sourced(doc(quote))  BY <2>2, <2>3 DEF Sourced, Scored
  <2>5. quoted(quote, conf).docs = <<doc(quote)>>  BY DEF Given, Output
  <2> HIDE DEF doc, quoted
  <2> QED BY <2>4, <2>5, OneSourced
<1>5. ASSUME NEW error, NEW conf
      PROVE  Refused(error).docs = <<>> /\ [Refused(error) EXCEPT !.conf = conf].docs = <<>>
  BY DEF Refused, Output
<1> HIDE DEF kept, live, quoted, out
<1>6. Sources(out.docs)
  <2>1. CASE \E conf : out = quoted(kept, conf) /\ kept.age \in {"fresh", "stale"}
    <3>1. PICK conf : out = quoted(kept, conf) /\ kept.age \in {"fresh", "stale"}  BY <2>1
    <3> QED BY <1>1, <1>4, <3>1
  <2>2. CASE live # NoQuote /\ out = quoted(live, 87)  BY <1>2, <1>4, <2>2
  <2>3. CASE \E error : out = Refused(error)  BY <1>5, <2>3, Unfound
  <2>4. CASE \E error, conf : out = [Refused(error) EXCEPT !.conf = conf]
    <3>1. PICK error, conf : out = [Refused(error) EXCEPT !.conf = conf]  BY <2>4
    <3> QED BY <1>5, <3>1, Unfound
  <2> QED BY <1>3, <2>1, <2>2, <2>3, <2>4
<1> QED BY <1>6 DEF out

-----------------------------------------------------------------------------
(* What a node returns.                                                    *)

(* A text whose claims are words that may be written.                      *)
Worded(t) ==
  /\ DOMAIN t = {"claims", "notice", "hedge", "read", "error"}
  /\ IsFiniteSet(t.claims)
  /\ \A c \in t.claims : c \subseteq Wording

AllWorded(T) == IsFiniteSet(T) /\ \A t \in T : Worded(t)

(* Data points of known sources, with words that may be written.           *)
Charted(points) ==
  /\ IsFiniteSet(points)
  /\ \A p \in points : IsFiniteSet(PointClaim(p)) /\ PointClaim(p) \subseteq Wording /\ p.source \in Addresses

(* A result with such a text, such sources and such points; only an        *)
(* analysis has any.                                                       *)
Fine(r) ==
  /\ DOMAIN r = {"ok", "error", "kind", "text", "sources", "conf", "points", "conflicts", "quality", "names"}
  /\ Worded(r.text)
  /\ Sources(r.sources)
  /\ Charted(r.points)
  /\ r.points # {} => r.ok /\ r.kind = "analysis"

AllFine(deps) == IsFiniteSet(DOMAIN deps) /\ \A d \in DOMAIN deps : Fine(deps[d])

(* What a finite set is mapped to.                                         *)
LEMMA Mapped ==
  ASSUME NEW f, IsFiniteSet(DOMAIN f)
  PROVE  IsFiniteSet({f[x] : x \in DOMAIN f})
<1> DEFINE T == {f[x] : x \in DOMAIN f}
           g == [x \in DOMAIN f |-> f[x]]
<1>1. g \in Surjection(DOMAIN f, T)  BY DEF Surjection
<1> HIDE DEF g
<1>2. IsFiniteSet(T)
  <2> HIDE DEF T
  <2> QED BY <1>1, FS_Surjection
<1> QED BY <1>2

LEMMA NothingSaid ==
  /\ Worded(NoText) /\ Worded(Hedge) /\ AllWorded({})
  /\ NoText.claims = {}
<1>1. NoText.claims = {} /\ Hedge.claims = {}  BY DEF NoText, Hedge
<1>2. /\ DOMAIN NoText = {"claims", "notice", "hedge", "read", "error"}
      /\ DOMAIN Hedge = {"claims", "notice", "hedge", "read", "error"}
  BY DEF NoText, Hedge
<1>3. IsFiniteSet({})  BY FS_EmptySet
<1> QED BY <1>1, <1>2, <1>3 DEF Worded, AllWorded

LEMMA MergedWorded == ASSUME NEW T, AllWorded(T) PROVE Worded(Merged(T))
<1> DEFINE f == [t \in T |-> t.claims]
           C == {t.claims : t \in T}
<1>1. Merged(T).claims = UNION C /\ DOMAIN Merged(T) = {"claims", "notice", "hedge", "read", "error"}
  BY DEF Merged, NoText
<1>2. IsFiniteSet({f[t] : t \in DOMAIN f})
  <2>1. IsFiniteSet(DOMAIN f)  BY DEF AllWorded
  <2> HIDE DEF f
  <2> QED BY <2>1, Mapped
<1>3. C = {f[t] : t \in DOMAIN f}  OBVIOUS
<1>4. IsFiniteSet(C)  BY <1>2, <1>3
<1>5. \A c \in C : IsFiniteSet(c) /\ \A x \in c : x \subseteq Wording  BY DEF AllWorded, Worded
<1>6. IsFiniteSet(UNION C)
  <2> HIDE DEF C
  <2> QED BY <1>4, <1>5, FS_UNION
<1>7. \A x \in UNION C : x \subseteq Wording  BY <1>5
<1> QED BY <1>1, <1>6, <1>7 DEF Worded

LEMMA SaidWorded == ASSUME NEW say, NEW T, AllWorded(T) PROVE Worded(Said(say, T)) /\ Worded(Notice(Said(say, T)))
<1> DEFINE shown == Merged(T)
           t == Said(say, T)
<1>1. Worded(shown)  BY MergedWorded
<1>2. Invention \subseteq Wording  BY Written
<1>3. IsFiniteSet({Invention}) /\ IsFiniteSet({})  BY FS_Singleton, FS_EmptySet
<1>4. Worded(t)
  <2>1. t = CASE say = "grounded" -> shown
              [] say = "invented" -> [shown EXCEPT !.claims = {Invention}]
              [] OTHER -> [shown EXCEPT !.claims = {}, !.hedge = (say = "unsure")]
    BY DEF Said
  <2> HIDE DEF t, shown
  <2>2. CASE say = "grounded"
    <3>1. t = shown  BY <2>1, <2>2
    <3> QED BY <1>1, <3>1
  <2>3. CASE say = "invented"
    <3>1. t = [shown EXCEPT !.claims = {Invention}]  BY <2>1, <2>3
    <3> QED BY <1>1, <1>2, <1>3, <3>1 DEF Worded
  <2>4. CASE say \notin {"grounded", "invented"}
    <3>1. t = [shown EXCEPT !.claims = {}, !.hedge = (say = "unsure")]  BY <2>1, <2>4
    <3> QED BY <1>1, <1>3, <3>1 DEF Worded
  <2> QED BY <2>2, <2>3, <2>4
<1> HIDE DEF t
<1>5. Worded(Notice(t))  BY <1>4 DEF Notice, Worded
<1> QED BY <1>4, <1>5 DEF t

LEMMA ExcerptsWorded ==
  ASSUME NEW D, IsFiniteSet(D), \A d \in D : Sourced(d)
  PROVE  Worded(Excerpts(D))
<1> DEFINE f == [d \in D |-> d.snippet]
           C == {d.snippet : d \in D}
<1>1. Excerpts(D).claims = C /\ DOMAIN Excerpts(D) = {"claims", "notice", "hedge", "read", "error"}
  BY DEF Excerpts, NoText
<1>2. IsFiniteSet({f[d] : d \in DOMAIN f})
  <2>1. IsFiniteSet(DOMAIN f)  OBVIOUS
  <2> HIDE DEF f
  <2> QED BY <2>1, Mapped
<1>3. C = {f[d] : d \in DOMAIN f}  OBVIOUS
<1>4. \A c \in C : c \subseteq Wording  BY DEF Sourced
<1> HIDE DEF C, f
<1> QED BY <1>1, <1>2, <1>3, <1>4 DEF Worded

(* All documents of a sequence.                                            *)
LEMMA SourcesExcerpted ==
  ASSUME NEW s, Sources(s)
  PROVE  Worded(Excerpts(Range(s))) /\ AllWorded({Excerpts(Range(s))})
<1>1. IsFiniteSet(Range(s)) /\ \A d \in Range(s) : \E i \in DOMAIN s : d = s[i]  BY RangeOf DEF Sources
<1>2. \A d \in Range(s) : Sourced(d)  BY <1>1 DEF Sources
<1>3. Worded(Excerpts(Range(s)))  BY <1>1, <1>2, ExcerptsWorded
<1>4. IsFiniteSet({Excerpts(Range(s))})  BY FS_Singleton
<1> QED BY <1>3, <1>4 DEF AllWorded

(* A result with another text, or with other sources.                      *)
LEMMA FineWith ==
  ASSUME NEW r, Fine(r)
  PROVE  /\ \A t : Worded(t) => Fine([r EXCEPT !.text = t])
         /\ \A s : Sources(s) => Fine([r EXCEPT !.sources = s])
         /\ \A e : Fine([r EXCEPT !.error = e])
         /\ Fine([r EXCEPT !.text = Notice(@)])
<1>1. Worded(r.text)  BY DEF Fine
<1>2. Worded(Notice(r.text))  BY <1>1 DEF Notice, Worded
<1>3. ASSUME NEW t, Worded(t)  PROVE Fine([r EXCEPT !.text = t])
  BY <1>3 DEF Fine
<1>4. ASSUME NEW s, Sources(s)  PROVE Fine([r EXCEPT !.sources = s])
  BY <1>4 DEF Fine
<1>5. ASSUME NEW e  PROVE Fine([r EXCEPT !.error = e])
  BY DEF Fine
<1> QED BY <1>2, <1>3, <1>4, <1>5

LEMMA Uncharted == Charted({})
<1>1. IsFiniteSet({})  BY FS_EmptySet
<1> QED BY <1>1 DEF Charted

LEMMA FineShapes ==
  /\ Fine(Result)
  /\ \A error : Fine(Fails(error)) /\ Fails(error).sources = <<>> /\ ~Fails(error).ok /\ Fails(error).text.claims = {}
  /\ \A t : Worded(t) => Fine(Plain(t))
  /\ \A t, s, conf : Worded(t) /\ Sources(s) => Fine(Research(t, s, conf)) /\ Research(t, s, conf).sources = s
  /\ \A t, conf, points, quality : Worded(t) /\ Charted(points) => Fine(Analysed(t, conf, points, quality))
<1> DEFINE F == {"ok", "error", "kind", "text", "sources", "conf", "points", "conflicts", "quality", "names"}
<1>1. /\ DOMAIN Result = F /\ Result.text = NoText /\ Result.sources = <<>> /\ Result.points = {} /\ Result.ok
  BY DEF Result
<1>2. Fine(Result)  BY <1>1, NothingSaid, Unfound, Uncharted DEF Fine
<1>3. ASSUME NEW error
      PROVE  Fine(Fails(error)) /\ Fails(error).sources = <<>> /\ ~Fails(error).ok /\ Fails(error).text.claims = {}
  <2> DEFINE t == [NoText EXCEPT !.error = TRUE]
             r == Fails(error)
  <2>1. Worded(t) /\ t.claims = {}  BY NothingSaid DEF Worded
  <2>2. r = [Result EXCEPT !.ok = FALSE, !.error = error, !.text = t]  BY DEF Fails
  <2> HIDE DEF t, r
  <2>3. DOMAIN r = F /\ r.text = t /\ r.sources = <<>> /\ r.points = {} /\ ~r.ok  BY <1>1, <2>2
  <2>4. Fine(r)  BY <2>1, <2>3, Unfound, Uncharted DEF Fine
  <2> QED BY <2>1, <2>3, <2>4 DEF r
<1>4. ASSUME NEW t, Worded(t)  PROVE Fine(Plain(t))
  BY <1>2, <1>4, FineWith DEF Plain
<1>5. ASSUME NEW t, NEW s, NEW conf, Worded(t), Sources(s)
      PROVE  Fine(Research(t, s, conf)) /\ Research(t, s, conf).sources = s
  <2> DEFINE r == Research(t, s, conf)
  <2>1. r = [Result EXCEPT !.kind = "research", !.text = t, !.sources = s, !.conf = conf]  BY DEF Research
  <2> HIDE DEF r
  <2>2. DOMAIN r = F /\ r.text = t /\ r.sources = s /\ r.points = {}  BY <1>1, <2>1
  <2>3. Fine(r)  BY <1>5, <2>2, Uncharted DEF Fine
  <2> QED BY <2>2, <2>3 DEF r
<1>6. ASSUME NEW t, NEW conf, NEW points, NEW quality, Worded(t), Charted(points)
      PROVE  Fine(Analysed(t, conf, points, quality))
  <2> DEFINE r == Analysed(t, conf, points, quality)
  <2>1. PICK n : n = Conflicts(points)  OBVIOUS
  <2>2. r = [Result EXCEPT !.kind = "analysis", !.text = t, !.conf = conf, !.points = points,
                           !.conflicts = n, !.quality = quality]
    BY <2>1 DEF Analysed
  <2> HIDE DEF r
  <2>3. /\ DOMAIN r = F /\ r.text = t /\ r.sources = <<>> /\ r.kind = "analysis" /\ r.ok /\ r.points = points
    BY <1>1, <2>2
  <2>4. Fine(r)  BY <1>6, <2>3, Unfound DEF Fine
  <2> QED BY <2>4 DEF r
<1> QED BY <1>2, <1>3, <1>4, <1>5, <1>6

(* A sentence of the skill's own.                                          *)
LEMMA InconclusiveWorded == Worded(Inconclusive)
<1>1. IsFiniteSet({Fallback})  BY FS_Singleton
<1>2. Inconclusive.claims = {Fallback} /\ DOMAIN Inconclusive = DOMAIN NoText  BY NothingSaid DEF Inconclusive, Worded
<1>3. \A c \in {Fallback} : c \subseteq Wording  BY Written
<1> QED BY <1>1, <1>2, <1>3, NothingSaid DEF Worded

(* Another text in place of none.                                          *)
LEMMA OtherWorded ==
  ASSUME NEW other, Worded(other), NEW say, NEW T, AllWorded(T)
  PROVE  Worded(SaidOr(other, say, T)) /\ Worded(Notice(SaidOr(other, say, T)))
<1>1. Worded(SaidOr(other, say, T))  BY SaidWorded DEF SaidOr
<1> PICK t : t = SaidOr(other, say, T)  OBVIOUS
<1>2. Worded(Notice(t))  BY <1>1 DEF Notice, Worded
<1> QED BY <1>1, <1>2

LEMMA GeneratedFine == ASSUME NEW say, NEW T, AllWorded(T) PROVE Fine(Generated(say, T))
  BY SaidWorded, FineShapes DEF Generated

LEMMA GeneratedOrFine ==
  ASSUME NEW other, Worded(other), NEW say, NEW T, AllWorded(T)
  PROVE  Fine(GeneratedOr(other, say, T))
  BY OtherWorded, FineShapes DEF GeneratedOr

-----------------------------------------------------------------------------
(* The skills.                                                             *)

(* Nothing that was invented.                                              *)
Clean(s) == \A d \in Range(s) : d.provider # "mock" /\ d.site # "example.local"

(* What the filter lets through was found, and is not invented.            *)
LEMMA FilterSourced ==
  ASSUME NEW q, NEW docs, Sources(docs)
  PROVE  Sources(Filter(q, docs).docs) /\ Clean(Filter(q, docs).docs)
<1> DEFINE live == {i \in DOMAIN docs : ~IsMock(docs[i])}
           subject == FirstMention(q, SubjectGroups, {})
           relevant == {i \in live : subject = {} \/ Mentions(docs[i].title \cup docs[i].snippet, subject)}
           n == Cardinality(relevant)
           r == RankedAmong(q, docs, relevant, n)
<1>1. Filter(q, docs).docs = r  BY DEF Filter
<1>2. relevant \in SUBSET DOMAIN docs /\ \A i \in relevant : ~IsMock(docs[i])  OBVIOUS
<1>3. n \in Nat
  <2>1. Len(docs) \in Nat /\ DOMAIN docs = 1..Len(docs)  BY ListedFacts DEF Sources
  <2>2. IsFiniteSet(DOMAIN docs)  BY <2>1, FS_Interval
  <2> HIDE DEF relevant
  <2>3. IsFiniteSet(relevant)  BY <1>2, <2>2, FS_Subset
  <2> QED BY <2>3, FS_CardinalityType
<1> HIDE DEF relevant, n
<1>4. Sources(r) /\ \A i \in DOMAIN r : \E j \in relevant : r[i] = docs[j]  BY <1>2, <1>3, RankedSourced
<1> HIDE DEF r
<1>5. \A d \in Range(r) : ~IsMock(d)
  <2>1. \A d \in Range(r) : \E i \in DOMAIN r : d = r[i]  BY <1>4, RangeOf DEF Sources
  <2> QED BY <1>2, <1>4, <2>1
<1>6. Clean(r)  BY <1>5 DEF Clean, IsMock
<1> QED BY <1>1, <1>4, <1>6

LEMMA NothingFound == Clean(<<>>)
<1>1. \A d \in Range(<<>>) : \E i \in DOMAIN <<>> : d = <<>>[i]  BY RangeOf, Unfound
<1>2. DOMAIN <<>> = {}  OBVIOUS
<1> QED BY <1>1, <1>2 DEF Clean

LEMMA SummarisedFine ==
  ASSUME NEW q, NEW batch, Sources(batch.docs), NEW say
  PROVE  Fine(Summarised(q, batch, say)) /\ Clean(Summarised(q, batch, say).sources)
<1> DEFINE fit == Filter(q, batch.docs)
           t == SaidOr(Inconclusive, say, {Excerpts(Range(fit.docs))})
           r == Summarised(q, batch, say)
<1>1. Sources(fit.docs) /\ Clean(fit.docs)  BY FilterSourced
<1>2. Worded(t)
  <2> HIDE DEF fit
  <2>1. AllWorded({Excerpts(Range(fit.docs))})  BY <1>1, SourcesExcerpted
  <2> QED BY <2>1, InconclusiveWorded, OtherWorded
<1>3. (\E error : r = Fails(error)) \/ r = Research(t, fit.docs, batch.conf)  BY DEF Summarised
<1> HIDE DEF fit, t, r
<1>4. CASE \E error : r = Fails(error)
  <2>1. PICK error : r = Fails(error)  BY <1>4
  <2>2. Fine(r) /\ r.sources = <<>>  BY <2>1, FineShapes
  <2>3. Fine(r) /\ Clean(r.sources)  BY <2>2, NothingFound
  <2> QED BY <2>3 DEF r
<1>5. CASE r = Research(t, fit.docs, batch.conf)
  <2>1. Fine(r) /\ r.sources = fit.docs  BY <1>1, <1>2, <1>5, FineShapes
  <2>2. Fine(r) /\ Clean(r.sources)  BY <1>1, <2>1
  <2> QED BY <2>2 DEF r
<1> QED BY <1>3, <1>4, <1>5

LEMMA ResearchFine ==
  ASSUME NEW q, NEW tool, NEW out, Sources(out.docs), NEW batch, Sources(batch.docs), NEW say
  PROVE  LET r == ResearchSkill(q, tool, out, batch, say) IN Fine(r) /\ Clean(r.sources)
<1> DEFINE found == Found(AsDocuments(tool, out.docs), out.conf)
           r == ResearchSkill(q, tool, out, batch, say)
<1>1. Sources(found.docs)
  <2>1. found.docs = AsDocuments(tool, out.docs)  BY DEF Found
  <2> QED BY <2>1, AsDocumentsSourced
<1>2. \/ r = Summarised(q, found, say)
      \/ \E error : r = Fails(error)
      \/ r = Summarised(q, batch, say)
  <2>1. CASE tool # "" /\ out.ok  BY <2>1 DEF ResearchSkill
  <2>2. CASE tool = "finance" /\ ~out.ok  BY <2>2 DEF ResearchSkill
  <2>3. CASE tool \notin {"", "finance"} /\ ~out.ok /\ out.orchestrated  BY <2>3 DEF ResearchSkill
  <2>4. CASE ~(tool # "" /\ out.ok) /\ ~(tool = "finance" /\ ~out.ok)
             /\ ~(tool \notin {"", "finance"} /\ ~out.ok /\ out.orchestrated)
    <3>1. r = IF batch = Lost THEN Fails("search") ELSE Summarised(q, batch, say)  BY <2>4 DEF ResearchSkill
    <3> QED BY <3>1
  <2> QED BY <2>1, <2>2, <2>3, <2>4
<1> HIDE DEF found, r
<1>3. CASE \E error : r = Fails(error)
  <2>1. PICK error : r = Fails(error)  BY <1>3
  <2>2. Fine(r) /\ r.sources = <<>>  BY <2>1, FineShapes
  <2>3. Fine(r) /\ Clean(r.sources)  BY <2>2, NothingFound
  <2> QED BY <2>3 DEF r
<1>4. CASE r = Summarised(q, found, say)
  <2>1. Fine(r) /\ Clean(r.sources)  BY <1>1, <1>4, SummarisedFine
  <2> QED BY <2>1 DEF r
<1>5. CASE r = Summarised(q, batch, say)
  <2>1. Fine(r) /\ Clean(r.sources)  BY <1>5, SummarisedFine
  <2> QED BY <2>1 DEF r
<1> QED BY <1>2, <1>3, <1>4, <1>5

LEMMA FinanceFine == ASSUME NEW out, Sources(out.docs) PROVE Fine(FinanceSkill(out))
<1> DEFINE k == Hint("kitco.com")
           j == Hint("sjc.com.vn")
           hints == <<k, j>>
<1>1. Sources(hints)
  <2>1. ASSUME NEW site \in {"kitco.com", "sjc.com.vn"}  PROVE Sourced(Hint(site))
    <3>1. Hint(site).snippet \subseteq Wording /\ Hint(site).url \in Addresses  BY Written DEF Hint
    <3>2. IsFiniteSet({"reference"})  BY FS_Singleton
    <3>3. IsFiniteSet({"fallback"} \cup {"source"})
      <4>1. IsFiniteSet({"fallback"}) /\ IsFiniteSet({"source"})  BY FS_Singleton
      <4> QED BY <4>1, FS_Union
    <3>4. {"fallback", "source"} = {"fallback"} \cup {"source"}  OBVIOUS
    <3>5. IsFiniteSet({"fallback", "source"})  BY <3>3, <3>4
    <3>6. Scored(Hint(site))  BY <3>2, <3>5 DEF Hint, Scored
    <3>7. DOMAIN Hint(site) = {"title", "snippet", "url", "site", "provider", "freshness", "published", "reliability"}
      BY DEF Hint
    <3> QED BY <3>1, <3>6, <3>7 DEF Sourced
  <2>2. Sourced(k) /\ Sourced(j)  BY <2>1
  <2> HIDE DEF k, j
  <2>3. hints = [i \in 1..2 |-> hints[i]] /\ \A i \in 1..2 : hints[i] \in {k, j}  OBVIOUS
  <2> HIDE DEF hints
  <2>4. Listed(hints) /\ DOMAIN hints = 1..2  BY <2>3, Listing
  <2> QED BY <2>2, <2>3, <2>4 DEF Sources
<1>2. FinanceSkill(out) = IF out.ok THEN Research(Excerpts(Range(out.docs)), out.docs, out.conf)
                          ELSE Research(Hedge, hints, Max({20, out.conf}))
  BY DEF FinanceSkill
<1> HIDE DEF hints
<1>3. Worded(Excerpts(Range(out.docs))) /\ Worded(Hedge)  BY SourcesExcerpted, NothingSaid
<1>4. Fine(Research(Excerpts(Range(out.docs)), out.docs, out.conf))  BY <1>3, FineShapes
<1>5. Fine(Research(Hedge, hints, Max({20, out.conf})))  BY <1>1, <1>3, FineShapes
<1> QED BY <1>2, <1>4, <1>5

(* The texts of some of what a node was given.                             *)
LEMMA TextsWorded ==
  ASSUME NEW deps, AllFine(deps), NEW D \in SUBSET DOMAIN deps
  PROVE  AllWorded({deps[d].text : d \in D})
<1> DEFINE f == [d \in D |-> deps[d].text]
<1>1. IsFiniteSet(D)  BY FS_Subset DEF AllFine
<1>2. IsFiniteSet({f[d] : d \in DOMAIN f})
  <2>1. IsFiniteSet(DOMAIN f)  BY <1>1
  <2> HIDE DEF f
  <2> QED BY <2>1, Mapped
<1>3. {deps[d].text : d \in D} = {f[d] : d \in DOMAIN f}  OBVIOUS
<1>4. \A d \in D : Worded(deps[d].text)  BY DEF AllFine, Fine
<1> QED BY <1>2, <1>3, <1>4 DEF AllWorded

LEMMA TextsOfDeps == ASSUME NEW deps, AllFine(deps) PROVE AllWorded(Texts(deps))
<1>1. AllWorded({deps[d].text : d \in DOMAIN deps})  BY TextsWorded
<1> QED BY <1>1 DEF Texts

(* A finite set in some order.                                             *)
LEMMA InSomeOrder ==
  ASSUME NEW S, IsFiniteSet(S)
  PROVE  Listed(SetToSeq(S)) /\ \A i \in DOMAIN SetToSeq(S) : SetToSeq(S)[i] \in S
<1> DEFINE n == Cardinality(S)
           s == SetToSeq(S)
<1>1. n \in Nat /\ ExistsBijection(1..n, S)  BY FS_CardinalityType
<1>2. \E f \in [1..n -> S] : IsInjective(f)
  <2>1. PICK f \in Bijection(1..n, S) : TRUE  BY <1>1 DEF ExistsBijection
  <2>2. f \in [1..n -> S] /\ IsInjective(f)  BY <2>1 DEF Bijection, Injection, IsInjective
  <2> QED BY <2>2
<1>3. s = CHOOSE f \in [1..n -> S] : IsInjective(f)  BY DEF SetToSeq
<1> HIDE DEF n, s
<1>4. s \in [1..n -> S]  BY <1>2, <1>3
<1>5. s = [i \in 1..n |-> s[i]]  BY <1>4
<1>6. Listed(s) /\ DOMAIN s = 1..n  BY <1>1, <1>5, Listing
<1>7. Listed(s) /\ \A i \in DOMAIN s : s[i] \in S  BY <1>4, <1>6
<1> QED BY <1>7 DEF s

(* The sources of some of what a node was given.                           *)
LEMMA SourcesOf ==
  ASSUME NEW deps, AllFine(deps), NEW D \in SUBSET DOMAIN deps
  PROVE  LET U == UNION {Range(r.sources) : r \in {deps[d] : d \in D}}
         IN IsFiniteSet(U) /\ \A x \in U : Sourced(x)
<1> DEFINE f == [d \in D |-> Range(deps[d].sources)]
           C == {f[d] : d \in DOMAIN f}
           R == {Range(r.sources) : r \in {deps[d] : d \in D}}
<1>1. IsFiniteSet(D)  BY FS_Subset DEF AllFine
<1>2. IsFiniteSet(C)
  <2>1. IsFiniteSet(DOMAIN f)  BY <1>1
  <2> HIDE DEF f
  <2> QED BY <2>1, Mapped
<1>3. \A d \in D : Sources(deps[d].sources)  BY DEF AllFine, Fine
<1>4. \A c \in C : IsFiniteSet(c) /\ \A x \in c : Sourced(x)
  <2>1. ASSUME NEW d \in D
        PROVE  IsFiniteSet(Range(deps[d].sources)) /\ \A x \in Range(deps[d].sources) : Sourced(x)
    <3>1. /\ IsFiniteSet(Range(deps[d].sources))
          /\ \A x \in Range(deps[d].sources) : \E i \in DOMAIN deps[d].sources : x = deps[d].sources[i]
      BY <1>3, RangeOf DEF Sources
    <3> QED BY <1>3, <3>1 DEF Sources
  <2> QED BY <2>1
<1>5. R = C  OBVIOUS
<1> HIDE DEF C, f
<1>6. IsFiniteSet(UNION C)  BY <1>2, <1>4, FS_UNION
<1>7. \A x \in UNION C : Sourced(x)  BY <1>4
<1> HIDE DEF R
<1>8. IsFiniteSet(UNION R) /\ \A x \in UNION R : Sourced(x)  BY <1>5, <1>6, <1>7
<1> QED BY <1>8 DEF R

LEMMA ReferencesSourced ==
  ASSUME NEW deps, AllFine(deps), NEW D \in SUBSET DOMAIN deps
  PROVE  Sources(References({deps[d] : d \in D}))
<1> DEFINE U == UNION {Range(r.sources) : r \in {deps[d] : d \in D}}
<1>1. IsFiniteSet(U) /\ \A x \in U : Sourced(x)  BY SourcesOf
<1>2. References({deps[d] : d \in D}) = SetToSeq(U)  BY DEF References
<1> HIDE DEF U
<1>3. Listed(SetToSeq(U)) /\ \A i \in DOMAIN SetToSeq(U) : SetToSeq(U)[i] \in U  BY <1>1, InSomeOrder
<1>4. Sources(SetToSeq(U))  BY <1>1, <1>3 DEF Sources
<1> QED BY <1>2, <1>4

(* What a task was asked in.                                               *)
LEMMA TaskWorded ==
  ASSUME NEW q \in NodeTexts \cup {{}}
  PROVE  IsFiniteSet(q) /\ q \subseteq Wording
  BY PipelineAssumption, Written, FS_EmptySet

(* One point of a source.                                                  *)
LEMMA PointCharted ==
  ASSUME NEW q \in NodeTexts \cup {{}}, NEW d, Sourced(d), NEW f \in DOMAIN Figures
  PROVE  LET p == Point(q, d, f)
         IN IsFiniteSet(PointClaim(p)) /\ PointClaim(p) \subseteq Wording /\ p.source \in Addresses
<1> DEFINE p == Point(q, d, f)
           words == {"task", "observed_value", f}
<1>1. p.subject = q /\ p.figure = f /\ p.source = d.url  BY DEF Point
<1>2. PointClaim(p) = q \cup words  BY <1>1 DEF PointClaim
<1>3. IsFiniteSet(words)
  <2>1. words = {"task"} \cup {"observed_value"} \cup {f}  OBVIOUS
  <2>2. IsFiniteSet({"task"}) /\ IsFiniteSet({"observed_value"}) /\ IsFiniteSet({f})  BY FS_Singleton
  <2>3. IsFiniteSet({"task"} \cup {"observed_value"})  BY <2>2, FS_Union
  <2>4. IsFiniteSet({"task"} \cup {"observed_value"} \cup {f})  BY <2>2, <2>3, FS_Union
  <2> QED BY <2>1, <2>4
<1>4. words \subseteq Wording  BY Written
<1> HIDE DEF words, p
<1>5. IsFiniteSet(q \cup words) /\ q \cup words \subseteq Wording  BY <1>3, <1>4, TaskWorded, FS_Union
<1>6. p.source \in Addresses  BY <1>1 DEF Sourced
<1>7. IsFiniteSet(PointClaim(p)) /\ PointClaim(p) \subseteq Wording /\ p.source \in Addresses  BY <1>2, <1>5, <1>6
<1> QED BY <1>7 DEF p

(* All points of some sources.                                             *)
LEMMA PointsCharted ==
  ASSUME NEW q \in NodeTexts \cup {{}}, NEW deps, AllFine(deps), NEW D \in SUBSET DOMAIN deps
  PROVE  Charted(Points(q, {deps[d] : d \in D}))
<1> DEFINE U == UNION {Range(r.sources) : r \in {deps[d] : d \in D}}
           f == [d \in U |-> PointsIn(q, d)]
           C == {f[d] : d \in DOMAIN f}
<1>1. IsFiniteSet(U) /\ \A x \in U : Sourced(x)  BY SourcesOf
<1>2. Points(q, {deps[d] : d \in D}) = UNION {PointsIn(q, d) : d \in U}  BY DEF Points
<1> HIDE DEF U
<1>3. {PointsIn(q, d) : d \in U} = C  OBVIOUS
<1>4. IsFiniteSet(C)
  <2>1. IsFiniteSet(DOMAIN f)  BY <1>1
  <2> HIDE DEF f
  <2> QED BY <2>1, Mapped
<1>5. ASSUME NEW d \in U  PROVE Charted(PointsIn(q, d))
  <2> DEFINE F == DOMAIN Figures \cap d.snippet
             g == [x \in F |-> Point(q, d, x)]
  <2>1. Sourced(d)  BY <1>1
  <2>2. IsFiniteSet(F)  BY <2>1, FS_Intersection DEF Sourced, Scored
  <2>3. IsFiniteSet({g[x] : x \in DOMAIN g})
    <3> HIDE DEF F
    <3>1. IsFiniteSet(DOMAIN g)  BY <2>2
    <3> HIDE DEF g
    <3> QED BY <3>1, Mapped
  <2>4. PointsIn(q, d) = {g[x] : x \in DOMAIN g}  BY DEF PointsIn
  <2>5. ASSUME NEW p \in PointsIn(q, d)
        PROVE  IsFiniteSet(PointClaim(p)) /\ PointClaim(p) \subseteq Wording /\ p.source \in Addresses
    <3>1. PICK x \in F : p = Point(q, d, x)  BY DEF PointsIn
    <3> QED BY <2>1, <3>1, PointCharted
  <2> HIDE DEF F, g
  <2> QED BY <2>3, <2>4, <2>5 DEF Charted
<1>6. \A c \in C : Charted(c)  BY <1>5
<1> HIDE DEF C, f
<1>7. IsFiniteSet(UNION C)  BY <1>4, <1>6, FS_UNION DEF Charted
<1>8. Charted(UNION C)  BY <1>6, <1>7 DEF Charted
<1> QED BY <1>2, <1>3, <1>8

LEMMA AnalysisFine ==
  ASSUME NEW q \in NodeTexts \cup {{}}, NEW deps, AllFine(deps), NEW say
  PROVE  Fine(AnalysisSkill(q, deps, say))
<1> DEFINE D == Of(deps, "research")
           payloads == {deps[d] : d \in D}
           points == Points(q, payloads)
           T == {r.text : r \in payloads}
           said == SaidOr(Inconclusive, say, T)
<1>1. D \in SUBSET DOMAIN deps  BY DEF Of
<1>2. T = {deps[d].text : d \in D}  OBVIOUS
<1>3. AllWorded(T)
  <2> HIDE DEF T, D
  <2> QED BY <1>1, <1>2, TextsWorded
<1>4. Worded(said) /\ Worded(Notice(said))
  <2> HIDE DEF T
  <2> QED BY <1>3, InconclusiveWorded, OtherWorded
<1>5. Charted(points)
  <2> HIDE DEF D
  <2> QED BY <1>1, PointsCharted
<1>6. \/ AnalysisSkill(q, deps, say) = Fails("model")
      \/ AnalysisSkill(q, deps, say) = Analysed(Notice(said), 20, {}, "low")
      \/ AnalysisSkill(q, deps, say) = Analysed(said, AnalysisConfidence(payloads, points), points, Quality(points))
  BY DEF AnalysisSkill
<1> HIDE DEF said, payloads, points
<1> QED BY <1>4, <1>5, <1>6, FineShapes, Uncharted

LEMMA SynthesizerFine ==
  ASSUME NEW deps, AllFine(deps), NEW weather, NEW say
  PROVE  Fine(Synthesizer(deps, weather, say))
<1>1. Fine(SynthesizePlaces(deps, say))
  <2> DEFINE D == {e \in DOMAIN deps : ~deps[e].text.error}
             r == Generated(say, {deps[d].text : d \in D})
  <2>1. AllWorded({deps[d].text : d \in D})
    <3>1. D \in SUBSET DOMAIN deps  OBVIOUS
    <3> HIDE DEF D
    <3> QED BY <3>1, TextsWorded
  <2>2. SynthesizePlaces(deps, say) = IF r.ok THEN [r EXCEPT !.text = Notice(@)] ELSE r  BY DEF SynthesizePlaces
  <2>3. Fine(r)
    <3> HIDE DEF D
    <3> QED BY <2>1, GeneratedFine
  <2> HIDE DEF r
  <2> QED BY <2>2, <2>3, FineWith
<1>2. Fine(SynthesizeEvidence(deps, weather, say))
  <2> DEFINE research == Of(deps, "research")
             analyses == Of(deps, "analysis")
             nothing == research \cup analyses = {} /\ \A d \in DOMAIN deps : deps[d].text.error
             said == IF nothing THEN GeneratedOr(Inconclusive, say, {}) ELSE Generated(say, Texts(deps))
             refs == References({deps[d] : d \in research})
             r == IF said.ok THEN [said EXCEPT !.sources = refs] ELSE said
             out == SynthesizeEvidence(deps, weather, say)
  <2>1. Fine(said)
    <3> HIDE DEF nothing
    <3>1. Fine(GeneratedOr(Inconclusive, say, {}))  BY NothingSaid, InconclusiveWorded, OtherWorded, GeneratedOrFine
    <3>2. Fine(Generated(say, Texts(deps)))  BY TextsOfDeps, GeneratedFine
    <3> QED BY <3>1, <3>2
  <2>2. Sources(refs)
    <3>1. research \in SUBSET DOMAIN deps  BY DEF Of
    <3> HIDE DEF research
    <3> QED BY <3>1, ReferencesSourced
  <2>3. Fine(r)
    <3> HIDE DEF said, refs
    <3> QED BY <2>1, <2>2, FineWith
  <2>4. out = Fails("insufficient_live_evidence") \/ out = r \/ out = [r EXCEPT !.text = Notice(@)]
    <3>1. CASE nothing /\ weather  BY <3>1 DEF SynthesizeEvidence
    <3>2. CASE ~(nothing /\ weather) /\ ~r.ok  BY <3>2 DEF SynthesizeEvidence
    <3>3. CASE ~(nothing /\ weather) /\ r.ok  BY <3>3 DEF SynthesizeEvidence
    <3> QED BY <3>1, <3>2, <3>3
  <2> HIDE DEF r, out
  <2>5. Fine(out)  BY <2>3, <2>4, FineWith, FineShapes
  <2> QED BY <2>5 DEF out
<1> QED BY <1>1, <1>2 DEF Synthesizer

LEMMA GotFine == ASSUME NEW deps, AllFine(deps), NEW id PROVE Fine(Got(deps, id))
  BY FineShapes DEF Got, AllFine

LEMMA FusionFine == ASSUME NEW deps, AllFine(deps), NEW say PROVE Fine(Fusion(deps, say))
<1> DEFINE cheap == Got(deps, "path-a").text
           research == Got(deps, "path-b")
           found == research.ok
           strong == found /\ research.conf >= 55 /\ ~research.text.hedge
           blend == found /\ (IsBlank(cheap) \/ ~research.text.hedge)
           primary == IF strong THEN research.text ELSE cheap
           other == IF IsBlank(primary) THEN Inconclusive ELSE primary
           shown == IF strong THEN {research.text, cheap} ELSE {cheap}
           sources == IF strong \/ blend THEN research.sources ELSE <<>>
           r == GeneratedOr(other, say, shown)
<1>1. Fine(research) /\ Worded(cheap)  BY GotFine DEF Fine
<1>2. Worded(research.text) /\ Sources(research.sources)  BY <1>1 DEF Fine
<1> HIDE DEF cheap, research
<1>3. AllWorded(shown)
  <2>1. {research.text, cheap} = {research.text} \cup {cheap}  OBVIOUS
  <2>2. IsFiniteSet({research.text}) /\ IsFiniteSet({cheap})  BY FS_Singleton
  <2>3. IsFiniteSet({research.text} \cup {cheap})  BY <2>2, FS_Union
  <2>4. IsFiniteSet({research.text, cheap}) /\ IsFiniteSet({cheap})  BY <2>1, <2>2, <2>3
  <2> QED BY <1>1, <1>2, <2>4 DEF AllWorded
<1>4. Sources(sources)  BY <1>2, Unfound
<1>5. Fusion(deps, say) = IF r.ok THEN [r EXCEPT !.sources = sources] ELSE r  BY DEF Fusion, cheap, research
<1>6. Worded(other)  BY <1>1, <1>2, InconclusiveWorded, OtherWorded
<1> HIDE DEF shown, sources, other
<1>7. Fine(r)  BY <1>3, <1>6, GeneratedOrFine
<1> HIDE DEF r
<1>8. Fine([r EXCEPT !.sources = sources])  BY <1>4, <1>7, FineWith
<1> QED BY <1>5, <1>7, <1>8

(* The places.                                                             *)
LEMMA GeoFine == ASSUME NEW q PROVE Fine(GeoIntent(q))
<1> DEFINE r == [Result EXCEPT !.kind = "geo", !.names = q \cap {"place"}]
<1>1. Fine(r)
  <2>1. Fine(Result) /\ Result.points = {}  BY FineShapes DEF Result
  <2>2. DOMAIN r = DOMAIN Result /\ r.text = Result.text /\ r.sources = Result.sources /\ r.points = Result.points
    BY FineShapes DEF Fine
  <2> HIDE DEF r
  <2> QED BY <2>1, <2>2 DEF Fine
<1> QED BY <1>1 DEF GeoIntent

LEMMA DiscoveryFine ==
  ASSUME NEW q, NEW out, Sources(out.docs), NEW batch, Sources(batch.docs)
  PROVE  Fine(LocalDiscovery(q, out, batch))
<1> DEFINE b == IF out.ok THEN Found(AsDocuments("local_search", out.docs), out.conf) ELSE batch
           docs == Ranked(q, b.docs, 6)
<1>1. Sources(b.docs)
  <2>1. CASE out.ok
    <3>1. b.docs = AsDocuments("local_search", out.docs)  BY <2>1 DEF Found
    <3> QED BY <3>1, AsDocumentsSourced
  <2>2. CASE ~out.ok  BY <2>2
  <2> QED BY <2>1, <2>2
<1>2. \/ \E error : LocalDiscovery(q, out, batch) = Fails(error)
      \/ LocalDiscovery(q, out, batch) = Research(Excerpts(Range(docs)), docs, b.conf)
  BY DEF LocalDiscovery
<1>3. Sources(docs)
  <2> HIDE DEF b
  <2>1. Sources(RankedAmong(q, b.docs, DOMAIN b.docs, 6))  BY <1>1, RankedSourced
  <2> QED BY <2>1 DEF Ranked
<1> HIDE DEF b, docs
<1>4. Worded(Excerpts(Range(docs)))  BY <1>3, SourcesExcerpted
<1>5. Fine(Research(Excerpts(Range(docs)), docs, b.conf))  BY <1>3, <1>4, FineShapes
<1> QED BY <1>2, <1>5, FineShapes

LEMMA VerificationFine == ASSUME NEW deps, AllFine(deps) PROVE Fine(PlaceVerification(deps))
<1> DEFINE docs == Local(deps).sources
           town == "geo-intent" \in DOMAIN deps /\ "place" \in deps["geo-intent"].names
           fitting == {i \in DOMAIN docs : /\ \A j \in 1..(i - 1) : docs[j].title # docs[i].title
                                           /\ town => Mentions(docs[i].snippet, {"in town"})}
           chosen == {k \in fitting : Cardinality({j \in fitting : j < k}) < 5}
           verified == {docs[i] : i \in chosen}
           t == Excerpts(verified)
           r == [Result EXCEPT !.kind = "places", !.names = NamesIn(verified), !.text = t]
<1>1. Sources(docs)  BY GotFine DEF Local, Fine
<1>2. chosen \in SUBSET DOMAIN docs  OBVIOUS
<1>3. (\E error : PlaceVerification(deps) = Fails(error)) \/ PlaceVerification(deps) = r
  <2>1. CASE ~Local(deps).ok  BY <2>1 DEF PlaceVerification
  <2>2. CASE Local(deps).ok /\ verified = {}  BY <2>2 DEF PlaceVerification
  <2>3. CASE Local(deps).ok /\ verified # {}  BY <2>3 DEF PlaceVerification
  <2> QED BY <2>1, <2>2, <2>3
<1> HIDE DEF docs, chosen
<1>4. Worded(t)
  <2>1. IsFiniteSet(Range(docs))  BY <1>1, RangeOf DEF Sources
  <2>2. verified \in SUBSET Range(docs)  BY <1>2 DEF Range
  <2>3. IsFiniteSet(verified)  BY <2>1, <2>2, FS_Subset
  <2>4. \A d \in verified : Sourced(d)  BY <1>1, <1>2 DEF Sources
  <2> HIDE DEF verified
  <2> QED BY <2>3, <2>4, ExcerptsWorded
<1> HIDE DEF t, verified
<1>5. Fine(r)
  <2>1. DOMAIN r = DOMAIN Result /\ r.text = t /\ r.sources = Result.sources /\ r.points = Result.points
    BY FineShapes DEF Fine
  <2>2. Result.points = {}  BY DEF Result
  <2> HIDE DEF r
  <2> QED BY <1>4, <2>1, <2>2, FineShapes DEF Fine
<1> HIDE DEF r
<1> QED BY <1>3, <1>5, FineShapes

LEMMA ReviewsFine == ASSUME NEW deps PROVE Fine(ReviewConsensus(deps))
<1> DEFINE r == [Result EXCEPT !.kind = "reviews"]
<1>1. Fine(r)
  <2>1. Fine(Result) /\ Result.points = {}  BY FineShapes DEF Result
  <2>2. DOMAIN r = DOMAIN Result /\ r.text = Result.text /\ r.sources = Result.sources /\ r.points = Result.points
    BY FineShapes DEF Fine
  <2> HIDE DEF r
  <2> QED BY <2>1, <2>2 DEF Fine
<1> QED BY <1>1, FineShapes DEF ReviewConsensus

LEMMA CandidatesFine == ASSUME NEW deps PROVE Fine(CandidateExtraction(deps))
<1> DEFINE docs == Local(deps).sources
           names == NamesIn(Range(docs))
           C == {{n} : n \in names}
           t == [NoText EXCEPT !.claims = C]
           r == [Result EXCEPT !.kind = "candidates", !.names = names, !.text = t]
<1>1. (\E error : CandidateExtraction(deps) = Fails(error)) \/ CandidateExtraction(deps) = r
  <2>1. CASE ~Local(deps).ok  BY <2>1 DEF CandidateExtraction
  <2>2. CASE Local(deps).ok /\ names = {}  BY <2>2 DEF CandidateExtraction
  <2>3. CASE Local(deps).ok /\ names # {}  BY <2>3 DEF CandidateExtraction
  <2> QED BY <2>1, <2>2, <2>3
<1>2. names \in SUBSET {"Bistro", "Museum"}  BY DEF NamesIn, PlaceNames
<1>3. {"Bistro", "Museum"} \subseteq Wording  BY Written DEF PlaceNames
<1> HIDE DEF names
<1>4. C \in SUBSET ({{"Bistro"}} \cup {{"Museum"}})  BY <1>2
<1>5. IsFiniteSet({{"Bistro"}} \cup {{"Museum"}})
  <2>1. IsFiniteSet({{"Bistro"}}) /\ IsFiniteSet({{"Museum"}})  BY FS_Singleton
  <2> QED BY <2>1, FS_Union
<1>6. IsFiniteSet(C)
  <2> HIDE DEF C
  <2> QED BY <1>4, <1>5, FS_Subset
<1>7. \A c \in C : c \subseteq Wording  BY <1>2, <1>3
<1> HIDE DEF C
<1>8. Worded(t)  BY <1>6, <1>7, NothingSaid DEF Worded
<1> HIDE DEF t
<1>9. Fine(r)
  <2>1. DOMAIN r = DOMAIN Result /\ r.text = t /\ r.sources = Result.sources /\ r.points = Result.points
    BY FineShapes DEF Fine
  <2>2. Result.points = {}  BY DEF Result
  <2> HIDE DEF r
  <2> QED BY <1>8, <2>1, <2>2, FineShapes DEF Fine
<1> HIDE DEF r
<1> QED BY <1>1, <1>9, FineShapes

LEMMA ItineraryFine == ASSUME NEW deps, AllFine(deps), NEW say PROVE Fine(ItineraryPlanner(deps, say))
<1>1. Fine(GeneratedOr(Inconclusive, say, Texts(deps)))
  BY TextsOfDeps, InconclusiveWorded, OtherWorded, GeneratedOrFine
<1> QED BY <1>1, FineShapes DEF ItineraryPlanner

-----------------------------------------------------------------------------
(* The evidence an answer is held against.                                 *)

(* The first points of an analysis, in whatever order they come.           *)
LEMMA FirstCharted ==
  ASSUME NEW points, Charted(points), NEW n \in Nat
  PROVE  LET s == First(SetToSeq(points), n)
         IN Listed(s) /\ \A k \in DOMAIN s : s[k] \in points
<1> DEFINE t == SetToSeq(points)
           s == First(t, n)
<1>1. Listed(t) /\ \A k \in DOMAIN t : t[k] \in points  BY InSomeOrder DEF Charted
<1> HIDE DEF t
<1>2. Listed(s) /\ DOMAIN s \subseteq DOMAIN t /\ \A k \in DOMAIN s : s[k] = t[k]  BY <1>1, FirstOf
<1> HIDE DEF s
<1>3. Listed(s) /\ \A k \in DOMAIN s : s[k] \in points  BY <1>1, <1>2
<1> QED BY <1>3 DEF s, t

(* The items of a result: documents it cites, or points it has.            *)
LEMMA ItemsOf ==
  ASSUME NEW r, Fine(r)
  PROVE  /\ IsFiniteSet(DOMAIN Items(r))
         /\ \A k \in DOMAIN Items(r) :
              LET e == Items(r)[k]
              IN \/ /\ r.ok /\ r.kind = "research"
                    /\ \E d \in Range(r.sources) : Sourced(d) /\ e.claim = d.snippet /\ e.source = d.url
                 \/ /\ r.ok /\ r.kind = "analysis"
                    /\ \E p \in r.points : e.claim = PointClaim(p) /\ e.source = p.source
<1> DEFINE docs == First(r.sources, 6)
           points == First(SetToSeq(r.points), 8)
           items == Items(r)
<1>1. ASSUME NEW t, Listed(t)  PROVE IsFiniteSet(DOMAIN t)
  <2>1. Len(t) \in Nat /\ DOMAIN t = 1..Len(t)  BY <1>1, ListedFacts
  <2> QED BY <2>1, FS_Interval
<1>2. CASE r.ok /\ r.kind = "research"
  <2>1. items = [j \in DOMAIN docs |-> [claim |-> docs[j].snippet, source |-> docs[j].url]]  BY <1>2 DEF Items
  <2>2. Listed(docs) /\ DOMAIN docs \subseteq DOMAIN r.sources /\ \A j \in DOMAIN docs : docs[j] = r.sources[j]
    BY FirstOf DEF Fine, Sources
  <2> HIDE DEF docs, items
  <2>3. DOMAIN items = DOMAIN docs /\ IsFiniteSet(DOMAIN docs)  BY <1>1, <2>1, <2>2
  <2>4. ASSUME NEW k \in DOMAIN docs
        PROVE  \E d \in Range(r.sources) : Sourced(d) /\ items[k].claim = d.snippet /\ items[k].source = d.url
    <3> PICK d : d = r.sources[k]  OBVIOUS
    <3>1. Sourced(d) /\ d \in Range(r.sources)  BY <2>2 DEF Fine, Sources, Range
    <3>2. items[k] = [claim |-> d.snippet, source |-> d.url]  BY <2>1, <2>2
    <3>3. items[k].claim = d.snippet /\ items[k].source = d.url  BY <3>2
    <3> QED BY <3>1, <3>3
  <2> QED BY <1>2, <2>3, <2>4 DEF items
<1>3. CASE r.ok /\ r.kind = "analysis"
  <2>1. items = [j \in DOMAIN points |-> [claim |-> PointClaim(points[j]), source |-> points[j].source]]
    BY <1>3 DEF Items
  <2>2. Listed(points) /\ \A j \in DOMAIN points : points[j] \in r.points  BY FirstCharted DEF Fine
  <2> HIDE DEF points, items
  <2>3. DOMAIN items = DOMAIN points /\ IsFiniteSet(DOMAIN points)  BY <1>1, <2>1, <2>2
  <2>4. ASSUME NEW k \in DOMAIN points
        PROVE  \E p \in r.points : items[k].claim = PointClaim(p) /\ items[k].source = p.source
    <3> PICK p : p = points[k]  OBVIOUS
    <3>1. items[k] = [claim |-> PointClaim(p), source |-> p.source]  BY <2>1
    <3>2. items[k].claim = PointClaim(p) /\ items[k].source = p.source  BY <3>1
    <3> QED BY <2>2, <3>2
  <2> QED BY <1>3, <2>3, <2>4 DEF items
<1>4. CASE ~(r.ok /\ r.kind = "research") /\ ~(r.ok /\ r.kind = "analysis")
  <2>1. items = <<>>  BY <1>4 DEF Items
  <2>2. DOMAIN <<>> = {} /\ IsFiniteSet({})  BY FS_EmptySet
  <2> HIDE DEF items
  <2> QED BY <2>1, <2>2 DEF items
<1> QED BY <1>2, <1>3, <1>4

(* What the ledger says is evidence: a text that the research cites, or    *)
(* what is written of a data point.                                        *)
LEMMA LedgerIsEvidence ==
  ASSUME NEW results, \A i \in DOMAIN results : Fine(results[i].result), NEW n, NEW e \in Ledger(results, n)
  PROVE  e.claim \in Evidence(results) /\ IsFiniteSet(e.claim) /\ e.source \in Addresses
<1> DEFINE places == UNION {{<<i, k>> : k \in DOMAIN Items(results[i].result)} : i \in DOMAIN results}
           at(p) == Items(results[p[1]].result)[p[2]]
<1>1. \E p \in places : e = at(p)  BY DEF Ledger
<1>2. PICK i \in DOMAIN results : \E k \in DOMAIN Items(results[i].result) : e = Items(results[i].result)[k]
  BY <1>1
<1> DEFINE r == results[i].result
<1>3. PICK k \in DOMAIN Items(r) : e = Items(r)[k]  BY <1>2
<1>4. Fine(r) /\ results[i] \in Range(results)  BY DEF Range
<1>5. CASE r.ok /\ r.kind = "research"
  <2>1. PICK d \in Range(r.sources) : Sourced(d) /\ e.claim = d.snippet /\ e.source = d.url
    BY <1>3, <1>4, <1>5, ItemsOf
  <2>2. results[i] \in Kind(results, "research")  BY <1>4, <1>5 DEF Kind
  <2>3. d.snippet \in Evidence(results)  BY <2>2 DEF Evidence
  <2> QED BY <2>1, <2>3 DEF Sourced, Scored
<1>6. CASE r.ok /\ r.kind = "analysis"
  <2>1. PICK p \in r.points : e.claim = PointClaim(p) /\ e.source = p.source  BY <1>3, <1>4, <1>6, ItemsOf
  <2>2. results[i] \in Kind(results, "analysis")  BY <1>4, <1>6 DEF Kind
  <2>3. p \in PointsOf(results)  BY <2>2 DEF PointsOf
  <2>4. PointClaim(p) \in Evidence(results)  BY <2>3 DEF Evidence
  <2>5. IsFiniteSet(PointClaim(p)) /\ p.source \in Addresses  BY <1>4 DEF Fine, Charted
  <2> QED BY <2>1, <2>4, <2>5
<1>7. CASE ~(r.ok /\ r.kind = "research") /\ ~(r.ok /\ r.kind = "analysis")
  BY <1>3, <1>4, <1>7, ItemsOf
<1> QED BY <1>5, <1>6, <1>7

(* What is listed under the answer is in the ledger.                       *)
LEMMA ListedInLedger ==
  ASSUME NEW results, Listed(results), \A i \in DOMAIN results : Fine(results[i].result)
  PROVE  Ledger(results, 6) \subseteq Ledger(results, 12)
<1> DEFINE from(i) == {<<i, k>> : k \in DOMAIN Items(results[i].result)}
           f == [i \in DOMAIN results |-> from(i)]
           C == {f[i] : i \in DOMAIN f}
           places == UNION {from(i) : i \in DOMAIN results}
           at(p) == Items(results[p[1]].result)[p[2]]
           earlier(p) == {r \in places : r[1] < p[1] \/ (r[1] = p[1] /\ r[2] < p[2])}
           before(p) == {at(o) : o \in earlier(p)}
<1>1. IsFiniteSet(C)
  <2>1. Len(results) \in Nat /\ DOMAIN results = 1..Len(results)  BY ListedFacts
  <2>2. IsFiniteSet(DOMAIN results)  BY <2>1, FS_Interval
  <2>3. IsFiniteSet(DOMAIN f)  BY <2>2
  <2> HIDE DEF f
  <2> QED BY <2>3, Mapped
<1>2. ASSUME NEW i \in DOMAIN results  PROVE IsFiniteSet(from(i))
  <2> DEFINE S == DOMAIN Items(results[i].result)
             g == [k \in S |-> <<i, k>>]
  <2>1. IsFiniteSet(S)  BY ItemsOf
  <2>2. from(i) = {g[k] : k \in DOMAIN g}  OBVIOUS
  <2> HIDE DEF S
  <2>3. IsFiniteSet(DOMAIN g)  BY <2>1
  <2> HIDE DEF g
  <2>4. IsFiniteSet({g[k] : k \in DOMAIN g})  BY <2>3, Mapped
  <2> QED BY <2>2, <2>4
<1> HIDE DEF from
<1>3. places = UNION C /\ \A c \in C : IsFiniteSet(c)  BY <1>2
<1>4. IsFiniteSet(places)
  <2> HIDE DEF C, places
  <2> QED BY <1>1, <1>3, FS_UNION
<1> HIDE DEF places, C, f
<1>5. ASSUME NEW p \in places  PROVE Cardinality(before(p)) \in Nat
  <2> DEFINE S == earlier(p)
             g == [o \in S |-> at(o)]
  <2>1. S \in SUBSET places  OBVIOUS
  <2>2. IsFiniteSet(S)
    <3> HIDE DEF S
    <3> QED BY <1>4, <2>1, FS_Subset
  <2>3. before(p) = {g[o] : o \in DOMAIN g}  OBVIOUS
  <2> HIDE DEF S
  <2>4. IsFiniteSet(DOMAIN g)  BY <2>2
  <2> HIDE DEF g, before
  <2>5. IsFiniteSet(before(p))  BY <2>3, <2>4, Mapped
  <2> QED BY <2>5, FS_CardinalityType
<1>6. \A n : Ledger(results, n) = {at(p) : p \in {r \in places : Cardinality(before(r)) < n}}
  BY DEF Ledger, places, from
<1> HIDE DEF before, at
<1>7. {r \in places : Cardinality(before(r)) < 6} \subseteq {r \in places : Cardinality(before(r)) < 12}
  BY <1>5
<1> QED BY <1>6, <1>7

(* Claims that the evidence has less than two words of are not covered by  *)
(* the ledger, whose addresses are no words.                               *)
LEMMA NothingCovered ==
  ASSUME NEW claims, IsFiniteSet(claims), claims # {}, NEW ledger,
         \A c \in claims, e \in ledger : ~Supports(e, c)
  PROVE  Coverage(claims, ledger) < 50
<1> DEFINE covered == {c \in claims : \E e \in ledger : Supports(e, c)}
           n == Cardinality(claims)
<1>1. covered = {}  OBVIOUS
<1>2. Cardinality({}) = 0  BY FS_EmptySet
<1>3. n \in Nat /\ n # 0  BY FS_CardinalityType, FS_EmptySet
<1>4. Coverage(claims, ledger) = (100 * 0) \div n  BY <1>1, <1>2 DEF Coverage
<1> HIDE DEF n
<1>5. (100 * 0) \div n = 0  BY <1>3
<1> QED BY <1>4, <1>5

LEMMA NotSupported ==
  ASSUME NEW results, \A i \in DOMAIN results : Fine(results[i].result),
         NEW n, NEW e \in Ledger(results, n), e.source # "tool://calculator",
         NEW c, c = {"insufficient"} \/ (c \subseteq Wording /\ \A s \in Evidence(results) : Cardinality(c \cap s) < 2)
  PROVE  ~Supports(e, c)
<1>1. e.claim \in Evidence(results) /\ IsFiniteSet(e.claim) /\ e.source \in Addresses  BY LedgerIsEvidence
<1> DEFINE words == e.claim \cup {e.source}
<1>2. Supports(e, c) <=> Cardinality(c \cap words) >= 2  BY DEF Supports, AddressWords
<1>3. CASE c = {"insufficient"}
  <2>1. IsFiniteSet({"insufficient"}) /\ Cardinality({"insufficient"}) = 1  BY FS_Singleton
  <2>2. c \cap words \in SUBSET {"insufficient"}  BY <1>3
  <2>3. IsFiniteSet(c \cap words) /\ Cardinality(c \cap words) <= 1  BY <2>1, <2>2, FS_Subset
  <2>4. Cardinality(c \cap words) \in Nat  BY <2>3, FS_CardinalityType
  <2> QED BY <1>2, <2>3, <2>4
<1>4. CASE c \subseteq Wording /\ \A s \in Evidence(results) : Cardinality(c \cap s) < 2
  <2>1. e.source \notin c  BY <1>1, <1>4, PipelineAssumption
  <2>2. c \cap words = c \cap e.claim  BY <2>1
  <2>3. Cardinality(c \cap e.claim) < 2  BY <1>1, <1>4
  <2>4. IsFiniteSet(c \cap e.claim)  BY <1>1, FS_Intersection
  <2>5. Cardinality(c \cap e.claim) \in Nat  BY <2>4, FS_CardinalityType
  <2>6. Cardinality(c \cap words) = Cardinality(c \cap e.claim)  BY <2>2
  <2> HIDE DEF words
  <2> QED BY <1>2, <2>3, <2>5, <2>6
<1> QED BY <1>3, <1>4

-----------------------------------------------------------------------------
(* The notice over an answer.                                              *)

LEMMA ResultFine ==
  ASSUME NEW results, \A i \in DOMAIN results : Fine(results[i].result), NEW id \in IdsOf(results)
  PROVE  /\ Fine(ResultOf(results, id))
         /\ \E i \in DOMAIN results : results[i].id = id /\ ResultOf(results, id) = results[i].result
<1>1. \E i \in DOMAIN results : results[i].id = id  BY DEF IdsOf
<1> DEFINE j == CHOOSE i \in DOMAIN results : results[i].id = id
<1>2. j \in DOMAIN results /\ results[j].id = id  BY <1>1
<1>3. ResultOf(results, id) = results[j].result  BY DEF ResultOf
<1> HIDE DEF j
<1> QED BY <1>2, <1>3

(* What a result looks like is made of such words too.                     *)
LEMMA RenderedWorded == ASSUME NEW r, Fine(r) PROVE Worded(Rendered(r))
<1> DEFINE s == First(SetToSeq(r.points), 3)
           c == UNION {PointClaim(p) : p \in Range(s)}
           t == [r.text EXCEPT !.claims = @ \cup {c}]
<1>1. Worded(r.text)  BY DEF Fine
<1>2. Listed(s) /\ \A k \in DOMAIN s : s[k] \in r.points  BY FirstCharted DEF Fine
<1>3. Rendered(r) = IF r.points = {} THEN r.text ELSE t  BY DEF Rendered
<1> HIDE DEF s
<1>4. c \subseteq Wording
  <2>1. \A p \in Range(s) : p \in r.points  BY <1>2 DEF Range
  <2>2. \A p \in r.points : PointClaim(p) \subseteq Wording  BY DEF Fine, Charted
  <2> QED BY <2>1, <2>2
<1> HIDE DEF c
<1>5. IsFiniteSet(r.text.claims \cup {c})  BY <1>1, FS_Singleton, FS_Union DEF Worded
<1>6. Worded(t)  BY <1>1, <1>4, <1>5 DEF Worded
<1> QED BY <1>1, <1>3, <1>6

(* What is selected, when it does not stand for a failure: the text of the *)
(* node that ends the plan, or texts of the tasks.                         *)
LEMMA SelectedWorded ==
  ASSUME NEW results, \A i \in DOMAIN results : Fine(results[i].result),
         NEW tasks, Listed(tasks), ~SelectFinalAnswer(results, tasks).failed
  PROVE  Worded(SelectFinalAnswer(results, tasks).text)
<1> DEFINE ending == {"synthesis", "fusion"} \cap IdsOf(results)
           id == IF "synthesis" \in ending THEN "synthesis" ELSE "fusion"
           last == Rendered(ResultOf(results, id))
           ended == {k \in DOMAIN tasks : tasks[k] \in IdsOf(results)}
           text(k) == Rendered(ResultOf(results, tasks[k]))
           shown == {k \in ended : ~IsErrorOutput(text(k))}
           failed == shown # ended
           first == text(Min(shown))
           T == {text(k) : k \in shown}
           merged == [Merged(T) EXCEPT !.notice = first.notice, !.error = first.error,
                                       !.hedge = \E k \in shown : text(k).hedge]
           s == SelectFinalAnswer(results, tasks)
<1>1. s = IF ending # {}
          THEN IF IsErrorOutput(last) THEN [text |-> FailureMessage, failed |-> TRUE]
               ELSE [text |-> last, failed |-> FALSE]
          ELSE IF shown = {} THEN [text |-> IF failed THEN FailureMessage ELSE NoDataMessage, failed |-> failed]
          ELSE [text |-> merged, failed |-> failed]
  BY DEF SelectFinalAnswer
<1>2. Worded(NoDataMessage)
  <2>1. {"not enough verified information"} \subseteq Wording  BY Written
  <2>2. IsFiniteSet({{"not enough verified information"}})  BY FS_Singleton
  <2> QED BY <2>1, <2>2, NothingSaid DEF NoDataMessage, Worded
<1>3. \A i \in IdsOf(results) : Worded(Rendered(ResultOf(results, i)))
  BY ResultFine, RenderedWorded
<1>4. ending # {} => Worded(last)  BY <1>3
<1>5. AllWorded(T)
  <2> DEFINE f == [k \in shown |-> text(k)]
  <2>1. Len(tasks) \in Nat /\ DOMAIN tasks = 1..Len(tasks)  BY ListedFacts
  <2>2. IsFiniteSet(DOMAIN tasks)  BY <2>1, FS_Interval
  <2>3. shown \in SUBSET DOMAIN tasks  OBVIOUS
  <2>4. \A k \in shown : Worded(text(k))  BY <1>3
  <2> HIDE DEF shown, text
  <2>5. IsFiniteSet(DOMAIN f)  BY <2>2, <2>3, FS_Subset
  <2>6. T = {f[k] : k \in DOMAIN f}  OBVIOUS
  <2> HIDE DEF f, T
  <2>7. IsFiniteSet(T)  BY <2>5, <2>6, Mapped
  <2> QED BY <2>4, <2>7 DEF AllWorded, T
<1>6. Worded(merged)
  <2> PICK n, e, h : n = first.notice /\ e = first.error /\ h = (\E k \in shown : text(k).hedge)  OBVIOUS
  <2> HIDE DEF T, shown, first, text
  <2>1. Worded(Merged(T))  BY <1>5, MergedWorded
  <2>2. PICK m : m = Merged(T)  OBVIOUS
  <2>3. Worded([m EXCEPT !.notice = n, !.error = e, !.hedge = h])  BY <2>1, <2>2 DEF Worded
  <2> QED BY <2>2, <2>3
<1> HIDE DEF last, shown, failed, merged, ending
<1>7. CASE ending # {}
  <2>1. ~IsErrorOutput(last)  BY <1>1, <1>7
  <2> QED BY <1>1, <1>4, <1>7, <2>1
<1>8. CASE ending = {} /\ shown = {}
  <2>1. ~failed  BY <1>1, <1>8
  <2> QED BY <1>1, <1>2, <1>8, <2>1
<1>9. CASE ending = {} /\ shown # {}
  BY <1>1, <1>6, <1>9
<1> QED BY <1>7, <1>8, <1>9

(* An answer whose claims are not in the evidence gets a notice.           *)
LEMMA UnsupportedNoticed ==
  ASSUME NEW results, Listed(results), \A i \in DOMAIN results : Fine(results[i].result),
         \A e \in Ledger(results, 12) : e.source # "tool://calculator",
         NEW s, Worded(s.text), ~s.failed, s.text.claims # {},
         \A c \in s.text.claims, e \in Evidence(results) : Cardinality(c \cap e) < 2
  PROVE  NeedsDisclaimer(s, results)
<1> DEFINE claims == Claims(s.text, results)
           calculated == {f \in Ledger(results, 6) : f.source = "tool://calculator"}
           hedge == IF s.text.hedge THEN {{"insufficient"}} ELSE {}
           ledger == Ledger(results, 12)
<1>1. calculated = {}  BY ListedInLedger
<1>2. claims = s.text.claims \cup hedge
  <2>1. claims = s.text.claims \cup hedge \cup {e.claim \cup AddressWords(e.source) : e \in calculated}
    BY DEF Claims
  <2> HIDE DEF claims, hedge
  <2> QED BY <1>1, <2>1
<1>3. IsFiniteSet(claims) /\ claims # {}
  <2>1. IsFiniteSet({{"insufficient"}}) /\ IsFiniteSet({})  BY FS_Singleton, FS_EmptySet
  <2>2. IsFiniteSet(hedge)  BY <2>1
  <2>3. IsFiniteSet(s.text.claims)  BY DEF Worded
  <2> HIDE DEF claims, hedge
  <2>4. IsFiniteSet(s.text.claims \cup hedge)  BY <2>2, <2>3, FS_Union
  <2> QED BY <1>2, <2>4
<1>4. \A c \in claims, e \in ledger : ~Supports(e, c)
  <2> SUFFICES ASSUME NEW c \in claims, NEW e \in ledger PROVE ~Supports(e, c)  OBVIOUS
  <2>1. c = {"insufficient"} \/ c \in s.text.claims  BY <1>2
  <2>2. c = {"insufficient"} \/ (c \subseteq Wording /\ \A x \in Evidence(results) : Cardinality(c \cap x) < 2)
    BY <2>1 DEF Worded
  <2> HIDE DEF claims
  <2> QED BY <2>2, NotSupported
<1> HIDE DEF claims, ledger
<1>5. Coverage(claims, ledger) < 50  BY <1>3, <1>4, NothingCovered
<1> QED BY <1>3, <1>5 DEF NeedsDisclaimer, claims, ledger

(* A notice that the last node put first stays.                            *)
LEMMA NoticeStays ==
  ASSUME NEW results, \A i \in DOMAIN results : Fine(results[i].result), NEW tasks,
         ~({"synthesis", "fusion"} \subseteq IdsOf(results)),
         NEW id \in {"synthesis", "fusion"} \cap IdsOf(results), ResultOf(results, id).text.notice,
         ~SelectFinalAnswer(results, tasks).failed
  PROVE  SelectFinalAnswer(results, tasks).text.notice
<1> DEFINE ending == {"synthesis", "fusion"} \cap IdsOf(results)
           r == ResultOf(results, id)
           s == SelectFinalAnswer(results, tasks)
<1>1. id = IF "synthesis" \in ending THEN "synthesis" ELSE "fusion"  OBVIOUS
<1>2. s = IF IsErrorOutput(Rendered(r)) THEN [text |-> FailureMessage, failed |-> TRUE]
          ELSE [text |-> Rendered(r), failed |-> FALSE]
  BY <1>1 DEF SelectFinalAnswer
<1>3. Fine(r)  BY ResultFine
<1> HIDE DEF r, s
<1>4. s.text = Rendered(r)  BY <1>2 DEF s
<1>5. Rendered(r).notice = r.text.notice
  <2>1. "notice" \in DOMAIN r.text  BY <1>3 DEF Fine, Worded
  <2> QED BY <2>1 DEF Rendered
<1> QED BY <1>4, <1>5 DEF r, s

LEMMA Noticed ==
  ASSUME NEW results, Listed(results), \A i \in DOMAIN results : Fine(results[i].result), NEW tasks, Listed(tasks),
         ~({"synthesis", "fusion"} \subseteq IdsOf(results)), ~Payload(results, tasks).failed
  PROVE  LET p == Payload(results, tasks)
         IN /\ /\ p.claims # {} /\ \A c \in p.claims, e \in Evidence(results) : Cardinality(c \cap e) < 2
               /\ "tool://calculator" \notin p.ledger
               => p.notice
            /\ (\E id \in {"synthesis", "fusion"} \cap IdsOf(results) : ResultOf(results, id).text.notice) => p.notice
<1> DEFINE p == Payload(results, tasks)
           s == SelectFinalAnswer(results, tasks)
<1>1. /\ p.failed = s.failed /\ p.claims = s.text.claims /\ p.ledger = {e.source : e \in Ledger(results, 12)}
      /\ p.notice = NeedsDisclaimer(s, results)
  BY DEF Payload
<1> HIDE DEF p, s
<1>2. ~s.failed  BY <1>1 DEF p
<1>3. ASSUME p.claims # {}, \A c \in p.claims, e \in Evidence(results) : Cardinality(c \cap e) < 2,
             "tool://calculator" \notin p.ledger
      PROVE  p.notice
  <2>1. Worded(s.text)  BY <1>2, SelectedWorded DEF s
  <2>2. \A e \in Ledger(results, 12) : e.source # "tool://calculator"  BY <1>1, <1>3
  <2>3. NeedsDisclaimer(s, results)  BY <1>1, <1>2, <1>3, <2>1, <2>2, UnsupportedNoticed
  <2> QED BY <1>1, <2>3
<1>4. ASSUME NEW id \in {"synthesis", "fusion"} \cap IdsOf(results), ResultOf(results, id).text.notice
      PROVE  p.notice
  <2>1. s.text.notice  BY <1>2, <1>4, NoticeStays DEF s
  <2> QED BY <1>1, <2>1 DEF NeedsDisclaimer
<1> QED BY <1>3, <1>4 DEF p

-----------------------------------------------------------------------------
(* The chat: one prompt after the other.                                   *)

(* What is shown is no error's text, and makes no claims when it stands    *)
(* for a failure.                                                          *)
Sound(p) ==
  /\ DOMAIN p = {"claims", "error", "failed", "notice", "contradicted", "sources", "ledger", "coverage",
                 "quantitative", "qualitative", "balance"}
  /\ ~p.error
  /\ p.failed => ~Mentions(UNION p.claims, Invention)

(* The nodes that ended are nodes of the plan, and none ended twice; what  *)
(* they returned is fine, and clean when they did research; the answer is  *)
(* made of that.                                                           *)
Conversed(c) ==
  /\ DOMAIN c = {"pc", "prompt", "tasks", "plan", "paths", "live", "results", "payload", "issues"}
  /\ c.pc \in {"idle", "running", "answered", "done"}
  /\ Shaped(c.plan)
  /\ Apart(c.results)
  /\ IdsOf(c.results) \subseteq P!Ids(c.plan)
  /\ \A i \in DOMAIN c.results : Fine(c.results[i].result)
  /\ \A i \in DOMAIN c.plan, j \in DOMAIN c.results :
       c.plan[i].skill = "research" /\ c.results[j].id = c.plan[i].id => Clean(c.results[j].result.sources)
  /\ c.pc = "answered" => c.payload = Payload(c.results, c.tasks)
  /\ c.pc \in {"running", "answered"} =>
       /\ c.prompt \in Prompts
       /\ Concluded(c.plan) /\ Suited(c.plan)
       /\ Listed(c.tasks) /\ \A i, j \in DOMAIN c.tasks : c.tasks[i] = c.tasks[j] => i = j
  /\ c.pc \in {"answered", "done"} => Sound(c.payload)

LEMMA NothingYet == Apart(<<>>) /\ IdsOf(<<>>) = {} /\ DOMAIN <<>> = {}
<1>1. Listed(<<>>) /\ DOMAIN <<>> = {}  BY DEF Listed
<1> QED BY <1>1 DEF Apart, IdsOf

(* Between two prompts.                                                    *)
LEMMA NotYet == Conversed(Idle)
<1>1. Idle.pc = "idle" /\ Idle.plan = <<>> /\ Idle.results = <<>>  BY DEF Idle
<1>2. DOMAIN Idle = {"pc", "prompt", "tasks", "plan", "paths", "live", "results", "payload", "issues"}
  BY DEF Idle
<1> HIDE DEF Idle
<1> QED BY <1>1, <1>2, NoNodes, NothingYet DEF Conversed

(* The names of the tasks are five.                                        *)
LEMMA TasksNamed ==
  ASSUME NEW k \in 0..4
  PROVE  LET t == SubSeq(P!TaskIds, 1, k) IN Listed(t) /\ \A i, j \in DOMAIN t : t[i] = t[j] => i = j
<1> DEFINE t == SubSeq(P!TaskIds, 1, k)
           names == {P!TaskIds[i] : i \in 1..5}
<1>1. \A i \in 1..k : P!TaskIds[i] \in names  OBVIOUS
<1>2. /\ t \in Seq(names)
      /\ Len(t) = IF 1 <= k THEN k - 1 + 1 ELSE 0
      /\ \A i \in 1..(k - 1 + 1) : t[i] = P!TaskIds[1 + i - 1]
  BY <1>1, SubSeqProperties
<1>3. Len(t) = k /\ DOMAIN t = 1..k /\ \A i \in 1..k : t[i] = P!TaskIds[i]
  <2> HIDE DEF t
  <2>1. Len(t) = k  BY <1>2
  <2>2. DOMAIN t = 1..k  BY <1>2, <2>1, LenProperties
  <2>3. \A i \in 1..k : i \in 1..(k - 1 + 1) /\ 1 + i - 1 = i  OBVIOUS
  <2> QED BY <1>2, <2>1, <2>2, <2>3
<1>4. Listed(t)
  <2> HIDE DEF t
  <2>1. t = [i \in 1..k |-> t[i]]  BY <1>2, <1>3, LenProperties
  <2>2. Listed(t)  BY <2>1, Listing
  <2> QED BY <2>2 DEF t
<1>5. \A i, j \in DOMAIN t : t[i] = t[j] => i = j
  <2> HIDE DEF t
  <2>1. \A i, j \in 1..k : P!TaskIds[i] = P!TaskIds[j] => i = j  BY TaskIdsDiffer
  <2>2. \A i, j \in DOMAIN t : t[i] = t[j] => i = j  BY <1>3, <2>1
  <2> QED BY <2>2 DEF t
<1> QED BY <1>4, <1>5

(* A node ends.                                                            *)
LEMMA NodeEnds ==
  ASSUME NEW c, Conversed(c), c.pc = "running",
         NEW i \in DOMAIN c.plan, c.plan[i].id \notin IdsOf(c.results),
         NEW r, Fine(r), c.plan[i].skill = "research" => Clean(r.sources)
  PROVE  Conversed([c EXCEPT !.results = Append(@, [id |-> c.plan[i].id, result |-> r])])
<1> DEFINE e == [id |-> c.plan[i].id, result |-> r]
           s == c.results
           t == Append(s, e)
           d == [c EXCEPT !.results = t]
           n == Len(s)
<1>1. Apart(s) /\ IdsOf(s) \subseteq P!Ids(c.plan)  BY DEF Conversed
<1>2. Listed(s) /\ n \in Nat /\ DOMAIN s = 1..n  BY <1>1, ListedFacts DEF Apart
<1>3. e.id = c.plan[i].id /\ e.result = r  OBVIOUS
<1> HIDE DEF e
<1>4. Listed(t) /\ DOMAIN t = 1..(n + 1) /\ (\A k \in 1..n : t[k] = s[k]) /\ t[n + 1] = e
  BY <1>2, ListedAppend
<1>5. /\ d.results = t /\ d.pc = c.pc /\ d.prompt = c.prompt /\ d.plan = c.plan /\ d.tasks = c.tasks
      /\ d.payload = c.payload /\ DOMAIN d = DOMAIN c
  BY DEF Conversed
<1> HIDE DEF t, d, n
<1>6. 1..(n + 1) = (1..n) \cup {n + 1} /\ n + 1 \notin 1..n  BY <1>2
<1>7. IdsOf(t) = IdsOf(s) \cup {e.id}  BY <1>2, <1>4, <1>6 DEF IdsOf
<1>8. IdsOf(t) \subseteq P!Ids(c.plan)
  <2>1. c.plan[i].id \in P!Ids(c.plan)  BY DEF P!Ids
  <2> QED BY <1>1, <1>3, <1>7, <2>1
<1>9. Apart(t)
  <2> SUFFICES ASSUME NEW j \in DOMAIN t, NEW k \in DOMAIN t, t[j].id = t[k].id  PROVE j = k
    BY <1>4 DEF Apart
  <2>1. \A m \in 1..n : s[m].id # e.id  BY <1>2, <1>3 DEF IdsOf
  <2>2. \A m, l \in 1..n : s[m].id = s[l].id => m = l  BY <1>1, <1>2 DEF Apart
  <2> QED BY <1>4, <1>6, <2>1, <2>2
<1>10. \A j \in DOMAIN t : Fine(t[j].result)
  <2>1. \A j \in 1..n : Fine(s[j].result)  BY <1>2 DEF Conversed
  <2> QED BY <1>3, <1>4, <1>6, <2>1
<1>11. ASSUME NEW k \in DOMAIN c.plan, NEW j \in DOMAIN t, c.plan[k].skill = "research", t[j].id = c.plan[k].id
       PROVE  Clean(t[j].result.sources)
  <2>1. CASE j \in 1..n  BY <1>2, <1>4, <1>11, <2>1 DEF Conversed
  <2>2. CASE j = n + 1
    <3>1. k = i  BY <1>3, <1>4, <1>11, <2>2 DEF Conversed, Shaped
    <3> QED BY <1>3, <1>4, <1>11, <2>2, <3>1
  <2> QED BY <1>4, <1>6, <2>1, <2>2
<1>12. Conversed(d)  BY <1>5, <1>8, <1>9, <1>10, <1>11 DEF Conversed
<1> QED BY <1>12 DEF d, t, s, e

(* When no node can run any more, all of them have run.                    *)
LEMMA AllHaveRun ==
  ASSUME NEW plan, Shaped(plan), NEW ended,
         \A i \in DOMAIN plan : ~(plan[i].id \notin ended /\ plan[i].deps \subseteq ended)
  PROVE  P!Ids(plan) \subseteq ended
<1> DEFINE S == P!Ids(plan) \ ended
<1>1. CASE S = {}  BY <1>1
<1>2. CASE S # {}
  <2>1. PICK i \in DOMAIN plan : plan[i].id \in S /\ plan[i].deps \cap S = {}  BY <1>2 DEF Shaped
  <2>2. plan[i].deps \subseteq P!Ids(plan)  BY DEF Shaped
  <2> QED BY <2>1, <2>2
<1> QED BY <1>1, <1>2

(* At most one task of a plan that no node ends has a result: that alone   *)
(* is shown, or it failed and nothing else is.                             *)
LEMMA SelectionSound ==
  ASSUME NEW results, NEW tasks, Listed(tasks),
         {"synthesis", "fusion"} \cap IdsOf(results) = {} =>
           \A k, l \in DOMAIN tasks : tasks[k] \in IdsOf(results) /\ tasks[l] \in IdsOf(results) => k = l
  PROVE  LET s == SelectFinalAnswer(results, tasks)
         IN ~s.text.error /\ (s.failed => ~Mentions(UNION s.text.claims, Invention))
<1> DEFINE ending == {"synthesis", "fusion"} \cap IdsOf(results)
           last == Rendered(ResultOf(results, IF "synthesis" \in ending THEN "synthesis" ELSE "fusion"))
           ended == {k \in DOMAIN tasks : tasks[k] \in IdsOf(results)}
           text(k) == Rendered(ResultOf(results, tasks[k]))
           shown == {k \in ended : ~IsErrorOutput(text(k))}
           failed == shown # ended
           first == text(Min(shown))
           merged == [Merged({text(k) : k \in shown}) EXCEPT !.notice = first.notice, !.error = first.error,
                                                           !.hedge = \E k \in shown : text(k).hedge]
           s == SelectFinalAnswer(results, tasks)
<1>1. s = IF ending # {}
          THEN IF IsErrorOutput(last) THEN [text |-> FailureMessage, failed |-> TRUE]
               ELSE [text |-> last, failed |-> FALSE]
          ELSE IF shown = {} THEN [text |-> IF failed THEN FailureMessage ELSE NoDataMessage, failed |-> failed]
          ELSE [text |-> merged, failed |-> failed]
  BY DEF SelectFinalAnswer
<1>2. /\ ~FailureMessage.error /\ ~Mentions(UNION FailureMessage.claims, Invention)
      /\ ~NoDataMessage.error /\ ~Mentions(UNION NoDataMessage.claims, Invention)
  <2>1. /\ FailureMessage.error = FALSE /\ FailureMessage.claims = {{"could not verify"}}
        /\ NoDataMessage.error = FALSE /\ NoDataMessage.claims = {{"not enough verified information"}}
    BY DEF FailureMessage, NoDataMessage, NoText
  <2>2. \A x : UNION {{x}} = {x}  OBVIOUS
  <2> QED BY <2>1, <2>2 DEF Mentions, Invention
<1>3. CASE ending # {}
  <2>1. CASE IsErrorOutput(last)  BY <1>1, <1>2, <1>3, <2>1
  <2>2. CASE ~IsErrorOutput(last)  BY <1>1, <1>3, <2>2 DEF IsErrorOutput
  <2> QED BY <2>1, <2>2
<1>4. CASE ending = {} /\ shown = {}
  <2>1. s.text \in {FailureMessage, NoDataMessage}  BY <1>1, <1>4
  <2> QED BY <1>2, <2>1
<1>5. CASE ending = {} /\ shown # {}
  <2>1. shown = ended /\ ~failed
    <3>1. \A k, l \in ended : k = l  BY <1>5
    <3>2. PICK k \in shown : TRUE  BY <1>5
    <3> QED BY <3>1, <3>2
  <2>2. Min(shown) \in shown
    <3>1. Len(tasks) \in Nat /\ shown \in SUBSET (1..Len(tasks))  BY ListedFacts
    <3> HIDE DEF shown
    <3> QED BY <1>5, <3>1, LeastOf
  <2>3. ~first.error  BY <2>2 DEF IsErrorOutput
  <2>4. merged.error = first.error
    <3> DEFINE m == Merged({text(k) : k \in shown})
    <3>1. "error" \in DOMAIN m  BY DEF Merged, NoText
    <3> HIDE DEF m, first, shown
    <3> QED BY <3>1
  <2> HIDE DEF merged, first, shown, failed, ended, ending, last, s
  <2>5. s.text = merged /\ s.failed = failed  BY <1>1, <1>5
  <2>6. ~s.text.error /\ ~s.failed  BY <2>1, <2>3, <2>4, <2>5
  <2> QED BY <2>6 DEF s
<1> QED BY <1>3, <1>4, <1>5

(* So it is with every answer that is composed.                            *)
LEMMA ComposedSound ==
  ASSUME NEW c, Conversed(c), c.pc = "running",
         \A i \in DOMAIN c.plan : ~(c.plan[i].id \notin IdsOf(c.results) /\ c.plan[i].deps \subseteq IdsOf(c.results))
  PROVE  Conversed([c EXCEPT !.pc = "answered", !.payload = Payload(c.results, c.tasks)])
<1> DEFINE r == c.results
           t == c.tasks
           p == Payload(r, t)
           s == SelectFinalAnswer(r, t)
           d == [c EXCEPT !.pc = "answered", !.payload = p]
<1>1. /\ Shaped(c.plan) /\ Concluded(c.plan) /\ IdsOf(r) \subseteq P!Ids(c.plan)
      /\ Listed(t) /\ \A i, j \in DOMAIN t : t[i] = t[j] => i = j
  BY DEF Conversed
<1>2. P!Ids(c.plan) = IdsOf(r)
  <2>1. P!Ids(c.plan) \subseteq IdsOf(r)  BY <1>1, AllHaveRun
  <2> QED BY <1>1, <2>1
<1>3. ASSUME {"synthesis", "fusion"} \cap IdsOf(r) = {},
             NEW k \in DOMAIN t, NEW l \in DOMAIN t, t[k] \in IdsOf(r), t[l] \in IdsOf(r)
      PROVE  k = l
  <2>1. Len(c.plan) \in Nat /\ DOMAIN c.plan = 1..Len(c.plan)  BY <1>1, ListedFacts DEF Shaped
  <2>2. ~(Len(c.plan) > 1)  BY <1>1, <1>2, <1>3 DEF Concluded
  <2>3. PICK i \in DOMAIN c.plan : c.plan[i].id = t[k]  BY <1>2, <1>3 DEF P!Ids
  <2>4. PICK j \in DOMAIN c.plan : c.plan[j].id = t[l]  BY <1>2, <1>3 DEF P!Ids
  <2>5. i = j  BY <2>1, <2>2, <2>3, <2>4
  <2> QED BY <1>1, <2>3, <2>4, <2>5
<1>4. ~s.text.error /\ (s.failed => ~Mentions(UNION s.text.claims, Invention))
  BY <1>1, <1>3, SelectionSound
<1>5. Sound(p)
  <2>1. p.error = s.text.error /\ p.failed = s.failed /\ p.claims = s.text.claims  BY DEF Payload
  <2>2. DOMAIN p = {"claims", "error", "failed", "notice", "contradicted", "sources", "ledger", "coverage",
                    "quantitative", "qualitative", "balance"}
    BY DEF Payload
  <2> HIDE DEF p, s
  <2> QED BY <1>4, <2>1, <2>2 DEF Sound
<1>6. /\ d.results = c.results /\ d.pc = "answered" /\ d.prompt = c.prompt /\ d.plan = c.plan /\ d.tasks = c.tasks
      /\ d.payload = p /\ DOMAIN d = DOMAIN c
  BY DEF Conversed
<1>7. p = Payload(c.results, c.tasks)  OBVIOUS
<1> HIDE DEF p, d
<1>8. Conversed(d)  BY <1>5, <1>6, <1>7 DEF Conversed
<1> QED BY <1>8 DEF d, p, r, t

(* The critic adds sources; text and failure stay as they were.            *)
LEMMA AugmentedSound ==
  ASSUME NEW p, Sound(p), NEW issues, NEW extra, NEW other
  PROVE  Sound(Augmented(p, issues, extra, other))
<1> DEFINE q == Augmented(p, issues, extra, other)
<1>1. DOMAIN q = DOMAIN p /\ q.error = p.error /\ q.failed = p.failed /\ q.claims = p.claims
  BY DEF Augmented, Sound
<1> HIDE DEF q
<1>2. Sound(q)  BY <1>1 DEF Sound
<1> QED BY <1>2 DEF q

-----------------------------------------------------------------------------
(* The invariant.                                                          *)
ChatInv ==
  /\ Keeps(quotes)
  /\ extraction \in Breakers
  /\ Conversed(chat)

(* Every handler of a node ends the node, and keeps what the skills keep.  *)
NodeStep ==
  \/ NodeFails
  \/ GeneralAnswerNode \/ CompareNode \/ ResearchNode \/ FinanceNode \/ AnalysisNode \/ SynthesizerNode \/ FusionNode
  \/ GeoIntentNode \/ LocalDiscoveryNode \/ PlaceNode \/ CandidateNode \/ ItineraryNode

(* What the node in hand returns.                                          *)
Returns(r) == Fine(r) /\ (Now.skill = "research" => Clean(r.sources))

(* What it was given.                                                      *)
LEMMA DepsFine == ASSUME ChatInv, Todo # {} PROVE AllFine(Deps)
<1> DEFINE i == Min(Todo)
<1>1. i \in Todo
  <2>1. Len(chat.plan) \in Nat /\ DOMAIN chat.plan = 1..Len(chat.plan)  BY ListedFacts DEF ChatInv, Conversed, Shaped
  <2>2. Todo \in SUBSET (1..Len(chat.plan))  BY <2>1 DEF Todo
  <2> QED BY <2>1, <2>2, LeastOf
<1>2. Now.deps \subseteq IdsOf(chat.results)  BY <1>1 DEF Todo, Now
<1>3. IsFiniteSet(IdsOf(chat.results))
  <2> DEFINE s == chat.results
             f == [k \in DOMAIN s |-> s[k].id]
  <2>1. Len(s) \in Nat /\ DOMAIN s = 1..Len(s)  BY ListedFacts DEF ChatInv, Conversed, Apart
  <2>2. IsFiniteSet(DOMAIN s)  BY <2>1, FS_Interval
  <2>3. IdsOf(s) = {f[k] : k \in DOMAIN f}  BY DEF IdsOf
  <2>4. IsFiniteSet(DOMAIN f)  BY <2>2
  <2> HIDE DEF s, f
  <2>5. IsFiniteSet(IdsOf(s))  BY <2>3, <2>4, Mapped
  <2> QED BY <2>5 DEF s
<1>4. IsFiniteSet(Now.deps)  BY <1>2, <1>3, FS_Subset
<1>5. \A k \in DOMAIN chat.results : Fine(chat.results[k].result)  BY DEF ChatInv, Conversed
<1>6. \A d \in Now.deps : Fine(ResultOf(chat.results, d))  BY <1>2, <1>5, ResultFine
<1>7. DOMAIN Deps = Now.deps /\ \A d \in Now.deps : Deps[d] = ResultOf(chat.results, d)  BY DEF Deps
<1> QED BY <1>4, <1>6, <1>7 DEF AllFine

(* What it asks for, or analyses.                                          *)
LEMMA AnalysisKnown ==
  ASSUME ChatInv, chat.pc = "running", Todo # {}, Now.skill = "analysis"
  PROVE  Now.text \in NodeTexts \cup {{}}
<1> DEFINE i == Min(Todo)
<1>1. i \in Todo
  <2>1. Len(chat.plan) \in Nat /\ DOMAIN chat.plan = 1..Len(chat.plan)  BY ListedFacts DEF ChatInv, Conversed, Shaped
  <2>2. Todo \in SUBSET (1..Len(chat.plan))  BY <2>1 DEF Todo
  <2> QED BY <2>1, <2>2, LeastOf
<1> QED BY <1>1 DEF ChatInv, Conversed, Suited, Todo, Now

LEMMA QueryKnown ==
  ASSUME ChatInv, chat.pc = "running", Todo # {}, Now.skill = "research"
  PROVE  Query \in NodeTexts /\ Now.tool \in SearchTools \cup {"", "finance"}
<1> DEFINE i == Min(Todo)
<1>1. i \in Todo
  <2>1. Len(chat.plan) \in Nat /\ DOMAIN chat.plan = 1..Len(chat.plan)  BY ListedFacts DEF ChatInv, Conversed, Shaped
  <2>2. Todo \in SUBSET (1..Len(chat.plan))  BY <2>1 DEF Todo
  <2> QED BY <2>1, <2>2, LeastOf
<1>2. Now.text \in NodeTexts /\ Now.tool \in SearchTools \cup {"", "finance"}
  BY <1>1 DEF ChatInv, Conversed, Suited, Todo, Now
<1>3. Asked \in NodeTexts  BY DEF Asked, NodeTexts, ChatInv, Conversed
<1> QED BY <1>2, <1>3 DEF Query

LEMMA OneResearch ==
  ASSUME NEW q, NEW tool, NEW r \in Researches(q, tool)
  PROVE  \E out \in Outputs(q, tool), b \in Batches \cup {Lost}, say \in Says : r = ResearchSkill(q, tool, out, b, say)
BY DEF Researches

LEMMA ResearchReturns ==
  ASSUME NEW q \in NodeTexts, NEW tool \in SearchTools \cup {""}, NEW r \in Researches(q, tool)
  PROVE  Fine(r) /\ Clean(r.sources)
<1>1. PICK out \in Outputs(q, tool), b \in Batches \cup {Lost}, say \in Says : r = ResearchSkill(q, tool, out, b, say)
  BY OneResearch
<1>2. Sources(out.docs)
  <2>1. CASE tool = ""
    <3>1. out = Output  BY <2>1 DEF Outputs
    <3>2. out.docs = <<>>  BY <3>1 DEF Output
    <3> QED BY <3>2, Unfound
  <2>2. CASE tool # ""
    <3>1. tool \in SearchTools  BY <2>2
    <3>2. ToolOutputs[<<q, tool>>] = {UseTool(tool, q, a) : a \in Attempts}  BY <3>1 DEF ToolOutputs
    <3>3. PICK a \in Attempts : out = UseTool(tool, q, a)  BY <2>2, <3>2 DEF Outputs
    <3> QED BY <3>3, ToolSourced
  <2> QED BY <2>1, <2>2
<1>3. Sources(b.docs)  BY BatchSourced
<1> QED BY <1>1, <1>2, <1>3, ResearchFine

(* A query and a tool are looked up in one table.                          *)
LEMMA Looked ==
  ASSUME NEW q \in NodeTexts, NEW tool \in SearchTools \cup {""}
  PROVE  ResearchResults[<<q, tool>>] = Researches(q, tool)
<1> DEFINE n == <<q, tool>>
<1>1. \A x \in NodeTexts \X (SearchTools \cup {""}) : ResearchResults[x] = Researches(x[1], x[2])
  BY DEF ResearchResults
<1>2. n \in NodeTexts \X (SearchTools \cup {""}) /\ n[1] = q /\ n[2] = tool  OBVIOUS
<1> HIDE DEF n
<1>3. ResearchResults[n] = Researches(q, tool)  BY <1>1, <1>2
<1> QED BY <1>3 DEF n

LEMMA OneNodeEnds ==
  ASSUME ChatInv, NodeStep
  PROVE  /\ chat.pc = "running" /\ Todo # {} /\ \E r : Ends(r) /\ Returns(r)
         /\ Keeps(quotes)' /\ extraction' \in Breakers
<1>1. Keeps(quotes) /\ extraction \in Breakers  BY DEF ChatInv
<1>2. Todo # {} => AllFine(Deps)  BY DepsFine
<1>3. CASE NodeFails
  <2>1. Returns(Fails("timeout"))
    <3>1. Fine(Fails("timeout")) /\ Fails("timeout").sources = <<>>  BY FineShapes
    <3> QED BY <3>1, NothingFound DEF Returns
  <2> QED BY <1>1, <1>3, <2>1 DEF NodeFails, EndsWith
<1>4. CASE GeneralAnswerNode
  <2>1. PICK say \in Says : EndsWith(GeneralAnswer(say))  BY <1>4 DEF GeneralAnswerNode
  <2>2. Returns(GeneralAnswer(say))
    <3>1. Fine(GeneralAnswer(say))  BY NothingSaid, GeneratedFine DEF GeneralAnswer
    <3>2. Now.skill # "research"  BY <1>4 DEF GeneralAnswerNode, At
    <3> QED BY <3>1, <3>2 DEF Returns
  <2> QED BY <1>1, <1>4, <2>1, <2>2 DEF GeneralAnswerNode, EndsWith, At
<1>5. CASE CompareNode
  <2>1. PICK say \in Says : EndsWith(CompareOrExample(Deps, say))  BY <1>5 DEF CompareNode
  <2>2. Returns(CompareOrExample(Deps, say))
    <3>1. AllFine(Deps) /\ Now.skill # "research"  BY <1>2, <1>5 DEF CompareNode, At
    <3>2. Fine(CompareOrExample(Deps, say))  BY <3>1, TextsOfDeps, GeneratedFine DEF CompareOrExample
    <3> QED BY <3>1, <3>2 DEF Returns
  <2> QED BY <1>1, <1>5, <2>1, <2>2 DEF CompareNode, EndsWith, At
<1>6. CASE ResearchNode
  <2>1. chat.pc = "running" /\ Todo # {} /\ Now.skill = "research"  BY <1>6 DEF ResearchNode, At
  <2>2. Query \in NodeTexts /\ Now.tool \in SearchTools \cup {"", "finance"}  BY <2>1, QueryKnown
  <2>3. CASE Now.tool # "finance" /\ \E r \in ResearchResults[<<Query, Now.tool>>] : EndsWith(r)
    <3>1. PICK r \in ResearchResults[<<Query, Now.tool>>] : EndsWith(r)  BY <2>3
    <3>2. Now.tool \in SearchTools \cup {""}  BY <2>2, <2>3
    <3>3. r \in Researches(Query, Now.tool)  BY <2>2, <3>1, <3>2, Looked
    <3>4. Returns(r)  BY <2>2, <3>2, <3>3, ResearchReturns DEF Returns
    <3> QED BY <1>1, <2>1, <3>1, <3>4 DEF EndsWith
  <2>4. CASE \E feeds \in FeedSets, say \in Says :
               /\ Ends(ResearchSkill(Query, "finance", Finance(Query, quotes, feeds), Lost, say))
               /\ quotes' = Cached(Query, quotes, feeds) /\ UNCHANGED extraction
    <3>1. PICK feeds \in FeedSets, say \in Says :
            /\ Ends(ResearchSkill(Query, "finance", Finance(Query, quotes, feeds), Lost, say))
            /\ quotes' = Cached(Query, quotes, feeds) /\ UNCHANGED extraction
      BY <2>4
    <3>2. Sources(Finance(Query, quotes, feeds).docs) /\ Sources(Lost.docs)
      BY <1>1, FinanceSourced, BatchSourced
    <3>3. Returns(ResearchSkill(Query, "finance", Finance(Query, quotes, feeds), Lost, say))
      BY <3>2, ResearchFine DEF Returns
    <3>4. Keeps(quotes)'  BY <1>1, <3>1, CachedKept
    <3> QED BY <1>1, <2>1, <3>1, <3>3, <3>4
  <2> QED BY <1>6, <2>3, <2>4 DEF ResearchNode
<1>7. CASE FinanceNode
  <2>1. PICK feeds \in FeedSets :
          Ends(FinanceSkill(Finance(Query, quotes, feeds))) /\ quotes' = Cached(Query, quotes, feeds)
    BY <1>7 DEF FinanceNode
  <2>2. Returns(FinanceSkill(Finance(Query, quotes, feeds)))
    <3>1. Sources(Finance(Query, quotes, feeds).docs)  BY <1>1, FinanceSourced
    <3>2. Fine(FinanceSkill(Finance(Query, quotes, feeds)))  BY <3>1, FinanceFine
    <3>3. Now.skill # "research"  BY <1>7 DEF FinanceNode, At
    <3> QED BY <3>2, <3>3 DEF Returns
  <2>3. Keeps(quotes)'  BY <1>1, <2>1, CachedKept
  <2> QED BY <1>1, <1>7, <2>1, <2>2, <2>3 DEF FinanceNode, At
<1>8. CASE AnalysisNode
  <2>1. PICK say \in Says : EndsWith(AnalysisSkill(Now.text, Deps, say))  BY <1>8 DEF AnalysisNode
  <2>2. chat.pc = "running" /\ Todo # {} /\ Now.skill = "analysis"  BY <1>8 DEF AnalysisNode, At
  <2> PICK q : q = Now.text  OBVIOUS
  <2>3. Fine(AnalysisSkill(q, Deps, say))  BY <1>2, <2>2, AnalysisKnown, AnalysisFine
  <2>4. Returns(AnalysisSkill(Now.text, Deps, say))  BY <2>2, <2>3 DEF Returns
  <2> QED BY <1>1, <1>8, <2>1, <2>4 DEF AnalysisNode, EndsWith, At
<1>9. CASE SynthesizerNode
  <2> PICK weather : weather = Mentions(Asked, P!Weather)  OBVIOUS
  <2>1. PICK say \in Says : EndsWith(Synthesizer(Deps, weather, say))  BY <1>9 DEF SynthesizerNode
  <2>2. Returns(Synthesizer(Deps, weather, say))
    BY <1>2, <1>9, SynthesizerFine DEF SynthesizerNode, At, Returns
  <2> QED BY <1>1, <1>9, <2>1, <2>2 DEF SynthesizerNode, EndsWith, At
<1>10. CASE FusionNode
  <2>1. PICK say \in Says : EndsWith(Fusion(Deps, say))  BY <1>10 DEF FusionNode
  <2>2. Returns(Fusion(Deps, say))  BY <1>2, <1>10, FusionFine DEF FusionNode, At, Returns
  <2> QED BY <1>1, <1>10, <2>1, <2>2 DEF FusionNode, EndsWith, At
<1>11. CASE GeoIntentNode
  <2>1. Returns(GeoIntent(Query))  BY <1>11, GeoFine DEF GeoIntentNode, At, Returns
  <2> QED BY <1>1, <1>11, <2>1 DEF GeoIntentNode, EndsWith, At
<1>12. CASE LocalDiscoveryNode
  <2>1. chat.pc = "running" /\ Todo # {} /\ Now.skill # "research"  BY <1>12 DEF LocalDiscoveryNode, At
  <2> PICK q : q = PlaceQuery(Query, Deps)  OBVIOUS
  <2>2. PICK out \in ToolOutputs[<<Asked, "local_search">>], b \in Batches \cup {Lost} :
          EndsWith(LocalDiscovery(q, out, b))
    BY <1>12 DEF LocalDiscoveryNode
  <2>3. Sources(out.docs)
    <3>1. Asked \in NodeTexts  BY <2>1 DEF Asked, NodeTexts, ChatInv, Conversed
    <3>2. ToolOutputs[<<Asked, "local_search">>] = {UseTool("local_search", Asked, a) : a \in Attempts}
      <4>1. \A x \in NodeTexts : ToolOutputs[<<x, "local_search">>] = {UseTool("local_search", x, a) : a \in Attempts}
        BY DEF ToolOutputs, SearchTools
      <4> QED BY <3>1, <4>1
    <3>3. PICK a \in Attempts : out = UseTool("local_search", Asked, a)  BY <2>2, <3>2
    <3> QED BY <3>3, ToolSourced
  <2>4. Fine(LocalDiscovery(q, out, b))  BY <2>3, BatchSourced, DiscoveryFine
  <2>5. Returns(LocalDiscovery(q, out, b))  BY <2>1, <2>4 DEF Returns
  <2> QED BY <1>1, <2>1, <2>2, <2>5 DEF EndsWith
<1>13. CASE PlaceNode
  <2>1. chat.pc = "running" /\ Todo # {} /\ Now.skill # "research"  BY <1>13 DEF PlaceNode, At
  <2>2. Returns(PlaceVerification(Deps)) /\ Returns(ReviewConsensus(Deps))
    BY <1>2, <2>1, VerificationFine, ReviewsFine DEF Returns
  <2>3. EndsWith(PlaceVerification(Deps)) \/ EndsWith(ReviewConsensus(Deps))  BY <1>13 DEF PlaceNode
  <2> QED BY <1>1, <2>1, <2>2, <2>3 DEF EndsWith
<1>14. CASE CandidateNode
  <2>1. Ends(CandidateExtraction(Deps)) /\ UNCHANGED quotes  BY <1>14 DEF CandidateNode
  <2>2. \E say \in Says : extraction' = IF Local(Deps).ok THEN Extracting(extraction, say) ELSE extraction
    BY <1>14 DEF CandidateNode
  <2>3. extraction' \in Breakers  BY <1>1, <2>2, ExtractingTyped
  <2>4. Returns(CandidateExtraction(Deps))  BY <1>14, CandidatesFine DEF CandidateNode, At, Returns
  <2> QED BY <1>1, <1>14, <2>1, <2>3, <2>4 DEF CandidateNode, At
<1>15. CASE ItineraryNode
  <2>1. PICK say \in Says : EndsWith(ItineraryPlanner(Deps, say))  BY <1>15 DEF ItineraryNode
  <2>2. Returns(ItineraryPlanner(Deps, say))  BY <1>2, <1>15, ItineraryFine DEF ItineraryNode, At, Returns
  <2> QED BY <1>1, <1>15, <2>1, <2>2 DEF ItineraryNode, EndsWith, At
<1> QED BY <1>3, <1>4, <1>5, <1>6, <1>7, <1>8, <1>9, <1>10, <1>11, <1>12, <1>13, <1>14, <1>15 DEF NodeStep

LEMMA NodeKeeps == ASSUME ChatInv, NodeStep PROVE ChatInv'
<1>1. PICK r : Ends(r) /\ Returns(r)  BY OneNodeEnds
<1> DEFINE i == Min(Todo)
<1>2. i \in Todo
  <2>1. Len(chat.plan) \in Nat /\ DOMAIN chat.plan = 1..Len(chat.plan)  BY ListedFacts DEF ChatInv, Conversed, Shaped
  <2>2. Todo \in SUBSET (1..Len(chat.plan))  BY <2>1 DEF Todo
  <2> QED BY <2>1, <2>2, OneNodeEnds, LeastOf
<1>3. i \in DOMAIN chat.plan /\ chat.plan[i].id \notin IdsOf(chat.results)  BY <1>2 DEF Todo
<1>4. chat' = [chat EXCEPT !.results = Append(@, [id |-> chat.plan[i].id, result |-> [r EXCEPT !.error = ""]])]
  BY <1>1 DEF Ends, Now
<1>5. Conversed(chat) /\ chat.pc = "running"  BY OneNodeEnds DEF ChatInv
<1> HIDE DEF i
<1>6. PICK x, c :
        /\ x = [r EXCEPT !.error = ""]
        /\ c = [chat EXCEPT !.results = Append(@, [id |-> chat.plan[i].id, result |-> x])]
  OBVIOUS
<1>7. Conversed(c)
  <2>1. Fine(x)  BY <1>1, <1>6, FineWith DEF Returns
  <2>2. x.sources = r.sources  BY <1>1, <1>6 DEF Returns, Fine
  <2>3. chat.plan[i].skill = "research" => Clean(x.sources)  BY <1>1, <2>2 DEF Returns, Now, i
  <2> QED BY <1>3, <1>5, <1>6, <2>1, <2>3, NodeEnds
<1>8. chat' = c  BY <1>4, <1>6
<1>9. Conversed(chat)'  BY <1>7, <1>8
<1> QED BY <1>9, OneNodeEnds DEF ChatInv

(* Each step keeps the invariant.                                          *)
LEMMA ReceiveKeeps == ASSUME ChatInv, NEW p \in Prompts, Receive(p) PROVE ChatInv'
<1>1. PICK reply, gate, need, strategy :
        LET known == P!Analyze(p, reply)
            a == P!Decide(known, gate)
        IN \E plan \in P!Plans(a, Registered, LinkReplies) :
             chat' = [Idle EXCEPT !.pc = "running", !.prompt = p, !.plan = plan,
                                  !.tasks = SubSeq(P!TaskIds, 1, Len(a.tasks)), !.live = P!NeedSearch(known, need),
                                  !.paths = P!ParallelPaths(P!Strategy(a, strategy), a)]
  BY DEF Receive
<1> DEFINE known == P!Analyze(p, reply)
           a == P!Decide(known, gate)
           k == Len(a.tasks)
           tasks == SubSeq(P!TaskIds, 1, k)
           live == P!NeedSearch(known, need)
           paths == P!ParallelPaths(P!Strategy(a, strategy), a)
<1>2. Understood(a)  BY AnalyzedWell
<1>3. PICK plan \in P!Plans(a, Registered, LinkReplies) :
        chat' = [Idle EXCEPT !.pc = "running", !.prompt = p, !.plan = plan, !.tasks = tasks, !.live = live,
                             !.paths = paths]
  BY <1>1
<1>4. k \in 0..4
  <2>1. k \in Nat /\ k <= 4  BY <1>2, ListedFacts DEF Understood
  <2> HIDE DEF k
  <2> QED BY <2>1
<1> HIDE DEF k
<1>5. Listed(tasks) /\ \A i, j \in DOMAIN tasks : tasks[i] = tasks[j] => i = j  BY <1>4, TasksNamed
<1> HIDE DEF a, tasks, live, paths
<1>6. Shaped(plan) /\ Concluded(plan) /\ Suited(plan)  BY <1>2, PlansShaped
<1>7. PICK c : c = [Idle EXCEPT !.pc = "running", !.prompt = p, !.plan = plan, !.tasks = tasks, !.live = live,
                                !.paths = paths]
  OBVIOUS
<1>8. Conversed(c)
  <2>1. /\ DOMAIN c = {"pc", "prompt", "tasks", "plan", "paths", "live", "results", "payload", "issues"}
        /\ c.pc = "running" /\ c.prompt = p /\ c.plan = plan /\ c.tasks = tasks /\ c.results = <<>>
    BY <1>7 DEF Idle
  <2> QED BY <1>5, <1>6, <2>1, NothingYet DEF Conversed
<1>9. Conversed(chat)'  BY <1>3, <1>7, <1>8
<1> QED BY <1>9 DEF ChatInv, Receive

LEMMA ComposeKeeps == ASSUME ChatInv, Compose PROVE ChatInv'
<1>1. \A i \in DOMAIN chat.plan :
        ~(chat.plan[i].id \notin IdsOf(chat.results) /\ chat.plan[i].deps \subseteq IdsOf(chat.results))
  BY DEF Compose, Todo
<1>2. PICK c : c = [chat EXCEPT !.pc = "answered", !.payload = Payload(chat.results, chat.tasks)]  OBVIOUS
<1>3. Conversed(c)  BY <1>1, <1>2, ComposedSound DEF Compose, ChatInv
<1>4. chat' = c  BY <1>2 DEF Compose
<1>5. Conversed(chat)'  BY <1>3, <1>4
<1> QED BY <1>5 DEF ChatInv, Compose

LEMMA ReviewKeeps == ASSUME ChatInv, Review PROVE ChatInv'
<1>1. Sound(chat.payload)  BY DEF ChatInv, Conversed, Review
<1>2. PICK issues, extra, other :
        chat' = [Idle EXCEPT !.pc = "done", !.issues = issues,
                             !.payload = Augmented(chat.payload, issues, extra, other)]
  BY DEF Review
<1>3. PICK c : c = [Idle EXCEPT !.pc = "done", !.issues = issues,
                                !.payload = Augmented(chat.payload, issues, extra, other)]
  OBVIOUS
<1>4. Conversed(c)
  <2>1. Sound(Augmented(chat.payload, issues, extra, other))  BY <1>1, AugmentedSound
  <2>2. /\ DOMAIN c = {"pc", "prompt", "tasks", "plan", "paths", "live", "results", "payload", "issues"}
        /\ c.pc = "done" /\ c.payload = Augmented(chat.payload, issues, extra, other)
        /\ c.plan = <<>> /\ c.results = <<>>
    BY <1>3 DEF Idle
  <2> QED BY <2>1, <2>2, NoNodes, NothingYet DEF Conversed
<1>5. Conversed(chat)'  BY <1>2, <1>3, <1>4
<1> QED BY <1>5 DEF ChatInv, Review

LEMMA ChatInvInit == Init => ChatInv
<1> SUFFICES ASSUME Init PROVE ChatInv  OBVIOUS
<1>1. Keeps(quotes)  BY NothingQuoted DEF Init
<1>2. extraction \in Breakers  BY DEF Init, Unblocked, Breakers, ExtractionThreshold
<1> QED BY <1>1, <1>2, NotYet DEF Init, ChatInv

LEMMA ChatInvNext == ChatInv /\ [Next]_vars => ChatInv'
<1> SUFFICES ASSUME ChatInv, [Next]_vars PROVE ChatInv'  OBVIOUS
<1>1. CASE \E p \in Prompts : Receive(p)  BY <1>1, ReceiveKeeps
<1>2. CASE NodeStep  BY <1>2, NodeKeeps
<1>3. CASE Compose  BY <1>3, ComposeKeeps
<1>4. CASE Review  BY <1>4, ReviewKeeps
<1>5. CASE Deliver
  <2>1. PICK c : c = Idle /\ Conversed(c)  BY NotYet
  <2>2. Conversed(chat)'  BY <1>5, <2>1 DEF Deliver
  <2> QED BY <1>5, <2>2 DEF Deliver, ChatInv
<1>6. CASE \E k \in CacheKeys : Age(k)
  <2>1. PICK k \in CacheKeys : Age(k)  BY <1>6
  <2>2. PICK c : c = [quotes EXCEPT ![k] = Aged(quotes[k])]  OBVIOUS
  <2>3. Keeps(c)  BY <2>2, AgedKept DEF ChatInv, Keeps, Kept
  <2>4. Keeps(quotes)'  BY <2>1, <2>2, <2>3 DEF Age
  <2> QED BY <2>1, <2>4 DEF Age, ChatInv
<1>7. CASE Unblock
  <2>1. extraction' \in Breakers  BY <1>7 DEF Unblock, ChatInv, Breakers
  <2> QED BY <1>7, <2>1 DEF Unblock, ChatInv
<1>8. CASE UNCHANGED vars  BY <1>8 DEF vars, ChatInv
<1> QED BY <1>1, <1>2, <1>3, <1>4, <1>5, <1>6, <1>7, <1>8 DEF Next, NodeStep

LEMMA ChatInvHolds == Spec => []ChatInv
<1> QED BY ChatInvInit, ChatInvNext, PTL DEF Spec

-----------------------------------------------------------------------------
(* Every node that ended is a node of the plan, and ended once; the quotes *)
(* that the finance tool keeps and the breaker of the place extraction are *)
(* what their code makes of them, whatever the feeds and the model reply.  *)
THEOREM TypeCorrect == Spec => []TypeOK
<1>1. ChatInv => TypeOK
  <2> SUFFICES ASSUME ChatInv PROVE TypeOK  OBVIOUS
  <2>1. Conversed(chat)  BY DEF ChatInv
  <2>2. IdsOf(chat.results) = {chat.results[i].id : i \in DOMAIN chat.results}  BY DEF IdsOf
  <2>3. Len(chat.results) = Cardinality(IdsOf(chat.results))  BY <2>1, <2>2, Named DEF Conversed
  <2>4. P!Skills(chat.plan) \subseteq Registered  BY <2>1 DEF Conversed, Shaped
  <2>5. quotes \in [CacheKeys -> Quotes]  BY DEF ChatInv, Keeps
  <2> QED BY <2>1, <2>3, <2>4, <2>5 DEF ChatInv, TypeOK, Conversed, Quotes, Breakers
<1> QED BY <1>1, ChatInvHolds, PTL

(* planner.py: every plan made of a prompt can be carried out to its end,  *)
(* and one node of it hears of all the others, for any prompt, any routing *)
(* of its tasks and any dependencies the model names.                      *)
THEOREM PlanIsExecutableHolds == Spec => []PlanIsExecutable
<1>1. ChatInv => PlanIsExecutable
  <2> SUFFICES ASSUME ChatInv, chat.pc \in {"running", "answered"} PROVE PlanIsExecutable  BY DEF PlanIsExecutable
  <2>1. Shaped(chat.plan) /\ Concluded(chat.plan)  BY DEF ChatInv, Conversed
  <2>2. Cardinality(P!Ids(chat.plan)) = Len(chat.plan)  BY <2>1, Named DEF Shaped, Apart, P!Ids
  <2> QED BY <2>1, <2>2 DEF PlanIsExecutable, Shaped, Concluded
<1> QED BY <1>1, ChatInvHolds, PTL

(* final_response_builder.py: whichever nodes fail and whatever the others *)
(* return, no answer shows the text of an error, and one that stands for a *)
(* failure makes no claim that the model invented.                         *)
THEOREM NoErrorShownHolds == Spec => []NoErrorShown
<1>1. ChatInv => NoErrorShown  BY DEF ChatInv, Conversed, Sound, NoErrorShown
<1> QED BY <1>1, ChatInvHolds, PTL

(* skills.py: no source that ResearchSkill cites is an invented one, for   *)
(* any replies of the tools and the search, any batches of documents in    *)
(* any order, and whatever is searched again when a tool finds too little. *)
THEOREM MockStaysOutHolds == Spec => []MockStaysOut
<1>1. ChatInv => MockStaysOut
  <2> SUFFICES ASSUME ChatInv, NEW i \in Researched
               PROVE  Clean(ResultOf(chat.results, chat.plan[i].id).sources)
    BY DEF MockStaysOut, Clean
  <2>1. /\ \A k \in DOMAIN chat.results : Fine(chat.results[k].result)
        /\ \A k \in DOMAIN chat.plan, j \in DOMAIN chat.results :
             chat.plan[k].skill = "research" /\ chat.results[j].id = chat.plan[k].id
               => Clean(chat.results[j].result.sources)
    BY DEF ChatInv, Conversed
  <2>2. i \in DOMAIN chat.plan /\ chat.plan[i].skill = "research" /\ chat.plan[i].id \in IdsOf(chat.results)
    BY DEF Researched
  <2>3. PICK j \in DOMAIN chat.results :
          chat.results[j].id = chat.plan[i].id /\ ResultOf(chat.results, chat.plan[i].id) = chat.results[j].result
    BY <2>1, <2>2, ResultFine
  <2> QED BY <2>1, <2>2, <2>3
<1> QED BY <1>1, ChatInvHolds, PTL

(* result_formatting.py, final_response_builder.py: an answer none of      *)
(* whose claims shares two words with a source of the research, nor with   *)
(* what the ledger says of a data point (the description of its task and   *)
(* the figure), reaches the user under a notice, unless the ledger cites   *)
(* the calculator; and so does one whose last skill put a warning first,   *)
(* for any words asked, found, said or invented, and any failures.         *)
THEOREM WarningReachesUserHolds == Spec => []WarningReachesUser
<1>1. ChatInv => WarningReachesUser
  <2> SUFFICES ASSUME ChatInv, chat.pc = "answered", ~chat.payload.failed
               PROVE  LET last == {"synthesis", "fusion"} \cap IdsOf(chat.results)
                          calculated == "tool://calculator" \in chat.payload.ledger
                      IN /\ Unsupported(chat.payload.claims) /\ ~calculated => chat.payload.notice
                         /\ (\E id \in last : ResultOf(chat.results, id).text.notice) => chat.payload.notice
    BY DEF WarningReachesUser
  <2>1. /\ Listed(chat.results) /\ \A i \in DOMAIN chat.results : Fine(chat.results[i].result)
        /\ IdsOf(chat.results) \subseteq P!Ids(chat.plan) /\ Concluded(chat.plan) /\ Listed(chat.tasks)
        /\ chat.payload = Payload(chat.results, chat.tasks)
    BY DEF ChatInv, Conversed, Apart
  <2>2. ~({"synthesis", "fusion"} \subseteq IdsOf(chat.results))  BY <2>1 DEF Concluded
  <2> QED BY <2>1, <2>2, Noticed DEF Unsupported
<1> QED BY <1>1, ChatInvHolds, PTL
=============================================================================
