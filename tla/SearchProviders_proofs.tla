---------------------- MODULE SearchProviders_proofs ----------------------
(***************************************************************************)
(* What the ranking of documents returns: whatever the query and the       *)
(* documents are, there is always one that is worth more than all others.  *)
(***************************************************************************)
EXTENDS SearchProviders, SequenceTheorems, FiniteSetTheorems, WellFoundedInduction, TLAPS

-----------------------------------------------------------------------------
(* Sequences whose elements need no set of their own.                      *)
Listed(s) == s \in Seq({s[i] : i \in DOMAIN s})

LEMMA ListedFacts ==
  ASSUME NEW s, Listed(s)
  PROVE  Len(s) \in Nat /\ DOMAIN s = 1..Len(s)
  BY DEF Listed

(* A function on 1..n is one.                                              *)
LEMMA Listing ==
  ASSUME NEW n \in Nat, NEW f, f = [i \in 1..n |-> f[i]]
  PROVE  Listed(f) /\ Len(f) = n /\ DOMAIN f = 1..n
<1>1. DOMAIN f = 1..n  OBVIOUS
<1>2. f \in [1..n -> {f[i] : i \in DOMAIN f}]  BY <1>1
<1>3. f \in Seq({f[i] : i \in DOMAIN f})  BY <1>2, SeqDef
<1> QED BY <1>1, <1>3 DEF Listed

-----------------------------------------------------------------------------
(* The order documents are picked by.                                      *)
Standings == Int \X Int \X Int \X Int \X Int

LEMMA PrecedesBy ==
  ASSUME NEW a \in Standings, NEW b \in Standings
  PROVE  Precedes(a, b) <=>
           \/ a[1] > b[1]
           \/ a[1] = b[1] /\ a[2] > b[2]
           \/ a[1] = b[1] /\ a[2] = b[2] /\ a[3] > b[3]
           \/ a[1] = b[1] /\ a[2] = b[2] /\ a[3] = b[3] /\ a[4] > b[4]
           \/ a[1] = b[1] /\ a[2] = b[2] /\ a[3] = b[3] /\ a[4] = b[4] /\ a[5] > b[5]
<1> DEFINE A(k) == a[k] > b[k] /\ \A m \in 1..(k - 1) : a[m] = b[m]
<1>1. DOMAIN a = 1..5  BY DEF Standings
<1>2. Precedes(a, b) <=> \E k \in 1..5 : A(k)  BY <1>1 DEF Precedes
<1>3. (\E k \in 1..5 : A(k)) <=> A(1) \/ A(2) \/ A(3) \/ A(4) \/ A(5)
  <2> HIDE DEF A
  <2> QED OBVIOUS
<1>4. A(1) <=> a[1] > b[1]  OBVIOUS
<1>5. A(2) <=> a[1] = b[1] /\ a[2] > b[2]  OBVIOUS
<1>6. A(3) <=> a[1] = b[1] /\ a[2] = b[2] /\ a[3] > b[3]  OBVIOUS
<1>7. A(4) <=> a[1] = b[1] /\ a[2] = b[2] /\ a[3] = b[3] /\ a[4] > b[4]  OBVIOUS
<1>8. A(5) <=> a[1] = b[1] /\ a[2] = b[2] /\ a[3] = b[3] /\ a[4] = b[4] /\ a[5] > b[5]  OBVIOUS
<1> HIDE DEF A
<1> QED BY <1>2, <1>3, <1>4, <1>5, <1>6, <1>7, <1>8

(* No two differ in nothing, and of three the order is that of the ends.   *)
LEMMA PrecedesOrders ==
  ASSUME NEW a \in Standings, NEW b \in Standings
  PROVE  /\ ~Precedes(a, a)
         /\ a[5] # b[5] => Precedes(a, b) \/ Precedes(b, a)
         /\ \A c \in Standings : Precedes(a, b) /\ Precedes(b, c) => Precedes(a, c)
<1>1. a[1] \in Int /\ a[2] \in Int /\ a[3] \in Int /\ a[4] \in Int /\ a[5] \in Int  BY DEF Standings
<1>2. b[1] \in Int /\ b[2] \in Int /\ b[3] \in Int /\ b[4] \in Int /\ b[5] \in Int  BY DEF Standings
<1>3. ~Precedes(a, a)  BY <1>1, PrecedesBy
<1>4. a[5] # b[5] => Precedes(a, b) \/ Precedes(b, a)  BY <1>1, <1>2, PrecedesBy
<1>5. ASSUME NEW c \in Standings, Precedes(a, b), Precedes(b, c)  PROVE Precedes(a, c)
  <2>1. c[1] \in Int /\ c[2] \in Int /\ c[3] \in Int /\ c[4] \in Int /\ c[5] \in Int  BY DEF Standings
  <2> QED BY <1>1, <1>2, <1>5, <2>1, PrecedesBy
<1> QED BY <1>3, <1>4, <1>5

(* A least element of a set of numbers.                                    *)
LEMMA LeastNumber ==
  ASSUME NEW S \in SUBSET Nat, S # {}
  PROVE  \E x \in S : \A y \in S : x <= y
<1> DEFINE R == {p \in Nat \X Nat : p[1] < p[2]}
<1>1. OpToRel(<, Nat) = R
  BY DEF OpToRel
<1>2. IsWellFoundedOn(R, Nat)  BY <1>1, NatLessThanWellFounded
<1> HIDE DEF R
<1>3. PICK x \in S : \A y \in S : ~(<<y, x>> \in R)
  BY <1>2, WFMin
<1>4. ASSUME NEW y \in S  PROVE x <= y
  <2>1. ~(<<y, x>> \in R) /\ x \in Nat /\ y \in Nat  BY <1>3
  <2>2. ~(y < x)  BY <2>1 DEF R
  <2> QED BY <2>1, <2>2
<1> QED BY <1>4

(* One of finitely many comes before all the others.                       *)
LEMMA OneIsForemost ==
  ASSUME NEW S, IsFiniteSet(S), S # {}, NEW w, \A i \in S : w[i] \in Standings,
         \A i, j \in S : w[i][5] = w[j][5] => i = j
  PROVE  \E i \in S : \A j \in S \ {i} : Precedes(w[i], w[j])
<1> DEFINE Before(i) == {j \in S : Precedes(w[j], w[i])}
           c(i) == Cardinality(Before(i))
           C == {c(i) : i \in S}
<1>1. \A i \in S : IsFiniteSet(Before(i)) /\ c(i) \in Nat  BY FS_Subset, FS_CardinalityType
<1>2. C \in SUBSET Nat /\ C # {}  BY <1>1
<1>3. PICK m \in C : \A n \in C : m <= n
  <2> HIDE DEF C
  <2> QED BY <1>2, LeastNumber
<1>4. PICK i \in S : m = c(i)  OBVIOUS
<1>5. ASSUME NEW j \in S \ {i}, ~Precedes(w[i], w[j])  PROVE FALSE
  <2>0. w[i] \in Standings /\ w[j] \in Standings /\ w[i][5] # w[j][5]  OBVIOUS
  <2>1. Precedes(w[j], w[i])  BY <1>5, <2>0, PrecedesOrders
  <2>2. j \in Before(i) /\ j \notin Before(j)  BY <2>0, <2>1, PrecedesOrders
  <2>3. Before(j) \subseteq Before(i)  BY <2>0, <2>1, PrecedesOrders
  <2> HIDE DEF Before
  <2>4. c(j) <= c(i) /\ (c(j) = c(i) => Before(j) = Before(i))  BY <1>1, <2>3, FS_Subset
  <2>5. c(i) <= c(j)  BY <1>3, <1>4
  <2>6. c(i) \in Nat /\ c(j) \in Nat  BY <1>1
  <2> QED BY <2>2, <2>4, <2>5, <2>6
<1> QED BY <1>5

(* So it is with numbers: a finite set of them has a greatest and a least. *)
LEMMA MaxOf ==
  ASSUME NEW S \in SUBSET Int, IsFiniteSet(S), S # {}
  PROVE  Max(S) \in S /\ \A y \in S : Max(S) >= y
<1> DEFINE w == [x \in S |-> <<x, 0, 0, 0, x>>]
<1>1. \A x \in S : w[x] \in Standings /\ w[x][1] = x /\ w[x][5] = x /\ w[x][2] = 0 /\ w[x][3] = 0 /\ w[x][4] = 0
  BY DEF Standings
<1> HIDE DEF w
<1>0. \A x, y \in S : w[x][5] = w[y][5] => x = y  BY <1>1
<1>2. \E x \in S : \A y \in S \ {x} : Precedes(w[x], w[y])
  <2>1. \A x \in S : w[x] \in Standings  BY <1>1
  <2> QED BY <2>1, <1>0, OneIsForemost
<1>4. PICK x \in S : \A y \in S \ {x} : Precedes(w[x], w[y])  BY <1>2
<1>3. \A y \in S : x >= y
  <2> SUFFICES ASSUME NEW y \in S \ {x}  PROVE x >= y  OBVIOUS
  <2>1. Precedes(w[x], w[y])  BY <1>4
  <2>2. w[x] \in Standings /\ w[y] \in Standings  BY <1>1
  <2>3. x > y  BY <1>1, <2>1, <2>2, PrecedesBy
  <2> QED BY <2>3
<1> QED BY <1>3 DEF Max

LEMMA MinOf ==
  ASSUME NEW S \in SUBSET Int, IsFiniteSet(S), S # {}
  PROVE  Min(S) \in S /\ \A y \in S : Min(S) <= y
<1> DEFINE w == [x \in S |-> <<-x, 0, 0, 0, x>>]
<1>1. \A x \in S : w[x] \in Standings /\ w[x][1] = -x /\ w[x][5] = x /\ w[x][2] = 0 /\ w[x][3] = 0 /\ w[x][4] = 0
  BY DEF Standings
<1> HIDE DEF w
<1>0. \A x, y \in S : w[x][5] = w[y][5] => x = y  BY <1>1
<1>2. \E x \in S : \A y \in S \ {x} : Precedes(w[x], w[y])
  <2>1. \A x \in S : w[x] \in Standings  BY <1>1
  <2> QED BY <2>1, <1>0, OneIsForemost
<1>4. PICK x \in S : \A y \in S \ {x} : Precedes(w[x], w[y])  BY <1>2
<1>3. \A y \in S : x <= y
  <2> SUFFICES ASSUME NEW y \in S \ {x}  PROVE x <= y  OBVIOUS
  <2>1. Precedes(w[x], w[y])  BY <1>4
  <2>2. w[x] \in Standings /\ w[y] \in Standings  BY <1>1
  <2>3. x <= y  BY <1>1, <2>1, <2>2, PrecedesBy
  <2> QED BY <2>3
<1> QED BY <1>3 DEF Min

(* The greater and the lesser of two numbers.                              *)
LEMMA OfTwo ==
  ASSUME NEW a \in Int, NEW b \in Int
  PROVE  /\ Max({a, b}) \in {a, b} /\ Max({a, b}) >= a /\ Max({a, b}) >= b
         /\ Min({a, b}) \in {a, b} /\ Min({a, b}) <= a /\ Min({a, b}) <= b
<1>1. IsFiniteSet({a, b}) /\ {a, b} \in SUBSET Int /\ {a, b} # {}
  <2>1. IsFiniteSet({a} \cup {b})  BY FS_Singleton, FS_Union
  <2>2. {a} \cup {b} = {a, b}  OBVIOUS
  <2> QED BY <2>1, <2>2
<1> DEFINE S == {a, b}
<1>2. a \in S /\ b \in S  OBVIOUS
<1> HIDE DEF S
<1>3. Max(S) \in S /\ (\A y \in S : Max(S) >= y) /\ Min(S) \in S /\ (\A y \in S : Min(S) <= y)
  <2>1. IsFiniteSet(S) /\ S \in SUBSET Int /\ S # {}  BY <1>1 DEF S
  <2> QED BY <2>1, MaxOf, MinOf
<1>4. Max(S) >= a /\ Max(S) >= b /\ Min(S) <= a /\ Min(S) <= b  BY <1>2, <1>3
<1> QED BY <1>3, <1>4 DEF S

Upper(a, b) == Max({a, b})
Lower(a, b) == Min({a, b})

LEMMA Clipped ==
  ASSUME NEW a \in Int, NEW b \in Int
  PROVE  /\ Upper(a, b) \in Int /\ Upper(a, b) >= a /\ Upper(a, b) >= b /\ (Upper(a, b) = a \/ Upper(a, b) = b)
         /\ Lower(a, b) \in Int /\ Lower(a, b) <= a /\ Lower(a, b) <= b /\ (Lower(a, b) = a \/ Lower(a, b) = b)
<1>1. /\ Upper(a, b) \in {a, b} /\ Upper(a, b) >= a /\ Upper(a, b) >= b
      /\ Lower(a, b) \in {a, b} /\ Lower(a, b) <= a /\ Lower(a, b) <= b
  BY OfTwo DEF Upper, Lower
<1> QED BY <1>1

-----------------------------------------------------------------------------
(* What a document is worth is a number, when its texts are finite.        *)
Scored(d) == IsFiniteSet(d.title) /\ IsFiniteSet(d.snippet) /\ d.reliability \in Int

LEMMA TierScored == ASSUME NEW d, NEW q PROVE TierScore[SourceTier(d, q)] \in 0..100
<1>1. SourceTier(d, q) \in {"official_statistics", "intergovernmental_report", "major_exchange", "financial_media",
                            "general_news", "other"}
  BY DEF SourceTier
<1> HIDE DEF SourceTier
<1> QED BY <1>1 DEF TierScore

LEMMA DecayScored == ASSUME NEW d PROVE RecencyDecay(d) \in 0..100
  BY DEF RecencyDecay

LEMMA RelevanceScored ==
  ASSUME NEW d, Scored(d), NEW q
  PROVE  Relevance(d, q) \in Int /\ Relevance(d, q) <= 25000
<1> DEFINE text == d.title \cup d.snippet
           subject == FirstMention(q, << <<CoffeeWords, CoffeeWords>>, <<{"pepper"}, {"pepper"}>> >>,
                                   {"commodity", "market"})
           tier == SourceTier(d, q)
           c1 == Cardinality(q \cap (text \cup {d.site, d.provider}))
           c2 == Cardinality(q \cap d.title)
           c3 == Cardinality(subject \cap text)
           live == IF d.freshness = "live" THEN 800 ELSE 0
           official == IF tier = "official_statistics" THEN 2000 ELSE 0
           reference == IF d.provider = "commodity_refs" THEN 1000 ELSE 0
           digest == IF Mentions(d.title \cup {d.provider}, {"news", "newsapi", "digest", "latest"}) THEN 1800 ELSE 0
           raw == 55 * d.reliability + 60 * TierScore[tier] + 500 * c1 + 800 * c2 + 700 * c3
                  + live + official + reference - digest
           decayed == (raw * RecencyDecay(d)) \div 100
<1>1. Relevance(d, q) = Max({0, Min({25000, decayed})})  BY DEF Relevance
<1>2. IsFiniteSet(text) /\ IsFiniteSet(text \cup {d.site, d.provider})
  <2>1. IsFiniteSet(text)  BY FS_Union DEF Scored
  <2>2. IsFiniteSet({d.site} \cup {d.provider})  BY FS_Singleton, FS_Union
  <2>3. {d.site, d.provider} = {d.site} \cup {d.provider}  OBVIOUS
  <2> QED BY <2>1, <2>2, <2>3, FS_Union
<1>3. c1 \in Int /\ c2 \in Int /\ c3 \in Int
  <2>1. IsFiniteSet(d.title)  BY DEF Scored
  <2>2. \A A, B : IsFiniteSet(B) => Cardinality(A \cap B) \in Nat
    <3> SUFFICES ASSUME NEW A, NEW B, IsFiniteSet(B)  PROVE Cardinality(A \cap B) \in Nat  OBVIOUS
    <3>1. A \cap B \in SUBSET B  OBVIOUS
    <3> QED BY <3>1, FS_Subset, FS_CardinalityType
  <2> HIDE DEF text, subject
  <2>3. c1 \in Nat /\ c2 \in Nat /\ c3 \in Nat  BY <1>2, <2>1, <2>2
  <2> HIDE DEF c1, c2, c3
  <2> QED BY <2>3
<1>4. d.reliability \in Int /\ TierScore[tier] \in Int /\ RecencyDecay(d) \in Int
  <2>1. TierScore[tier] \in 0..100 /\ RecencyDecay(d) \in 0..100  BY TierScored, DecayScored
  <2> QED BY <2>1 DEF Scored
<1>5. live \in Int /\ official \in Int /\ reference \in Int /\ digest \in Int  OBVIOUS
<1> HIDE DEF text, subject, tier, c1, c2, c3, live, official, reference, digest
<1>6. raw \in Int  BY <1>3, <1>4, <1>5
<1> HIDE DEF raw
<1>7. decayed \in Int
  <2>1. raw * RecencyDecay(d) \in Int  BY <1>4, <1>6
  <2> QED BY <2>1
<1> HIDE DEF decayed
<1>8. Relevance(d, q) = Upper(0, Lower(25000, decayed))  BY <1>1 DEF Upper, Lower
<1>9. Lower(25000, decayed) \in Int /\ Lower(25000, decayed) <= 25000  BY <1>7, Clipped
<1>10. PICK z, y : z = 0 /\ z \in Int /\ y = Lower(25000, decayed) /\ y \in Int /\ y <= 25000  BY <1>9
<1>11. Upper(z, y) \in Int /\ (Upper(z, y) = z \/ Upper(z, y) = y)
  <2>1. z \in Int /\ y \in Int  BY <1>10
  <2> QED BY <2>1, Clipped
<1> QED BY <1>8, <1>10, <1>11

(* So is what it loses to those picked before it.                          *)
LEMMA LikenessScored ==
  ASSUME NEW a, IsFiniteSet(a), NEW b, IsFiniteSet(b)
  PROVE  Likeness(a, b) \in Int
<1>1. CASE a = {} \/ b = {}  BY <1>1 DEF Likeness
<1>2. CASE a # {} /\ b # {}
  <2>1. IsFiniteSet(a \cup b) /\ IsFiniteSet(a \cap b)  BY FS_Union, FS_Intersection
  <2>2. Cardinality(a \cup b) \in Nat /\ Cardinality(a \cup b) # 0 /\ Cardinality(a \cap b) \in Nat
    <3>1. a \cup b # {}  BY <1>2
    <3> QED BY <2>1, <3>1, FS_CardinalityType, FS_EmptySet
  <2> DEFINE x == Cardinality(a \cup b)
             y == Cardinality(a \cap b)
  <2>3. Likeness(a, b) = (1200 * y) \div x  BY <1>2 DEF Likeness
  <2>4. x \in Nat /\ x > 0 /\ y \in Nat
    <3> HIDE DEF x, y
    <3> QED BY <2>2 DEF x, y
  <2> HIDE DEF x, y
  <2>5. (1200 * y) \div x \in Int  BY <2>4
  <2> QED BY <2>3, <2>5
<1> QED BY <1>1, <1>2

LEMMA PenaltyScored ==
  ASSUME NEW d, Scored(d), NEW n \in Nat, NEW picked, picked = [k \in 1..n |-> picked[k]],
         \A k \in 1..n : Scored(picked[k])
  PROVE  Penalty(d, picked) \in Int
<1> DEFINE recent == {k \in DOMAIN picked : k > Len(picked) - 3}
           same == {k \in DOMAIN picked : SourceGroup(picked[k]) = SourceGroup(d)}
           again == IF \E k \in DOMAIN picked : picked[k].title = d.title THEN 1000 ELSE 0
           like == {Likeness(d.title, picked[k].title) : k \in recent}
<1>0. DOMAIN picked = 1..n /\ IsFiniteSet(1..n)  BY FS_Interval
<1>1. Cardinality(same) \in Nat
  <2>1. same \in SUBSET (1..n)  BY <1>0
  <2> HIDE DEF same
  <2> QED BY <1>0, <2>1, FS_Subset, FS_CardinalityType
<1>2. again \in Int  OBVIOUS
<1>3. like \in SUBSET Int
  <2>1. \A k \in recent : Likeness(d.title, picked[k].title) \in Int  BY <1>0, LikenessScored DEF Scored
  <2> QED BY <2>1
<1>4. IsFiniteSet(like)
  <2>1. IsFiniteSet(recent)
    <3>1. recent \in SUBSET (1..n)  BY <1>0
    <3> HIDE DEF recent
    <3> QED BY <1>0, <3>1, FS_Subset
  <2> DEFINE f == [k \in recent |-> Likeness(d.title, picked[k].title)]
  <2>2. f \in Surjection(recent, like)  BY DEF Surjection
  <2> HIDE DEF f, recent, like
  <2> QED BY <2>1, <2>2, FS_Surjection
<1>5. Max({0} \cup like) \in Int
  <2> DEFINE S == {0} \cup like
  <2>1. S \in SUBSET Int /\ S # {} /\ IsFiniteSet(S)
    <3> HIDE DEF like
    <3>1. 0 \in S /\ S \in SUBSET Int  BY <1>3
    <3>2. IsFiniteSet({0})  BY FS_Singleton
    <3>3. IsFiniteSet(S)  BY <1>4, <3>2, FS_Union
    <3> QED BY <3>1, <3>3
  <2> HIDE DEF S
  <2>2. Max(S) \in Int  BY <2>1, MaxOf
  <2> QED BY <2>2 DEF S
<1>6. Penalty(d, picked) = 1600 * Cardinality(same) + again + Max({0} \cup like)  BY DEF Penalty
<1> DEFINE m == Max({0} \cup like)
           c == Cardinality(same)
<1> HIDE DEF m, c, again
<1>7. c \in Int /\ m \in Int /\ again \in Int /\ Penalty(d, picked) = 1600 * c + again + m
  BY <1>1, <1>2, <1>5, <1>6 DEF m, c
<1> QED BY <1>7

LEMMA Stands ==
  ASSUME NEW d, Scored(d), NEW n \in Nat, NEW picked, picked = [k \in 1..n |-> picked[k]],
         \A k \in 1..n : Scored(picked[k]), NEW q, NEW i \in Int
  PROVE  Standing(q, d, i, picked) \in Standings /\ Standing(q, d, i, picked)[5] = -i
<1> DEFINE r == Relevance(d, q)
           p == Penalty(d, picked)
           m == Upper(-10000, r - p)
           live == IF d.freshness = "live" THEN 1 ELSE 0
<1>1. Standing(q, d, i, picked) = <<m, r, d.reliability, live, -i>>  BY DEF Standing, Upper
<1>2. r \in Int  BY RelevanceScored
<1>3. p \in Int  BY PenaltyScored
<1>4. live \in Int /\ d.reliability \in Int  BY DEF Scored
<1>5. m \in Int
  <2>1. PICK x : x = r - p /\ x \in Int
    <3> HIDE DEF r, p
    <3> QED BY <1>2, <1>3
  <2>2. PICK y : y = -10000 /\ y \in Int  OBVIOUS
  <2>3. Upper(y, x) \in Int  BY <2>1, <2>2, Clipped
  <2> QED BY <2>1, <2>2, <2>3
<1> HIDE DEF r, p, m, live
<1> QED BY <1>1, <1>2, <1>4, <1>5 DEF Standings

-----------------------------------------------------------------------------
(* The ranking.                                                            *)

(* What k picks leave, and what they are; there is always a next one.      *)
Left(S, f, k) == S \ {f[m] : m \in 1..k}
Picked(docs, f, k) == [m \in 1..k |-> docs[f[m]]]

LEMMA OneIsPicked ==
  ASSUME NEW q, NEW docs, NEW S \in SUBSET Int, IsFiniteSet(S), \A i \in S : Scored(docs[i]),
         NEW k \in Nat, k < Cardinality(S), NEW f \in [1..k -> S]
  PROVE  \E x \in Left(S, f, k) : \A i \in Left(S, f, k) \ {x} :
           Precedes(Standing(q, docs[x], x, Picked(docs, f, k)), Standing(q, docs[i], i, Picked(docs, f, k)))
<1> DEFINE picked == [m \in 1..k |-> docs[f[m]]]
           before == {f[m] : m \in 1..k}
           left == S \ before
           w == [i \in left |-> Standing(q, docs[i], i, picked)]
<1>1. IsFiniteSet(before) /\ Cardinality(before) <= k
  <2>1. f \in Surjection(1..k, before)  BY DEF Surjection
  <2>2. IsFiniteSet(1..k) /\ Cardinality(1..k) = k  BY FS_Interval
  <2> HIDE DEF before
  <2> QED BY <2>1, <2>2, FS_Surjection
<1>2. left # {}
  <2>1. before \subseteq S  OBVIOUS
  <2>2. Cardinality(before) \in Nat /\ Cardinality(S) \in Nat  BY <1>1, FS_CardinalityType
  <2> HIDE DEF before
  <2>3. before # S  BY <1>1, <2>2
  <2> QED BY <2>1, <2>3
<1>3. IsFiniteSet(left)  BY FS_Difference
<1>4. \A i \in left : w[i] \in Standings /\ w[i][5] = -i
  <2> SUFFICES ASSUME NEW i \in left  PROVE w[i] \in Standings /\ w[i][5] = -i  OBVIOUS
  <2>1. i \in Int /\ Scored(docs[i]) /\ w[i] = Standing(q, docs[i], i, picked)  OBVIOUS
  <2>2. picked = [m \in 1..k |-> picked[m]] /\ \A m \in 1..k : Scored(picked[m])  OBVIOUS
  <2> HIDE DEF picked, left, w
  <2>3. Standing(q, docs[i], i, picked) \in Standings /\ Standing(q, docs[i], i, picked)[5] = -i
    BY <2>1, <2>2, Stands
  <2> QED BY <2>1, <2>3
<1>5. \A i, j \in left : w[i][5] = w[j][5] => i = j
  <2> SUFFICES ASSUME NEW i \in left, NEW j \in left, w[i][5] = w[j][5]  PROVE i = j  OBVIOUS
  <2>1. i \in Int /\ j \in Int  OBVIOUS
  <2> HIDE DEF w, left
  <2>2. -i = -j  BY <1>4
  <2> QED BY <2>1, <2>2
<1>6. \E x \in left : \A i \in left \ {x} : Precedes(w[x], w[i])
  <2>1. \A i \in left : w[i] \in Standings  BY <1>4
  <2> HIDE DEF w, left
  <2> QED BY <1>2, <1>3, <1>5, <2>1, OneIsForemost
<1>7. PICK x \in left : \A i \in left \ {x} : Precedes(w[x], w[i])  BY <1>6
<1>8. \A i \in left : w[i] = Standing(q, docs[i], i, picked)  OBVIOUS
<1> HIDE DEF w
<1>9. \A i \in left \ {x} : Precedes(Standing(q, docs[x], x, picked), Standing(q, docs[i], i, picked))
  <2> HIDE DEF left, picked
  <2> QED BY <1>7, <1>8
<1> QED BY <1>9 DEF Left, Picked

(* So that there is a ranking.                                             *)
LEMMA RankingExists ==
  ASSUME NEW q, NEW docs, NEW S \in SUBSET Int, IsFiniteSet(S), \A i \in S : Scored(docs[i]),
         NEW n \in Nat, n <= Cardinality(S)
  PROVE  \E f \in [1..n -> S] : \A k \in 1..n : Picks(q, docs, S, f, k)
<1> DEFINE Good(m) == \E f \in [1..m -> S] : \A k \in 1..m : Picks(q, docs, S, f, k)
           Bad == {m \in 0..n : ~Good(m)}
<1>1. Good(0)
  <2>1. \E f : f \in [1..0 -> S]
    <3>1. [m \in 1..0 |-> m] \in [1..0 -> S]  OBVIOUS
    <3> QED BY <3>1
  <2>2. \A k \in 1..0 : FALSE  OBVIOUS
  <2> QED BY <2>1, <2>2
<1>2. ASSUME NEW k \in Nat, k < n, Good(k)  PROVE Good(k + 1)
  <2>1. PICK f \in [1..k -> S] : \A m \in 1..k : Picks(q, docs, S, f, m)  BY <1>2
  <2>2. k < Cardinality(S)
    <3>1. Cardinality(S) \in Nat  BY FS_CardinalityType
    <3> QED BY <1>2, <3>1
  <2> DEFINE picked == Picked(docs, f, k)
             before == {f[m] : m \in 1..k}
             left == Left(S, f, k)
  <2>3. PICK x \in left : \A i \in left \ {x} :
          Precedes(Standing(q, docs[x], x, picked), Standing(q, docs[i], i, picked))
    BY <2>2, OneIsPicked
  <2> DEFINE g == [m \in 1..(k + 1) |-> IF m = k + 1 THEN x ELSE f[m]]
  <2>4. g \in [1..(k + 1) -> S] /\ g[k + 1] = x /\ \A m \in 1..k : g[m] = f[m]
    <3>1. x \in S  BY DEF Left
    <3> HIDE DEF left
    <3> QED BY <3>1
  <2> HIDE DEF g
  <2>5. ASSUME NEW m \in 1..k  PROVE Picks(q, docs, S, g, m)
    <3>1. Picks(q, docs, S, f, m)  BY <2>1
    <3>2. \A l \in 1..(m - 1) : l \in 1..k /\ g[l] = f[l]  BY <2>4
    <3>3. {g[l] : l \in 1..(m - 1)} = {f[l] : l \in 1..(m - 1)}  BY <3>2
    <3>4. [l \in 1..(m - 1) |-> docs[g[l]]] = [l \in 1..(m - 1) |-> docs[f[l]]]  BY <3>2
    <3>5. g[m] = f[m]  BY <2>4
    <3> QED BY <3>1, <3>3, <3>4, <3>5 DEF Picks
  <2>6. Picks(q, docs, S, g, k + 1)
    <3>1. 1..((k + 1) - 1) = 1..k  BY <1>2
    <3>2. {g[l] : l \in 1..((k + 1) - 1)} = before  BY <2>4, <3>1
    <3>3. [l \in 1..((k + 1) - 1) |-> docs[g[l]]] = picked  BY <2>4, <3>1 DEF Picked
    <3>4. S \ (before \cup {x}) = left \ {x} /\ x \notin before  BY <2>3 DEF Left
    <3> HIDE DEF before, picked, left
    <3> QED BY <2>3, <2>4, <3>2, <3>3, <3>4 DEF Picks
  <2>7. ASSUME NEW m \in 1..(k + 1)  PROVE Picks(q, docs, S, g, m)
    <3>1. m \in 1..k \/ m = k + 1  BY <1>2
    <3> QED BY <2>5, <2>6, <3>1
  <2> QED BY <2>4, <2>7
<1> HIDE DEF Good
<1>3. Bad = {}
  <2> SUFFICES ASSUME Bad # {}  PROVE FALSE  OBVIOUS
  <2>1. Bad \in SUBSET Nat  OBVIOUS
  <2>2. PICK m \in Bad : \A l \in Bad : m <= l
    <3> HIDE DEF Bad
    <3> QED BY <2>1, LeastNumber
  <2>3. m \in 0..n /\ ~Good(m) /\ m # 0  BY <1>1
  <2>4. m - 1 \in Nat /\ m - 1 < n /\ m - 1 \in 0..n /\ (m - 1) + 1 = m  BY <2>3
  <2>5. m - 1 \notin Bad  BY <2>2, <2>3
  <2>6. Good(m - 1)  BY <2>4, <2>5
  <2> QED BY <1>2, <2>3, <2>4, <2>6
<1>4. Good(n)
  <2>1. n \in 0..n  OBVIOUS
  <2> QED BY <1>3, <2>1
<1> QED BY <1>4 DEF Good

(* rank_documents_for_query returns documents that were to be ranked, no   *)
(* index twice, as many as there are up to the limit; and each of them,    *)
(* after its penalty for those before it, precedes all that are left.      *)
THEOREM RankedAre ==
  ASSUME NEW q, NEW docs, NEW S \in SUBSET Int, IsFiniteSet(S), \A i \in S : Scored(docs[i]), NEW limit \in Nat
  PROVE  \E n \in Nat : \E f \in [1..n -> S] :
           /\ n <= limit /\ n <= Cardinality(S) /\ (n = limit \/ n = Cardinality(S))
           /\ RankedAmong(q, docs, S, limit) = [k \in 1..n |-> docs[f[k]]]
           /\ \A k \in 1..n : Picks(q, docs, S, f, k)
<1> DEFINE n == Min({limit, Cardinality(S)})
           f == CHOOSE g \in [1..n -> S] : \A k \in 1..n : Picks(q, docs, S, g, k)
<1>1. Cardinality(S) \in Nat  BY FS_CardinalityType
<1>2. n = Lower(limit, Cardinality(S))  BY DEF Lower
<1>3. n \in Nat /\ n <= limit /\ n <= Cardinality(S) /\ (n = limit \/ n = Cardinality(S))
  <2> HIDE DEF n
  <2>1. limit \in Int /\ Cardinality(S) \in Int  BY <1>1
  <2> QED BY <1>1, <1>2, <2>1, Clipped
<1>4. f \in [1..n -> S] /\ \A k \in 1..n : Picks(q, docs, S, f, k)
  <2> HIDE DEF n
  <2> QED BY <1>3, RankingExists
<1>5. RankedAmong(q, docs, S, limit) = [k \in 1..n |-> docs[f[k]]]  BY DEF RankedAmong
<1> HIDE DEF n, f
<1> QED BY <1>3, <1>4, <1>5

-----------------------------------------------------------------------------
(* Sequences of documents.                                                 *)

(* Any finite set of numbers has an order.                                 *)
LEMMA InOrder ==
  ASSUME NEW S \in SUBSET Int, IsFiniteSet(S)
  PROVE  \E f \in [1..Cardinality(S) -> S] : \A i, j \in 1..Cardinality(S) : i < j => f[i] < f[j]
<1> DEFINE Good(n) == \A T \in SUBSET S :
                        Cardinality(T) = n => \E f \in [1..n -> T] : \A i, j \in 1..n : i < j => f[i] < f[j]
           Bad == {n \in Nat : ~Good(n)}
<1>1. Good(0)
  <2> SUFFICES ASSUME NEW T \in SUBSET S
               PROVE  \E f \in [1..0 -> T] : \A i, j \in 1..0 : i < j => f[i] < f[j]
    OBVIOUS
  <2>1. [m \in 1..0 |-> m] \in [1..0 -> T] /\ 1..0 = {}  OBVIOUS
  <2> QED BY <2>1
<1>2. ASSUME NEW n \in Nat, Good(n)  PROVE Good(n + 1)
  <2> SUFFICES ASSUME NEW T \in SUBSET S, Cardinality(T) = n + 1
               PROVE  \E f \in [1..(n + 1) -> T] : \A i, j \in 1..(n + 1) : i < j => f[i] < f[j]
    OBVIOUS
  <2>1. IsFiniteSet(T) /\ T \in SUBSET Int  BY FS_Subset
  <2>2. T # {}  BY <2>1, FS_EmptySet
  <2>3. Max(T) \in T /\ \A y \in T : Max(T) >= y  BY <2>1, <2>2, MaxOf
  <2>4. PICK x \in T : \A y \in T : x >= y  BY <2>3
  <2>5. Cardinality(T \ {x}) = n
    <3>1. Cardinality(T \ {x}) = Cardinality(T) - 1  BY <2>1, FS_RemoveElement
    <3> QED BY <3>1
  <2>6. PICK f \in [1..n -> T \ {x}] : \A i, j \in 1..n : i < j => f[i] < f[j]
    <3>1. T \ {x} \in SUBSET S  OBVIOUS
    <3> QED BY <1>2, <2>5, <3>1
  <2> DEFINE g == [k \in 1..(n + 1) |-> IF k = n + 1 THEN x ELSE f[k]]
  <2>7. g \in [1..(n + 1) -> T] /\ g[n + 1] = x /\ \A k \in 1..n : g[k] = f[k]  OBVIOUS
  <2> HIDE DEF g
  <2>8. ASSUME NEW i \in 1..(n + 1), NEW j \in 1..(n + 1), i < j  PROVE g[i] < g[j]
    <3>1. i \in 1..n  BY <2>8
    <3>2. g[i] = f[i] /\ f[i] \in T \ {x}  BY <2>7, <3>1
    <3>3. CASE j = n + 1
      <4>1. g[j] = x /\ x \in Int /\ f[i] \in Int /\ x >= f[i] /\ x # f[i]  BY <2>1, <2>4, <2>7, <3>2, <3>3
      <4> QED BY <3>2, <4>1
    <3>4. CASE j # n + 1
      <4>1. j \in 1..n  BY <3>4
      <4> QED BY <2>6, <2>7, <2>8, <3>1, <4>1
    <3> QED BY <3>3, <3>4
  <2> QED BY <2>7, <2>8
<1> HIDE DEF Good
<1>3. Bad = {}
  <2> SUFFICES ASSUME Bad # {}  PROVE FALSE  OBVIOUS
  <2>1. Bad \in SUBSET Nat  OBVIOUS
  <2>2. PICK m \in Bad : \A l \in Bad : m <= l
    <3> HIDE DEF Bad
    <3> QED BY <2>1, LeastNumber
  <2>3. m \in Nat /\ ~Good(m) /\ m # 0  BY <1>1
  <2>4. m - 1 \in Nat /\ (m - 1) + 1 = m /\ ~(m <= m - 1)  BY <2>3
  <2>5. Good(m - 1)  BY <2>2, <2>4
  <2> QED BY <1>2, <2>3, <2>4, <2>5
<1>4. Cardinality(S) \in Nat /\ S \in SUBSET S  BY FS_CardinalityType
<1>5. Good(Cardinality(S))  BY <1>3, <1>4
<1> QED BY <1>4, <1>5 DEF Good

(* The documents at some indices are those.                                *)
LEMMA SelectedAre ==
  ASSUME NEW docs, Listed(docs), NEW S \in SUBSET DOMAIN docs
  PROVE  Listed(Selected(docs, S)) /\ \A i \in DOMAIN Selected(docs, S) : \E k \in S : Selected(docs, S)[i] = docs[k]
<1> DEFINE n == Cardinality(S)
           f == CHOOSE g \in [1..n -> S] : \A i, j \in 1..n : i < j => g[i] < g[j]
           t == Selected(docs, S)
<1>1. IsFiniteSet(S) /\ S \in SUBSET Int
  <2>1. Len(docs) \in Nat /\ DOMAIN docs = 1..Len(docs)  BY ListedFacts
  <2>2. S \in SUBSET (1..Len(docs)) /\ IsFiniteSet(1..Len(docs))  BY <2>1, FS_Interval
  <2> QED BY <2>1, <2>2, FS_Subset
<1>2. n \in Nat  BY <1>1, FS_CardinalityType
<1>3. f \in [1..n -> S]
  <2>1. \E g \in [1..n -> S] : \A i, j \in 1..n : i < j => g[i] < g[j]  BY <1>1, InOrder
  <2> HIDE DEF n
  <2> QED BY <2>1
<1>4. t = [k \in 1..n |-> docs[f[k]]]  BY DEF Selected
<1> HIDE DEF n, f, t
<1>5. DOMAIN t = 1..n /\ t = [k \in 1..n |-> t[k]]  BY <1>4
<1>6. Listed(t)  BY <1>2, <1>5, Listing
<1>7. \A i \in DOMAIN t : f[i] \in S /\ t[i] = docs[f[i]]  BY <1>3, <1>4, <1>5
<1> QED BY <1>6, <1>7 DEF t

(* A sequence of elements of another one.                                  *)
Drawn(t, s) == Listed(t) /\ \A i \in DOMAIN t : \E k \in DOMAIN s : t[i] = s[k]

LEMMA PieceDrawn ==
  ASSUME NEW s, Listed(s), NEW m \in Nat \ {0}, NEW n \in Nat, n <= Len(s)
  PROVE  Drawn(SubSeq(s, m, n), s) /\ Len(SubSeq(s, m, n)) <= Len(s)
<1> DEFINE V == {s[i] : i \in DOMAIN s}
           t == SubSeq(s, m, n)
           k == IF m <= n THEN n - m + 1 ELSE 0
<1>1. Len(s) \in Nat /\ DOMAIN s = 1..Len(s)  BY ListedFacts
<1>2. /\ t \in Seq(V)
      /\ Len(t) = IF m <= n THEN n - m + 1 ELSE 0
      /\ \A i \in 1..(n - m + 1) : t[i] = s[m + i - 1]
  <2>1. \A i \in m..n : s[i] \in V  BY <1>1
  <2> HIDE DEF V
  <2> QED BY <2>1, SubSeqProperties
<1>3. k \in Nat  OBVIOUS
<1> HIDE DEF t
<1>4. DOMAIN t = 1..k /\ t = [i \in 1..k |-> t[i]]
  <2> HIDE DEF V
  <2>1. Len(t) = k  BY <1>2
  <2> HIDE DEF k
  <2> QED BY <1>2, <2>1, LenProperties
<1>5. \A i \in 1..k : i \in 1..(n - m + 1) /\ m + i - 1 \in 1..Len(s)  BY <1>1
<1>6. \A i \in 1..k : m + i - 1 \in DOMAIN s /\ t[i] = s[m + i - 1]  BY <1>1, <1>2, <1>5
<1>7. k <= Len(s)  BY <1>1
<1> HIDE DEF k
<1>8. Listed(t) /\ Len(t) = k  BY <1>3, <1>4, Listing
<1>9. Drawn(t, s) /\ Len(t) <= Len(s)  BY <1>4, <1>6, <1>7, <1>8 DEF Drawn
<1> QED BY <1>9 DEF t

LEMMA FirstDrawn ==
  ASSUME NEW s, Listed(s), NEW n \in Nat
  PROVE  Drawn(First(s, n), s) /\ Len(First(s, n)) <= Len(s)
<1>1. Len(s) \in Nat  BY ListedFacts
<1>2. PICK k : k = Lower(n, Len(s)) /\ k \in Nat /\ k <= Len(s)
  <2>1. n \in Int /\ Len(s) \in Int  BY <1>1
  <2>2. Lower(n, Len(s)) \in Nat /\ Lower(n, Len(s)) <= Len(s)  BY <1>1, <2>1, Clipped
  <2> QED BY <2>2
<1>3. PICK one \in Nat \ {0} : one = 1  OBVIOUS
<1>4. Drawn(SubSeq(s, one, k), s) /\ Len(SubSeq(s, one, k)) <= Len(s)
  BY <1>2, <1>3, PieceDrawn
<1> QED BY <1>2, <1>3, <1>4 DEF First, Lower

LEMMA SelectedDrawn ==
  ASSUME NEW docs, Listed(docs), NEW S \in SUBSET DOMAIN docs
  PROVE  Drawn(Selected(docs, S), docs)
<1>1. /\ Listed(Selected(docs, S))
      /\ \A i \in DOMAIN Selected(docs, S) : \E k \in S : Selected(docs, S)[i] = docs[k]
  BY SelectedAre
<1> HIDE DEF Selected
<1> QED BY <1>1 DEF Drawn

-----------------------------------------------------------------------------
(* What a provider may answer with: documents that have a score, and that  *)
(* are signed by anybody but the mock provider.                            *)
Genuine(d) ==
  /\ DOMAIN d = {"title", "snippet", "url", "site", "provider", "freshness", "published", "reliability"}
  /\ Scored(d)
  /\ d.provider # "mock"

AllGenuine(s) == Listed(s) /\ \A i \in DOMAIN s : Genuine(s[i])

LEMMA DrawnGenuine ==
  ASSUME NEW s, AllGenuine(s), NEW t, Drawn(t, s)
  PROVE  AllGenuine(t)
BY DEF AllGenuine, Drawn

LEMMA NothingGenuine == AllGenuine(<<>>)
<1>1. Listed(<<>>) /\ DOMAIN <<>> = {}  BY DEF Listed
<1> QED BY <1>1 DEF AllGenuine

LEMMA SignedGenuine ==
  ASSUME NEW p, p # "mock", NEW s, AllGenuine(s)
  PROVE  AllGenuine(ByThem(p, s))
<1> DEFINE t == ByThem(p, s)
<1>1. Len(s) \in Nat /\ DOMAIN s = 1..Len(s)  BY ListedFacts DEF AllGenuine
<1>2. t = [k \in DOMAIN s |-> [s[k] EXCEPT !.provider = p]]  BY DEF ByThem
<1> HIDE DEF t
<1>3. DOMAIN t = DOMAIN s /\ \A k \in DOMAIN s : t[k] = [s[k] EXCEPT !.provider = p]  BY <1>2
<1>4. Listed(t)
  <2>1. t = [i \in 1..Len(s) |-> t[i]]  BY <1>1, <1>2
  <2> QED BY <1>1, <2>1, Listing
<1>5. ASSUME NEW k \in DOMAIN s  PROVE Genuine(t[k])
  <2>1. Genuine(s[k])  BY DEF AllGenuine
  <2>2. PICK d : d = s[k]  OBVIOUS
  <2>3. PICK e : e = [d EXCEPT !.provider = p]  OBVIOUS
  <2>4. Genuine(d)  BY <2>1, <2>2
  <2>5. /\ DOMAIN e = DOMAIN d /\ e.provider = p
        /\ e.title = d.title /\ e.snippet = d.snippet /\ e.reliability = d.reliability
    BY <2>3, <2>4 DEF Genuine
  <2>6. Genuine(e)  BY <2>4, <2>5 DEF Genuine, Scored
  <2> QED BY <1>3, <2>2, <2>3, <2>6
<1>6. AllGenuine(t)  BY <1>3, <1>4, <1>5 DEF AllGenuine
<1> QED BY <1>6 DEF t

LEMMA JoinedGenuine ==
  ASSUME NEW s, AllGenuine(s), NEW t, AllGenuine(t)
  PROVE  AllGenuine(s \o t)
<1> DEFINE V == {s[i] : i \in DOMAIN s} \cup {t[i] : i \in DOMAIN t}
           u == s \o t
<1>1. /\ Len(s) \in Nat /\ DOMAIN s = 1..Len(s)
      /\ Len(t) \in Nat /\ DOMAIN t = 1..Len(t)
  BY ListedFacts DEF AllGenuine
<1>2. s \in Seq(V) /\ t \in Seq(V)
  <2>1. s = [i \in 1..Len(s) |-> s[i]] /\ t = [i \in 1..Len(t) |-> t[i]]
    BY <1>1, LenProperties DEF AllGenuine, Listed
  <2>2. s \in [1..Len(s) -> V] /\ t \in [1..Len(t) -> V]  BY <1>1, <2>1
  <2> HIDE DEF V
  <2> QED BY <1>1, <2>2, SeqDef
<1> HIDE DEF V, u
<1>3. /\ u \in Seq(V) /\ Len(u) = Len(s) + Len(t)
      /\ \A i \in 1..(Len(s) + Len(t)) : u[i] = IF i <= Len(s) THEN s[i] ELSE t[i - Len(s)]
  BY <1>2, ConcatProperties DEF u
<1>4. Len(u) \in Nat /\ DOMAIN u = 1..Len(u) /\ u = [i \in 1..Len(u) |-> u[i]]  BY <1>3, LenProperties
<1>5. Listed(u)  BY <1>4, Listing
<1>6. ASSUME NEW i \in DOMAIN u  PROVE Genuine(u[i])
  <2>1. CASE i <= Len(s)
    <3>1. i \in DOMAIN s /\ u[i] = s[i]  BY <1>1, <1>3, <1>4, <2>1
    <3> QED BY <3>1 DEF AllGenuine
  <2>2. CASE ~(i <= Len(s))
    <3>1. i - Len(s) \in DOMAIN t /\ u[i] = t[i - Len(s)]  BY <1>1, <1>3, <1>4, <2>2
    <3> QED BY <3>1 DEF AllGenuine
  <2> QED BY <2>1, <2>2
<1>7. AllGenuine(u)  BY <1>5, <1>6 DEF AllGenuine
<1> QED BY <1>7 DEF u

(* What is ranked is of what was to be ranked.                             *)
LEMMA RankedDrawn ==
  ASSUME NEW q, NEW docs, Listed(docs), \A i \in DOMAIN docs : Scored(docs[i]), NEW limit \in Nat
  PROVE  /\ Drawn(Ranked(q, docs, limit), docs)
         /\ Len(Ranked(q, docs, limit)) <= Len(docs)
<1> DEFINE r == Ranked(q, docs, limit)
           S == DOMAIN docs
<1>1. Len(docs) \in Nat /\ DOMAIN docs = 1..Len(docs)  BY ListedFacts
<1>2. IsFiniteSet(S) /\ S \in SUBSET Int /\ Cardinality(S) = Len(docs)  BY <1>1, FS_Interval
<1>3. r = RankedAmong(q, docs, S, limit)  BY DEF Ranked
<1> HIDE DEF r, S
<1>4. \E n \in Nat : \E f \in [1..n -> S] : n <= Cardinality(S) /\ r = [k \in 1..n |-> docs[f[k]]]
  <2>1. \A i \in S : Scored(docs[i])  BY DEF S
  <2>2. \E n \in Nat : \E f \in [1..n -> S] :
          /\ n <= limit /\ n <= Cardinality(S) /\ (n = limit \/ n = Cardinality(S))
          /\ RankedAmong(q, docs, S, limit) = [k \in 1..n |-> docs[f[k]]]
          /\ \A k \in 1..n : Picks(q, docs, S, f, k)
    BY <1>2, <2>1, RankedAre
  <2> QED BY <1>3, <2>2
<1>5. PICK n \in Nat : \E f \in [1..n -> S] : n <= Cardinality(S) /\ r = [k \in 1..n |-> docs[f[k]]]  BY <1>4
<1>6. PICK f \in [1..n -> S] : n <= Cardinality(S) /\ r = [k \in 1..n |-> docs[f[k]]]  BY <1>5
<1>7. r = [k \in 1..n |-> r[k]]  BY <1>6
<1>8. Listed(r) /\ DOMAIN r = 1..n /\ Len(r) = n  BY <1>7, Listing
<1>9. \A i \in DOMAIN r : f[i] \in S /\ r[i] = docs[f[i]]  BY <1>6, <1>8
<1>10. Drawn(r, docs)  BY <1>8, <1>9 DEF Drawn, S
<1>11. Len(r) <= Len(docs)  BY <1>2, <1>6, <1>8
<1> QED BY <1>10, <1>11 DEF r

LEMMA RankedGenuine ==
  ASSUME NEW q, NEW docs, AllGenuine(docs), NEW limit \in Nat
  PROVE  AllGenuine(Ranked(q, docs, limit))
<1>1. Drawn(Ranked(q, docs, limit), docs)  BY RankedDrawn DEF AllGenuine, Genuine
<1> QED BY <1>1, DrawnGenuine

(* So are the documents of each provider but the mock one.                 *)
LEMMA UsableGenuine == ASSUME NEW s, AllGenuine(s) PROVE AllGenuine(Usable(s)) /\ AllGenuine(Titled(s))
<1>1. \A S \in SUBSET DOMAIN s : AllGenuine(Selected(s, S))
  <2> SUFFICES ASSUME NEW S \in SUBSET DOMAIN s  PROVE AllGenuine(Selected(s, S))  OBVIOUS
  <2>1. Drawn(Selected(s, S), s)  BY SelectedDrawn DEF AllGenuine
  <2> QED BY <2>1, DrawnGenuine
<1> QED BY <1>1 DEF Usable, Titled

LEMMA FirstGenuine == ASSUME NEW s, AllGenuine(s), NEW n \in Nat PROVE AllGenuine(First(s, n))
<1>1. Drawn(First(s, n), s)  BY FirstDrawn DEF AllGenuine
<1> QED BY <1>1, DrawnGenuine

LEMMA DuckDuckGoGenuine ==
  ASSUME NEW q, NEW limit \in Nat, NEW a, AllGenuine(a.entries), NEW b, AllGenuine(b.entries)
  PROVE  AllGenuine(DuckDuckGo(q, limit, a, b).docs)
<1> DEFINE of(s) == Ranked(q, ByThem("duckduckgo", First(Usable(s), limit)), limit)
           out == DuckDuckGo(q, limit, a, b)
<1>1. ASSUME NEW s, AllGenuine(s)  PROVE AllGenuine(of(s))
  <2>1. AllGenuine(First(Usable(s), limit))  BY <1>1, UsableGenuine, FirstGenuine
  <2>2. AllGenuine(ByThem("duckduckgo", First(Usable(s), limit)))  BY <2>1, SignedGenuine
  <2> QED BY <2>2, RankedGenuine
<1>2. out = Raises \/ out = Gives(of(a.entries)) \/ out = Gives(of(b.entries))  BY DEF DuckDuckGo
<1>3. AllGenuine(of(a.entries)) /\ AllGenuine(of(b.entries))  BY <1>1
<1> HIDE DEF of, out
<1>4. out.docs \in {<<>>, of(a.entries), of(b.entries)}  BY <1>2 DEF Raises, Gives
<1>5. AllGenuine(out.docs)  BY <1>3, <1>4, NothingGenuine
<1> QED BY <1>5 DEF out

LEMMA OpenMeteoGenuine ==
  ASSUME NEW q, NEW limit \in Nat, NEW geo, NEW daily, AllGenuine(daily.entries), NEW now, AllGenuine(now.entries)
  PROVE  AllGenuine(OpenMeteo(q, limit, geo, daily, now).docs)
<1> DEFINE ahead == Mentions(q, {"tomorrow", "forecast"})
           from == IF Mentions(q, {"tomorrow"}) /\ Len(daily.entries) > 1 THEN 2 ELSE 1
           to == Lower(Len(daily.entries), from + 2)
           days == IF ahead THEN SubSeq(daily.entries, from, to) ELSE <<>>
           docs == IF days # <<>> THEN days ELSE First(now.entries, 1)
           n == Upper(1, limit)
           out == OpenMeteo(q, limit, geo, daily, now)
<1>1. out \in {Raises, Gives(<<>>), Gives(First(ByThem("weather_open_meteo", docs), n))}
  BY DEF OpenMeteo, Lower, Upper
<1>2. AllGenuine(days)
  <2>1. Len(daily.entries) \in Nat  BY ListedFacts DEF AllGenuine
  <2>2. from \in Nat \ {0}  OBVIOUS
  <2>3. to \in Int /\ to <= Len(daily.entries) /\ (to = Len(daily.entries) \/ to = from + 2)
    <3>1. Len(daily.entries) \in Int /\ from + 2 \in Int  BY <2>1, <2>2
    <3> HIDE DEF from
    <3> QED BY <3>1, Clipped
  <2>4. to \in Nat /\ to <= Len(daily.entries)
    <3> HIDE DEF from, to
    <3> QED BY <2>1, <2>2, <2>3
  <2>5. AllGenuine(SubSeq(daily.entries, from, to))
    <3> HIDE DEF from, to
    <3>1. Drawn(SubSeq(daily.entries, from, to), daily.entries)  BY <2>2, <2>4, PieceDrawn DEF AllGenuine
    <3> QED BY <3>1, DrawnGenuine
  <2> HIDE DEF from, to, ahead
  <2> QED BY <2>5, NothingGenuine
<1>3. AllGenuine(docs)
  <2>1. \A k \in Nat : AllGenuine(First(now.entries, k))  BY FirstGenuine
  <2>2. AllGenuine(First(now.entries, 1))  BY <2>1
  <2> HIDE DEF days
  <2> QED BY <1>2, <2>2
<1>4. n \in Nat
  <2>1. PICK one \in Int : one = 1  OBVIOUS
  <2>2. Upper(one, limit) \in Int /\ Upper(one, limit) >= one  BY Clipped
  <2> QED BY <2>1, <2>2
<1> HIDE DEF docs, n, out
<1>5. AllGenuine(First(ByThem("weather_open_meteo", docs), n))
  <2>1. AllGenuine(ByThem("weather_open_meteo", docs))  BY <1>3, SignedGenuine
  <2> QED BY <1>4, <2>1, FirstGenuine
<1>6. out.docs \in {<<>>, First(ByThem("weather_open_meteo", docs), n)}  BY <1>1 DEF Raises, Gives
<1>7. AllGenuine(out.docs)  BY <1>5, <1>6, NothingGenuine
<1> QED BY <1>7 DEF out

LEMMA NewsGenuine ==
  ASSUME NEW key, NEW limit \in Nat, NEW a, AllGenuine(a.entries)
  PROVE  AllGenuine(NewsAPI(key, limit, a).docs)
<1> DEFINE docs == Usable(First(a.entries, limit))
<1>1. AllGenuine(docs)  BY FirstGenuine, UsableGenuine
<1>2. NewsAPI(key, limit, a) \in {Gives(<<>>), Gives(docs)}  BY DEF NewsAPI
<1> HIDE DEF docs
<1>3. NewsAPI(key, limit, a).docs \in {<<>>, docs}  BY <1>2 DEF Gives
<1> QED BY <1>1, <1>3, NothingGenuine

LEMMA SerpGenuine ==
  ASSUME NEW key, NEW limit \in Nat, NEW a, AllGenuine(a.entries), NEW b, AllGenuine(b.entries)
  PROVE  AllGenuine(SerpAPI(key, limit, a, b).docs)
<1> DEFINE both == Titled(First(a.entries, limit)) \o Usable(First(b.entries, limit))
           docs == ByThem("serpapi", First(both, limit))
<1>1. AllGenuine(both)  BY FirstGenuine, UsableGenuine, JoinedGenuine
<1> HIDE DEF both
<1>2. AllGenuine(docs)  BY <1>1, FirstGenuine, SignedGenuine
<1>3. SerpAPI(key, limit, a, b) \in {Gives(<<>>), Gives(docs)}  BY DEF SerpAPI, both
<1> HIDE DEF docs
<1>4. SerpAPI(key, limit, a, b).docs \in {<<>>, docs}  BY <1>3 DEF Gives
<1> QED BY <1>2, <1>4, NothingGenuine

LEMMA StreetMapGenuine ==
  ASSUME NEW q, NEW limit \in Nat, NEW a, AllGenuine(a.entries), NEW b, AllGenuine(b.entries)
  PROVE  AllGenuine(OpenStreetMap(q, limit, a, b).docs)
<1> DEFINE town == "in town" \in q
           n == Upper(1, Lower(limit, 10))
           near(docs) == Selected(docs, {k \in DOMAIN docs : docs[k].title # {}
                                                             /\ (town => Mentions(docs[k].snippet, {"in town"}))})
           inTown(s) == near(First(s, n))
           found == IF inTown(a.entries) # <<>> THEN inTown(a.entries) ELSE IF town THEN inTown(b.entries) ELSE <<>>
<1>1. n \in Nat
  <2>1. PICK one \in Int, ten \in Int : one = 1 /\ ten = 10  OBVIOUS
  <2>2. Lower(limit, ten) \in Int  BY Clipped
  <2>3. Upper(one, Lower(limit, ten)) \in Int /\ Upper(one, Lower(limit, ten)) >= one  BY <2>2, Clipped
  <2> QED BY <2>1, <2>3
<1>2. OpenStreetMap(q, limit, a, b) = Gives(ByThem("osm_local", found))
  BY DEF OpenStreetMap, Upper, Lower
<1> HIDE DEF n, town
<1>3. ASSUME NEW s, AllGenuine(s)  PROVE AllGenuine(inTown(s))
  <2>1. AllGenuine(First(s, n))  BY <1>1, <1>3, FirstGenuine
  <2>2. PICK t : t = First(s, n)  OBVIOUS
  <2>3. Drawn(near(t), t)  BY <2>1, <2>2, SelectedDrawn DEF AllGenuine
  <2>4. AllGenuine(near(t))  BY <2>1, <2>2, <2>3, DrawnGenuine
  <2> QED BY <2>2, <2>4
<1>4. AllGenuine(inTown(a.entries)) /\ AllGenuine(inTown(b.entries))  BY <1>3
<1> HIDE DEF inTown
<1>5. AllGenuine(found)  BY <1>4, NothingGenuine
<1> HIDE DEF found
<1>6. AllGenuine(ByThem("osm_local", found))  BY <1>5, SignedGenuine
<1> QED BY <1>2, <1>6 DEF Gives

LEMMA ReferencesGenuine ==
  ASSUME NEW q, NEW limit \in Nat, NEW a, AllGenuine(a.entries)
  PROVE  AllGenuine(CommodityRefs(q, limit, a).docs)
<1> DEFINE docs == ByThem("commodity_refs", First(a.entries, limit))
<1>1. AllGenuine(docs)  BY FirstGenuine, SignedGenuine
<1>2. CommodityRefs(q, limit, a) \in {Gives(<<>>), Gives(docs)}  BY DEF CommodityRefs
<1> HIDE DEF docs
<1>3. CommodityRefs(q, limit, a).docs \in {<<>>, docs}  BY <1>2 DEF Gives
<1> QED BY <1>1, <1>3, NothingGenuine

-----------------------------------------------------------------------------
(* What documents are worth is a number, and the reliabilities of all of   *)
(* them together are bounded by any bound of each.                         *)
LEMMA ReliabilityScored ==
  ASSUME NEW n \in Nat, NEW docs, DOMAIN docs = 1..n
  PROVE  /\ TotalReliability(docs) \in Nat
         /\ \A m \in Nat : (\A i \in 1..n : docs[i].reliability \in Int /\ docs[i].reliability <= m)
                              => TotalReliability(docs) <= n * m
<1> DEFINE R == {p \in (1..n) \X (1..100) : p[2] <= docs[p[1]].reliability}
<1>1. TotalReliability(docs) = Cardinality(R)  BY DEF TotalReliability
<1>2. \A m \in Nat : IsFiniteSet((1..n) \X (1..m)) /\ Cardinality((1..n) \X (1..m)) = n * m
  <2> SUFFICES ASSUME NEW m \in Nat
               PROVE  IsFiniteSet((1..n) \X (1..m)) /\ Cardinality((1..n) \X (1..m)) = n * m
    OBVIOUS
  <2>1. \A k \in Nat : IsFiniteSet(1..k) /\ Cardinality(1..k) = k  BY FS_Interval
  <2>2. PICK A, B : A = 1..n /\ B = 1..m  OBVIOUS
  <2>3. IsFiniteSet(A) /\ Cardinality(A) = n /\ IsFiniteSet(B) /\ Cardinality(B) = m  BY <2>1, <2>2
  <2>4. IsFiniteSet(A \X B) /\ Cardinality(A \X B) = n * m  BY <2>3, FS_Product
  <2> QED BY <2>2, <2>4
<1>3. R \in SUBSET ((1..n) \X (1..100))  OBVIOUS
<1>4. ASSUME NEW m \in Nat, \A i \in 1..n : docs[i].reliability \in Int /\ docs[i].reliability <= m
      PROVE  R \in SUBSET ((1..n) \X (1..m))
  <2> SUFFICES ASSUME NEW p \in R  PROVE p \in (1..n) \X (1..m)  OBVIOUS
  <2>1. PICK i \in 1..n, k \in 1..100 : p = <<i, k>>  OBVIOUS
  <2>2. k <= docs[i].reliability  BY <2>1
  <2>3. docs[i].reliability \in Int /\ docs[i].reliability <= m  BY <1>4
  <2>4. k \in 1..m  BY <2>2, <2>3
  <2> QED BY <2>1, <2>4
<1> HIDE DEF R
<1>5. IsFiniteSet(R) /\ Cardinality(R) \in Nat
  <2>1. PICK m \in Nat : m = 100  OBVIOUS
  <2>2. IsFiniteSet((1..n) \X (1..m))  BY <1>2
  <2> QED BY <1>3, <2>1, <2>2, FS_Subset, FS_CardinalityType
<1>6. ASSUME NEW m \in Nat, \A i \in 1..n : docs[i].reliability \in Int /\ docs[i].reliability <= m
      PROVE  Cardinality(R) <= n * m
  <2>1. IsFiniteSet((1..n) \X (1..m)) /\ Cardinality((1..n) \X (1..m)) = n * m  BY <1>2
  <2>2. R \in SUBSET ((1..n) \X (1..m))  BY <1>4, <1>6
  <2> QED BY <2>1, <2>2, FS_Subset
<1> QED BY <1>1, <1>5, <1>6

LEMMA QualityScored ==
  ASSUME NEW q, NEW n \in Nat \ {0}, NEW docs, docs = [i \in 1..n |-> docs[i]], \A i \in 1..n : Scored(docs[i])
  PROVE  /\ DocumentsQuality(q, docs) \in Int
         /\ n <= 2 /\ (\A i \in 1..n : docs[i].reliability <= 35 /\ docs[i].freshness # "live")
              => DocumentsQuality(q, docs) <= 10000
<1> DEFINE urls == {d.url : d \in Range(docs)}
           reliable == (100 * TotalReliability(docs)) \div Len(docs)
           various == Lower(500 * Cardinality(urls), 2000)
           live == IF \E d \in Range(docs) : d.freshness = "live" THEN 1000 ELSE 0
           relevant == Lower((15 * Relevance(docs[1], q)) \div 100, 3000)
           official == IF Mentions(q, CommodityWords) /\ docs[1].site \in Official[CommoditySubject(q)]
                       THEN 1200 ELSE 0
<1>1. Listed(docs) /\ Len(docs) = n /\ DOMAIN docs = 1..n  BY Listing
<1>2. DocumentsQuality(q, docs) = reliable + various + live + relevant + official
  <2>1. docs # <<>>
    <3>1. 1 \in DOMAIN docs  BY <1>1
    <3> QED BY <3>1
  <2>2. DocumentsQuality(q, docs) = IF docs = <<>> THEN 0 ELSE reliable + various + live + relevant + official
    BY Zenon DEF DocumentsQuality, Lower
  <2> HIDE DEF reliable, various, live, relevant, official
  <2> QED BY <2>1, <2>2
<1>3. reliable \in Int /\ (n <= 2 /\ (\A i \in 1..n : docs[i].reliability <= 35) => reliable <= 3500)
  <2>1. PICK r \in Nat : r = TotalReliability(docs)  BY <1>1, ReliabilityScored
  <2>2. reliable = (100 * r) \div n  BY <1>1, <2>1
  <2>3. (\A i \in 1..n : docs[i].reliability <= 35) => r <= n * 35
    <3>1. \A i \in 1..n : docs[i].reliability \in Int  BY DEF Scored
    <3>2. PICK m \in Nat : m = 35  OBVIOUS
    <3> QED BY <1>1, <2>1, <3>1, <3>2, ReliabilityScored
  <2> HIDE DEF reliable
  <2>4. reliable \in Int  BY <2>2
  <2>5. ASSUME n <= 2, r <= n * 35  PROVE reliable <= 3500
    <3>1. CASE n = 1  BY <2>2, <2>5, <3>1
    <3>2. CASE n = 2  BY <2>2, <2>5, <3>2
    <3> QED BY <2>5, <3>1, <3>2
  <2> QED BY <2>3, <2>4, <2>5
<1>4. various \in Int /\ various <= 2000
  <2>1. Cardinality(urls) \in Nat
    <3> DEFINE f == [i \in 1..n |-> docs[i].url]
    <3>1. IsFiniteSet(1..n)  BY FS_Interval
    <3>2. urls = {docs[i].url : i \in 1..n}  BY <1>1 DEF Range
    <3>3. f \in Surjection(1..n, urls)  BY <3>2 DEF Surjection
    <3> HIDE DEF f, urls
    <3> QED BY <3>1, <3>3, FS_Surjection, FS_CardinalityType
  <2>2. PICK c \in Int : c = 500 * Cardinality(urls)
    <3>1. \A k \in Nat : 500 * k \in Int  OBVIOUS
    <3>2. 500 * Cardinality(urls) \in Int  BY <2>1, <3>1
    <3> HIDE DEF urls
    <3> QED BY <3>2
  <2>3. PICK most \in Int : most = 2000  OBVIOUS
  <2>4. Lower(c, most) \in Int /\ Lower(c, most) <= most  BY Clipped
  <2> QED BY <2>2, <2>3, <2>4
<1>5. relevant \in Int /\ relevant <= 3000
  <2>1. Relevance(docs[1], q) \in Int  BY RelevanceScored
  <2>2. (15 * Relevance(docs[1], q)) \div 100 \in Int  BY <2>1
  <2>3. PICK c \in Int : c = (15 * Relevance(docs[1], q)) \div 100  BY <2>2
  <2>4. PICK most \in Int : most = 3000  OBVIOUS
  <2>5. Lower(c, most) \in Int /\ Lower(c, most) <= most  BY Clipped
  <2> QED BY <2>3, <2>4, <2>5
<1>6. live \in Int /\ ((\A i \in 1..n : docs[i].freshness # "live") => live = 0)  BY <1>1 DEF Range
<1>7. official \in Int /\ official <= 1200  OBVIOUS
<1> HIDE DEF reliable, various, live, relevant, official
<1>8. DocumentsQuality(q, docs) \in Int  BY <1>2, <1>3, <1>4, <1>5, <1>6, <1>7
<1>9. ASSUME n <= 2, \A i \in 1..n : docs[i].reliability <= 35 /\ docs[i].freshness # "live"
      PROVE  DocumentsQuality(q, docs) <= 10000
  <2>1. reliable <= 3500 /\ live = 0  BY <1>3, <1>6, <1>9
  <2> QED BY <1>2, <1>3, <1>4, <1>5, <1>6, <1>7, <2>1
<1> QED BY <1>8, <1>9

(* A page of documents that have a score has one.                          *)
LEMMA PageScored ==
  ASSUME NEW q, NEW docs, AllGenuine(docs), NEW limit \in Nat
  PROVE  AllGenuine(Page(q, docs, limit).docs) /\ Page(q, docs, limit).quality \in Int
<1> DEFINE r == Ranked(q, docs, limit)
<1>1. Page(q, docs, limit) = [docs |-> r, quality |-> DocumentsQuality(q, r)]  BY DEF Page
<1>2. AllGenuine(r)  BY RankedGenuine
<1> HIDE DEF r
<1>3. Len(r) \in Nat /\ DOMAIN r = 1..Len(r) /\ r = [i \in 1..Len(r) |-> r[i]]
  BY <1>2, ListedFacts, LenProperties DEF AllGenuine, Listed
<1>4. \A i \in 1..Len(r) : Scored(r[i])  BY <1>2, <1>3 DEF AllGenuine, Genuine
<1>5. DocumentsQuality(q, r) \in Int
  <2>1. CASE Len(r) = 0
    <3>1. r = <<>>  BY <1>3, <2>1
    <3> QED BY <3>1 DEF DocumentsQuality
  <2>2. CASE Len(r) # 0  BY <1>3, <1>4, <2>2, QualityScored
  <2> QED BY <2>1, <2>2
<1> QED BY <1>1, <1>2, <1>5

(* What the mock provider invents is never worth much.                     *)
Invented(d) == Scored(d) /\ d.reliability <= 35 /\ d.freshness # "live"

LEMMA MockScored ==
  ASSUME NEW q, IsFiniteSet(q), NEW limit \in Nat \ {0}
  PROVE  LET page == Page(q, MockDocs(q, limit).docs, limit)
         IN page.quality \in Int /\ page.quality <= 10000
<1> DEFINE doc(title, url, fresh, rel) ==
             [title |-> title, snippet |-> IF title \subseteq {"research"} THEN q ELSE {}, url |-> url,
              site |-> "example.local", provider |-> "mock",
              freshness |-> fresh, published |-> "none", reliability |-> rel]
           two == IF {"weather", "da nang"} \subseteq q
                  THEN <<doc({"weather"}, "m1", "today", 35), doc({"forecast"}, "m2", "today", 32)>>
                  ELSE IF Mentions(q, {"news", "latest"})
                  THEN <<doc({"latest"}, "m3", "latest", 30), doc({"digest"}, "m4", "latest", 28)>>
                  ELSE <<doc({"research"}, "m5", "recent", 25), doc({"source"}, "m6", "recent", 25)>>
           t == First(two, limit)
           r == Ranked(q, t, limit)
<1>1. MockDocs(q, limit).docs = t  BY DEF MockDocs, Gives
<1>2. ASSUME NEW word, NEW url, NEW fresh \in {"today", "latest", "recent"}, NEW rel \in {35, 32, 30, 28, 25}
      PROVE  Invented(doc({word}, url, fresh, rel))
  <2>1. IsFiniteSet({word}) /\ IsFiniteSet({})  BY FS_Singleton, FS_EmptySet
  <2>2. PICK d : d = doc({word}, url, fresh, rel)  OBVIOUS
  <2>3. d.title = {word} /\ d.snippet \in {q, {}} /\ d.reliability = rel /\ d.freshness = fresh  BY <2>2
  <2>4. Invented(d)  BY <1>2, <2>1, <2>3 DEF Invented, Scored
  <2> QED BY <2>2, <2>4
<1> HIDE DEF doc
<1>3. Len(two) = 2 /\ two = [i \in 1..2 |-> two[i]] /\ Invented(two[1]) /\ Invented(two[2])
  <2>1. \E a, b : Invented(a) /\ Invented(b) /\ two = <<a, b>>
    <3>1. CASE {"weather", "da nang"} \subseteq q
      <4>1. two = <<doc({"weather"}, "m1", "today", 35), doc({"forecast"}, "m2", "today", 32)>>  BY <3>1
      <4>2. Invented(doc({"weather"}, "m1", "today", 35))  BY <1>2, Zenon
      <4>3. Invented(doc({"forecast"}, "m2", "today", 32))  BY <1>2, Zenon
      <4> HIDE DEF two
      <4> QED BY <4>1, <4>2, <4>3
    <3>2. CASE ~({"weather", "da nang"} \subseteq q) /\ Mentions(q, {"news", "latest"})
      <4>1. two = <<doc({"latest"}, "m3", "latest", 30), doc({"digest"}, "m4", "latest", 28)>>  BY <3>2
      <4>2. Invented(doc({"latest"}, "m3", "latest", 30))  BY <1>2, Zenon
      <4>3. Invented(doc({"digest"}, "m4", "latest", 28))  BY <1>2, Zenon
      <4> HIDE DEF two
      <4> QED BY <4>1, <4>2, <4>3
    <3>3. CASE ~({"weather", "da nang"} \subseteq q) /\ ~Mentions(q, {"news", "latest"})
      <4>1. two = <<doc({"research"}, "m5", "recent", 25), doc({"source"}, "m6", "recent", 25)>>  BY <3>3
      <4>2. Invented(doc({"research"}, "m5", "recent", 25))  BY <1>2, Zenon
      <4>3. Invented(doc({"source"}, "m6", "recent", 25))  BY <1>2, Zenon
      <4> HIDE DEF two
      <4> QED BY <4>1, <4>2, <4>3
    <3> QED BY <3>1, <3>2, <3>3
  <2> HIDE DEF two
  <2>2. PICK a, b : Invented(a) /\ Invented(b) /\ two = <<a, b>>  BY <2>1
  <2> QED BY <2>2
<1> HIDE DEF two, t, r
<1>4. Listed(two) /\ DOMAIN two = 1..2
  <2>1. PICK n \in Nat : n = 2  OBVIOUS
  <2> QED BY <1>3, <2>1, Listing
<1>5. \A i \in DOMAIN two : Invented(two[i])  BY <1>3, <1>4
<1>6. Drawn(t, two) /\ Len(t) <= 2  BY <1>3, <1>4, FirstDrawn DEF t
<1>7. Listed(t) /\ \A i \in DOMAIN t : Invented(t[i])  BY <1>5, <1>6 DEF Drawn
<1>8. Drawn(r, t) /\ Len(r) <= 2
  <2>1. Drawn(r, t) /\ Len(r) <= Len(t)  BY <1>7, RankedDrawn DEF Invented, r
  <2> QED BY <1>6, <1>7, <2>1, ListedFacts DEF Drawn
<1>9. Listed(r) /\ \A i \in DOMAIN r : Invented(r[i])  BY <1>7, <1>8 DEF Drawn
<1>10. Len(r) \in Nat /\ DOMAIN r = 1..Len(r) /\ r = [i \in 1..Len(r) |-> r[i]]
  BY <1>9, ListedFacts, LenProperties DEF Listed
<1>11. DocumentsQuality(q, r) \in Int /\ DocumentsQuality(q, r) <= 10000
  <2>1. CASE Len(r) = 0
    <3>1. r = <<>>  BY <1>10, <2>1
    <3>2. DocumentsQuality(q, r) = 0  BY <3>1 DEF DocumentsQuality
    <3> QED BY <3>2
  <2>2. CASE Len(r) # 0
    <3>1. \A i \in 1..Len(r) : Scored(r[i]) /\ r[i].reliability <= 35 /\ r[i].freshness # "live"
      BY <1>9, <1>10 DEF Invented
    <3>2. Len(r) \in Nat \ {0}  BY <1>10, <2>2
    <3>3. PICK n \in Nat \ {0} : n = Len(r)  BY <3>2
    <3>4. r = [i \in 1..n |-> r[i]]  BY <1>10, <3>3
    <3>5. \A i \in 1..n : Scored(r[i])  BY <3>1, <3>3
    <3>6. n <= 2 /\ \A i \in 1..n : r[i].reliability <= 35 /\ r[i].freshness # "live"  BY <1>8, <3>1, <3>3
    <3>7. /\ DocumentsQuality(q, r) \in Int
          /\ n <= 2 /\ (\A i \in 1..n : r[i].reliability <= 35 /\ r[i].freshness # "live")
               => DocumentsQuality(q, r) <= 10000
      BY <3>4, <3>5, QualityScored
    <3> QED BY <3>6, <3>7
  <2> QED BY <2>1, <2>2
<1>12. Page(q, t, limit).quality = DocumentsQuality(q, r)  BY DEF Page, r
<1> QED BY <1>1, <1>11, <1>12
=============================================================================
