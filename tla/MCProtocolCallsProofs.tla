------------------------ MODULE MCProtocolCallsProofs ------------------------
(***************************************************************************)
(* What holds of the calls of staff, buyers and sellers as the run         *)
(* composes them, and of the authority to release.                         *)
(*                                                                         *)
(* The authority to release is arithmetic: a release rests on claims, and  *)
(* is monotone in them, for any numbers of claims.  Then come the bounds   *)
(* on what calls record (an outdated call is at work; as many responses    *)
(* and lessons as faults let calls begin at once), which complete the      *)
(* types.  Last, the composition: the system that moves follows its own    *)
(* specification, and of the others the properties hold at rest.           *)
(***************************************************************************)
EXTENDS MCProtocolCalls, ProtocolCallsProofs, SellersProofs

-----------------------------------------------------------------------------
\* What is evaluated, and what a verification says, for any number of claims.
EvaluationRows == [given : BOOLEAN, ready : BOOLEAN, cap : Int, caution : BOOLEAN]

SignalRows ==
  [verified : Nat, rejected : Nat, uncertain : Nat,
   quality : {"high", "medium", "low", "unknown"}, adjustment : Int,
   final : {Unsaid} \cup 0 .. 100]

LEMMA LeastIs ==
  ASSUME NEW a \in Int, NEW b \in Int
  PROVE  Least(a, b) = IF a <= b THEN a ELSE b
<1> DEFINE m == IF a <= b THEN a ELSE b
<1>1. m \in {a, b} /\ \A y \in {a, b} : m <= y
  OBVIOUS
<1>2. \A n \in {a, b} : (\A y \in {a, b} : n <= y) => n = m
  OBVIOUS
<1> QED BY <1>1, <1>2 DEF Least, Min

LEMMA MostIs ==
  ASSUME NEW a \in Int, NEW b \in Int
  PROVE  Most(a, b) = IF a >= b THEN a ELSE b
<1> DEFINE m == IF a >= b THEN a ELSE b
<1>1. m \in {a, b} /\ \A y \in {a, b} : m >= y
  OBVIOUS
<1>2. \A n \in {a, b} : (\A y \in {a, b} : n >= y) => n = m
  OBVIOUS
<1> QED BY <1>1, <1>2 DEF Most, Max

\* The number n, or none.
Optional(S, n) == S \in {{}, {n}}

IsLeast(m, V) == m \in V /\ m \in Int /\ \A y \in V : m <= y

LEMMA LeastOfSome ==
  ASSUME NEW a \in Int, NEW b \in Int, NEW S, NEW T,
         \E c \in Int : Optional(S, c), \E d \in Int : Optional(T, d)
  PROVE  IsLeast(Min({a, b} \cup S \cup T), {a, b} \cup S \cup T)
<1>1. PICK c \in Int, d \in Int : Optional(S, c) /\ Optional(T, d)
  OBVIOUS
<1> DEFINE V == {a, b} \cup S \cup T
<1>2. \E m \in V : \A y \in V : m <= y
  <2> DEFINE m1 == IF a <= b THEN a ELSE b
             m2 == IF S = {c} /\ c <= m1 THEN c ELSE m1
             m3 == IF T = {d} /\ d <= m2 THEN d ELSE m2
  <2>1. m3 \in V
    OBVIOUS
  <2>2. \A y \in V : m3 <= y
    BY <1>1 DEF Optional
  <2> QED BY <2>1, <2>2
<1>3. V \subseteq Int
  BY <1>1 DEF Optional
<1>4. Min(V) \in V /\ \A y \in V : Min(V) <= y
  BY <1>2 DEF Min
<1> QED BY <1>3, <1>4 DEF IsLeast

-----------------------------------------------------------------------------
\* What is left of a confidence after the verification's own, and its adjustment.
Net(s, raised) ==
  LET said == IF s.final = Unsaid \/ raised <= s.final THEN raised ELSE s.final
  IN IF said + s.adjustment >= 0 THEN said + s.adjustment ELSE 0

Doubted(e, s) == s.rejected = 0 /\ s.uncertain > s.verified /\ ~Partial(e, s)

\* c is the least of the limits that there are.
IsLimit(c, e, s, net) ==
  /\ c \in Int /\ c <= net /\ c <= e.cap
  /\ s.quality = "low" => c <= 45
  /\ s.rejected > 0 => c <= 35
  /\ Doubted(e, s) => c <= 50
  /\ \/ c = net \/ c = e.cap
     \/ s.quality = "low" /\ c = 45
     \/ s.rejected > 0 /\ c = 35
     \/ Doubted(e, s) /\ c = 50

LEMMA LimitedIs ==
  ASSUME NEW e \in EvaluationRows, NEW s \in SignalRows, NEW raised \in Int
  PROVE  IsLimit(Limited(e, s, raised), e, s, Net(s, raised))
<1> DEFINE said == IF s.final = Unsaid \/ raised <= s.final THEN raised ELSE s.final
           net == IF said + s.adjustment >= 0 THEN said + s.adjustment ELSE 0
           doubt == s.rejected = 0 /\ s.uncertain > s.verified /\ ~Partial(e, s)
           S == IF s.quality = "low" THEN {45} ELSE {}
           T == IF s.rejected > 0 THEN {35} ELSE IF doubt THEN {50} ELSE {}
           c == Limited(e, s, raised)
<1>1. /\ s.final \in Int /\ s.adjustment \in Int /\ e.cap \in Int
      /\ s.rejected \in Nat /\ s.uncertain \in Nat /\ s.verified \in Nat
  BY DEF SignalRows, EvaluationRows, Unsaid
<1>2. (IF s.final = Unsaid THEN raised ELSE Least(raised, s.final)) = said
  BY <1>1, LeastIs
<1>3. said \in Int /\ net \in Int
  BY <1>1
<1>4. Most(0, said + s.adjustment) = net
  BY <1>1, <1>3, MostIs
<1>5. (IF s.rejected > 0 THEN {35}
       ELSE IF s.uncertain > s.verified /\ ~Partial(e, s) THEN {50} ELSE {}) = T
  BY <1>1
<1>6. c = Min({net, e.cap} \cup S \cup T)
  BY <1>2, <1>4, <1>5 DEF Limited
<1>7. \E d \in Int : Optional(T, d)
  BY DEF Optional
<1>8. \E low \in Int : Optional(S, low)
  BY DEF Optional
<1>9. IsLeast(c, {net, e.cap} \cup S \cup T)
  <2>1. e.cap \in Int /\ net \in Int
    BY <1>1, <1>3
  <2> HIDE DEF S, T, c, net
  <2>2. IsLeast(Min({net, e.cap} \cup S \cup T), {net, e.cap} \cup S \cup T)
    BY <2>1, <1>7, <1>8, LeastOfSome
  <2> QED BY <1>6, <2>2
<1>10. c \in Int /\ c <= net /\ c <= e.cap
  <2> HIDE DEF S, T, c, net
  <2> QED BY <1>9 DEF IsLeast
<1>11. /\ s.quality = "low" => 45 \in S
       /\ s.rejected > 0 => 35 \in T
       /\ doubt => 50 \in T
  BY <1>1
<1>12. (s.quality = "low" => c <= 45) /\ (s.rejected > 0 => c <= 35) /\ (doubt => c <= 50)
  <2> HIDE DEF S, T, c, doubt
  <2> QED BY <1>9, <1>11 DEF IsLeast
<1>13. /\ c \in S => s.quality = "low" /\ c = 45
       /\ c \in T => (s.rejected > 0 /\ c = 35) \/ (doubt /\ c = 50)
  <2> HIDE DEF c
  <2> QED OBVIOUS
<1> HIDE DEF c, S, T, net, doubt
<1>14. \/ c = net \/ c = e.cap
       \/ s.quality = "low" /\ c = 45
       \/ s.rejected > 0 /\ c = 35
       \/ doubt /\ c = 50
  BY <1>9, <1>13 DEF IsLeast
<1>15. net = Net(s, raised) /\ (doubt <=> Doubted(e, s))
  BY DEF net, doubt, Net, Doubted
<1> QED BY <1>10, <1>12, <1>14, <1>15 DEF IsLimit, c

-----------------------------------------------------------------------------
\* Evidence e2, s2 that is not better than e1, s1 in any respect.
Inferior(e2, s2, e1, s1) ==
  /\ e2.given = e1.given
  /\ e2.ready => e1.ready
  /\ e1.caution => e2.caution
  /\ e2.cap <= e1.cap
  /\ s2.verified <= s1.verified /\ s2.rejected >= s1.rejected
  /\ s2.uncertain >= s1.uncertain
  /\ s2.quality = "high" => s1.quality = "high"
  /\ s1.quality = "low" => s2.quality = "low"
  /\ s2.adjustment <= s1.adjustment
  /\ s2.final = Unsaid <=> s1.final = Unsaid
  /\ s2.final <= s1.final

LEMMA SignalTypes ==
  ASSUME NEW e \in EvaluationRows, NEW s \in SignalRows
  PROVE  /\ s.verified \in Nat /\ s.rejected \in Nat /\ s.uncertain \in Nat
         /\ s.final \in Int /\ s.final \in -1 .. 100 /\ s.adjustment \in Int
         /\ e.cap \in Int
         /\ e.given \in BOOLEAN /\ e.ready \in BOOLEAN /\ e.caution \in BOOLEAN
  BY DEF SignalRows, EvaluationRows, Unsaid

LEMMA SupportsTyped == \A k \in DOMAIN Supports : Supports[k] \in 25 .. 75
  BY DEF Supports

\* The confidence to which claims raise that of the sellers.
RaisedBy(e, s, base) ==
  LET final == IF s.final >= 0 THEN s.final ELSE 0
      atMost == IF final <= 65 THEN final ELSE 65
  IN IF Positive(e, s) THEN (IF base >= final THEN base ELSE final)
     ELSE IF Partial(e, s) THEN (IF base >= atMost THEN base ELSE atMost)
     ELSE base

LEMMA SupportedIs ==
  ASSUME NEW e \in EvaluationRows, NEW s \in SignalRows, NEW k \in DOMAIN Supports
  PROVE  /\ Supported(e, s, k) = RaisedBy(e, s, Supports[k])
         /\ Supported(e, s, k) \in 0 .. 100
<1>1. s.final \in Int /\ s.final \in -1 .. 100
  BY SignalTypes
<1>2. Supports[k] \in 25 .. 75
  BY SupportsTyped
<1>3. Most(s.final, 0) = IF s.final >= 0 THEN s.final ELSE 0
  BY <1>1, MostIs
<1> DEFINE final == IF s.final >= 0 THEN s.final ELSE 0
           atMost == IF final <= 65 THEN final ELSE 65
<1>4. final \in 0 .. 100 /\ atMost \in 0 .. 65
  BY <1>1
<1>5. Least(65, final) = atMost
  BY <1>4, LeastIs
<1>6. /\ Most(Supports[k], final) = IF Supports[k] >= final THEN Supports[k] ELSE final
      /\ Most(Supports[k], atMost) = IF Supports[k] >= atMost THEN Supports[k] ELSE atMost
  <2> HIDE DEF final, atMost
  <2> QED BY <1>2, <1>4, MostIs
<1>7. Positive(e, s) => ~Partial(e, s)
  BY SignalTypes DEF Positive, Partial
<1>8. Supported(e, s, k) = IF Positive(e, s) THEN Most(Supports[k], final)
                           ELSE IF Partial(e, s) THEN Most(Supports[k], atMost)
                           ELSE Supports[k]
  BY <1>3, <1>5, <1>7 DEF Supported
<1>9. Supported(e, s, k) = RaisedBy(e, s, Supports[k])
  BY <1>6, <1>8 DEF RaisedBy
<1> QED BY <1>2, <1>4, <1>6, <1>8, <1>9

\* A lower final confidence raises no further, by all of it or by what is left of
\* it under 65, and claims that hold raise further than claims that hold in part.
LEMMA RaisesFall ==
  ASSUME NEW b \in Int, NEW f \in Int, NEW g \in Int, g <= f,
         NEW y \in Int, y = IF f >= 0 THEN f ELSE 0,
         NEW x \in Int, x = IF g >= 0 THEN g ELSE 0,
         NEW v \in Int, v = IF y <= 65 THEN y ELSE 65,
         NEW u \in Int, u = IF x <= 65 THEN x ELSE 65
  PROVE  /\ (IF b >= x THEN b ELSE x) <= (IF b >= y THEN b ELSE y)
         /\ (IF b >= u THEN b ELSE u) <= (IF b >= v THEN b ELSE v)
         /\ (IF b >= u THEN b ELSE u) <= (IF b >= y THEN b ELSE y)
         /\ b <= (IF b >= y THEN b ELSE y)
         /\ b <= (IF b >= v THEN b ELSE v)
<1>1. x <= y
  OBVIOUS
<1>2. u <= v /\ u <= y
  BY <1>1
<1>3. \A m, n \in Int : m <= n => (IF b >= m THEN b ELSE m) <= (IF b >= n THEN b ELSE n)
  OBVIOUS
<1>4. \A n \in Int : b <= (IF b >= n THEN b ELSE n)
  OBVIOUS
<1> QED
  BY <1>1, <1>2, <1>3, <1>4

LEMMA SupportFalls ==
  ASSUME NEW e1 \in EvaluationRows, NEW s1 \in SignalRows,
         NEW e2 \in EvaluationRows, NEW s2 \in SignalRows,
         Inferior(e2, s2, e1, s1)
  PROVE  /\ Positive(e2, s2) => Positive(e1, s1)
         /\ Partial(e2, s2) => Positive(e1, s1) \/ Partial(e1, s1)
         /\ Partial(e1, s1) => ~Positive(e2, s2)
         /\ Doubted(e1, s1) => s2.rejected > 0 \/ Doubted(e2, s2)
<1>1. /\ s1.verified \in Nat /\ s1.rejected \in Nat /\ s1.uncertain \in Nat
      /\ s2.verified \in Nat /\ s2.rejected \in Nat /\ s2.uncertain \in Nat
      /\ e1.ready \in BOOLEAN /\ e2.ready \in BOOLEAN
  BY SignalTypes
<1> QED BY <1>1 DEF Inferior, Positive, Partial, ClaimsHold, Doubted

\* Worse evidence is never more confident.
LEMMA ConfidenceFalls ==
  ASSUME NEW e1 \in EvaluationRows, NEW s1 \in SignalRows, NEW k \in DOMAIN Supports,
         NEW e2 \in EvaluationRows, NEW s2 \in SignalRows,
         Inferior(e2, s2, e1, s1)
  PROVE  Ruling(e2, s2, k).confidence <= Ruling(e1, s1, k).confidence
<1> DEFINE r1 == Supported(e1, s1, k)
           r2 == Supported(e2, s2, k)
           c1 == Limited(e1, s1, r1)
           c2 == Limited(e2, s2, r2)
<1>1. /\ s1.final \in -1 .. 100 /\ s2.final \in -1 .. 100
      /\ s1.adjustment \in Int /\ s2.adjustment \in Int
      /\ e1.cap \in Int /\ e2.cap \in Int
      /\ s1.rejected \in Nat /\ s2.rejected \in Nat
      /\ Unsaid = -1 /\ Supports[k] \in 25 .. 75
  BY SignalTypes, SupportsTyped DEF Unsaid
<1>2. /\ (s2.final = Unsaid <=> s1.final = Unsaid) /\ s2.final <= s1.final
      /\ s2.adjustment <= s1.adjustment
      /\ e2.cap <= e1.cap
      /\ s1.quality = "low" => s2.quality = "low"
      /\ s2.rejected >= s1.rejected
  BY DEF Inferior
<1>3. /\ r1 \in 0 .. 100 /\ r1 = RaisedBy(e1, s1, Supports[k])
      /\ r2 \in 0 .. 100 /\ r2 = RaisedBy(e2, s2, Supports[k])
  BY SupportedIs
<1> HIDE DEF r1, r2
<1>4. r2 <= r1
  <2>1. RaisedBy(e2, s2, Supports[k]) <= RaisedBy(e1, s1, Supports[k])
    <3> DEFINE b == Supports[k]
               y == IF s1.final >= 0 THEN s1.final ELSE 0
               x == IF s2.final >= 0 THEN s2.final ELSE 0
               v == IF y <= 65 THEN y ELSE 65
               u == IF x <= 65 THEN x ELSE 65
               top(n) == IF b >= n THEN b ELSE n
    <3>1. b \in Int /\ x \in Int /\ y \in Int
      BY <1>1
    <3>2. u \in Int /\ v \in Int
      <4> HIDE DEF x, y
      <4> QED BY <3>1
    <3>3. /\ top(x) <= top(y) /\ top(u) <= top(v) /\ top(u) <= top(y)
          /\ b <= top(y) /\ b <= top(v) /\ b <= b
      <4> HIDE DEF b
      <4>1. s1.final \in Int /\ s2.final \in Int /\ s2.final <= s1.final
        BY <1>1, <1>2
      <4>2. b <= b
        BY <3>1
      <4> QED BY <3>1, <3>2, <4>1, <4>2, RaisesFall
    <3>4. /\ RaisedBy(e1, s1, b) = IF Positive(e1, s1) THEN top(y)
                                   ELSE IF Partial(e1, s1) THEN top(v) ELSE b
          /\ RaisedBy(e2, s2, b) = IF Positive(e2, s2) THEN top(x)
                                   ELSE IF Partial(e2, s2) THEN top(u) ELSE b
      BY DEF RaisedBy
    <3>5. /\ Positive(e2, s2) => Positive(e1, s1)
          /\ Partial(e2, s2) => Positive(e1, s1) \/ Partial(e1, s1)
      BY SupportFalls
    <3> HIDE DEF b, x, y, u, v, top
    <3>6. RaisedBy(e2, s2, b) <= RaisedBy(e1, s1, b)
      BY <3>3, <3>4, <3>5
    <3> QED BY <3>6 DEF b
  <2> QED BY <1>3, <2>1
<1>5. Net(s2, r2) <= Net(s1, r1) /\ Net(s1, r1) \in Int /\ Net(s2, r2) \in Int
  <2> DEFINE d1 == IF s1.final = Unsaid \/ r1 <= s1.final THEN r1 ELSE s1.final
             d2 == IF s2.final = Unsaid \/ r2 <= s2.final THEN r2 ELSE s2.final
             n1 == d1 + s1.adjustment
             n2 == d2 + s2.adjustment
  <2>0. /\ r1 \in Int /\ r2 \in Int /\ s1.final \in Int /\ s2.final \in Int
        /\ r2 <= r1 /\ s2.final <= s1.final
        /\ (s2.final = Unsaid <=> s1.final = Unsaid)
    BY <1>1, <1>2, <1>3, <1>4
  <2>1. d1 \in Int /\ d2 \in Int /\ d2 <= d1
    <3>1. CASE s1.final = Unsaid
      BY ONLY <2>0, <3>1
    <3>2. CASE s1.final # Unsaid
      BY ONLY <2>0, <3>2
    <3> QED BY <3>1, <3>2
  <2> HIDE DEF d1, d2
  <2>2. n1 \in Int /\ n2 \in Int /\ n2 <= n1
    BY <2>1, <1>1, <1>2
  <2>3. /\ Net(s1, r1) = IF n1 >= 0 THEN n1 ELSE 0
        /\ Net(s2, r2) = IF n2 >= 0 THEN n2 ELSE 0
    BY DEF Net, d1, d2
  <2> HIDE DEF n1, n2
  <2> QED BY <2>2, <2>3
<1>6. IsLimit(c1, e1, s1, Net(s1, r1)) /\ IsLimit(c2, e2, s2, Net(s2, r2))
  BY <1>3, LimitedIs
<1>7. c2 <= c1
  <2> HIDE DEF c1, c2
  <2> DEFINE n1 == Net(s1, r1)
             n2 == Net(s2, r2)
  <2>1. n2 <= n1 /\ n1 \in Int /\ n2 \in Int
    BY <1>5
  <2>2. IsLimit(c1, e1, s1, n1) /\ IsLimit(c2, e2, s2, n2)
    BY <1>6
  <2> HIDE DEF n1, n2
  <2>3. Doubted(e1, s1) => s2.rejected > 0 \/ Doubted(e2, s2)
    BY SupportFalls
  <2> QED BY <1>1, <1>2, <2>1, <2>2, <2>3 DEF IsLimit
<1> QED BY <1>7 DEF Ruling, r1, r2

-----------------------------------------------------------------------------
(* What a release takes.                                                    *)

\* The parts of the risk of claims that hold.
RiskOf(s, c, trusted) ==
  30 - (IF s.verified >= 5 THEN 10 ELSE 0) + RiskOfDoubt(s)
    + (IF c < 50 THEN 25 ELSE IF c < 70 THEN 10 ELSE -10)
    + (IF trusted < 50 THEN 20 ELSE IF trusted >= 70 THEN -10 ELSE 0)

\* What releases a payment: no other policy, limit or reason to block is left.
ReleaseEarned(e, s, c, trusted) ==
  /\ ClaimsHold(s) /\ Positive(e, s)
  /\ e.caution => s.verified >= 5
  /\ RiskOf(s, c, trusted) <= 20
  /\ trusted >= 70
  /\ 40 * c + 60 * trusted + Bonus(s) >= 7000

\* Doubt is a matter of proportions.
LEMMA DoubtIs ==
  ASSUME NEW s \in SignalRows, ClaimsHold(s)
  PROVE  RiskOfDoubt(s) =
           LET v == s.verified  u == s.uncertain
           IN IF 4 * u >= 6 * v THEN 20 ELSE IF 6 * u >= 4 * v THEN 10
              ELSE IF 8 * u <= 2 * v THEN -5 ELSE 0
<1>1. /\ s.verified \in Nat /\ s.uncertain \in Nat /\ s.rejected = 0 /\ s.verified > 0
  BY DEF SignalRows, ClaimsHold
<1>2. Most(s.verified + s.rejected + s.uncertain, 1) = s.verified + s.uncertain
  BY <1>1, MostIs
<1> QED BY <1>1, <1>2 DEF RiskOfDoubt

LEMMA DoubtTyped ==
  ASSUME NEW s \in SignalRows
  PROVE  RiskOfDoubt(s) \in {20, 10, -5, 0}
  BY DEF RiskOfDoubt

LEMMA BonusIs ==
  ASSUME NEW s \in SignalRows
  PROVE  Bonus(s) =
           (IF s.verified >= 5 /\ s.rejected = 0 THEN 500 ELSE 0)
             + (IF s.uncertain = 0 THEN 300
                ELSE IF s.uncertain = 1 \/ 5 * s.uncertain <= s.verified THEN 100 ELSE 0)
<1>1. s.verified \in Nat /\ s.uncertain \in Nat
  BY DEF SignalRows
<1> DEFINE fifth == s.verified \div 5
<1>2. fifth \in Int /\ 5 * fifth <= s.verified /\ s.verified < 5 * fifth + 5
  BY <1>1
<1> HIDE DEF fifth
<1>3. Most(1, fifth) = IF 1 >= fifth THEN 1 ELSE fifth
  BY <1>2, MostIs
<1>4. s.uncertain # 0 =>
        (s.uncertain <= Most(1, fifth) <=> s.uncertain = 1 \/ 5 * s.uncertain <= s.verified)
  BY <1>1, <1>2, <1>3
<1> QED BY <1>4 DEF Bonus, fifth

\* The risk of claims that hold and carry the verdict.
LEMMA RiskIs ==
  ASSUME NEW s \in SignalRows, ClaimsHold(s), NEW r,
         r.verdict = "verified", r.confidence \in Int
  PROVE  LET sum == RiskOf(s, r.confidence, VerificationConfidence(s, r))
         IN Risk(s, r) = IF sum < 0 THEN 0 ELSE IF sum > 100 THEN 100 ELSE sum
<1> DEFINE trusted == VerificationConfidence(s, r)
           c == r.confidence
           sum == RiskOf(s, c, trusted)
<1>1. /\ s.verified \in Nat /\ s.rejected = 0 /\ s.verified > 0 /\ s.final \in Int
      /\ c \in Int
  BY DEF ClaimsHold, SignalRows, Unsaid
<1>2. trusted \in Int
  BY <1>1 DEF VerificationConfidence
<1>3. RiskOfClaims(s) = IF s.verified >= 5 THEN -10 ELSE 0
  BY <1>1 DEF RiskOfClaims
<1>4. RiskOfDoubt(s) \in Int
  BY DoubtTyped
<1>5. /\ (CASE c < 50 -> 25 [] c \in 50 .. 69 -> 10 [] OTHER -> -10)
           = IF c < 50 THEN 25 ELSE IF c < 70 THEN 10 ELSE -10
      /\ (CASE trusted < 50 -> 20 [] trusted >= 70 -> -10 [] OTHER -> 0)
           = IF trusted < 50 THEN 20 ELSE IF trusted >= 70 THEN -10 ELSE 0
  <2> HIDE DEF trusted, c
  <2> QED BY <1>1, <1>2
<1>6. (CASE r.verdict = "verified" -> -20 [] r.verdict = "partial" -> -10 [] OTHER -> 25) = -20
  OBVIOUS
<1>7. sum \in Int
  <2> HIDE DEF trusted, c
  <2> QED BY <1>1, <1>2, <1>4 DEF RiskOf
<1>8. 50
        + (CASE r.verdict = "verified" -> -20 [] r.verdict = "partial" -> -10 [] OTHER -> 25)
        + RiskOfClaims(s) + RiskOfDoubt(s)
        + (CASE c < 50 -> 25 [] c \in 50 .. 69 -> 10 [] OTHER -> -10)
        + (CASE trusted < 50 -> 20 [] trusted >= 70 -> -10 [] OTHER -> 0)
      = sum
  BY <1>3, <1>4, <1>5, <1>6 DEF RiskOf
<1>9. Risk(s, r) = Least(Most(sum, 0), 100)
  BY <1>8 DEF Risk
<1> HIDE DEF sum
<1>10. Most(sum, 0) = IF sum >= 0 THEN sum ELSE 0
  BY <1>7, MostIs
<1>11. Most(sum, 0) \in Int
  BY <1>7, <1>10
<1>12. Least(Most(sum, 0), 100) = IF Most(sum, 0) <= 100 THEN Most(sum, 0) ELSE 100
  BY <1>11, LeastIs
<1> QED BY <1>7, <1>9, <1>10, <1>12 DEF sum

LEMMA ReleaseConfidenceIs ==
  ASSUME NEW s \in SignalRows, NEW r, r.confidence \in Int, NEW cap \in Int
  PROVE  LET trusted == VerificationConfidence(s, r)
             c == ReleaseConfidence(s, r, cap)
         IN c >= 7000 <=>
              /\ 40 * r.confidence + 60 * trusted + Bonus(s) >= 7000
              /\ cap >= 70 /\ trusted >= 70
<1> DEFINE trusted == VerificationConfidence(s, r)
           sum == 40 * r.confidence + 60 * trusted + Bonus(s)
           V == {10000, sum, 100 * cap, 100 * trusted}
<1>1. trusted \in Int
  BY DEF VerificationConfidence, SignalRows, Unsaid
<1>2. Bonus(s) \in Int
  BY BonusIs
<1>3. sum \in Int
  BY <1>1, <1>2
<1>4. ReleaseConfidence(s, r, cap) = Min(V)
  BY DEF ReleaseConfidence
<1> HIDE DEF trusted, sum
<1>5. V = {10000, sum} \cup {100 * cap} \cup {100 * trusted}
  OBVIOUS
<1>6. IsLeast(Min(V), V)
  <2> DEFINE x == 100 * cap
             y == 100 * trusted
             S == {x}
             T == {y}
             U == {10000, sum} \cup S \cup T
  <2>1. x \in Int /\ y \in Int
    BY <1>1
  <2>2. V = U
    BY <1>5
  <2> HIDE DEF x, y, V
  <2>3. (\E n \in Int : Optional(S, n)) /\ (\E n \in Int : Optional(T, n))
    BY <2>1 DEF Optional
  <2> HIDE DEF S, T
  <2>4. 10000 \in Int
    OBVIOUS
  <2>5. IsLeast(Min(U), U)
    BY ONLY <1>3, <2>3, <2>4, LeastOfSome
  <2> HIDE DEF U
  <2> QED BY <2>2, <2>5
<1>7. Min(V) >= 7000 <=> sum >= 7000 /\ cap >= 70 /\ trusted >= 70
  <2> DEFINE m == Min(V)
  <2>1. /\ m \in {10000, sum, 100 * cap, 100 * trusted}
        /\ m <= 10000 /\ m <= sum /\ m <= 100 * cap /\ m <= 100 * trusted
    <3> HIDE DEF m
    <3> QED BY <1>5, <1>6 DEF IsLeast, m
  <2> HIDE DEF m
  <2>2. m >= 7000 <=> sum >= 7000 /\ cap >= 70 /\ trusted >= 70
    BY <1>1, <1>3, <2>1
  <2> QED BY <2>2 DEF m
<1> QED BY <1>4, <1>7 DEF sum, trusted

\* A payment is released exactly when its release is earned.
LEMMA AuthorizedIs ==
  ASSUME NEW e \in EvaluationRows, NEW s \in SignalRows, NEW r,
         r.verdict = Verdict(e, s), r.confidence \in 0 .. 100
  PROVE  Authorized(e, s, r) <=> ReleaseEarned(e, s, r.confidence, VerificationConfidence(s, r))
<1> DEFINE risk == Risk(s, r)
           trusted == VerificationConfidence(s, r)
           policy == PolicyOf(e, s, r)
<1>1. /\ s.verified \in Nat /\ s.rejected \in Nat /\ s.uncertain \in Nat
      /\ e.given \in BOOLEAN /\ e.ready \in BOOLEAN /\ e.caution \in BOOLEAN
  BY SignalTypes
<1>2. r.confidence \in Int
  OBVIOUS
<1>3. ASSUME ~ClaimsHold(s) PROVE ~Authorized(e, s, r) /\ ~ReleaseEarned(e, s, r.confidence, trusted)
  BY <1>3 DEF Authorized, ReleaseEarned
<1>4. ASSUME ClaimsHold(s), ~Positive(e, s)
      PROVE  ~Authorized(e, s, r) /\ ~ReleaseEarned(e, s, r.confidence, trusted)
  <2>1. r.verdict # "verified"
    BY <1>4 DEF Verdict
  <2>2. ~(s.rejected > 0)
    BY <1>1, <1>4 DEF ClaimsHold
  <2>3. PolicyOfRisk(s, r, risk).mode # "automatic"
    BY <2>1, <2>2 DEF PolicyOfRisk, Policy
  <2>4. policy.mode # "automatic"
    BY <2>3 DEF PolicyOf
  <2> QED BY <1>4, <2>1, <2>4 DEF Authorized, ReleaseEarned
<1>5. ASSUME ClaimsHold(s), Positive(e, s)
      PROVE  Authorized(e, s, r) <=> ReleaseEarned(e, s, r.confidence, trusted)
  <2>1. ~(s.rejected > 0) /\ s.rejected = 0
    BY <1>1, <1>5 DEF ClaimsHold
  <2>2. r.verdict = "verified"
    BY <1>1, <1>5, <2>1 DEF Verdict, Positive
  <2> DEFINE sum == RiskOf(s, r.confidence, trusted)
  <2>3. sum \in Int
    <3>1. trusted \in Int
      BY <1>2 DEF VerificationConfidence, SignalRows, Unsaid
    <3> HIDE DEF trusted
    <3> QED BY <1>1, <1>2, <3>1, DoubtTyped DEF RiskOf
  <2>4. risk = IF sum < 0 THEN 0 ELSE IF sum > 100 THEN 100 ELSE sum
    BY <1>2, <1>5, <2>2, RiskIs
  <2>5. risk \in Int /\ (risk <= 20 <=> sum <= 20)
    <3> HIDE DEF risk, sum
    <3> QED BY <2>3, <2>4
  <2>6. CASE risk > 20
    <3>1. PolicyOfRisk(s, r, risk).mode # "automatic"
      <4> HIDE DEF risk
      <4> QED BY <2>1, <2>2, <2>5, <2>6 DEF PolicyOfRisk, Policy
    <3>2. policy.mode # "automatic"
      BY <3>1 DEF PolicyOf
    <3>3. ~(risk <= 20)
      <4> HIDE DEF risk
      <4> QED BY <2>5, <2>6
    <3> QED BY <2>5, <3>2, <3>3 DEF Authorized, ReleaseEarned
  <2>7. CASE risk <= 20
    <3> DEFINE high == IF r.confidence >= 85 THEN r.confidence ELSE 85
               low == IF high <= 75 THEN high ELSE 75
    <3>1. high \in Int /\ high >= 85 /\ low = 75
      BY <1>2
    <3>2. Most(r.confidence, 85) = high /\ Least(high, 75) = low
      <4>1. Most(r.confidence, 85) = high
        BY <1>2, MostIs
      <4> HIDE DEF high
      <4> QED BY <3>1, <4>1, LeastIs
    <3>3. PolicyOfRisk(s, r, risk) = Policy("automatic", 70, high)
      BY <2>1, <2>2, <2>7, <3>2 DEF PolicyOfRisk
    <3>4. policy = IF e.caution THEN Policy("caution", 70, 75) ELSE Policy("automatic", 70, high)
      BY <3>1, <3>2, <3>3 DEF PolicyOf, Policy
    <3>5. policy.minimum = 70 /\ policy.cap \in Int /\ policy.cap >= 70
          /\ policy.mode = IF e.caution THEN "caution" ELSE "automatic"
      <4> HIDE DEF high
      <4> QED BY <3>1, <3>4 DEF Policy
    <3>6. ReleaseConfidence(s, r, policy.cap) >= 7000 <=>
            40 * r.confidence + 60 * trusted + Bonus(s) >= 7000 /\ trusted >= 70
      <4>1. policy.cap \in Int /\ policy.cap >= 70
        BY <3>5
      <4> HIDE DEF policy
      <4> QED BY <1>2, <4>1, ReleaseConfidenceIs
    <3>7. risk <= 45
      <4> HIDE DEF risk
      <4> QED BY <2>5, <2>7
    <3>8. Authorized(e, s, r) <=>
            /\ ReleaseConfidence(s, r, policy.cap) >= 7000
            /\ ClaimsHold(s)
            /\ e.caution => s.verified >= 5
      <4>1. Authorized(e, s, r) <=>
              /\ ReleaseConfidence(s, r, policy.cap) >= 100 * policy.minimum
              /\ ClaimsHold(s)
              /\ \/ /\ policy.mode = "automatic"
                    /\ r.verdict \in {"verified", "partial"} /\ risk <= 45
                 \/ /\ policy.mode = "caution"
                    /\ r.verdict = "verified" /\ s.verified >= 5 /\ risk <= 20
        BY DEF Authorized
      <4>2. 100 * policy.minimum = 7000
        BY <3>5
      <4> HIDE DEF policy, risk
      <4> QED BY <1>1, <2>2, <2>7, <3>5, <3>7, <4>1, <4>2
    <3>9. sum <= 20
      BY <2>5, <2>7
    <3> QED BY <1>5, <3>6, <3>8, <3>9 DEF ReleaseEarned
  <2> QED BY <2>5, <2>6, <2>7
<1> QED BY <1>3, <1>4, <1>5

\* The parts of what is earned, for worse evidence.
LEMMA RiskRises ==
  ASSUME NEW e1 \in EvaluationRows, NEW s1 \in SignalRows,
         NEW e2 \in EvaluationRows, NEW s2 \in SignalRows,
         Inferior(e2, s2, e1, s1), ClaimsHold(s1), ClaimsHold(s2),
         NEW c1 \in Int, NEW c2 \in Int, c2 <= c1,
         NEW t1 \in Int, NEW t2 \in Int, t2 <= t1
  PROVE  /\ RiskOf(s1, c1, t1) <= RiskOf(s2, c2, t2)
         /\ Bonus(s2) <= Bonus(s1) /\ Bonus(s1) \in Int /\ Bonus(s2) \in Int
         /\ RiskOf(s1, c1, t1) \in Int /\ RiskOf(s2, c2, t2) \in Int
<1>1. /\ s1.verified \in Nat /\ s1.uncertain \in Nat /\ s1.rejected = 0
      /\ s2.verified \in Nat /\ s2.uncertain \in Nat /\ s2.rejected = 0
      /\ s1.verified > 0 /\ s2.verified > 0
  BY DEF ClaimsHold, SignalRows
<1>2. s2.verified <= s1.verified /\ s2.uncertain >= s1.uncertain
  BY DEF Inferior
<1>3. RiskOfDoubt(s1) <= RiskOfDoubt(s2) /\ RiskOfDoubt(s1) \in Int /\ RiskOfDoubt(s2) \in Int
  <2>1. /\ RiskOfDoubt(s1) = LET v == s1.verified  u == s1.uncertain
           IN IF 4 * u >= 6 * v THEN 20 ELSE IF 6 * u >= 4 * v THEN 10
              ELSE IF 8 * u <= 2 * v THEN -5 ELSE 0
        /\ RiskOfDoubt(s2) = LET v == s2.verified  u == s2.uncertain
           IN IF 4 * u >= 6 * v THEN 20 ELSE IF 6 * u >= 4 * v THEN 10
              ELSE IF 8 * u <= 2 * v THEN -5 ELSE 0
    BY DoubtIs
  <2> QED BY <1>1, <1>2, <2>1
<1>4. Bonus(s2) <= Bonus(s1) /\ Bonus(s1) \in Int /\ Bonus(s2) \in Int
  BY <1>1, <1>2, BonusIs
<1> DEFINE m1 == IF s1.verified >= 5 THEN 10 ELSE 0
           m2 == IF s2.verified >= 5 THEN 10 ELSE 0
           x1 == IF c1 < 50 THEN 25 ELSE IF c1 < 70 THEN 10 ELSE -10
           x2 == IF c2 < 50 THEN 25 ELSE IF c2 < 70 THEN 10 ELSE -10
           y1 == IF t1 < 50 THEN 20 ELSE IF t1 >= 70 THEN -10 ELSE 0
           y2 == IF t2 < 50 THEN 20 ELSE IF t2 >= 70 THEN -10 ELSE 0
<1>5. m1 \in Int /\ m2 \in Int /\ m2 <= m1
  BY <1>1, <1>2
<1>6. x1 \in Int /\ x2 \in Int /\ x1 <= x2
  OBVIOUS
<1>7. y1 \in Int /\ y2 \in Int /\ y1 <= y2
  OBVIOUS
<1>8. /\ RiskOf(s1, c1, t1) = 30 - m1 + RiskOfDoubt(s1) + x1 + y1
      /\ RiskOf(s2, c2, t2) = 30 - m2 + RiskOfDoubt(s2) + x2 + y2
  BY DEF RiskOf
<1> HIDE DEF m1, m2, x1, x2, y1, y2
<1> QED BY <1>3, <1>4, <1>5, <1>6, <1>7, <1>8

\* What worse evidence earns, better evidence earns as well.
LEMMA EarnedByBetter ==
  ASSUME NEW e1 \in EvaluationRows, NEW s1 \in SignalRows,
         NEW e2 \in EvaluationRows, NEW s2 \in SignalRows,
         Inferior(e2, s2, e1, s1),
         NEW c1 \in Int, NEW c2 \in Int, c2 <= c1,
         NEW t1 \in Int, NEW t2 \in Int, t2 <= t1,
         ReleaseEarned(e2, s2, c2, t2)
  PROVE  ReleaseEarned(e1, s1, c1, t1)
<1>1. Positive(e1, s1)
  BY SupportFalls DEF ReleaseEarned
<1>2. /\ s1.verified \in Nat /\ s2.verified \in Nat /\ s1.rejected \in Nat
      /\ s2.verified <= s1.verified /\ s2.rejected >= s1.rejected
      /\ e1.caution => e2.caution
  BY SignalTypes DEF Inferior
<1>3. ClaimsHold(s2) /\ (e2.caution => s2.verified >= 5)
  BY DEF ReleaseEarned
<1>4. ClaimsHold(s1)
  BY <1>2, <1>3 DEF ClaimsHold
<1>5. e1.caution => s1.verified >= 5
  BY <1>2, <1>3
<1>6. /\ RiskOf(s1, c1, t1) <= RiskOf(s2, c2, t2)
      /\ Bonus(s2) <= Bonus(s1) /\ Bonus(s1) \in Int /\ Bonus(s2) \in Int
      /\ RiskOf(s1, c1, t1) \in Int /\ RiskOf(s2, c2, t2) \in Int
  BY <1>3, <1>4, RiskRises
<1>7. /\ RiskOf(s2, c2, t2) <= 20 /\ t2 >= 70
      /\ 40 * c2 + 60 * t2 + Bonus(s2) >= 7000
  BY DEF ReleaseEarned
<1>8. /\ RiskOf(s1, c1, t1) <= 20 /\ t1 >= 70
      /\ 40 * c1 + 60 * t1 + Bonus(s1) >= 7000
  BY <1>6, <1>7
<1> QED BY <1>1, <1>4, <1>5, <1>8 DEF ReleaseEarned

\* The confidence of a ruling is a part of one.
CapTyped(e) == e.cap \in 0 .. 100

LEMMA RulingTyped ==
  ASSUME NEW e \in EvaluationRows, CapTyped(e), NEW s \in SignalRows,
         NEW k \in DOMAIN Supports
  PROVE  /\ Ruling(e, s, k).confidence \in 0 .. 100
         /\ Ruling(e, s, k).verdict = Verdict(e, s)
         /\ VerificationConfidence(s, Ruling(e, s, k)) \in Int
<1> DEFINE raised == Supported(e, s, k)
           c == Limited(e, s, raised)
           net == Net(s, raised)
<1>1. raised \in 0 .. 100
  BY SupportedIs
<1>2. s.adjustment \in Int /\ s.final \in -1 .. 100 /\ e.cap \in 0 .. 100
  BY SignalTypes DEF CapTyped
<1> HIDE DEF raised
<1>3. net \in Int /\ net >= 0
  <2> DEFINE d == IF s.final = Unsaid \/ raised <= s.final THEN raised ELSE s.final
  <2>1. d \in Int
    BY <1>1, <1>2
  <2> HIDE DEF d
  <2>2. net = IF d + s.adjustment >= 0 THEN d + s.adjustment ELSE 0
    BY DEF Net, d
  <2> QED BY <1>2, <2>1, <2>2
<1>4. IsLimit(c, e, s, net)
  BY <1>1, LimitedIs
<1>5. c \in 0 .. 100
  <2> HIDE DEF c, net
  <2> QED BY <1>2, <1>3, <1>4 DEF IsLimit
<1>6. Ruling(e, s, k) = [verdict |-> Verdict(e, s), confidence |-> c]
  BY DEF Ruling, raised
<1> HIDE DEF c
<1> QED BY <1>2, <1>5, <1>6 DEF VerificationConfidence

\* Better evidence gets the release that worse evidence gets.
LEMMA GrantedToBetter ==
  ASSUME NEW e1 \in EvaluationRows, CapTyped(e1), NEW s1 \in SignalRows,
         NEW e2 \in EvaluationRows, CapTyped(e2), NEW s2 \in SignalRows,
         NEW k \in DOMAIN Supports, Inferior(e2, s2, e1, s1),
         Authorized(e2, s2, Ruling(e2, s2, k))
  PROVE  Authorized(e1, s1, Ruling(e1, s1, k))
<1> DEFINE r1 == Ruling(e1, s1, k)
           r2 == Ruling(e2, s2, k)
           t1 == VerificationConfidence(s1, r1)
           t2 == VerificationConfidence(s2, r2)
<1>1. /\ r1.confidence \in 0 .. 100 /\ r1.verdict = Verdict(e1, s1) /\ t1 \in Int
      /\ r2.confidence \in 0 .. 100 /\ r2.verdict = Verdict(e2, s2) /\ t2 \in Int
  BY RulingTyped
<1>2. r2.confidence <= r1.confidence
  BY ConfidenceFalls
<1> HIDE DEF r1, r2
<1>3. t2 <= t1
  BY <1>1, <1>2, SignalTypes DEF VerificationConfidence, Inferior
<1>4. ReleaseEarned(e2, s2, r2.confidence, t2)
  BY <1>1, AuthorizedIs DEF r2
<1> HIDE DEF t1, t2
<1>5. r1.confidence \in Int /\ r2.confidence \in Int
  BY <1>1
<1>6. ReleaseEarned(e1, s1, r1.confidence, t1)
  BY <1>1, <1>2, <1>3, <1>4, <1>5, EarnedByBetter
<1> QED BY <1>1, <1>6, AuthorizedIs DEF r1, t1

-----------------------------------------------------------------------------
(* The run of a decision.                                                   *)

Ruled == {"decided", "delivered", "held", "released", "refused"}

AuthorityTyped ==
  /\ evaluation \in EvaluationRows /\ evaluation.cap \in 40 .. 100
  /\ evaluation.ready => evaluation.given
  /\ signals \in SignalRows /\ signals \in Signals \cup DirectSignals \cup {NoSignals}
  /\ support \in DOMAIN Supports
  /\ outcome \in {"begun", "gathered", "supported"} \cup Ruled

\* What was decided is what the evidence comes to.
RulingIsOfEvidence ==
  IF outcome \in Ruled THEN ruling = Ruling(evaluation, signals, support)
  ELSE ruling.confidence = 0

ReleaseInv ==
  /\ AuthorityTyped /\ RulingIsOfEvidence
  /\ outcome = "released" => Authorized(evaluation, signals, ruling)

LEMMA SignalsTyped ==
  /\ Signals \subseteq SignalRows /\ NoSignals \in SignalRows
  /\ DirectSignals \subseteq SignalRows
<1>1. ASSUME NEW s \in Signals PROVE s \in SignalRows
  <2>1. PICK v \in VerifiedClaims, r \in RejectedClaims, u \in UncertainClaims,
             q \in {"high", "medium", "low"}, n \in Deductions,
             f \in {Unsaid} \cup FinalConfidences :
               s = [verified |-> v, rejected |-> r, uncertain |-> u, quality |-> q,
                    adjustment |-> -n, final |-> f]
    BY DEF Signals
  <2>2. /\ v \in Nat /\ r \in Nat /\ u \in Nat /\ -n \in Int
        /\ f \in {Unsaid} \cup 0 .. 100
    <3>1. v \in Nat /\ r \in Nat /\ u \in Nat /\ n \in Nat
      BY AuthorityAssumption
    <3>2. -n \in Int
      BY <3>1
    <3>3. f \in {Unsaid} \cup 0 .. 100
      BY AuthorityAssumption
    <3> QED BY <3>1, <3>2, <3>3
  <2> QED BY <2>1, <2>2 DEF SignalRows
<1>2. NoSignals \in SignalRows
  BY DEF NoSignals, SignalRows, Unsaid
<1>3. ASSUME NEW s \in DirectSignals PROVE s \in SignalRows
  <2>1. PICK t \in Signals : s = [t EXCEPT !.final = LocalConfidence(t.verified, t.uncertain)]
    BY DEF DirectSignals, LocalClaims
  <2>2. t \in SignalRows /\ t.verified \in Nat /\ t.uncertain \in Nat
    BY <1>1 DEF SignalRows
  <2>3. LocalConfidence(t.verified, t.uncertain) \in 0 .. 100
    <3>1. /\ Least(35, 8 * t.verified) \in 0 .. 35
          /\ Least(15, t.uncertain) \in 0 .. 15
      BY <2>2, LeastIs
    <3> QED BY <3>1 DEF LocalConfidence
  <2> QED BY <2>1, <2>2, <2>3 DEF SignalRows
<1> QED BY <1>1, <1>2, <1>3

LEMMA CapIs ==
  ASSUME NEW research \in Consensuses, NEW verification \in Consensuses,
         NEW high \in SUBSET {"research", "verification"}
  PROVE  Cap(research, verification, high) \in 40 .. 100
<1> DEFINE worth == 40 + ResearchWorth(research) + VerificationWorth(verification)
                      + 5 * Cardinality(high)
           S == IF verification.valid = 1 THEN {65} ELSE {}
           T == IF research.valid < 2 THEN {55} ELSE {}
<1>1. Cardinality(high) \in Nat
  <2>1. IsFiniteSet({"research", "verification"})
    <3>1. {"research", "verification"} = {"research"} \cup {"verification"}
      OBVIOUS
    <3>2. IsFiniteSet({"research"}) /\ IsFiniteSet({"verification"})
      BY FS_Singleton, Zenon
    <3>3. IsFiniteSet({"research"} \cup {"verification"})
      BY <3>2, FS_Union, Zenon
    <3> QED BY <3>1, <3>3
  <2>2. IsFiniteSet(high)
    BY <2>1, FS_Subset
  <2> QED BY <2>2, FS_CardinalityType
<1>2. ResearchWorth(research) \in {0, 10, 20} /\ VerificationWorth(verification) \in {0, 10, 25}
  BY DEF ResearchWorth, VerificationWorth
<1>3. worth \in Int /\ worth >= 40
  <2> DEFINE a == ResearchWorth(research)
             b == VerificationWorth(verification)
             n == Cardinality(high)
  <2> HIDE DEF a, b, n
  <2>1. a \in {0, 10, 20} /\ b \in {0, 10, 25} /\ n \in Nat
    BY <1>1, <1>2 DEF a, b, n
  <2>2. 40 + a + b + 5 * n \in Int /\ 40 + a + b + 5 * n >= 40
    BY <2>1
  <2> QED BY <2>2 DEF a, b, n
<1>4. (\E c \in Int : Optional(S, c)) /\ (\E d \in Int : Optional(T, d))
  BY DEF Optional
<1>5. S \cup T \subseteq {55, 65}
  OBVIOUS
<1>6. Cap(research, verification, high) = Min({worth, 90} \cup S \cup T)
  BY DEF Cap
<1> HIDE DEF worth, S, T
<1>7. IsLeast(Min({worth, 90} \cup S \cup T), {worth, 90} \cup S \cup T)
  BY <1>3, <1>4, LeastOfSome
<1> QED BY <1>3, <1>5, <1>6, <1>7 DEF IsLeast

LEMMA AuthorityBegins == AuthorityInit => ReleaseInv
  BY SignalsTyped DEF AuthorityInit, ReleaseInv, AuthorityTyped, RulingIsOfEvidence, Ruled,
     NoEvaluation, Evaluation, EvaluationRows, Supports

LEMMA AuthorityKept ==
  ASSUME ReleaseInv, [AuthorityNext]_authorityVars
  PROVE  ReleaseInv'
<1>1. CASE Gather
  <2>1. PICK research \in Consensuses, verification \in Consensuses,
             high \in SUBSET {"research", "verification"},
             s \in Signals \cup {NoSignals} :
               /\ evaluation' = EvaluationOf(research, verification, high, s)
               /\ signals' = s
    BY <1>1 DEF Gather
  <2>2. outcome' = "gathered" /\ support' = support /\ ruling' = ruling /\ outcome = "begun"
    BY <1>1 DEF Gather
  <2>3. /\ evaluation' \in EvaluationRows /\ evaluation'.cap \in 40 .. 100
        /\ evaluation'.ready => evaluation'.given
    BY <2>1, CapIs DEF EvaluationOf, Evaluation, EvaluationRows, Ready, Caution
  <2>4. signals' \in SignalRows /\ signals' \in Signals \cup DirectSignals \cup {NoSignals}
    BY <2>1, SignalsTyped
  <2> QED BY <2>2, <2>3, <2>4 DEF ReleaseInv, AuthorityTyped, RulingIsOfEvidence, Ruled
<1>2. CASE GatherNothing \/ KeepEvidence
  BY <1>2 DEF GatherNothing, KeepEvidence, ReleaseInv, AuthorityTyped, RulingIsOfEvidence, Ruled
<1>3. CASE SearchDirectly
  <2>1. /\ signals' \in SignalRows /\ signals' \in DirectSignals
        /\ evaluation' = Evaluation(TRUE, TRUE, 75, evaluation.caution)
        /\ outcome' = "supported" /\ support' = support /\ ruling' = ruling
        /\ outcome = "gathered"
    BY <1>3, SignalsTyped DEF SearchDirectly
  <2> QED BY <2>1 DEF ReleaseInv, AuthorityTyped, RulingIsOfEvidence, Ruled, Evaluation, EvaluationRows
<1>4. CASE SearchFails
  BY <1>4, SignalsTyped DEF SearchFails, ReleaseInv, AuthorityTyped, RulingIsOfEvidence, Ruled,
     Evaluation, EvaluationRows
<1>5. CASE Decide
  <2>1. PICK sellers \in DOMAIN Supports :
          support' = sellers /\ ruling' = Ruling(evaluation, signals, sellers)
    BY <1>5 DEF Decide
  <2>2. outcome' = "decided" /\ evaluation' = evaluation /\ signals' = signals
    BY <1>5 DEF Decide
  <2> QED BY <2>1, <2>2 DEF ReleaseInv, AuthorityTyped, RulingIsOfEvidence, Ruled
<1>6. CASE Deliver
  <2>1. /\ outcome = "decided" /\ outcome' \in {"delivered", "held"}
        /\ UNCHANGED <<evaluation, signals, support, ruling>>
    BY <1>6 DEF Deliver
  <2> QED BY <2>1 DEF ReleaseInv, AuthorityTyped, RulingIsOfEvidence, Ruled
<1>7. CASE AuthorizeRelease
  <2>1. /\ outcome = "decided" /\ outcome' \in {"released", "refused"}
        /\ outcome' = "released" => Authorized(evaluation, signals, ruling)
        /\ UNCHANGED <<evaluation, signals, support, ruling>>
    BY <1>7 DEF AuthorizeRelease
  <2> QED BY <2>1 DEF ReleaseInv, AuthorityTyped, RulingIsOfEvidence, Ruled
<1>8. CASE DecideAgain
  BY <1>8, SignalsTyped DEF DecideAgain, ReleaseInv, AuthorityTyped, RulingIsOfEvidence, Ruled,
     NoEvaluation, Evaluation, EvaluationRows, Supports
<1>9. CASE UNCHANGED authorityVars
  BY <1>9 DEF authorityVars, ReleaseInv, AuthorityTyped, RulingIsOfEvidence
<1> QED BY <1>1, <1>2, <1>3, <1>4, <1>5, <1>6, <1>7, <1>8, <1>9 DEF AuthorityNext

LEMMA RestsOnClaims ==
  ASSUME ReleaseInv
  PROVE  ReleaseRestsOnClaims
<1> SUFFICES ASSUME outcome = "released"
             PROVE  /\ MayDeliver(evaluation, ruling) /\ ruling.verdict = "verified"
                    /\ signals.quality = "high" /\ ClaimsHold(signals)
                    /\ signals.verified >= signals.uncertain
                    /\ VerificationConfidence(signals, ruling) >= 70
                    /\ evaluation.caution => signals.verified >= 5
  BY DEF ReleaseRestsOnClaims
<1>1. /\ evaluation \in EvaluationRows /\ signals \in SignalRows /\ support \in DOMAIN Supports
      /\ evaluation.ready => evaluation.given
      /\ CapTyped(evaluation)
      /\ ruling = Ruling(evaluation, signals, support)
      /\ Authorized(evaluation, signals, ruling)
  BY DEF ReleaseInv, AuthorityTyped, RulingIsOfEvidence, Ruled, CapTyped
<1>2. ruling.verdict = Verdict(evaluation, signals) /\ ruling.confidence \in 0 .. 100
  BY <1>1, RulingTyped
<1>3. ReleaseEarned(evaluation, signals, ruling.confidence, VerificationConfidence(signals, ruling))
  BY <1>1, <1>2, AuthorizedIs
<1>4. ~(signals.rejected > 0)
  BY <1>1, <1>3 DEF ReleaseEarned, ClaimsHold, SignalRows
<1>5. ruling.verdict = "verified"
  BY <1>2, <1>3, <1>4 DEF ReleaseEarned, Verdict, Positive
<1> QED BY <1>1, <1>3, <1>5 DEF ReleaseEarned, Positive, MayDeliver

LEMMA WorseIsInferior ==
  ASSUME NEW e \in EvaluationRows, e.cap \in 40 .. 100, NEW s \in SignalRows
  PROVE  /\ \A t \in Worse(s) : t \in SignalRows /\ Inferior(e, t, e, s)
         /\ \A d \in Stricter(e) : d \in EvaluationRows /\ CapTyped(d) /\ Inferior(d, s, e, s)
<1>1. /\ s.verified \in Nat /\ s.rejected \in Nat /\ s.uncertain \in Nat
      /\ s.adjustment \in Int /\ s.final \in {Unsaid} \cup 0 .. 100 /\ Unsaid = -1
      /\ s.quality \in {"high", "medium", "low", "unknown"}
  BY DEF SignalRows, Unsaid
<1>2. ASSUME NEW t \in Worse(s) PROVE t \in SignalRows /\ Inferior(e, t, e, s)
  <2>1. Most(s.verified - 1, 0) \in Nat /\ Most(s.verified - 1, 0) <= s.verified
    BY <1>1, MostIs
  <2>2. CASE t = [s EXCEPT !.rejected = @ + 1]
    BY <1>1, <2>2 DEF SignalRows, Inferior
  <2>3. CASE t = [s EXCEPT !.uncertain = @ + 1]
    BY <1>1, <2>3 DEF SignalRows, Inferior
  <2>4. CASE t = [s EXCEPT !.verified = Most(@ - 1, 0)]
    BY <1>1, <2>1, <2>4 DEF SignalRows, Inferior
  <2>5. CASE t = [s EXCEPT !.quality = "low"]
    BY <1>1, <2>5 DEF SignalRows, Inferior
  <2>6. CASE t = [s EXCEPT !.adjustment = @ - 10]
    BY <1>1, <2>6 DEF SignalRows, Inferior
  <2>7. CASE s.final >= 10 /\ t = [s EXCEPT !.final = @ - 10]
    BY <1>1, <2>7 DEF SignalRows, Inferior
  <2> QED BY <1>1, <2>2, <2>3, <2>4, <2>5, <2>6, <2>7 DEF Worse
<1>3. ASSUME NEW d \in Stricter(e)
      PROVE  d \in EvaluationRows /\ CapTyped(d) /\ Inferior(d, s, e, s)
  <2>1. d \in EvaluationRows
    <3>1. e.cap - 10 \in Int /\ TRUE \in BOOLEAN /\ FALSE \in BOOLEAN
      OBVIOUS
    <3>2. CASE d = [e EXCEPT !.cap = e.cap - 10]
      BY <3>1, <3>2 DEF EvaluationRows
    <3>3. CASE d = [e EXCEPT !.caution = TRUE]
      BY <3>1, <3>3, Zenon DEF EvaluationRows
    <3>4. CASE d = [e EXCEPT !.ready = FALSE]
      BY <3>1, <3>4, Zenon DEF EvaluationRows
    <3> QED BY <3>2, <3>3, <3>4 DEF Stricter
  <2>2. /\ d.given = e.given /\ d.cap \in {e.cap, e.cap - 10}
        /\ d.ready = e.ready \/ d.ready = FALSE
        /\ d.caution = e.caution \/ d.caution = TRUE
    BY DEF Stricter, EvaluationRows
  <2>3. e.cap \in 40 .. 100 /\ d.cap \in 0 .. 100 /\ d.cap <= e.cap
    BY <2>2
  <2>4. (d.ready => e.ready) /\ (e.caution => d.caution)
    BY <2>2, Zenon
  <2> QED BY <1>1, <2>1, <2>2, <2>3, <2>4 DEF CapTyped, Inferior
<1> QED BY <1>2, <1>3

LEMMA NeverBetter ==
  ASSUME ReleaseInv
  PROVE  WorseIsNeverBetter
<1> SUFFICES ASSUME outcome = "decided"
             PROVE  /\ \A s \in Worse(signals) :
                         Grants(evaluation, s) => Grants(evaluation, signals)
                    /\ \A e \in Stricter(evaluation) :
                         Grants(e, signals) => Grants(evaluation, signals)
                    /\ \A s \in Worse(signals) :
                         Ruling(evaluation, s, support).confidence <= ruling.confidence
  BY DEF WorseIsNeverBetter
<1>1. /\ evaluation \in EvaluationRows /\ signals \in SignalRows /\ support \in DOMAIN Supports
      /\ evaluation.cap \in 40 .. 100 /\ CapTyped(evaluation)
      /\ ruling = Ruling(evaluation, signals, support)
  BY DEF ReleaseInv, AuthorityTyped, RulingIsOfEvidence, Ruled, CapTyped
<1>2. ASSUME NEW s \in Worse(signals)
      PROVE  /\ Grants(evaluation, s) => Grants(evaluation, signals)
             /\ Ruling(evaluation, s, support).confidence <= ruling.confidence
  <2>1. s \in SignalRows /\ Inferior(evaluation, s, evaluation, signals)
    BY <1>1, WorseIsInferior
  <2> QED BY <1>1, <2>1, GrantedToBetter, ConfidenceFalls DEF Grants
<1>3. ASSUME NEW e \in Stricter(evaluation)
      PROVE  Grants(e, signals) => Grants(evaluation, signals)
  <2>1. e \in EvaluationRows /\ CapTyped(e) /\ Inferior(e, signals, evaluation, signals)
    BY <1>1, WorseIsInferior
  <2> QED BY <1>1, <2>1, GrantedToBetter DEF Grants
<1> QED BY <1>2, <1>3

LEMMA AuthorityStays == AuthoritySpec => []ReleaseInv
  BY AuthorityBegins, AuthorityKept, PTL DEF AuthoritySpec

\* Whatever the numbers of claims, what the foundation evaluates, verifies and rules
\* is well typed, and the confidence of its ruling is a percentage
\* (run_foundation_decision_db).
THEOREM AuthorityTypeCorrect == AuthoritySpec => []AuthorityTypeOK
<1>1. ASSUME ReleaseInv PROVE AuthorityTypeOK
  <2>1. AuthorityTyped /\ RulingIsOfEvidence
    BY <1>1 DEF ReleaseInv
  <2>2. evaluation \in EvaluationRows /\ evaluation.cap \in 40 .. 100
    BY <2>1 DEF AuthorityTyped
  <2>3. signals \in SignalRows /\ support \in DOMAIN Supports
    BY <2>1 DEF AuthorityTyped
  <2>4. signals \in Signals \cup DirectSignals \cup {NoSignals}
    BY <2>1 DEF AuthorityTyped
  <2>5. outcome \in {"begun", "gathered", "supported"} \cup Ruled
    BY <2>1 DEF AuthorityTyped
  <2>6. evaluation \in [given : BOOLEAN, ready : BOOLEAN, cap : 40 .. 100, caution : BOOLEAN]
    BY <2>2 DEF EvaluationRows
  <2>7. ruling.confidence \in 0 .. 100
    BY <2>1, <2>2, <2>3, RulingTyped DEF RulingIsOfEvidence, CapTyped
  <2> QED BY <2>3, <2>4, <2>5, <2>6, <2>7 DEF AuthorityTypeOK, Ruled
<1> QED BY <1>1, AuthorityStays, PTL

\* Whatever the numbers of claims: a payment is released only on evidence that is
\* ready, of high quality and without rejected claims (compute_release_policy,
\* authorize_release_from_risk); and what was refused here would have been refused
\* to every verification that is worse, and to a policy that is stricter
\* (run_foundation_decision_db).
THEOREM ReleasesAreEarned == AuthoritySpec => []ReleaseIsEarned
<1>1. ReleaseInv => ReleaseIsEarned
  BY RestsOnClaims, NeverBetter DEF ReleaseIsEarned
<1> QED BY <1>1, AuthorityStays, PTL

-----------------------------------------------------------------------------
(* Outdated calls are at work.  Every handler that leaves drops what it has *)
(* read, and one that writes is outdated by none.                           *)

\* Only a call that is at work can be outdated.
OutdatedAtWork == outdated \subseteq Busy

\* What a call does to the desks: it begins, it writes, it leaves, or it goes on to
\* something else, and may leave others outdated.
TurnsTo(t, next) == desk' = [desk EXCEPT ![t] = next]

PassesTo(t, next) ==
  /\ TurnsTo(t, next)
  /\ outdated' \subseteq outdated \cup Busy
  /\ t \in outdated' => next # NoWork

Moves(t) ==
  /\ \A u \in Staff : u # t => desk'[u] = desk[u]
  /\ outdated' \subseteq outdated \cup Busy
  /\ t \in outdated' => desk'[t] # NoWork

CallStep(t) ==
  \/ \E work : Takes(t, work)
  \/ \E next : Writes(t, next)
  \/ Leaves(t)
  \/ \E next : PassesTo(t, next)
  \/ Moves(t)

LEMMA OneMoves ==
  ASSUME NEW CONSTANT Works, desk \in [Staff -> Works], OutdatedAtWork, NEW t \in Staff,
         CallStep(t)
  PROVE  OutdatedAtWork'
  <1>0. CASE Moves(t)
    BY <1>0 DEF Moves, OutdatedAtWork, Busy
  <1>1. ASSUME NEW next, PassesTo(t, next)
        PROVE  OutdatedAtWork'
    BY <1>1 DEF PassesTo, TurnsTo, OutdatedAtWork, Busy
  <1>2. ASSUME NEW work, Takes(t, work) PROVE OutdatedAtWork'
    <2>1. t \notin Busy
      <3> DEFINE Idle == Staff \ Busy
      <3>1. Idle # {} /\ t = CHOOSE u \in Idle : TRUE
        BY <1>2 DEF Takes, Busy
      <3> HIDE DEF Idle
      <3>2. t \in Idle
        BY <3>1
      <3> QED
        BY <3>2 DEF Idle
    <2>2. TurnsTo(t, work) /\ outdated' = outdated
      BY <1>2 DEF Takes, TurnsTo
    <2> QED
      BY <1>1, <2>1, <2>2 DEF OutdatedAtWork, PassesTo
  <1>3. ASSUME NEW next, Writes(t, next) PROVE OutdatedAtWork'
    <2>1. t \notin outdated' /\ outdated' \subseteq outdated \cup Busy
      BY <1>3 DEF Writes, Outdates
    <2>2. TurnsTo(t, next)
      BY <1>3 DEF Writes, TurnsTo
    <2> QED
      BY <1>1, <2>1, <2>2 DEF PassesTo
  <1>4. CASE Leaves(t)
    <2>1. TurnsTo(t, NoWork) /\ outdated' = outdated \ {t}
      BY <1>4 DEF Leaves, TurnsTo
    <2> QED
      BY <1>1, <2>1 DEF PassesTo
  <1> QED
    BY <1>0, <1>1, <1>2, <1>3, <1>4 DEF CallStep

LEMMA NoneMoves ==
  ASSUME OutdatedAtWork, UNCHANGED callVars \/ WritesAtOnce
  PROVE  OutdatedAtWork'
  BY DEF OutdatedAtWork, callVars, WritesAtOnce, Outdates, Busy

LEMMA DecidesMoves ==
  ASSUME NEW t, NEW kind, NEW result, Decides(t, kind, result)
  PROVE  CallStep(t)
  BY DEF Decides, CallStep

\* A call goes on to its next task.
LEMMA NextTask ==
  ASSUME NEW t, NEW next, TurnsTo(t, next), next.task # "none", outdated' \subseteq outdated
  PROVE  CallStep(t)
  <1>1. next # NoWork
    BY NoWorkTask
  <1>2. PassesTo(t, next)
    BY <1>1 DEF PassesTo
  <1> QED
    BY <1>2 DEF CallStep

-----------------------------------------------------------------------------
LEMMA DirectCalls ==
  ASSUME OutdatedAtWork, DirectTypeOK, DirectNext
  PROVE  OutdatedAtWork'
  <1>0. \E Works : desk \in [Staff -> Works]
    BY DEF DirectTypeOK
  <1>1. ASSUME NEW t \in Staff, CallStep(t) PROVE OutdatedAtWork'
    BY <1>0, <1>1, OneMoves
  <1>2. ASSUME NEW t \in Staff, NEW o, NEW x, NEW task, NEW result, Serves(t, o, x, task, result)
        PROVE  CallStep(t)
    BY <1>2, DecidesMoves DEF Serves
  <1>3. ASSUME NEW t \in Staff, NEW task, NEW result, Proceeds(t, task, result), task # "none"
        PROVE  CallStep(t)
    <2> DEFINE next == Work(task, result, 0)
    <2>1. TurnsTo(t, next) /\ outdated' = outdated
      BY <1>3 DEF Proceeds, TurnsTo
    <2>2. next.task # "none"
      BY <1>3 DEF Work
    <2> HIDE DEF next
    <2> QED
      BY <2>1, <2>2, NextTask
  <1>4. ASSUME NEW t \in Staff, NEW order, NEW next, WritesOrder(t, order, next)
        PROVE  CallStep(t)
    <2>1. TurnsTo(t, next)
      BY <1>4 DEF WritesOrder, TurnsTo
    <2>2. outdated' \subseteq outdated \cup Busy /\ (next = NoWork => t \notin outdated')
      BY <1>4 DEF WritesOrder
    <2> QED
      BY <2>1, <2>2 DEF CallStep, PassesTo
  <1>5. ASSUME NEW t \in Staff, Answers(t)
        PROVE  CallStep(t)
    BY <1>5 DEF Answers, CallStep
  <1>6. ASSUME NEW t \in Staff,
               \/ ClaimPayment(t) \/ Enqueue(t) \/ Execute(t) \/ CallAgents(t)
               \/ CloseTask(t) \/ ExecuteFinal(t)
        PROVE  CallStep(t)
    <2>1. ASSUME NEW task \in {"execute", "call", "pend", "record", "publish", "authorize"},
                 NEW result, Proceeds(t, task, result)
          PROVE  CallStep(t)
      BY <1>3, <2>1
    <2>2. CASE ClaimPayment(t)
      BY <1>5, <2>1, <2>2 DEF ClaimPayment
    <2>3. CASE Enqueue(t) \/ CloseTask(t)
      BY <2>1, <2>3 DEF Enqueue, CloseTask
    <2>4. CASE Execute(t) \/ ExecuteFinal(t)
      BY <2>1, <2>4 DEF Execute, ExecuteFinal
    <2>5. CASE CallAgents(t)
      BY <1>5, <2>1, <2>5 DEF CallAgents
    <2> QED
      BY <1>6, <2>2, <2>3, <2>4, <2>5
  <1>7. ASSUME NEW t \in Staff,
               \/ MarkPending(t) \/ RecordExecution(t) \/ RecordMulticall(t)
               \/ PublishVerdict(t) \/ RecordFinal(t)
        PROVE  CallStep(t)
    BY <1>4, <1>7, Zenon
    DEF MarkPending, RecordExecution, RecordMulticall, PublishVerdict, RecordFinal
  <1>8. ASSUME NEW t \in Staff, RecordFailure(t) \/ SettleDirect(t) \/ DirectCallDies(t)
        PROVE  CallStep(t)
    BY <1>5, <1>8, Zenon DEF RecordFailure, SettleDirect, DirectCallDies
  <1>9. ASSUME NEW t \in Staff, NEW o \in DirectOrders,
               \/ \E x \in DirectPayments, mode \in {"direct", "multicall"} :
                    BeginDirectPayment(t, o, x, mode)
               \/ BeginTaskVerification(t, o) \/ BeginFinalization(t, o)
        PROVE  CallStep(t)
    BY <1>2, <1>9, Zenon DEF BeginDirectPayment, BeginTaskVerification, BeginFinalization
  <1>10. ASSUME NEW o \in DirectOrders,
                \/ CreateOrder(o) \/ ClaimTask(o) \/ TaskLeaseEnds(o) \/ CompleteTask(o)
                \/ \E x \in DirectPayments : PayDirectly(x) \/ RefusePayment(o, x)
         PROVE  OutdatedAtWork'
    BY <1>10, NoneMoves
    DEF PayDirectly, CreateOrder, ClaimTask, TaskLeaseEnds, CompleteTask, RefusePayment
  <1>11. ASSUME NEW x \in DirectPayments, PayDirectly(x)
         PROVE  OutdatedAtWork'
    BY <1>11, NoneMoves DEF PayDirectly
  <1> QED
    BY <1>1, <1>6, <1>7, <1>8, <1>9, <1>10, <1>11 DEF DirectNext

LEMMA FactoryCalls ==
  ASSUME OutdatedAtWork, FactoryTypeOK, FactoryNext
  PROVE  OutdatedAtWork'
  <1>1. ASSUME NEW t \in Staff, CallStep(t) PROVE OutdatedAtWork'
    BY <1>1, OneMoves DEF FactoryTypeOK
  <1>2. CASE CreateFactoryRequest \/ RunAutonomousGovernance \/ StoreFactoryReview
             \/ StoreSandboxReview \/ StoreSimulationReview
    BY <1>2, NoneMoves
    DEF CreateFactoryRequest, RunAutonomousGovernance, StoreFactoryReview, StoreSandboxReview,
        StoreSimulationReview, StoreReview
  <1>3. ASSUME NEW t \in Staff,
               \/ BeginFactoryApproval(t) \/ BeginSandboxApproval(t) \/ BeginSimulationApproval(t)
               \/ BeginPromotion(t) \/ BeginFactoryReview(t) \/ BeginManualApproval(t)
               \/ BeginSandboxReview(t) \/ BeginSimulationReview(t) \/ BeginBlockedGeneration(t)
        PROVE  CallStep(t)
    BY <1>3, DecidesMoves, Zenon
    DEF BeginFactoryApproval, BeginSandboxApproval, BeginSimulationApproval, BeginApproval,
        BeginPromotion, BeginFactoryReview, BeginManualApproval, BeginSandboxReview,
        BeginSimulationReview, BeginBlockedGeneration
  <1>4. ASSUME NEW t \in Staff, BeginGeneration(t)
        PROVE  CallStep(t)
    BY <1>4, Zenon DEF BeginGeneration, CallStep
  <1>5. ASSUME NEW t \in Staff,
               \/ Promote(t) \/ WriteFactoryReview(t)
               \/ WriteManualApproval(t) \/ WriteSandboxReview(t) \/ WriteSimulationReview(t)
               \/ BlockGeneration(t) \/ GenerateAgent(t) \/ EndGeneration(t)
        PROVE  CallStep(t)
    BY <1>5, Zenon
    DEF Promote, WriteFactoryReview, WriteManualApproval,
        WriteSandboxReview, WriteSimulationReview, BlockGeneration, GenerateAgent, EndGeneration,
        CallStep
  <1>6. ASSUME NEW t \in Staff, StoreApproval(t) \/ RefuseAgent(t) \/ FactoryCallDies(t)
        PROVE  CallStep(t)
    BY <1>6, Zenon DEF StoreApproval, RefuseAgent, FactoryCallDies, CallStep
  <1>7. ASSUME NEW t \in Staff, StoreSimulationApproval(t)
        PROVE  CallStep(t)
    <2>1. desk'[t].task = "promote" /\ outdated' = outdated
      BY <1>7 DEF StoreSimulationApproval, FactoryTypeOK, FactoryWork
    <2>2. \A u \in Staff : u # t => desk'[u] = desk[u]
      BY <1>7 DEF StoreSimulationApproval, FactoryTypeOK, FactoryWork
    <2> QED
      BY <2>1, <2>2, NoWorkTask DEF CallStep, Moves
  <1> QED
    BY <1>1, <1>2, <1>3, <1>4, <1>5, <1>6, <1>7, Zenon DEF FactoryNext

LEMMA AgentsCalls ==
  ASSUME OutdatedAtWork, AgentsTypeOK, AgentsNext
  PROVE  OutdatedAtWork'
  <1>1. ASSUME NEW t \in Staff, CallStep(t) PROVE OutdatedAtWork'
    BY <1>1, OneMoves DEF AgentsTypeOK
  <1>2. CASE GenerateAgentRow \/ RegisterAgentRow \/ ApproveActivation
    BY <1>2, NoneMoves, Zenon DEF GenerateAgentRow, RegisterAgentRow, ApproveActivation, callVars
  <1>3. CASE \/ ManuallyActivate \/ ThrottleAgent \/ ContainAgent \/ ReactivateAgent
             \/ DisableSellerAgent \/ ReconcileUnapproved
             \/ ReportRuntimeStatus \/ WriteRegistry
             \/ ApproveSeller \/ ActivateParent \/ RejectSeller \/ GovernSeller \/ ApplySellerRisk
    BY <1>3, NoneMoves, Zenon
    DEF ManuallyActivate, ThrottleAgent, ContainAgent, ReactivateAgent, DisableSellerAgent,
        ReconcileUnapproved, ReportRuntimeStatus, WriteRegistry, ApproveSeller, ActivateParent,
        RejectSeller, GovernSeller, ApplySellerRisk
  <1>4. ASSUME NEW t \in Staff,
               \/ BeginCapabilityReview(t) \/ BeginActivationReview(t) \/ BeginProbe(t)
               \/ BeginCapacity(t)
        PROVE  CallStep(t)
    BY <1>4, DecidesMoves, Zenon
    DEF BeginCapabilityReview, BeginActivationReview, BeginProbe, BeginCapacity
  <1>5. ASSUME NEW t \in Staff,
               \/ BeginWarning(t) \/ Activate(t) \/ WriteActivationReview(t) \/ WriteWarning(t)
               \/ WriteProbe(t) \/ WriteFreeze(t) \/ WriteThaw(t) \/ AgentCallDies(t)
        PROVE  CallStep(t)
    BY <1>5, Zenon
    DEF BeginWarning, Activate, WriteActivationReview, WriteWarning, WriteProbe, WriteFreeze,
        WriteThaw, AgentCallDies, CallStep
  <1>6. ASSUME NEW t \in Staff, ApproveCapability(t)
        PROVE  CallStep(t)
    <2>1. desk'[t].task = "activate" /\ outdated' = outdated
      BY <1>6 DEF ApproveCapability, AgentsTypeOK
    <2>2. \A u \in Staff : u # t => desk'[u] = desk[u]
      BY <1>6 DEF ApproveCapability, AgentsTypeOK
    <2> QED
      BY <2>1, <2>2, NoWorkTask DEF CallStep, Moves
  <1> QED
    BY <1>1, <1>2, <1>3, <1>4, <1>5, <1>6, Zenon DEF AgentsNext

LEMMA AccountsCalls ==
  ASSUME OutdatedAtWork, AccountsTypeOK, AccountsNext
  PROVE  OutdatedAtWork'
  <1>1. ASSUME NEW t \in Staff, CallStep(t) PROVE OutdatedAtWork'
    BY <1>1, OneMoves DEF AccountsTypeOK
  <1>2. CASE \/ SetCapability \/ ActivateParentAccount \/ RejectAccount \/ RequestRecovery
             \/ \E p \in {"email", "wallet"} : Proves(p)
    BY <1>2, NoneMoves, Zenon
    DEF SetCapability, ActivateParentAccount, RejectAccount, RequestRecovery, Proves
  <1>3. ASSUME NEW t \in Staff,
               \/ BeginAccountApproval(t) \/ BeginOnboarding(t) \/ BeginLapse(t)
               \/ BeginAccountMove(t) \/ BeginDecision(t)
        PROVE  CallStep(t)
    BY <1>3, DecidesMoves, Zenon
    DEF BeginAccountApproval, BeginOnboarding, BeginLapse, BeginAccountMove, BeginDecision
  <1>4. ASSUME NEW t \in Staff,
               \/ BeginRegistration(t) \/ RegisterCapability(t)
               \/ BeginRiskEvent(t) \/ ApproveAccount(t) \/ Lapse(t) \/ RiskEvent(t)
               \/ MoveAccount(t) \/ MarkRecovery(t) \/ DecisionDies(t)
        PROVE  CallStep(t)
    BY <1>4, Zenon
    DEF BeginRegistration, RegisterCapability, BeginRiskEvent, ApproveAccount, Lapse, RiskEvent,
        MoveAccount, MarkRecovery, DecisionDies, CallStep
  <1>5. ASSUME NEW t \in Staff, BeginRecovery(t)
        PROVE  CallStep(t)
    <2>1. CASE Leaves(t)
      BY <2>1 DEF CallStep
    <2>2. CASE desk' = [desk EXCEPT ![t] = Work("move", "watchlist", 1)] /\ outdated' = outdated
      <3> DEFINE next == Work("move", "watchlist", 1)
      <3>1. TurnsTo(t, next)
        BY <2>2 DEF TurnsTo
      <3>2. next.task # "none"
        BY DEF Work
      <3> HIDE DEF next
      <3> QED
        BY <2>2, <3>1, <3>2, NextTask
    <2> QED
      BY <1>5, <2>1, <2>2 DEF BeginRecovery
  <1> QED
    BY <1>1, <1>2, <1>3, <1>4, <1>5, Zenon DEF AccountsNext

LEMMA ThreatsCalls ==
  ASSUME OutdatedAtWork, \E Works : desk \in [Staff -> Works], ThreatsNext
  PROVE  OutdatedAtWork'
  <1>1. ASSUME NEW t \in Staff, CallStep(t) PROVE OutdatedAtWork'
    BY <1>1, OneMoves
  <1>2. ASSUME NEW t \in Staff,
               \/ BeginForecast(t) \/ BeginReinforcement(t) \/ BeginPropagation(t)
               \/ BeginThreatDecay(t)
        PROVE  CallStep(t)
    BY <1>2, DecidesMoves, Zenon
    DEF BeginForecast, BeginReinforcement, BeginPropagation, BeginThreatDecay
  <1>3. ASSUME NEW t \in Staff,
               StoreForecast(t) \/ Reinforce(t) \/ Propagate(t) \/ DecayThreats(t)
        PROVE  CallStep(t)
    BY <1>3, Zenon DEF StoreForecast, Reinforce, Propagate, DecayThreats, CallStep
  <1> QED
    BY <1>1, <1>2, <1>3, Zenon DEF ThreatsNext

LEMMA ResponsesCalls ==
  ASSUME OutdatedAtWork, CallsTyped(ResponseWork), ResponsesNext
  PROVE  OutdatedAtWork'
  <1>1. ASSUME NEW t \in Staff, CallStep(t) PROVE OutdatedAtWork'
    BY <1>1, OneMoves DEF CallsTyped
  <1>2. ASSUME NEW t \in Staff,
               BeginTurn(t) \/ Forgo(t) \/ RecordApplied(t) \/ TurnDies(t)
        PROVE  CallStep(t)
    BY <1>2, Zenon DEF BeginTurn, Forgo, RecordApplied, TurnDies, CallStep
  <1>3. ASSUME NEW t \in Staff, Authorize(t)
        PROVE  CallStep(t)
    <2>1. PICK a \in Responses : \E mode : desk' = [desk EXCEPT ![t] = Work("respond", a, Budget(mode))]
      BY <1>3 DEF Authorize
    <2>0. PICK mode : desk' = [desk EXCEPT ![t] = Work("respond", a, Budget(mode))]
      BY <2>1
    <2> DEFINE next == Work("respond", a, Budget(mode))
    <2>2. TurnsTo(t, next) /\ outdated' = outdated
      BY <1>3, <2>0 DEF Authorize, TurnsTo
    <2>3. next.task # "none"
      BY DEF Work
    <2> HIDE DEF next
    <2> QED
      BY <2>2, <2>3, NextTask
  <1>4. ASSUME NEW t \in Staff, Respond(t)
        PROVE  CallStep(t)
    <2>1. desk'[t].task = "record" /\ outdated' = outdated
      BY <1>4 DEF Respond, CallsTyped, ResponseWork
    <2>2. \A u \in Staff : u # t => desk'[u] = desk[u]
      BY <1>4 DEF Respond, CallsTyped, ResponseWork
    <2> QED
      BY <2>1, <2>2, NoWorkTask DEF CallStep, Moves
  <1>5. ASSUME NEW s \in Sellers, FootingMoves(s) \/ \E a \in Responses : Expires(s, a)
        PROVE  OutdatedAtWork'
    BY <1>5, NoneMoves, Zenon DEF FootingMoves, Expires
  <1> QED
    BY <1>1, <1>2, <1>3, <1>4, <1>5, Zenon DEF ResponsesNext

LEMMA AdaptationCalls ==
  ASSUME OutdatedAtWork, AdaptationTypeOK, AdaptationNext
  PROVE  OutdatedAtWork'
  <1>1. ASSUME NEW t \in Staff, CallStep(t) PROVE OutdatedAtWork'
    BY <1>1, OneMoves DEF AdaptationTypeOK
  <1>2. CASE \/ ProposeAdaptation \/ StoreAdaptationReview \/ StoreRollbackReview
             \/ RollBack \/ ControlExposure \/ StartMonitor \/ EvaluateMonitor
    BY <1>2, NoneMoves, Zenon
    DEF ProposeAdaptation, StoreAdaptationReview, StoreRollbackReview, RollBack, ControlExposure,
        StartMonitor, EvaluateMonitor
  <1>3. CASE RestartServer
    BY <1>3 DEF RestartServer, OutdatedAtWork
  <1>4. ASSUME NEW t \in Staff,
               \/ BeginAdaptationApproval(t) \/ BeginAdaptationRejection(t)
               \/ BeginApplication(t) \/ BeginCycle(t)
        PROVE  CallStep(t)
    BY <1>4, DecidesMoves, Zenon
    DEF BeginAdaptationApproval, BeginAdaptationRejection, BeginApplication, BeginCycle
  <1>5. ASSUME NEW t \in Staff,
               \/ WriteAdaptationDecision(t, "approve", "approved")
               \/ WriteAdaptationDecision(t, "reject", "rejected")
               \/ Apply(t) \/ StoreRollback(t) \/ StoreProposal(t) \/ AdaptationCallDies(t)
        PROVE  CallStep(t)
    BY <1>5, Zenon
    DEF WriteAdaptationDecision, Apply, StoreRollback, StoreProposal, AdaptationCallDies, CallStep
  <1>6. ASSUME NEW t \in Staff, NEW kind, NEW left, kind # "none",
               desk' = [desk EXCEPT ![t] = Work(kind, "none", left)], outdated' = outdated
        PROVE  CallStep(t)
    <2> DEFINE next == Work(kind, "none", left)
    <2>1. TurnsTo(t, next)
      BY <1>6 DEF TurnsTo
    <2>2. next.task # "none"
      BY <1>6 DEF Work
    <2> HIDE DEF next
    <2> QED
      BY <1>6, <2>1, <2>2, NextTask
  <1>7. ASSUME NEW t \in Staff, ReadLimits(t) \/ EvaluateInCycle(t) \/ CheckProposals(t)
        PROVE  CallStep(t)
    <2>1. CASE ReadLimits(t)
      BY <1>6, <2>1 DEF ReadLimits
    <2>2. CASE Leaves(t)
      BY <2>2 DEF CallStep
    <2>3. ASSUME NEW kind \in {"check", "propose"}, CycleGoesOn(t, kind) PROVE CallStep(t)
      BY <1>6, <2>3 DEF CycleGoesOn
    <2>4. CASE EvaluateInCycle(t) \/ CheckProposals(t)
      BY <2>2, <2>3, <2>4 DEF EvaluateInCycle, CheckProposals
    <2> QED
      BY <1>7, <2>1, <2>4
  <1> QED
    BY <1>1, <1>2, <1>3, <1>4, <1>5, <1>7, Zenon DEF AdaptationNext

LEMMA PartnersCalls ==
  ASSUME OutdatedAtWork, PartnersTypeOK, PartnersNext
  PROVE  OutdatedAtWork'
  <1>1. ASSUME NEW t \in Staff, CallStep(t) PROVE OutdatedAtWork'
    BY <1>1, OneMoves DEF PartnersTypeOK
  <1>2. CASE RefreshOpportunities \/ RefreshLinks \/ RefreshPermissions
    BY <1>2, NoneMoves, Zenon DEF RefreshOpportunities, RefreshLinks, RefreshPermissions
  <1>3. ASSUME NEW d \in Merchants,
               \/ FindMerchant(d) \/ VerifyManifest(d) \/ ProofExpires(d)
               \/ \E m \in Manifests \cup {NoManifest} : PublishManifest(d, m)
        PROVE  OutdatedAtWork'
    BY <1>3, NoneMoves, Zenon DEF FindMerchant, VerifyManifest, ProofExpires, PublishManifest
  <1>4. ASSUME NEW p \in Proposals, ProposalExpires(p) PROVE OutdatedAtWork'
    BY <1>4, NoneMoves, Zenon DEF ProposalExpires
  <1>5. ASSUME NEW p \in Proposals, RecoverDelivery(p) PROVE OutdatedAtWork'
    BY <1>5 DEF RecoverDelivery, OutdatedAtWork, Outdates, Busy
  <1>6. ASSUME NEW t \in Staff,
               \/ BeginPreparation(t)
               \/ \E p \in Proposals :
                    \/ SelectProposal(t, p)
                    \/ \E decision \in PartnerDecisions : BeginResponse(t, p, decision)
        PROVE  CallStep(t)
    BY <1>6, DecidesMoves, Zenon DEF BeginPreparation, SelectProposal, BeginResponse
  <1>7. ASSUME NEW t \in Staff,
               \/ InsertProposals(t) \/ PartnerCallDies(t)
               \/ \E p \in Proposals :
                    ClaimProposal(t, p) \/ FinishDelivery(t, p) \/ LoseLease(t, p) \/ RecordResponse(t, p)
        PROVE  CallStep(t)
    BY <1>7, Zenon
    DEF InsertProposals, PartnerCallDies, ClaimProposal, FinishDelivery, LoseLease,
        RecordResponse, CallStep
  <1>8. ASSUME NEW t \in Staff, SendProposal(t)
        PROVE  CallStep(t)
    <2>1. PICK answer \in PartnerAnswers : desk' = [desk EXCEPT ![t] = Work("finish", answer, 0)]
      BY <1>8 DEF SendProposal
    <2> DEFINE next == Work("finish", answer, 0)
    <2>2. TurnsTo(t, next) /\ outdated' = outdated
      BY <1>8, <2>1 DEF SendProposal, TurnsTo
    <2>3. next.task # "none"
      BY DEF Work
    <2> HIDE DEF next
    <2> QED
      BY <2>2, <2>3, NextTask
  <1>9. ASSUME NEW t \in Staff, NEW p \in Proposals, CheckLease(t, p)
        PROVE  CallStep(t)
    <2>1. desk' = [desk EXCEPT ![t].task = "record"] /\ outdated' = outdated
      BY <1>9 DEF CheckLease
    <2>2. desk'[t].task = "record"
      BY <2>1 DEF PartnersTypeOK
    <2>3. \A u \in Staff : u # t => desk'[u] = desk[u]
      BY <2>1 DEF PartnersTypeOK
    <2> QED
      BY <2>1, <2>2, <2>3, NoWorkTask DEF CallStep, Moves
  <1> QED
    BY <1>1, <1>2, <1>3, <1>4, <1>5, <1>6, <1>7, <1>8, <1>9, Zenon DEF PartnersNext

LEMMA MemoryCalls ==
  ASSUME OutdatedAtWork, CallsTyped(MemoryWork), MemoryNext
  PROVE  OutdatedAtWork'
  <1>1. ASSUME NEW t \in Staff, CallStep(t) PROVE OutdatedAtWork'
    BY <1>1, OneMoves DEF CallsTyped
  <1>2. ASSUME NEW r \in Rows, ArchiveMemory(r) PROVE OutdatedAtWork'
    BY <1>2, NoneMoves, Zenon DEF ArchiveMemory
  <1>3. ASSUME NEW t \in Staff,
               \/ FindSimilar(t) \/ BeginLearningCycle(t)
               \/ \E r \in Rows :
                    \/ BeginObservation(t, r) \/ BeginFalsification(t, r) \/ BeginDecay(t, r)
                    \/ \E pushed \in BOOLEAN : BeginPromotionOf(t, r, pushed)
        PROVE  CallStep(t)
    BY <1>3, DecidesMoves, Zenon
    DEF FindSimilar, BeginLearningCycle, BeginObservation, BeginFalsification, ReadMemory,
        BeginDecay, BeginPromotionOf
  <1>4. ASSUME NEW t \in Staff,
               \/ StoreMemory(t) \/ LearningCallDies(t)
               \/ \E r \in Rows :
                    \/ WriteObservation(t, r) \/ WriteFalsification(t, r)
                    \/ ArchiveRefuted(t, r) \/ WriteDecay(t, r) \/ StoreKnowledge(t, r)
        PROVE  CallStep(t)
    BY <1>4, Zenon
    DEF StoreMemory, LearningCallDies, WriteObservation, WriteFalsification,
        ArchiveRefuted, WriteDecay, StoreKnowledge, CallStep
  <1>5. ASSUME NEW t \in Staff, DecayInCycle(t)
        PROVE  CallStep(t)
    <2>1. CASE Leaves(t)
      BY <2>1 DEF CallStep
    <2>2. CASE desk' = [desk EXCEPT ![t].task = "decay"] /\ outdated' = outdated \ {t}
      <3>1. desk'[t].task = "decay"
        BY <2>2 DEF CallsTyped, MemoryWork
      <3>2. \A u \in Staff : u # t => desk'[u] = desk[u]
        BY <2>2 DEF CallsTyped, MemoryWork
      <3> QED
        BY <2>2, <3>1, <3>2, NoWorkTask DEF CallStep, Moves
    <2> QED
      BY <1>5, <2>1, <2>2 DEF DecayInCycle
  <1> QED
    BY <1>1, <1>2, <1>3, <1>4, <1>5, Zenon DEF MemoryNext

LEMMA HypothesesCalls ==
  ASSUME OutdatedAtWork, CallsTyped(HypothesesWork), HypothesesNext
  PROVE  OutdatedAtWork'
  <1>1. ASSUME NEW t \in Staff, CallStep(t) PROVE OutdatedAtWork'
    BY <1>1, OneMoves DEF CallsTyped
  <1>2. ASSUME NEW e \in Experiments, NEW r \in Rows, PlanExperiment(e, r) PROVE OutdatedAtWork'
    BY <1>2, NoneMoves, Zenon DEF PlanExperiment
  <1>3. ASSUME NEW t \in Staff,
               \/ FindHypothesis(t)
               \/ \E e \in Experiments : BeginStart(t, e) \/ BeginCompletion(t, e)
               \/ \E r \in Rows, result \in {"succeeded", "failed"} : BeginEvaluation(t, r, result)
        PROVE  CallStep(t)
    BY <1>3, DecidesMoves, Zenon DEF FindHypothesis, BeginStart, BeginCompletion, BeginEvaluation
  <1>4. ASSUME NEW t \in Staff,
               \/ StoreHypothesis(t) \/ LearningCallDies(t) \/ StartExperiment(t)
               \/ CompleteExperiment(t)
               \/ \E r \in Rows : WriteEvaluation(t, r)
        PROVE  CallStep(t)
    BY <1>4, Zenon
    DEF StoreHypothesis, LearningCallDies, StartExperiment, CompleteExperiment, WriteEvaluation,
        CallStep
  <1>5. ASSUME NEW t \in Staff, NEW r \in Rows, ReadHypothesis(t, r)
        PROVE  CallStep(t)
    <2>1. desk' = [desk EXCEPT ![t].task = "judge"] /\ outdated' = outdated \ {t}
      BY <1>5 DEF ReadHypothesis
    <2>2. desk'[t].task = "judge"
      BY <2>1 DEF CallsTyped, HypothesesWork
    <2>3. \A u \in Staff : u # t => desk'[u] = desk[u]
      BY <2>1 DEF CallsTyped, HypothesesWork
    <2> QED
      BY <2>1, <2>2, <2>3, NoWorkTask DEF CallStep, Moves
  <1> QED
    BY <1>1, <1>2, <1>3, <1>4, <1>5, Zenon DEF HypothesesNext

LEMMA RulingsCalls ==
  ASSUME OutdatedAtWork, CallsTyped(RulingWork), QueueNext \/ SupplyNext
  PROVE  OutdatedAtWork'
  <1>1. ASSUME NEW t \in Staff, CallStep(t) PROVE OutdatedAtWork'
    BY <1>1, OneMoves DEF CallsTyped
  <1>2. CASE \/ CountContributions \/ \E d \in Rulings : Overdue(d)
             \/ QueueForConnector \/ ConnectorClaims \/ ConnectorExpires \/ ConnectorAnswers
    BY <1>2, NoneMoves, Zenon
    DEF CountContributions, Overdue, QueueForConnector, ConnectorClaims, ConnectorExpires,
        ConnectorAnswers, TaskBecomes
  <1>3. ASSUME NEW t \in Staff,
               \/ BeginEnqueue(t) \/ BeginReview(t) \/ BeginSupply(t) \/ InstructSupply(t)
               \/ BeginVerification(t)
        PROVE  CallStep(t)
    BY <1>3, DecidesMoves, Zenon
    DEF BeginEnqueue, BeginReview, BeginSupply, InstructSupply, BeginVerification
  <1>4. ASSUME NEW t \in Staff,
               EnqueueDecision(t) \/ FailSession(t) \/ SupplyDies(t) \/ VerifySession(t)
        PROVE  CallStep(t)
    BY <1>4, Zenon DEF EnqueueDecision, FailSession, SupplyDies, VerifySession, CallStep
  <1>5. ASSUME NEW t \in Staff, Review(t) \/ MarkTask(t)
        PROVE  CallStep(t)
    <2>1. CASE Leaves(t)
      BY <2>1 DEF CallStep
    <2>2. CASE Rewrites(t)
      <3>1. TurnsTo(t, NoWork)
        BY <2>2 DEF Rewrites, TurnsTo
      <3>2. outdated' \subseteq outdated \cup Busy /\ t \notin outdated'
        BY <2>2 DEF Rewrites
      <3> QED
        BY <3>1, <3>2 DEF CallStep, PassesTo
    <2>3. Review(t) => Leaves(t) \/ Rewrites(t)
      BY DEF Review
    <2>4. MarkTask(t) => Leaves(t) \/ Rewrites(t)
      BY DEF MarkTask
    <2> QED
      BY <1>5, <2>1, <2>2, <2>3, <2>4
  <1>6. ASSUME NEW t \in Staff, NEW kind, kind # "none",
               desk' = [desk EXCEPT ![t].task = kind], outdated' = outdated
        PROVE  CallStep(t)
    <2>1. desk'[t].task = kind
      BY <1>6 DEF CallsTyped, RulingWork
    <2>2. \A u \in Staff : u # t => desk'[u] = desk[u]
      BY <1>6 DEF CallsTyped, RulingWork
    <2> QED
      BY <1>6, <2>1, <2>2, NoWorkTask DEF CallStep, Moves
  <1>7. ASSUME NEW t \in Staff, StartSession(t) \/ CompleteSession(t) \/ StoreContribution(t)
        PROVE  CallStep(t)
    BY <1>6, <1>7 DEF StartSession, CompleteSession, StoreContribution, NewSession
  <1>8. ASSUME NEW t \in Staff, VerifyContribution(t)
        PROVE  CallStep(t)
    <2>1. CASE Writes(t, Work("close", "none", 0))
      BY <2>1 DEF CallStep
    <2>2. CASE desk' = [desk EXCEPT ![t].task = "close"] /\ outdated' = outdated
      BY <1>6, <2>2
    <2> QED
      BY <1>8, <2>1, <2>2 DEF VerifyContribution
  <1> QED
    BY <1>1, <1>2, <1>3, <1>4, <1>5, <1>7, <1>8, Zenon DEF QueueNext, SupplyNext

-----------------------------------------------------------------------------
(* How many responses there can be: one more than there were faults, as a   *)
(* turn begins when none about its seller is recorded, and to begin while   *)
(* another call is at work is a fault.                                      *)

\* Two sets of calls that differ in one call at most.
LEMMA OneCallDiffers ==
  ASSUME NEW A \in SUBSET Staff, NEW B \in SUBSET Staff, NEW t \in Staff, A \ {t} = B \ {t}
  PROVE  /\ Cardinality(A) \in Nat /\ Cardinality(B) \in Nat
         /\ Cardinality(A) + (IF t \in B THEN 1 ELSE 0) = Cardinality(B) + (IF t \in A THEN 1 ELSE 0)
  <1>1. IsFiniteSet(A) /\ IsFiniteSet(B)
    BY LearningAssumption, FS_Subset
  <1>2. Cardinality(A) \in Nat /\ Cardinality(B) \in Nat
    BY <1>1, FS_CardinalityType
  <1>3. CASE t \in A /\ t \in B
    <2>1. A = B
      BY <1>3
    <2> QED
      BY <1>2, <1>3, <2>1
  <1>4. CASE t \notin A /\ t \notin B
    <2>1. A = B
      BY <1>4
    <2> QED
      BY <1>2, <1>4, <2>1
  <1>5. CASE t \notin A /\ t \in B
    <2>1. B = A \cup {t}
      BY <1>5
    <2>2. Cardinality(B) = Cardinality(A) + 1
      BY <1>1, <1>5, <2>1, FS_AddElement
    <2> QED
      BY <1>2, <1>5, <2>2
  <1>6. CASE t \in A /\ t \notin B
    <2>1. A = B \cup {t}
      BY <1>6
    <2>2. Cardinality(A) = Cardinality(B) + 1
      BY <1>1, <1>6, <2>1, FS_AddElement
    <2> QED
      BY <1>2, <1>6, <2>2
  <1> QED
    BY <1>3, <1>4, <1>5, <1>6

\* The calls that are about to record a response, and those that may yet make one.
Records(t, s, a) == desk[t].task = "record" /\ desk[t].outcome = a /\ s \in about[t]
Recorders(s, a) == {t \in Staff : Records(t, s, a)}

MayMake(t, s) == desk[t].task \in {"turn", "respond"} /\ s \in about[t]
Makers(s) == {t \in Staff : MayMake(t, s)}

BoundedFor(s, a) ==
  /\ made[s][a] \in Nat
  /\ taken[s][a] + Cardinality(Recorders(s, a)) <= made[s][a]
  /\ made[s][a] <= taken[s][a] + Cardinality(Recorders(s, a)) + faults
  /\ made[s][a] + Cardinality(Makers(s)) <= faults + 1

ResponsesFew == \A s \in Sellers, a \in Responses : BoundedFor(s, a)

LEMMA CallsMove ==
  ASSUME NEW t \in Staff, Others(t), NEW s, NEW a
  PROVE  /\ Cardinality(Recorders(s, a)) \in Nat /\ Cardinality(Recorders(s, a)') \in Nat
         /\ Cardinality(Makers(s)) \in Nat /\ Cardinality(Makers(s)') \in Nat
         /\ Cardinality(Recorders(s, a)) + (IF Records(t, s, a)' THEN 1 ELSE 0)
            = Cardinality(Recorders(s, a)') + (IF Records(t, s, a) THEN 1 ELSE 0)
         /\ Cardinality(Makers(s)) + (IF MayMake(t, s)' THEN 1 ELSE 0)
            = Cardinality(Makers(s)') + (IF MayMake(t, s) THEN 1 ELSE 0)
  <1>1. /\ Recorders(s, a) \in SUBSET Staff /\ Recorders(s, a)' \in SUBSET Staff
        /\ Makers(s) \in SUBSET Staff /\ Makers(s)' \in SUBSET Staff
    BY DEF Recorders, Makers
  <1>2. /\ t \in Recorders(s, a) <=> Records(t, s, a)
        /\ t \in Recorders(s, a)' <=> Records(t, s, a)'
        /\ t \in Makers(s) <=> MayMake(t, s)
        /\ t \in Makers(s)' <=> MayMake(t, s)'
    BY DEF Recorders, Makers
  <1>3. \A u \in Staff : u # t => /\ Records(u, s, a)' <=> Records(u, s, a)
                                  /\ MayMake(u, s)' <=> MayMake(u, s)
    BY DEF Others, Records, MayMake
  <1>4. /\ Recorders(s, a) \ {t} = Recorders(s, a)' \ {t}
        /\ Makers(s) \ {t} = Makers(s)' \ {t}
    BY <1>3 DEF Recorders, Makers
  <1>5. /\ Cardinality(Recorders(s, a)) \in Nat /\ Cardinality(Recorders(s, a)') \in Nat
        /\ Cardinality(Recorders(s, a)) + (IF t \in Recorders(s, a)' THEN 1 ELSE 0)
            = Cardinality(Recorders(s, a)') + (IF t \in Recorders(s, a) THEN 1 ELSE 0)
    BY <1>1, <1>4, OneCallDiffers
  <1>6. /\ Cardinality(Makers(s)) \in Nat /\ Cardinality(Makers(s)') \in Nat
        /\ Cardinality(Makers(s)) + (IF t \in Makers(s)' THEN 1 ELSE 0)
            = Cardinality(Makers(s)') + (IF t \in Makers(s) THEN 1 ELSE 0)
    BY <1>1, <1>4, OneCallDiffers
  <1> QED
    BY <1>2, <1>5, <1>6, Zenon

LEMMA FewStart == ResponsesInit => ResponsesFew
  <1> SUFFICES ASSUME ResponsesInit, NEW s \in Sellers, NEW a \in Responses
               PROVE  BoundedFor(s, a)
    BY DEF ResponsesFew
  <1>1. \A t \in Staff : desk[t].task = "none"
    BY NoWorkTask DEF ResponsesInit, CallsInit
  <1>2. Recorders(s, a) = {} /\ Makers(s) = {}
    BY <1>1 DEF Recorders, Makers, Records, MayMake
  <1>3. Cardinality(Recorders(s, a)) = 0 /\ Cardinality(Makers(s)) = 0
    BY <1>2, FS_EmptySet
  <1>4. taken[s][a] = 0 /\ made[s][a] = 0 /\ faults = 0
    BY DEF ResponsesInit, NoResponses
  <1> QED
    BY <1>3, <1>4 DEF BoundedFor

LEMMA FewTyped ==
  ASSUME ResponsesInv, ResponsesFew
  PROVE  \A s \in Sellers, a \in Responses : {taken[s][a], made[s][a]} \subseteq 0 .. MaxFaults + 1
  <1> SUFFICES ASSUME NEW s \in Sellers, NEW a \in Responses
               PROVE  {taken[s][a], made[s][a]} \subseteq 0 .. MaxFaults + 1
    OBVIOUS
  <1>1. Recorders(s, a) \in SUBSET Staff /\ Makers(s) \in SUBSET Staff
    BY DEF Recorders, Makers
  <1>2. Cardinality(Recorders(s, a)) \in Nat /\ Cardinality(Makers(s)) \in Nat
    BY <1>1, LearningAssumption, FS_Subset, FS_CardinalityType
  <1>3. taken[s][a] \in Nat
    BY DEF ResponsesInv, BooksTyped, Tally
  <1>4. faults \in Nat /\ MaxFaults \in Nat /\ faults <= MaxFaults
    BY FaultsAssumption DEF ResponsesInv, FaultsTyped
  <1>5. BoundedFor(s, a)
    BY DEF ResponsesFew
  <1> QED
    BY <1>2, <1>3, <1>4, <1>5 DEF BoundedFor

\* What the books come to after a step of one call.
LEMMA FewAfter ==
  ASSUME ResponsesInv, ResponsesFew, FaultsTyped', NEW t \in Staff, Others(t),
         NEW s \in Sellers, NEW a \in Responses,
         made'[s][a] \in Nat, taken'[s][a] \in Nat,
         faults <= faults',
         \* a response is made by a maker, which then records it
         made'[s][a] - made[s][a] \in {0, 1},
         Records(t, s, a)' => made'[s][a] = made[s][a] + 1 /\ ~Records(t, s, a),
         made'[s][a] = made[s][a] + 1 => MayMake(t, s) /\ ~MayMake(t, s)' /\ Records(t, s, a)',
         \* and a recorder ends
         taken'[s][a] - taken[s][a] \in {0, 1},
         taken'[s][a] = taken[s][a] + 1 => Records(t, s, a),
         Records(t, s, a) => taken'[s][a] = taken[s][a] + 1 \/ faults' = faults + 1,
         \* one that begins finds nothing recorded, unless others are at work
         MayMake(t, s)' =>
           \/ MayMake(t, s)
           \/ faults' = faults + 1
           \/ taken[s][a] = 0 /\ Recorders(s, a) = {} /\ Makers(s) = {}
  PROVE  BoundedFor(s, a)'
  <1>1. BoundedFor(s, a) /\ taken[s][a] \in Nat
    BY DEF ResponsesFew, ResponsesInv, BooksTyped, Tally
  <1>2. faults \in Nat /\ faults' \in Nat
    BY FaultsAssumption DEF ResponsesInv, FaultsTyped
  <1> DEFINE r == Cardinality(Recorders(s, a))
             q == Cardinality(Recorders(s, a)')
             m == Cardinality(Makers(s))
             k == Cardinality(Makers(s)')
  <1>3. /\ r \in Nat /\ q \in Nat /\ m \in Nat /\ k \in Nat
        /\ r + (IF Records(t, s, a)' THEN 1 ELSE 0) = q + (IF Records(t, s, a) THEN 1 ELSE 0)
        /\ m + (IF MayMake(t, s)' THEN 1 ELSE 0) = k + (IF MayMake(t, s) THEN 1 ELSE 0)
    BY CallsMove
  <1>4. Recorders(s, a) = {} /\ Makers(s) = {} => r = 0 /\ m = 0
    BY FS_EmptySet
  <1>5. /\ made[s][a] \in Nat /\ taken[s][a] + r <= made[s][a]
        /\ made[s][a] <= taken[s][a] + r + faults
        /\ made[s][a] + m <= faults + 1
    BY <1>1 DEF BoundedFor
  <1> HIDE DEF r, q, m, k
  <1>6. taken'[s][a] + q <= made'[s][a]
    BY <1>1, <1>3, <1>5
  <1>7. made'[s][a] <= taken'[s][a] + q + faults'
    BY <1>1, <1>2, <1>3, <1>5
  <1>8. made'[s][a] + k <= faults' + 1
    <2>1. CASE made'[s][a] = made[s][a] + 1
      <3>1. k = m - 1
        BY <1>3, <2>1
      <3> QED
        BY <1>2, <1>3, <1>5, <2>1, <3>1
    <2>2. CASE made'[s][a] = made[s][a] /\ ~MayMake(t, s)'
      <3>1. k <= m
        BY <1>3, <2>2
      <3> QED
        BY <1>2, <1>3, <1>5, <2>2, <3>1
    <2>3. CASE made'[s][a] = made[s][a] /\ MayMake(t, s)
      <3>1. k <= m
        BY <1>3, <2>3
      <3> QED
        BY <1>2, <1>3, <1>5, <2>3, <3>1
    <2>4. CASE made'[s][a] = made[s][a] /\ faults' = faults + 1
      <3>1. k <= m + 1
        BY <1>3
      <3> QED
        BY <1>2, <1>3, <1>5, <2>4, <3>1
    <2>5. CASE /\ made'[s][a] = made[s][a]
               /\ taken[s][a] = 0 /\ Recorders(s, a) = {} /\ Makers(s) = {}
      <3>1. r = 0 /\ m = 0
        BY <1>4, <2>5
      <3>2. k <= 1
        BY <1>3, <3>1
      <3> QED
        BY <1>2, <1>3, <1>5, <2>5, <3>1, <3>2
    <2>6. made'[s][a] = made[s][a] + 1 \/ made'[s][a] = made[s][a]
      BY <1>5, SMTT(30)
    <2> QED
      BY <2>1, <2>2, <2>3, <2>4, <2>5, <2>6
  <1> QED
    BY <1>6, <1>7, <1>8 DEF BoundedFor, q, k

LEMMA FewStep ==
  ASSUME ResponsesInv, ResponsesFew, [ResponsesNext]_responseVars
  PROVE  ResponsesFew'
  <1>0. /\ CallsTyped(ResponseWork) /\ BooksTyped /\ FaultsTyped /\ Turns
        /\ FaultsTyped' /\ BooksTyped'
    BY ResponsesStep DEF ResponsesInv
  <1>1. /\ \A s \in Sellers, a \in Responses :
             /\ taken[s][a] \in Nat /\ taken'[s][a] \in Nat
             /\ made[s][a] \in Nat /\ made'[s][a] \in Int
        /\ faults \in Nat /\ faults' \in Nat
    BY <1>0, FaultsAssumption DEF BooksTyped, Tally, FaultsTyped, ResponsesFew, BoundedFor
  <1>2. ASSUME UNCHANGED <<taken, made, desk, about, faults>> PROVE ResponsesFew'
    BY <1>2 DEF ResponsesFew, BoundedFor, Recorders, Makers, Records, MayMake
  <1>3. ASSUME NEW t \in Staff, Leaves(t), about' = [about EXCEPT ![t] = {}]
        PROVE  /\ Others(t)
               /\ \A s \in Sellers, a \in Responses : ~Records(t, s, a)' /\ ~MayMake(t, s)'
    BY <1>0, <1>3, LeavesEffect, NoWorkResponse DEF Others, Records, MayMake, BooksTyped
  <1>4. ASSUME NEW t \in Staff, BeginTurn(t) PROVE ResponsesFew'
    <2>1. PICK s0 \in Sellers : taken[s0] = NoResponses /\ about' = [about EXCEPT ![t] = {s0}]
      BY <1>4 DEF BeginTurn
    <2>2. Takes(t, Work("turn", NoThreatRow, 0)) /\ UNCHANGED <<taken, made>>
      BY <1>4 DEF BeginTurn
    <2> DEFINE work == Work("turn", NoThreatRow, 0)
    <2>3. work \in ResponseWork /\ work.task = "turn"
      BY DEF Work, ResponseWork
    <2> HIDE DEF work
    <2>4. /\ faults <= faults' /\ t \notin Busy /\ desk'[t] = work
          /\ \A u \in Staff : u # t => desk'[u] = desk[u]
      BY <1>0, <2>2, <2>3, TakesEffect DEF work
    <2>5. desk[t].task = "none"
      BY <2>4, IdleCall
    <2>6. Others(t) /\ about'[t] = {s0}
      BY <1>0, <2>1, <2>4 DEF Others, BooksTyped
    <2>7. faults' = faults + 1 \/ \A u \in Staff : desk[u].task = "none"
      BY <2>2, IdleCall DEF Takes, Fault
    <2>8. ASSUME NEW s \in Sellers, NEW a \in Responses
          PROVE  BoundedFor(s, a)'
      <3>1. ~Records(t, s, a) /\ ~Records(t, s, a)'
        BY <2>3, <2>4, <2>5 DEF Records
      <3>2. MayMake(t, s)' => s = s0
        BY <2>6 DEF MayMake
      <3>3. taken[s0][a] = 0
        BY <2>1 DEF NoResponses
      <3>4. (\A u \in Staff : desk[u].task = "none") => Recorders(s, a) = {} /\ Makers(s) = {}
        BY DEF Recorders, Makers, Records, MayMake
      <3>5. /\ made'[s][a] = made[s][a] /\ taken'[s][a] = taken[s][a]
            /\ made[s][a] \in Nat /\ taken[s][a] \in Nat
        BY <1>1, <2>2
      <3>6. MayMake(t, s)' =>
              \/ faults' = faults + 1
              \/ taken[s][a] = 0 /\ Recorders(s, a) = {} /\ Makers(s) = {}
        BY <2>7, <3>2, <3>3, <3>4
      <3>7. /\ made'[s][a] \in Nat /\ taken'[s][a] \in Nat
            /\ made'[s][a] - made[s][a] = 0 /\ taken'[s][a] - taken[s][a] = 0
            /\ made'[s][a] # made[s][a] + 1 /\ taken'[s][a] # taken[s][a] + 1
        BY <3>5
      <3> QED
        BY <1>0, <2>4, <2>6, <3>1, <3>6, <3>7, FewAfter
    <2> QED
      BY <2>8 DEF ResponsesFew
  <1>5. ASSUME NEW t \in Staff, Authorize(t) PROVE ResponsesFew'
    <2>1. /\ desk[t].task = "turn" /\ UNCHANGED <<taken, made, about, faults>>
          /\ \E a, b : desk' = [desk EXCEPT ![t] = Work("respond", a, b)]
      BY <1>5 DEF Authorize
    <2>2. desk'[t].task = "respond" /\ Others(t)
      BY <1>0, <2>1 DEF CallsTyped, Others, Work
    <2>3. ASSUME NEW s \in Sellers, NEW a \in Responses
          PROVE  BoundedFor(s, a)'
      <3>1. ~Records(t, s, a) /\ ~Records(t, s, a)' /\ (MayMake(t, s)' => MayMake(t, s))
        BY <2>1, <2>2 DEF Records, MayMake
      <3>2. /\ made'[s][a] \in Nat /\ taken'[s][a] \in Nat
            /\ made'[s][a] - made[s][a] = 0 /\ taken'[s][a] - taken[s][a] = 0
            /\ made'[s][a] # made[s][a] + 1 /\ taken'[s][a] # taken[s][a] + 1
            /\ faults <= faults'
        BY <1>1, <2>1
      <3> QED
        BY <1>0, <2>2, <3>1, <3>2, FewAfter
    <2> QED
      BY <2>3 DEF ResponsesFew
  <1>6. ASSUME NEW t \in Staff, Forgo(t) PROVE ResponsesFew'
    <2>1. /\ desk[t].task = "turn" /\ Leaves(t) /\ about' = [about EXCEPT ![t] = {}]
          /\ UNCHANGED <<taken, made, faults>>
      BY <1>6 DEF Forgo, responseTables
    <2>2. ASSUME NEW s \in Sellers, NEW a \in Responses
          PROVE  BoundedFor(s, a)'
      <3>1. ~Records(t, s, a) /\ ~Records(t, s, a)' /\ ~MayMake(t, s)' /\ Others(t)
        BY <1>3, <2>1 DEF Records
      <3>2. /\ made'[s][a] \in Nat /\ taken'[s][a] \in Nat
            /\ made'[s][a] - made[s][a] = 0 /\ taken'[s][a] - taken[s][a] = 0
            /\ made'[s][a] # made[s][a] + 1 /\ taken'[s][a] # taken[s][a] + 1
            /\ faults <= faults'
        BY <1>1, <2>1
      <3> QED
        BY <1>0, <3>1, <3>2, FewAfter
    <2> QED
      BY <2>2 DEF ResponsesFew
  <1>7. ASSUME NEW t \in Staff, TurnDies(t) PROVE ResponsesFew'
    <2>1. /\ desk[t].task = "record" /\ Leaves(t) /\ about' = [about EXCEPT ![t] = {}]
          /\ UNCHANGED <<taken, made>> /\ faults' = faults + 1
      BY <1>7 DEF TurnDies, Fault
    <2>2. ASSUME NEW s \in Sellers, NEW a \in Responses
          PROVE  BoundedFor(s, a)'
      <3>1. ~Records(t, s, a)' /\ ~MayMake(t, s)' /\ Others(t)
        BY <1>3, <2>1
      <3>2. /\ made'[s][a] \in Nat /\ taken'[s][a] \in Nat
            /\ made'[s][a] - made[s][a] = 0 /\ taken'[s][a] - taken[s][a] = 0
            /\ made'[s][a] # made[s][a] + 1 /\ taken'[s][a] # taken[s][a] + 1
            /\ faults <= faults'
        BY <1>1, <2>1
      <3> QED
        BY <1>0, <2>1, <3>1, <3>2, FewAfter
    <2> QED
      BY <2>2 DEF ResponsesFew
  <1>8. ASSUME NEW t \in Staff, RecordApplied(t) PROVE ResponsesFew'
    <2>1. /\ desk[t].task = "record" /\ Leaves(t) /\ about' = [about EXCEPT ![t] = {}]
          /\ UNCHANGED <<made, faults>>
      BY <1>8 DEF RecordApplied
    <2>2. PICK s0 \in Sellers : about[t] = {s0}
      BY <1>0, <2>1 DEF Turns
    <2> DEFINE b == desk[t].outcome
    <2>3. /\ b \in Responses
          /\ taken' = [taken EXCEPT ![s0] = [taken[s0] EXCEPT ![b] = @ + 1]]
      BY <1>0, <1>8, <2>1, <2>2 DEF RecordApplied, Turns
    <2>4. ASSUME NEW s \in Sellers, NEW a \in Responses
          PROVE  BoundedFor(s, a)'
      <3>1. ~Records(t, s, a)' /\ ~MayMake(t, s)' /\ Others(t)
        BY <1>3, <2>1
      <3>2. Records(t, s, a) <=> s = s0 /\ a = b
        BY <2>1, <2>2 DEF Records
      <3>3. taken'[s][a] = IF s = s0 /\ a = b THEN taken[s][a] + 1 ELSE taken[s][a]
        <4>1. taken \in [Sellers -> [Responses -> Nat]]
          BY <1>0 DEF BooksTyped, Tally
        <4> HIDE DEF b
        <4> QED
          BY <2>3, <4>1
      <3>4. /\ made'[s][a] \in Nat /\ taken'[s][a] \in Nat
            /\ made'[s][a] - made[s][a] = 0 /\ taken'[s][a] - taken[s][a] \in {0, 1}
            /\ made'[s][a] # made[s][a] + 1
            /\ taken'[s][a] = taken[s][a] + 1 <=> Records(t, s, a)
            /\ faults <= faults'
        BY <1>1, <2>1, <3>2, <3>3
      <3> QED
        BY <1>0, <3>1, <3>4, FewAfter
    <2> QED
      BY <2>4 DEF ResponsesFew
  <1>9. ASSUME NEW t \in Staff, Respond(t) PROVE ResponsesFew'
    <2>1. /\ desk[t].task = "respond" /\ desk' = [desk EXCEPT ![t].task = "record"]
          /\ UNCHANGED <<taken, about, faults>>
      BY <1>9 DEF Respond
    <2>2. PICK s0 \in Sellers : about[t] = {s0}
      BY <1>0, <2>1 DEF Turns
    <2> DEFINE b == desk[t].outcome
    <2>3. /\ b \in Responses
          /\ made' = [made EXCEPT ![s0] = [made[s0] EXCEPT ![b] = @ + 1]]
      BY <1>0, <1>9, <2>1, <2>2 DEF Respond, Turns
    <2>4. /\ desk'[t].task = "record" /\ desk'[t].outcome = b
          /\ Others(t)
      BY <1>0, <2>1 DEF CallsTyped, ResponseWork, Others
    <2>5. ASSUME NEW s \in Sellers, NEW a \in Responses
          PROVE  BoundedFor(s, a)'
      <3>1. /\ ~Records(t, s, a) /\ ~MayMake(t, s)'
            /\ Records(t, s, a)' <=> s = s0 /\ a = b
            /\ s = s0 => MayMake(t, s)
        BY <2>1, <2>2, <2>4 DEF Records, MayMake
      <3>3. made'[s][a] = IF s = s0 /\ a = b THEN made[s][a] + 1 ELSE made[s][a]
        <4>1. made \in [Sellers -> [Responses -> Int]]
          BY <1>0 DEF BooksTyped
        <4> HIDE DEF b
        <4> QED
          BY <2>3, <4>1
      <3>4. /\ made'[s][a] \in Nat /\ taken'[s][a] \in Nat
            /\ taken'[s][a] - taken[s][a] = 0 /\ made'[s][a] - made[s][a] \in {0, 1}
            /\ taken'[s][a] # taken[s][a] + 1
            /\ made'[s][a] = made[s][a] + 1 <=> s = s0 /\ a = b
            /\ faults <= faults'
        BY <1>1, <2>1, <3>3
      <3> HIDE DEF b
      <3> QED
        BY <1>0, <2>4, <3>1, <3>4, FewAfter
    <2> QED
      BY <2>5 DEF ResponsesFew
  <1>10. ASSUME NEW s \in Sellers, FootingMoves(s) PROVE ResponsesFew'
    BY <1>2, <1>10 DEF FootingMoves, callVars
  <1>11. ASSUME NEW s0 \in Sellers, NEW b \in Responses, Expires(s0, b) PROVE ResponsesFew'
    <2>1. /\ taken[s0][b] > 0
          /\ taken' = [taken EXCEPT ![s0] = [taken[s0] EXCEPT ![b] = @ - 1]]
          /\ made' = [made EXCEPT ![s0] = [made[s0] EXCEPT ![b] = @ - 1]]
          /\ UNCHANGED <<about, desk, faults>>
      BY <1>11 DEF Expires, callVars
    <2>2. ASSUME NEW s \in Sellers, NEW a \in Responses
          PROVE  BoundedFor(s, a)'
      <3>1. /\ taken \in [Sellers -> [Responses -> Nat]]
            /\ made \in [Sellers -> [Responses -> Int]]
        BY <1>0 DEF BooksTyped, Tally
      <3>2. /\ taken'[s][a] = IF s = s0 /\ a = b THEN taken[s][a] - 1 ELSE taken[s][a]
            /\ made'[s][a] = IF s = s0 /\ a = b THEN made[s][a] - 1 ELSE made[s][a]
        BY <2>1, <3>1
      <3>3. Recorders(s, a)' = Recorders(s, a) /\ Makers(s)' = Makers(s)
        BY <2>1 DEF Recorders, Makers, Records, MayMake
      <3>4. Cardinality(Recorders(s, a)) \in Nat /\ Cardinality(Makers(s)) \in Nat
        <4>1. Recorders(s, a) \in SUBSET Staff /\ Makers(s) \in SUBSET Staff
          BY DEF Recorders, Makers
        <4> QED
          BY <4>1, LearningAssumption, FS_Subset, FS_CardinalityType
      <3>5. BoundedFor(s, a)
        BY DEF ResponsesFew
      <3> QED
        BY <1>1, <2>1, <3>2, <3>3, <3>4, <3>5 DEF BoundedFor
    <2> QED
      BY <2>2 DEF ResponsesFew
  <1>12. CASE UNCHANGED responseVars
    BY <1>2, <1>12 DEF responseVars, responseTables, callVars
  <1> QED
    BY <1>4, <1>5, <1>6, <1>7, <1>8, <1>9, <1>10, <1>11, <1>12 DEF ResponsesNext

LEMMA ResponsesTypeCorrect == ResponsesSpec => []ResponsesTypeOK
  <1> DEFINE Inv == ResponsesInv /\ ResponsesFew
  <1>1. ResponsesInit => Inv
    BY ResponsesStart, FewStart
  <1>2. Inv /\ [ResponsesNext]_responseVars => Inv'
    BY ResponsesStep, FewStep
  <1>3. Inv => ResponsesTypeOK
    <2> SUFFICES ASSUME ResponsesInv, ResponsesFew PROVE ResponsesTypeOK
      OBVIOUS
    <2>1. /\ CallsTyped(ResponseWork) /\ FaultsTyped /\ BooksTyped /\ ThreatsRest
      BY DEF ResponsesInv
    <2>2. NoRead \in [Threats -> ThreatRows]
      BY NoThreatTyped DEF NoRead
    <2> QED
      BY <2>1, <2>2, FewTyped
      DEF ResponsesTypeOK, CallsTyped, FaultsTyped, BooksTyped, ThreatsRest, ResponseWork
  <1> QED
    BY <1>1, <1>2, <1>3, PTL DEF ResponsesSpec

LEMMA ThreatsTypeCorrect == ThreatsSpec => []ResponsesTypeOK
  <1>1. ThreatsInv => ResponsesTypeOK
    <2> SUFFICES ASSUME ThreatsInv PROVE ResponsesTypeOK
      OBVIOUS
    <2>1. CallsTyped(ThreatWork) /\ FaultsTyped /\ ThreatsTyped /\ ResponsesRest
      BY DEF ThreatsInv
    <2>2. \A s \in Sellers, a \in Responses : {taken[s][a], made[s][a]} \subseteq 0 .. MaxFaults + 1
      <3> SUFFICES ASSUME NEW s \in Sellers, NEW a \in Responses
                   PROVE  {taken[s][a], made[s][a]} \subseteq 0 .. MaxFaults + 1
        OBVIOUS
      <3>1. taken[s][a] = 0 /\ made[s][a] = 0
        BY <2>1 DEF ResponsesRest, NoResponses
      <3> QED
        BY <3>1, FaultsAssumption
    <2>3. \A t \in Staff :
            /\ desk[t].task \in {"none", "forecast", "reinforce", "propagate", "decay"}
            /\ desk[t].left = 0
      BY <2>1 DEF CallsTyped, ThreatWork
    <2>4. footing \in [Sellers -> {"clear", "watched", "threatened", "ruled_out"}]
      BY <2>1 DEF ResponsesRest
    <2> QED
      BY <2>1, <2>2, <2>3, <2>4
      DEF ResponsesTypeOK, CallsTyped, FaultsTyped, ThreatsTyped, ResponsesRest
  <1>2. ThreatsInv /\ [ThreatsNext]_responseVars => ThreatsInv'
    BY ThreatsStep
  <1> QED
    BY <1>1, <1>2, ThreatsStart, PTL DEF ThreatsSpec

-----------------------------------------------------------------------------
(* How much the protocol can have learnt: as much as the bound on lessons   *)
(* lets begin, and what calls saw that had begun before it was reached.     *)

Evidence(seen) == [r \in Rows |-> seen[r].for + seen[r].against]

SumSeen(seen) == SumOver(Evidence(seen), Rows)

AllSeen == SumSeen(lessons)

\* The calls that are yet to see something.
Due(t) ==
  \/ desk[t].task \in {"observe", "falsify"}
  \/ desk[t].task = "judge" /\ desk[t].left = 0

DueCalls == {t \in Staff : Due(t)}

LessonsFew ==
  /\ Cardinality(Busy) <= faults + 1
  /\ AllSeen + Cardinality(DueCalls) <= MaxLessons + faults

\* One more was seen of r.
SeesOneMore(r) ==
  /\ \A q \in Rows : q # r => lessons'[q] = lessons[q]
  /\ lessons'[r].for + lessons'[r].against = lessons[r].for + lessons[r].against + 1

LEMMA EvidenceType ==
  ASSUME NEW seen \in [Rows -> LessonRows]
  PROVE  /\ SumSeen(seen) \in Nat
         /\ \A r \in Rows : Evidence(seen)[r] \in Nat /\ Evidence(seen)[r] <= SumSeen(seen)
  <1> DEFINE w == Evidence(seen)
  <1>1. \A r \in Rows : w[r] \in Nat
    BY DEF Evidence, LessonRows
  <1> HIDE DEF w
  <1>2. IsFiniteSet(Rows)
    BY LearningAssumption
  <1>3. SumOver(w, Rows) \in Nat
    BY <1>1, <1>2, SumType
  <1>4. ASSUME NEW r \in Rows PROVE w[r] <= SumOver(w, Rows)
    <2>1. SumOver(w, Rows) = w[r] + SumOver(w, Rows \ {r})
      BY <1>1, <1>2, SumWithout
    <2>2. SumOver(w, Rows \ {r}) \in Nat
      <3>1. IsFiniteSet(Rows \ {r}) /\ \A q \in Rows \ {r} : w[q] \in Nat
        BY <1>1, <1>2, OneLess
      <3> QED
        BY <3>1, SumType
    <2> QED
      BY <1>1, <2>1, <2>2
  <1> QED
    BY <1>1, <1>3, <1>4 DEF SumSeen, w

LEMMA MoreLessonsIs == MoreLessons <=> AllSeen < MaxLessons
  BY DEF MoreLessons, AllSeen, SumSeen, SumOver, Evidence, MapThenSumSet, MapThenFoldSet

LEMMA OneMoreSeen ==
  ASSUME lessons \in [Rows -> LessonRows], lessons' \in [Rows -> LessonRows],
         NEW r \in Rows, SeesOneMore(r)
  PROVE  AllSeen' = AllSeen + 1
  <1> DEFINE v == Evidence(lessons)
             w == Evidence(lessons')
  <1>1. /\ \A q \in Rows : v[q] \in Nat /\ w[q] \in Nat
        /\ \A q \in Rows \ {r} : w[q] = v[q]
        /\ w[r] = v[r] + 1
    BY DEF Evidence, LessonRows, SeesOneMore
  <1> HIDE DEF v, w
  <1>2. IsFiniteSet(Rows) /\ IsFiniteSet(Rows \ {r})
    BY LearningAssumption, OneLess
  <1>3. /\ SumOver(v, Rows) = v[r] + SumOver(v, Rows \ {r})
        /\ SumOver(w, Rows) = w[r] + SumOver(w, Rows \ {r})
    BY <1>1, <1>2, SumWithout
  <1>4. SumOver(w, Rows \ {r}) = SumOver(v, Rows \ {r})
    BY <1>1, <1>2, SumsAgree
  <1>5. SumOver(v, Rows \ {r}) \in Nat
    BY <1>1, <1>2, SumType
  <1>6. SumOver(w, Rows) = SumOver(v, Rows) + 1
    BY <1>1, <1>3, <1>4, <1>5
  <1> QED
    BY <1>6 DEF AllSeen, SumSeen, v, w

LEMMA FewLessonsStart ==
  ASSUME LearningInit
  PROVE  LessonsFew
  <1>1. Busy = {} /\ DueCalls = {}
    BY NoWorkTask DEF LearningInit, CallsInit, Busy, DueCalls, Due
  <1>2. Cardinality(Busy) = 0 /\ Cardinality(DueCalls) = 0
    BY <1>1, FS_EmptySet
  <1>3. AllSeen = 0
    <2> DEFINE v == Evidence(lessons)
    <2>1. \A r \in Rows : v[r] = 0
      BY DEF LearningInit, Evidence
    <2> HIDE DEF v
    <2> DEFINE G == {S \in SUBSET Rows : SumOver(v, S) = 0}
    <2>2. ASSUME NEW S \in SUBSET Rows, \A x \in S : S \ {x} \in G
          PROVE  S \in G
      <3>1. CASE S = {}
        BY <3>1, SumOfNothing
      <3>2. CASE S # {}
        <4>1. PICK x \in S : TRUE
          BY <3>2
        <4>2. IsFiniteSet(S) /\ \A y \in S : v[y] \in Nat
          BY <2>1, LearningAssumption, FS_Subset
        <4>3. SumOver(v, S) = v[x] + SumOver(v, S \ {x})
          BY <4>2, SumWithout
        <4>4. SumOver(v, S \ {x}) = 0
          BY <2>2
        <4> QED
          BY <2>1, <4>3, <4>4
      <3> QED
        BY <3>1, <3>2
    <2>3. G \in SUBSET SUBSET Rows /\ IsFiniteSet(Rows)
      BY LearningAssumption
    <2> HIDE DEF G
    <2>4. G = SUBSET Rows
      BY <2>2, <2>3, SubsetInduction
    <2> QED
      BY <2>4 DEF G, AllSeen, SumSeen, v
  <1>4. faults = 0 /\ MaxLessons \in Nat
    BY LearningAssumption DEF LearningInit
  <1> QED
    BY <1>2, <1>3, <1>4 DEF LessonsFew

\* The numbers of a step: b calls are at work before it and c after, d are due
\* before it and k after, s was seen before it and u after.
LEMMA FewAsNumbers ==
  ASSUME NEW b \in Nat, NEW c \in Nat, NEW d \in Nat, NEW k \in Nat, NEW s \in Nat, NEW u \in Nat,
         NEW f \in Nat, NEW g \in Nat, NEW m \in Nat,
         f <= g, b <= f + 1, s + d <= m + f, k <= c,
         c <= b \/ c <= 1 \/ (c <= b + 1 /\ g = f + 1),
         \/ u = s /\ k <= d
         \/ u = s /\ s < m
         \/ u = s + 1 /\ s < m /\ k = d /\ d + 1 <= b
         \/ u = s + 1 /\ d = k + 1
  PROVE  c <= g + 1 /\ u + k <= m + g
  OBVIOUS

\* What a step of one call comes to.
LEMMA FewLessonsStep ==
  ASSUME LessonsFew, FaultsTyped, FaultsTyped', faults <= faults', NEW t \in Staff,
         lessons \in [Rows -> LessonRows], lessons' \in [Rows -> LessonRows],
         \A u \in Staff : u # t => desk'[u] = desk[u],
         desk'[t] # NoWork => desk[t] # NoWork \/ Busy = {} \/ faults' = faults + 1,
         \/ UNCHANGED lessons /\ (Due(t)' => Due(t) \/ MoreLessons)
         \/ UNCHANGED lessons /\ ~Due(t)'
         \/ /\ MoreLessons /\ desk[t] # NoWork /\ ~Due(t) /\ ~Due(t)'
            /\ \E r \in Rows : SeesOneMore(r)
         \/ /\ Due(t) /\ ~Due(t)'
            /\ \E r \in Rows : SeesOneMore(r)
  PROVE  LessonsFew'
  <1> DEFINE b == Cardinality(Busy)
             c == Cardinality(Busy')
             d == Cardinality(DueCalls)
             k == Cardinality(DueCalls')
  <1>1. /\ Busy \in SUBSET Staff /\ Busy' \in SUBSET Staff
        /\ DueCalls \in SUBSET Staff /\ DueCalls' \in SUBSET Staff
    BY DEF Busy, DueCalls
  <1>2. /\ t \in Busy <=> desk[t] # NoWork
        /\ t \in Busy' <=> desk'[t] # NoWork
        /\ t \in DueCalls <=> Due(t)
        /\ t \in DueCalls' <=> Due(t)'
    BY DEF Busy, DueCalls
  <1>3. Busy \ {t} = Busy' \ {t} /\ DueCalls \ {t} = DueCalls' \ {t}
    BY DEF Busy, DueCalls, Due
  <1>4. /\ b \in Nat /\ c \in Nat
        /\ b + (IF t \in Busy' THEN 1 ELSE 0) = c + (IF t \in Busy THEN 1 ELSE 0)
    BY <1>1, <1>3, OneCallDiffers
  <1>5. /\ d \in Nat /\ k \in Nat
        /\ d + (IF t \in DueCalls' THEN 1 ELSE 0) = k + (IF t \in DueCalls THEN 1 ELSE 0)
    BY <1>1, <1>3, OneCallDiffers
  <1>6. Busy = {} => b = 0
    BY FS_EmptySet
  <1>7. DueCalls \subseteq Busy /\ DueCalls' \subseteq Busy'
    BY NoWorkTask DEF DueCalls, Due, Busy
  <1>8. d <= b /\ k <= c
    BY <1>1, <1>7, LearningAssumption, FS_Subset
  <1>9. t \in Busy /\ t \notin DueCalls => d + 1 <= b
    <2> SUFFICES ASSUME t \in Busy, t \notin DueCalls PROVE d + 1 <= b
      OBVIOUS
    <2>1. DueCalls \subseteq Busy \ {t} /\ IsFiniteSet(Busy) /\ IsFiniteSet(DueCalls)
      BY <1>1, <1>7, LearningAssumption, FS_Subset
    <2>2. /\ IsFiniteSet(Busy \ {t}) /\ Cardinality(Busy \ {t}) \in Nat
          /\ b = Cardinality(Busy \ {t}) + 1
      BY <2>1, OneLess
    <2>3. d <= Cardinality(Busy \ {t})
      BY <2>1, <2>2, FS_Subset
    <2> QED
      BY <1>5, <2>2, <2>3
  <1>10. /\ faults \in Nat /\ faults' \in Nat /\ MaxLessons \in Nat
         /\ AllSeen \in Nat /\ AllSeen' \in Nat
    BY EvidenceType, FaultsAssumption, LearningAssumption DEF FaultsTyped, AllSeen
  <1>11. /\ b <= faults + 1
         /\ AllSeen + d <= MaxLessons + faults
    BY DEF LessonsFew
  <1>12. MoreLessons <=> AllSeen < MaxLessons
    BY MoreLessonsIs
  <1>13. UNCHANGED lessons => AllSeen' = AllSeen
    BY DEF AllSeen
  <1>14. (\E r \in Rows : SeesOneMore(r)) => AllSeen' = AllSeen + 1
    BY OneMoreSeen
  <1> HIDE DEF b, c, d, k
  <1>15. c <= b \/ c <= 1 \/ (c <= b + 1 /\ faults' = faults + 1)
    <2>1. CASE t \in Busy \/ t \notin Busy'
      <3>1. c <= b
        BY <1>4, <2>1
      <3> QED
        BY <3>1
    <2>2. CASE t \notin Busy /\ t \in Busy'
      <3>1. c = b + 1
        BY <1>4, <2>2
      <3>2. b = 0 \/ faults' = faults + 1
        BY <1>2, <1>6, <2>2
      <3> QED
        BY <1>4, <3>1, <3>2
    <2> QED
      BY <2>1, <2>2
  <1>16. \/ AllSeen' = AllSeen /\ k <= d
         \/ AllSeen' = AllSeen /\ AllSeen < MaxLessons
         \/ AllSeen' = AllSeen + 1 /\ AllSeen < MaxLessons /\ k = d /\ d + 1 <= b
         \/ AllSeen' = AllSeen + 1 /\ d = k + 1
    <2>1. CASE UNCHANGED lessons /\ (Due(t)' => Due(t))
      <3>1. k <= d
        BY <1>2, <1>5, <2>1
      <3> QED
        BY <1>13, <2>1, <3>1
    <2>2. CASE UNCHANGED lessons /\ MoreLessons
      BY <1>12, <1>13, <2>2
    <2>3. CASE MoreLessons /\ desk[t] # NoWork /\ ~Due(t) /\ ~Due(t)' /\ \E r \in Rows : SeesOneMore(r)
      <3>1. k = d
        BY <1>2, <1>5, <2>3
      <3> QED
        BY <1>2, <1>9, <1>12, <1>14, <2>3, <3>1
    <2>4. CASE Due(t) /\ ~Due(t)' /\ \E r \in Rows : SeesOneMore(r)
      <3>1. d = k + 1
        BY <1>2, <1>5, <2>4
      <3> QED
        BY <1>14, <2>4, <3>1
    <2> QED
      BY <2>1, <2>2, <2>3, <2>4
  <1> DEFINE f == faults
             g == faults'
             s == AllSeen
             u == AllSeen'
  <1>17. /\ b \in Nat /\ c \in Nat /\ d \in Nat /\ k \in Nat /\ s \in Nat /\ u \in Nat
         /\ f \in Nat /\ g \in Nat /\ MaxLessons \in Nat
         /\ f <= g /\ b <= f + 1 /\ s + d <= MaxLessons + f /\ k <= c
         /\ c <= b \/ c <= 1 \/ (c <= b + 1 /\ g = f + 1)
    BY <1>4, <1>5, <1>8, <1>10, <1>11, <1>15
  <1>18. \/ u = s /\ k <= d
         \/ u = s /\ s < MaxLessons
         \/ u = s + 1 /\ s < MaxLessons /\ k = d /\ d + 1 <= b
         \/ u = s + 1 /\ d = k + 1
    BY <1>16
  <1> HIDE DEF f, g, s, u
  <1>19. c <= g + 1 /\ u + k <= MaxLessons + g
    BY <1>17, <1>18, FewAsNumbers
  <1> QED
    BY <1>19 DEF LessonsFew, c, k, g, u

LEMMA FewLessonsStay ==
  ASSUME LessonsFew, UNCHANGED <<lessons, desk, faults>>
  PROVE  LessonsFew'
  BY DEF LessonsFew, AllSeen, DueCalls, Due, Busy

\* What is counted of a row is no more than was seen of it, and so within bounds.
LEMMA LessonsTyped ==
  ASSUME LessonsFew, FaultsTyped, lessons \in [Rows -> LessonRows]
  PROVE  /\ lessons \in [Rows -> [for : Lessons, against : Lessons]]
         /\ \A r \in Rows, n \in Nat : n <= lessons[r].for \/ n <= lessons[r].against => n \in Lessons
         /\ 0 \in Lessons
  <1>1. AllSeen \in Nat /\ \A r \in Rows : Evidence(lessons)[r] <= AllSeen
    BY EvidenceType DEF AllSeen
  <1>2. Cardinality(DueCalls) \in Nat
    <2>1. DueCalls \in SUBSET Staff
      BY DEF DueCalls
    <2> QED
      BY <2>1, LearningAssumption, FS_Subset, FS_CardinalityType
  <1>3. AllSeen <= MaxLessons + MaxFaults /\ MaxLessons + MaxFaults \in Nat
    BY <1>1, <1>2, FaultsAssumption, LearningAssumption DEF LessonsFew, FaultsTyped
  <1>4. ASSUME NEW r \in Rows
        PROVE  /\ lessons[r].for \in Nat /\ lessons[r].against \in Nat
               /\ lessons[r].for <= MaxLessons + MaxFaults
               /\ lessons[r].against <= MaxLessons + MaxFaults
    BY <1>1, <1>3 DEF Evidence, LessonRows
  <1>5. \A r \in Rows : lessons[r] \in [for : Lessons, against : Lessons]
    BY <1>3, <1>4 DEF Lessons, LessonRows
  <1> QED
    BY <1>3, <1>4, <1>5 DEF Lessons
-----------------------------------------------------------------------------
\* A call that begins, writes, or ends.
LEMMA TakesFew ==
  ASSUME NEW CONSTANT Works, CallsTyped(Works), FaultsTyped, LessonsFew,
         lessons \in [Rows -> LessonRows], UNCHANGED lessons,
         NEW t \in Staff, NEW work \in Works, Takes(t, work),
         Due(t)' => MoreLessons
  PROVE  LessonsFew'
  <1>1. /\ FaultsTyped' /\ faults <= faults' /\ \A u \in Staff : u # t => desk'[u] = desk[u]
    BY TakesEffect
  <1>2. Busy = {} \/ faults' = faults + 1
    BY DEF Takes, Fault
  <1>3. lessons' \in [Rows -> LessonRows]
    OBVIOUS
  <1> QED
    BY <1>1, <1>2, <1>3, FewLessonsStep

LEMMA WritesFew ==
  ASSUME NEW CONSTANT Works, CallsTyped(Works), FaultsTyped, LessonsFew,
         lessons \in [Rows -> LessonRows], lessons' \in [Rows -> LessonRows],
         NEW t \in Staff, NEW next \in Works, Writes(t, next), ~Due(t)',
         desk[t].task # "none",
         \/ UNCHANGED lessons
         \/ (Due(t) \/ MoreLessons) /\ \E r \in Rows : SeesOneMore(r)
  PROVE  LessonsFew'
  <1>1. /\ FaultsTyped' /\ faults' = faults /\ \A u \in Staff : u # t => desk'[u] = desk[u]
    BY WritesEffect
  <1>2. faults <= faults'
    BY <1>1, FaultsAssumption DEF FaultsTyped
  <1>3. desk[t] # NoWork
    BY NoWorkTask
  <1> QED
    BY <1>1, <1>2, <1>3, FewLessonsStep

LEMMA LeavesFew ==
  ASSUME NEW CONSTANT Works, CallsTyped(Works), FaultsTyped, LessonsFew,
         lessons \in [Rows -> LessonRows], UNCHANGED lessons,
         NEW t \in Staff, Leaves(t), UNCHANGED faults \/ Fault
  PROVE  LessonsFew'
  <1>1. FaultsTyped' /\ faults <= faults'
    BY FaultTyped, FaultsAssumption DEF FaultsTyped
  <1>2. desk'[t] = NoWork /\ \A u \in Staff : u # t => desk'[u] = desk[u]
    BY DEF Leaves, CallsTyped
  <1>3. ~Due(t)'
    BY <1>2, NoWorkTask DEF Due
  <1>4. lessons' \in [Rows -> LessonRows]
    OBVIOUS
  <1> QED
    BY <1>1, <1>2, <1>3, <1>4, FewLessonsStep

-----------------------------------------------------------------------------
\* Memories: none counts more than was seen of it, nor does the copy of a call.
MemorySeen(m, r) == m.observed <= lessons[r].for /\ m.falsified <= lessons[r].against

MemoryCopied(t) ==
  /\ copy[t].hypothesis = NoHypothesis
  /\ copy[t].rows = {} => copy[t].memory = NoMemory
  /\ \A r \in copy[t].rows : MemorySeen(copy[t].memory, r)

MemoryFew ==
  /\ LessonsFew
  /\ experiment = [e \in Experiments |-> NoExperiment] /\ uncounted = {}
  /\ \A r \in Rows : MemorySeen(memory[r], r)
  /\ \A t \in Staff : MemoryCopied(t)

LEMMA MemoryFewStart == LearningInit => MemoryFew
  <1> SUFFICES ASSUME LearningInit PROVE MemoryFew
    OBVIOUS
  <1>1. LessonsFew
    BY FewLessonsStart
  <1>2. \A r \in Rows : MemorySeen(memory[r], r)
    BY EmptyRows DEF LearningInit, MemorySeen
  <1>3. \A t \in Staff : MemoryCopied(t)
    BY DEF LearningInit, NoCopy, MemoryCopied
  <1> QED
    BY <1>1, <1>2, <1>3 DEF MemoryFew, LearningInit

\* What a call copies: one row as it is, or some rows and nothing of them.
LEMMA MemoryIsCopied ==
  ASSUME MemoryInv, MemoryFew, NEW t \in Staff, NEW rows \in SUBSET Rows, NEW m,
         Copies(t, rows, m, NoHypothesis), UNCHANGED lessons,
         m = NoMemory \/ \E r \in Rows : rows = {r} /\ m = memory[r]
  PROVE  MemoryCopied(t)' /\ \A u \in Staff : u # t => copy'[u] = copy[u]
  <1>1. /\ copy'[t].rows = rows /\ copy'[t].memory = m /\ copy'[t].hypothesis = NoHypothesis
        /\ \A u \in Staff : u # t => copy'[u] = copy[u]
    BY DEF Copies, MemoryInv, MemoryTyped
  <1>2. \A r \in rows : MemorySeen(m, r)
    <2>1. CASE m = NoMemory
      BY <2>1, EmptyRows DEF MemorySeen, MemoryInv, MemoryTyped, LessonRows
    <2>2. CASE \E r \in Rows : rows = {r} /\ m = memory[r]
      BY <2>2 DEF MemoryFew
    <2> QED
      BY <2>1, <2>2
  <1>3. rows = {} => m = NoMemory
    OBVIOUS
  <1> QED
    BY <1>1, <1>2, <1>3 DEF MemoryCopied, MemorySeen

LEMMA MemoryIsForgotten ==
  ASSUME MemoryInv, NEW t \in Staff, Forgets(t)
  PROVE  MemoryCopied(t)' /\ \A u \in Staff : u # t => copy'[u] = copy[u]
  BY DEF Forgets, NoCopy, MemoryCopied, MemoryInv, MemoryTyped

\* After a step of one call.
LEMMA MemoryFewAfter ==
  ASSUME MemoryInv, MemoryFew, MemoryTyped', LessonsFew', UNCHANGED hypothesisTables,
         NEW t \in Staff, MemoryCopied(t)', \A u \in Staff : u # t => copy'[u] = copy[u],
         \A r \in Rows : lessons[r].for <= lessons'[r].for /\ lessons[r].against <= lessons'[r].against,
         \A r \in Rows : MemorySeen(memory[r], r)'
  PROVE  MemoryFew'
  <1>1. ASSUME NEW u \in Staff, u # t PROVE MemoryCopied(u)'
    <2>1. copy'[u] = copy[u] /\ MemoryCopied(u)
      BY <1>1 DEF MemoryFew
    <2>2. copy[u].memory.observed \in Nat /\ copy[u].memory.falsified \in Nat /\ copy[u].rows \subseteq Rows
      BY DEF MemoryInv, MemoryTyped, CopyRows, MemoryRows
    <2>3. ASSUME NEW r \in copy[u].rows PROVE MemorySeen(copy[u].memory, r)'
      <3>1. /\ lessons[r].for \in Nat /\ lessons[r].against \in Nat
            /\ lessons'[r].for \in Nat /\ lessons'[r].against \in Nat
            /\ lessons[r].for <= lessons'[r].for /\ lessons[r].against <= lessons'[r].against
        BY <2>2 DEF MemoryInv, MemoryTyped, LessonRows
      <3>2. MemorySeen(copy[u].memory, r)
        BY <2>1 DEF MemoryCopied
      <3> QED
        BY <2>1, <2>2, <3>1, <3>2 DEF MemorySeen
    <2> QED
      BY <2>1, <2>3 DEF MemoryCopied
  <1>2. experiment' = experiment /\ uncounted' = uncounted
    BY DEF hypothesisTables
  <1> QED
    BY <1>1, <1>2 DEF MemoryFew

LEMMA MemoryBeginsFew ==
  ASSUME MemoryInv, MemoryTyped', MemoryFew, NEW t \in Staff, UNCHANGED hypothesisTables,
         UNCHANGED <<memory, lessons>>,
         NEW rows \in SUBSET Rows, NEW m, Copies(t, rows, m, NoHypothesis),
         m = NoMemory \/ \E r \in Rows : rows = {r} /\ m = memory[r],
         NEW task \in {"remember", "observe", "falsify", "promote", "force", "cycle", "decay"},
         Decides(t, task, "none"), task \in {"observe", "falsify"} => MoreLessons
  PROVE  MemoryFew'
  <1>1. MemoryCopied(t)' /\ \A u \in Staff : u # t => copy'[u] = copy[u]
    BY MemoryIsCopied
  <1> DEFINE work == Work(task, "none", 0)
  <1>2. work \in MemoryWork /\ work.task = task
    BY DEF Work, MemoryWork
  <1>3. Takes(t, work)
    BY DEF Decides
  <1> HIDE DEF work
  <1>4. CallsTyped(MemoryWork) /\ FaultsTyped /\ lessons \in [Rows -> LessonRows]
    BY DEF MemoryInv, MemoryTyped
  <1>5. desk'[t] = work
    BY <1>2, <1>3, <1>4, TakesEffect
  <1>6. Due(t)' => MoreLessons
    BY <1>2, <1>5 DEF Due
  <1>7. LessonsFew'
    BY <1>2, <1>3, <1>4, <1>6, TakesFew DEF MemoryFew
  <1>8. \A r \in Rows : MemorySeen(memory[r], r)'
    BY DEF MemoryFew, MemorySeen
  <1>9. \A r \in Rows : lessons[r].for <= lessons'[r].for /\ lessons[r].against <= lessons'[r].against
    BY <1>4 DEF LessonRows
  <1> QED
    BY <1>1, <1>7, <1>8, <1>9, MemoryFewAfter

LEMMA MemoryWritesFew ==
  ASSUME MemoryInv, MemoryTyped', MemoryFew, NEW t \in Staff, UNCHANGED hypothesisTables,
         NEW next \in MemoryWork, Writes(t, next), next.task \in {"none", "cycle"},
         desk[t].task # "none",
         MemoryCopied(t)', \A u \in Staff : u # t => copy'[u] = copy[u],
         \A r \in Rows : MemorySeen(memory[r], r)',
         UNCHANGED lessons \/ (Due(t) /\ \E r \in Rows : SeesOneMore(r)),
         \A r \in Rows : lessons[r].for <= lessons'[r].for /\ lessons[r].against <= lessons'[r].against
  PROVE  MemoryFew'
  <1>1. CallsTyped(MemoryWork) /\ FaultsTyped /\ lessons \in [Rows -> LessonRows]
        /\ lessons' \in [Rows -> LessonRows]
    BY DEF MemoryInv, MemoryTyped
  <1>2. desk'[t] = next
    BY <1>1, WritesEffect
  <1>3. ~Due(t)'
    BY <1>2 DEF Due
  <1>4. LessonsFew'
    BY <1>1, <1>3, WritesFew DEF MemoryFew
  <1> QED
    BY <1>4, MemoryFewAfter

\* A row written that counts what was seen, and no other.
LEMMA RowsStaySeen ==
  ASSUME MemoryInv, MemoryTyped', MemoryFew, NEW r \in Rows,
         \A q \in Rows : q # r => memory'[q] = memory[q],
         \A q \in Rows : lessons[q].for <= lessons'[q].for /\ lessons[q].against <= lessons'[q].against,
         MemorySeen(memory[r], r)'
  PROVE  \A q \in Rows : MemorySeen(memory[q], q)'
  <1> SUFFICES ASSUME NEW q \in Rows, q # r PROVE MemorySeen(memory[q], q)'
    OBVIOUS
  <1>1. /\ memory[q].observed \in Nat /\ memory[q].falsified \in Nat
        /\ lessons[q].for \in Nat /\ lessons[q].against \in Nat
        /\ lessons'[q].for \in Nat /\ lessons'[q].against \in Nat
    BY DEF MemoryInv, MemoryTyped, MemoryRows, LessonRows
  <1>2. MemorySeen(memory[q], q)
    BY DEF MemoryFew
  <1> QED
    BY <1>1, <1>2 DEF MemorySeen

LEMMA FalsifiedRow ==
  ASSUME NEW m, NEW row \in Falsified(m)
  PROVE  row.observed = m.observed /\ row.falsified = m.falsified + 1
  <1>1. \/ row = Memory("archived", FALSE, m.observed, m.falsified + 1)
        \/ \E strong : row = Memory("active", strong, m.observed, m.falsified + 1)
    BY DEF Falsified
  <1> QED
    BY <1>1 DEF Memory

LEMMA MemoryFewStep ==
  ASSUME MemoryInv, MemoryInv', MemoryFew, [MemoryNext /\ UNCHANGED hypothesisTables]_learningVars
  PROVE  MemoryFew'
  <1>1. /\ MemoryTyped /\ MemoryTyped' /\ CallsTyped(MemoryWork) /\ FaultsTyped
        /\ NoWork \in MemoryWork /\ NoWork.task \in {"none", "cycle"}
    BY NoMemoryWork, NoWorkTask DEF MemoryInv
  <1>2. lessons \in [Rows -> LessonRows] /\ lessons' \in [Rows -> LessonRows]
    BY <1>1 DEF MemoryTyped
  <1>3. ASSUME UNCHANGED lessons
        PROVE  \A r \in Rows : lessons[r].for <= lessons'[r].for /\ lessons[r].against <= lessons'[r].against
    BY <1>2, <1>3 DEF LessonRows
  <1>4. ASSUME UNCHANGED lessons,
               \A r \in Rows : /\ memory'[r].observed = memory[r].observed
                               /\ memory'[r].falsified = memory[r].falsified
        PROVE  \A r \in Rows : MemorySeen(memory[r], r)'
    BY <1>4 DEF MemoryFew, MemorySeen
  <1>5. CASE UNCHANGED learningVars
    <2>1. UNCHANGED <<memory, lessons, copy, experiment, uncounted, desk, faults>>
      BY <1>5 DEF learningVars, learningTables, memoryTables, hypothesisTables, callVars
    <2>2. LessonsFew'
      BY <2>1, FewLessonsStay DEF MemoryFew
    <2> QED
      BY <2>1, <2>2 DEF MemoryFew, MemoryCopied, MemorySeen
  <1>6. ASSUME UNCHANGED hypothesisTables, NEW r \in Rows, ArchiveMemory(r) PROVE MemoryFew'
    <2>1. UNCHANGED <<lessons, copy, experiment, uncounted, desk, faults>>
      BY <1>6 DEF ArchiveMemory, hypothesisTables, WritesAtOnce
    <2>2. LessonsFew'
      BY <2>1, FewLessonsStay DEF MemoryFew
    <2>3. \A q \in Rows : /\ memory'[q].observed = memory[q].observed
                          /\ memory'[q].falsified = memory[q].falsified
      BY <1>1, <1>6 DEF ArchiveMemory, MemoryTyped, MemoryRows
    <2>4. \A q \in Rows : MemorySeen(memory[q], q)'
      BY <1>4, <2>1, <2>3
    <2> QED
      BY <2>1, <2>2, <2>4 DEF MemoryFew, MemoryCopied, MemorySeen
  <1>7. ASSUME UNCHANGED hypothesisTables, NEW t \in Staff, FindSimilar(t) PROVE MemoryFew'
    <2>1. UNCHANGED <<memory, lessons>> /\ Decides(t, "remember", "none")
      BY <1>7 DEF FindSimilar, memoryTables
    <2>2. CASE \E r \in Active : Copies(t, {r}, memory[r], NoHypothesis)
      <3>1. PICK r \in Active : Copies(t, {r}, memory[r], NoHypothesis)
        BY <2>2
      <3>2. r \in Rows /\ {r} \in SUBSET Rows
        BY DEF Active
      <3> QED
        BY <1>1, <1>7, <2>1, <3>1, <3>2, MemoryBeginsFew
    <2>3. CASE Copies(t, {}, NoMemory, NoHypothesis)
      <3>1. {} \in SUBSET Rows
        OBVIOUS
      <3> QED
        BY <1>1, <1>7, <2>1, <2>3, <3>1, MemoryBeginsFew
    <2> QED
      BY <1>7, <2>2, <2>3 DEF FindSimilar
  <1>8. ASSUME UNCHANGED hypothesisTables, NEW t \in Staff, BeginLearningCycle(t) PROVE MemoryFew'
    <2>1. UNCHANGED <<memory, lessons>> /\ Decides(t, "cycle", "none")
          /\ Copies(t, {r \in Active : Refuted(memory[r])}, NoMemory, NoHypothesis)
      BY <1>8 DEF BeginLearningCycle, memoryTables
    <2>2. {r \in Active : Refuted(memory[r])} \in SUBSET Rows
      BY DEF Active
    <2> QED
      BY <1>1, <1>8, <2>1, <2>2, MemoryBeginsFew
  <1>9. ASSUME UNCHANGED hypothesisTables, NEW t \in Staff, NEW r \in Rows,
               NEW task \in {"observe", "falsify", "decay", "promote", "force"},
               Copies(t, {r}, memory[r], NoHypothesis), Decides(t, task, "none"),
               UNCHANGED <<memoryTables, lessons>>, task \in {"observe", "falsify"} => MoreLessons
        PROVE  MemoryFew'
    <2>1. UNCHANGED <<memory, lessons>> /\ {r} \in SUBSET Rows
      BY <1>9 DEF memoryTables
    <2> QED
      BY <1>1, <1>9, <2>1, MemoryBeginsFew
  <1>10. ASSUME UNCHANGED hypothesisTables, NEW t \in Staff, Leaves(t), Forgets(t),
                UNCHANGED faults \/ Fault, UNCHANGED <<memory, lessons>>
         PROVE  MemoryFew'
    <2>1. LessonsFew'
      BY <1>1, <1>2, <1>10, LeavesFew DEF MemoryFew
    <2>2. MemoryCopied(t)' /\ \A u \in Staff : u # t => copy'[u] = copy[u]
      BY <1>10, MemoryIsForgotten
    <2>3. \A r \in Rows : MemorySeen(memory[r], r)'
      BY <1>10 DEF MemoryFew, MemorySeen
    <2> QED
      BY <1>1, <1>3, <1>10, <2>1, <2>2, <2>3, MemoryFewAfter
  <1>11. ASSUME UNCHANGED hypothesisTables, NEW t \in Staff, DecayInCycle(t) PROVE MemoryFew'
    <2>1. UNCHANGED <<memory, lessons, faults>> /\ desk[t].task = "cycle"
      BY <1>11 DEF DecayInCycle, memoryTables
    <2>2. CASE Forgets(t) /\ Leaves(t)
      BY <1>10, <1>11, <2>1, <2>2
    <2>3. ASSUME NEW r \in Active, Copies(t, {r}, memory[r], NoHypothesis),
                 desk' = [desk EXCEPT ![t].task = "decay"]
          PROVE  MemoryFew'
      <3>1. r \in Rows /\ {r} \in SUBSET Rows
        BY DEF Active
      <3>2. MemoryCopied(t)' /\ \A u \in Staff : u # t => copy'[u] = copy[u]
        BY <2>1, <2>3, <3>1, MemoryIsCopied
      <3>3. desk'[t].task = "decay" /\ \A u \in Staff : u # t => desk'[u] = desk[u]
        BY <1>1, <2>3 DEF CallsTyped, MemoryWork
      <3>4. ~Due(t)' /\ desk[t] # NoWork
        BY <2>1, <3>3, NoWorkTask DEF Due
      <3>5. faults <= faults' /\ FaultsTyped'
        BY <1>1, <2>1, FaultsAssumption DEF FaultsTyped
      <3>6. LessonsFew'
        BY <1>1, <1>2, <2>1, <3>3, <3>4, <3>5, FewLessonsStep DEF MemoryFew
      <3>7. \A q \in Rows : MemorySeen(memory[q], q)'
        BY <2>1 DEF MemoryFew, MemorySeen
      <3> QED
        BY <1>1, <1>3, <1>11, <2>1, <3>2, <3>6, <3>7, MemoryFewAfter
    <2> QED
      BY <1>11, <2>2, <2>3 DEF DecayInCycle
  <1>12. ASSUME UNCHANGED hypothesisTables, NEW t \in Staff, LearningCallDies(t) PROVE MemoryFew'
    BY <1>10, <1>12 DEF LearningCallDies, memoryTables
  <1>13. ASSUME UNCHANGED hypothesisTables, NEW t \in Staff, desk[t].task # "none",
                Writes(t, NoWork), Forgets(t),
                \A r \in Rows : MemorySeen(memory[r], r)',
                UNCHANGED lessons \/ (Due(t) /\ \E r \in Rows : SeesOneMore(r)),
                \A r \in Rows : lessons[r].for <= lessons'[r].for
                                /\ lessons[r].against <= lessons'[r].against
         PROVE  MemoryFew'
    <2>1. MemoryCopied(t)' /\ \A u \in Staff : u # t => copy'[u] = copy[u]
      BY <1>13, MemoryIsForgotten
    <2> QED
      BY <1>1, <1>13, <2>1, MemoryWritesFew
  <1>14. ASSUME UNCHANGED hypothesisTables, NEW t \in Staff, StoreMemory(t) PROVE MemoryFew'
    <2>1. /\ UNCHANGED lessons /\ desk[t].task # "none" /\ Writes(t, NoWork) /\ Forgets(t)
      BY <1>14 DEF StoreMemory
    <2>2. \A r \in Rows : MemorySeen(memory[r], r)'
      <3>1. CASE \E r \in copy[t].rows, strong \in Raised(copy[t].memory.strong) :
                   memory' = [memory EXCEPT ![r].strong = strong]
        <4>1. PICK r \in copy[t].rows, strong \in Raised(copy[t].memory.strong) :
                memory' = [memory EXCEPT ![r].strong = strong]
          BY <3>1
        <4>2. r \in Rows
          BY <1>1 DEF MemoryTyped, CopyRows
        <4>3. \A q \in Rows : /\ memory'[q].observed = memory[q].observed
                              /\ memory'[q].falsified = memory[q].falsified
          BY <1>1, <4>1, <4>2 DEF MemoryTyped, MemoryRows
        <4> QED
          BY <1>4, <2>1, <4>3
      <3>2. CASE \E r \in Unused : memory' = [memory EXCEPT ![r] = Memory("active", FALSE, 0, 0)]
        <4>1. PICK r \in Unused : memory' = [memory EXCEPT ![r] = Memory("active", FALSE, 0, 0)]
          BY <3>2
        <4>2. r \in Rows
          BY DEF Unused
        <4>3. /\ memory'[r].observed = 0 /\ memory'[r].falsified = 0
              /\ \A q \in Rows : q # r => memory'[q] = memory[q]
          BY <1>1, <4>1, <4>2 DEF MemoryTyped, Memory
        <4>4. lessons'[r].for \in Nat /\ lessons'[r].against \in Nat
          BY <1>2, <4>2 DEF LessonRows
        <4>5. MemorySeen(memory[r], r)'
          BY <4>3, <4>4 DEF MemorySeen
        <4> QED
          BY <1>1, <1>3, <2>1, <4>2, <4>3, <4>5, RowsStaySeen
      <3> QED
        BY <1>14, <3>1, <3>2 DEF StoreMemory
    <2> QED
      BY <1>3, <1>13, <1>14, <2>1, <2>2
  <1>15. ASSUME UNCHANGED hypothesisTables, NEW t \in Staff, NEW r \in Rows,
                WriteObservation(t, r) \/ WriteFalsification(t, r)
         PROVE  MemoryFew'
    <2> DEFINE m == copy[t].memory
               up == IF desk[t].task = "observe" THEN 1 ELSE 0
    <2>1. /\ desk[t].task \in {"observe", "falsify"} /\ Writes(t, NoWork) /\ Forgets(t)
          /\ copy[t].rows = {r} /\ m \in MemoryRows
      BY <1>1, <1>15 DEF WriteObservation, WriteFalsification, MemoryTyped, CopyRows
    <2>2. /\ lessons'[r].for = lessons[r].for + up
          /\ lessons'[r].against = lessons[r].against + (1 - up)
          /\ \A q \in Rows : q # r => lessons'[q] = lessons[q]
      BY <1>2, <1>15 DEF WriteObservation, WriteFalsification, LessonRows
    <2>3. PICK row \in Observed(m) \cup Falsified(m) :
            /\ memory' = [memory EXCEPT ![r] = row]
            /\ row.observed = m.observed + up
            /\ row.falsified = m.falsified + (1 - up)
      <3>1. CASE WriteObservation(t, r)
        <4>1. PICK row \in Observed(m) : memory' = [memory EXCEPT ![r] = row]
          BY <3>1 DEF WriteObservation
        <4>2. row.observed = m.observed + 1 /\ row.falsified = m.falsified
          BY <2>1, <4>1, ObservedRow
        <4>3. up = 1
          BY <3>1 DEF WriteObservation
        <4>4. m.falsified + (1 - up) = m.falsified
          BY <2>1, <4>3 DEF MemoryRows
        <4> QED
          BY <4>1, <4>2, <4>3, <4>4
      <3>2. CASE WriteFalsification(t, r)
        <4>1. PICK row \in Falsified(m) : memory' = [memory EXCEPT ![r] = row]
          BY <3>2 DEF WriteFalsification
        <4>2. row.observed = m.observed /\ row.falsified = m.falsified + 1
          BY <4>1, FalsifiedRow
        <4>3. up = 0
          BY <3>2 DEF WriteFalsification
        <4>4. m.observed + up = m.observed
          BY <2>1, <4>3 DEF MemoryRows
        <4>5. row.observed = m.observed + up /\ row.falsified = m.falsified + (1 - up)
          BY <4>2, <4>3, <4>4
        <4>6. row \in Observed(m) \cup Falsified(m)
          BY <4>1
        <4> QED
          BY <4>1, <4>5, <4>6
      <3> QED
        BY <1>15, <3>1, <3>2
    <2>4. up \in {0, 1}
      OBVIOUS
    <2>5. Due(t)
      BY <2>1 DEF Due
    <2> HIDE DEF up
    <2>6. /\ lessons[r].for \in Nat /\ lessons[r].against \in Nat
          /\ m.observed \in Nat /\ m.falsified \in Nat
      BY <1>2, <2>1 DEF LessonRows, MemoryRows
    <2>7. m.observed <= lessons[r].for /\ m.falsified <= lessons[r].against
      BY <2>1 DEF MemoryFew, MemoryCopied, MemorySeen
    <2>8. memory'[r] = row /\ \A q \in Rows : q # r => memory'[q] = memory[q]
      BY <1>1, <2>3 DEF MemoryTyped
    <2> HIDE DEF m
    <2>9. MemorySeen(memory[r], r)'
      BY <2>2, <2>3, <2>4, <2>6, <2>7, <2>8 DEF MemorySeen
    <2>10. \A q \in Rows : lessons[q].for <= lessons'[q].for /\ lessons[q].against <= lessons'[q].against
      BY <1>2, <2>2, <2>4, <2>6 DEF LessonRows
    <2>11. SeesOneMore(r)
      BY <2>2, <2>4, <2>6 DEF SeesOneMore
    <2>12. \A q \in Rows : MemorySeen(memory[q], q)'
      BY <1>1, <2>8, <2>9, <2>10, RowsStaySeen
    <2> QED
      BY <1>13, <1>15, <2>1, <2>5, <2>10, <2>11, <2>12
  <1>16. ASSUME UNCHANGED hypothesisTables, NEW t \in Staff, NEW r \in Rows,
                WriteDecay(t, r) \/ StoreKnowledge(t, r)
         PROVE  MemoryFew'
    <2>1. UNCHANGED lessons /\ desk[t].task # "none" /\ Writes(t, NoWork) /\ Forgets(t)
      BY <1>16 DEF WriteDecay, StoreKnowledge
    <2>2. \A q \in Rows : /\ memory'[q].observed = memory[q].observed
                          /\ memory'[q].falsified = memory[q].falsified
      <3>1. CASE StoreKnowledge(t, r)
        BY <3>1 DEF StoreKnowledge
      <3>2. CASE WriteDecay(t, r)
        <4>1. PICK row \in Decayed(copy[t].memory) :
                memory' = [memory EXCEPT ![r].status = row.status, ![r].strong = row.strong]
          BY <3>2 DEF WriteDecay
        <4> QED
          BY <1>1, <4>1 DEF MemoryTyped, MemoryRows
      <3> QED
        BY <1>16, <3>1, <3>2
    <2> QED
      BY <1>3, <1>4, <1>13, <1>16, <2>1, <2>2
  <1>17. ASSUME UNCHANGED hypothesisTables, NEW t \in Staff, NEW r \in Rows, ArchiveRefuted(t, r)
         PROVE  MemoryFew'
    <2>1. /\ desk[t].task = "cycle" /\ UNCHANGED lessons /\ Writes(t, desk[t])
          /\ Copies(t, copy[t].rows \ {r}, NoMemory, NoHypothesis)
          /\ desk[t] \in MemoryWork /\ copy[t].rows \ {r} \in SUBSET Rows
      BY <1>1, <1>17 DEF ArchiveRefuted, CallsTyped, MemoryTyped, CopyRows
    <2>2. MemoryCopied(t)' /\ \A u \in Staff : u # t => copy'[u] = copy[u]
      BY <2>1, MemoryIsCopied
    <2>3. \A q \in Rows : /\ memory'[q].observed = memory[q].observed
                          /\ memory'[q].falsified = memory[q].falsified
      BY <1>1, <1>17 DEF ArchiveRefuted, MemoryTyped, MemoryRows
    <2> QED
      BY <1>1, <1>3, <1>4, <1>17, <2>1, <2>2, <2>3, MemoryWritesFew
  <1>18. ASSUME UNCHANGED hypothesisTables, NEW t \in Staff, NEW r \in Rows,
                \/ BeginObservation(t, r) \/ BeginFalsification(t, r) \/ BeginDecay(t, r)
                \/ \E pushed \in BOOLEAN : BeginPromotionOf(t, r, pushed)
         PROVE  MemoryFew'
    <2>1. CASE BeginObservation(t, r) \/ BeginFalsification(t, r)
      BY <1>9, <1>18, <2>1 DEF BeginObservation, BeginFalsification, ReadMemory
    <2>2. CASE BeginDecay(t, r)
      BY <1>9, <1>18, <2>2 DEF BeginDecay
    <2>3. ASSUME NEW pushed \in BOOLEAN, BeginPromotionOf(t, r, pushed) PROVE MemoryFew'
      BY <1>9, <1>18, <2>3 DEF BeginPromotionOf
    <2> QED
      BY <1>18, <2>1, <2>2, <2>3
  <1> QED
    BY <1>5, <1>6, <1>7, <1>8, <1>11, <1>12, <1>14, <1>15, <1>16, <1>17, <1>18 DEF MemoryNext

LEMMA MemoryTypeCorrect == MemorySpec => []LearningTypeOK
  <1> DEFINE Inv == MemoryInv /\ MemoryFew
  <1>1. LearningInit => Inv
    BY InitMemoryInv, MemoryFewStart
  <1>2. Inv /\ [MemoryNext /\ UNCHANGED hypothesisTables]_learningVars => Inv'
    BY NextMemoryInv, MemoryFewStep
  <1>3. Inv => LearningTypeOK
    <2> SUFFICES ASSUME MemoryInv, MemoryFew PROVE LearningTypeOK
      OBVIOUS
    <2>1. /\ CallsTyped(MemoryWork) /\ FaultsTyped /\ MemoryTyped /\ LessonsFew
          /\ lessons \in [Rows -> LessonRows]
      BY DEF MemoryInv, MemoryFew, MemoryTyped
    <2>2. /\ lessons \in [Rows -> [for : Lessons, against : Lessons]]
          /\ \A r \in Rows, n \in Nat : n <= lessons[r].for \/ n <= lessons[r].against => n \in Lessons
          /\ 0 \in Lessons
      BY <2>1, LessonsTyped
    <2>3. ASSUME NEW m \in MemoryRows, NEW r \in Rows, MemorySeen(m, r) PROVE m \in Memories
      <3>1. m.observed \in Lessons /\ m.falsified \in Lessons
        BY <2>2, <2>3 DEF MemorySeen, MemoryRows
      <3> QED
        BY <3>1 DEF MemoryRows, Memories
    <2>4. NoMemory \in Memories /\ NoHypothesis \in Hypotheses
      BY <2>2 DEF NoMemory, Memory, Memories, NoHypothesis, Hypothesis, Hypotheses
    <2>5. memory \in [Rows -> Memories] /\ hypothesis \in [Rows -> Hypotheses]
      BY <2>1, <2>3, <2>4 DEF MemoryTyped, MemoryFew
    <2>6. ASSUME NEW t \in Staff
          PROVE  copy[t].rows \subseteq Rows /\ copy[t].memory \in Memories /\ copy[t].hypothesis \in Hypotheses
      <3>1. MemoryCopied(t) /\ copy[t].rows \subseteq Rows /\ copy[t].memory \in MemoryRows
        BY <2>1 DEF MemoryFew, MemoryTyped, CopyRows
      <3>2. copy[t].memory \in Memories
        <4>1. CASE copy[t].rows = {}
          BY <2>4, <3>1, <4>1 DEF MemoryCopied
        <4>2. CASE copy[t].rows # {}
          <5>1. PICK r \in copy[t].rows : TRUE
            BY <4>2
          <5> QED
            BY <2>3, <3>1, <5>1 DEF MemoryCopied
        <4> QED
          BY <4>1, <4>2
      <3> QED
        BY <2>4, <3>1, <3>2 DEF MemoryCopied
    <2>7. ASSUME NEW e \in Experiments
          PROVE  /\ experiment[e].status = "none" /\ experiment[e].of \in SUBSET Rows
                 /\ Cardinality(experiment[e].of) <= 1
      <3>1. experiment[e].status = "none" /\ experiment[e].of = {}
        BY DEF MemoryFew, NoExperiment
      <3> QED
        BY <3>1, FS_EmptySet
    <2>8. desk \in [Staff ->
            [task : {"none", "remember", "observe", "falsify", "promote", "force", "cycle",
                     "decay", "suppose", "start", "complete", "evaluate", "judge"},
             outcome : {"none", "succeeded", "failed"} \cup Experiments, left : {0, 1}]]
      <3>1. \A t \in Staff : desk[t] \in MemoryWork
        BY <2>1 DEF CallsTyped
      <3>2. MemoryWork \subseteq
            [task : {"none", "remember", "observe", "falsify", "promote", "force", "cycle",
                     "decay", "suppose", "start", "complete", "evaluate", "judge"},
             outcome : {"none", "succeeded", "failed"} \cup Experiments, left : {0, 1}]
        BY DEF MemoryWork
      <3> QED
        BY <2>1, <3>1, <3>2 DEF CallsTyped
    <2> QED
      BY <2>1, <2>2, <2>5, <2>6, <2>7, <2>8
      DEF LearningTypeOK, CallsTyped, FaultsTyped, MemoryTyped, MemoryFew
  <1> QED
    BY <1>1, <1>2, <1>3, PTL DEF MemorySpec
-----------------------------------------------------------------------------
\* Hypotheses: none counts more than was seen of it, nor does the copy of a call,
\* with what the call is to write of the end of an experiment.
HypothesisSeen(h, r) == h.successes <= lessons[r].for /\ h.failures <= lessons[r].against

ToWrite(t, result) ==
  IF desk[t].task = "judge" /\ desk[t].left = 1 /\ desk[t].outcome = result THEN 1 ELSE 0

HypothesisCopied(t) ==
  /\ copy[t].memory = NoMemory
  /\ copy[t].rows = {} => copy[t].hypothesis = NoHypothesis
  /\ \A r \in copy[t].rows :
       /\ copy[t].hypothesis.successes + ToWrite(t, "succeeded") <= lessons[r].for
       /\ copy[t].hypothesis.failures + ToWrite(t, "failed") <= lessons[r].against

HypothesesFew ==
  /\ LessonsFew
  /\ \A r \in Rows : HypothesisSeen(hypothesis[r], r)
  /\ \A t \in Staff : HypothesisCopied(t)

LessonsGrow ==
  \A r \in Rows : lessons[r].for <= lessons'[r].for /\ lessons[r].against <= lessons'[r].against

LEMMA ToWriteType ==
  ASSUME NEW t, NEW result
  PROVE  ToWrite(t, result) \in {0, 1} /\ ToWrite(t, result)' \in {0, 1}
  BY DEF ToWrite

LEMMA HypothesesFewStart == LearningInit => HypothesesFew
  <1> SUFFICES ASSUME LearningInit PROVE HypothesesFew
    OBVIOUS
  <1>1. LessonsFew
    BY FewLessonsStart
  <1>2. \A r \in Rows : HypothesisSeen(hypothesis[r], r)
    BY EmptyRows DEF LearningInit, HypothesisSeen
  <1>3. \A t \in Staff : HypothesisCopied(t)
    BY DEF LearningInit, NoCopy, HypothesisCopied
  <1> QED
    BY <1>1, <1>2, <1>3 DEF HypothesesFew

\* After a step of one call.
LEMMA HypothesesFewAfter ==
  ASSUME HypothesesInv, HypothesesFew, HypothesesTyped', LessonsFew', LessonsGrow,
         NEW t \in Staff, HypothesisCopied(t)',
         \A u \in Staff : u # t => copy'[u] = copy[u] /\ desk'[u] = desk[u],
         \A r \in Rows : HypothesisSeen(hypothesis[r], r)'
  PROVE  HypothesesFew'
  <1>1. ASSUME NEW u \in Staff, u # t PROVE HypothesisCopied(u)'
    <2>1. copy'[u] = copy[u] /\ desk'[u] = desk[u] /\ HypothesisCopied(u)
      BY <1>1 DEF HypothesesFew
    <2>2. /\ copy[u].hypothesis.successes \in Nat /\ copy[u].hypothesis.failures \in Nat
          /\ copy[u].rows \subseteq Rows
      BY DEF HypothesesInv, HypothesesTyped, CopyRows, HypothesisRows
    <2> DEFINE s == ToWrite(u, "succeeded")
               f == ToWrite(u, "failed")
    <2>3. ToWrite(u, "succeeded")' = s /\ ToWrite(u, "failed")' = f /\ s \in {0, 1} /\ f \in {0, 1}
      BY <2>1 DEF ToWrite
    <2> HIDE DEF s, f
    <2>4. ASSUME NEW r \in copy[u].rows
          PROVE  /\ copy[u].hypothesis.successes + s <= lessons'[r].for
                 /\ copy[u].hypothesis.failures + f <= lessons'[r].against
      <3>1. /\ lessons[r].for \in Nat /\ lessons[r].against \in Nat
            /\ lessons'[r].for \in Nat /\ lessons'[r].against \in Nat
            /\ lessons[r].for <= lessons'[r].for /\ lessons[r].against <= lessons'[r].against
        BY <2>2 DEF HypothesesInv, HypothesesTyped, LessonRows, LessonsGrow
      <3>2. /\ copy[u].hypothesis.successes + s <= lessons[r].for
            /\ copy[u].hypothesis.failures + f <= lessons[r].against
        BY <2>1 DEF HypothesisCopied, s, f
      <3> QED
        BY <2>2, <2>3, <3>1, <3>2
    <2> QED
      BY <2>1, <2>3, <2>4 DEF HypothesisCopied
  <1> QED
    BY <1>1 DEF HypothesesFew

LEMMA SameLessonsGrow ==
  ASSUME lessons \in [Rows -> LessonRows], UNCHANGED lessons
  PROVE  LessonsGrow
  BY DEF LessonRows, LessonsGrow

\* What a call copies, that has nothing to write of the end of an experiment.
LEMMA HypothesisIsCopied ==
  ASSUME HypothesesInv, HypothesesFew, NEW t \in Staff, NEW rows \in SUBSET Rows, NEW h,
         Copies(t, rows, NoMemory, h), lessons' \in [Rows -> LessonRows], LessonsGrow,
         h = NoHypothesis \/ \E r \in Rows : rows = {r} /\ h = hypothesis[r],
         desk'[t].task # "judge" \/ desk'[t].left = 0
  PROVE  HypothesisCopied(t)' /\ \A u \in Staff : u # t => copy'[u] = copy[u]
  <1>1. /\ copy'[t].rows = rows /\ copy'[t].memory = NoMemory /\ copy'[t].hypothesis = h
        /\ \A u \in Staff : u # t => copy'[u] = copy[u]
    BY DEF Copies, HypothesesInv, HypothesesTyped
  <1>2. ToWrite(t, "succeeded")' = 0 /\ ToWrite(t, "failed")' = 0
    BY DEF ToWrite
  <1>3. \A r \in rows : h.successes + 0 <= lessons'[r].for /\ h.failures + 0 <= lessons'[r].against
    <2> SUFFICES ASSUME NEW r \in rows
                 PROVE  h.successes + 0 <= lessons'[r].for /\ h.failures + 0 <= lessons'[r].against
      OBVIOUS
    <2>1. /\ lessons[r].for \in Nat /\ lessons[r].against \in Nat
          /\ lessons'[r].for \in Nat /\ lessons'[r].against \in Nat
          /\ lessons[r].for <= lessons'[r].for /\ lessons[r].against <= lessons'[r].against
      BY DEF HypothesesInv, HypothesesTyped, LessonRows, LessonsGrow
    <2>2. CASE h = NoHypothesis
      BY <2>1, <2>2, EmptyRows
    <2>3. CASE h = hypothesis[r]
      <3>1. h.successes \in Nat /\ h.failures \in Nat
        BY <2>3 DEF HypothesesInv, HypothesesTyped, HypothesisRows
      <3>2. h.successes <= lessons[r].for /\ h.failures <= lessons[r].against
        BY <2>3 DEF HypothesesFew, HypothesisSeen
      <3> QED
        BY <2>1, <3>1, <3>2
    <2> QED
      BY <2>2, <2>3
  <1>4. rows = {} => h = NoHypothesis
    OBVIOUS
  <1> QED
    BY <1>1, <1>2, <1>3, <1>4 DEF HypothesisCopied

LEMMA HypothesisIsForgotten ==
  ASSUME HypothesesInv, NEW t \in Staff, Forgets(t)
  PROVE  HypothesisCopied(t)' /\ \A u \in Staff : u # t => copy'[u] = copy[u]
  BY DEF Forgets, NoCopy, HypothesisCopied, HypothesesInv, HypothesesTyped

\* A copy that stays is no less true when there is nothing to write.
LEMMA HypothesisStaysCopied ==
  ASSUME HypothesesInv, HypothesesFew, NEW t \in Staff, UNCHANGED <<copy, lessons>>,
         desk'[t].task # "judge"
  PROVE  HypothesisCopied(t)'
  <1>1. ToWrite(t, "succeeded")' = 0 /\ ToWrite(t, "failed")' = 0
    BY DEF ToWrite
  <1>2. HypothesisCopied(t)
    BY DEF HypothesesFew
  <1>3. ToWrite(t, "succeeded") \in {0, 1} /\ ToWrite(t, "failed") \in {0, 1}
    BY ToWriteType
  <1>4. ASSUME NEW r \in copy[t].rows
        PROVE  /\ copy[t].hypothesis.successes + 0 <= lessons[r].for
               /\ copy[t].hypothesis.failures + 0 <= lessons[r].against
    <2>1. /\ copy[t].hypothesis.successes \in Nat /\ copy[t].hypothesis.failures \in Nat
          /\ lessons[r].for \in Nat /\ lessons[r].against \in Nat
      BY DEF HypothesesInv, HypothesesTyped, CopyRows, HypothesisRows, LessonRows
    <2>2. /\ copy[t].hypothesis.successes + ToWrite(t, "succeeded") <= lessons[r].for
          /\ copy[t].hypothesis.failures + ToWrite(t, "failed") <= lessons[r].against
      BY <1>2 DEF HypothesisCopied
    <2> QED
      BY <1>3, <2>1, <2>2
  <1> QED
    BY <1>1, <1>2, <1>4 DEF HypothesisCopied

LEMMA HypothesesBeginFew ==
  ASSUME HypothesesInv, HypothesesTyped', HypothesesFew, NEW t \in Staff,
         UNCHANGED <<hypothesis, lessons>>,
         NEW task \in {"suppose", "start", "complete", "judge"},
         NEW result \in {"none"} \cup Ends \cup Experiments,
         Decides(t, task, result), task = "judge" => MoreLessons,
         \/ UNCHANGED copy /\ task # "judge"
         \/ \E rows \in SUBSET Rows : \E h :
              /\ Copies(t, rows, NoMemory, h)
              /\ h = NoHypothesis \/ \E r \in Rows : rows = {r} /\ h = hypothesis[r]
  PROVE  HypothesesFew'
  <1> DEFINE work == Work(task, result, 0)
  <1>1. work \in HypothesesWork /\ work.task = task /\ work.left = 0
    BY DEF Work, HypothesesWork
  <1>2. Takes(t, work)
    BY DEF Decides
  <1> HIDE DEF work
  <1>3. CallsTyped(HypothesesWork) /\ FaultsTyped
        /\ lessons \in [Rows -> LessonRows] /\ lessons' \in [Rows -> LessonRows]
    BY DEF HypothesesInv, HypothesesTyped
  <1>4. desk'[t] = work /\ \A u \in Staff : u # t => desk'[u] = desk[u]
    BY <1>1, <1>2, <1>3, TakesEffect
  <1>5. Due(t)' => MoreLessons
    BY <1>1, <1>4 DEF Due
  <1>6. LessonsFew'
    BY <1>1, <1>2, <1>3, <1>5, TakesFew DEF HypothesesFew
  <1>7. LessonsGrow
    BY <1>3, SameLessonsGrow
  <1>8. HypothesisCopied(t)' /\ \A u \in Staff : u # t => copy'[u] = copy[u]
    <2>1. CASE UNCHANGED copy /\ task # "judge"
      BY <1>1, <1>4, <2>1, HypothesisStaysCopied
    <2>2. ASSUME NEW rows \in SUBSET Rows, NEW h, Copies(t, rows, NoMemory, h),
                 h = NoHypothesis \/ \E r \in Rows : rows = {r} /\ h = hypothesis[r]
          PROVE  HypothesisCopied(t)' /\ \A u \in Staff : u # t => copy'[u] = copy[u]
      BY <1>1, <1>3, <1>4, <1>7, <2>2, HypothesisIsCopied
    <2> QED
      BY <2>1, <2>2
  <1>9. \A r \in Rows : HypothesisSeen(hypothesis[r], r)'
    BY DEF HypothesesFew, HypothesisSeen
  <1> QED
    BY <1>4, <1>6, <1>7, <1>8, <1>9, HypothesesFewAfter

LEMMA HypothesesWriteFew ==
  ASSUME HypothesesInv, HypothesesTyped', HypothesesFew, NEW t \in Staff,
         NEW next \in HypothesesWork, Writes(t, next), next.task # "judge",
         desk[t].task # "none", next.task \notin {"observe", "falsify"},
         HypothesisCopied(t)', \A u \in Staff : u # t => copy'[u] = copy[u],
         \A r \in Rows : HypothesisSeen(hypothesis[r], r)',
         UNCHANGED lessons \/ ((Due(t) \/ MoreLessons) /\ \E r \in Rows : SeesOneMore(r)),
         LessonsGrow
  PROVE  HypothesesFew'
  <1>1. CallsTyped(HypothesesWork) /\ FaultsTyped /\ lessons \in [Rows -> LessonRows]
        /\ lessons' \in [Rows -> LessonRows]
    BY DEF HypothesesInv, HypothesesTyped
  <1>2. desk'[t] = next /\ \A u \in Staff : u # t => desk'[u] = desk[u]
    BY <1>1, WritesEffect
  <1>3. ~Due(t)'
    BY <1>2 DEF Due
  <1>4. LessonsFew'
    BY <1>1, <1>3, WritesFew DEF HypothesesFew
  <1> QED
    BY <1>2, <1>4, HypothesesFewAfter

\* The evaluation at the end of an experiment reads a hypothesis that does not
\* count it yet.
LEMMA ReadHypothesisFew ==
  ASSUME HypothesesInv, HypothesesTyped', HypothesesFew, ~overlapped,
         NEW t \in Staff, NEW r \in Rows, ReadHypothesis(t, r)
  PROVE  HypothesesFew'
  <1>1. /\ desk[t].task = "evaluate" /\ copy[t].rows = {r} /\ desk[t].left = 1
        /\ desk[t].outcome \in Ends
        /\ UNCHANGED <<hypothesis, lessons, faults>>
    BY DEF ReadHypothesis, hypothesisTables, HypothesesInv, HypothesisWork
  <1>2. CallsTyped(HypothesesWork) /\ FaultsTyped
        /\ lessons \in [Rows -> LessonRows] /\ lessons' \in [Rows -> LessonRows]
    BY DEF HypothesesInv, HypothesesTyped
  <1>3. /\ desk'[t].task = "judge" /\ desk'[t].left = 1 /\ desk'[t].outcome = desk[t].outcome
        /\ \A u \in Staff : u # t => desk'[u] = desk[u]
    BY <1>1, <1>2 DEF ReadHypothesis, CallsTyped, HypothesesWork
  <1>4. /\ copy'[t].rows = {r} /\ copy'[t].memory = NoMemory /\ copy'[t].hypothesis = hypothesis[r]
        /\ \A u \in Staff : u # t => copy'[u] = copy[u]
    BY DEF ReadHypothesis, Copies, HypothesesInv, HypothesesTyped
  <1>5. LessonsGrow
    BY <1>1, <1>2, SameLessonsGrow
  <1>6. LessonsFew'
    <2>1. ~Due(t)' /\ desk[t] # NoWork
      BY <1>1, <1>3, NoWorkTask DEF Due
    <2>2. faults <= faults' /\ FaultsTyped'
      BY <1>1, <1>2, FaultsAssumption DEF FaultsTyped
    <2> QED
      BY <1>1, <1>2, <1>3, <2>1, <2>2, FewLessonsStep DEF HypothesesFew
  <1> DEFINE s == Cardinality(Unwritten(r, "succeeded"))
             f == Cardinality(Unwritten(r, "failed"))
  <1>7. /\ s \in Nat /\ f \in Nat
        /\ desk[t].outcome = "succeeded" => s >= 1
        /\ desk[t].outcome = "failed" => f >= 1
    <2>1. ASSUME NEW p, desk[t].outcome = p PROVE Cardinality(Unwritten(r, p)) >= 1
      <3>1. t \in Unwritten(r, p)
        BY <1>1, <2>1 DEF Unwritten
      <3>2. IsFiniteSet(Unwritten(r, p))
        BY UnwrittenIsFinite
      <3>3. /\ Cardinality(Unwritten(r, p) \ {t}) \in Nat
            /\ Cardinality(Unwritten(r, p)) = Cardinality(Unwritten(r, p) \ {t}) + 1
        BY <3>1, <3>2, OneLess
      <3> QED
        BY <3>3
    <2> QED
      BY <2>1, UnwrittenIsFinite
  <1>8. hypothesis[r].successes + s <= lessons[r].for /\ hypothesis[r].failures + f <= lessons[r].against
    BY DEF HypothesesInv, HypothesisTally
  <1>9. /\ ToWrite(t, "succeeded")' = IF desk[t].outcome = "succeeded" THEN 1 ELSE 0
        /\ ToWrite(t, "failed")' = IF desk[t].outcome = "failed" THEN 1 ELSE 0
    BY <1>3 DEF ToWrite
  <1> HIDE DEF s, f
  <1>10. /\ hypothesis[r].successes \in Nat /\ hypothesis[r].failures \in Nat
         /\ lessons[r].for \in Nat /\ lessons[r].against \in Nat
    BY <1>2 DEF HypothesesInv, HypothesesTyped, HypothesisRows, LessonRows
  <1>11. /\ hypothesis[r].successes + ToWrite(t, "succeeded")' <= lessons[r].for
         /\ hypothesis[r].failures + ToWrite(t, "failed")' <= lessons[r].against
    BY <1>7, <1>8, <1>9, <1>10
  <1>12. HypothesisCopied(t)'
    <2>1. lessons'[r] = lessons[r]
      BY <1>1
    <2>2. copy'[t].rows # {}
      BY <1>4
    <2>3. \A q \in copy'[t].rows : q = r
      BY <1>4
    <2> QED
      BY <1>4, <1>11, <2>1, <2>2, <2>3 DEF HypothesisCopied
  <1>13. \A q \in Rows : HypothesisSeen(hypothesis[q], q)'
    BY <1>1 DEF HypothesesFew, HypothesisSeen
  <1> QED
    BY <1>3, <1>4, <1>5, <1>6, <1>12, <1>13, HypothesesFewAfter

\* The end of an experiment is seen of its hypothesis.
LEMMA CompleteExperimentFew ==
  ASSUME HypothesesInv, HypothesesTyped', HypothesesFew, NEW t \in Staff, CompleteExperiment(t)
  PROVE  HypothesesFew'
  <1> DEFINE e == desk[t].outcome
  <1>1. /\ desk[t].task = "complete" /\ e \in Experiments /\ MoreLessons
        /\ UNCHANGED <<hypothesis, uncounted>>
    BY DEF CompleteExperiment, HypothesesInv, HypothesisWork
  <1>2. PICK result \in Ends :
          /\ experiment' = [experiment EXCEPT ![e].status = result]
          /\ Writes(t, Work("evaluate", result, 1))
    BY DEF CompleteExperiment, Ends
  <1>3. /\ Work("evaluate", result, 1) \in HypothesesWork
        /\ Work("evaluate", result, 1).task = "evaluate"
    BY DEF Work, HypothesesWork
  <1>4. CallsTyped(HypothesesWork) /\ FaultsTyped
        /\ lessons \in [Rows -> LessonRows] /\ lessons' \in [Rows -> LessonRows]
        /\ experiment[e].of \in SUBSET Rows /\ \A q, r \in experiment[e].of : q = r
    BY <1>1 DEF HypothesesInv, HypothesesTyped
  <1>5. desk'[t].task = "evaluate"
    BY <1>2, <1>3, <1>4, WritesEffect
  <1>6. ASSUME NEW r \in Rows
        PROVE  lessons'[r] = IF r \notin experiment[e].of THEN lessons[r] ELSE Seen(r, experiment'[e].status)
    BY DEF CompleteExperiment
  <1>7. ASSUME NEW r \in Rows, NEW p
        PROVE  /\ lessons[r].for <= Seen(r, p).for /\ lessons[r].against <= Seen(r, p).against
               /\ Seen(r, p).for + Seen(r, p).against = lessons[r].for + lessons[r].against + 1
    <2>1. lessons[r] \in LessonRows
      BY <1>4
    <2>2. CASE p = "succeeded"
      BY <2>1, <2>2 DEF Seen, LessonRows
    <2>3. CASE p # "succeeded"
      BY <2>1, <2>3 DEF Seen, LessonRows
    <2> QED
      BY <2>2, <2>3
  <1> DEFINE p == experiment'[e].status
             of == experiment[e].of
  <1> HIDE DEF p
  <1>8. LessonsGrow
    <2> SUFFICES ASSUME NEW r \in Rows
                 PROVE  lessons[r].for <= lessons'[r].for /\ lessons[r].against <= lessons'[r].against
      BY DEF LessonsGrow
    <2>1. CASE r \notin of
      BY <1>4, <1>6, <2>1 DEF LessonRows
    <2>2. CASE r \in of
      <3>1. lessons'[r] = Seen(r, p)
        BY <1>6, <2>2 DEF p
      <3> QED
        BY <1>7, <3>1
    <2> QED
      BY <2>1, <2>2
  <1>9. UNCHANGED lessons \/ \E r \in Rows : SeesOneMore(r)
    <2>1. CASE of = {}
      <3>1. \A r \in Rows : lessons'[r] = lessons[r]
        BY <1>6, <2>1
      <3> QED
        BY <1>4, <3>1
    <2>2. CASE of # {}
      <3>1. PICK r \in Rows : r \in of
        BY <1>4, <2>2
      <3>2. \A q \in Rows : q # r => lessons'[q] = lessons[q]
        BY <1>4, <1>6, <3>1
      <3>3. lessons'[r] = Seen(r, p)
        BY <1>6, <3>1 DEF p
      <3>4. SeesOneMore(r)
        BY <1>7, <3>2, <3>3 DEF SeesOneMore
      <3> QED
        BY <3>4
    <2> QED
      BY <2>1, <2>2
  <1>10. HypothesisCopied(t)' /\ \A u \in Staff : u # t => copy'[u] = copy[u]
    <2>1. Copies(t, of, NoMemory, NoHypothesis)
      BY DEF CompleteExperiment
    <2> HIDE DEF of
    <2>2. of \in SUBSET Rows
      BY <1>4 DEF of
    <2> QED
      BY <1>4, <1>5, <1>8, <2>1, <2>2, HypothesisIsCopied
  <1>11. \A r \in Rows : HypothesisSeen(hypothesis[r], r)'
    <2> SUFFICES ASSUME NEW r \in Rows PROVE HypothesisSeen(hypothesis[r], r)'
      OBVIOUS
    <2>1. /\ hypothesis[r].successes \in Nat /\ hypothesis[r].failures \in Nat
          /\ lessons[r].for \in Nat /\ lessons[r].against \in Nat
          /\ lessons'[r].for \in Nat /\ lessons'[r].against \in Nat
          /\ hypothesis'[r] = hypothesis[r]
          /\ lessons[r].for <= lessons'[r].for /\ lessons[r].against <= lessons'[r].against
      BY <1>1, <1>4, <1>8 DEF HypothesesInv, HypothesesTyped, HypothesisRows, LessonRows, LessonsGrow
    <2>2. HypothesisSeen(hypothesis[r], r)
      BY DEF HypothesesFew
    <2> QED
      BY <2>1, <2>2 DEF HypothesisSeen
  <1>12. /\ Work("evaluate", result, 1).task # "judge" /\ desk[t].task # "none"
         /\ Work("evaluate", result, 1).task \notin {"observe", "falsify"}
    BY <1>1, <1>3
  <1> QED
    BY <1>1, <1>2, <1>3, <1>8, <1>9, <1>10, <1>11, <1>12, HypothesesWriteFew

\* A row written that counts what was seen, and no other.
LEMMA HypothesesStaySeen ==
  ASSUME HypothesesInv, HypothesesTyped', HypothesesFew, LessonsGrow, NEW r \in Rows,
         \A q \in Rows : q # r => hypothesis'[q] = hypothesis[q],
         HypothesisSeen(hypothesis[r], r)'
  PROVE  \A q \in Rows : HypothesisSeen(hypothesis[q], q)'
  <1> SUFFICES ASSUME NEW q \in Rows, q # r PROVE HypothesisSeen(hypothesis[q], q)'
    OBVIOUS
  <1>1. /\ hypothesis[q].successes \in Nat /\ hypothesis[q].failures \in Nat
        /\ lessons[q].for \in Nat /\ lessons[q].against \in Nat
        /\ lessons'[q].for \in Nat /\ lessons'[q].against \in Nat
        /\ lessons[q].for <= lessons'[q].for /\ lessons[q].against <= lessons'[q].against
    BY DEF HypothesesInv, HypothesesTyped, HypothesisRows, LessonRows, LessonsGrow
  <1>2. HypothesisSeen(hypothesis[q], q)
    BY DEF HypothesesFew
  <1> QED
    BY <1>1, <1>2 DEF HypothesisSeen

LEMMA StoreHypothesisFew ==
  ASSUME HypothesesInv, HypothesesTyped', HypothesesFew, NEW t \in Staff, StoreHypothesis(t)
  PROVE  HypothesesFew'
  <1>1. /\ UNCHANGED lessons /\ desk[t].task # "none" /\ Writes(t, NoWork) /\ Forgets(t)
    BY DEF StoreHypothesis
  <1>2. /\ HypothesesTyped /\ lessons \in [Rows -> LessonRows] /\ lessons' \in [Rows -> LessonRows]
        /\ NoWork \in HypothesesWork /\ NoWork.task = "none"
    BY NoHypothesesWork, NoWorkTask DEF HypothesesInv, HypothesesTyped
  <1>3. LessonsGrow
    BY <1>1, <1>2, SameLessonsGrow
  <1>4. HypothesisCopied(t)' /\ \A u \in Staff : u # t => copy'[u] = copy[u]
    BY <1>1, HypothesisIsForgotten
  <1>5. \A r \in Rows : HypothesisSeen(hypothesis[r], r)'
    <2>1. CASE \E r \in copy[t].rows, sure \in Raised(copy[t].hypothesis.sure) :
                 hypothesis' = [hypothesis EXCEPT ![r].sure = sure]
      <3>1. PICK r \in copy[t].rows, sure \in Raised(copy[t].hypothesis.sure) :
              hypothesis' = [hypothesis EXCEPT ![r].sure = sure]
        BY <2>1
      <3>2. r \in Rows
        BY <1>2 DEF HypothesesTyped, CopyRows
      <3>3. \A q \in Rows : /\ hypothesis'[q].successes = hypothesis[q].successes
                            /\ hypothesis'[q].failures = hypothesis[q].failures
        BY <1>2, <3>1, <3>2 DEF HypothesesTyped, HypothesisRows
      <3> QED
        BY <1>1, <3>3 DEF HypothesesFew, HypothesisSeen
    <2>2. CASE \E r \in Blank, sure \in BOOLEAN :
                 hypothesis' = [hypothesis EXCEPT ![r] = Hypothesis("proposed", sure, 0, 0)]
      <3>1. PICK r \in Blank, sure \in BOOLEAN :
              hypothesis' = [hypothesis EXCEPT ![r] = Hypothesis("proposed", sure, 0, 0)]
        BY <2>2
      <3>2. r \in Rows
        BY DEF Blank
      <3>3. /\ hypothesis'[r].successes = 0 /\ hypothesis'[r].failures = 0
            /\ \A q \in Rows : q # r => hypothesis'[q] = hypothesis[q]
        BY <1>2, <3>1, <3>2 DEF HypothesesTyped, Hypothesis
      <3>4. lessons'[r].for \in Nat /\ lessons'[r].against \in Nat
        BY <1>2, <3>2 DEF LessonRows
      <3>5. HypothesisSeen(hypothesis[r], r)'
        BY <3>3, <3>4 DEF HypothesisSeen
      <3> QED
        BY <1>3, <3>2, <3>3, <3>5, HypothesesStaySeen
    <2> QED
      BY <2>1, <2>2 DEF StoreHypothesis
  <1> QED
    BY <1>1, <1>2, <1>3, <1>4, <1>5, HypothesesWriteFew

LEMMA StartExperimentFew ==
  ASSUME HypothesesInv, HypothesesTyped', HypothesesFew, NEW t \in Staff, StartExperiment(t)
  PROVE  HypothesesFew'
  <1>1. /\ UNCHANGED <<lessons, copy, hypothesis>> /\ desk[t].task # "none" /\ Writes(t, NoWork)
    BY DEF StartExperiment
  <1>2. /\ CallsTyped(HypothesesWork) /\ FaultsTyped
        /\ lessons \in [Rows -> LessonRows]
        /\ NoWork \in HypothesesWork /\ NoWork.task = "none"
    BY NoHypothesesWork, NoWorkTask DEF HypothesesInv, HypothesesTyped
  <1>3. LessonsGrow
    BY <1>1, <1>2, SameLessonsGrow
  <1>4. desk'[t] = NoWork
    BY <1>1, <1>2, WritesEffect
  <1>5. HypothesisCopied(t)' /\ \A u \in Staff : u # t => copy'[u] = copy[u]
    BY <1>1, <1>2, <1>4, HypothesisStaysCopied
  <1>6. \A r \in Rows : HypothesisSeen(hypothesis[r], r)'
    BY <1>1 DEF HypothesesFew, HypothesisSeen
  <1> QED
    BY <1>1, <1>2, <1>3, <1>5, <1>6, HypothesesWriteFew

LEMMA WriteEvaluationFew ==
  ASSUME HypothesesInv, HypothesesTyped', HypothesesFew, NEW t \in Staff, NEW r \in Rows,
         WriteEvaluation(t, r)
  PROVE  HypothesesFew'
  <1> DEFINE
    result == desk[t].outcome
    up == IF result = "succeeded" THEN 1 ELSE 0
    down == IF result = "failed" THEN 1 ELSE 0
    h == copy[t].hypothesis
  <1>1. /\ desk[t].task = "judge" /\ result \in Ends /\ copy[t].rows = {r}
        /\ h \in HypothesisRows /\ desk[t].left \in {0, 1}
        /\ Writes(t, NoWork) /\ Forgets(t)
    BY DEF WriteEvaluation, HypothesesInv, HypothesesTyped, HypothesisWork, CopyRows, CallsTyped,
           HypothesesWork
  <1>2. /\ HypothesesTyped /\ lessons \in [Rows -> LessonRows] /\ lessons' \in [Rows -> LessonRows]
        /\ NoWork \in HypothesesWork /\ NoWork.task = "none"
    BY NoHypothesesWork, NoWorkTask DEF HypothesesInv, HypothesesTyped
  <1>3. PICK row \in Judged(h, result) : hypothesis' = [hypothesis EXCEPT ![r] = row]
    BY DEF WriteEvaluation
  <1>4. row.successes = h.successes + up /\ row.failures = h.failures + down
    BY <1>1, <1>3, JudgedRow
  <1>5. hypothesis'[r] = row /\ \A q \in Rows : q # r => hypothesis'[q] = hypothesis[q]
    BY <1>2, <1>3 DEF HypothesesTyped
  <1>6. /\ h.successes \in Nat /\ h.failures \in Nat
        /\ lessons[r].for \in Nat /\ lessons[r].against \in Nat
    BY <1>1, <1>2 DEF HypothesisRows, LessonRows
  <1>7. /\ up \in {0, 1} /\ down \in {0, 1} /\ up + down = 1
    BY <1>1 DEF Ends
  <1>8. /\ lessons'[r].for = lessons[r].for + (IF desk[t].left = 1 THEN 0 ELSE up)
        /\ lessons'[r].against = lessons[r].against + (IF desk[t].left = 1 THEN 0 ELSE down)
        /\ \A q \in Rows : q # r => lessons'[q] = lessons[q]
        /\ desk[t].left = 1 => UNCHANGED lessons
    <2>1. CASE desk[t].left = 1
      BY <1>6, <2>1 DEF WriteEvaluation
    <2>2. CASE desk[t].left = 0
      <3>1. lessons' = [lessons EXCEPT ![r] = Seen(r, result)]
        BY <2>2 DEF WriteEvaluation
      <3>2. /\ Seen(r, result).for = lessons[r].for + up
            /\ Seen(r, result).against = lessons[r].against + down
        BY <1>1, <1>2 DEF Seen, LessonRows, Ends
      <3> QED
        BY <1>2, <2>2, <3>1, <3>2
    <2> QED
      BY <1>1, <2>1, <2>2
  <1>9. /\ ToWrite(t, "succeeded") = IF desk[t].left = 1 THEN up ELSE 0
        /\ ToWrite(t, "failed") = IF desk[t].left = 1 THEN down ELSE 0
    BY <1>1 DEF ToWrite
  <1>10. /\ h.successes + ToWrite(t, "succeeded") <= lessons[r].for
         /\ h.failures + ToWrite(t, "failed") <= lessons[r].against
    BY <1>1 DEF HypothesesFew, HypothesisCopied
  <1> HIDE DEF up, down, h, result
  <1>11. HypothesisSeen(hypothesis[r], r)'
    <2>1. h.successes + up <= lessons'[r].for /\ h.failures + down <= lessons'[r].against
      BY <1>1, <1>6, <1>7, <1>8, <1>9, <1>10
    <2> QED
      BY <1>4, <1>5, <2>1 DEF HypothesisSeen
  <1>12. LessonsGrow
    BY <1>1, <1>2, <1>6, <1>7, <1>8 DEF LessonRows, LessonsGrow
  <1>13. \A q \in Rows : HypothesisSeen(hypothesis[q], q)'
    BY <1>5, <1>11, <1>12, HypothesesStaySeen
  <1>14. HypothesisCopied(t)' /\ \A u \in Staff : u # t => copy'[u] = copy[u]
    BY <1>1, HypothesisIsForgotten
  <1>15. UNCHANGED lessons \/ (Due(t) /\ SeesOneMore(r))
    <2>1. CASE desk[t].left = 0
      <3>1. lessons'[r].for + lessons'[r].against = lessons[r].for + lessons[r].against + 1
        BY <1>6, <1>7, <1>8, <2>1
      <3> QED
        BY <1>1, <1>8, <2>1, <3>1 DEF Due, SeesOneMore
    <2> QED
      BY <1>1, <1>8, <2>1
  <1> QED
    BY <1>1, <1>2, <1>12, <1>13, <1>14, <1>15, HypothesesWriteFew

LEMMA HypothesesFewStep ==
  ASSUME HypothesesInv, HypothesesInv', HypothesesFew,
         [HypothesesNext /\ UNCHANGED memoryTables]_learningVars
  PROVE  HypothesesFew'
  <1>1. /\ HypothesesTyped /\ HypothesesTyped' /\ CallsTyped(HypothesesWork) /\ FaultsTyped
        /\ lessons \in [Rows -> LessonRows]
    BY DEF HypothesesInv, HypothesesTyped
  <1>2. ASSUME UNCHANGED <<hypothesis, lessons, copy, desk, faults>> PROVE HypothesesFew'
    <2>1. LessonsFew'
      BY <1>2, FewLessonsStay DEF HypothesesFew
    <2> QED
      BY <1>2, <2>1 DEF HypothesesFew, HypothesisCopied, HypothesisSeen, ToWrite
  <1>3. CASE UNCHANGED learningVars
    BY <1>2, <1>3 DEF learningVars, learningTables, hypothesisTables, callVars
  <1>4. ASSUME NEW e \in Experiments, NEW r \in Rows, PlanExperiment(e, r) PROVE HypothesesFew'
    BY <1>2, <1>4 DEF PlanExperiment, callVars
  <1>5. ASSUME NEW t \in Staff, FindHypothesis(t) PROVE HypothesesFew'
    <2>1. UNCHANGED <<hypothesis, lessons>> /\ Decides(t, "suppose", "none")
      BY <1>5 DEF FindHypothesis, hypothesisTables
    <2>2. \E rows \in SUBSET Rows : \E h :
            /\ Copies(t, rows, NoMemory, h)
            /\ h = NoHypothesis \/ \E r \in Rows : rows = {r} /\ h = hypothesis[r]
      <3>1. CASE \E r \in Supposed : Copies(t, {r}, NoMemory, hypothesis[r])
        <4>1. PICK r \in Supposed : Copies(t, {r}, NoMemory, hypothesis[r])
          BY <3>1
        <4>2. r \in Rows /\ {r} \in SUBSET Rows
          BY DEF Supposed
        <4> QED
          BY <4>1, <4>2
      <3>2. CASE Copies(t, {}, NoMemory, NoHypothesis)
        <4>1. {} \in SUBSET Rows
          OBVIOUS
        <4> QED
          BY <3>2, <4>1
      <3> QED
        BY <1>5, <3>1, <3>2 DEF FindHypothesis
    <2> QED
      BY <1>1, <2>1, <2>2, HypothesesBeginFew
  <1>6. ASSUME NEW t \in Staff, NEW e \in Experiments, NEW task \in {"start", "complete"},
               Decides(t, task, e), UNCHANGED learningTables
        PROVE  HypothesesFew'
    <2>1. UNCHANGED <<hypothesis, lessons, copy>>
      BY <1>6 DEF learningTables, hypothesisTables
    <2> QED
      BY <1>1, <1>6, <2>1, HypothesesBeginFew
  <1>7. ASSUME NEW t \in Staff, NEW r \in Rows, NEW result \in {"succeeded", "failed"},
               BeginEvaluation(t, r, result)
        PROVE  HypothesesFew'
    <2>1. /\ UNCHANGED <<hypothesis, lessons>> /\ Decides(t, "judge", result) /\ MoreLessons
          /\ Copies(t, {r}, NoMemory, hypothesis[r]) /\ {r} \in SUBSET Rows /\ result \in Ends
      BY <1>7 DEF BeginEvaluation, hypothesisTables, Ends
    <2>2. \E rows \in SUBSET Rows : \E h :
            /\ Copies(t, rows, NoMemory, h)
            /\ h = NoHypothesis \/ \E q \in Rows : rows = {q} /\ h = hypothesis[q]
      BY <2>1
    <2> QED
      BY <1>1, <2>1, <2>2, HypothesesBeginFew
  <1>8. ASSUME NEW t \in Staff, LearningCallDies(t) PROVE HypothesesFew'
    <2>1. Leaves(t) /\ Forgets(t) /\ Fault /\ UNCHANGED <<hypothesis, lessons>>
      BY <1>8 DEF LearningCallDies
    <2>2. LessonsFew'
      BY <1>1, <2>1, LeavesFew DEF HypothesesFew
    <2>3. HypothesisCopied(t)' /\ \A u \in Staff : u # t => copy'[u] = copy[u]
      BY <2>1, HypothesisIsForgotten
    <2>4. \A r \in Rows : HypothesisSeen(hypothesis[r], r)'
      BY <2>1 DEF HypothesesFew, HypothesisSeen
    <2>5. \A u \in Staff : u # t => desk'[u] = desk[u]
      BY <1>1, <2>1 DEF Leaves, CallsTyped
    <2>6. LessonsGrow
      BY <1>1, <2>1, SameLessonsGrow
    <2> QED
      BY <1>1, <2>2, <2>3, <2>4, <2>5, <2>6, HypothesesFewAfter
  <1>9. ASSUME NEW t \in Staff, StoreHypothesis(t) PROVE HypothesesFew'
    BY <1>1, <1>9, StoreHypothesisFew
  <1>10. ASSUME NEW t \in Staff, StartExperiment(t) PROVE HypothesesFew'
    BY <1>1, <1>10, StartExperimentFew
  <1>11. ASSUME NEW t \in Staff, CompleteExperiment(t) PROVE HypothesesFew'
    BY <1>1, <1>11, CompleteExperimentFew
  <1>12. ASSUME NEW t \in Staff, NEW r \in Rows, WriteEvaluation(t, r) PROVE HypothesesFew'
    BY <1>1, <1>12, WriteEvaluationFew
  <1>13. ASSUME ~overlapped, NEW t \in Staff, NEW r \in Rows, ReadHypothesis(t, r) PROVE HypothesesFew'
    BY <1>1, <1>13, ReadHypothesisFew
  <1> QED
    BY <1>3, <1>4, <1>5, <1>6, <1>7, <1>8, <1>9, <1>10, <1>11, <1>12, <1>13
    DEF HypothesesNext, BeginStart, BeginCompletion

LEMMA HypothesesTypeCorrect == HypothesesSpec => []LearningTypeOK
  <1> DEFINE Inv == HypothesesInv /\ HypothesesFew
  <1>1. LearningInit => Inv
    BY InitHypothesesInv, HypothesesFewStart
  <1>2. Inv /\ [HypothesesNext /\ UNCHANGED memoryTables]_learningVars => Inv'
    BY NextHypothesesInv, HypothesesFewStep
  <1>3. Inv => LearningTypeOK
    <2> SUFFICES ASSUME HypothesesInv, HypothesesFew PROVE LearningTypeOK
      OBVIOUS
    <2>1. /\ CallsTyped(HypothesesWork) /\ FaultsTyped /\ HypothesesTyped /\ LessonsFew
          /\ lessons \in [Rows -> LessonRows]
      BY DEF HypothesesInv, HypothesesFew, HypothesesTyped
    <2>2. /\ lessons \in [Rows -> [for : Lessons, against : Lessons]]
          /\ \A r \in Rows, n \in Nat : n <= lessons[r].for \/ n <= lessons[r].against => n \in Lessons
          /\ 0 \in Lessons
      BY <2>1, LessonsTyped
    <2>3. ASSUME NEW h \in HypothesisRows, NEW r \in Rows, HypothesisSeen(h, r) PROVE h \in Hypotheses
      <3>1. h.successes \in Lessons /\ h.failures \in Lessons
        BY <2>2, <2>3 DEF HypothesisSeen, HypothesisRows
      <3> QED
        BY <3>1 DEF HypothesisRows, Hypotheses
    <2>4. NoMemory \in Memories /\ NoHypothesis \in Hypotheses
      BY <2>2 DEF NoMemory, Memory, Memories, NoHypothesis, Hypothesis, Hypotheses
    <2>5. memory \in [Rows -> Memories] /\ hypothesis \in [Rows -> Hypotheses]
      BY <2>1, <2>3, <2>4 DEF HypothesesTyped, HypothesesFew
    <2>6. ASSUME NEW t \in Staff
          PROVE  copy[t].rows \subseteq Rows /\ copy[t].memory \in Memories /\ copy[t].hypothesis \in Hypotheses
      <3>1. HypothesisCopied(t) /\ copy[t].rows \subseteq Rows /\ copy[t].hypothesis \in HypothesisRows
        BY <2>1 DEF HypothesesFew, HypothesesTyped, CopyRows
      <3>2. copy[t].hypothesis \in Hypotheses
        <4>1. CASE copy[t].rows = {}
          BY <2>4, <3>1, <4>1 DEF HypothesisCopied
        <4>2. CASE copy[t].rows # {}
          <5>1. PICK r \in copy[t].rows : TRUE
            BY <4>2
          <5>2. /\ copy[t].hypothesis.successes + ToWrite(t, "succeeded") <= lessons[r].for
                /\ copy[t].hypothesis.failures + ToWrite(t, "failed") <= lessons[r].against
            BY <3>1, <5>1 DEF HypothesisCopied
          <5>3. /\ ToWrite(t, "succeeded") \in {0, 1} /\ ToWrite(t, "failed") \in {0, 1}
                /\ copy[t].hypothesis.successes \in Nat /\ copy[t].hypothesis.failures \in Nat
                /\ r \in Rows /\ lessons[r].for \in Nat /\ lessons[r].against \in Nat
            BY <2>1, <3>1, <5>1, ToWriteType DEF HypothesisRows, LessonRows
          <5>4. HypothesisSeen(copy[t].hypothesis, r)
            BY <5>2, <5>3 DEF HypothesisSeen
          <5> QED
            BY <2>3, <3>1, <5>3, <5>4
        <4> QED
          BY <4>1, <4>2
      <3> QED
        BY <2>4, <3>1, <3>2 DEF HypothesisCopied
    <2>7. ASSUME NEW e \in Experiments
          PROVE  /\ experiment[e].status \in {"none", "planned", "running", "succeeded", "failed"}
                 /\ experiment[e].of \in SUBSET Rows
                 /\ Cardinality(experiment[e].of) <= 1
      <3>1. /\ experiment[e].status \in {"none", "planned", "running", "succeeded", "failed"}
            /\ experiment[e].of \in SUBSET Rows /\ \A q, r \in experiment[e].of : q = r
        BY <2>1 DEF HypothesesTyped, Ends
      <3>2. CASE experiment[e].of = {}
        BY <3>1, <3>2, FS_EmptySet
      <3>3. CASE experiment[e].of # {}
        <4>1. PICK r : experiment[e].of = {r}
          BY <3>1, <3>3
        <4>2. Cardinality(experiment[e].of) = 1
          BY <4>1, FS_Singleton
        <4> QED
          BY <3>1, <4>2
      <3> QED
        BY <3>2, <3>3
    <2>8. desk \in [Staff ->
            [task : {"none", "remember", "observe", "falsify", "promote", "force", "cycle",
                     "decay", "suppose", "start", "complete", "evaluate", "judge"},
             outcome : {"none", "succeeded", "failed"} \cup Experiments, left : {0, 1}]]
      <3>1. \A t \in Staff : desk[t] \in HypothesesWork
        BY <2>1 DEF CallsTyped
      <3>2. HypothesesWork \subseteq
            [task : {"none", "remember", "observe", "falsify", "promote", "force", "cycle",
                     "decay", "suppose", "start", "complete", "evaluate", "judge"},
             outcome : {"none", "succeeded", "failed"} \cup Experiments, left : {0, 1}]
        BY DEF HypothesesWork, Ends
      <3> QED
        BY <2>1, <3>1, <3>2 DEF CallsTyped
    <2>9. knowledge \subseteq Rows /\ uncounted \subseteq Rows
      BY <2>1 DEF HypothesesTyped
    <2> QED
      BY <2>1, <2>2, <2>5, <2>6, <2>7, <2>8, <2>9
      DEF LearningTypeOK, CallsTyped, FaultsTyped
  <1> QED
    BY <1>1, <1>2, <1>3, PTL DEF HypothesesSpec

-----------------------------------------------------------------------------
(* The composition: the system that moves follows its own specification.    *)

\* (SellerSteps and ProtocolSteps bound some systems further, and so do
\* InDirectOrder and FirstMarket; what holds without the bounds holds with them.)
LEMMA DirectMoves == CallsSpec /\ system = "direct" => DirectSpec
  <1> DEFINE Here == system = "direct"
  <1>1. CallsBegin => DirectInit
    BY DEF CallsBegin
  <1>2. ASSUME Here, [CallsNext]_callsVars
        PROVE  Here' /\ [DirectNext]_directVars
    <2>1. CASE UNCHANGED callsVars
      BY <1>2, <2>1 DEF callsVars
    <2>2. CASE CallsNext
      BY <1>2, <2>2 DEF CallsNext, DirectSteps, SellerSteps, ProtocolSteps, FoundationSteps
    <2> QED
      BY <1>2, <2>1, <2>2
  <1> QED
    BY <1>1, <1>2, PTL DEF CallsSpec, DirectSpec

LEMMA FactoryMoves == CallsSpec /\ system = "factory" => FactorySpec
  <1> DEFINE Here == system = "factory"
  <1>1. CallsBegin => FactoryInit
    BY DEF CallsBegin
  <1>2. ASSUME Here, [CallsNext]_callsVars
        PROVE  Here' /\ [FactoryNext]_factoryVars
    <2>1. CASE UNCHANGED callsVars
      BY <1>2, <2>1 DEF callsVars
    <2>2. CASE CallsNext
      BY <1>2, <2>2 DEF CallsNext, DirectSteps, SellerSteps, ProtocolSteps, FoundationSteps
    <2> QED
      BY <1>2, <2>1, <2>2
  <1> QED
    BY <1>1, <1>2, PTL DEF CallsSpec, FactorySpec

LEMMA AgentsMoves == CallsSpec /\ system = "agents" => AgentsSpec
  <1> DEFINE Here == system = "agents"
  <1>1. CallsBegin => AgentsInit
    BY DEF CallsBegin
  <1>2. ASSUME Here, [CallsNext]_callsVars
        PROVE  Here' /\ [AgentsNext]_agentVars
    <2>1. CASE UNCHANGED callsVars
      BY <1>2, <2>1 DEF callsVars
    <2>2. CASE CallsNext
      BY <1>2, <2>2 DEF CallsNext, DirectSteps, SellerSteps, ProtocolSteps, FoundationSteps
    <2> QED
      BY <1>2, <2>1, <2>2
  <1> QED
    BY <1>1, <1>2, PTL DEF CallsSpec, AgentsSpec

LEMMA AccountsMoves == CallsSpec /\ system = "accounts" => AccountsSpec
  <1> DEFINE Here == system = "accounts"
  <1>1. CallsBegin => AccountsInit
    BY DEF CallsBegin
  <1>2. ASSUME Here, [CallsNext]_callsVars
        PROVE  Here' /\ [AccountsNext]_accountVars
    <2>1. CASE UNCHANGED callsVars
      BY <1>2, <2>1 DEF callsVars
    <2>2. CASE CallsNext
      BY <1>2, <2>2 DEF CallsNext, DirectSteps, SellerSteps, ProtocolSteps, FoundationSteps
    <2> QED
      BY <1>2, <2>1, <2>2
  <1> QED
    BY <1>1, <1>2, PTL DEF CallsSpec, AccountsSpec

LEMMA ThreatsMoves == CallsSpec /\ system = "threats" => ThreatsSpec
  <1> DEFINE Here == system = "threats"
  <1>1. CallsBegin => ResponsesInit
    BY DEF CallsBegin
  <1>2. ASSUME Here, [CallsNext]_callsVars
        PROVE  Here' /\ [ThreatsNext]_responseVars
    <2>1. CASE UNCHANGED callsVars
      BY <1>2, <2>1 DEF callsVars
    <2>2. CASE CallsNext
      BY <1>2, <2>2 DEF CallsNext, DirectSteps, SellerSteps, ProtocolSteps, FoundationSteps
    <2> QED
      BY <1>2, <2>1, <2>2
  <1> QED
    BY <1>1, <1>2, PTL DEF CallsSpec, ThreatsSpec

LEMMA ResponsesMoves == CallsSpec /\ system = "responses" => ResponsesSpec
  <1> DEFINE Here == system = "responses"
  <1>1. CallsBegin => ResponsesInit
    BY DEF CallsBegin
  <1>2. ASSUME Here, [CallsNext]_callsVars
        PROVE  Here' /\ [ResponsesNext]_responseVars
    <2>1. CASE UNCHANGED callsVars
      BY <1>2, <2>1 DEF callsVars
    <2>2. CASE CallsNext
      BY <1>2, <2>2 DEF CallsNext, DirectSteps, SellerSteps, ProtocolSteps, FoundationSteps
    <2> QED
      BY <1>2, <2>1, <2>2
  <1> QED
    BY <1>1, <1>2, PTL DEF CallsSpec, ResponsesSpec

LEMMA AdaptationMoves == CallsSpec /\ system = "adaptation" => AdaptationSpec
  <1> DEFINE Here == system = "adaptation"
  <1>1. CallsBegin => AdaptationInit
    BY DEF CallsBegin
  <1>2. ASSUME Here, [CallsNext]_callsVars
        PROVE  Here' /\ [AdaptationNext]_adaptationVars
    <2>1. CASE UNCHANGED callsVars
      BY <1>2, <2>1 DEF callsVars
    <2>2. CASE CallsNext
      BY <1>2, <2>2 DEF CallsNext, DirectSteps, SellerSteps, ProtocolSteps, FoundationSteps
    <2> QED
      BY <1>2, <2>1, <2>2
  <1> QED
    BY <1>1, <1>2, PTL DEF CallsSpec, AdaptationSpec

LEMMA PartnersMoves == CallsSpec /\ system = "partners" => PartnersSpec
  <1> DEFINE Here == system = "partners"
  <1>1. CallsBegin => PartnersInit
    BY DEF CallsBegin
  <1>2. ASSUME Here, [CallsNext]_callsVars
        PROVE  Here' /\ [PartnersNext]_partnerVars
    <2>1. CASE UNCHANGED callsVars
      BY <1>2, <2>1 DEF callsVars
    <2>2. CASE CallsNext
      BY <1>2, <2>2 DEF CallsNext, DirectSteps, SellerSteps, ProtocolSteps, FoundationSteps
    <2> QED
      BY <1>2, <2>1, <2>2
  <1> QED
    BY <1>1, <1>2, PTL DEF CallsSpec, PartnersSpec

LEMMA MemoryMoves == CallsSpec /\ system = "memory" => MemorySpec
  <1> DEFINE Here == system = "memory"
  <1>1. CallsBegin => LearningInit
    BY DEF CallsBegin
  <1>2. ASSUME Here, [CallsNext]_callsVars
        PROVE  Here' /\ [MemoryNext /\ UNCHANGED hypothesisTables]_learningVars
    <2>1. CASE UNCHANGED callsVars
      BY <1>2, <2>1 DEF callsVars
    <2>2. CASE CallsNext
      BY <1>2, <2>2 DEF CallsNext, DirectSteps, SellerSteps, ProtocolSteps, FoundationSteps
    <2> QED
      BY <1>2, <2>1, <2>2
  <1> QED
    BY <1>1, <1>2, PTL DEF CallsSpec, MemorySpec

LEMMA HypothesesMoves == CallsSpec /\ system = "hypotheses" => HypothesesSpec
  <1> DEFINE Here == system = "hypotheses"
  <1>1. CallsBegin => LearningInit
    BY DEF CallsBegin
  <1>2. ASSUME Here, [CallsNext]_callsVars
        PROVE  Here' /\ [HypothesesNext /\ UNCHANGED memoryTables]_learningVars
    <2>1. CASE UNCHANGED callsVars
      BY <1>2, <2>1 DEF callsVars
    <2>2. CASE CallsNext
      BY <1>2, <2>2 DEF CallsNext, DirectSteps, SellerSteps, ProtocolSteps, FoundationSteps
    <2> QED
      BY <1>2, <2>1, <2>2
  <1> QED
    BY <1>1, <1>2, PTL DEF CallsSpec, HypothesesSpec

LEMMA RulingsMoves == CallsSpec /\ system \in {"rulings", "supply"} => RulingsSpec
  <1> DEFINE Here == system \in {"rulings", "supply"}
  <1>1. CallsBegin => RulingsInit
    BY DEF CallsBegin
  <1>2. ASSUME Here, [CallsNext]_callsVars
        PROVE  Here' /\ [QueueNext \/ SupplyNext]_rulingVars
    <2>1. CASE UNCHANGED callsVars
      BY <1>2, <2>1 DEF callsVars
    <2>2. CASE CallsNext
      BY <1>2, <2>2 DEF CallsNext, DirectSteps, SellerSteps, ProtocolSteps, FoundationSteps
    <2> QED
      BY <1>2, <2>1, <2>2
  <1> QED
    BY <1>1, <1>2, PTL DEF CallsSpec, RulingsSpec

LEMMA AuthorityMoves == CallsSpec /\ system = "authority" => AuthoritySpec
  <1> DEFINE Here == system = "authority"
  <1>1. CallsBegin => AuthorityInit
    BY DEF CallsBegin
  <1>2. ASSUME Here, [CallsNext]_callsVars
        PROVE  Here' /\ [AuthorityNext]_authorityVars
    <2>1. CASE UNCHANGED callsVars
      BY <1>2, <2>1 DEF callsVars
    <2>2. CASE CallsNext
      BY <1>2, <2>2 DEF CallsNext, DirectSteps, SellerSteps, ProtocolSteps, FoundationSteps
    <2> QED
      BY <1>2, <2>1, <2>2
  <1> QED
    BY <1>1, <1>2, PTL DEF CallsSpec, AuthoritySpec


-----------------------------------------------------------------------------
(* The systems that do not move.                                            *)

DirectRests ==
  /\ claimedFor = [x \in DirectPayments |-> NoOrder]
  /\ direct = [o \in DirectOrders |-> [status |-> "none", payment |-> NoPayment, used |-> FALSE]]
  /\ allocated = {}

LEMMA PaymentIsKeptInCalls == CallsSpec => []PaymentIsKept
  <1> DEFINE Here == system = "direct"
  <1>1. CallsBegin => DirectRests
    BY DEF CallsBegin, DirectInit, DirectRests
  <1>2. ASSUME DirectRests, ~Here, [CallsNext]_callsVars
        PROVE  DirectRests' /\ ~Here'
    <2>1. UNCHANGED <<direct, claimedFor, allocated, system>>
      BY <1>2 DEF CallsNext, DirectSteps, SellerSteps, ProtocolSteps, FoundationSteps, callsVars,
                  otherTables, directTables, directVars
    <2> QED
      BY <1>2, <2>1 DEF DirectRests
  <1>3. DirectRests => PaymentIsKept
    <2> SUFFICES ASSUME DirectRests, NEW o \in DirectOrders
                 PROVE  PaidByItsOwn(o) /\ OnRecord(o) /\ GoesOn(o)
      BY DEF PaymentIsKept
    <2>1. Taken(o) = {}
      BY DirectAssumption DEF Taken, DirectRests
    <2>2. Cardinality(Taken(o)) # 1
      BY <2>1, FS_EmptySet
    <2>3. direct[o].payment = NoPayment /\ ~direct[o].used /\ o \notin allocated
      BY DEF DirectRests
    <2> QED
      BY <2>1, <2>2, <2>3 DEF PaidByItsOwn, OnRecord, GoesOn
  <1> QED
    BY <1>1, <1>2, <1>3, DirectMoves, PaymentsAreKept, PTL DEF CallsSpec

LEMMA RoutedIsTrustedInCalls == CallsSpec => []RoutedIsTrusted
  <1> DEFINE Here == system = "agents"
  <1> DEFINE Rests == agent = NoAgent
  <1>1. CallsBegin => Rests
    BY DEF CallsBegin, AgentsInit
  <1>2. ASSUME Rests, ~Here, [CallsNext]_callsVars
        PROVE  Rests' /\ ~Here'
    BY <1>2 DEF CallsNext, DirectSteps, SellerSteps, ProtocolSteps, FoundationSteps, callsVars,
                sellerTables, agentTables, agentVars
  <1>3. Rests => RoutedIsTrusted
    BY DEF RoutedIsTrusted, Routed, Offered, Listed, NoAgent, Agent
  <1> QED
    BY <1>1, <1>2, <1>3, AgentsMoves, RoutedAgentsAreTrusted, PTL DEF CallsSpec

LEMMA ExposureIsGovernedInCalls == CallsSpec => []ExposureIsGoverned
  <1> DEFINE Here == system = "adaptation"
  <1> DEFINE Rests == raises = 0 /\ proposals = 0
  <1>1. CallsBegin => Rests
    BY DEF CallsBegin, AdaptationInit
  <1>2. ASSUME Rests, ~Here, [CallsNext]_callsVars
        PROVE  Rests' /\ ~Here'
    BY <1>2 DEF CallsNext, DirectSteps, SellerSteps, ProtocolSteps, FoundationSteps, callsVars,
                otherTables, adaptationTables, adaptationVars
  <1>3. Rests => ExposureIsGoverned
    BY DEF ExposureIsGoverned
  <1> QED
    BY <1>1, <1>2, <1>3, AdaptationMoves, ExposureStaysGoverned, PTL DEF CallsSpec

LEMMA ReleaseIsEarnedInCalls == CallsSpec => []ReleaseIsEarned
  <1> DEFINE Here == system = "authority"
  <1>1. CallsBegin => ReleaseInv
    BY AuthorityBegins DEF CallsBegin
  <1>2. ASSUME ReleaseInv, ~Here, [CallsNext]_callsVars
        PROVE  ReleaseInv' /\ ~Here'
    <2>1. UNCHANGED <<authorityVars, system>>
      BY <1>2 DEF CallsNext, DirectSteps, SellerSteps, ProtocolSteps, FoundationSteps, callsVars,
                  foundationTables
    <2>2. [AuthorityNext]_authorityVars
      BY <2>1
    <2> QED
      BY <1>2, <2>1, <2>2, AuthorityKept
  <1>3. ReleaseInv => ReleaseIsEarned
    BY RestsOnClaims, NeverBetter DEF ReleaseIsEarned
  <1> QED
    BY <1>1, <1>2, <1>3, AuthorityMoves, ReleasesAreEarned, PTL DEF CallsSpec

LEMMA AgentsAreEarnedInCalls == CallsSpec => AgentsAreEarned
  <1> DEFINE Here == system = "factory"
  <1> DEFINE Rests == generated = 0
  <1> DEFINE Step ==
        generated' > generated =>
          /\ Earned
          /\ \/ overlapped'
             \/ /\ application.governance = "approved_for_sandbox"
                /\ generated' <= MaxAgentsAllowed
  <1>1. CallsBegin => Rests
    BY DEF CallsBegin, FactoryInit
  <1>2. ASSUME Rests, ~Here, [CallsNext]_callsVars
        PROVE  Rests' /\ ~Here'
    BY <1>2 DEF CallsNext, DirectSteps, SellerSteps, ProtocolSteps, FoundationSteps, callsVars,
                sellerTables, factoryTables, factoryVars
  <1>3. Rests /\ Rests' => [Step]_factoryVars
    OBVIOUS
  <1> HIDE DEF Rests, Step
  <1>4. CallsSpec /\ ~Here => [][Step]_factoryVars
    BY <1>1, <1>2, <1>3, PTL DEF CallsSpec
  <1>5. [][Step]_factoryVars => AgentsAreEarned
    BY PTL DEF AgentsAreEarned, Step
  <1> QED
    BY <1>4, <1>5, FactoryMoves, GeneratedAgentsAreEarned, PTL

OutreachRests ==
  /\ suppressed = {}
  /\ outbox = [p \in Proposals |-> NoProposal]
  /\ relation = [d \in Merchants |-> "none"]

LEMMA OutreachIsPermittedInCalls == CallsSpec => OutreachIsPermitted
  <1> DEFINE Here == system = "partners"
  <1> DEFINE Step ==
        \/ overlapped'
        \/ (\A p \in Proposals : ClaimIsPermitted(p)) /\ (\A d \in Merchants : OptOutStays(d))
  <1>1. CallsBegin => OutreachRests
    BY DEF CallsBegin, PartnersInit, OutreachRests
  <1>2. ASSUME OutreachRests, ~Here, [CallsNext]_callsVars
        PROVE  OutreachRests' /\ ~Here'
    <2>1. UNCHANGED <<suppressed, outbox, relation, system>>
      BY <1>2 DEF CallsNext, DirectSteps, SellerSteps, ProtocolSteps, FoundationSteps, callsVars,
                  otherTables, partnerTables, partnerVars
    <2> QED
      BY <1>2, <2>1 DEF OutreachRests
  <1>3. OutreachRests => SuppressionHolds /\ SentInTurn
    BY DEF OutreachRests, SuppressionHolds, SentInTurn, NoProposal, Proposal, MaxDeliveries
  <1>4. OutreachRests /\ OutreachRests' => [Step]_partnerVars
    BY DEF OutreachRests, ClaimIsPermitted, OptOutStays, NoProposal, Proposal
  <1> HIDE DEF Step
  <1>5. CallsSpec /\ ~Here => [](SuppressionHolds /\ SentInTurn) /\ [][Step]_partnerVars
    BY <1>1, <1>2, <1>3, <1>4, PTL DEF CallsSpec
  <1>6. [](SuppressionHolds /\ SentInTurn) /\ [][Step]_partnerVars => OutreachIsPermitted
    BY PTL DEF OutreachIsPermitted, Step
  <1> QED
    BY <1>5, <1>6, PartnersMoves, OutreachStaysPermitted, PTL

LearningRests ==
  /\ memory = [r \in Rows |-> NoMemory]
  /\ hypothesis = [r \in Rows |-> NoHypothesis]
  /\ knowledge = {}

LEMMA LearningIsEarnedInCalls == CallsSpec => LearningIsEarned
  <1> DEFINE Here == system \in {"memory", "hypotheses"}
  <1> DEFINE Step == \A r \in Rows : KnowledgeIsEarned(r) /\ RevivesOnReport(r)
  <1>1. CallsBegin => LearningRests
    BY DEF CallsBegin, LearningInit, LearningRests
  <1>2. ASSUME LearningRests, ~Here, [CallsNext]_callsVars
        PROVE  LearningRests' /\ ~Here'
    <2>1. UNCHANGED <<memory, hypothesis, knowledge, system>>
      BY <1>2 DEF CallsNext, DirectSteps, SellerSteps, ProtocolSteps, FoundationSteps, callsVars,
                  otherTables, learningTables, memoryTables, hypothesisTables, learningVars
    <2> QED
      BY <1>2, <2>1 DEF LearningRests
  <1>3. LearningRests => \A r \in Rows : CountsAreTrue(r)
    BY DEF LearningRests, CountsAreTrue, NoHypothesis, Hypothesis
  <1>4. LearningRests /\ LearningRests' => [Step]_learningVars
    BY DEF LearningRests, KnowledgeIsEarned, RevivesOnReport, Active, NoMemory, Memory
  <1> HIDE DEF Step
  <1>5. CallsSpec /\ ~Here => [](\A r \in Rows : CountsAreTrue(r)) /\ [][Step]_learningVars
    BY <1>1, <1>2, <1>3, <1>4, PTL DEF CallsSpec
  <1>6. [](\A r \in Rows : CountsAreTrue(r)) /\ [][Step]_learningVars => LearningIsEarned
    BY PTL DEF LearningIsEarned, Step
  <1>7. Here => system = "memory" \/ system = "hypotheses"
    OBVIOUS
  <1> QED
    BY <1>5, <1>6, <1>7, MemoryMoves, HypothesesMoves, MemoryStaysEarned, HypothesesStayEarned, PTL

FoundationRests ==
  /\ queue = [d \in Rulings |-> NoEntry]
  /\ session = [x \in Sessions |-> "none"]
  /\ counted = "none"

LEMMA FoundationIsConsistentInCalls == CallsSpec => FoundationIsConsistent
  <1> DEFINE Here == system \in {"rulings", "supply"}
  <1> DEFINE Step == RulingStays /\ VerifiedStays
  <1>1. CallsBegin => FoundationRests
    BY DEF CallsBegin, RulingsInit, FoundationRests
  <1>2. ASSUME FoundationRests, ~Here, [CallsNext]_callsVars
        PROVE  FoundationRests' /\ ~Here'
    <2>1. UNCHANGED <<queue, session, counted, system>>
      BY <1>2 DEF CallsNext, DirectSteps, SellerSteps, ProtocolSteps, FoundationSteps, callsVars,
                  foundationTables, queueTables, supplyTables, rulingVars
    <2> QED
      BY <1>2, <2>1 DEF FoundationRests
  <1>3. FoundationRests => PendingIsSingle /\ SuppliedOnce
    BY DEF FoundationRests, PendingIsSingle, SuppliedOnce, Pending, NoEntry, Entry, AreOne,
           ContributionsOf, VerifiedSessions
  <1>4. FoundationRests /\ FoundationRests' => [Step]_rulingVars
    BY DEF FoundationRests, RulingStays, VerifiedStays, VerifiedSessions
  <1> HIDE DEF Step
  <1>5. CallsSpec /\ ~Here => [](PendingIsSingle /\ SuppliedOnce) /\ [][Step]_rulingVars
    BY <1>1, <1>2, <1>3, <1>4, PTL DEF CallsSpec
  <1>6. [](PendingIsSingle /\ SuppliedOnce) /\ [][Step]_rulingVars => FoundationIsConsistent
    BY PTL DEF FoundationIsConsistent, Step
  <1> QED
    BY <1>5, <1>6, RulingsMoves, FoundationStaysConsistent, PTL

AccountRests ==
  /\ account = [status |-> "pending", verified |-> FALSE, risk |-> 0]
  /\ capability = NoCapability
  /\ recovery = NoRecovery
  /\ ruledOut = FALSE

LEMMA SellerIsGovernedInCalls == CallsSpec => SellerIsGoverned
  <1> DEFINE Here == system = "accounts"
  <1> DEFINE Safe0 == ApprovedIsIdentified /\ RulingHolds /\ AvailableIsAllowed /\ RecoveryIsMadeOnce
  <1>1. CallsBegin => AccountRests
    BY DEF CallsBegin, AccountsInit, AccountRests
  <1>2. ASSUME AccountRests, ~Here, [CallsNext]_callsVars
        PROVE  AccountRests' /\ ~Here'
    <2>1. UNCHANGED <<account, capability, recovery, ruledOut, system>>
      BY <1>2 DEF CallsNext, DirectSteps, SellerSteps, ProtocolSteps, FoundationSteps, callsVars,
                  sellerTables, accountTables, accountVars
    <2> QED
      BY <1>2, <2>1 DEF AccountRests
  <1>3. AccountRests => Safe0
    BY DEF AccountRests, ApprovedIsIdentified, RulingHolds, AvailableIsAllowed, RecoveryIsMadeOnce,
           NoCapability, NoRecovery
  <1>4. AccountRests /\ AccountRests' => [RiskStays]_accountVars
    BY DEF AccountRests, RiskStays
  <1> HIDE DEF Safe0
  <1>5. CallsSpec /\ ~Here => []Safe0 /\ [][RiskStays]_accountVars
    BY <1>1, <1>2, <1>3, <1>4, PTL DEF CallsSpec
  <1>6. []Safe0 /\ [][RiskStays]_accountVars => SellerIsGoverned
    BY PTL DEF SellerIsGoverned, Safe0
  <1> QED
    BY <1>5, <1>6, AccountsMoves, SellersStayGoverned, PTL

ThreatRests ==
  /\ threat = NoRead
  /\ about = [t \in Staff |-> {}]

LEMMA ResponsesAreBoundedInCalls == CallsSpec => ResponsesAreBounded
  <1> DEFINE Here == system \in {"threats", "responses"}
  <1> DEFINE Step == ArchivedStays /\ ResponseIsWithinBudget
  <1>1. CallsBegin => ThreatRests
    BY DEF CallsBegin, ResponsesInit, ThreatRests
  <1>2. ASSUME ThreatRests, ~Here, [CallsNext]_callsVars
        PROVE  ThreatRests' /\ ~Here'
    <2>1. UNCHANGED <<threat, about, system>>
      BY <1>2 DEF CallsNext, DirectSteps, SellerSteps, ProtocolSteps, FoundationSteps, callsVars,
                  sellerTables, threatTables, responseVars
    <2> QED
      BY <1>2, <2>1 DEF ThreatRests, NoRead
  <1>3. ThreatRests => ThreatsAreDistinct
    BY DEF ThreatRests, ThreatsAreDistinct, ActiveOf, NoRead, NoThreat, Threat
  <1>4. ThreatRests /\ ThreatRests' => [Step]_responseVars
    BY DEF ThreatRests, ArchivedStays, ResponseIsWithinBudget, NoRead, NoThreat, Threat
  <1> HIDE DEF Step
  <1>5. CallsSpec /\ ~Here => []ThreatsAreDistinct /\ [][Step]_responseVars
    BY <1>1, <1>2, <1>3, <1>4, PTL DEF CallsSpec
  <1>6. []ThreatsAreDistinct /\ [][Step]_responseVars => ResponsesAreBounded
    BY PTL DEF ResponsesAreBounded, Step
  <1>7. Here => system = "threats" \/ system = "responses"
    OBVIOUS
  <1> QED
    BY <1>5, <1>6, <1>7, ThreatsMoves, ResponsesMoves, ThreatsStayDistinct, ResponsesStayBounded, PTL

\* Whichever system moves, every property about safety of the calls holds: of the
\* system itself because its handlers keep it, of the others because they rest.
THEOREM CallsStaySafe ==
  CallsSpec =>
    /\ [](PaymentIsKept /\ RoutedIsTrusted /\ ExposureIsGoverned /\ ReleaseIsEarned)
    /\ AgentsAreEarned /\ OutreachIsPermitted /\ LearningIsEarned /\ FoundationIsConsistent
    /\ SellerIsGoverned /\ ResponsesAreBounded
  BY PaymentIsKeptInCalls, RoutedIsTrustedInCalls, ExposureIsGovernedInCalls,
     ReleaseIsEarnedInCalls, AgentsAreEarnedInCalls, OutreachIsPermittedInCalls,
     LearningIsEarnedInCalls, FoundationIsConsistentInCalls, SellerIsGovernedInCalls,
     ResponsesAreBoundedInCalls, PTL

-----------------------------------------------------------------------------
(* Every table and every call keeps its type.                               *)

LEMMA NoneIsOutdated == CallsInit => OutdatedAtWork
  BY DEF CallsInit, OutdatedAtWork

LEMMA DirectAtWork == DirectSpec => []OutdatedAtWork
  <1>1. DirectInit => OutdatedAtWork
    BY NoneIsOutdated DEF DirectInit
  <1>2. DirectTypeOK /\ OutdatedAtWork /\ [DirectNext]_directVars => OutdatedAtWork'
    BY DirectCalls, NoneMoves DEF directVars
  <1> QED
    BY <1>1, <1>2, DirectTypeCorrect, PTL DEF DirectSpec

LEMMA FactoryAtWork == FactorySpec => []OutdatedAtWork
  <1>1. FactoryInit => OutdatedAtWork
    BY NoneIsOutdated DEF FactoryInit
  <1>2. FactoryTypeOK /\ OutdatedAtWork /\ [FactoryNext]_factoryVars => OutdatedAtWork'
    BY FactoryCalls, NoneMoves DEF factoryVars
  <1> QED
    BY <1>1, <1>2, FactoryTyped, PTL DEF FactorySpec

LEMMA AgentsAtWork == AgentsSpec => []OutdatedAtWork
  <1>1. AgentsInit => OutdatedAtWork
    BY NoneIsOutdated DEF AgentsInit
  <1>2. AgentsTypeOK /\ OutdatedAtWork /\ [AgentsNext]_agentVars => OutdatedAtWork'
    BY AgentsCalls, NoneMoves DEF agentVars
  <1> QED
    BY <1>1, <1>2, AgentsTypeCorrect, PTL DEF AgentsSpec

LEMMA AccountsAtWork == AccountsSpec => []OutdatedAtWork
  <1>1. AccountsInit => OutdatedAtWork
    BY NoneIsOutdated DEF AccountsInit
  <1>2. AccountsTypeOK /\ OutdatedAtWork /\ [AccountsNext]_accountVars => OutdatedAtWork'
    BY AccountsCalls, NoneMoves DEF accountVars
  <1> QED
    BY <1>1, <1>2, AccountsTypeCorrect, PTL DEF AccountsSpec

LEMMA AdaptationAtWork == AdaptationSpec => []OutdatedAtWork
  <1>1. AdaptationInit => OutdatedAtWork
    BY NoneIsOutdated DEF AdaptationInit
  <1>2. AdaptationTypeOK /\ OutdatedAtWork /\ [AdaptationNext]_adaptationVars => OutdatedAtWork'
    BY AdaptationCalls, NoneMoves DEF adaptationVars
  <1> QED
    BY <1>1, <1>2, AdaptationTypeCorrect, PTL DEF AdaptationSpec

LEMMA PartnersAtWork == PartnersSpec => []OutdatedAtWork
  <1>1. PartnersInit => OutdatedAtWork
    BY NoneIsOutdated DEF PartnersInit
  <1>2. PartnersTypeOK /\ OutdatedAtWork /\ [PartnersNext]_partnerVars => OutdatedAtWork'
    BY PartnersCalls, NoneMoves DEF partnerVars
  <1> QED
    BY <1>1, <1>2, PartnersTypeCorrect, PTL DEF PartnersSpec

LEMMA ThreatsAtWork == ThreatsSpec => []OutdatedAtWork
  <1>1. ResponsesInit => OutdatedAtWork
    BY NoneIsOutdated DEF ResponsesInit
  <1>2. ASSUME ThreatsInv, OutdatedAtWork, [ThreatsNext]_responseVars
        PROVE  OutdatedAtWork'
    <2>1. CallsTyped(ThreatWork)
      BY <1>2 DEF ThreatsInv
    <2>2. CASE ThreatsNext
      BY <1>2, <2>1, <2>2, ThreatsCalls DEF CallsTyped
    <2>3. CASE UNCHANGED responseVars
      BY <1>2, <2>3, NoneMoves DEF responseVars
    <2> QED
      BY <1>2, <2>2, <2>3
  <1>3. ThreatsInv /\ [ThreatsNext]_responseVars => ThreatsInv'
    BY ThreatsStep
  <1> QED
    BY <1>1, <1>2, <1>3, ThreatsStart, PTL DEF ThreatsSpec

LEMMA ResponsesAtWork == ResponsesSpec => []OutdatedAtWork
  <1>1. ResponsesInit => OutdatedAtWork
    BY NoneIsOutdated DEF ResponsesInit
  <1>2. ASSUME ResponsesInv, OutdatedAtWork, [ResponsesNext]_responseVars
        PROVE  OutdatedAtWork'
    <2>1. CallsTyped(ResponseWork)
      BY <1>2 DEF ResponsesInv
    <2>2. CASE ResponsesNext
      BY <1>2, <2>1, <2>2, ResponsesCalls DEF CallsTyped
    <2>3. CASE UNCHANGED responseVars
      BY <1>2, <2>3, NoneMoves DEF responseVars
    <2> QED
      BY <1>2, <2>2, <2>3
  <1>3. ResponsesInv /\ [ResponsesNext]_responseVars => ResponsesInv'
    BY ResponsesStep
  <1> QED
    BY <1>1, <1>2, <1>3, ResponsesStart, PTL DEF ResponsesSpec

LEMMA MemoryAtWork == MemorySpec => []OutdatedAtWork
  <1>1. LearningInit => OutdatedAtWork
    BY NoneIsOutdated DEF LearningInit
  <1>2. ASSUME MemoryInv, OutdatedAtWork, [MemoryNext /\ UNCHANGED hypothesisTables]_learningVars
        PROVE  OutdatedAtWork'
    <2>1. CallsTyped(MemoryWork)
      BY <1>2 DEF MemoryInv
    <2>2. CASE MemoryNext
      BY <1>2, <2>1, <2>2, MemoryCalls
    <2>3. CASE UNCHANGED learningVars
      BY <1>2, <2>3, NoneMoves DEF learningVars
    <2> QED
      BY <1>2, <2>2, <2>3
  <1> QED
    BY <1>1, <1>2, MemoryInductive, PTL DEF MemorySpec

LEMMA HypothesesAtWork == HypothesesSpec => []OutdatedAtWork
  <1>1. LearningInit => OutdatedAtWork
    BY NoneIsOutdated DEF LearningInit
  <1>2. ASSUME HypothesesInv, OutdatedAtWork, [HypothesesNext /\ UNCHANGED memoryTables]_learningVars
        PROVE  OutdatedAtWork'
    <2>1. CallsTyped(HypothesesWork)
      BY <1>2 DEF HypothesesInv
    <2>2. CASE HypothesesNext
      BY <1>2, <2>1, <2>2, HypothesesCalls
    <2>3. CASE UNCHANGED learningVars
      BY <1>2, <2>3, NoneMoves DEF learningVars
    <2> QED
      BY <1>2, <2>2, <2>3
  <1> QED
    BY <1>1, <1>2, HypothesesInductive, PTL DEF HypothesesSpec

LEMMA RulingsAtWork == RulingsSpec => []OutdatedAtWork
  <1>1. RulingsInit => OutdatedAtWork
    BY NoneIsOutdated DEF RulingsInit
  <1>2. ASSUME RulingsInv, OutdatedAtWork, [QueueNext \/ SupplyNext]_rulingVars
        PROVE  OutdatedAtWork'
    <2>1. CallsTyped(RulingWork)
      BY <1>2 DEF RulingsInv
    <2>2. CASE QueueNext \/ SupplyNext
      BY <1>2, <2>1, <2>2, RulingsCalls
    <2>3. CASE UNCHANGED rulingVars
      BY <1>2, <2>3, NoneMoves DEF rulingVars
    <2> QED
      BY <1>2, <2>2, <2>3
  <1> QED
    BY <1>1, <1>2, RulingsInductive, PTL DEF RulingsSpec

LEMMA AuthorityAtWork == CallsSpec /\ system = "authority" => []OutdatedAtWork
  <1> DEFINE Here == system = "authority"
  <1>1. CallsBegin => OutdatedAtWork
    BY NoneIsOutdated DEF CallsBegin, DirectInit
  <1>2. ASSUME Here, OutdatedAtWork, [CallsNext]_callsVars
        PROVE  Here' /\ OutdatedAtWork'
    <2>1. UNCHANGED callVars /\ UNCHANGED system
      BY <1>2 DEF CallsNext, DirectSteps, SellerSteps, ProtocolSteps, FoundationSteps, callsVars,
                  rulingVars
    <2> QED
      BY <1>2, <2>1, NoneMoves
  <1> QED
    BY <1>1, <1>2, PTL DEF CallsSpec

\* Whichever system moves, its tables and its calls keep their types, and a call
\* that is outdated is at work.
THEOREM CallsTypeCorrect == CallsSpec => []CallsTypeOK
  <1>1. CallsSpec /\ system = "direct" => []CallsTypeOK
    <2>1. OutdatedAtWork /\ DirectTypeOK /\ system = "direct" => CallsTypeOK
      BY DEF CallsTypeOK, OutdatedAtWork
    <2>2. system = "direct" /\ [CallsNext]_callsVars => (system = "direct")'
      BY DEF CallsNext, callsVars
    <2> QED
      BY <2>1, <2>2, DirectMoves, DirectTypeCorrect, DirectAtWork, PTL DEF CallsSpec
  <1>2. CallsSpec /\ system = "factory" => []CallsTypeOK
    <2>1. OutdatedAtWork /\ FactoryTypeOK /\ system = "factory" => CallsTypeOK
      BY DEF CallsTypeOK, OutdatedAtWork
    <2>2. system = "factory" /\ [CallsNext]_callsVars => (system = "factory")'
      BY DEF CallsNext, callsVars
    <2> QED
      BY <2>1, <2>2, FactoryMoves, FactoryTyped, FactoryAtWork, PTL DEF CallsSpec
  <1>3. CallsSpec /\ system = "agents" => []CallsTypeOK
    <2>1. OutdatedAtWork /\ AgentsTypeOK /\ system = "agents" => CallsTypeOK
      BY DEF CallsTypeOK, OutdatedAtWork
    <2>2. system = "agents" /\ [CallsNext]_callsVars => (system = "agents")'
      BY DEF CallsNext, callsVars
    <2> QED
      BY <2>1, <2>2, AgentsMoves, AgentsTypeCorrect, AgentsAtWork, PTL DEF CallsSpec
  <1>4. CallsSpec /\ system = "accounts" => []CallsTypeOK
    <2>1. OutdatedAtWork /\ AccountsTypeOK /\ system = "accounts" => CallsTypeOK
      BY DEF CallsTypeOK, OutdatedAtWork
    <2>2. system = "accounts" /\ [CallsNext]_callsVars => (system = "accounts")'
      BY DEF CallsNext, callsVars
    <2> QED
      BY <2>1, <2>2, AccountsMoves, AccountsTypeCorrect, AccountsAtWork, PTL DEF CallsSpec
  <1>5. CallsSpec /\ system = "threats" => []CallsTypeOK
    <2>1. OutdatedAtWork /\ ResponsesTypeOK /\ system = "threats" => CallsTypeOK
      BY DEF CallsTypeOK, OutdatedAtWork
    <2>2. system = "threats" /\ [CallsNext]_callsVars => (system = "threats")'
      BY DEF CallsNext, callsVars
    <2> QED
      BY <2>1, <2>2, ThreatsMoves, ThreatsTypeCorrect, ThreatsAtWork, PTL DEF CallsSpec
  <1>6. CallsSpec /\ system = "responses" => []CallsTypeOK
    <2>1. OutdatedAtWork /\ ResponsesTypeOK /\ system = "responses" => CallsTypeOK
      BY DEF CallsTypeOK, OutdatedAtWork
    <2>2. system = "responses" /\ [CallsNext]_callsVars => (system = "responses")'
      BY DEF CallsNext, callsVars
    <2> QED
      BY <2>1, <2>2, ResponsesMoves, ResponsesTypeCorrect, ResponsesAtWork, PTL DEF CallsSpec
  <1>7. CallsSpec /\ system = "adaptation" => []CallsTypeOK
    <2>1. OutdatedAtWork /\ AdaptationTypeOK /\ system = "adaptation" => CallsTypeOK
      BY DEF CallsTypeOK, OutdatedAtWork
    <2>2. system = "adaptation" /\ [CallsNext]_callsVars => (system = "adaptation")'
      BY DEF CallsNext, callsVars
    <2> QED
      BY <2>1, <2>2, AdaptationMoves, AdaptationTypeCorrect, AdaptationAtWork, PTL DEF CallsSpec
  <1>8. CallsSpec /\ system = "partners" => []CallsTypeOK
    <2>1. OutdatedAtWork /\ PartnersTypeOK /\ system = "partners" => CallsTypeOK
      BY DEF CallsTypeOK, OutdatedAtWork
    <2>2. system = "partners" /\ [CallsNext]_callsVars => (system = "partners")'
      BY DEF CallsNext, callsVars
    <2> QED
      BY <2>1, <2>2, PartnersMoves, PartnersTypeCorrect, PartnersAtWork, PTL DEF CallsSpec
  <1>9. CallsSpec /\ system = "memory" => []CallsTypeOK
    <2>1. OutdatedAtWork /\ LearningTypeOK /\ system = "memory" => CallsTypeOK
      BY DEF CallsTypeOK, OutdatedAtWork
    <2>2. system = "memory" /\ [CallsNext]_callsVars => (system = "memory")'
      BY DEF CallsNext, callsVars
    <2> QED
      BY <2>1, <2>2, MemoryMoves, MemoryTypeCorrect, MemoryAtWork, PTL DEF CallsSpec
  <1>10. CallsSpec /\ system = "hypotheses" => []CallsTypeOK
    <2>1. OutdatedAtWork /\ LearningTypeOK /\ system = "hypotheses" => CallsTypeOK
      BY DEF CallsTypeOK, OutdatedAtWork
    <2>2. system = "hypotheses" /\ [CallsNext]_callsVars => (system = "hypotheses")'
      BY DEF CallsNext, callsVars
    <2> QED
      BY <2>1, <2>2, HypothesesMoves, HypothesesTypeCorrect, HypothesesAtWork, PTL DEF CallsSpec
  <1>11. CallsSpec /\ system = "rulings" => []CallsTypeOK
    <2>1. system = "rulings" => system \in {"rulings", "supply"}
      OBVIOUS
    <2>2. OutdatedAtWork /\ RulingsTypeOK /\ system = "rulings" => CallsTypeOK
      BY DEF CallsTypeOK, OutdatedAtWork
    <2>3. system = "rulings" /\ [CallsNext]_callsVars => (system = "rulings")'
      BY DEF CallsNext, callsVars
    <2> QED
      BY <2>1, <2>2, <2>3, RulingsMoves, RulingsTypeCorrect, RulingsAtWork, PTL DEF CallsSpec
  <1>12. CallsSpec /\ system = "supply" => []CallsTypeOK
    <2>1. system = "supply" => system \in {"rulings", "supply"}
      OBVIOUS
    <2>2. OutdatedAtWork /\ RulingsTypeOK /\ system = "supply" => CallsTypeOK
      BY DEF CallsTypeOK, OutdatedAtWork
    <2>3. system = "supply" /\ [CallsNext]_callsVars => (system = "supply")'
      BY DEF CallsNext, callsVars
    <2> QED
      BY <2>1, <2>2, <2>3, RulingsMoves, RulingsTypeCorrect, RulingsAtWork, PTL DEF CallsSpec
  <1>13. CallsSpec /\ system = "authority" => []CallsTypeOK
    <2>1. OutdatedAtWork /\ AuthorityTypeOK /\ system = "authority" => CallsTypeOK
      BY DEF CallsTypeOK, OutdatedAtWork
    <2>2. system = "authority" /\ [CallsNext]_callsVars => (system = "authority")'
      BY DEF CallsNext, callsVars
    <2> QED
      BY <2>1, <2>2, AuthorityMoves, AuthorityTypeCorrect, AuthorityAtWork, PTL DEF CallsSpec
  <1>b. CallsBegin =>
          \/ system = "direct"
          \/ system = "factory"
          \/ system = "agents"
          \/ system = "accounts"
          \/ system = "threats"
          \/ system = "responses"
          \/ system = "adaptation"
          \/ system = "partners"
          \/ system = "memory"
          \/ system = "hypotheses"
          \/ system = "rulings"
          \/ system = "supply"
          \/ system = "authority"
    BY DEF CallsBegin
  <1> QED
    BY <1>b, <1>1, <1>2, <1>3, <1>4, <1>5, <1>6, <1>7, <1>8, <1>9, <1>10, <1>11, <1>12, <1>13, PTL DEF CallsSpec
=============================================================================
