----------------------- MODULE InspectionScoringProofs ------------------------
(* Proofs about InspectionScoring, for every set of forms the schema       *)
(* accepts: the score is a percentage and grows with the site.             *)
EXTENDS InspectionScoring, TLAPS

(* Water access is worth points in the order of its rank.                  *)
LEMMA WaterMonotone ==
  ASSUME NEW v \in WaterAccess, NEW w \in WaterAccess,
         WaterRank[v] <= WaterRank[w]
  PROVE  /\ WaterScore[v] \in 0 .. 25
         /\ WaterScore[w] \in 0 .. 25
         /\ WaterScore[v] <= WaterScore[w]
<1>1. WaterScore["none"] = 0 /\ WaterScore["limited"] = 12 /\ WaterScore["reliable"] = 25
  BY DEF WaterScore
<1>2. WaterRank["none"] = 0 /\ WaterRank["limited"] = 1 /\ WaterRank["reliable"] = 2
  BY DEF WaterRank
<1> QED
  BY <1>1, <1>2 DEF WaterAccess

(* More hours of sun, or more space, never earn fewer points.              *)
LEMMA SunlightMonotone ==
  ASSUME NEW x \in Nat, NEW y \in Nat, x <= y
  PROVE  /\ SunlightScore(x) \in 0 .. 30
         /\ SunlightScore(y) \in 0 .. 30
         /\ SunlightScore(x) <= SunlightScore(y)
BY DEF SunlightScore

LEMMA SpaceMonotone ==
  ASSUME NEW x \in Nat, NEW y \in Nat, x <= y
  PROVE  /\ SpaceScore(x) \in 3 .. 20
         /\ SpaceScore(y) \in 3 .. 20
         /\ SpaceScore(x) <= SpaceScore(y)
BY DEF SpaceScore

(* Rounding never carries a number below a limit it has reached, because   *)
(* every limit is a multiple of the unit it rounds to.                     *)
LEMMA RoundedNat ==
  ASSUME NEW x \in Nat
  PROVE  Rounded(x) \in Nat
BY DEF Rounded

LEMMA RoundedScores ==
  ASSUME NEW x \in Nat
  PROVE  /\ SunlightScore(x) <= SunlightScore(Rounded(x))
         /\ SpaceScore(x) <= SpaceScore(Rounded(x))
<1>1. Rounded(x) \in Nat
  BY RoundedNat
<1>2. /\ x >= 200 => Rounded(x) >= 200
      /\ x >= 400 => Rounded(x) >= 400
      /\ x >= 600 => Rounded(x) >= 600
      /\ x >= 2000 => Rounded(x) >= 2000
      /\ x >= 5000 => Rounded(x) >= 5000
      /\ x >= 10000 => Rounded(x) >= 10000
  BY DEF Rounded
<1>3. SunlightScore(x) <= SunlightScore(Rounded(x))
  BY <1>1, <1>2 DEF SunlightScore
<1>4. SpaceScore(x) <= SpaceScore(Rounded(x))
  BY <1>1, <1>2 DEF SpaceScore
<1> QED
  BY <1>3, <1>4

LEMMA RoundedColumns ==
  ASSUME NEW f \in FormTypes
  PROVE  Columns(f) \in FormTypes
BY RoundedNat DEF Columns, FormTypes

(* Fewer risks never cost more points, and no number of them more than 15. *)
LEMMA RiskMonotone ==
  ASSUME NEW f \in FormTypes, NEW g \in FormTypes,
         g.low <= f.low, g.medium <= f.medium, g.high <= f.high
  PROVE  /\ RiskPenalty(f) \in 0 .. 15
         /\ RiskPenalty(g) \in 0 .. 15
         /\ RiskPenalty(g) <= RiskPenalty(f)
<1>1. /\ f.low \in Nat /\ f.medium \in Nat /\ f.high \in Nat
      /\ g.low \in Nat /\ g.medium \in Nat /\ g.high \in Nat
  BY DEF FormTypes
<1> DEFINE Sum(h) == 2 * h.low + 5 * h.medium + 10 * h.high
<1>2. Sum(f) \in Nat /\ Sum(g) \in Nat /\ Sum(g) <= Sum(f)
  BY <1>1
<1>3. /\ RiskPenalty(f) = IF Sum(f) < 15 THEN Sum(f) ELSE 15
      /\ RiskPenalty(g) = IF Sum(g) < 15 THEN Sum(g) ELSE 15
  BY DEF RiskPenalty
<1> HIDE DEF Sum
<1> QED
  BY <1>2, <1>3

(* A form that loses no term of the score against another loses nothing,   *)
(* and scores are percentages.                                             *)
LEMMA TermByTerm ==
  ASSUME NEW f \in FormTypes, NEW g \in FormTypes,
         SunlightScore(f.sunlight) <= SunlightScore(g.sunlight),
         WaterScore[f.water] <= WaterScore[g.water],
         SpaceScore(f.space) <= SpaceScore(g.space),
         RiskPenalty(g) <= RiskPenalty(f)
  PROVE  /\ Score(f) \in 0 .. 100
         /\ Score(g) \in 0 .. 100
         /\ Score(f) <= Score(g)
<1> DEFINE s == SunlightScore(f.sunlight)
           t == SunlightScore(g.sunlight)
           v == WaterScore[f.water]
           w == WaterScore[g.water]
           m == SpaceScore(f.space)
           n == SpaceScore(g.space)
           p == RiskPenalty(f)
           q == RiskPenalty(g)
<1>1. /\ f.sunlight \in Nat /\ g.sunlight \in Nat
      /\ f.space \in Nat /\ g.space \in Nat
      /\ f.water \in WaterAccess /\ g.water \in WaterAccess
      /\ f.low \in Nat /\ f.medium \in Nat /\ f.high \in Nat
      /\ g.low \in Nat /\ g.medium \in Nat /\ g.high \in Nat
  BY DEF FormTypes
<1>2. s \in 0 .. 30 /\ t \in 0 .. 30
  BY <1>1, SunlightMonotone
<1>3. v \in 0 .. 25 /\ w \in 0 .. 25
  BY <1>1, WaterMonotone DEF WaterRank, WaterAccess
<1>4. m \in 3 .. 20 /\ n \in 3 .. 20
  BY <1>1, SpaceMonotone
<1>5. p \in 0 .. 15 /\ q \in 0 .. 15
  BY <1>1, RiskMonotone
<1>6. /\ Score(f) = s + v + m + 10 + (15 - p)
      /\ Score(g) = t + w + n + 10 + (15 - q)
  BY DEF Score, InstallationFit
<1>7. s <= t /\ v <= w /\ m <= n /\ q <= p
  OBVIOUS
<1> HIDE DEF s, t, v, w, m, n, p, q
<1> QED
  BY <1>2, <1>3, <1>4, <1>5, <1>6, <1>7

(* No better site scores less.                                             *)
LEMMA ScoreMonotone ==
  ASSUME NEW f \in FormTypes, NEW g \in FormTypes, NoWorse(f, g)
  PROVE  /\ Score(f) \in 0 .. 100
         /\ Score(g) \in 0 .. 100
         /\ Score(f) <= Score(g)
<1>1. /\ f.sunlight \in Nat /\ g.sunlight \in Nat
      /\ f.space \in Nat /\ g.space \in Nat
      /\ f.water \in WaterAccess /\ g.water \in WaterAccess
  BY DEF FormTypes
<1>2. SunlightScore(f.sunlight) <= SunlightScore(g.sunlight)
  BY <1>1, SunlightMonotone DEF NoWorse
<1>3. SpaceScore(f.space) <= SpaceScore(g.space)
  BY <1>1, SpaceMonotone DEF NoWorse
<1>4. WaterScore[f.water] <= WaterScore[g.water]
  BY <1>1, WaterMonotone DEF NoWorse
<1>5. RiskPenalty(g) <= RiskPenalty(f)
  BY RiskMonotone DEF NoWorse
<1> QED
  BY <1>2, <1>3, <1>4, <1>5, TermByTerm

(* Nor do the columns a form is stored in.                                 *)
LEMMA ColumnScores ==
  ASSUME NEW f \in FormTypes
  PROVE  /\ Score(f) \in 0 .. 100
         /\ Score(Columns(f)) \in 0 .. 100
         /\ Score(f) <= Score(Columns(f))
<1> DEFINE c == Columns(f)
<1>1. c \in FormTypes
  BY RoundedColumns
<1>2. /\ c.sunlight = Rounded(f.sunlight) /\ c.space = Rounded(f.space)
      /\ c.water = f.water
      /\ c.low = f.low /\ c.medium = f.medium /\ c.high = f.high
      /\ f.sunlight \in Nat /\ f.space \in Nat /\ f.water \in WaterAccess
  BY DEF Columns, FormTypes
<1>3. /\ SunlightScore(f.sunlight) <= SunlightScore(c.sunlight)
      /\ SpaceScore(f.space) <= SpaceScore(c.space)
  BY <1>2, RoundedScores
<1>4. WaterScore[f.water] <= WaterScore[c.water]
  BY <1>2 DEF WaterScore, WaterAccess
<1>5. RiskPenalty(c) <= RiskPenalty(f)
  <2>1. f.low <= f.low /\ f.medium <= f.medium /\ f.high <= f.high
    BY DEF FormTypes
  <2> HIDE DEF c
  <2> QED
    BY <1>1, <1>2, <2>1, RiskMonotone
<1> HIDE DEF c
<1>6. Score(f) \in 0 .. 100 /\ Score(c) \in 0 .. 100 /\ Score(f) <= Score(c)
  BY <1>1, <1>3, <1>4, <1>5, TermByTerm
<1> QED
  BY <1>6 DEF c

(* Bands follow the score.                                                 *)
LEMMA BandMonotone ==
  ASSUME NEW x \in 0 .. 100, NEW y \in 0 .. 100, x <= y
  PROVE  /\ BandOf(x) \in Bands
         /\ BandRank[BandOf(x)] <= BandRank[BandOf(y)]
<1>1. /\ BandRank["not_suitable"] = 0 /\ BandRank["conditional"] = 1
      /\ BandRank["suitable"] = 2
  BY DEF BandRank
<1> QED
  BY <1>1 DEF Bands, BandOf

-----------------------------------------------------------------------------
(* The report holds nothing, or a form with its own score and band.        *)
IInv == report = Unassessed \/ \E f \in Forms : report = Assessed(f)

LEMMA Invariant == Spec => []IInv
<1>1. Init => IInv
  BY DEF Init, IInv
<1>2. IInv /\ [Next]_report => IInv'
  BY DEF IInv, Next, Assess
<1> QED
  BY <1>1, <1>2, PTL DEF Spec

(* Every score is a percentage with a band, for any number of risks.       *)
THEOREM TypeCorrect == Spec => []TypeOK
<1>1. IInv => TypeOK
  <2> SUFFICES ASSUME NEW f \in Forms, report = Assessed(f)
               PROVE  TypeOK
    BY DEF IInv, TypeOK
  <2>1. f \in FormTypes
    BY FormAssumption
  <2>2. NoWorse(f, f)
    BY <2>1 DEF NoWorse, FormTypes, WaterRank, WaterAccess
  <2>3. Score(f) \in 0 .. 100
    BY <2>1, <2>2, ScoreMonotone
  <2>4. BandOf(Score(f)) \in Bands
    <3>1. Score(f) <= Score(f)
      BY <2>3
    <3> QED
      BY <2>3, <3>1, BandMonotone
  <2>5. Columns(f) \in FormTypes
    BY <2>1, RoundedColumns
  <2> QED
    BY <2>3, <2>4, <2>5 DEF Assessed, TypeOK
<1> QED
  BY <1>1, Invariant, PTL

(* A better site never scores less and never falls into a lower band.      *)
THEOREM MonotoneCorrect == Spec => BetterSiteNeverWorse
<1>1. IInv /\ [Next]_report
      => [report # Unassessed /\ NoWorse(report.form, report'.form)
          => /\ report.score <= report'.score
             /\ BandRank[report.band] <= BandRank[report'.band]]_report
  <2> SUFFICES ASSUME NEW f \in Forms, report = Assessed(f),
                      NEW g \in Forms, report' = Assessed(g),
                      NoWorse(report.form, report'.form)
               PROVE  /\ report.score <= report'.score
                      /\ BandRank[report.band] <= BandRank[report'.band]
    BY DEF IInv, Next, Assess
  <2>1. f \in FormTypes /\ g \in FormTypes /\ NoWorse(f, g)
    BY FormAssumption DEF Assessed
  <2>2. Score(f) \in 0 .. 100 /\ Score(g) \in 0 .. 100 /\ Score(f) <= Score(g)
    BY <2>1, ScoreMonotone
  <2>3. BandRank[BandOf(Score(f))] <= BandRank[BandOf(Score(g))]
    BY <2>2, BandMonotone
  <2> QED
    BY <2>2, <2>3 DEF Assessed
<1> QED
  BY <1>1, Invariant, PTL DEF Spec, BetterSiteNeverWorse

(* The stored columns never score less than the stored score.              *)
THEOREM ColumnsCorrect == Spec => []ColumnsNeverScoreLess
<1>1. IInv => ColumnsNeverScoreLess
  <2> SUFFICES ASSUME NEW f \in Forms, report = Assessed(f)
               PROVE  ColumnsNeverScoreLess
    BY DEF IInv, ColumnsNeverScoreLess
  <2>1. f \in FormTypes
    BY FormAssumption
  <2>2. /\ Score(f) \in 0 .. 100
        /\ Score(Columns(f)) \in 0 .. 100
        /\ Score(f) <= Score(Columns(f))
    BY <2>1, ColumnScores
  <2>3. BandRank[BandOf(Score(f))] <= BandRank[BandOf(Score(Columns(f)))]
    BY <2>2, BandMonotone
  <2> QED
    BY <2>2, <2>3 DEF Assessed, ColumnsNeverScoreLess
<1> QED
  BY <1>1, Invariant, PTL
=============================================================================
