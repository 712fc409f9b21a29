-------------------------- MODULE InspectionScoring ---------------------------
(***************************************************************************)
(* The suitability score of a site assessment.  save_assessment and        *)
(* submit_for_approval score the form they receive and store form, score   *)
(* and band in one update.  The score is that of the numbers sent; the     *)
(* columns then round them, hours to one decimal and square metres to two, *)
(* so that the stored numbers may lie on the other side of a limit.        *)
(*                                                                         *)
(* Hours are given in hundredths and square metres in thousandths, one     *)
(* digit finer than their columns.  Of the risks the score uses how many   *)
(* there are of each severity.                                             *)
(***************************************************************************)
EXTENDS Integers

CONSTANTS
    Forms,      \* forms an inspector may send
    None        \* no assessment yet

VARIABLE report     \* the assessment columns of the inspection report

WaterAccess == {"none", "limited", "reliable"}

Bands == {"not_suitable", "conditional", "suitable"}

(* What the request schema accepts; the installation types, of which there *)
(* is at least one, always earn their ten points.                          *)
FormTypes == [sunlight : Nat, water : WaterAccess, space : Nat,
              low : Nat, medium : Nat, high : Nat]

ASSUME FormAssumption == Forms \subseteq FormTypes /\ None \notin FormTypes

-----------------------------------------------------------------------------
(* score_assessment, term by term.                                         *)

(* The faulty variant counts hours that have begun.                        *)
FaultySunlightScore(hours) ==
    IF hours > 500 THEN 30 ELSE IF hours > 300 THEN 22
    ELSE IF hours > 100 THEN 10 ELSE 0

SunlightScore(hours) ==
    IF hours >= 600 THEN 30 ELSE IF hours >= 400 THEN 22
    ELSE IF hours >= 200 THEN 10 ELSE 0

WaterScore == [reliable |-> 25, limited |-> 12, none |-> 0]

(* The faulty variant confuses two of the limits.                          *)
FaultySpaceScore(m2) ==
    IF m2 >= 10000 THEN 15 ELSE IF m2 >= 5000 THEN 20
    ELSE IF m2 >= 2000 THEN 8 ELSE 3

SpaceScore(m2) ==
    IF m2 >= 10000 THEN 20 ELSE IF m2 >= 5000 THEN 15
    ELSE IF m2 >= 2000 THEN 8 ELSE 3

InstallationFit == 10

(* The faulty variant forgets the cap.                                     *)
FaultyRiskPenalty(f) == 2 * f.low + 5 * f.medium + 10 * f.high

RiskPenalty(f) ==
    LET sum == 2 * f.low + 5 * f.medium + 10 * f.high
    IN  IF sum < 15 THEN sum ELSE 15

Score(f) == SunlightScore(f.sunlight) + WaterScore[f.water]
            + SpaceScore(f.space) + InstallationFit + (15 - RiskPenalty(f))

BandOf(score) ==
    IF score >= 75 THEN "suitable"
    ELSE IF score >= 55 THEN "conditional" ELSE "not_suitable"

(* NUMERIC(4,1) and NUMERIC(10,2) round half up.                           *)
Rounded(x) == 10 * ((x + 5) \div 10)

Columns(f) == [f EXCEPT !.sunlight = Rounded(@), !.space = Rounded(@)]

(* "form" is what was sent; the table has only "columns".                  *)
Assessed(f) == [form |-> f, columns |-> Columns(f), score |-> Score(f),
                band |-> BandOf(Score(f))]

-----------------------------------------------------------------------------
Unassessed == [form |-> None, columns |-> None, score |-> 0, band |-> "none"]

Init == report = Unassessed

Assess(f) == report' = Assessed(f)

Next == \E f \in Forms : Assess(f)

Spec == Init /\ [][Next]_report

-----------------------------------------------------------------------------
(* Properties.                                                             *)

(* What the response schema and the column checks demand of every score:   *)
(* it is a percentage, whatever the risks.                                 *)
TypeOK ==
    \/ report = Unassessed
    \/ /\ report.form \in Forms
       /\ report.columns \in FormTypes
       /\ report.score \in 0 .. 100
       /\ report.band \in Bands

WaterRank == [none |-> 0, limited |-> 1, reliable |-> 2]

BandRank == [not_suitable |-> 0, conditional |-> 1, suitable |-> 2]

(* Form g describes a site at least as good as that of form f in every     *)
(* respect.                                                                *)
NoWorse(f, g) ==
    /\ f.sunlight <= g.sunlight /\ f.space <= g.space
    /\ WaterRank[f.water] <= WaterRank[g.water]
    /\ g.low <= f.low /\ g.medium <= f.medium /\ g.high <= f.high

(* Correcting an assessment for the better, in any respects at once, never *)
(* costs the site points or its band (score_assessment).                   *)
BetterSiteNeverWorse ==
    [][report # Unassessed /\ NoWorse(report.form, report'.form)
       => /\ report.score <= report'.score
          /\ BandRank[report.band] <= BandRank[report'.band]]_report

(* Rounding favours the site: whoever scores the stored columns again, or  *)
(* reads them beside the stored score, never finds a lower score or band   *)
(* than the one the decision was taken on.                                 *)
ColumnsNeverScoreLess ==
    report # Unassessed
    => /\ report.score <= Score(report.columns)
       /\ BandRank[report.band] <= BandRank[BandOf(Score(report.columns))]
=============================================================================
