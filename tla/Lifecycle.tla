----------------------------- MODULE Lifecycle -----------------------------
(***************************************************************************)
(* The retention policy of a memory: pure functions from what its text     *)
(* shows to scores, a retention class and an expiry.  A text is the record *)
(* of the signals the policy looks for.  Scores are thousandths, weights   *)
(* hundredths, and so an admission score is in units of 10^-5.             *)
(***************************************************************************)
EXTENDS Integers, FiniteSetsExt

Kind == {"fact", "preference", "decision", "lesson", "summary",
         "conversational", "synthetic"}
Sensitivity == {"public", "personal", "sensitive", "restricted"}
RetentionClass == {"ephemeral", "working", "episodic", "long_term", "archive",
                   "compliance"}
Stable == {"fact", "preference", "decision"}

\* A text with no signal.  hint is the payload's confidence, NoHint without;
\* salient, specific and useful count the keywords found.
NoHint == -1
Plain ==
  [kind |-> "conversational", inferred |-> FALSE, hint |-> NoHint,
   sensitivity |-> "public", salient |-> 0, specific |-> 0, useful |-> 0,
   digit |-> FALSE, named |-> FALSE, temporal |-> FALSE, temporary |-> FALSE,
   long |-> FALSE]

Clamp(x, lo, hi) == IF x < lo THEN lo ELSE IF x > hi THEN hi ELSE x
\* A slip: what exceeds the cap counts for nothing.
DroppedAbove(x, hi) == IF x > hi THEN 0 ELSE x

AtMost(x, hi) == Min({x, hi})

-----------------------------------------------------------------------------
(* Scores.                                                                 *)

Salience(x) ==
  LET base == [decision |-> 880, preference |-> 780, fact |-> 720,
               lesson |-> 700, summary |-> 560, conversational |-> 420,
               synthetic |-> 420]
  IN  Clamp(base[x.kind] + AtMost(35 * x.salient, 180), 0, 1000)

Specificity(x) ==
  Clamp(280 + (IF x.digit THEN 180 ELSE 0) + (IF x.named THEN 220 ELSE 0)
            + AtMost(50 * x.specific, 200), 0, 1000)

Temporal(x) == IF x.temporal THEN 820 ELSE 200

ConfidenceForKind(x) ==
  IF x.inferred THEN 520
  ELSE IF x.kind \in Stable THEN 880
  ELSE IF x.kind = "lesson" THEN 720
  ELSE IF x.kind = "summary" THEN 680 ELSE 640
Confidence(x) ==
  Clamp(IF x.hint = NoHint THEN ConfidenceForKind(x) ELSE x.hint, 0, 1000)

Stability(x) ==
  IF x.inferred THEN 320
  ELSE IF x.temporary THEN 340
  ELSE IF x.kind \in Stable THEN 780
  ELSE IF x.kind = "lesson" THEN 620
  ELSE IF x.kind = "summary" THEN 500 ELSE 440

Utility(x) ==
  LET base == [preference |-> 720, decision |-> 720, lesson |-> 720,
               fact |-> 660, summary |-> 480, conversational |-> 380,
               synthetic |-> 380]
  IN  Clamp(base[x.kind] + AtMost(40 * x.useful, 180), 0, 1000)

Novelty(x) == IF x.long THEN 620 ELSE 350

SensitivityRisk ==
  [public |-> 0, personal |-> 4000, sensitive |-> 10000, restricted |-> 18000]

Admission(x) ==
  Clamp(22 * Salience(x) + 12 * Novelty(x) + 18 * Confidence(x)
          + 16 * Specificity(x) + 10 * Temporal(x) + 14 * Utility(x)
          + 8 * Stability(x) - SensitivityRisk[x.sensitivity]
          - (IF x.inferred THEN 10000 ELSE 0), 0, 100000)

-----------------------------------------------------------------------------
(* Decisions.                                                              *)

\* Slips: the inference test comes last; promotion asks for confidence alone.
ClassInferenceLast(x) ==
  IF x.sensitivity = "restricted" THEN "compliance"
  ELSE IF Salience(x) >= 750 \/ Stability(x) >= 720 \/ x.kind \in Stable
       THEN "long_term"
  ELSE IF x.inferred /\ Stability(x) < 450 THEN "ephemeral"
  ELSE IF x.kind = "lesson" THEN "archive" ELSE "episodic"
PromotedByConfidence(x) ==
  /\ x.kind \in Stable
  /\ Confidence(x) >= 700
  /\ x.sensitivity # "restricted"

ClassOf(x) ==
  IF x.sensitivity = "restricted" THEN "compliance"
  ELSE IF x.inferred /\ Stability(x) < 450 THEN "ephemeral"
  ELSE IF Salience(x) >= 750 \/ Stability(x) >= 720 \/ x.kind \in Stable
       THEN "long_term"
  ELSE IF x.kind = "lesson" THEN "archive" ELSE "episodic"

\* Days a record of a class is kept; NoExpiry when it does not expire.
NoExpiry == 1000000
Days(class, inferred) ==
  CASE class = "ephemeral" -> IF inferred THEN 30 ELSE 14
    [] class = "working"   -> 90
    [] class = "episodic"  -> 730
    [] OTHER               -> NoExpiry

\* expires_at_for: the time stored plus the days, in days.
ExpiresAt(x, stored) ==
  LET d == Days(ClassOf(x), x.inferred)
  IN  IF d = NoExpiry THEN NoExpiry ELSE stored + d

Promoted(x) ==
  /\ x.kind \in Stable
  /\ Stability(x) >= 550
  /\ Confidence(x) >= 700
  /\ x.sensitivity # "restricted"

IndexVector(x) == Admission(x) >= 34000 /\ ClassOf(x) # "ephemeral"

\* lifecycle_rank_adjustment of a record that is not filtered out, in 10^-6.
ClassAdjustment ==
  [long_term |-> 25000, archive |-> 12000, episodic |-> 6000,
   working |-> -6000, ephemeral |-> -35000, compliance |-> 0]
RankAdjustment(x) ==
  Clamp(((Admission(x) - 50000) * 6) \div 10 + (Utility(x) - 500) * 35
          + (Confidence(x) - 500) * 35 + (Specificity(x) - 450) * 25
          + (IF Promoted(x) \/ x.kind \in Stable THEN 25000 ELSE 0)
          + ClassAdjustment[ClassOf(x)]
          - (IF x.inferred THEN 25000 ELSE 0), -80000, 100000)

=============================================================================
