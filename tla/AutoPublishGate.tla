---------------------------- MODULE AutoPublishGate ----------------------------
(***************************************************************************)
(* The decision of ops/auto-publish-gate.ts: publish a complete candidate  *)
(* unless its pending count lies more than a fifth away from a baseline    *)
(* drawn from recent history.  Baselines are kept doubled, so that the     *)
(* midpoint of two counts stays an integer; 0 stands for "no baseline",    *)
(* which the gate treats like a baseline that is not positive.             *)
(***************************************************************************)
EXTENDS Integers, Sequences, SequencesExt, Sorting

Missing == -1   \* a pending count the candidate does not carry
NoCount == 0

Distance(a, b) == IF a >= b THEN a - b ELSE b - a

\* deltaFraction > DEFAULT_AUTO_PUBLISH_DELTA_THRESHOLD = 0.2, over integers.
FarFromDoubled(value, doubled) == 5 * Distance(2 * value, doubled) > doubled
Far(value, other) == FarFromDoubled(value, 2 * other)

\* The positive candidates, in ascending order.
Positive(candidates) ==
    LET order == Ascending({i \in DOMAIN candidates : candidates[i] > 0}, candidates)
    IN  [k \in DOMAIN order |-> candidates[order[k]]]

\* selectBaseline: the median of the positive candidates; with an even number of
\* them, the midpoint of the two middle ones, provided these agree.
MidRange(candidates, previous) ==
    LET sorted == Positive(candidates)
    IN  IF sorted = <<>> THEN 2 * previous ELSE Head(sorted) + Last(sorted)
InventedMidpoint(candidates, previous) ==
    LET sorted == Positive(candidates)
        middle == Len(sorted) \div 2
    IN  CASE sorted = <<>> -> 2 * previous
          [] Len(sorted) % 2 = 1 -> 2 * sorted[middle + 1]
          [] OTHER -> sorted[middle] + sorted[middle + 1]
SelectBaseline(candidates, previous) ==
    LET sorted == Positive(candidates)
        middle == Len(sorted) \div 2
    IN  CASE sorted = <<>> -> 2 * previous
          [] Len(sorted) % 2 = 1 -> 2 * sorted[middle + 1]
          [] OTHER -> IF Far(sorted[middle + 1], sorted[middle]) THEN 2 * previous
                      ELSE sorted[middle] + sorted[middle + 1]

\* evaluateAutoPublish
Decision(quality, current, previous, candidates) ==
    LET baseline == SelectBaseline(candidates, previous)
    IN  CASE quality # "complete" -> "quality_not_complete"
          [] current = Missing -> "current_pending_missing"
          [] baseline > 0 /\ FarFromDoubled(current, baseline) -> "outlier_pending_delta"
          [] OTHER -> "publish"

=============================================================================
