------------------------------ MODULE GateHistory ------------------------------
(***************************************************************************)
(* The days of a scope whose complete runs runAutoPublish gates            *)
(* (ops/auto-publish-runner.ts, called by the daily sweep), one candidate  *)
(* at a time: a candidate is gated against the counts of its own trend     *)
(* points, and what the gate holds an operator may still publish by hand.  *)
(* The counts are those of the last GatePoints days.                       *)
(***************************************************************************)
EXTENDS AutoPublishGate

CONSTANTS Counts,     \* pending counts a fetch may bring
          GatePoints  \* prior points a candidate carries (4 in the code)

ASSUME GateAssumption == Counts \subseteq Nat /\ GatePoints \in Nat \ {0}

VARIABLE history  \* pending counts of the trend points, oldest first

GateInit == history = <<>>

\* extractGateInputs: every prior point is a candidate baseline, the last one is
\* the previous pending count.
PreviousPending == IF history = <<>> THEN NoCount ELSE Last(history)
Gate(quality, count) == Decision(quality, count, PreviousPending, history)

\* A publication of a new day adds a point; one of the same day replaces its point.
NewDay(count) ==
    LET all == Append(history, count)
    IN  history' = IF Len(all) > GatePoints THEN Tail(all) ELSE all
SameDay(count) == history # <<>> /\ history' = Append(Front(history), count)
Record(count) == NewDay(count) \/ SameDay(count)

AutoPublish(count) == Gate("complete", count) = "publish" /\ Record(count)

\* A held candidate, an outlier or a stale one, is reviewed and published.
PublishReviewed(quality, count) ==
    /\ quality # "partial"
    /\ Gate(quality, count) # "publish"
    /\ Record(count)

GateNext == \E count \in Counts :
    \/ AutoPublish(count)
    \/ \E quality \in {"complete", "stale"} : PublishReviewed(quality, count)

GateSpec == GateInit /\ [][GateNext]_history

-----------------------------------------------------------------------------

Others(i) == {history[j] : j \in DOMAIN history \ {i}}
Agree(counts) == \A a, b \in counts : a > 0 /\ b > 0 /\ (a < b => ~Far(b, a))

\* tests/auto-publish-gate.test.ts: "one bad publication does not poison the
\* baseline".  When all counts but one agree, whichever it is and however it came
\* about, a count between the others publishes and one far from all of them is held.
OneBadPublicationDoesNotPoison ==
    Len(history) >= 3 =>
        \A i \in DOMAIN history :
            history[i] > 0 /\ Agree(Others(i)) =>
                \A count \in Counts :
                    /\ (\E a, b \in Others(i) : a <= count /\ count <= b)
                           => Gate("complete", count) = "publish"
                    /\ Gate("complete", count) = "publish"
                           => \E a \in Others(i) : ~Far(count, a)

\* What is published without review is within the threshold of a count that was
\* really published, never only of a midpoint between counts that disagree
\* (same file: "does not invent a midpoint baseline").  The last count must be
\* positive: after a zero, middle counts that disagree leave the gate no baseline
\* and it publishes anything.
UnreviewedIsNearHistory ==
    [][\A count \in Counts :
          AutoPublish(count) /\ PreviousPending > 0
          => \E i \in DOMAIN history : history[i] > 0 /\ ~Far(count, history[i])]_history

=============================================================================
