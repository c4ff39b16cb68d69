-------------------------- MODULE MCMatchAggregate --------------------------
(***************************************************************************)
(* Instances of MatchAggregate for TLC.                                    *)
(***************************************************************************)
EXTENDS MatchAggregateProperties

CONSTANTS X, next

Run(percentage, failed) == [percentage |-> percentage, failed |-> failed]
\* A lower run that passed and a higher one that failed: the two orders the
\* scoring systems disagree on.
TwoRuns == {Run(1, FALSE), Run(2, TRUE)}

\* Nobody advances, or only the winner does.
TwoRoutings == {[k \in 1..3 |-> NoRule], [k \in 1..3 |-> IF k = 1 THEN next ELSE NoRule]}
=============================================================================
