---------------------------- MODULE MC_SummaryRetry ----------------------------
(* SummaryRetry with a few toots and short waits that grow. *)
EXTENDS SummaryRetry

GrowingBackoff == [n \in 0..MaxRetries - 1 |-> n + 1]

===============================================================================
