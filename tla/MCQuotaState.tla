--------------------------- MODULE MCQuotaState ----------------------------
\* A small instance of QuotaState: an exhaustion, and a success before its reset.
EXTENDS QuotaState

TwoRecords ==
  {[at |-> 0, failed |-> TRUE, resets |-> 2], [at |-> 1, failed |-> FALSE, resets |-> 0]}

=============================================================================
