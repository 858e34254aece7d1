----------------------------- MODULE MCAccounts ----------------------------
\* A small instance of Accounts: three credentials, any two of which may be the same
\* person's, under one label.
EXTENDS Accounts, TLC

CONSTANTS a1, a2, a3, p1, p2, e1

ThreeLabels == a1 :> {"x@y"} @@ a2 :> {"x@y"} @@ a3 :> {"x@y"}
SameLabel == Permutations({a1, a2, a3}) \cup Permutations({p1, p2})
AnyCase == Labels \X Labels

=============================================================================
