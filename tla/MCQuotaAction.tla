-------------------------- MODULE MCQuotaAction --------------------------
(* Instances of QuotaAction for TLC: the scopes each run requests. *)
EXTENDS QuotaAction, TLC

CONSTANTS a1, a2, s1

On(kind, target) == [kind |-> kind, target |-> target]

RefreshAndReset == {On("hard_refresh", All), On("quota_reset", a1)}
EveryKind == {On("hard_refresh", All), On("quota_reset", a1),
              On("cooldown_reset", a1), On("soft_refresh", s1)}

Symmetry == Permutations(Requests)
=============================================================================
