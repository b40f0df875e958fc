--------------------------- MODULE MCQuotaCounters --------------------------
(* Model-checking instances of QuotaCounters. *)
EXTENDS QuotaCounters, TLC

CONSTANTS t1, t2, a, b, x1, x2

TwoTeams == {t1, t2}
TwoDomains == {a, b}
TwoTxs == {x1, x2}
TwoDays == 1..2
At(d, k) == [day |-> d, key |-> k]

(* One team's batches span two days and two domains; the other's mail goes  *)
(* to the domain they share.                                                *)
Spanning == t1 :> {<<At(2, a), At(1, b)>>, <<At(1, b), At(1, b)>>, <<At(1, a)>>}
            @@ t2 :> {<<At(1, b)>>, <<At(1, b), At(2, b)>>}
AnyPlans == [TwoTeams -> Kinds]
Symmetry == Permutations(TwoTxs)
Ceilings == "pool" :> 2 @@ "month" :> 1

=============================================================================
