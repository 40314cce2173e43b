---------------------------- MODULE MCLifecycle -----------------------------
(***************************************************************************)
(* Instances of Lifecycle for TLC: the setups of workers and operations.   *)
(***************************************************************************)
EXTENDS Lifecycle, TLC, FiniteSetsExt

CONSTANTS a, b, c, p, q, t1, t2

SerialOps == {"create", "recycle", "restore", "destroy"}

SerialSetup  == [workers |-> 1, ops |-> SerialOps]
GivingSetup  == [workers |-> 1, ops |-> SerialOps \cup {"edit"}]
RacingSetup  == [workers |-> 2, ops |-> AllOps \ {"restore"}]
RefusedSetup == [workers |-> 1, ops |-> {"create", "refuse"}]

AllSetups == {SerialSetup, GivingSetup, RacingSetup}
OneRefused == {RefusedSetup}

Symmetry == Permutations(Object) \cup Permutations(Player) \cup Permutations(Task)

\* With objects given away the quotas balance only together: what one player
\* paid is refunded to another (moo/core/models/object.py, _refund_owner_quota).
QuotaConservedInAll ==
    Workers = 1 /\ "refuse" \notin Ops =>
        MapThenSumSet(LAMBDA r : quota[r], Player) + Cardinality(Live)
           = Allowance * Cardinality(Player)
=============================================================================
