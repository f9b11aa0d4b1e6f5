----------------------------- MODULE MCWorkLease -----------------------------
(* Instances of WorkLease for TLC: two workers of one environment.          *)
EXTENDS WorkLease, TLC

AnyWorker == Permutations(Workers)

=============================================================================
