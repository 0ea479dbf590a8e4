------------------------------ MODULE MCLedger ------------------------------
(* Ledger on small instances.                                              *)
EXTENDS Ledger, TLC

\* Any handler may publish to any key.
MCKeysShared == [p \in Proc |-> Key]

\* One handler per run: its client sends the next request after the answer.
MCKeysOwn == [p \in Proc |-> {k \in Key : k[1] = p}]

MCSymmetry == Permutations(Proc)
MCSymmetryRuns == Permutations(Proc) \cup Permutations(Run)

=============================================================================
