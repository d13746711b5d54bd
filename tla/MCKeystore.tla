----------------------------- MODULE MCKeystore -----------------------------
EXTENDS Keystore, TLC

(* Processes and providers are only ever compared for equality.            *)
Symmetry == Permutations(Procs) \cup Permutations(Providers)
=============================================================================
