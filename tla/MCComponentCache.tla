-------------------------- MODULE MCComponentCache --------------------------
(* Small instances of ComponentCache for TLC. *)
EXTENDS ComponentCache, TLC

CONSTANTS r1, r2, r3, w1, w2

\* The cache is empty, or an earlier lookup has just filled it.
JustCached ==
  [row \in Row |-> IF row \in PublicComponent THEN [comp |-> row, expiresAt |-> TTL]
                   ELSE NoEntry]

MCSpec == (Init \/ InitWith(JustCached)) /\ [][Next]_vars /\ Fairness

Symmetry == Permutations({r1, r2, r3} \cap Readers)
              \cup Permutations({w1, w2} \cap Writers)
=============================================================================
