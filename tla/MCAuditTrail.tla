---------------------------- MODULE MCAuditTrail ----------------------------
(* Small instances of AuditTrail for TLC. *)
EXTENDS AuditTrail, TLC

CONSTANTS q1, q2, q3, p1, p2

Symmetry == Permutations({q1, q2, q3} \cap Requests)
              \cup Permutations({p1, p2} \cap Pulls)
=============================================================================
