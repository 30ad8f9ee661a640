-------------------------- MODULE MCOperatorAccess --------------------------
(* Small instances of OperatorAccess for TLC. *)
EXTENDS OperatorAccess, TLC

CONSTANTS o1, o2, s1, s2, r1, r2, l1, l2

\* A session that is there at the start has been accepted at the first moment
\* and expires at the next; the others are opened at any time.  The role of an
\* operator without a row does not matter, and it is no matter which of the
\* operators is the admin there has to be.
MCInit ==
  /\ Init
  /\ now = 1
  /\ \A s \in issued : sessions[s].expires_at = 2
  /\ ActiveAdmins # {} => o1 \in ActiveAdmins
  /\ \A o \in Operators : operators[o].status = "absent" => operators[o].role = "admin"

MCSpec == MCInit /\ [][Next]_vars

Symmetry == Permutations({r1, r2} \cap Requests)
              \cup Permutations({l1, l2} \cap Logins)
=============================================================================
