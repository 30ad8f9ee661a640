---------------------------- MODULE MCOAuthLogin ----------------------------
(* Small instances of OAuthLogin for TLC. *)
EXTENDS OAuthLogin

CONSTANTS o1, o2, s1, s2, l1, l2, h1, h2

\* Any operators, of whom nobody has a session yet; a login takes no notice of
\* the role.
MCInit ==
  /\ OAuthInit
  /\ issued = {}
  /\ \A o \in Operators : operators[o].role = "admin"

MCSpec == MCInit /\ [][OAuthNext]_allVars /\ OAuthFairness
=============================================================================
