----------------------------- MODULE TokenBucket -----------------------------
(***************************************************************************)
(* What the rate limiter of the login routes promises: every source        *)
(* address has a bucket that fills by one unit with every tick of the      *)
(* clock up to Capacity, and a request is let through exactly when it      *)
(* finds a token's worth of units, which it takes.  Buckets are always     *)
(* there and always up to date; RateLimiter shows how lazily refilled      *)
(* buckets that come and go implement this.                                *)
(***************************************************************************)
EXTENDS Integers

CONSTANTS
  IPs,       \* source addresses
  Capacity,  \* units in a full bucket
  Token      \* units a request costs

VARIABLES
  level,     \* the units in every bucket
  verdict    \* what the last request of every address was told

Init ==
  /\ level = [ip \in IPs |-> Capacity]
  /\ verdict = [ip \in IPs |-> "none"]

Fill ==
  /\ level' = [ip \in IPs |-> IF level[ip] < Capacity THEN level[ip] + 1 ELSE Capacity]
  /\ UNCHANGED verdict

Allow(ip) ==
  /\ level[ip] >= Token
  /\ level' = [level EXCEPT ![ip] = level[ip] - Token]
  /\ verdict' = [verdict EXCEPT ![ip] = "allowed"]

Deny(ip) ==
  /\ level[ip] < Token
  /\ verdict' = [verdict EXCEPT ![ip] = "denied"]
  /\ UNCHANGED level

Next == Fill \/ \E ip \in IPs : Allow(ip) \/ Deny(ip)

Spec == Init /\ [][Next]_<<level, verdict>>
=============================================================================
