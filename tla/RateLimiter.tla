----------------------------- MODULE RateLimiter -----------------------------
(***************************************************************************)
(* The per-address token bucket in front of the login and callback routes  *)
(* (auth/internal/middleware/ratelimit.go).                                *)
(*                                                                         *)
(* check and reap each hold the mutex from beginning to end, so each is    *)
(* one step.  Tokens are counted in units, one unit being what one tick of *)
(* the clock refills, and a token costs Token of them: the fractions the   *)
(* code keeps in a float64 are whole numbers of units here.  time.Now      *)
(* carries a monotonic reading, so the clock only moves forward.           *)
(***************************************************************************)
EXTENDS Integers, Sequences

CONSTANTS
  IPs,       \* source addresses
  Capacity,  \* units in a full bucket
  Token,     \* units a request costs
  Window,    \* auditCoalesceWindow
  MaxTime    \* bound of the model: the clock stops there

ASSUME LimiterConstants ==
  /\ Token \in Nat \ {0}
  /\ Capacity \in Nat /\ Token <= Capacity
  /\ Window \in Nat
  /\ MaxTime \in Nat

VARIABLES
  buckets,   \* the map of buckets, NoBucket where there is none
  now,       \* the clock
  verdict,   \* what the last request of every address was told
  log,       \* history: when the requests of every address were let through
  audits     \* history: when an audit row was written for every address

vars == <<buckets, now, verdict, log, audits>>

\* The zero time.Time of a bucket that has not been audited yet, longer than
\* any window ago.
Never == -(Window + 1)

bucket   == [tokens : 0 .. Capacity, lastUpdate : Nat, lastAuditAt : Nat \cup {Never}]
NoBucket == [tokens |-> -1]

TypeOK ==
  /\ buckets \in [IPs -> bucket \cup {NoBucket}]
  /\ now \in Nat
  /\ verdict \in [IPs -> {"none", "allowed", "denied"}]
  /\ log \in [IPs -> Seq(Nat)]
  /\ audits \in [IPs -> Seq(Nat)]

Init ==
  /\ buckets = [ip \in IPs |-> NoBucket]
  /\ now = 0
  /\ verdict = [ip \in IPs |-> "none"]
  /\ log = [ip \in IPs |-> <<>>]
  /\ audits = [ip \in IPs |-> <<>>]

-----------------------------------------------------------------------------
\* Wrong variant: the refill is not capped.
RefilledUncapped(b) == b.tokens + (now - b.lastUpdate)

\* The tokens of a bucket once the time since its last update is credited,
\* capped at the capacity and floored at zero.
Refilled(b) ==
  LET tokens == b.tokens + (now - b.lastUpdate) IN
  IF tokens > Capacity THEN Capacity ELSE IF tokens < 0 THEN 0 ELSE tokens

Answer(ip, v) == verdict' = [verdict EXCEPT ![ip] = v]

\* check, a new address: a full bucket, less one token.
checkNew(ip) ==
  /\ buckets[ip] = NoBucket
  /\ buckets' = [buckets EXCEPT ![ip] =
       [tokens |-> Capacity - Token, lastUpdate |-> now, lastAuditAt |-> Never]]
  /\ Answer(ip, "allowed")
  /\ log' = [log EXCEPT ![ip] = Append(log[ip], now)]
  /\ UNCHANGED <<now, audits>>

\* check, a token is there.
checkAllowed(ip) ==
  LET b == buckets[ip] IN
  /\ b # NoBucket
  /\ Refilled(b) >= Token
  /\ buckets' = [buckets EXCEPT ![ip] =
       [tokens |-> Refilled(b) - Token, lastUpdate |-> now, lastAuditAt |-> b.lastAuditAt]]
  /\ Answer(ip, "allowed")
  /\ log' = [log EXCEPT ![ip] = Append(log[ip], now)]
  /\ UNCHANGED <<now, audits>>

\* Wrong variant: the refill is credited, and credited again by the next check.
checkThrottledKeepsTime(ip) ==
  LET b == buckets[ip]
      shouldAudit == now - b.lastAuditAt >= Window IN
  /\ b # NoBucket
  /\ Refilled(b) < Token
  /\ buckets' = [buckets EXCEPT ![ip] =
       [tokens |-> Refilled(b), lastUpdate |-> b.lastUpdate,
        lastAuditAt |-> IF shouldAudit THEN now ELSE b.lastAuditAt]]
  /\ Answer(ip, "denied")
  /\ audits' = IF shouldAudit THEN [audits EXCEPT ![ip] = Append(audits[ip], now)]
                              ELSE audits
  /\ UNCHANGED <<now, log>>

\* check, less than a token: the refill is kept, and the first denial in a
\* window is audited by Middleware.
checkThrottled(ip) ==
  LET b == buckets[ip]
      shouldAudit == now - b.lastAuditAt >= Window IN
  /\ b # NoBucket
  /\ Refilled(b) < Token
  /\ buckets' = [buckets EXCEPT ![ip] =
       [tokens |-> Refilled(b), lastUpdate |-> now,
        lastAuditAt |-> IF shouldAudit THEN now ELSE b.lastAuditAt]]
  /\ Answer(ip, "denied")
  /\ audits' = IF shouldAudit THEN [audits EXCEPT ![ip] = Append(audits[ip], now)]
                              ELSE audits
  /\ UNCHANGED <<now, log>>

\* Wrong variant: a bucket is removed once it holds a token again.
FullAtOneToken(b) == b.tokens + (now - b.lastUpdate) >= Token

Full(b) == b.tokens + (now - b.lastUpdate) >= Capacity

\* reap, whenever the ticker of reapLoop fires: the full buckets go.
reap ==
  /\ buckets' = [ip \in IPs |-> IF buckets[ip] # NoBucket /\ Full(buckets[ip])
                                THEN NoBucket ELSE buckets[ip]]
  /\ UNCHANGED <<now, verdict, log, audits>>

Tick ==
  /\ now < MaxTime
  /\ now' = now + 1
  /\ UNCHANGED <<buckets, verdict, log, audits>>

Next ==
  \/ \E ip \in IPs : checkNew(ip) \/ checkAllowed(ip) \/ checkThrottled(ip)
  \/ reap
  \/ Tick

Spec == Init /\ [][Next]_vars

-----------------------------------------------------------------------------
(***************************************************************************)
(* Properties                                                              *)
(***************************************************************************)

\* The bucket an address has in the abstract: a full one where there is no
\* bucket, one refilled up to now where there is.
LevelOf(ip) == IF buckets[ip] = NoBucket THEN Capacity ELSE Refilled(buckets[ip])

Level == [ip \in IPs |-> LevelOf(ip)]

TB == INSTANCE TokenBucket WITH level <- Level

\* Refilling lazily in check and dropping full buckets in reap is invisible:
\* every request is told what an ideal, always running token bucket says.
ImplementsTokenBucket == TB!Spec

\* Whatever reap does in between, the i-th to the j-th request that was let
\* through for an address cost no more than one full bucket and what was
\* refilled meanwhile ("10 requests/minute sustained", ratelimit.go:22).
RateBound ==
  \A ip \in IPs : \A i, j \in 1 .. Len(log[ip]) :
    i <= j => (j - i + 1) * Token <= Capacity + (log[ip][j] - log[ip][i])

\* "at most one per IP per auditCoalesceWindow" (ratelimit.go:91-92; 26-29 say
\* the same of every throttle epoch): two audit rows of one address are a
\* window apart.  A reap takes lastAuditAt with the bucket, and a bucket that
\* was not quite empty is full before the window has passed.
OneAuditPerWindow ==
  \A ip \in IPs : \A i \in 1 .. Len(audits[ip]) - 1 :
    audits[ip][i + 1] - audits[ip][i] >= Window

\* What the code gives instead: the rows are a window apart, or the time a
\* bucket too empty for a token needs to fill up, be reaped and take
\* lastAuditAt with it.
AuditsSpaced ==
  \A ip \in IPs : \A i \in 1 .. Len(audits[ip]) - 1 :
    LET gap == audits[ip][i + 1] - audits[ip][i] IN
    gap >= Window \/ gap > Capacity - Token
=============================================================================
