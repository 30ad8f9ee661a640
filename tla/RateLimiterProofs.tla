-------------------------- MODULE RateLimiterProofs --------------------------
(***************************************************************************)
(* The rate limiter is a token bucket, for every set of addresses, every   *)
(* capacity and every refill rate.                                         *)
(***************************************************************************)
EXTENDS RateLimiter, TLAPS

\* No bucket was updated or audited in the future.
BucketTimes ==
  \A ip \in IPs : buckets[ip] # NoBucket =>
    buckets[ip].lastUpdate <= now /\ buckets[ip].lastAuditAt <= now

\* What an address has taken since its i-th request, and what it could still
\* take now, is at most one bucket and the refill since then.
Spent ==
  \A ip \in IPs : \A i \in 1 .. Len(log[ip]) :
    (Len(log[ip]) - i + 1) * Token + LevelOf(ip) <= Capacity + (now - log[ip][i])

\* The bucket remembers the last audit row of its address.
Remembers(ip) == buckets[ip] # NoBucket /\ buckets[ip].lastAuditAt # Never

\* While the bucket remembers the last audit row it is no fuller than the time
\* since then allows; a bucket that forgot it has been full since.
LastAudit ==
  \A ip \in IPs : audits[ip] # <<>> =>
    LET last == audits[ip][Len(audits[ip])] IN
    /\ Remembers(ip) => /\ buckets[ip].lastAuditAt = last
                        /\ LevelOf(ip) < Token + (now - last)
    /\ ~Remembers(ip) => now - last > Capacity - Token

LimiterInv ==
  /\ TypeOK
  /\ BucketTimes
  /\ Spent
  /\ RateBound
  /\ LastAudit
  /\ AuditsSpaced

USE LimiterConstants

-----------------------------------------------------------------------------
LEMMA NoBucketIsNone == NoBucket \notin bucket
BY DEF NoBucket, bucket

\* A refill yields between nothing and a full bucket.
LEMMA RefilledRange ==
  ASSUME TypeOK, NEW ip \in IPs, buckets[ip] # NoBucket
  PROVE  Refilled(buckets[ip]) \in 0 .. Capacity
BY DEF TypeOK, bucket, Refilled

LEMMA LevelRange ==
  ASSUME TypeOK, NEW ip \in IPs
  PROVE  LevelOf(ip) \in 0 .. Capacity
BY RefilledRange DEF LevelOf

LEMMA InitInv == Init => LimiterInv
BY DEF Init, LimiterInv, TypeOK, BucketTimes, Spent, RateBound, LastAudit, AuditsSpaced

-----------------------------------------------------------------------------
(* Type correctness. *)
LEMMA TypeStep == ASSUME TypeOK, [Next]_vars PROVE TypeOK'
<1>1. ASSUME NEW ip \in IPs, checkNew(ip) PROVE TypeOK'
  <2>1. [tokens |-> Capacity - Token, lastUpdate |-> now, lastAuditAt |-> Never] \in bucket
    BY DEF bucket, TypeOK
  <2> QED BY <1>1, <2>1 DEF checkNew, TypeOK, Answer
<1>2. ASSUME NEW ip \in IPs, checkAllowed(ip) PROVE TypeOK'
  <2>1. Refilled(buckets[ip]) \in 0 .. Capacity /\ Refilled(buckets[ip]) >= Token
    BY <1>2, RefilledRange DEF checkAllowed
  <2>2. buckets[ip].lastAuditAt \in Nat \cup {Never}
    BY <1>2 DEF TypeOK, bucket, checkAllowed
  <2>3. [tokens |-> Refilled(buckets[ip]) - Token, lastUpdate |-> now,
         lastAuditAt |-> buckets[ip].lastAuditAt] \in bucket
    BY <2>1, <2>2 DEF bucket, TypeOK
  <2> QED BY <1>2, <2>3 DEF checkAllowed, TypeOK, Answer
<1>3. ASSUME NEW ip \in IPs, checkThrottled(ip) PROVE TypeOK'
  <2>1. Refilled(buckets[ip]) \in 0 .. Capacity
    BY <1>3, RefilledRange DEF checkThrottled
  <2>2. buckets[ip].lastAuditAt \in Nat \cup {Never}
    BY <1>3 DEF TypeOK, bucket, checkThrottled
  <2>3. ASSUME NEW t \in Nat \cup {Never}
        PROVE  [tokens |-> Refilled(buckets[ip]), lastUpdate |-> now,
                lastAuditAt |-> t] \in bucket
    BY <2>1 DEF bucket, TypeOK
  <2>4. buckets' \in [IPs -> bucket \cup {NoBucket}]
    BY <1>3, <2>2, <2>3 DEF checkThrottled, TypeOK
  <2> QED BY <1>3, <2>4 DEF checkThrottled, TypeOK, Answer
<1>4. CASE reap
  BY <1>4 DEF reap, TypeOK
<1>5. CASE Tick
  BY <1>5 DEF Tick, TypeOK
<1>6. CASE UNCHANGED vars
  BY <1>6 DEF vars, TypeOK
<1> QED BY <1>1, <1>2, <1>3, <1>4, <1>5, <1>6 DEF Next

LEMMA TimesStep == ASSUME TypeOK, BucketTimes, [Next]_vars PROVE BucketTimes'
<1> USE DEF TypeOK, BucketTimes, bucket
<1>1. ASSUME NEW ip \in IPs, checkNew(ip) PROVE BucketTimes'
  BY <1>1 DEF checkNew, Never
<1>2. ASSUME NEW ip \in IPs, checkAllowed(ip) PROVE BucketTimes'
  BY <1>2 DEF checkAllowed
<1>3. ASSUME NEW ip \in IPs, checkThrottled(ip) PROVE BucketTimes'
  BY <1>3 DEF checkThrottled
<1>4. CASE reap
  BY <1>4 DEF reap
<1>5. CASE Tick
  <2>1. ASSUME NEW m \in IPs, buckets[m] # NoBucket
        PROVE  buckets[m].lastUpdate \in Int /\ buckets[m].lastAuditAt \in Int
    BY <2>1 DEF Never
  <2> QED BY <1>5, <2>1 DEF Tick
<1>6. CASE UNCHANGED vars
  BY <1>6 DEF vars
<1> QED BY <1>1, <1>2, <1>3, <1>4, <1>5, <1>6 DEF Next

-----------------------------------------------------------------------------
(* What every step does to the abstract level. *)
LEMMA AllowedLevel ==
  ASSUME TypeOK, BucketTimes, NEW ip \in IPs, checkNew(ip) \/ checkAllowed(ip)
  PROVE  /\ LevelOf(ip) >= Token
         /\ \A m \in IPs : LevelOf(m)' = IF m = ip THEN LevelOf(m) - Token ELSE LevelOf(m)
<1>0. now \in Nat
  BY DEF TypeOK
<1>1. ASSUME NEW t \in 0 .. Capacity, NEW u \in Nat \cup {Never}, UNCHANGED now,
             buckets' = [buckets EXCEPT ![ip] =
               [tokens |-> t, lastUpdate |-> now, lastAuditAt |-> u]]
      PROVE  \A m \in IPs : LevelOf(m)' = IF m = ip THEN t ELSE LevelOf(m)
  <2>1. buckets'[ip] # NoBucket /\ Refilled(buckets[ip])' = t
    BY <1>0, <1>1, NoBucketIsNone DEF Refilled, TypeOK, bucket
  <2>2. ASSUME NEW m \in IPs, m # ip PROVE LevelOf(m)' = LevelOf(m)
    BY <1>1, <2>2 DEF LevelOf, Refilled, TypeOK
  <2> QED BY <2>1, <2>2 DEF LevelOf
<1>2. CASE checkNew(ip)
  <2>1. LevelOf(ip) = Capacity
    BY <1>2 DEF checkNew, LevelOf
  <2>2. Capacity - Token \in 0 .. Capacity
    OBVIOUS
  <2>3. \A m \in IPs : LevelOf(m)' = IF m = ip THEN Capacity - Token ELSE LevelOf(m)
    BY <1>1, <1>2, <2>2 DEF checkNew
  <2> QED BY <2>1, <2>3
<1>3. CASE checkAllowed(ip)
  <2>1. LevelOf(ip) = Refilled(buckets[ip]) /\ LevelOf(ip) \in 0 .. Capacity
    BY <1>3, RefilledRange DEF checkAllowed, LevelOf
  <2>2. buckets[ip].lastAuditAt \in Nat \cup {Never}
    BY <1>3 DEF TypeOK, bucket, checkAllowed
  <2>3. LevelOf(ip) >= Token /\ LevelOf(ip) - Token \in 0 .. Capacity
    BY <1>3, <2>1 DEF checkAllowed
  <2>4. \A m \in IPs : LevelOf(m)' = IF m = ip THEN LevelOf(ip) - Token ELSE LevelOf(m)
    BY <1>1, <1>3, <2>1, <2>2, <2>3 DEF checkAllowed
  <2> QED BY <2>3, <2>4
<1> QED BY <1>2, <1>3

LEMMA ThrottledLevel ==
  ASSUME TypeOK, NEW ip \in IPs, checkThrottled(ip)
  PROVE  /\ LevelOf(ip) < Token
         /\ \A m \in IPs : LevelOf(m)' = LevelOf(m)
<1> DEFINE t == Refilled(buckets[ip])
<1>1. t \in 0 .. Capacity /\ LevelOf(ip) = t /\ t < Token /\ now \in Nat
  BY RefilledRange DEF checkThrottled, LevelOf, TypeOK
<1>2. /\ buckets'[ip] # NoBucket
      /\ buckets'[ip].tokens = t /\ buckets'[ip].lastUpdate = now /\ now' = now
  BY NoBucketIsNone, TypeStep DEF checkThrottled, TypeOK, NoBucket
<1>3. Refilled(buckets[ip])' = t
  BY <1>1, <1>2 DEF Refilled
<1>4. ASSUME NEW m \in IPs, m # ip PROVE LevelOf(m)' = LevelOf(m)
  BY <1>4 DEF checkThrottled, LevelOf, Refilled, TypeOK
<1> QED BY <1>1, <1>2, <1>3, <1>4 DEF LevelOf

LEMMA ReapLevel ==
  ASSUME TypeOK, reap, NEW m \in IPs
  PROVE  LevelOf(m)' = LevelOf(m)
<1>1. CASE buckets'[m] = buckets[m]
  BY <1>1 DEF LevelOf, Refilled, reap
<1>2. CASE buckets'[m] # buckets[m]
  <2>1. buckets[m] # NoBucket /\ Full(buckets[m]) /\ buckets'[m] = NoBucket
    BY <1>2 DEF reap
  <2>2. /\ buckets[m].tokens \in Nat /\ buckets[m].tokens <= Capacity
        /\ buckets[m].lastUpdate \in Nat /\ now \in Nat
    BY <2>1 DEF TypeOK, bucket
  <2>3. Refilled(buckets[m]) = Capacity
    BY <2>1, <2>2 DEF Full, Refilled
  <2> QED BY <2>1, <2>3 DEF LevelOf
<1> QED BY <1>1, <1>2

LEMMA TickLevel ==
  ASSUME TypeOK, BucketTimes, Tick, NEW m \in IPs
  PROVE  LevelOf(m)' = IF LevelOf(m) < Capacity THEN LevelOf(m) + 1 ELSE Capacity
BY DEF TypeOK, BucketTimes, Tick, LevelOf, Refilled, bucket

-----------------------------------------------------------------------------
(* The rate bound. *)
LEMMA RateStep ==
  ASSUME LimiterInv, TypeOK', [Next]_vars
  PROVE  (Spent /\ RateBound)'
<1> USE DEF LimiterInv
<1>0. now \in Nat /\ \A m \in IPs : LevelOf(m) \in 0 .. Capacity /\ log[m] \in Seq(Nat)
  BY LevelRange DEF TypeOK
\* A request that is let through is entered in the log, and takes what it is
\* charged for from the level.
<1>1. ASSUME NEW ip \in IPs, checkNew(ip) \/ checkAllowed(ip)
      PROVE  (Spent /\ RateBound)'
  <2> DEFINE L == Len(log[ip])
  <2>1. /\ now' = now /\ log' = [log EXCEPT ![ip] = Append(log[ip], now)]
    BY <1>1 DEF checkNew, checkAllowed
  <2>2. /\ L \in Nat /\ Len(log'[ip]) = L + 1 /\ log'[ip][L + 1] = now
        /\ \A i \in 1 .. L : log'[ip][i] = log[ip][i] /\ log[ip][i] \in Nat
        /\ \A m \in IPs : m # ip => log'[m] = log[m]
    BY <1>0, <2>1 DEF TypeOK
  <2>3. /\ LevelOf(ip) >= Token /\ LevelOf(ip)' = LevelOf(ip) - Token
        /\ \A m \in IPs : m # ip => LevelOf(m)' = LevelOf(m)
    BY <1>1, AllowedLevel
  <2>4. ASSUME NEW i \in 1 .. L
        PROVE  /\ (L - i + 1) * Token + LevelOf(ip) <= Capacity + (now - log[ip][i])
               /\ (L + 1 - i + 1) * Token = (L - i + 1) * Token + Token
    <3>1. (L - i + 1) * Token + LevelOf(ip) <= Capacity + (now - log[ip][i])
      BY DEF Spent
    <3>2. \A x, y \in Int : (x + 1) * y = x * y + y
      OBVIOUS
    <3>3. L - i + 1 \in Int /\ Token \in Int /\ L + 1 - i + 1 = (L - i + 1) + 1
      BY <2>2
    <3> QED BY <3>1, <3>2, <3>3
  <2>p. \A i \in 1 .. L : (L - i + 1) * Token \in Int
    BY <2>2
  <2>5. Spent'
    <3> SUFFICES ASSUME NEW m \in IPs, NEW i \in 1 .. Len(log'[m])
                 PROVE  (Len(log'[m]) - i + 1) * Token + LevelOf(m)'
                          <= Capacity + (now' - log'[m][i])
      BY DEF Spent
    <3>1. CASE m # ip
      BY <2>1, <2>2, <2>3, <3>1 DEF Spent
    <3>2. CASE m = ip /\ i \in 1 .. L
      BY <1>0, <2>1, <2>2, <2>3, <2>4, <2>p, <3>2
    <3>3. CASE m = ip /\ i = L + 1
      BY <1>0, <2>1, <2>2, <2>3, <3>3
    <3> QED BY <2>2, <3>1, <3>2, <3>3
  <2>6. RateBound'
    <3> SUFFICES ASSUME NEW m \in IPs, NEW i \in 1 .. Len(log'[m]),
                        NEW j \in 1 .. Len(log'[m]), i <= j
                 PROVE  (j - i + 1) * Token <= Capacity + (log'[m][j] - log'[m][i])
      BY DEF RateBound
    <3>1. CASE m # ip
      BY <2>2, <3>1 DEF RateBound
    <3>2. CASE m = ip /\ j \in 1 .. L
      <4>1. i \in 1 .. L
        BY <2>2, <3>2
      <4>2. (j - i + 1) * Token <= Capacity + (log[ip][j] - log[ip][i])
        BY <3>2, <4>1 DEF RateBound
      <4> QED BY <2>2, <3>2, <4>1, <4>2
    <3>3. CASE m = ip /\ j = L + 1 /\ i \in 1 .. L
      <4>1. (L - i + 1) * Token + LevelOf(ip) <= Capacity + (now - log[ip][i])
        BY <2>4, <3>3
      <4>2. (j - i + 1) * Token = (L - i + 1) * Token + Token
        BY <2>4, <3>3
      <4>3. (L - i + 1) * Token \in Int /\ log[ip][i] \in Nat
        BY <2>2, <2>p, <3>3
      <4>4. log'[m][j] = now /\ log'[m][i] = log[ip][i]
        BY <2>2, <3>3
      <4> DEFINE spent == (L - i + 1) * Token
                 total == (j - i + 1) * Token
                 t == log[ip][i]
                 lv == LevelOf(ip)
      <4>5. /\ spent \in Int /\ t \in Nat /\ lv \in Int /\ lv >= Token
            /\ total = spent + Token /\ spent + lv <= Capacity + (now - t)
        BY <1>0, <2>3, <4>1, <4>2, <4>3
      <4> HIDE DEF spent, total, t, lv
      <4>6. total <= Capacity + (now - t)
        BY <1>0, <4>5
      <4> QED BY <4>4, <4>6 DEF total, t
    <3>4. CASE m = ip /\ j = L + 1 /\ i = L + 1
      BY <1>0, <2>2, <3>4
    <3> QED BY <2>2, <3>1, <3>2, <3>3, <3>4
  <2> QED BY <2>5, <2>6
\* The other steps add nothing to the log.
<1>2. ASSUME UNCHANGED <<log, now>>, \A m \in IPs : LevelOf(m)' = LevelOf(m)
      PROVE  (Spent /\ RateBound)'
  BY <1>2 DEF Spent, RateBound
<1>3. CASE Tick
  <2>1. UNCHANGED log /\ now' = now + 1
    BY <1>3 DEF Tick
  <2>2. \A m \in IPs : LevelOf(m)' \in Int /\ LevelOf(m)' <= LevelOf(m) + 1
    BY <1>0, <1>3, TickLevel
  <2>3. Spent'
    <3> SUFFICES ASSUME NEW m \in IPs, NEW i \in 1 .. Len(log'[m])
                 PROVE  (Len(log'[m]) - i + 1) * Token + LevelOf(m)'
                          <= Capacity + (now' - log'[m][i])
      BY DEF Spent
    <3>0. i \in 1 .. Len(log[m])
      BY <2>1
    <3> DEFINE spent == (Len(log[m]) - i + 1) * Token
               t == log[m][i]
               lv == LevelOf(m)
               lv2 == LevelOf(m)'
    <3>a. spent \in Int /\ t \in Nat
      BY <1>0, <3>0
    <3>b. lv \in Int
      BY <1>0
    <3>c. lv2 \in Int /\ lv2 <= lv + 1
      BY <2>2
    <3>1. spent \in Int /\ t \in Nat /\ lv \in Int /\ lv2 \in Int /\ lv2 <= lv + 1
      BY <3>a, <3>b, <3>c
    <3>2. spent + lv <= Capacity + (now - t)
      BY <3>0 DEF Spent
    <3> HIDE DEF spent, t, lv, lv2
    <3>3. spent + lv2 <= Capacity + ((now + 1) - t)
      BY <1>0, <3>1, <3>2
    <3>4. log' = log /\ now' = now + 1
      BY <2>1
    <3> QED BY <3>3, <3>4 DEF spent, t, lv2
  <2> QED BY <2>1, <2>3 DEF RateBound
<1>4. ASSUME NEW ip \in IPs, checkThrottled(ip) PROVE (Spent /\ RateBound)'
  BY <1>2, <1>4, ThrottledLevel DEF checkThrottled
<1>5. CASE reap
  BY <1>2, <1>5, ReapLevel DEF reap
<1>6. CASE UNCHANGED vars
  BY <1>2, <1>6 DEF vars, LevelOf, Refilled
<1> QED BY <1>1, <1>3, <1>4, <1>5, <1>6 DEF Next

-----------------------------------------------------------------------------
(* The distance between audit rows. *)
LEMMA AuditStep ==
  ASSUME LimiterInv, TypeOK', BucketTimes', [Next]_vars
  PROVE  (LastAudit /\ AuditsSpaced)'
<1> USE DEF LimiterInv
<1>0. /\ now \in Nat
      /\ \A m \in IPs : LevelOf(m) \in 0 .. Capacity /\ audits[m] \in Seq(Nat)
      /\ \A m \in IPs : audits[m] # <<>> => audits[m][Len(audits[m])] \in Nat
  BY LevelRange DEF TypeOK
<1>n. Never \in Int /\ Never \notin Nat
  BY DEF Never
\* A step that adds no row leaves the distances alone.
<1>a. UNCHANGED audits => AuditsSpaced'
  BY DEF AuditsSpaced
\* What LastAudit says of one address.
<1> DEFINE last(m) == audits[m][Len(audits[m])]
           Ok(m) == /\ Remembers(m) => /\ buckets[m].lastAuditAt = last(m)
                                       /\ LevelOf(m) < Token + (now - last(m))
                    /\ ~Remembers(m) => now - last(m) > Capacity - Token
<1>l. \A m \in IPs : audits[m] # <<>> => Ok(m)
  BY DEF LastAudit
<1>1. ASSUME NEW ip \in IPs, checkNew(ip) \/ checkAllowed(ip)
      PROVE  (LastAudit /\ AuditsSpaced)'
  <2>1. UNCHANGED <<now, audits>>
    BY <1>1 DEF checkNew, checkAllowed
  <2>2. \A m \in IPs : LevelOf(m)' = IF m = ip THEN LevelOf(m) - Token ELSE LevelOf(m)
    BY <1>1, AllowedLevel
  <2>3. ASSUME NEW m \in IPs
        PROVE  /\ Remembers(m)' <=> Remembers(m)
               /\ Remembers(m) => buckets'[m].lastAuditAt = buckets[m].lastAuditAt
    <3>1. CASE m # ip
      BY <1>1, <3>1 DEF checkNew, checkAllowed, Remembers, TypeOK
    <3>2. CASE m = ip /\ checkNew(ip)
      BY <3>2 DEF checkNew, Remembers, TypeOK
    <3>3. CASE m = ip /\ checkAllowed(ip)
      <4>1. buckets'[m] \in bucket \cup {NoBucket} /\ buckets[m] # NoBucket
        BY <3>3 DEF checkAllowed, TypeOK
      <4>2. buckets'[m].lastAuditAt = buckets[m].lastAuditAt /\ buckets'[m].tokens >= 0
        BY <3>3, RefilledRange DEF checkAllowed, TypeOK
      <4> QED BY <4>1, <4>2 DEF Remembers, NoBucket
    <3> QED BY <1>1, <3>1, <3>2, <3>3
  <2>4. LastAudit'
    <3> SUFFICES ASSUME NEW m \in IPs, audits'[m] # <<>> PROVE Ok(m)'
      BY DEF LastAudit
    <3>1. Ok(m) /\ last(m) \in Nat /\ last(m)' = last(m)
      BY <1>0, <1>l, <2>1
    <3>2. LevelOf(m)' <= LevelOf(m) /\ LevelOf(m)' \in Int
      BY <1>0, <2>2
    <3> HIDE DEF last
    <3> QED BY <1>0, <2>1, <2>3, <3>1, <3>2
  <2> QED BY <1>a, <2>1, <2>4
<1>2. ASSUME NEW ip \in IPs, checkThrottled(ip) PROVE (LastAudit /\ AuditsSpaced)'
  <2> DEFINE shouldAudit == now - buckets[ip].lastAuditAt >= Window
             L == Len(audits[ip])
  <2>1. /\ UNCHANGED now /\ buckets[ip] # NoBucket
        /\ buckets'[ip].lastAuditAt = IF shouldAudit THEN now ELSE buckets[ip].lastAuditAt
        /\ buckets'[ip].tokens >= 0
        /\ \A m \in IPs : m # ip => buckets'[m] = buckets[m]
    BY <1>2, RefilledRange DEF checkThrottled, TypeOK
  <2>2. /\ LevelOf(ip) < Token
        /\ \A m \in IPs : LevelOf(m)' = LevelOf(m)
    BY <1>2, ThrottledLevel
  <2>3. buckets'[ip] # NoBucket
    BY <2>1 DEF NoBucket
  <2>4. CASE ~shouldAudit
    <3>1. UNCHANGED audits
      BY <1>2, <2>4 DEF checkThrottled
    <3>2. \A m \in IPs : /\ Remembers(m)' <=> Remembers(m)
                         /\ Remembers(m) => buckets'[m].lastAuditAt = buckets[m].lastAuditAt
      BY <2>1, <2>3, <2>4 DEF Remembers
    <3>3. LastAudit'
      <4> SUFFICES ASSUME NEW m \in IPs, audits'[m] # <<>> PROVE Ok(m)'
        BY DEF LastAudit
      <4> QED BY <1>l, <2>1, <2>2, <3>1, <3>2
    <3> QED BY <1>a, <3>1, <3>3
  <2>5. CASE shouldAudit
    <3>1. audits' = [audits EXCEPT ![ip] = Append(audits[ip], now)]
      BY <1>2, <2>5 DEF checkThrottled
    <3>2. /\ L \in Nat /\ Len(audits'[ip]) = L + 1 /\ audits'[ip][L + 1] = now
          /\ \A i \in 1 .. L : audits'[ip][i] = audits[ip][i]
          /\ \A m \in IPs : m # ip => audits'[m] = audits[m]
      BY <1>0, <3>1 DEF TypeOK
    \* The new row is far enough from the one before it.
    <3>3. ASSUME audits[ip] # <<>>
          PROVE  now - last(ip) >= Window \/ now - last(ip) > Capacity - Token
      <4>1. Ok(ip)
        BY <1>l, <3>3
      <4> QED BY <2>5, <4>1
    <3>4. AuditsSpaced'
      <4> SUFFICES ASSUME NEW m \in IPs, NEW i \in 1 .. Len(audits'[m]) - 1
                   PROVE  \/ audits'[m][i + 1] - audits'[m][i] >= Window
                          \/ audits'[m][i + 1] - audits'[m][i] > Capacity - Token
        BY DEF AuditsSpaced
      <4>1. CASE m # ip
        BY <3>2, <4>1 DEF AuditsSpaced
      <4>2. CASE m = ip /\ i \in 1 .. L - 1
        <5>1. i \in 1 .. L /\ i + 1 \in 1 .. L
          BY <3>2, <4>2
        <5>2. audits'[m][i] = audits[ip][i] /\ audits'[m][i + 1] = audits[ip][i + 1]
          BY <3>2, <4>2, <5>1
        <5> QED BY <4>2, <5>2 DEF AuditsSpaced
      <4>3. CASE m = ip /\ i = L
        <5>1. audits[ip] # <<>> /\ L \in 1 .. L
          BY <3>2, <4>3
        <5>2. audits'[m][i + 1] = now /\ audits'[m][i] = last(ip)
          BY <3>2, <4>3, <5>1
        <5> QED BY <3>3, <5>1, <5>2
      <4> QED BY <3>2, <4>1, <4>2, <4>3
    <3>5. LastAudit'
      <4> SUFFICES ASSUME NEW m \in IPs, audits'[m] # <<>> PROVE Ok(m)'
        BY DEF LastAudit
      <4>1. CASE m # ip
        <5>1. Remembers(m)' <=> Remembers(m)
          BY <2>1, <4>1 DEF Remembers
        <5> QED BY <1>l, <2>1, <2>2, <3>2, <4>1, <5>1
      <4>2. CASE m = ip
        <5>1. last(m)' = now /\ buckets'[m].lastAuditAt = now
          BY <2>1, <2>5, <3>2, <4>2
        <5>2. Remembers(m)'
          BY <1>0, <1>n, <2>3, <4>2, <5>1 DEF Remembers
        <5>3. LevelOf(m)' < Token + (now' - now)
          BY <1>0, <2>1, <2>2, <4>2
        <5> HIDE DEF last
        <5> QED BY <5>1, <5>2, <5>3
      <4> QED BY <4>1, <4>2
    <3> QED BY <3>4, <3>5
  <2> QED BY <2>4, <2>5
\* reap forgets a row only when the bucket has had the time to fill up.
<1>3. CASE reap
  <2>1. UNCHANGED <<now, audits>>
    BY <1>3 DEF reap
  <2>2. LastAudit'
    <3> SUFFICES ASSUME NEW m \in IPs, audits'[m] # <<>> PROVE Ok(m)'
      BY DEF LastAudit
    <3>1. Ok(m) /\ last(m) \in Nat /\ last(m)' = last(m)
      BY <1>0, <1>l, <2>1
    <3>2. LevelOf(m)' = LevelOf(m)
      BY <1>3, ReapLevel
    <3>3. CASE buckets'[m] = buckets[m]
      BY <2>1, <3>1, <3>2, <3>3 DEF Remembers
    <3>4. CASE buckets'[m] # buckets[m]
      <4>1. buckets'[m] = NoBucket
        BY <1>3, <3>4 DEF reap
      <4>2. LevelOf(m) = Capacity /\ ~Remembers(m)'
        BY <3>2, <4>1 DEF LevelOf, Remembers
      <4> HIDE DEF last
      <4> QED BY <1>0, <2>1, <3>1, <4>2
    <3> QED BY <3>3, <3>4
  <2> QED BY <1>a, <2>1, <2>2
<1>4. CASE Tick
  <2>1. now' = now + 1 /\ UNCHANGED <<buckets, audits>>
    BY <1>4 DEF Tick
  <2>2. LastAudit'
    <3> SUFFICES ASSUME NEW m \in IPs, audits'[m] # <<>> PROVE Ok(m)'
      BY DEF LastAudit
    <3>1. Ok(m) /\ last(m) \in Nat /\ last(m)' = last(m)
      BY <1>0, <1>l, <2>1
    <3>2. LevelOf(m)' <= LevelOf(m) + 1 /\ LevelOf(m)' \in Int /\ LevelOf(m) \in Int
      BY <1>0, <1>4, TickLevel
    <3>3. Remembers(m)' <=> Remembers(m)
      BY <2>1 DEF Remembers
    <3> HIDE DEF last
    <3> QED BY <1>0, <2>1, <3>1, <3>2, <3>3
  <2> QED BY <1>a, <2>1, <2>2
<1>5. CASE UNCHANGED vars
  BY <1>5 DEF vars, LastAudit, AuditsSpaced, Remembers, LevelOf, Refilled
<1> QED BY <1>1, <1>2, <1>3, <1>4, <1>5 DEF Next

LEMMA InvStep == LimiterInv /\ [Next]_vars => LimiterInv'
BY TypeStep, TimesStep, RateStep, AuditStep DEF LimiterInv

LEMMA Invariance == Spec => []LimiterInv
BY InitInv, InvStep, PTL DEF Spec

-----------------------------------------------------------------------------
\* A bucket never holds less than nothing or more than its capacity, however
\* check and reap interleave.
THEOREM LimiterTypeCorrect == Spec => []TypeOK
BY Invariance, PTL DEF LimiterInv

\* However bursts, waits and reaps alternate, an address gets no more than one
\* full bucket and the refill of the time it took.
THEOREM RateBounded == Spec => []RateBound
BY Invariance, PTL DEF LimiterInv

\* check and reap write no two audit rows of an address closer together than
\* AuditsSpaced says.
THEOREM AuditsApart == Spec => []AuditsSpaced
BY Invariance, PTL DEF LimiterInv

\* The initial states and the steps of the limiter map to those of an ideal
\* bucket: lazy refill and reaping cannot be told from outside.
THEOREM Refinement == Spec => ImplementsTokenBucket
<1>1. Init => TB!Init
  BY DEF Init, TB!Init, Level, LevelOf
<1>2. LimiterInv /\ [Next]_vars => [TB!Next]_<<Level, verdict>>
  <2> SUFFICES ASSUME LimiterInv, [Next]_vars PROVE [TB!Next]_<<Level, verdict>>
    OBVIOUS
  <2> USE DEF LimiterInv
  <2>0. \A m \in IPs : Level[m] = LevelOf(m)
    BY DEF Level
  <2>1. ASSUME NEW ip \in IPs, checkNew(ip) \/ checkAllowed(ip) PROVE TB!Allow(ip)
    <3>1. /\ LevelOf(ip) >= Token
          /\ \A m \in IPs : LevelOf(m)' = IF m = ip THEN LevelOf(m) - Token ELSE LevelOf(m)
      BY <2>1, AllowedLevel
    <3>2. Level' = [Level EXCEPT ![ip] = Level[ip] - Token]
      BY <3>1 DEF Level
    <3>3. verdict' = [verdict EXCEPT ![ip] = "allowed"]
      BY <2>1 DEF checkNew, checkAllowed, Answer
    <3> QED BY <2>0, <3>1, <3>2, <3>3 DEF TB!Allow
  <2>2. ASSUME NEW ip \in IPs, checkThrottled(ip) PROVE TB!Deny(ip)
    <3>1. LevelOf(ip) < Token /\ \A m \in IPs : LevelOf(m)' = LevelOf(m)
      BY <2>2, ThrottledLevel
    <3>2. UNCHANGED Level
      BY <3>1 DEF Level
    <3>3. verdict' = [verdict EXCEPT ![ip] = "denied"]
      BY <2>2 DEF checkThrottled, Answer
    <3> QED BY <2>0, <3>1, <3>2, <3>3 DEF TB!Deny
  <2>3. CASE reap
    <3>1. UNCHANGED Level
      BY <2>3, ReapLevel DEF Level
    <3> QED BY <2>3, <3>1 DEF reap
  <2>4. CASE Tick
    <3>1. Level' = [ip \in IPs |-> IF Level[ip] < Capacity THEN Level[ip] + 1 ELSE Capacity]
      BY <2>0, <2>4, TickLevel DEF Level
    <3> QED BY <2>4, <3>1 DEF TB!Next, TB!Fill, Tick
  <2>5. CASE UNCHANGED vars
    BY <2>5 DEF vars, Level, LevelOf, Refilled
  <2> QED BY <2>1, <2>2, <2>3, <2>4, <2>5 DEF Next, TB!Next
<1> QED BY <1>1, <1>2, Invariance, PTL DEF Spec, ImplementsTokenBucket, TB!Spec
=============================================================================
