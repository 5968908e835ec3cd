----------------------------- MODULE LoginLimiter -----------------------------
(***************************************************************************)
(* The throttle on failed logins (internal/ratelimit) and the handlers     *)
(* that consult it: password login, second factor and SSH key login ask    *)
(* for the address and for the account, a password change asks for the     *)
(* address only, and each records its failure in later calls of its own.   *)
(* Every method holds the limiter's mutex, so it is one action.            *)
(***************************************************************************)
EXTENDS Integers, Sequences, FiniteSets

CONSTANTS
  IPs,          \* source addresses
  AccountKeys,     \* account keys after normalizeUserKey
  Attempts,     \* requests in flight at a time
  MaxIP,        \* LoginLimiter.maxIP
  MaxUser,      \* LoginLimiter.maxUser
  Window,       \* LoginLimiter.window
  GcInterval,   \* gcInterval
  PurgeBackoff, \* purgeBackoff
  MaxEntries,   \* maxEntries of either map
  MaxBucket     \* bound: entries of an account's bucket that are explored

ASSUME LimiterAssumption ==
  /\ IsFiniteSet(IPs) /\ IsFiniteSet(AccountKeys) /\ IsFiniteSet(Attempts)
  /\ {MaxIP, MaxUser, Window, GcInterval, PurgeBackoff, MaxEntries, MaxBucket} \subseteq Nat \ {0}
  /\ PurgeBackoff >= Window

(***************************************************************************)
(* A time is kept as its age.  Beyond purgeBackoff an entry and beyond     *)
(* gcInterval a sweep is as old as it can matter, so ages stop there and   *)
(* the clock needs no bound.                                               *)
(***************************************************************************)
VARIABLES
  byIP,      \* the ages of recent failures per address, oldest first
  byUser,    \* and per account
  lastSwep,  \* how long ago gcLocked swept
  attempt,   \* the requests
  failLog    \* history: the window's failures per address since its last success

limiterVars == <<byIP, byUser, lastSwep, attempt, failLog>>

IdleAttempt == [pc |-> "idle", ip |-> "none", user |-> "none", kind |-> "none"]

\* The entries of a bucket with t.After(now.Add(-d)): what the loop has kept when it has
\* come to each of them, and when it is through.
KeptUpTo(ages, d) ==
  LET kept[n \in 0..Len(ages)] ==
        IF n = 0 THEN <<>>
        ELSE IF ages[n] < d THEN Append(kept[n - 1], ages[n]) ELSE kept[n - 1]
  IN kept
Younger(ages, d) == KeptUpTo(ages, d)[Len(ages)]

pruneLocked(m, d) == [k \in DOMAIN m |-> Younger(m[k], d)]

\* gcLocked, given the age of the last sweep: time.Time{} is GcInterval or more.
SweepDue(last) == last >= GcInterval
SweptFault(m, last) == IF SweepDue(last) THEN pruneLocked(m, 0) ELSE m

Swept(m, last) == IF SweepDue(last) THEN pruneLocked(m, PurgeBackoff) ELSE m

\* A key is in the map while its bucket has entries.
Entries(m) == Cardinality({k \in DOMAIN m : m[k] # <<>>})

\* allowBucket: what is left of the bucket, and the answer.
InWindow(ages) == Younger(ages, Window)
allowBucketFault(m, key, max) == Len(InWindow(m[key])) =< max

allowBucket(m, key, max) == Len(InWindow(m[key])) < max

\* recordBucket on one map: the entry is dropped when the map stays full.
Crowded(m, key) == m[key] = <<>> /\ Entries(m) >= MaxEntries
recordBucketFault(m, key) == [m EXCEPT ![key] = Append(@, 0)]

recordBucket(m, key) ==
  LET kept == IF Crowded(m, key) THEN Swept(m, GcInterval) ELSE m
  IN IF Crowded(kept, key) THEN kept ELSE [kept EXCEPT ![key] = Append(@, 0)]

At(a, pc) == attempt[a].pc = pc
Go(a, pc) == attempt' = [attempt EXCEPT ![a].pc = pc]
Done(a) == attempt' = [attempt EXCEPT ![a] = IdleAttempt]

LimiterInit ==
  /\ byIP = [i \in IPs |-> <<>>]
  /\ byUser = [u \in AccountKeys |-> <<>>]
  /\ lastSwep = GcInterval
  /\ attempt = [a \in Attempts |-> IdleAttempt]
  /\ failLog = [i \in IPs |-> <<>>]

\* AllowIP, the first thing each handler does.  The map loses what is older than
\* the window, also when the answer is no.
AllowIP(a, ip, user, kind) ==
  /\ At(a, "idle")
  /\ LET allowed == allowBucket(Swept(byIP, lastSwep), ip, MaxIP)
         next == IF kind = "login" THEN "user" ELSE "verify"
     IN attempt' = [attempt EXCEPT ![a] =
          IF allowed THEN [pc |-> next, ip |-> ip, user |-> user, kind |-> kind] ELSE @]
  /\ byIP' = [Swept(byIP, lastSwep) EXCEPT ![ip] = InWindow(@)]
  /\ byUser' = Swept(byUser, lastSwep)
  /\ lastSwep' = IF SweepDue(lastSwep) THEN 0 ELSE lastSwep
  /\ UNCHANGED failLog

\* AllowUser, asked by the login handlers and the SSH key callback.
AllowUser(a) ==
  /\ At(a, "user")
  /\ LET u == attempt[a].user
     IN /\ IF allowBucket(Swept(byUser, lastSwep), u, MaxUser) THEN Go(a, "verify") ELSE Done(a)
        /\ byUser' = [Swept(byUser, lastSwep) EXCEPT ![u] = InWindow(@)]
  /\ byIP' = Swept(byIP, lastSwep)
  /\ lastSwep' = IF SweepDue(lastSwep) THEN 0 ELSE lastSwep
  /\ UNCHANGED failLog

\* The credential is wrong: RecordFailureIP, and then RecordFailureUser.
RecordFailureIP(a) ==
  /\ At(a, "verify")
  /\ LET ip == attempt[a].ip
         crowded == Crowded(byIP, ip)
     IN /\ byIP' = recordBucket(byIP, ip)
        /\ byUser' = IF crowded THEN Swept(byUser, GcInterval) ELSE byUser
        /\ lastSwep' = IF crowded THEN 0 ELSE lastSwep
        /\ failLog' = IF byIP'[ip] # <<>> /\ Len(byIP'[ip]) > Len(byIP[ip])
                        THEN [failLog EXCEPT ![ip] = Append(InWindow(@), 0)] ELSE failLog
  /\ Go(a, "failed")

RecordFailureUser(a) ==
  /\ At(a, "failed")
  /\ Len(byUser[attempt[a].user]) < MaxBucket
  /\ LET u == attempt[a].user
         crowded == Crowded(byUser, u)
     IN /\ byUser' = recordBucket(byUser, u)
        /\ byIP' = IF crowded THEN Swept(byIP, GcInterval) ELSE byIP
        /\ lastSwep' = IF crowded THEN 0 ELSE lastSwep
  /\ Done(a)
  /\ UNCHANGED failLog

\* RecordSuccess clears both buckets.
RecordSuccess(a) ==
  /\ At(a, "verify")
  /\ byIP' = [byIP EXCEPT ![attempt[a].ip] = <<>>]
  /\ byUser' = [byUser EXCEPT ![attempt[a].user] = <<>>]
  /\ failLog' = [failLog EXCEPT ![attempt[a].ip] = <<>>]
  /\ Done(a)
  /\ UNCHANGED lastSwep

\* Any other way out of the handler (a malformed body, a disabled account, a new
\* password that the policy refuses) touches no bucket.
LeaveEarly(a) ==
  /\ attempt[a].pc \in {"user", "verify"}
  /\ Done(a)
  /\ UNCHANGED <<byIP, byUser, lastSwep, failLog>>

Older(ages) == [i \in DOMAIN ages |-> IF ages[i] < PurgeBackoff THEN ages[i] + 1 ELSE ages[i]]

TimePasses ==
  /\ byIP' = [i \in IPs |-> Older(byIP[i])]
  /\ byUser' = [u \in AccountKeys |-> Older(byUser[u])]
  /\ failLog' = [i \in IPs |-> InWindow(Older(failLog[i]))]
  /\ lastSwep' = IF SweepDue(lastSwep) THEN lastSwep ELSE lastSwep + 1
  /\ UNCHANGED attempt

LimiterNext ==
  \/ TimePasses
  \/ \E a \in Attempts :
       \/ \E ip \in IPs, u \in AccountKeys, kind \in {"login", "password"} : AllowIP(a, ip, u, kind)
       \/ AllowUser(a)
       \/ RecordFailureIP(a)
       \/ RecordFailureUser(a)
       \/ RecordSuccess(a)
       \/ LeaveEarly(a)

LimiterSpec == LimiterInit /\ [][LimiterNext]_limiterVars

-------------------------------------------------------------------------------
\* The ages stay in range and the requests well formed.
LimiterTypeOK ==
  /\ DOMAIN byIP = IPs /\ DOMAIN byUser = AccountKeys /\ DOMAIN failLog = IPs
  /\ \A i \in IPs : byIP[i] \in Seq(0..PurgeBackoff) /\ failLog[i] \in Seq(0..PurgeBackoff)
  /\ \A u \in AccountKeys : byUser[u] \in Seq(0..PurgeBackoff)
  /\ lastSwep \in 0..GcInterval
  /\ attempt \in [Attempts -> [pc : {"idle", "user", "verify", "failed"}, ip : IPs \cup {"none"},
                               user : AccountKeys \cup {"none"}, kind : {"login", "password", "none"}]]

\* The attempts of an address that were let in and have not failed or succeeded yet.
Admitted(ip) == {a \in Attempts : attempt[a].ip = ip /\ attempt[a].pc \in {"user", "verify"}}

\* allowBucket and recordBucket are separate calls: requests that overlap may all
\* be let in on the last free place, but never more than that.  Whatever the
\* sweeps remove, an address has at most maxIP - 1 failures in its window plus
\* one for each request in flight.
BudgetHeld ==
  \A ip \in IPs :
    Len(InWindow(byIP[ip])) + Cardinality(Admitted(ip)) =< MaxIP - 1 + Cardinality(Attempts)

\* The opportunistic sweep and the pruning of single buckets forget nothing that
\* still counts: every recorded failure of the window is in the bucket.
NothingForgotten == \A ip \in IPs : InWindow(byIP[ip]) = InWindow(failLog[ip])

\* A flood of made-up keys does not grow the maps beyond maxEntries.
MapsBounded == Entries(byIP) =< MaxEntries /\ Entries(byUser) =< MaxEntries

\* The limiter as a whole: the budget holds up to the logins that overlap, sweeps
\* and purges forget no failure that still counts, and the maps stay bounded.
LimiterSound == BudgetHeld /\ NothingForgotten /\ MapsBounded

===============================================================================
