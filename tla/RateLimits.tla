----------------------------- MODULE RateLimits -----------------------------
(***************************************************************************)
(* The two limiters of rate_limiter.py for one user and one operation: the *)
(* sliding window in the memory of a process, and the fixed windows counted*)
(* in the database.  A request to the database limiter reads the clock and *)
(* later runs its transaction: it may wait for a connection or for the     *)
(* bucket's row in between, and its window may be over by then.  Both use  *)
(* the clock; they share nothing else, and each has its own next-state     *)
(* relation.                                                               *)
(***************************************************************************)
EXTENDS Naturals, Sequences, FiniteSets

CONSTANTS
  Requests,     \* requests that go through the database limiter
  MaxRequests,  \* max_requests of both limiters
  Window,       \* window_seconds, in ticks
  Horizon,      \* bound: ticks of the clock
  Admissions    \* bound: admissions by the process's limiter

ASSUME LimitAssumption ==
  MaxRequests \in Nat \ {0} /\ Window \in Nat \ {0}
  /\ Horizon \in Nat /\ Admissions \in Nat

VARIABLES
  now,       \* the clock
  hits,      \* RateLimiter._hits of the user, oldest first
  admits,    \* times of all admissions by the process's limiter
  bucket,    \* rate_limit_buckets: window_key to request_count, 0 if no row
  request,   \* the clock each waiting request has read
  onTime     \* admissions of each window committed before its end

limitVars == <<now, hits, admits, bucket, request, onTime>>

WindowKeys == 0 .. (Horizon \div Window)

LimitInit ==
  /\ now = 0
  /\ hits = <<>> /\ admits = <<>>
  /\ bucket = [k \in WindowKeys |-> 0]
  /\ request = <<>>
  /\ onTime = [k \in WindowKeys |-> 0]

Tick ==
  /\ now < Horizon
  /\ now' = now + 1
  /\ UNCHANGED <<hits, admits, bucket, request, onTime>>

-----------------------------------------------------------------------------
(* RateLimiter.check, under its lock.  The clock is read a moment earlier, *)
(* here in the same step.                                                 *)

\* Mutant of Aged: a hit is forgotten when the window is just full.
AgedEarly(hit) == now - hit >= Window

Aged(hit) == now - hit > Window

\* Hits leave the queue at its front, until one is met that has not aged.
Drops(n) ==
  /\ \A i \in 1 .. n : Aged(hits[i])
  /\ n < Len(hits) => ~Aged(hits[n + 1])

Check ==
  \E n \in 0 .. Len(hits) :
    LET kept == SubSeq(hits, n + 1, Len(hits)) IN
    /\ Drops(n)
    /\ IF Len(kept) >= MaxRequests
       THEN hits' = kept /\ UNCHANGED admits
       ELSE hits' = Append(kept, now) /\ admits' = Append(admits, now)
    /\ UNCHANGED <<now, bucket, request, onTime>>

-----------------------------------------------------------------------------
(* DatabaseRateLimiter.check *)

KeyAt(t) == t \div Window

\* now_epoch is read outside the transaction.
Arrive(r) ==
  /\ r \notin DOMAIN request
  /\ request' = [q \in DOMAIN request \cup {r} |-> IF q = r THEN now ELSE request[q]]
  /\ UNCHANGED <<now, hits, admits, bucket, onTime>>

\* The DELETE: windows that were over when the request read the clock.
Purged(t) == [k \in WindowKeys |-> IF (k + 1) * Window <= t THEN 0 ELSE bucket[k]]

\* Mutant of Over: one request too many.
OverByOne(count) == count > MaxRequests + 1

Over(count) == count > MaxRequests

\* The whole transaction: the upsert locks the row, so the counting of one
\* window is serial; a rejected request is rolled back, purge included.
Admit(r) ==
  LET t     == request[r]
      k     == KeyAt(t)
      count == Purged(t)[k] + 1
  IN
  /\ r \in DOMAIN request
  /\ request' = [q \in DOMAIN request \ {r} |-> request[q]]
  /\ IF Over(count)
     THEN UNCHANGED <<bucket, onTime>>
     ELSE /\ bucket' = [Purged(t) EXCEPT ![k] = count]
          /\ onTime' = IF KeyAt(now) = k THEN [onTime EXCEPT ![k] = @ + 1] ELSE onTime
  /\ UNCHANGED <<now, hits, admits>>

SlidingNext == Tick \/ (Len(admits) < Admissions /\ Check)

FixedNext == Tick \/ \E r \in Requests : Arrive(r) \/ Admit(r)

-----------------------------------------------------------------------------
\* In no interval as long as the window, both ends included, does the process's
\* limiter admit more than allowed.
SlidingWindowHolds ==
  \A i \in 1 .. Len(admits) :
    Cardinality({j \in i .. Len(admits) : admits[j] <= admits[i] + Window}) <= MaxRequests

\* However requests wait between clock and transaction, and whatever buckets
\* are purged meanwhile, no more than the limit is admitted in a window while it
\* lasts, and the stored counter stays at the limit.  (A request that waited
\* past its window may find its bucket purged.)
FixedWindowHolds ==
  \A k \in WindowKeys : onTime[k] <= MaxRequests /\ bucket[k] <= MaxRequests

\* Both limiters keep to their limits.
LimitsHold == SlidingWindowHolds /\ FixedWindowHolds
=============================================================================
