----------------------------- MODULE RateLimit -----------------------------
(***************************************************************************)
(* The durable sliding counter of one bucket and subject                   *)
(* (auth/rate-limit.ts, auth/storage/rate-limit-algorithm.ts and the two   *)
(* stores behind it).                                                      *)
(*                                                                         *)
(* The disk store runs the algorithm inside StoreFile.update, in one step. *)
(* The DynamoDB store takes the time, reads the item, runs the algorithm   *)
(* and writes the item back if the counters it read are still there,       *)
(* repeating all of it after a conflict.  The weighted comparison is made  *)
(* in integers: both sides are multiplied by the window length.            *)
(***************************************************************************)
EXTENDS Naturals, FiniteSets

CONSTANTS
    Window,         \* policy.windowSeconds
    MaxRequests,    \* policy.maxRequests
    MaxAttempts,    \* 5 in the code
    Worker,         \* concurrent calls of the DynamoDB store
    NoRecord,
    MaxClock

ASSUME RateLimitAssumption ==
    /\ Window \in Nat \ {0}
    /\ MaxRequests \in Nat \ {0}
    /\ MaxAttempts \in Nat \ {0}
    /\ MaxClock \in Nat /\ MaxClock >= Window

VARIABLES
    backend,    \* the store the deployment was configured with
    clock,      \* nowSeconds()
    item,       \* the stored record, or None
    hit,        \* the DynamoDB calls under way
    accepted,   \* history: requests counted in each window, by its start
    hitAt,      \* history: the time used by the last request counted
    straddled   \* history: a call was under way when a window began

rateVars == <<backend, clock, item, hit, accepted, hitAt, straddled>>

Windows == {s \in 0..MaxClock : s % Window = 0}

Record == [windowStart : Nat, previousCount : Nat, currentCount : Nat, expiresAt : Nat]

ASSUME NoRecordAssumption == NoRecord \notin Record

Idle == [pc |-> "idle", now |-> 0, attempt |-> 0, existing |-> NoRecord]

RateInit ==
    /\ backend \in {"disk", "dynamodb"}
    /\ clock = Window
    /\ item = NoRecord
    /\ hit = [w \in Worker |-> Idle]
    /\ accepted = [s \in Windows |-> 0]
    /\ hitAt = Window
    /\ straddled = FALSE

-----------------------------------------------------------------------------
(* rate-limit-algorithm.ts *)

WindowStart(now) == (now \div Window) * Window

(* countersForWindow *)
CountersForWindow(existing, now) ==
    LET none == [previousCount |-> 0, currentCount |-> 0] IN
    IF existing = NoRecord THEN none
    ELSE IF existing.expiresAt <= now THEN none
    ELSE IF existing.windowStart = WindowStart(now)
           THEN [previousCount |-> existing.previousCount, currentCount |-> existing.currentCount]
    ELSE IF existing.windowStart + Window = WindowStart(now)
           THEN [previousCount |-> existing.currentCount, currentCount |-> 0]
    ELSE none

(* The fraction of the previous window that still counts, times Window. *)
Remaining(now) == Window - (now - WindowStart(now))

(* The request is not over the limit. *)
WithinLimit(existing, now) ==
    LET c == CountersForWindow(existing, now) IN
    c.currentCount * Window + c.previousCount * Remaining(now) < MaxRequests * Window

(* Mutant: a record lives for one window only, and is gone when the next    *)
(* window needs its count.                                                  *)
MutNextRecord(existing, now) ==
    LET c == CountersForWindow(existing, now) IN
    [windowStart   |-> WindowStart(now),
     previousCount |-> c.previousCount,
     currentCount  |-> c.currentCount + 1,
     expiresAt     |-> WindowStart(now) + Window]

(* The record nextRateLimitRecord returns when it does not throw. *)
NextRecord(existing, now) ==
    LET c == CountersForWindow(existing, now) IN
    [windowStart   |-> WindowStart(now),
     previousCount |-> c.previousCount,
     currentCount  |-> c.currentCount + 1,
     expiresAt     |-> WindowStart(now) + 2 * Window]

(* A request is counted: the record is written. *)
Count(existing, now) ==
    /\ item' = NextRecord(existing, now)
    /\ accepted' = [accepted EXCEPT ![WindowStart(now)] = @ + 1]
    /\ hitAt' = now

-----------------------------------------------------------------------------
(* DiskRateLimitStore.hit.  A refused request throws inside the update, so  *)
(* not even the pruning of expired records is written.                      *)

Pruned(now) == IF item # NoRecord /\ item.expiresAt <= now THEN NoRecord ELSE item

DiskHit ==
    /\ backend = "disk"
    /\ WithinLimit(Pruned(clock), clock)
    /\ Count(Pruned(clock), clock)
    /\ UNCHANGED <<backend, clock, hit, straddled>>

-----------------------------------------------------------------------------
(* DynamoDbRateLimitStore.hit *)

(* tryHit: the time is taken before the read is sent. *)
StartHit(w) ==
    /\ backend = "dynamodb"
    /\ hit[w].pc = "idle"
    /\ hit' = [hit EXCEPT ![w] = [pc |-> "read", now |-> clock, attempt |-> 1, existing |-> NoRecord]]
    /\ UNCHANGED <<backend, clock, item, accepted, hitAt, straddled>>

(* readRateLimitRecord ignores an expired item; a request over the limit is *)
(* refused here.                                                            *)
ReadRecord(w) ==
    /\ hit[w].pc = "read"
    /\ LET existing == Pruned(hit[w].now) IN
         hit' = [hit EXCEPT ![w] =
           IF WithinLimit(existing, hit[w].now)
             THEN [@ EXCEPT !.pc = "put", !.existing = existing]
             ELSE Idle]
    /\ UNCHANGED <<backend, clock, item, accepted, hitAt, straddled>>

(* Mutant: the item is written back unconditionally. *)
MutPutCondition(existing, now) == TRUE

PutCondition(existing, now) ==
    IF existing = NoRecord
      THEN item # NoRecord => item.expiresAt <= now
      ELSE /\ item # NoRecord
           /\ item.windowStart = existing.windowStart
           /\ item.previousCount = existing.previousCount
           /\ item.currentCount = existing.currentCount

PutRecord(w) ==
    /\ hit[w].pc = "put"
    /\ PutCondition(hit[w].existing, hit[w].now)
    /\ Count(hit[w].existing, hit[w].now)
    /\ hit' = [hit EXCEPT ![w] = Idle]
    /\ UNCHANGED <<backend, clock, straddled>>

(* A conflict starts over with a new time; the last attempt is a 500. *)
PutConflict(w) ==
    /\ hit[w].pc = "put"
    /\ ~PutCondition(hit[w].existing, hit[w].now)
    /\ hit' = [hit EXCEPT ![w] =
         IF @.attempt < MaxAttempts
           THEN [pc |-> "read", now |-> clock, attempt |-> @.attempt + 1, existing |-> NoRecord]
           ELSE Idle]
    /\ UNCHANGED <<backend, clock, item, accepted, hitAt, straddled>>

(* A request to the table fails, or the process dies.  A write that was     *)
(* applied although its answer got lost is a PutRecord: it counts.          *)
CallFails(w) ==
    /\ hit[w].pc # "idle"
    /\ hit' = [hit EXCEPT ![w] = Idle]
    /\ UNCHANGED <<backend, clock, item, accepted, hitAt, straddled>>

-----------------------------------------------------------------------------
(* The table's TTL process, and the clock. *)

Sweep ==
    /\ backend = "dynamodb"
    /\ item # NoRecord
    /\ item.expiresAt <= clock
    /\ item' = NoRecord
    /\ UNCHANGED <<backend, clock, hit, accepted, hitAt, straddled>>

Tick ==
    /\ clock < MaxClock
    /\ clock' = clock + 1
    /\ straddled' = IF \/ WindowStart(clock + 1) = WindowStart(clock)
                       \/ \A w \in Worker : hit[w].pc = "idle"
                      THEN straddled ELSE TRUE
    /\ UNCHANGED <<backend, item, hit, accepted, hitAt>>

RateNext ==
    \/ DiskHit
    \/ \E w \in Worker : StartHit(w) \/ ReadRecord(w) \/ PutRecord(w) \/ PutConflict(w) \/ CallFails(w)
    \/ Sweep
    \/ Tick

RateSpec == RateInit /\ [][RateNext]_rateVars

-----------------------------------------------------------------------------
(* Properties *)

RateTypeOK ==
    /\ backend \in {"disk", "dynamodb"}
    /\ clock \in Window..(MaxClock + Window)
    /\ item = NoRecord \/ item \in Record
    /\ \A w \in Worker :
          /\ hit[w].pc \in {"idle", "read", "put"}
          /\ hit[w].now \in 0..clock
          /\ hit[w].attempt \in 0..MaxAttempts
          /\ hit[w].existing = NoRecord \/ hit[w].existing \in Record
    /\ accepted \in [Windows -> Nat]
    /\ hitAt \in Nat
    /\ straddled \in BOOLEAN

(* The next three hold as long as no call was under way when a window began; *)
(* StraddleCap says what holds after that.                                   *)

(* The configured limit: no window ever counts more requests than           *)
(* maxRequests.                                                             *)
WindowCap == ~straddled => \A s \in Windows : accepted[s] <= MaxRequests

(* The sliding limit, against the true history and not the stored counters: *)
(* with the last request counted, its own window and what is left of the    *)
(* window before stay under maxRequests + 1.                                *)
WeightedCap ==
    LET s == WindowStart(hitAt) IN
    ~straddled =>
      accepted[s] * Window + accepted[s - Window] * Remaining(hitAt) < (MaxRequests + 1) * Window

(* No request is forgotten while it counts: as long as the current or the   *)
(* previous window saw requests the stored counters equal the history, so   *)
(* neither a conflict, a failed call nor a sweep loses one.                 *)
CountersMatchHistory ==
    LET s == WindowStart(clock)
        c == CountersForWindow(item, clock) IN
    ~straddled => /\ c.currentCount = accepted[s]
                  /\ c.previousCount = accepted[s - Window]

(* What is left of the limit when a call may be under way as a window       *)
(* begins.  A call that took its time before (tryHit, line 33) writes a     *)
(* record of the old window over that of the new one, whose count starts    *)
(* again, and may count in its own window when that one's counter is gone.  *)
(* Each call can do each of these once per window, so a window counts at    *)
(* most maxRequests + 1 requests for every call that can be under way at    *)
(* once.  The disk store takes the time under its lock and keeps the limit. *)
StraddleCap ==
    \A s \in Windows :
        accepted[s] <= IF backend = "disk" THEN MaxRequests
                       ELSE Cardinality(Worker) * (MaxRequests + 1)
=============================================================================
