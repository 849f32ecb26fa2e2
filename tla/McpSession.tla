---------------------------- MODULE McpSession -----------------------------
(***************************************************************************)
(* Streamable HTTP sessions: the handlers of /mcp (mcp/endpoints.mcp.ts,   *)
(* mcp/protocol.ts) over the durable session record                        *)
(* (auth/storage/dynamodb/mcp-sessions.ts and auth/storage/disk-store.ts). *)
(*                                                                         *)
(* A POST touches its session, reserves its request id, checks that the    *)
(* session is initialized and dispatches the method; each of the store's   *)
(* operations is two requests to DynamoDB or one update of the file.  Any  *)
(* number of requests of a session are under way at once, on any instance. *)
(* A kind of message stands for all messages that are handled alike:       *)
(*   initialize     creates a session                                      *)
(*   ungated        has an id and is dispatched before initialization too  *)
(*   gated          has an id and needs an initialized session             *)
(*   initialized    the notification notifications/initialized             *)
(*   notification   any other message without id, a stream (GET)           *)
(*   delete         DELETE /mcp                                            *)
(***************************************************************************)
EXTENDS DynamoTable

CONSTANTS
    Session, RequestId, Worker,
    None,
    SessionTtl,     \* 3600
    MaxRequestIds,  \* 4096
    MaxAttempts,    \* 5
    MaxClock

ASSUME McpSessionAssumption ==
    /\ SessionTtl \in Nat \ {0}
    /\ MaxRequestIds \in Nat
    /\ MaxAttempts \in Nat \ {0}
    /\ MaxClock \in Nat

VARIABLES
    backend,    \* the store the deployment was configured with
    clock,      \* nowSeconds()
    item,       \* the session records
    call,       \* the requests under way, by worker
    created,    \* history: sessions ever given out
    served,     \* history: how often each request id was dispatched
    ready,      \* history: sessions whose initialized notification got its 202
    ended       \* history: how many DELETEs of a session got their 204

vars == <<backend, clock, item, call, created, served, ready, ended>>

Item == [expiresAt : Nat, terminated : BOOLEAN, initialized : BOOLEAN,
         requestIds : SUBSET RequestId, requestIdCount : Nat]

Identified == {"ungated", "gated"}

Kind == Identified \cup {"initialize", "initialized", "notification", "delete"}

(* mark: the second touch of an initialized notification.  initialized:     *)
(* what the touch reported.  seen: the request ids read.  readyBefore and   *)
(* endedBefore say what the client could know when it sent the request.     *)
Call == [pc : {"save", "touch", "touchWrite", "reserve", "reserveWrite", "dispatch", "terminate"},
         kind : Kind, session : Session \cup {None}, id : RequestId \cup {None},
         mark : BOOLEAN, initialized : BOOLEAN, seen : SUBSET RequestId,
         now : Nat, attempt : Nat, readyBefore : BOOLEAN, endedBefore : BOOLEAN]

Init ==
    /\ backend \in {"disk", "dynamodb"}
    /\ clock = 1
    /\ item = EmptyTable
    /\ call = EmptyTable
    /\ created = {}
    /\ served = [k \in Session \X RequestId |-> 0]
    /\ ready = {}
    /\ ended = [s \in Session |-> 0]

-----------------------------------------------------------------------------
(* Helpers *)

Answer(w) == call' = DeleteItem(call, w)

Continue(w, next) == call' = PutItem(call, w, next)

(* The file's update reads the time when it runs, the table's operations    *)
(* when they are called.                                                    *)
Now(w) == IF backend = "disk" THEN clock ELSE call[w].now

(* Mutant: the expiry is not looked at. *)
MutLive(s, now) == HasItem(item, s) /\ ~item[s].terminated

(* validateMcpSession, and the condition of every update: the session is    *)
(* there, not terminated and not expired.                                   *)
Live(s, now) == ExpiresAfter(item, s, now) /\ ~item[s].terminated

-----------------------------------------------------------------------------
(* A request arrives, with a valid bearer token.  A session id that was     *)
(* never given out is answered 404 and is left out.                         *)

ReceiveInitialize(w) ==
    /\ w \notin DOMAIN call
    /\ Continue(w, [pc |-> "save", kind |-> "initialize", session |-> None, id |-> None,
                    mark |-> FALSE, initialized |-> FALSE, seen |-> {}, now |-> clock,
                    attempt |-> 0, readyBefore |-> FALSE, endedBefore |-> FALSE])
    /\ UNCHANGED <<backend, clock, item, created, served, ready, ended>>

Receive(w, kind, s, id) ==
    /\ w \notin DOMAIN call
    /\ kind # "initialize"
    /\ kind \in Identified <=> id # None
    /\ s \in created
    /\ Continue(w, [pc |-> "touch", kind |-> kind, session |-> s, id |-> id,
                    mark |-> FALSE, initialized |-> FALSE, seen |-> {}, now |-> clock,
                    attempt |-> 0, readyBefore |-> s \in ready,
                    endedBefore |-> ended[s] > 0 \/ ~ExpiresAfter(item, s, clock)])
    /\ UNCHANGED <<backend, clock, item, created, served, ready, ended>>

-----------------------------------------------------------------------------
(* saveMcpSession: the answer to an initialize request carries a new id.    *)

SaveMcpSession(w, s) ==
    /\ w \in DOMAIN call
    /\ call[w].pc = "save"
    /\ s \notin created
    /\ item' = PutItem(item, s, [expiresAt |-> call[w].now + SessionTtl, terminated |-> FALSE,
                                 initialized |-> FALSE, requestIds |-> {}, requestIdCount |-> 0])
    /\ created' = created \cup {s}
    /\ Answer(w)
    /\ UNCHANGED <<backend, clock, served, ready, ended>>

-----------------------------------------------------------------------------
(* touchMcpSession.  lastSeenAt is written and never read.                  *)

(* The first request of the touch; a mismatch of the protocol version is    *)
(* refused here too.                                                        *)
TouchRead(w) ==
    /\ backend = "dynamodb"
    /\ w \in DOMAIN call
    /\ call[w].pc = "touch"
    /\ \/ /\ Live(call[w].session, call[w].now)
          /\ Continue(w, [call[w] EXCEPT !.pc = "touchWrite",
                              !.initialized = item[call[w].session].initialized])
       \/ Answer(w)
    /\ UNCHANGED <<backend, clock, item, created, served, ready, ended>>

(* What follows a touch that succeeded. *)
AfterTouch(w, initialized) ==
    \/ /\ call[w].kind \in Identified
       /\ Continue(w, [call[w] EXCEPT !.pc = "reserve", !.initialized = initialized, !.now = clock,
                                      !.attempt = 1])
       /\ UNCHANGED ready
    \/ /\ call[w].kind = "initialized" /\ ~call[w].mark
       /\ Continue(w, [call[w] EXCEPT !.pc = "touch", !.mark = TRUE, !.now = clock])
       /\ UNCHANGED ready
    \/ /\ call[w].kind = "initialized" /\ call[w].mark
       /\ Answer(w)
       /\ ready' \in {ready, ready \cup {call[w].session}}
    \/ /\ call[w].kind = "delete"
       /\ Continue(w, [call[w] EXCEPT !.pc = "terminate", !.now = clock])
       /\ UNCHANGED ready
    \/ /\ call[w].kind = "notification"
       /\ Answer(w)
       /\ UNCHANGED ready

(* Mutant: the update writes back the flag that was read. *)
MutTouched(s, mark, initialized) == [item EXCEPT ![s].initialized = initialized \/ mark]

(* The record after the update; only a marking touch changes it. *)
Touched(s, mark, initialized) ==
    IF mark /\ ~initialized THEN [item EXCEPT ![s].initialized = TRUE] ELSE item

TouchWrite(w) ==
    /\ w \in DOMAIN call
    /\ call[w].pc = "touchWrite"
    /\ LET s == call[w].session IN
         IF Live(s, call[w].now)
           THEN /\ item' = Touched(s, call[w].mark, call[w].initialized)
                /\ AfterTouch(w, call[w].initialized \/ call[w].mark)
           ELSE /\ Answer(w)
                /\ UNCHANGED <<item, ready>>
    /\ UNCHANGED <<backend, clock, created, served, ended>>

(* The disk store touches in one update. *)
DiskTouch(w) ==
    /\ backend = "disk"
    /\ w \in DOMAIN call
    /\ call[w].pc = "touch"
    /\ LET s == call[w].session IN
         /\ Live(s, clock)
         /\ item' = Touched(s, call[w].mark, item[s].initialized)
         /\ AfterTouch(w, item[s].initialized \/ call[w].mark)
    /\ UNCHANGED <<backend, clock, created, served, ended>>

-----------------------------------------------------------------------------
(* reserveMcpRequestId *)

(* Mutant: the limit is compared with > instead of >=. *)
MutMayReserve(ids, id) == id \notin ids /\ Cardinality(ids) <= MaxRequestIds

(* Neither a duplicate nor one too many. *)
MayReserve(ids, id) == id \notin ids /\ Cardinality(ids) < MaxRequestIds

ReserveRead(w) ==
    /\ backend = "dynamodb"
    /\ w \in DOMAIN call
    /\ call[w].pc = "reserve"
    /\ LET s == call[w].session IN
         IF Live(s, call[w].now) /\ MayReserve(item[s].requestIds, call[w].id)
           THEN Continue(w, [call[w] EXCEPT !.pc = "reserveWrite", !.seen = item[s].requestIds])
           ELSE Answer(w)
    /\ UNCHANGED <<backend, clock, item, created, served, ready, ended>>

(* Mutant: the count that was read is not compared. *)
MutReserveHolds(s, seen, now) == Live(s, now)

ReserveHolds(s, seen, now) ==
    Live(s, now) /\ item[s].requestIdCount = Cardinality(seen)

ReserveWrite(w) ==
    /\ w \in DOMAIN call
    /\ call[w].pc = "reserveWrite"
    /\ LET s == call[w].session
           ids == call[w].seen \cup {call[w].id} IN
         /\ ReserveHolds(s, call[w].seen, call[w].now)
         /\ item' = [item EXCEPT ![s].requestIds = ids,
                                 ![s].requestIdCount = Cardinality(call[w].seen) + 1]
    /\ Continue(w, [call[w] EXCEPT !.pc = "dispatch", !.seen = {}])
    /\ UNCHANGED <<backend, clock, created, served, ready, ended>>

(* The condition failed: read again, at most MaxAttempts times. *)
ReserveConflict(w) ==
    /\ w \in DOMAIN call
    /\ call[w].pc = "reserveWrite"
    /\ ~ReserveHolds(call[w].session, call[w].seen, call[w].now)
    /\ IF call[w].attempt < MaxAttempts
         THEN Continue(w, [call[w] EXCEPT !.pc = "reserve", !.seen = {}, !.now = clock, !.attempt = @ + 1])
         ELSE Answer(w)
    /\ UNCHANGED <<backend, clock, item, created, served, ready, ended>>

DiskReserve(w) ==
    /\ backend = "disk"
    /\ w \in DOMAIN call
    /\ call[w].pc = "reserve"
    /\ LET s == call[w].session IN
         /\ Live(s, clock)
         /\ MayReserve(item[s].requestIds, call[w].id)
         /\ item' = [item EXCEPT ![s].requestIds = @ \cup {call[w].id},
                                 ![s].requestIdCount = @ + 1]
    /\ Continue(w, [call[w] EXCEPT !.pc = "dispatch"])
    /\ UNCHANGED <<backend, clock, created, served, ready, ended>>

-----------------------------------------------------------------------------
(* handleMcpJson after the reservation *)

(* Mutant: the gate is left out. *)
MutGateOpen(c) == TRUE

GateOpen(c) == c.kind = "gated" => c.initialized

Dispatch(w) ==
    /\ w \in DOMAIN call
    /\ call[w].pc = "dispatch"
    /\ GateOpen(call[w])
    /\ served' = [served EXCEPT ![<<call[w].session, call[w].id>>] = @ + 1]
    /\ Answer(w)
    /\ UNCHANGED <<backend, clock, item, created, ready, ended>>

(* "session is not initialized"; the request id stays reserved. *)
GateRefuses(w) ==
    /\ w \in DOMAIN call
    /\ call[w].pc = "dispatch"
    /\ ~GateOpen(call[w])
    /\ Answer(w)
    /\ UNCHANGED <<backend, clock, item, created, served, ready, ended>>

-----------------------------------------------------------------------------
(* terminateMcpSession; the 204 may get lost. *)
Terminate(w) ==
    /\ w \in DOMAIN call
    /\ call[w].pc = "terminate"
    /\ LET s == call[w].session IN
         /\ Live(s, Now(w))
         /\ item' = [item EXCEPT ![s].terminated = TRUE]
         /\ \E answered \in {0, 1} : ended' = [ended EXCEPT ![s] = @ + answered]
    /\ Answer(w)
    /\ UNCHANGED <<backend, clock, created, served, ready>>

(* A store operation refuses with 404, 400, 429 or a duplicate id, or fails *)
(* with nothing applied, or its answer is lost, or the process dies.        *)
CallEnds(w) ==
    /\ w \in DOMAIN call
    /\ Answer(w)
    /\ UNCHANGED <<backend, clock, item, created, served, ready, ended>>

(* The table's TTL process. *)
Sweep(s) ==
    /\ backend = "dynamodb"
    /\ HasItem(item, s)
    /\ item[s].expiresAt <= clock
    /\ item' = DeleteItem(item, s)
    /\ UNCHANGED <<backend, clock, call, created, served, ready, ended>>

Tick ==
    /\ clock < MaxClock
    /\ clock' = clock + 1
    /\ UNCHANGED <<backend, item, call, created, served, ready, ended>>

Next ==
    \/ \E w \in Worker :
          \/ ReceiveInitialize(w)
          \/ \E kind \in Kind, s \in Session, id \in RequestId \cup {None} : Receive(w, kind, s, id)
          \/ \E s \in Session : SaveMcpSession(w, s)
          \/ TouchRead(w) \/ TouchWrite(w) \/ DiskTouch(w)
          \/ ReserveRead(w) \/ ReserveWrite(w) \/ ReserveConflict(w) \/ DiskReserve(w)
          \/ Dispatch(w) \/ GateRefuses(w)
          \/ Terminate(w)
          \/ CallEnds(w)
    \/ \E s \in Session : Sweep(s)
    \/ Tick

Spec == Init /\ [][Next]_vars

-----------------------------------------------------------------------------
(* Properties *)

TypeOK ==
    /\ backend \in {"disk", "dynamodb"}
    /\ clock \in Nat
    /\ DOMAIN item \subseteq created
    /\ \A s \in DOMAIN item : item[s] \in Item
    /\ DOMAIN call \subseteq Worker
    /\ \A w \in DOMAIN call : call[w] \in Call /\ call[w].attempt <= MaxAttempts
    /\ created \subseteq Session
    /\ served \in [Session \X RequestId -> Nat]
    /\ ready \subseteq Session
    /\ ended \in [Session -> Nat]

(* A request id of a session is dispatched at most once, however many       *)
(* copies of the request are under way and however often it is retried:     *)
(* reserveMcpRequestId hands an id to one request only.                     *)
ServedOnce == \A k \in Session \X RequestId : served[k] <= 1

(* An id, once used, stays used for the life of the record, the stored      *)
(* count is the number of ids, and it never exceeds the limit: the          *)
(* read-extend-write of the set loses no id of a concurrent request.        *)
ReservationsKept ==
    \A s \in DOMAIN item :
        /\ \A i \in RequestId : served[<<s, i>>] > 0 => i \in item[s].requestIds
        /\ item[s].requestIdCount = Cardinality(item[s].requestIds)
        /\ item[s].requestIdCount <= MaxRequestIds

(* A request sent after the 202 for notifications/initialized is not        *)
(* refused as uninitialized: no concurrent touch takes the mark back.       *)
ReadyIsServed ==
    \A w \in DOMAIN call :
        call[w].pc = "dispatch" /\ call[w].readyBefore => GateOpen(call[w])

(* A gated method is dispatched only in a session that has been marked      *)
(* initialized, although the gate looks at what a touch reported before the *)
(* reservation.                                                             *)
GatedWorkIsInitialized ==
    [][\A w \in DOMAIN call :
          LET s == call[w].session IN
          (call[w].kind = "gated" /\ w \notin DOMAIN call' /\ served' # served /\ s \in DOMAIN item)
            => item[s].initialized]_vars

(* A request that arrives after the 204 of DELETE, or after the hour of the *)
(* session, gets no further than its first touch: nothing is reserved,      *)
(* dispatched, marked or terminated by it; and of the DELETEs of a session  *)
(* that were under way at once only one is told 204.                        *)
NothingAfterEnd ==
    /\ \A w \in DOMAIN call : call[w].endedBefore => call[w].pc = "touch"
    /\ \A s \in Session : ended[s] <= 1
=============================================================================
