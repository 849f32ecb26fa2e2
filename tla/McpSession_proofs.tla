------------------------- MODULE McpSession_proofs -------------------------
(* Proofs about McpSession, for every set of sessions, request ids and      *)
(* workers, either store, and every limit, and about McpRequests, for every *)
(* message, list and page.                                                  *)
EXTENDS McpSession, McpRequests, FiniteSetTheorems, SequenceTheorems, TLAPS

-----------------------------------------------------------------------------
(* The inductive invariant: what holds of a request under way ... *)

(* What the handlers rely on. *)
Formed(w) ==
    /\ call[w].now <= clock
    /\ IF call[w].pc = "save" THEN ~call[w].initialized ELSE call[w].session \in created
    /\ call[w].kind \in Identified => call[w].id \in RequestId
    /\ call[w].pc \in {"reserve", "reserveWrite", "dispatch"} => call[w].kind \in Identified

(* What a reservation has read is still in the record: ids are only added.  *)
SeenStillThere(w) ==
    call[w].pc = "reserveWrite" =>
        /\ MayReserve(call[w].seen, call[w].id)
        /\ call[w].session \in DOMAIN item => call[w].seen \subseteq item[call[w].session].requestIds

(* The id of a request about to be dispatched is in the record and unused.  *)
HoldsId(w) ==
    call[w].pc = "dispatch" =>
        /\ served[<<call[w].session, call[w].id>>] = 0
        /\ call[w].session \in DOMAIN item => call[w].id \in item[call[w].session].requestIds

(* A mark that a touch reported is in the record, and a request sent after  *)
(* the 202 has been told of it by its touch.                                *)
Told(w) ==
    /\ call[w].initialized /\ call[w].session \in DOMAIN item
         => item[call[w].session].initialized
    /\ call[w].readyBefore => call[w].session \in ready
    /\ call[w].readyBefore /\ call[w].pc \in {"touchWrite", "reserve", "reserveWrite", "dispatch"}
         => call[w].initialized

(* A request sent after the end is at its first touch, which will fail.     *)
TooLate(w) ==
    call[w].endedBefore => call[w].pc = "touch" /\ ~Live(call[w].session, call[w].now)

RequestOK(w) == Formed(w) /\ SeenStillThere(w) /\ HoldsId(w) /\ Told(w) /\ TooLate(w)

-----------------------------------------------------------------------------
(* ... and what holds of the records and the histories. *)

(* The stored count is the number of stored ids. *)
IdsCounted ==
    \A s \in DOMAIN item :
        /\ IsFiniteSet(item[s].requestIds)
        /\ item[s].requestIdCount = Cardinality(item[s].requestIds)
        /\ item[s].requestIdCount <= MaxRequestIds

(* An id that has been dispatched is in the record while there is one. *)
UsedIds ==
    \A s \in Session, i \in RequestId :
        served[<<s, i>>] > 0 =>
            s \in created /\ (s \in DOMAIN item => i \in item[s].requestIds)

(* At most one request holds an id. *)
HeldByOne ==
    \A w, v \in DOMAIN call :
        /\ call[w].pc = "dispatch" /\ call[v].pc = "dispatch"
        /\ call[w].session = call[v].session /\ call[w].id = call[v].id
        => w = v

(* A mark that the client was told of is in the record. *)
MarksKept == \A s \in ready : s \in created /\ (s \in DOMAIN item => item[s].initialized)

(* A session that was ended stays ended. *)
EndsKept ==
    \A s \in Session :
        /\ ended[s] <= 1
        /\ ended[s] > 0 => s \in created /\ (s \in DOMAIN item => item[s].terminated)

IInv ==
    /\ TypeOK
    /\ \A w \in DOMAIN call : RequestOK(w)
    /\ IdsCounted
    /\ UsedIds
    /\ HeldByOne
    /\ ServedOnce
    /\ MarksKept
    /\ EndsKept

-----------------------------------------------------------------------------
(* What every step has in common *)

(* A record that exists is extended, marked, terminated or swept, and never *)
(* made anew; nothing that was handed out is taken back.                    *)
RecordsOnlyGrow ==
    /\ created \subseteq created'
    /\ ready \subseteq ready'
    /\ clock <= clock'
    /\ \A s \in created \cap DOMAIN item' :
          /\ s \in DOMAIN item
          /\ item'[s].expiresAt = item[s].expiresAt
          /\ item[s].initialized => item'[s].initialized
          /\ item[s].terminated => item'[s].terminated
          /\ item[s].requestIds \subseteq item'[s].requestIds

(* The requests of the other workers are left alone. *)
OthersKept(w) ==
    \A v \in DOMAIN call' : v # w => v \in DOMAIN call /\ call'[v] = call[v]

(* The request of w, if it goes on, is as it should be. *)
NewRequestOK(w) ==
    w \in DOMAIN call' =>
        /\ call'[w] \in Call
        /\ call'[w].attempt <= MaxAttempts
        /\ RequestOK(w)'
        /\ call'[w].pc = "dispatch" =>
              \A v \in DOMAIN call :
                  ~ /\ v # w /\ call[v].pc = "dispatch"
                    /\ call[v].session = call'[w].session
                    /\ call[v].id = call'[w].id

LEMMA AnswerKeeps ==
    ASSUME NEW w, Answer(w)
    PROVE  OthersKept(w) /\ w \notin DOMAIN call' /\ NewRequestOK(w)
  BY DEF Answer, DeleteItem, OthersKept, NewRequestOK

LEMMA ContinueKeeps ==
    ASSUME NEW w, NEW next, Continue(w, next)
    PROVE  OthersKept(w) /\ w \in DOMAIN call' /\ call'[w] = next
  BY DEF Continue, PutItem, OthersKept

(* A request that is not touched by a step stays as it should be. *)
LEMMA RequestKept ==
    ASSUME IInv, RecordsOnlyGrow, clock' \in Nat, NEW v \in DOMAIN call,
           v \in DOMAIN call', call'[v] = call[v],
           \A s \in DOMAIN item' : item'[s] \in Item,
           DOMAIN item' \subseteq created',
           call[v].pc = "dispatch" =>
               served'[<<call[v].session, call[v].id>>] = served[<<call[v].session, call[v].id>>]
    PROVE  RequestOK(v)'
<1>1. call[v] \in Call /\ RequestOK(v) /\ clock \in Nat /\ call[v].now \in Nat
  BY DEF IInv, TypeOK, Call
<1>2. Formed(v)'
  BY <1>1 DEF RequestOK, Formed, RecordsOnlyGrow
<1>3. CASE call[v].pc = "save"
  <2>1. SeenStillThere(v)' /\ HoldsId(v)'
    BY <1>3 DEF SeenStillThere, HoldsId
  <2>2. TooLate(v)'
    BY <1>1, <1>3 DEF RequestOK, TooLate
  <2>3. Told(v)'
    BY <1>1, <1>3 DEF RequestOK, Formed, Told, RecordsOnlyGrow
  <2> QED
    BY <1>2, <2>1, <2>2, <2>3 DEF RequestOK
<1>4. CASE call[v].pc # "save"
  <2>1. call[v].session \in created
    BY <1>1, <1>4 DEF RequestOK, Formed
  <2>2. SeenStillThere(v)'
    BY <1>1, <2>1 DEF RequestOK, SeenStillThere, RecordsOnlyGrow, MayReserve
  <2>3. HoldsId(v)'
    BY <1>1, <2>1 DEF RequestOK, HoldsId, RecordsOnlyGrow
  <2>4. Told(v)'
    BY <1>1, <2>1 DEF RequestOK, Told, RecordsOnlyGrow
  <2>5. TooLate(v)'
    BY <1>1, <2>1 DEF RequestOK, TooLate, RecordsOnlyGrow, Live, ExpiresAfter, HasItem
  <2> QED
    BY <1>2, <2>2, <2>3, <2>4, <2>5 DEF RequestOK
<1> QED
  BY <1>3, <1>4

(* So do all requests in a step of worker w that dispatches nothing. *)
LEMMA RequestsKept ==
    ASSUME IInv, RecordsOnlyGrow, clock' \in Nat, NEW w \in Worker, OthersKept(w), NewRequestOK(w),
           \A s \in DOMAIN item' : item'[s] \in Item,
           DOMAIN item' \subseteq created',
           served' = served
    PROVE  /\ DOMAIN call' \subseteq Worker
           /\ \A v \in DOMAIN call' : call'[v] \in Call /\ call'[v].attempt <= MaxAttempts
           /\ \A v \in DOMAIN call' : RequestOK(v)'
           /\ HeldByOne'
<1>1. DOMAIN call' \subseteq Worker
  BY DEF OthersKept, IInv, TypeOK
<1>2. \A v \in DOMAIN call' : call'[v] \in Call /\ call'[v].attempt <= MaxAttempts
  BY DEF OthersKept, NewRequestOK, IInv, TypeOK
<1>3. ASSUME NEW v \in DOMAIN call' PROVE RequestOK(v)'
  <2>1. CASE v = w
    BY <2>1 DEF NewRequestOK
  <2>2. CASE v # w
    BY <2>2, RequestKept DEF OthersKept
  <2> QED
    BY <2>1, <2>2
<1>4. HeldByOne'
  BY DEF OthersKept, NewRequestOK, IInv, HeldByOne
<1> QED
  BY <1>1, <1>2, <1>3, <1>4

(* A step that only changes the request of w. *)
LEMMA QuietStep ==
    ASSUME IInv, NEW w \in Worker, OthersKept(w), NewRequestOK(w),
           UNCHANGED <<backend, clock, item, created, served, ready, ended>>
    PROVE  IInv'
<1>1. RecordsOnlyGrow
  BY DEF IInv, TypeOK, RecordsOnlyGrow
<1>2. /\ clock' \in Nat
      /\ \A s \in DOMAIN item' : item'[s] \in Item
      /\ DOMAIN item' \subseteq created'
  BY DEF IInv, TypeOK
<1>3. /\ DOMAIN call' \subseteq Worker
      /\ \A v \in DOMAIN call' : call'[v] \in Call /\ call'[v].attempt <= MaxAttempts
      /\ \A v \in DOMAIN call' : RequestOK(v)'
      /\ HeldByOne'
  BY <1>1, <1>2, RequestsKept
<1>4. TypeOK'
  BY <1>3 DEF IInv, TypeOK
<1>5. IdsCounted' /\ UsedIds' /\ ServedOnce' /\ MarksKept' /\ EndsKept'
  BY DEF IInv, IdsCounted, UsedIds, ServedOnce, MarksKept, EndsKept
<1> QED
  BY <1>3, <1>4, <1>5 DEF IInv

-----------------------------------------------------------------------------
LEMMA InitHolds ==
    ASSUME Init
    PROVE  IInv
<1>1. DOMAIN item = {} /\ DOMAIN call = {}
  BY DEF Init, EmptyTable
<1>2. TypeOK
  BY <1>1 DEF Init, TypeOK
<1>3. UsedIds /\ ServedOnce
  BY DEF Init, UsedIds, ServedOnce
<1>4. IdsCounted /\ HeldByOne /\ MarksKept /\ EndsKept /\ \A w \in DOMAIN call : RequestOK(w)
  BY <1>1 DEF Init, IdsCounted, HeldByOne, MarksKept, EndsKept
<1> QED
  BY <1>2, <1>3, <1>4 DEF IInv

LEMMA ReceiveInitializeStep ==
    ASSUME IInv, NEW w \in Worker, ReceiveInitialize(w)
    PROVE  IInv'
<1> DEFINE next == [pc |-> "save", kind |-> "initialize", session |-> None, id |-> None,
                    mark |-> FALSE, initialized |-> FALSE, seen |-> {}, now |-> clock,
                    attempt |-> 0, readyBefore |-> FALSE, endedBefore |-> FALSE]
<1>1. OthersKept(w) /\ call'[w] = next
  <2> HIDE DEF next
  <2>1. Continue(w, next)
    BY DEF ReceiveInitialize, next
  <2> QED
    BY <2>1, ContinueKeeps
<1>2. next \in Call /\ next.attempt <= MaxAttempts
  BY McpSessionAssumption DEF Call, Kind, IInv, TypeOK
<1>3. RequestOK(w)'
  <2>1. clock' = clock /\ clock \in Nat
    BY DEF ReceiveInitialize, IInv, TypeOK
  <2> QED
    BY <1>1, <2>1 DEF RequestOK, Formed, SeenStillThere, HoldsId, Told, TooLate, Identified
<1>4. NewRequestOK(w)
  BY <1>1, <1>2, <1>3 DEF NewRequestOK
<1> QED
  BY <1>1, <1>4, QuietStep DEF ReceiveInitialize

LEMMA ReceiveStep ==
    ASSUME IInv, NEW w \in Worker, NEW kind \in Kind, NEW s \in Session,
           NEW id \in RequestId \cup {None}, Receive(w, kind, s, id)
    PROVE  IInv'
<1> DEFINE next == [pc |-> "touch", kind |-> kind, session |-> s, id |-> id,
                    mark |-> FALSE, initialized |-> FALSE, seen |-> {}, now |-> clock,
                    attempt |-> 0, readyBefore |-> s \in ready,
                    endedBefore |-> ended[s] > 0 \/ ~ExpiresAfter(item, s, clock)]
<1>1. OthersKept(w) /\ call'[w] = next
  <2> HIDE DEF next
  <2>1. Continue(w, next)
    BY DEF Receive, next
  <2> QED
    BY <2>1, ContinueKeeps
<1>2. /\ clock \in Nat /\ clock' = clock /\ item' = item /\ ready' = ready /\ created' = created
      /\ s \in created
      /\ kind \in Identified => id \in RequestId
  BY DEF Receive, IInv, TypeOK
<1>3. next \in Call /\ next.attempt <= MaxAttempts
  BY <1>2, McpSessionAssumption DEF Call
<1>4. RequestOK(w)'
  <2>1. Formed(w)' /\ SeenStillThere(w)' /\ HoldsId(w)'
    BY <1>1, <1>2 DEF Formed, SeenStillThere, HoldsId
  <2>2. /\ call'[w].pc = "touch" /\ call'[w].session = s /\ call'[w].now = clock
        /\ ~call'[w].initialized
    BY <1>1
  <2>3. call'[w].readyBefore => s \in ready
    <3>1. next.readyBefore => s \in ready
      OBVIOUS
    <3> HIDE DEF next
    <3> QED
      BY <1>1, <3>1
  <2>4. call'[w].endedBefore => ended[s] > 0 \/ ~ExpiresAfter(item, s, clock)
    <3>1. next.endedBefore => ended[s] > 0 \/ ~ExpiresAfter(item, s, clock)
      OBVIOUS
    <3> HIDE DEF next
    <3> QED
      BY <1>1, <3>1
  <2>5. Told(w)'
    BY <1>2, <2>2, <2>3 DEF Told
  <2>6. TooLate(w)'
    BY <1>2, <2>2, <2>4 DEF TooLate, Live, ExpiresAfter, HasItem, IInv, EndsKept
  <2> QED
    BY <2>1, <2>5, <2>6 DEF RequestOK
<1>5. NewRequestOK(w)
  BY <1>1, <1>3, <1>4 DEF NewRequestOK
<1> QED
  BY <1>1, <1>5, QuietStep DEF Receive

LEMMA TouchReadStep ==
    ASSUME IInv, NEW w \in Worker, TouchRead(w)
    PROVE  IInv'
<1>1. CASE Answer(w)
  BY <1>1, AnswerKeeps, QuietStep DEF TouchRead
<1>2. CASE /\ Live(call[w].session, call[w].now)
           /\ Continue(w, [call[w] EXCEPT !.pc = "touchWrite",
                               !.initialized = item[call[w].session].initialized])
  <2> DEFINE next == [call[w] EXCEPT !.pc = "touchWrite",
                         !.initialized = item[call[w].session].initialized]
  <2>1. OthersKept(w) /\ call'[w] = next
    <3> HIDE DEF next
    <3>1. Continue(w, next)
      BY <1>2 DEF next
    <3> QED
      BY <3>1, ContinueKeeps
  <2>2. /\ w \in DOMAIN call /\ call[w] \in Call /\ call[w].attempt <= MaxAttempts
        /\ RequestOK(w) /\ call[w].pc = "touch"
        /\ call[w].session \in DOMAIN item
        /\ item[call[w].session] \in Item
    BY <1>2 DEF TouchRead, IInv, TypeOK, Live, ExpiresAfter, HasItem
  <2>3. next \in Call /\ next.attempt <= MaxAttempts
    BY <2>2 DEF Call, Item
  <2>4. /\ next.pc = "touchWrite" /\ next.kind = call[w].kind /\ next.session = call[w].session
        /\ next.id = call[w].id /\ next.now = call[w].now
        /\ next.initialized = item[call[w].session].initialized
        /\ next.readyBefore = call[w].readyBefore /\ next.endedBefore = call[w].endedBefore
    BY <2>2 DEF Call
  <2>5. RequestOK(w)'
    <3> HIDE DEF next
    <3>1. UNCHANGED <<clock, item, created, ready, served>>
      BY DEF TouchRead
    <3>2. Formed(w)' /\ SeenStillThere(w)' /\ HoldsId(w)'
      BY <2>1, <2>2, <2>4, <3>1 DEF RequestOK, Formed, SeenStillThere, HoldsId
    <3>3. Told(w)'
      BY <2>1, <2>2, <2>4, <3>1 DEF RequestOK, Told, IInv, MarksKept
    <3>4. TooLate(w)'
      BY <1>2, <2>1, <2>2, <2>4, <3>1 DEF RequestOK, TooLate
    <3> QED
      BY <3>2, <3>3, <3>4 DEF RequestOK
  <2>6. NewRequestOK(w)
    <3> HIDE DEF next
    <3> QED
      BY <2>1, <2>3, <2>4, <2>5 DEF NewRequestOK
  <2> QED
    BY <2>1, <2>6, QuietStep DEF TouchRead
<1> QED
  BY <1>1, <1>2 DEF TouchRead

-----------------------------------------------------------------------------
(* A step that makes no record and dispatches nothing keeps what was        *)
(* handed out.                                                              *)
LEMMA HistoriesKept ==
    ASSUME IInv, RecordsOnlyGrow, created' = created, DOMAIN item' \subseteq created', served' = served
    PROVE  /\ UsedIds' /\ ServedOnce'
           /\ ended' = ended => EndsKept'
           /\ ready' = ready => MarksKept'
<1>1. UsedIds'
  BY DEF IInv, UsedIds, RecordsOnlyGrow
<1>2. ServedOnce'
  BY DEF IInv, ServedOnce
<1>3. ended' = ended => EndsKept'
  BY DEF IInv, EndsKept, RecordsOnlyGrow
<1>4. ready' = ready => MarksKept'
  BY DEF IInv, MarksKept, RecordsOnlyGrow
<1> QED
  BY <1>1, <1>2, <1>3, <1>4

(* The update of touchMcpSession changes the mark, and only to TRUE. *)
LEMMA TouchedRecord ==
    ASSUME TypeOK, NEW s \in DOMAIN item, NEW mark \in BOOLEAN, NEW init \in BOOLEAN,
           item' = Touched(s, mark, init)
    PROVE  /\ DOMAIN item' = DOMAIN item
           /\ \A r \in DOMAIN item :
                 /\ item'[r] \in Item
                 /\ item'[r].expiresAt = item[r].expiresAt
                 /\ item'[r].terminated = item[r].terminated
                 /\ item'[r].requestIds = item[r].requestIds
                 /\ item'[r].requestIdCount = item[r].requestIdCount
                 /\ item[r].initialized => item'[r].initialized
           /\ mark /\ ~init => item'[s].initialized
<1>1. CASE mark /\ ~init
  <2>1. item' = [item EXCEPT ![s].initialized = TRUE]
    BY <1>1 DEF Touched
  <2>2. DOMAIN item' = DOMAIN item /\ item'[s] = [item[s] EXCEPT !.initialized = TRUE]
          /\ \A r \in DOMAIN item : r # s => item'[r] = item[r]
    BY <2>1
  <2>3. \A r \in DOMAIN item : item[r] \in Item
    BY DEF TypeOK
  <2>4. /\ item'[s] \in Item
        /\ item'[s].expiresAt = item[s].expiresAt
        /\ item'[s].terminated = item[s].terminated
        /\ item'[s].requestIds = item[s].requestIds
        /\ item'[s].requestIdCount = item[s].requestIdCount
        /\ item'[s].initialized
    <3>1. item[s] \in Item
      BY <2>3
    <3> QED
      BY <2>2, <3>1 DEF Item
  <2> QED
    BY <2>2, <2>3, <2>4
<1>2. CASE ~(mark /\ ~init)
  BY <1>2 DEF Touched, TypeOK
<1> QED
  BY <1>1, <1>2

(* What follows a touch of a live session, with either store: init is what  *)
(* the touch read of the mark.                                              *)
LEMMA TouchSucceeds ==
    ASSUME IInv, NEW w \in Worker, w \in DOMAIN call, NEW init \in BOOLEAN, NEW now \in Nat,
           call[w].pc \in {"touch", "touchWrite"},
           call[w].now <= now, Live(call[w].session, now),
           init => item[call[w].session].initialized,
           call[w].readyBefore => init,
           item' = Touched(call[w].session, call[w].mark, init),
           AfterTouch(w, init \/ call[w].mark),
           UNCHANGED <<backend, clock, created, served, ended>>
    PROVE  IInv'
<1> DEFINE s == call[w].session
<1>1. PICK told \in BOOLEAN : told = (init \/ call[w].mark)
  OBVIOUS
<1>2. /\ call[w] \in Call /\ call[w].attempt <= MaxAttempts /\ RequestOK(w)
      /\ call[w].mark \in BOOLEAN /\ call[w].initialized \in BOOLEAN
      /\ clock \in Nat /\ call[w].now \in Nat
      /\ MaxAttempts \in Nat \ {0}
  BY McpSessionAssumption DEF IInv, TypeOK, Call
<1>3. s \in DOMAIN item /\ s \in created /\ item[s].expiresAt > now /\ ~item[s].terminated
        /\ item[s] \in Item
  BY DEF Live, ExpiresAfter, HasItem, IInv, TypeOK
<1>4. ~call[w].endedBefore
  <2>1. Live(s, call[w].now)
    BY <1>2, <1>3 DEF Live, ExpiresAfter, HasItem, Item
  <2> QED
    BY <1>2, <2>1 DEF RequestOK, TooLate
<1>5. /\ DOMAIN item' = DOMAIN item
      /\ \A r \in DOMAIN item :
            /\ item'[r] \in Item
            /\ item'[r].expiresAt = item[r].expiresAt
            /\ item'[r].terminated = item[r].terminated
            /\ item'[r].requestIds = item[r].requestIds
            /\ item'[r].requestIdCount = item[r].requestIdCount
            /\ item[r].initialized => item'[r].initialized
      /\ init \/ call[w].mark => item'[s].initialized
  <2>1. TypeOK
    BY DEF IInv
  <2> QED
    BY <1>2, <1>3, <2>1, TouchedRecord
<1>6. ready \subseteq ready' /\ (ready' = ready \/ (ready' = ready \cup {s} /\ call[w].mark))
  BY DEF AfterTouch
<1>7. RecordsOnlyGrow
  BY <1>2, <1>5, <1>6 DEF RecordsOnlyGrow
<1>8. OthersKept(w) /\ NewRequestOK(w)
  <2>1. CASE Answer(w)
    BY <2>1, AnswerKeeps
  <2>2. ASSUME NEW next, Continue(w, next), next \in Call, next.attempt <= MaxAttempts,
               next.pc \in {"reserve", "touch", "terminate"},
               next.pc = "reserve" => next.kind \in Identified /\ next.initialized = told,
               next.pc # "reserve" => next.initialized = call[w].initialized,
               next.session = s, next.kind = call[w].kind, next.id = call[w].id,
               next.readyBefore = call[w].readyBefore, next.endedBefore = call[w].endedBefore,
               next.now = clock
        PROVE  OthersKept(w) /\ NewRequestOK(w)
    <3>1. OthersKept(w) /\ call'[w] = next
      BY <2>2, ContinueKeeps
    <3>2. Formed(w)' /\ SeenStillThere(w)' /\ HoldsId(w)' /\ TooLate(w)'
      BY <1>2, <1>3, <1>4, <2>2, <3>1
         DEF RequestOK, Formed, SeenStillThere, HoldsId, TooLate
    <3>3. Told(w)'
      <4>1. next.initialized => item'[s].initialized
        BY <1>1, <1>2, <1>3, <1>5, <2>2 DEF RequestOK, Told
      <4>2. next.readyBefore => s \in ready' /\ (next.pc = "reserve" => next.initialized)
        BY <1>1, <1>2, <1>6, <2>2 DEF RequestOK, Told
      <4> QED
        BY <2>2, <3>1, <4>1, <4>2 DEF Told
    <3> QED
      BY <2>2, <3>1, <3>2, <3>3 DEF RequestOK, NewRequestOK
  <2>3. CASE /\ call[w].kind \in Identified
             /\ Continue(w, [call[w] EXCEPT !.pc = "reserve", !.initialized = told, !.now = clock,
                                            !.attempt = 1])
    <3> DEFINE next == [call[w] EXCEPT !.pc = "reserve", !.initialized = told, !.now = clock,
                                       !.attempt = 1]
    <3>1. next \in Call /\ next.attempt <= MaxAttempts
      <4>1. 1 <= MaxAttempts
        BY <1>2
      <4>2. next \in Call
        BY <1>2 DEF Call
      <4>3. next.attempt = 1
        BY <1>2 DEF Call
      <4> QED
        BY <4>1, <4>2, <4>3
    <3>2. /\ next.pc = "reserve" /\ next.initialized = told
          /\ next.session = s /\ next.kind = call[w].kind /\ next.id = call[w].id
          /\ next.readyBefore = call[w].readyBefore /\ next.endedBefore = call[w].endedBefore
          /\ next.now = clock
      BY <1>2 DEF Call
    <3> HIDE DEF next
    <3>3. Continue(w, next)
      BY <2>3 DEF next
    <3> QED
      BY <2>2, <2>3, <3>1, <3>2, <3>3
  <2>4. CASE Continue(w, [call[w] EXCEPT !.pc = "touch", !.mark = TRUE, !.now = clock])
    <3> DEFINE next == [call[w] EXCEPT !.pc = "touch", !.mark = TRUE, !.now = clock]
    <3>1. next \in Call /\ next.attempt <= MaxAttempts
      BY <1>2 DEF Call
    <3>2. /\ next.pc = "touch" /\ next.initialized = call[w].initialized
          /\ next.session = s /\ next.kind = call[w].kind /\ next.id = call[w].id
          /\ next.readyBefore = call[w].readyBefore /\ next.endedBefore = call[w].endedBefore
          /\ next.now = clock
      BY <1>2 DEF Call
    <3> HIDE DEF next
    <3>3. Continue(w, next)
      BY <2>4 DEF next
    <3> QED
      BY <2>2, <3>1, <3>2, <3>3
  <2>5. CASE Continue(w, [call[w] EXCEPT !.pc = "terminate", !.now = clock])
    <3> DEFINE next == [call[w] EXCEPT !.pc = "terminate", !.now = clock]
    <3>1. next \in Call /\ next.attempt <= MaxAttempts
      BY <1>2 DEF Call
    <3>2. /\ next.pc = "terminate" /\ next.initialized = call[w].initialized
          /\ next.session = s /\ next.kind = call[w].kind /\ next.id = call[w].id
          /\ next.readyBefore = call[w].readyBefore /\ next.endedBefore = call[w].endedBefore
          /\ next.now = clock
      BY <1>2 DEF Call
    <3> HIDE DEF next
    <3>3. Continue(w, next)
      BY <2>5 DEF next
    <3> QED
      BY <2>2, <3>1, <3>2, <3>3
  <2> QED
    <3>1. AfterTouch(w, told)
      BY <1>1
    <3> QED
      BY <2>1, <2>3, <2>4, <2>5, <3>1 DEF AfterTouch
<1>9. /\ clock' \in Nat
      /\ \A r \in DOMAIN item' : item'[r] \in Item
      /\ DOMAIN item' \subseteq created'
      /\ served' = served
  BY <1>2, <1>5 DEF IInv, TypeOK
<1>10. /\ DOMAIN call' \subseteq Worker
       /\ \A v \in DOMAIN call' : call'[v] \in Call /\ call'[v].attempt <= MaxAttempts
       /\ \A v \in DOMAIN call' : RequestOK(v)'
       /\ HeldByOne'
  BY <1>7, <1>8, <1>9, RequestsKept
<1>11. TypeOK'
  BY <1>3, <1>6, <1>9, <1>10 DEF IInv, TypeOK
<1>12. IdsCounted'
  BY <1>5 DEF IInv, IdsCounted
<1>13. UsedIds' /\ ServedOnce' /\ EndsKept'
  BY <1>7, <1>9, HistoriesKept
<1>14. MarksKept'
  BY <1>3, <1>5, <1>6 DEF IInv, MarksKept
<1> QED
  BY <1>10, <1>11, <1>12, <1>13, <1>14 DEF IInv

LEMMA TouchWriteStep ==
    ASSUME IInv, NEW w \in Worker, TouchWrite(w)
    PROVE  IInv'
<1> DEFINE s == call[w].session
<1>1. CASE Live(s, call[w].now)
  <2>1. /\ w \in DOMAIN call /\ call[w].pc = "touchWrite"
        /\ call[w].initialized \in BOOLEAN /\ call[w].now \in Nat
        /\ RequestOK(w)
    BY DEF TouchWrite, IInv, TypeOK, Call
  <2>2. /\ item' = Touched(s, call[w].mark, call[w].initialized)
        /\ AfterTouch(w, call[w].initialized \/ call[w].mark)
        /\ UNCHANGED <<backend, clock, created, served, ended>>
    BY <1>1 DEF TouchWrite
  <2>3. /\ call[w].initialized => item[s].initialized
        /\ call[w].readyBefore => call[w].initialized
    BY <1>1, <2>1 DEF RequestOK, Told, Live, ExpiresAfter, HasItem
  <2> QED
    BY <1>1, <2>1, <2>2, <2>3, TouchSucceeds
<1>2. CASE ~Live(s, call[w].now)
  BY <1>2, AnswerKeeps, QuietStep DEF TouchWrite
<1> QED
  BY <1>1, <1>2

LEMMA DiskTouchStep ==
    ASSUME IInv, NEW w \in Worker, DiskTouch(w)
    PROVE  IInv'
<1> DEFINE s == call[w].session
<1>1. /\ w \in DOMAIN call /\ call[w].pc = "touch" /\ RequestOK(w)
      /\ clock \in Nat /\ call[w].now <= clock
      /\ s \in DOMAIN item /\ item[s].initialized \in BOOLEAN
  BY DEF DiskTouch, IInv, TypeOK, RequestOK, Formed, Live, ExpiresAfter, HasItem, Item
<1>2. /\ Live(s, clock)
      /\ item' = Touched(s, call[w].mark, item[s].initialized)
      /\ AfterTouch(w, item[s].initialized \/ call[w].mark)
      /\ UNCHANGED <<backend, clock, created, served, ended>>
  BY DEF DiskTouch
<1>3. call[w].readyBefore => item[s].initialized
  BY <1>1 DEF RequestOK, Told, IInv, MarksKept
<1> QED
  BY <1>1, <1>2, <1>3, TouchSucceeds

-----------------------------------------------------------------------------
(* saveMcpSession gives a record to an id that no request knows of. *)
LEMMA SaveStep ==
    ASSUME IInv, NEW w \in Worker, NEW s \in Session, SaveMcpSession(w, s)
    PROVE  IInv'
<1>1. /\ w \in DOMAIN call /\ call[w].now \in Nat /\ SessionTtl \in Nat /\ clock \in Nat
      /\ MaxRequestIds \in Nat
      /\ call[w].now + SessionTtl \in Nat
  <2>1. w \in DOMAIN call /\ call[w].now \in Nat /\ SessionTtl \in Nat /\ clock \in Nat
          /\ MaxRequestIds \in Nat
    BY McpSessionAssumption DEF SaveMcpSession, IInv, TypeOK, Call
  <2> QED
    BY <2>1
<1>2. /\ s \notin created /\ s \notin DOMAIN item
      /\ created' = created \cup {s}
      /\ DOMAIN item' = DOMAIN item \cup {s}
      /\ \A r \in DOMAIN item : item'[r] = item[r]
      /\ item'[s] = [expiresAt |-> call[w].now + SessionTtl, terminated |-> FALSE,
                     initialized |-> FALSE, requestIds |-> {}, requestIdCount |-> 0]
      /\ UNCHANGED <<backend, clock, served, ready, ended>>
  BY DEF SaveMcpSession, IInv, TypeOK, PutItem
<1>3. RecordsOnlyGrow
  BY <1>1, <1>2 DEF RecordsOnlyGrow
<1>4. OthersKept(w) /\ NewRequestOK(w)
  BY AnswerKeeps DEF SaveMcpSession
<1>5. item'[s] \in Item
  BY <1>1, <1>2 DEF Item
<1>6. /\ clock' \in Nat
      /\ \A r \in DOMAIN item' : item'[r] \in Item
      /\ DOMAIN item' \subseteq created'
      /\ served' = served
  BY <1>1, <1>2, <1>5 DEF IInv, TypeOK
<1>7. /\ DOMAIN call' \subseteq Worker
      /\ \A v \in DOMAIN call' : call'[v] \in Call /\ call'[v].attempt <= MaxAttempts
      /\ \A v \in DOMAIN call' : RequestOK(v)'
      /\ HeldByOne'
  BY <1>3, <1>4, <1>6, RequestsKept
<1>8. TypeOK'
  BY <1>2, <1>6, <1>7 DEF IInv, TypeOK
<1>9. IdsCounted'
  <2>1. /\ IsFiniteSet(item'[s].requestIds)
        /\ item'[s].requestIdCount = Cardinality(item'[s].requestIds)
        /\ item'[s].requestIdCount <= MaxRequestIds
    BY <1>1, <1>2, FS_EmptySet
  <2> QED
    BY <1>2, <2>1 DEF IInv, IdsCounted
<1>10. UsedIds' /\ ServedOnce' /\ MarksKept' /\ EndsKept'
  BY <1>2 DEF IInv, TypeOK, UsedIds, ServedOnce, MarksKept, EndsKept
<1> QED
  BY <1>7, <1>8, <1>9, <1>10 DEF IInv

-----------------------------------------------------------------------------
(* A step of w that changes records, and nothing that was handed out. *)
LEMMA RecordStep ==
    ASSUME IInv, NEW w \in Worker, OthersKept(w), NewRequestOK(w), RecordsOnlyGrow,
           DOMAIN item' = DOMAIN item, \A r \in DOMAIN item' : item'[r] \in Item,
           IdsCounted',
           UNCHANGED <<backend, clock, created, served, ready, ended>>
    PROVE  IInv'
<1>1. clock' \in Nat /\ DOMAIN item' \subseteq created' /\ served' = served
  BY DEF IInv, TypeOK
<1>2. /\ DOMAIN call' \subseteq Worker
      /\ \A v \in DOMAIN call' : call'[v] \in Call /\ call'[v].attempt <= MaxAttempts
      /\ \A v \in DOMAIN call' : RequestOK(v)'
      /\ HeldByOne'
  BY <1>1, RequestsKept
<1>3. TypeOK'
  BY <1>1, <1>2 DEF IInv, TypeOK
<1>4. UsedIds' /\ ServedOnce' /\ MarksKept' /\ EndsKept'
  BY <1>1, HistoriesKept
<1> QED
  BY <1>2, <1>3, <1>4 DEF IInv

(* A reservation adds an id that is not there, and hands it to one request. *)
LEMMA Reserved ==
    ASSUME IInv, NEW w \in Worker, w \in DOMAIN call, NEW s, s = call[w].session,
           call[w].pc \in {"reserve", "reserveWrite"},
           s \in DOMAIN item, MayReserve(item[s].requestIds, call[w].id),
           DOMAIN item' = DOMAIN item,
           \A r \in DOMAIN item : r # s => item'[r] = item[r],
           item'[s] \in Item,
           item'[s].expiresAt = item[s].expiresAt,
           item'[s].terminated = item[s].terminated,
           item'[s].initialized = item[s].initialized,
           item'[s].requestIds = item[s].requestIds \cup {call[w].id},
           item'[s].requestIdCount = item[s].requestIdCount + 1,
           NEW next \in Call, Continue(w, next),
           next.pc = "dispatch", next.kind = call[w].kind, next.session = s, next.id = call[w].id,
           next.initialized = call[w].initialized, next.now = call[w].now,
           next.attempt = call[w].attempt, next.readyBefore = call[w].readyBefore,
           next.endedBefore = call[w].endedBefore,
           UNCHANGED <<backend, clock, created, served, ready, ended>>
    PROVE  IInv'
<1> DEFINE ids == item[s].requestIds
           id == call[w].id
<1>1. /\ RequestOK(w) /\ call[w].attempt <= MaxAttempts /\ s \in created /\ s \in Session
      /\ id \in RequestId /\ id \notin ids /\ clock \in Nat /\ call[w].now <= clock
  BY DEF IInv, TypeOK, RequestOK, Formed, MayReserve
<1>2. RecordsOnlyGrow
  <2>1. clock <= clock'
    BY <1>1
  <2> QED
    BY <2>1 DEF RecordsOnlyGrow, IInv, TypeOK
<1>3. \A r \in DOMAIN item' : item'[r] \in Item
  BY DEF IInv, TypeOK
<1>4. IdsCounted'
  <2>1. /\ IsFiniteSet(ids) /\ item[s].requestIdCount = Cardinality(ids)
        /\ Cardinality(ids) < MaxRequestIds
    BY DEF IInv, IdsCounted, MayReserve
  <2>2. Cardinality(ids) \in Nat /\ MaxRequestIds \in Nat
    BY <2>1, FS_CardinalityType, McpSessionAssumption
  <2>3. IsFiniteSet(ids \cup {id}) /\ Cardinality(ids \cup {id}) = Cardinality(ids) + 1
    BY <1>1, <2>1, FS_AddElement
  <2>4. /\ IsFiniteSet(item'[s].requestIds)
        /\ item'[s].requestIdCount = Cardinality(item'[s].requestIds)
        /\ item'[s].requestIdCount <= MaxRequestIds
    BY <2>1, <2>2, <2>3
  <2> QED
    BY <2>4 DEF IInv, IdsCounted
<1>5. OthersKept(w) /\ w \in DOMAIN call' /\ call'[w] = next
  BY ContinueKeeps
<1>6. served[<<s, id>>] = 0
  <2>1. served[<<s, id>>] \in Nat
    BY <1>1 DEF IInv, TypeOK
  <2>2. ~(served[<<s, id>>] > 0)
    BY <1>1 DEF IInv, UsedIds
  <2> QED
    BY <2>1, <2>2
<1>7. RequestOK(w)'
  <2>1. Formed(w)' /\ SeenStillThere(w)' /\ TooLate(w)'
    BY <1>1, <1>5 DEF RequestOK, Formed, SeenStillThere, TooLate
  <2>2. HoldsId(w)'
    BY <1>5, <1>6 DEF HoldsId
  <2>3. Told(w)'
    BY <1>1, <1>5 DEF RequestOK, Told
  <2> QED
    BY <2>1, <2>2, <2>3 DEF RequestOK
<1>8. ASSUME NEW v \in DOMAIN call, v # w, call[v].pc = "dispatch",
             call[v].session = s, call[v].id = id
      PROVE  FALSE
  <2>1. HoldsId(v)
    BY DEF IInv, RequestOK
  <2> QED
    BY <1>1, <1>8, <2>1 DEF HoldsId
<1>9. NewRequestOK(w)
  BY <1>1, <1>5, <1>7, <1>8 DEF NewRequestOK
<1> QED
  BY <1>2, <1>3, <1>4, <1>5, <1>9, RecordStep

LEMMA ReserveReadStep ==
    ASSUME IInv, NEW w \in Worker, ReserveRead(w)
    PROVE  IInv'
<1> DEFINE s == call[w].session
           next == [call[w] EXCEPT !.pc = "reserveWrite", !.seen = item[s].requestIds]
<1>1. CASE Answer(w)
  BY <1>1, AnswerKeeps, QuietStep DEF ReserveRead
<1>2. CASE Live(s, call[w].now) /\ MayReserve(item[s].requestIds, call[w].id) /\ Continue(w, next)
  <2>1. /\ w \in DOMAIN call /\ call[w] \in Call /\ call[w].attempt <= MaxAttempts
        /\ RequestOK(w) /\ call[w].pc = "reserve"
        /\ s \in DOMAIN item /\ item[s].requestIds \in SUBSET RequestId
    BY <1>2 DEF ReserveRead, IInv, TypeOK, Live, ExpiresAfter, HasItem, Item
  <2>2. next \in Call /\ next.attempt = call[w].attempt
    BY <2>1 DEF Call
  <2>3. /\ next.pc = "reserveWrite" /\ next.kind = call[w].kind /\ next.session = s
        /\ next.id = call[w].id /\ next.now = call[w].now /\ next.seen = item[s].requestIds
        /\ next.initialized = call[w].initialized
        /\ next.readyBefore = call[w].readyBefore /\ next.endedBefore = call[w].endedBefore
    BY <2>1 DEF Call
  <2> HIDE DEF next
  <2>4. OthersKept(w) /\ call'[w] = next
    BY <1>2, ContinueKeeps
  <2>5. UNCHANGED <<clock, item, created, ready, served>>
    BY DEF ReserveRead
  <2>6. RequestOK(w)'
    BY <1>2, <2>1, <2>3, <2>4, <2>5
       DEF RequestOK, Formed, SeenStillThere, HoldsId, Told, TooLate, MayReserve
  <2>7. NewRequestOK(w)
    BY <2>1, <2>2, <2>3, <2>4, <2>6 DEF NewRequestOK
  <2> QED
    BY <2>4, <2>7, QuietStep DEF ReserveRead
<1> QED
  BY <1>1, <1>2 DEF ReserveRead

(* The count that the write compares stands for the ids that were read: the *)
(* set has only grown since, so with the same count it is the same set.     *)
LEMMA ReserveWriteStep ==
    ASSUME IInv, NEW w \in Worker, ReserveWrite(w)
    PROVE  IInv'
<1> DEFINE s == call[w].session
           seen == call[w].seen
           id == call[w].id
           next == [call[w] EXCEPT !.pc = "dispatch", !.seen = {}]
<1>1. /\ w \in DOMAIN call /\ call[w] \in Call /\ RequestOK(w) /\ call[w].pc = "reserveWrite"
      /\ s \in DOMAIN item /\ item[s] \in Item /\ item[s].requestIdCount = Cardinality(seen)
      /\ MayReserve(seen, id) /\ seen \subseteq item[s].requestIds
      /\ id \in RequestId /\ seen \in SUBSET RequestId
  BY DEF ReserveWrite, ReserveHolds, Live, ExpiresAfter, HasItem, IInv, TypeOK, RequestOK, Formed,
         SeenStillThere, Call
<1>2. seen = item[s].requestIds
  <2>1. IsFiniteSet(item[s].requestIds) /\ Cardinality(item[s].requestIds) = Cardinality(seen)
    BY <1>1 DEF IInv, IdsCounted
  <2>2. seen \in SUBSET item[s].requestIds
    BY <1>1
  <2> QED
    BY <2>1, <2>2, FS_Subset
<1>3. /\ DOMAIN item' = DOMAIN item
      /\ \A r \in DOMAIN item : r # s => item'[r] = item[r]
      /\ item'[s] = [item[s] EXCEPT !.requestIds = seen \cup {id},
                                    !.requestIdCount = Cardinality(seen) + 1]
  BY <1>1 DEF ReserveWrite
<1>4. Cardinality(seen) \in Nat
  BY <1>1 DEF Item
<1>5. /\ item'[s] \in Item
      /\ item'[s].expiresAt = item[s].expiresAt
      /\ item'[s].terminated = item[s].terminated
      /\ item'[s].initialized = item[s].initialized
      /\ item'[s].requestIds = item[s].requestIds \cup {id}
      /\ item'[s].requestIdCount = item[s].requestIdCount + 1
  <2>1. PICK count \in Nat : count = Cardinality(seen) + 1
    BY <1>4
  <2>2. PICK ids \in SUBSET RequestId : ids = seen \cup {id}
    BY <1>1
  <2>3. item'[s] = [item[s] EXCEPT !.requestIds = ids, !.requestIdCount = count]
    BY <1>3, <2>1, <2>2
  <2>4. item'[s] \in Item
    BY <1>1, <2>3 DEF Item
  <2> QED
    BY <1>1, <1>2, <2>1, <2>2, <2>3, <2>4 DEF Item
<1>6. next \in Call
  BY <1>1 DEF Call
<1>7. /\ next.pc = "dispatch" /\ next.kind = call[w].kind /\ next.session = s /\ next.id = id
      /\ next.initialized = call[w].initialized /\ next.now = call[w].now
      /\ next.attempt = call[w].attempt
      /\ next.readyBefore = call[w].readyBefore /\ next.endedBefore = call[w].endedBefore
  BY <1>1 DEF Call
<1>8. Continue(w, next) /\ UNCHANGED <<backend, clock, created, served, ready, ended>>
  BY DEF ReserveWrite
<1>9. MayReserve(item[s].requestIds, id)
  BY <1>1, <1>2
<1> HIDE DEF next
<1> QED
  BY <1>1, <1>3, <1>5, <1>6, <1>7, <1>8, <1>9, Reserved

LEMMA DiskReserveStep ==
    ASSUME IInv, NEW w \in Worker, DiskReserve(w)
    PROVE  IInv'
<1> DEFINE s == call[w].session
           id == call[w].id
           next == [call[w] EXCEPT !.pc = "dispatch"]
<1>1. /\ w \in DOMAIN call /\ call[w] \in Call /\ RequestOK(w) /\ call[w].pc = "reserve"
      /\ s \in DOMAIN item /\ item[s] \in Item
      /\ MayReserve(item[s].requestIds, id)
      /\ id \in RequestId
  BY DEF DiskReserve, Live, ExpiresAfter, HasItem, IInv, TypeOK, RequestOK, Formed
<1>2. /\ DOMAIN item' = DOMAIN item
      /\ \A r \in DOMAIN item : r # s => item'[r] = item[r]
      /\ item'[s] = [item[s] EXCEPT !.requestIds = item[s].requestIds \cup {id},
                                    !.requestIdCount = item[s].requestIdCount + 1]
  BY <1>1 DEF DiskReserve
<1>3. /\ item'[s] \in Item
      /\ item'[s].expiresAt = item[s].expiresAt
      /\ item'[s].terminated = item[s].terminated
      /\ item'[s].initialized = item[s].initialized
      /\ item'[s].requestIds = item[s].requestIds \cup {id}
      /\ item'[s].requestIdCount = item[s].requestIdCount + 1
  <2>1. item[s].requestIdCount \in Nat /\ item[s].requestIds \in SUBSET RequestId
    BY <1>1 DEF Item
  <2>2. PICK count \in Nat : count = item[s].requestIdCount + 1
    BY <2>1
  <2>3. PICK ids \in SUBSET RequestId : ids = item[s].requestIds \cup {id}
    BY <1>1, <2>1
  <2>4. item'[s] = [item[s] EXCEPT !.requestIds = ids, !.requestIdCount = count]
    BY <1>2, <2>2, <2>3
  <2>5. item'[s] \in Item
    BY <1>1, <2>4 DEF Item
  <2> QED
    BY <1>1, <2>2, <2>3, <2>4, <2>5 DEF Item
<1>4. next \in Call
  BY <1>1 DEF Call
<1>5. /\ next.pc = "dispatch" /\ next.kind = call[w].kind /\ next.session = s /\ next.id = id
      /\ next.initialized = call[w].initialized /\ next.now = call[w].now
      /\ next.attempt = call[w].attempt
      /\ next.readyBefore = call[w].readyBefore /\ next.endedBefore = call[w].endedBefore
  BY <1>1 DEF Call
<1>6. Continue(w, next) /\ UNCHANGED <<backend, clock, created, served, ready, ended>>
  BY DEF DiskReserve
<1> HIDE DEF next
<1> QED
  BY <1>1, <1>2, <1>3, <1>4, <1>5, <1>6, Reserved

LEMMA ReserveConflictStep ==
    ASSUME IInv, NEW w \in Worker, ReserveConflict(w)
    PROVE  IInv'
<1> DEFINE next == [call[w] EXCEPT !.pc = "reserve", !.seen = {}, !.now = clock, !.attempt = @ + 1]
<1>1. CASE Answer(w)
  BY <1>1, AnswerKeeps, QuietStep DEF ReserveConflict
<1>2. CASE call[w].attempt < MaxAttempts /\ Continue(w, next)
  <2>1. /\ w \in DOMAIN call /\ call[w] \in Call /\ RequestOK(w) /\ call[w].pc = "reserveWrite"
        /\ clock \in Nat /\ call[w].attempt \in Nat /\ MaxAttempts \in Nat
    BY McpSessionAssumption DEF ReserveConflict, IInv, TypeOK, Call
  <2>2. next \in Call
    <3>1. PICK n \in Nat : n = call[w].attempt + 1
      BY <2>1
    <3>2. next = [call[w] EXCEPT !.pc = "reserve", !.seen = {}, !.now = clock, !.attempt = n]
      BY <3>1
    <3> HIDE DEF next
    <3> QED
      BY <2>1, <3>2 DEF Call
  <2>3. /\ next.pc = "reserve" /\ next.kind = call[w].kind /\ next.session = call[w].session
        /\ next.id = call[w].id /\ next.now = clock /\ next.attempt = call[w].attempt + 1
        /\ next.initialized = call[w].initialized
        /\ next.readyBefore = call[w].readyBefore /\ next.endedBefore = call[w].endedBefore
    BY <2>1 DEF Call
  <2> HIDE DEF next
  <2>4. OthersKept(w) /\ call'[w] = next
    BY <1>2, ContinueKeeps
  <2>5. UNCHANGED <<clock, item, created, ready, served>>
    BY DEF ReserveConflict
  <2>6. RequestOK(w)'
    BY <2>1, <2>3, <2>4, <2>5 DEF RequestOK, Formed, SeenStillThere, HoldsId, Told, TooLate
  <2>7. next.attempt <= MaxAttempts
    BY <1>2, <2>1, <2>3
  <2>8. NewRequestOK(w)
    BY <2>2, <2>3, <2>4, <2>6, <2>7 DEF NewRequestOK
  <2> QED
    BY <2>4, <2>8, QuietStep DEF ReserveConflict
<1> QED
  BY <1>1, <1>2 DEF ReserveConflict

-----------------------------------------------------------------------------
(* The id that is dispatched was unused, and no other request holds it. *)
LEMMA DispatchStep ==
    ASSUME IInv, NEW w \in Worker, Dispatch(w)
    PROVE  IInv'
<1> DEFINE s == call[w].session
           id == call[w].id
<1>1. /\ w \in DOMAIN call /\ RequestOK(w) /\ call[w].pc = "dispatch"
      /\ s \in created /\ s \in Session /\ id \in RequestId
      /\ served[<<s, id>>] = 0
      /\ s \in DOMAIN item => id \in item[s].requestIds
  BY DEF Dispatch, IInv, TypeOK, RequestOK, Formed, HoldsId
<1>2. /\ served \in [Session \X RequestId -> Nat]
      /\ served' = [served EXCEPT ![<<s, id>>] = served[<<s, id>>] + 1]
      /\ UNCHANGED <<backend, clock, item, created, ready, ended>>
  BY DEF Dispatch, IInv, TypeOK
<1>3. /\ served' \in [Session \X RequestId -> Nat]
      /\ served'[<<s, id>>] = 1
      /\ \A r \in Session, i \in RequestId : r # s \/ i # id => served'[<<r, i>>] = served[<<r, i>>]
  BY <1>1, <1>2
<1>4. RecordsOnlyGrow
  BY <1>2 DEF IInv, TypeOK, RecordsOnlyGrow
<1>5. OthersKept(w) /\ w \notin DOMAIN call'
  BY AnswerKeeps DEF Dispatch
<1>6. ASSUME NEW v \in DOMAIN call' PROVE RequestOK(v)'
  <2>1. v # w /\ v \in DOMAIN call /\ call'[v] = call[v]
    BY <1>5 DEF OthersKept
  <2>2. call[v].pc = "dispatch" =>
           served'[<<call[v].session, call[v].id>>] = served[<<call[v].session, call[v].id>>]
    <3> HAVE call[v].pc = "dispatch"
    <3>1. call[v].session # s \/ call[v].id # id
      BY <1>1, <2>1 DEF IInv, HeldByOne
    <3>2. call[v].session \in Session /\ call[v].id \in RequestId
      BY <2>1 DEF IInv, TypeOK, RequestOK, Formed
    <3> QED
      BY <1>3, <3>1, <3>2
  <2>3. /\ clock' \in Nat
        /\ \A r \in DOMAIN item' : item'[r] \in Item
        /\ DOMAIN item' \subseteq created'
    BY <1>2 DEF IInv, TypeOK
  <2> QED
    BY <1>4, <2>1, <2>2, <2>3, RequestKept
<1>7. TypeOK' /\ HeldByOne'
  BY <1>2, <1>3, <1>5 DEF IInv, TypeOK, OthersKept, HeldByOne
<1>8. IdsCounted' /\ MarksKept' /\ EndsKept'
  BY <1>2 DEF IInv, IdsCounted, MarksKept, EndsKept
<1>9. UsedIds'
  BY <1>1, <1>2, <1>3 DEF IInv, UsedIds
<1>10. ServedOnce'
  <2>1. \A k \in Session \X RequestId : k # <<s, id>> => served'[k] = served[k]
    BY <1>2
  <2> QED
    BY <1>3, <2>1 DEF IInv, ServedOnce
<1> QED
  BY <1>6, <1>7, <1>8, <1>9, <1>10 DEF IInv

(* terminateMcpSession succeeds once. *)
LEMMA TerminateStep ==
    ASSUME IInv, NEW w \in Worker, Terminate(w)
    PROVE  IInv'
<1>1. PICK s \in Session :
         /\ s = call[w].session
         /\ s \in DOMAIN item /\ item[s] \in Item /\ ~item[s].terminated
         /\ s \in created
  BY DEF Terminate, IInv, TypeOK, Live, ExpiresAfter, HasItem
<1>2. PICK answered \in {0, 1} : ended' = [ended EXCEPT ![s] = @ + answered]
  BY <1>1 DEF Terminate
<1>3. /\ DOMAIN item' = DOMAIN item
      /\ \A r \in DOMAIN item : r # s => item'[r] = item[r]
      /\ item'[s] = [item[s] EXCEPT !.terminated = TRUE]
      /\ UNCHANGED <<backend, clock, created, served, ready>>
  BY <1>1 DEF Terminate
<1>4. /\ item'[s] \in Item
      /\ item'[s].terminated
      /\ item'[s].expiresAt = item[s].expiresAt
      /\ item'[s].initialized = item[s].initialized
      /\ item'[s].requestIds = item[s].requestIds
      /\ item'[s].requestIdCount = item[s].requestIdCount
  BY <1>1, <1>3 DEF Item
<1>5. RecordsOnlyGrow
  <2>1. clock <= clock' /\ created \subseteq created' /\ ready \subseteq ready'
    BY <1>3 DEF IInv, TypeOK
  <2>2. ASSUME NEW r \in DOMAIN item'
        PROVE  /\ r \in DOMAIN item
               /\ item'[r].expiresAt = item[r].expiresAt
               /\ item[r].initialized => item'[r].initialized
               /\ item[r].terminated => item'[r].terminated
               /\ item[r].requestIds \subseteq item'[r].requestIds
    <3>1. CASE r = s
      BY <1>1, <1>4, <3>1
    <3>2. CASE r # s
      BY <1>3, <3>2
    <3> QED
      BY <3>1, <3>2
  <2> QED
    BY <2>1, <2>2 DEF RecordsOnlyGrow
<1>6. OthersKept(w) /\ NewRequestOK(w)
  BY AnswerKeeps DEF Terminate
<1>7. /\ clock' \in Nat
      /\ \A r \in DOMAIN item' : item'[r] \in Item
      /\ DOMAIN item' \subseteq created'
      /\ served' = served /\ created' = created /\ ready' = ready
  BY <1>3, <1>4 DEF IInv, TypeOK
<1>8. /\ DOMAIN call' \subseteq Worker
      /\ \A v \in DOMAIN call' : call'[v] \in Call /\ call'[v].attempt <= MaxAttempts
      /\ \A v \in DOMAIN call' : RequestOK(v)'
      /\ HeldByOne'
  BY <1>5, <1>6, <1>7, RequestsKept
<1>9. ended[s] = 0 /\ ended' \in [Session -> Nat] /\ ended'[s] \in {0, 1}
        /\ \A r \in Session : r # s => ended'[r] = ended[r]
  <2>1. ended \in [Session -> Nat] /\ ~(ended[s] > 0)
    BY <1>1 DEF IInv, TypeOK, EndsKept
  <2>2. ended[s] = 0
    BY <1>1, <2>1
  <2> QED
    BY <1>1, <1>2, <2>1, <2>2
<1>10. TypeOK'
  BY <1>3, <1>7, <1>8, <1>9 DEF IInv, TypeOK
<1>11. IdsCounted'
  BY <1>3, <1>4 DEF IInv, IdsCounted
<1>12. EndsKept'
  <2>1. ASSUME NEW r \in Session
        PROVE  /\ ended'[r] <= 1
               /\ ended'[r] > 0 => r \in created' /\ (r \in DOMAIN item' => item'[r].terminated)
    <3>1. CASE r = s
      <4>1. ended'[s] <= 1 /\ s \in created'
        BY <1>1, <1>3, <1>9
      <4> QED
        BY <1>4, <3>1, <4>1
    <3>2. CASE r # s
      BY <1>3, <1>9, <3>2 DEF IInv, EndsKept
    <3> QED
      BY <3>1, <3>2
  <2> QED
    BY <2>1 DEF EndsKept
<1>13. UsedIds' /\ ServedOnce' /\ MarksKept'
  BY <1>5, <1>7, HistoriesKept
<1> QED
  BY <1>8, <1>10, <1>11, <1>12, <1>13 DEF IInv

(* Time passes, or the TTL process removes a record: no request moves. *)
LEMMA EnvironmentStep ==
    ASSUME IInv, Tick \/ \E s \in Session : Sweep(s)
    PROVE  IInv'
<1>1. /\ clock \in Nat /\ clock' \in Nat /\ clock <= clock'
      /\ DOMAIN item' \subseteq DOMAIN item
      /\ \A r \in DOMAIN item' : item'[r] = item[r]
      /\ UNCHANGED <<backend, call, created, served, ready, ended>>
  <2>1. clock \in Nat
    BY DEF IInv, TypeOK
  <2>2. CASE Tick
    BY <2>1, <2>2 DEF Tick
  <2>3. ASSUME NEW s \in Session, Sweep(s)
        PROVE  /\ DOMAIN item' \subseteq DOMAIN item
               /\ \A r \in DOMAIN item' : item'[r] = item[r]
               /\ UNCHANGED <<backend, clock, call, created, served, ready, ended>>
    BY <2>3 DEF Sweep, DeleteItem
  <2> QED
    BY <2>1, <2>2, <2>3
<1>2. RecordsOnlyGrow
  BY <1>1 DEF RecordsOnlyGrow
<1>3. /\ \A r \in DOMAIN item' : item'[r] \in Item
      /\ DOMAIN item' \subseteq created'
      /\ created' = created /\ served' = served /\ ended' = ended /\ ready' = ready
  BY <1>1 DEF IInv, TypeOK
<1>4. \A v \in DOMAIN call' : RequestOK(v)'
  BY <1>1, <1>2, <1>3, RequestKept
<1>5. TypeOK' /\ HeldByOne' /\ IdsCounted'
  BY <1>1, <1>3 DEF IInv, TypeOK, HeldByOne, IdsCounted
<1>6. UsedIds' /\ ServedOnce' /\ MarksKept' /\ EndsKept'
  BY <1>2, <1>3, HistoriesKept
<1> QED
  BY <1>4, <1>5, <1>6 DEF IInv

LEMMA InvariantStep ==
    ASSUME IInv, [Next]_vars
    PROVE  IInv'
<1>1. ASSUME NEW w \in Worker, GateRefuses(w) \/ CallEnds(w) PROVE IInv'
  BY <1>1, AnswerKeeps, QuietStep DEF GateRefuses, CallEnds
<1>2. CASE UNCHANGED vars
  BY <1>2 DEF vars, IInv, TypeOK, RequestOK, Formed, SeenStillThere, HoldsId, Told, TooLate, Live,
              IdsCounted, UsedIds, HeldByOne, ServedOnce, MarksKept, EndsKept
<1> QED
  BY <1>1, <1>2, ReceiveInitializeStep, ReceiveStep, SaveStep, TouchReadStep, TouchWriteStep,
     DiskTouchStep, ReserveReadStep, ReserveWriteStep, ReserveConflictStep, DiskReserveStep,
     DispatchStep, TerminateStep, EnvironmentStep DEF Next

LEMMA Invariance == Spec => []IInv
<1>1. Init => IInv
  BY InitHolds
<1>2. IInv /\ [Next]_vars => IInv'
  BY InvariantStep
<1> QED
  BY <1>1, <1>2, PTL DEF Spec

-----------------------------------------------------------------------------
(* The records, the requests under way and the histories have their types.  *)
THEOREM TypeCorrect == Spec => []TypeOK
<1>1. IInv => TypeOK
  BY DEF IInv
<1> QED
  BY <1>1, Invariance, PTL

(* reserveMcpRequestId hands an id to one request, so handleMcpJson         *)
(* dispatches it at most once, on any number of instances and with any      *)
(* number of copies and retries (mcp/endpoints.mcp.ts, mcp/protocol.ts).    *)
THEOREM DispatchedOnce == Spec => []ServedOnce
<1>1. IInv => ServedOnce
  BY DEF IInv
<1> QED
  BY <1>1, Invariance, PTL

(* No concurrent read-extend-write of the request ids loses one, and the    *)
(* count and the limit hold (auth/storage/dynamodb/mcp-sessions.ts).        *)
THEOREM NoReservationLost == Spec => []ReservationsKept
<1>1. IInv => ReservationsKept
  <2>1. IInv => \A s \in DOMAIN item : s \in Session
    BY DEF IInv, TypeOK
  <2> QED
    BY <2>1 DEF IInv, UsedIds, IdsCounted, ReservationsKept
<1> QED
  BY <1>1, Invariance, PTL

(* After the 202 for notifications/initialized the gate of handleMcpJson is *)
(* open: no concurrent touchMcpSession takes the mark back.                 *)
THEOREM ReadySessionsServed == Spec => []ReadyIsServed
<1>1. IInv => ReadyIsServed
  BY DEF IInv, RequestOK, Told, ReadyIsServed, GateOpen
<1> QED
  BY <1>1, Invariance, PTL

(* A request that arrives after the 204 of DELETE, or after the expiry,     *)
(* gets no further than touchMcpSession, and one DELETE is told 204.        *)
THEOREM EndIsFinal == Spec => []NothingAfterEnd
<1>1. IInv => NothingAfterEnd
  BY DEF IInv, RequestOK, TooLate, EndsKept, NothingAfterEnd
<1> QED
  BY <1>1, Invariance, PTL

(* Of the requests under way only the one that is dispatched can leave in a *)
(* step that dispatches, and its gate looked at a mark that is still there. *)
LEMMA GatedStep ==
    ASSUME IInv, [Next]_vars, NEW w \in DOMAIN call,
           call[w].kind = "gated", w \notin DOMAIN call', served' # served,
           call[w].session \in DOMAIN item
    PROVE  item[call[w].session].initialized
<1>1. PICK v \in Worker : Dispatch(v)
  BY DEF Next, vars, ReceiveInitialize, Receive, SaveMcpSession, TouchRead, TouchWrite, DiskTouch,
         ReserveRead, ReserveWrite, ReserveConflict, DiskReserve, GateRefuses, Terminate, CallEnds,
         Sweep, Tick
<1>2. v = w
  BY <1>1 DEF Dispatch, Answer, DeleteItem
<1> QED
  BY <1>1, <1>2 DEF Dispatch, GateOpen, IInv, RequestOK, Told

(* handleMcpJson dispatches a gated method only in a session that has been  *)
(* marked initialized, although the mark was read before the reservation.   *)
THEOREM GateHolds == Spec => GatedWorkIsInitialized
<1>1. IInv /\ [Next]_vars =>
        [\A w \in DOMAIN call :
            LET s == call[w].session IN
            (call[w].kind = "gated" /\ w \notin DOMAIN call' /\ served' # served /\ s \in DOMAIN item)
              => item[s].initialized]_vars
  BY GatedStep
<1> QED
  BY <1>1, Invariance, PTL DEF Spec, GatedWorkIsInitialized

-----------------------------------------------------------------------------
(* McpRequests: pages *)

(* The first entries of a list, and the page after them, are the first      *)
(* entries up to the end of the page.                                       *)
LEMMA EntriesAreASequence ==
    ASSUME NEW method, NEW n \in Nat
    PROVE  LET S == {method} \X Nat IN
           /\ Entries(method, n) \in Seq(S) /\ Len(Entries(method, n)) = n
           /\ \A i \in 1..n : Entries(method, n)[i] = <<method, i>>
<1> DEFINE S == {method} \X Nat
           E == Entries(method, n)
<1>1. E \in [1..n -> S] /\ \A i \in 1..n : E[i] = <<method, i>>
  BY DEF Entries
<1>2. E \in Seq(S)
  BY <1>1, SeqDef
<1>3. Len(E) = n
  <2> HIDE DEF E, S
  <2>1. Len(E) \in Nat /\ DOMAIN E = 1..Len(E) /\ DOMAIN E = 1..n
    BY <1>1, <1>2, LenProperties
  <2>2. PICK length \in Nat : length = Len(E)
    BY <2>1
  <2>3. \A i \in Nat : (1 <= i /\ i <= length) <=> (1 <= i /\ i <= n)
    BY <2>1, <2>2
  <2>4. length <= n /\ n <= length
    BY <2>3
  <2> QED
    BY <2>2, <2>4
<1> QED
  BY <1>1, <1>2, <1>3

LEMMA PageContinues ==
    ASSUME NEW method, NEW n \in Nat, NEW end \in Nat, NEW count \in Nat, n <= end, end <= count
    PROVE  Entries(method, n) \o SubSeq(Entries(method, count), n + 1, end) = Entries(method, end)
<1> DEFINE S == {method} \X Nat
<1>1. PICK seen : seen = Entries(method, n)
  OBVIOUS
<1>2. PICK all : all = Entries(method, count)
  OBVIOUS
<1>3. PICK whole : whole = Entries(method, end)
  OBVIOUS
<1>4. PICK page : page = SubSeq(all, n + 1, end)
  OBVIOUS
<1>5. /\ seen \in Seq(S) /\ Len(seen) = n /\ \A i \in 1..n : seen[i] = <<method, i>>
      /\ all \in Seq(S) /\ Len(all) = count /\ \A i \in 1..count : all[i] = <<method, i>>
      /\ whole \in Seq(S) /\ Len(whole) = end /\ \A i \in 1..end : whole[i] = <<method, i>>
  BY <1>1, <1>2, <1>3, EntriesAreASequence
<1> HIDE DEF S
<1>6. /\ page \in Seq(S) /\ Len(page) = end - n
      /\ \A i \in 1..(end - n) : page[i] = all[n + i]
  <2>1. CASE n = end
    <3>1. n + 1 \in 1..(Len(all) + 1) /\ end \in (n + 1 - 1)..Len(all)
      BY <1>5, <2>1
    <3> QED
      BY <1>4, <1>5, <2>1, <3>1, SubSeqProperties
  <2>2. CASE n < end
    BY <1>4, <1>5, <2>2, SubSeqProperties
  <2> QED
    BY <2>1, <2>2
<1>7. PICK both : both = seen \o page
  OBVIOUS
<1>8. /\ both \in Seq(S) /\ Len(both) = end
      /\ \A i \in 1..end : both[i] = IF i <= n THEN seen[i] ELSE page[i - n]
  BY <1>5, <1>6, <1>7, ConcatProperties
<1>9. \A i \in 1..end : both[i] = whole[i]
  <2> SUFFICES ASSUME NEW i \in 1..end PROVE both[i] = whole[i]
    OBVIOUS
  <2>1. CASE i <= n
    <3>1. i \in 1..n
      BY <2>1
    <3> QED
      BY <1>5, <1>8, <2>1, <3>1
  <2>2. CASE ~(i <= n)
    <3>1. i - n \in 1..(end - n) /\ n + (i - n) = i /\ i \in 1..count
      BY <2>2
    <3> QED
      BY <1>5, <1>6, <1>8, <2>2, <3>1
  <2> QED
    BY <2>1, <2>2
<1>10. both = whole
  BY <1>5, <1>8, <1>9, SeqEqual
<1> QED
  BY <1>1, <1>2, <1>3, <1>4, <1>7, <1>10

LEMMA NoEntries == ASSUME NEW method PROVE Entries(method, 0) = <<>>
<1>1. Entries(method, 0) \in Seq({method} \X Nat) /\ Len(Entries(method, 0)) = 0
  BY EntriesAreASequence
<1> QED
  BY <1>1, EmptySeq

-----------------------------------------------------------------------------
(* Lists.  The client has seen the first n entries.  While it goes on, it   *)
(* is at the beginning, or holds the cursor that names n, which was within  *)
(* the list when it was given.                                              *)

Cursors == {NoCursor} \cup {EncodeCursor(method, offset) : method \in ListMethods, offset \in Nat}

Listings == [method : ListMethods, count : Nat, cursor : Cursors,
             seen : Seq(ListMethods \X Nat), state : {"open", "complete", "refused"}, given : Nat]

Seen(l, n) ==
    /\ l.seen = Entries(l.method, n)
    /\ l.state = "open" =>
         \/ l.cursor = NoCursor /\ n = 0
         \/ l.cursor = EncodeCursor(l.method, n) /\ 0 < n /\ n < l.given
    /\ l.state = "complete" => n >= l.count
    /\ l.state = "refused" => l.count < l.given

ListingOK ==
    listing # <<>> => \E l \in Listings : listing = <<l>> /\ \E n \in Nat : Seen(l, n)

LEMMA ListingTyped ==
    ASSUME NEW method \in ListMethods, NEW count \in Nat, NEW n \in Nat, NEW given \in Nat,
           NEW cursor \in Cursors, NEW state \in {"open", "complete", "refused"}
    PROVE  LET l == Listing(method, count, cursor, Entries(method, n), state, given) IN
           /\ l \in Listings
           /\ l.method = method /\ l.count = count /\ l.cursor = cursor /\ l.seen = Entries(method, n)
           /\ l.state = state /\ l.given = given
<1>1. PICK seen : seen = Entries(method, n)
  OBVIOUS
<1>2. seen \in Seq(ListMethods \X Nat)
  <2>1. seen \in Seq({method} \X Nat) /\ {method} \X Nat \subseteq ListMethods \X Nat
    BY <1>1, EntriesAreASequence
  <2> QED
    BY <2>1, SeqMonotonic
<1> QED
  BY <1>1, <1>2 DEF Listing, Listings

LEMMA FetchPageStep ==
    ASSUME ListingOK, NEW method \in ListMethods, NEW pageSize \in 1..MaxPageSize,
           FetchPage(method, pageSize)
    PROVE  ListingOK'
<1>1. PICK l \in Listings, n \in Nat : listing = <<l>> /\ Seen(l, n) /\ listing[1] = l
  BY DEF ListingOK, FetchPage
<1>2. PICK r : r = PaginatedList(l.cursor, method, Entries(method, l.count), pageSize)
  OBVIOUS
<1>3. /\ l.state = "open"
      /\ method # l.method => l.cursor # NoCursor
      /\ listing' = IF CursorAccepted(l.cursor, method, l.count)
                      THEN <<Listing(l.method, l.count, r.nextCursor, l.seen \o r.page,
                                     IF r.nextCursor = NoCursor THEN "complete" ELSE "open", l.count)>>
                      ELSE <<[l EXCEPT !.state = IF method = l.method THEN "refused" ELSE @]>>
  BY <1>1, <1>2 DEF FetchPage
<1>4. /\ l.method \in ListMethods /\ l.count \in Nat /\ l.given \in Nat /\ pageSize \in Nat /\ pageSize > 0
      /\ l.seen = Entries(l.method, n)
      /\ \/ l.cursor = NoCursor /\ n = 0
         \/ l.cursor = EncodeCursor(l.method, n) /\ 0 < n /\ n < l.given
  BY <1>1, <1>3, McpRequestsAssumption DEF Listings, Seen
<1>5. l.cursor.o = n /\ (l.cursor # NoCursor => l.cursor.m = l.method /\ l.cursor.v = 1)
  BY <1>4 DEF NoCursor, EncodeCursor
<1>6. CASE CursorAccepted(l.cursor, method, l.count)
  <2>1. method = l.method /\ n <= l.count
    <3>1. CASE l.cursor = NoCursor
      <4>1. n = 0
        BY <1>5, <3>1 DEF NoCursor
      <4> QED
        BY <1>3, <1>4, <3>1, <4>1
    <3>2. CASE l.cursor # NoCursor
      <4>1. l.cursor.m = method /\ l.cursor.o < l.count
        BY <1>6, <3>2 DEF CursorAccepted
      <4> QED
        BY <1>4, <1>5, <3>2, <4>1
    <3> QED
      BY <3>1, <3>2
  <2>2. PICK next \in Nat : next = n + pageSize
    BY <1>4
  <2>3. PICK end \in Nat : /\ end = IF next < l.count THEN next ELSE l.count
                           /\ n <= end /\ end <= l.count
    BY <1>4, <2>1, <2>2
  <2>4. Len(Entries(method, l.count)) = l.count
    BY <1>4, EntriesAreASequence
  <2>5. /\ r.page = SubSeq(Entries(method, l.count), n + 1, end)
        /\ r.nextCursor = IF next < l.count THEN EncodeCursor(method, next) ELSE NoCursor
    BY <1>2, <1>5, <2>2, <2>3, <2>4 DEF PaginatedList, NextCursor
  <2>6. l.seen \o r.page = Entries(method, end)
    <3>1. PICK count \in Nat : count = l.count
      BY <1>4
    <3>2. n <= end /\ end <= count
      BY <2>3, <3>1
    <3>3. Entries(method, n) \o SubSeq(Entries(method, count), n + 1, end) = Entries(method, end)
      BY <3>2, PageContinues
    <3> QED
      BY <1>4, <2>1, <2>5, <3>1, <3>3
  <2>7. NoCursor \in Cursors /\ EncodeCursor(method, next) \in Cursors
    BY DEF Cursors
  <2>8. EncodeCursor(method, next) # NoCursor
    <3>1. EncodeCursor(method, next).v = 1 /\ NoCursor.v = 0
      BY DEF NoCursor, EncodeCursor
    <3> QED
      BY <3>1
  <2>9. CASE next < l.count
    <3>1. PICK new : new = Listing(l.method, l.count, r.nextCursor, Entries(method, end), "open", l.count)
      OBVIOUS
    <3>2. listing' = <<new>>
      BY <1>3, <1>6, <2>5, <2>6, <2>8, <2>9, <3>1
    <3>3. PICK cursor \in Cursors, count \in Nat : cursor = r.nextCursor /\ count = l.count
      BY <1>4, <2>5, <2>7
    <3>4. new = Listing(method, count, cursor, Entries(method, end), "open", count)
      BY <2>1, <3>1, <3>3
    <3>5. end = next /\ cursor = EncodeCursor(method, next)
      BY <2>3, <2>5, <2>9, <3>3
    <3>6. /\ new \in Listings /\ new.method = method /\ new.cursor = EncodeCursor(method, next)
          /\ new.seen = Entries(method, next) /\ new.state = "open" /\ new.given = l.count
      BY <3>3, <3>4, <3>5, ListingTyped
    <3>7. Seen(new, next)
      BY <1>4, <2>2, <2>9, <3>6 DEF Seen
    <3> QED
      BY <3>2, <3>6, <3>7 DEF ListingOK
  <2>10. CASE ~(next < l.count)
    <3>1. PICK new : new = Listing(l.method, l.count, NoCursor, Entries(method, end), "complete", l.count)
      OBVIOUS
    <3>2. listing' = <<new>>
      BY <1>3, <1>6, <2>5, <2>6, <2>10, <3>1
    <3>3. PICK cursor \in Cursors, count \in Nat : cursor = NoCursor /\ count = l.count
      BY <1>4, <2>7
    <3>4. new = Listing(method, count, cursor, Entries(method, end), "complete", count)
      BY <2>1, <3>1, <3>3
    <3>5. /\ new \in Listings /\ new.method = method /\ new.count = l.count
          /\ new.seen = Entries(method, end) /\ new.state = "complete"
      BY <3>3, <3>4, ListingTyped
    <3>6. Seen(new, end)
      BY <1>4, <2>3, <2>10, <3>5 DEF Seen
    <3> QED
      BY <3>2, <3>5, <3>6 DEF ListingOK
  <2> QED
    BY <2>9, <2>10
<1>7. CASE ~CursorAccepted(l.cursor, method, l.count) /\ method # l.method
  <2>1. [l EXCEPT !.state = l.state] = l
    BY DEF Listings
  <2>2. listing' = <<l>>
    BY <1>3, <1>7, <2>1
  <2> QED
    BY <1>1, <2>2 DEF ListingOK
<1>8. CASE ~CursorAccepted(l.cursor, method, l.count) /\ method = l.method
  <2>1. l.count < l.given
    BY <1>4, <1>5, <1>8 DEF CursorAccepted
  <2>2. PICK new : new = [l EXCEPT !.state = "refused"]
    OBVIOUS
  <2>3. listing' = <<new>>
    BY <1>3, <1>8, <2>2
  <2>4. /\ new \in Listings /\ new.method = l.method /\ new.seen = l.seen /\ new.state = "refused"
        /\ new.count = l.count /\ new.given = l.given
    BY <2>2 DEF Listings
  <2>5. Seen(new, n)
    BY <1>4, <2>1, <2>4 DEF Seen
  <2> QED
    BY <2>3, <2>4, <2>5 DEF ListingOK
<1> QED
  BY <1>6, <1>7, <1>8

LEMMA RedeployStep ==
    ASSUME ListingOK, NEW count \in 0..MaxItems, Redeploy(count)
    PROVE  ListingOK'
<1>1. PICK l \in Listings, n \in Nat : listing = <<l>> /\ Seen(l, n) /\ listing[1] = l
  BY DEF ListingOK, Redeploy
<1>2. PICK new : new = [l EXCEPT !.count = count]
  OBVIOUS
<1>3. listing' = <<new>> /\ l.state = "open"
  BY <1>1, <1>2 DEF Redeploy
<1>4. /\ new \in Listings /\ new.method = l.method /\ new.seen = l.seen /\ new.state = "open"
      /\ new.cursor = l.cursor /\ new.given = l.given
  <2>1. count \in Nat
    BY McpRequestsAssumption
  <2> HIDE DEF Cursors
  <2> QED
    BY <1>2, <1>3, <2>1 DEF Listings
<1>5. Seen(new, n)
  BY <1>1, <1>3, <1>4 DEF Seen
<1> QED
  BY <1>3, <1>4, <1>5 DEF ListingOK

LEMMA ListStart == RequestsInit => ListingOK
<1>1. ASSUME NEW method \in ListMethods, NEW count \in 0..MaxItems,
             listing = <<Listing(method, count, NoCursor, <<>>, "open", count)>>
      PROVE  ListingOK
  <2>1. PICK l : l = Listing(method, count, NoCursor, Entries(method, 0), "open", count)
    OBVIOUS
  <2>2. listing = <<l>>
    BY <1>1, <2>1, NoEntries
  <2>3. count \in Nat /\ NoCursor \in Cursors
    BY McpRequestsAssumption DEF Cursors
  <2>4. /\ l \in Listings /\ l.method = method /\ l.cursor = NoCursor
        /\ l.seen = Entries(method, 0) /\ l.state = "open"
    BY <2>1, <2>3, ListingTyped
  <2>5. Seen(l, 0)
    BY <2>4 DEF Seen
  <2> QED
    BY <2>2, <2>4, <2>5 DEF ListingOK
<1>2. listing = <<>> => ListingOK
  BY DEF ListingOK
<1> QED
  BY <1>1, <1>2 DEF RequestsInit

LEMMA ListStep == ListingOK /\ [RequestsNext]_requestVars => ListingOK'
<1>1. ListingOK /\ UNCHANGED listing => ListingOK'
  BY DEF ListingOK
<1> QED
  BY <1>1, FetchPageStep, RedeployStep DEF RequestsNext, HandlePost, requestVars

(* Following nextCursor shows a client the entries of its list in order,    *)
(* none twice and none left out, for lists and pages of any length and      *)
(* however both change on the way.                                          *)
THEOREM PagesShowTheList == RequestsSpec => []PagesCoverList
<1>1. ListingOK => PagesCoverList
  <2> SUFFICES ASSUME ListingOK, listing # <<>> PROVE PagesCoverList
    BY DEF PagesCoverList
  <2>1. PICK l \in Listings, n \in Nat : listing = <<l>> /\ Seen(l, n) /\ listing[1] = l
    BY DEF ListingOK
  <2>2. Len(l.seen) = n
    BY <2>1, EntriesAreASequence DEF Seen
  <2> QED
    BY <2>1, <2>2 DEF PagesCoverList, Seen
<1> QED
  BY <1>1, ListStart, ListStep, PTL DEF RequestsSpec

-----------------------------------------------------------------------------
(* Messages.  Any message and any request, not only the bounded ones: the   *)
(* params, the checks of the transport and the work may be anything.        *)

MessageOK(m) ==
    /\ m.method \in Method \cup {"absent", "bad"}
    /\ m.id \in {"absent", "bad", "id"}
    /\ m.result \in Part /\ m.error \in Part

(* What holds of every answer of the handler. *)
AnswerOK(a, m, reserve, initialized, work) ==
    /\ a.body \in {"none", "error", "result"}
    /\ a.initialized = (a.body = "result" /\ m.method = "initialize")
    /\ a.body = "none" <=> a.status = 202
    /\ a.body = "none" =>
          \/ m.method \in NotificationMethods /\ m.id = "absent"
          \/ m.method = "absent" /\ (m.result = "good" \/ m.error = "good") /\ m.id = "id"
    /\ a.body = "result" => /\ ParseJsonRpc(m) /\ m.id # "absent"
                            /\ reserve \notin {"duplicate", "refused"}
                            /\ initialized \/ m.method \in {"initialize", "ping"}
    /\ ParseJsonRpc(m) /\ m.id # "absent" => a.id = m.id
    /\ a.challenge => work = "denied"

(* The answer to a method that was dispatched names the request, is a       *)
(* result or an error, and is never the empty 202.                          *)
LEMMA DispatchedFields ==
    ASSUME NEW m, NEW work
    PROVE  LET a == Dispatched(m, work) IN
           /\ a.body \in {"error", "result"} /\ a.status # 202 /\ a.id = m.id
           /\ a.initialized = (a.body = "result" /\ m.method = "initialize")
           /\ a.challenge => work = "denied"
           /\ a.body = "result" => m.method \in RequestMethods
<1>1. PICK end : end = DispatchMethod(m, work)
  OBVIOUS
<1>2. end \in {"result", "protocol", "service", "internal", "challenge"}
  BY <1>1 DEF DispatchMethod, CallToolEnds, ReadResourceEnds
<1>3. end = "challenge" => work = "denied"
  BY <1>1 DEF DispatchMethod, CallToolEnds, ReadResourceEnds
<1>4. end = "result" => m.method \in RequestMethods
  BY <1>1 DEF DispatchMethod, RequestMethods
<1>5. PICK denied : denied = (work = "denied" /\ m.method \in {"tools/call", "resources/read"})
  OBVIOUS
<1>6. PICK first, challenged : first = (m.method = "initialize") /\ challenged = (end = "challenge")
  OBVIOUS
<1>7. CASE end = "result"
  <2>1. Dispatched(m, work) = [Reply(200, "result", m.id)
                                 EXCEPT !.initialized = first, !.challenge = denied]
    BY <1>1, <1>5, <1>6, <1>7 DEF Dispatched
  <2>2. Dispatched(m, work) = [status |-> 200, body |-> "result", id |-> m.id,
                               challenge |-> denied, initialized |-> first]
    BY <2>1 DEF Reply
  <2>3. PICK a : a = Dispatched(m, work)
    OBVIOUS
  <2>4. a.status = 200 /\ a.body = "result" /\ a.id = m.id
    BY <2>2, <2>3
  <2>5. a.challenge = denied
    BY <2>2, <2>3
  <2>6. a.initialized = first
    BY <2>2, <2>3
  <2>7. a.challenge => work = "denied"
    BY <1>5, <2>5
  <2>8. a.initialized = (a.body = "result" /\ m.method = "initialize")
    BY <1>6, <2>4, <2>6, Zenon
  <2>9. a.body \in {"error", "result"} /\ a.status # 202
    BY <2>4
  <2> QED
    BY <1>7, <1>4, <2>3, <2>4, <2>7, <2>8, <2>9, Zenon
<1>8. CASE end # "result"
  <2>1. PICK status : status = ErrorStatus(end)
    OBVIOUS
  <2>2. status # 202
    BY <1>2, <1>8, <2>1 DEF ErrorStatus
  <2>3. Dispatched(m, work) = [Reply(status, "error", m.id) EXCEPT !.challenge = challenged]
    BY <1>1, <1>6, <1>8, <2>1 DEF Dispatched
  <2>4. Dispatched(m, work) = [status |-> status, body |-> "error", id |-> m.id,
                               challenge |-> challenged, initialized |-> FALSE]
    BY <2>3 DEF Reply
  <2>5. PICK a : a = Dispatched(m, work)
    OBVIOUS
  <2>6. a.status = status /\ a.body = "error" /\ a.id = m.id
    BY <2>4, <2>5
  <2>7. a.challenge = challenged
    BY <2>4, <2>5
  <2>8. a.initialized = FALSE
    BY <2>4, <2>5
  <2>9. a.initialized = (a.body = "result" /\ m.method = "initialize")
    <3>1. "error" # "result"
      OBVIOUS
    <3> QED
      BY <2>6, <2>8, <3>1, Zenon
  <2>10. a.challenge => work = "denied"
    BY <1>3, <1>6, <2>7, Zenon
  <2> QED
    BY <2>2, <2>5, <2>6, <2>9, <2>10
<1> QED
  BY <1>7, <1>8

(* A response is no request, and one that is accepted is well formed. *)
LEMMA Responses ==
    ASSUME NEW m, MessageOK(m)
    PROVE  /\ IsJsonRpcResponse(m) # "no" => m.method = "absent" /\ ~ParseJsonRpc(m)
           /\ IsJsonRpcResponse(m) = "yes" =>
                m.id = "id" /\ (m.result = "good" \/ m.error = "good")
<1>1. IsJsonRpcResponse(m) # "no" => m.method = "absent" /\ (m.result # "absent" \/ m.error # "absent")
  BY DEF IsJsonRpcResponse
<1>2. IsJsonRpcResponse(m) = "yes" =>
        m.id \notin {"absent", "bad"} /\ m.result # "bad" /\ m.error # "bad"
  BY DEF IsJsonRpcResponse
<1>3. "absent" \notin Method
  BY DEF Method, RequestMethods, ListMethods, NotificationMethods
<1>4. IsJsonRpcResponse(m) # "no" => ~ParseJsonRpc(m)
  BY <1>1, <1>3 DEF ParseJsonRpc
<1> QED
  BY <1>1, <1>2, <1>4 DEF MessageOK, Part

LEMMA HandledOK ==
    ASSUME NEW m, MessageOK(m), NEW reserve, NEW initialized, NEW work
    PROVE  AnswerOK(HandleMcpJson(m, reserve, initialized, work), m, reserve, initialized, work)
<1>1. PICK a : a = HandleMcpJson(m, reserve, initialized, work)
  OBVIOUS
<1> SUFFICES AnswerOK(a, m, reserve, initialized, work)
  BY <1>1
<1> DEFINE yes == IsJsonRpcResponse(m) = "yes"
           malformed == IsJsonRpcResponse(m) = "invalid" \/ ~ParseJsonRpc(m)
           early == ~initialized /\ m.method \notin {"initialize", "ping", "notifications/initialized"}
<1>2. CASE yes
  <2>1. a = Reply(202, "none", "absent")
    BY <1>1, <1>2 DEF HandleMcpJson
  <2>2. a.status = 202 /\ a.body = "none" /\ a.challenge = FALSE /\ a.initialized = FALSE
    BY <2>1 DEF Reply
  <2>3. ~ParseJsonRpc(m) /\ m.method = "absent" /\ m.id = "id" /\ (m.result = "good" \/ m.error = "good")
    BY <1>2, Responses
  <2> QED
    BY <2>2, <2>3 DEF AnswerOK
<1>3. ASSUME a.body = "error", a.status # 202, a.challenge = FALSE, a.initialized = FALSE,
             ParseJsonRpc(m) /\ m.id # "absent" => a.id = m.id
      PROVE  AnswerOK(a, m, reserve, initialized, work)
  BY <1>3 DEF AnswerOK
<1>4. CASE ~yes /\ malformed
  <2>1. a = Reply(400, "error", "absent")
    BY <1>1, <1>4 DEF HandleMcpJson
  <2>2. ~ParseJsonRpc(m)
    BY <1>4, Responses
  <2>3. a.body = "error" /\ a.status = 400 /\ a.challenge = FALSE /\ a.initialized = FALSE
    BY <2>1 DEF Reply
  <2>4. a.status # 202
    BY <2>3
  <2> QED
    BY <1>3, <2>2, <2>3, <2>4, Zenon
<1>5. CASE ~yes /\ ~malformed /\ m.id # "absent" /\ reserve = "duplicate"
  <2>1. a = Reply(200, "error", m.id)
    BY <1>1, <1>5 DEF HandleMcpJson
  <2>2. a.body = "error" /\ a.status = 200 /\ a.id = m.id /\ a.challenge = FALSE /\ a.initialized = FALSE
    BY <2>1 DEF Reply
  <2>3. a.status # 202
    BY <2>2
  <2> QED
    BY <1>3, <2>2, <2>3, Zenon
<1>6. CASE ~yes /\ ~malformed /\ m.id # "absent" /\ reserve = "refused"
  <2>1. a = Reply(404, "error", m.id)
    BY <1>1, <1>6 DEF HandleMcpJson
  <2>2. a.body = "error" /\ a.status = 404 /\ a.id = m.id /\ a.challenge = FALSE /\ a.initialized = FALSE
    BY <2>1 DEF Reply
  <2>3. a.status # 202
    BY <2>2
  <2> QED
    BY <1>3, <2>2, <2>3, Zenon
<1> DEFINE fresh == m.id # "absent" => reserve \notin {"duplicate", "refused"}
<1>7. CASE ~yes /\ ~malformed /\ fresh /\ early
  <2>1. a = Reply(IF m.id = "absent" THEN 400 ELSE 200, "error", m.id)
    BY <1>1, <1>7 DEF HandleMcpJson
  <2>2. a.status \in {400, 200} /\ a.body = "error" /\ a.id = m.id
        /\ a.challenge = FALSE /\ a.initialized = FALSE
    BY <2>1 DEF Reply
  <2>3. a.status # 202
    BY <2>2
  <2> QED
    BY <1>3, <2>2, <2>3, Zenon
<1>8. CASE ~yes /\ ~malformed /\ fresh /\ ~early /\ m.id # "absent"
  <2>1. a = Dispatched(m, work)
    BY <1>1, <1>8 DEF HandleMcpJson
  <2>2. /\ a.body \in {"error", "result"} /\ a.status # 202 /\ a.id = m.id
        /\ a.initialized = (a.body = "result" /\ m.method = "initialize")
        /\ a.challenge => work = "denied"
        /\ a.body = "result" => m.method \in RequestMethods
    BY <2>1, DispatchedFields
  <2>3. a.body = "result" => ParseJsonRpc(m) /\ m.id # "absent" /\ reserve \notin {"duplicate", "refused"}
    BY <1>8
  <2>4. a.body = "result" => initialized \/ m.method \in {"initialize", "ping"}
    BY <1>8, <2>2 DEF RequestMethods, ListMethods
  <2> QED
    BY <2>2, <2>3, <2>4 DEF AnswerOK
<1>9. CASE ~yes /\ ~malformed /\ ~early /\ m.id = "absent" /\ NotificationAccepted(m)
  <2>1. a = Reply(202, "none", "absent")
    BY <1>1, <1>9 DEF HandleMcpJson
  <2>2. a.status = 202 /\ a.body = "none" /\ a.challenge = FALSE /\ a.initialized = FALSE
    BY <2>1 DEF Reply
  <2>3. m.method \in NotificationMethods
    BY <1>9 DEF NotificationAccepted, NotificationMethods
  <2> QED
    BY <1>9, <2>2, <2>3 DEF AnswerOK
<1>10. CASE ~yes /\ ~malformed /\ ~early /\ m.id = "absent" /\ ~NotificationAccepted(m)
  <2>1. a = Reply(400, "error", "absent")
    BY <1>1, <1>10 DEF HandleMcpJson
  <2>2. a.body = "error" /\ a.status = 400 /\ a.challenge = FALSE /\ a.initialized = FALSE
    BY <2>1 DEF Reply
  <2>3. a.status # 202
    BY <2>2
  <2> QED
    BY <1>3, <1>10, <2>2, <2>3, Zenon
<1> QED
  BY <1>2, <1>4, <1>5, <1>6, <1>7, <1>8, <1>9, <1>10

Arrived(p) ==
    /\ p.check \in DOMAIN Checks /\ p.text \in DOMAIN ReadMcpJsonBody
    /\ p.reserve \in Reserve /\ p.initialized \in BOOLEAN /\ MessageOK(p.message)

(* EffectsFollowAnswer for one request. *)
EffectsOK(e, p) ==
    LET m == p.message IN
    /\ e.created <=> e.answer.body = "result" /\ m.method = "initialize"
    /\ e.created => p.header = "absent"
    /\ e.marked <=> e.answer.status = 202 /\ m.method = "notifications/initialized"
    /\ e.reserved => e.answer.id = m.id
    /\ e.answer.body = "result" => e.reserved \/ e.created
    /\ e.answer.body = "result" /\ m.method \notin {"initialize", "ping"} => p.initialized
    /\ e.answer.body = "none" =>
          \/ m.method \in NotificationMethods /\ m.id = "absent"
          \/ m.method = "absent" /\ (m.result = "good" \/ m.error = "good") /\ m.id = "id"
    /\ e.answer.challenge => e.answer.status = 401 \/ p.work = "denied"

(* An answer that is neither a result nor empty, with no effect. *)
LEMMA NothingDone ==
    ASSUME NEW e, NEW p, e.created = FALSE, e.marked = FALSE, e.reserved = FALSE,
           e.answer.body # "result", e.answer.body # "none", e.answer.status # 202,
           e.answer.challenge => e.answer.status = 401
    PROVE  EffectsOK(e, p)
  BY DEF EffectsOK

LEMMA TransportErrors ==
    ASSUME NEW status, status # 202, NEW p
    PROVE  /\ EffectsOK(WriteMcpTransportError(status), p)
           /\ \A touched : EffectsOK([WriteMcpTransportError(status) EXCEPT !.touched = touched], p)
<1>1. PICK challenge : challenge = (status = 401)
  OBVIOUS
<1>2. PICK answer : answer = [Reply(status, "other", "absent") EXCEPT !.challenge = challenge]
  OBVIOUS
<1>3. answer.status = status /\ answer.body = "other" /\ answer.challenge = challenge
  BY <1>2 DEF Reply
<1>4. WriteMcpTransportError(status) = [answer |-> answer, touched |-> FALSE, reserved |-> FALSE,
                                        created |-> FALSE, marked |-> FALSE]
  BY <1>1, <1>2 DEF WriteMcpTransportError, NoEffects
<1>5. ASSUME NEW e, e.answer = answer, e.created = FALSE, e.marked = FALSE, e.reserved = FALSE
      PROVE  EffectsOK(e, p)
  <2>1. e.answer.body # "result" /\ e.answer.body # "none" /\ e.answer.status # 202
    BY <1>3, <1>5
  <2>2. e.answer.challenge => e.answer.status = 401
    BY <1>1, <1>3, <1>5, Zenon
  <2> QED
    BY <1>5, <2>1, <2>2 DEF EffectsOK
<1>6. EffectsOK(WriteMcpTransportError(status), p)
  <2>1. PICK e : e = WriteMcpTransportError(status)
    OBVIOUS
  <2>2. e.answer = answer /\ e.created = FALSE /\ e.marked = FALSE /\ e.reserved = FALSE
    BY <1>4, <2>1
  <2> QED
    BY <1>5, <2>1, <2>2
<1>7. ASSUME NEW touched
      PROVE  EffectsOK([WriteMcpTransportError(status) EXCEPT !.touched = touched], p)
  <2>1. PICK e : e = [WriteMcpTransportError(status) EXCEPT !.touched = touched]
    OBVIOUS
  <2>2. e.answer = answer /\ e.created = FALSE /\ e.marked = FALSE /\ e.reserved = FALSE
    BY <1>4, <2>1
  <2> QED
    BY <1>5, <2>1, <2>2
<1> QED
  BY <1>6, <1>7

(* A request that reaches the handler and whose session update, if it needs *)
(* one, succeeds.                                                           *)
LEMMA HandledEffects ==
    ASSUME NEW p, NEW answer, NEW e, p.reserve \in Reserve, p.initialized \in BOOLEAN, SessionHeader(p),
           AnswerOK(answer, p.message,
                    IF p.message.method # "initialize" THEN p.reserve ELSE "none",
                    p.message.method # "initialize" /\ p.initialized, p.work),
           e.answer = answer,
           e.reserved = (p.message.method # "initialize" /\ ParseJsonRpc(p.message)
                          /\ p.message.id # "absent" /\ p.reserve = "granted"),
           e.created = Creates(p, answer), e.marked = Marks(p, answer)
    PROVE  EffectsOK(e, p)
<1>1. PICK m : m = p.message
  OBVIOUS
<1>2. e.created <=> answer.body = "result" /\ m.method = "initialize"
  BY <1>1, Zenon DEF Creates, AnswerOK
<1>3. m.method = "initialize" => p.header = "absent"
  BY <1>1 DEF SessionHeader
<1>4. answer.status = 202 <=> answer.body = "none"
  BY DEF AnswerOK
<1>5. e.marked <=> answer.status = 202 /\ m.method = "notifications/initialized"
  BY <1>1, <1>4, Zenon DEF Marks
<1>6. e.reserved => answer.id = m.id
  BY <1>1, Zenon DEF AnswerOK
<1>7. answer.body = "result" /\ m.method # "initialize" =>
         ParseJsonRpc(m) /\ m.id # "absent" /\ p.reserve = "granted"
  BY <1>1 DEF AnswerOK, Reserve
<1>8. answer.body = "result" => e.reserved \/ e.created
  BY <1>1, <1>2, <1>7, Zenon
<1>9. answer.body = "result" /\ m.method \notin {"initialize", "ping"} => p.initialized
  BY <1>1 DEF AnswerOK
<1>10. /\ answer.body = "none" =>
            \/ m.method \in NotificationMethods /\ m.id = "absent"
            \/ m.method = "absent" /\ (m.result = "good" \/ m.error = "good") /\ m.id = "id"
       /\ answer.challenge => p.work = "denied"
  BY <1>1 DEF AnswerOK
<1> QED
  BY <1>1, <1>2, <1>3, <1>5, <1>6, <1>8, <1>9, <1>10, Zenon DEF EffectsOK

LEMMA PostEffects == ASSUME NEW p, Arrived(p) PROVE EffectsOK(McpPost(p), p)
<1>1. /\ p.check \in DOMAIN Checks /\ p.text \in DOMAIN ReadMcpJsonBody
      /\ p.reserve \in Reserve /\ p.initialized \in BOOLEAN /\ MessageOK(p.message)
  BY DEF Arrived
<1>2. Checks[p.check] # 202 /\ ReadMcpJsonBody[p.text] # 202
  BY <1>1 DEF Checks, ReadMcpJsonBody
<1> DEFINE m == p.message
           touches == m.method # "initialize"
           answer == HandleMcpJson(m, IF touches THEN p.reserve ELSE "none",
                                   touches /\ p.initialized, p.work)
           reserved == touches /\ ParseJsonRpc(m) /\ m.id # "absent" /\ p.reserve = "granted"
<1>3. McpPost(p) =
        IF p.check # "none" THEN WriteMcpTransportError(Checks[p.check])
        ELSE IF p.text # "message" THEN NoEffects(Reply(ReadMcpJsonBody[p.text], "error", "absent"))
        ELSE IF ~SessionHeader(p) THEN WriteMcpTransportError(400)
        ELSE IF touches /\ ~p.live THEN WriteMcpTransportError(404)
        ELSE IF ~p.version THEN WriteMcpTransportError(400)
        ELSE IF (Creates(p, answer) \/ Marks(p, answer)) /\ ~p.settles
          THEN [WriteMcpTransportError(404) EXCEPT !.touched = touches]
        ELSE [[answer |-> answer, touched |-> touches, reserved |-> reserved,
               created |-> FALSE, marked |-> FALSE]
                EXCEPT !.created = Creates(p, answer), !.marked = Marks(p, answer)]
  BY Zenon DEF McpPost
<1>4. AnswerOK(answer, m, IF touches THEN p.reserve ELSE "none", touches /\ p.initialized, p.work)
  BY <1>1, HandledOK, Zenon
<1> HIDE DEF answer
<1>5. /\ EffectsOK(WriteMcpTransportError(Checks[p.check]), p)
      /\ EffectsOK(WriteMcpTransportError(400), p)
      /\ EffectsOK(WriteMcpTransportError(404), p)
      /\ EffectsOK([WriteMcpTransportError(404) EXCEPT !.touched = touches], p)
  <2>1. 400 # 202 /\ 404 # 202
    OBVIOUS
  <2> QED
    BY <1>2, <2>1, TransportErrors
<1>6. EffectsOK(NoEffects(Reply(ReadMcpJsonBody[p.text], "error", "absent")), p)
  <2>1. PICK status : status = ReadMcpJsonBody[p.text]
    OBVIOUS
  <2>2. PICK e : e = NoEffects(Reply(status, "error", "absent"))
    OBVIOUS
  <2>3. /\ e.created = FALSE /\ e.marked = FALSE /\ e.reserved = FALSE
        /\ e.answer.body = "error" /\ e.answer.status = status /\ e.answer.challenge = FALSE
    BY <2>2 DEF NoEffects, Reply
  <2>4. e.answer.body # "result" /\ e.answer.body # "none" /\ e.answer.status # 202
    BY <1>2, <2>1, <2>3
  <2> QED
    BY <2>1, <2>2, <2>3, <2>4, NothingDone, Zenon
<1>7. ASSUME SessionHeader(p)
       PROVE  EffectsOK([[answer |-> answer, touched |-> touches, reserved |-> reserved,
                          created |-> FALSE, marked |-> FALSE]
                           EXCEPT !.created = Creates(p, answer), !.marked = Marks(p, answer)], p)
  <2>1. PICK creates, marks : creates = Creates(p, answer) /\ marks = Marks(p, answer)
    OBVIOUS
  <2>2. PICK e : e = [[answer |-> answer, touched |-> touches, reserved |-> reserved,
                       created |-> FALSE, marked |-> FALSE] EXCEPT !.created = creates, !.marked = marks]
    OBVIOUS
  <2>3. e.answer = answer /\ e.reserved = reserved /\ e.created = creates /\ e.marked = marks
    BY <2>2
  <2>4. EffectsOK(e, p)
    BY <1>1, <1>4, <1>7, <2>1, <2>3, HandledEffects, Zenon
  <2> QED
    BY <2>1, <2>2, <2>4, Zenon
<1> QED
  BY <1>3, <1>5, <1>6, <1>7, Zenon

LEMMA PostsArrive == ASSUME PostArrives PROVE \E p : post = <<p>> /\ Arrived(p)
<1>1. "none" \in DOMAIN Checks /\ "message" \in DOMAIN ReadMcpJsonBody
  BY DEF Checks, ReadMcpJsonBody
<1>2. ASSUME NEW check \in DOMAIN Checks, NEW text \in DOMAIN ReadMcpJsonBody, NEW message, MessageOK(message),
             NEW header, NEW version, NEW live, NEW initialized \in BOOLEAN, NEW reserve \in Reserve,
             NEW settles, NEW work,
             post = <<Post(check, text, message, header, version, live, initialized, reserve, settles, work)>>
      PROVE  \E p : post = <<p>> /\ Arrived(p)
  <2>1. PICK p : p = Post(check, text, message, header, version, live, initialized, reserve, settles, work)
    OBVIOUS
  <2>2. /\ p.check = check /\ p.text = text /\ p.message = message
        /\ p.initialized = initialized /\ p.reserve = reserve
    BY <2>1 DEF Post
  <2>3. Arrived(p)
    BY <1>2, <2>2, Zenon DEF Arrived
  <2> QED
    BY <1>2, <2>1, <2>3
<1>3. \A message \in WellFormed : MessageOK(message)
  <2> SUFFICES ASSUME NEW message \in WellFormed PROVE MessageOK(message)
    OBVIOUS
  <2>1. PICK method \in Method : message \in
           [shape : {"object"}, jsonrpc : {"2.0"}, method : {method}, id : {"absent", "bad", "id"},
            params : Params(method), result : {"absent"}, error : {"absent"}, stray : {FALSE}]
    BY DEF WellFormed
  <2>2. message.method = method /\ message.id \in {"absent", "bad", "id"}
        /\ message.result = "absent" /\ message.error = "absent"
    BY <2>1
  <2> QED
    BY <2>2 DEF MessageOK, Part
<1>4. {"initialize", "ping", "notifications/initialized"} \subseteq Method
  BY DEF Method, RequestMethods, NotificationMethods
<1>5. \A message \in Envelopes : MessageOK(message)
  BY <1>4 DEF Envelopes, Envelope, MessageOK, Part
<1>6. MessageOK(Ping)
  BY <1>4 DEF Ping, Envelope, MessageOK, Part
<1>7. {"granted", "duplicate"} \subseteq Reserve
  BY DEF Reserve
<1>8. CASE \E message \in WellFormed, header \in {"absent", "valid"}, initialized \in BOOLEAN,
          reserve \in {"granted", "duplicate"}, settles \in BOOLEAN, work \in {"done", "denied"} :
          post = <<Post("none", "message", message, header, TRUE, TRUE, initialized, reserve, settles, work)>>
  <2>1. PICK message \in WellFormed, header \in {"absent", "valid"}, initialized \in BOOLEAN,
          reserve \in {"granted", "duplicate"}, settles \in BOOLEAN, work \in {"done", "denied"} :
          post = <<Post("none", "message", message, header, TRUE, TRUE, initialized, reserve, settles, work)>>
    BY <1>8
  <2>2. reserve \in Reserve /\ MessageOK(message)
    BY <1>3, <1>7
  <2> QED
    BY <1>1, <1>2, <2>1, <2>2, Zenon
<1>9. CASE \E message \in Envelopes, header \in {"absent", "bad", "valid"}, version \in BOOLEAN,
          live \in BOOLEAN, reserve \in Reserve :
          post = <<Post("none", "message", message, header, version, live, FALSE, reserve, TRUE, "done")>>
  BY <1>1, <1>2, <1>5, <1>9
<1>10. CASE \E check \in DOMAIN Checks, text \in DOMAIN ReadMcpJsonBody, reserve \in Reserve, work \in Work :
          post = <<Post(check, text, Ping, "valid", TRUE, TRUE, TRUE, reserve, TRUE, work)>>
  BY <1>2, <1>6, <1>10
<1> QED
  BY <1>8, <1>9, <1>10 DEF PostArrives

(* A request is answered once, and the effects are those of McpPost. *)
PostOK ==
    /\ post # <<>> => \E p : post = <<p>> /\ Arrived(p)
    /\ effects # <<>> => post # <<>> /\ effects = <<McpPost(post[1])>>

(* Whatever the message, the endpoint's choice of the session and its       *)
(* effects, which it takes from the raw method, agree with the answer of    *)
(* the dispatch.                                                            *)
THEOREM EffectsAgree == RequestsSpec => []EffectsFollowAnswer
<1>1. RequestsInit => PostOK
  BY PostsArrive DEF RequestsInit, PostOK
<1>2. PostOK /\ [RequestsNext]_requestVars => PostOK'
  <2> SUFFICES ASSUME PostOK, [RequestsNext]_requestVars PROVE PostOK'
    OBVIOUS
  <2>1. CASE HandlePost
    BY <2>1 DEF HandlePost, PostOK
  <2>2. CASE UNCHANGED <<post, effects>>
    BY <2>2 DEF PostOK
  <2> QED
    BY <2>1, <2>2 DEF RequestsNext, FetchPage, Redeploy, requestVars
<1>3. PostOK => EffectsFollowAnswer
  <2> SUFFICES ASSUME PostOK, effects # <<>> PROVE EffectsFollowAnswer
    BY DEF EffectsFollowAnswer
  <2>1. PICK p : post = <<p>> /\ Arrived(p) /\ post[1] = p
    BY DEF PostOK
  <2>2. PICK e : e = McpPost(p)
    OBVIOUS
  <2>3. effects[1] = e
    BY <2>1, <2>2 DEF PostOK
  <2>4. EffectsOK(e, p)
    BY <2>1, <2>2, PostEffects
  <2> QED
    BY <2>1, <2>3, <2>4, Zenon DEF EffectsFollowAnswer, EffectsOK
<1> QED
  BY <1>1, <1>2, <1>3, PTL DEF RequestsSpec
=============================================================================
