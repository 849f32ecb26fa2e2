--------------------------- MODULE Limits_proofs ---------------------------
(* Proofs about what the service admits: the connections and streams of     *)
(* SseStreams, for any number of them, and the requests of RateLimit, for   *)
(* any window, limit and number of processes.                               *)
EXTENDS SseStreams, RateLimit, FiniteSetTheorems, TLAPS

-----------------------------------------------------------------------------
(* SseStreams: the inductive invariant *)

(* The slots that are counted can be counted. *)
SlotsCounted == IsFiniteSet(Opened) /\ SlotsMatchStreams

(* Only the legacy transport has sessions, and its timer runs exactly as    *)
(* long as its session is in the Map: closeLegacySseSession removes both.   *)
TimerMatchesSession ==
    /\ \A s \in DOMAIN sessions : kind[s] = "legacy"
    /\ \A s \in heartbeat : kind[s] = "legacy" => s \in DOMAIN sessions

(* A response owes a 'drain' only while its buffer holds a frame, and every *)
(* message that waits for one is owed it, also when the response is gone.   *)
DrainOwed ==
    /\ \A s \in needDrain : buffered[s] > 0
    /\ \A p \in DOMAIN call : call[p].pc = "drain" => call[p].stream \in needDrain

IInv ==
    /\ TypeOK
    /\ SlotsCounted
    /\ NothingLeftBehind
    /\ TimerMatchesSession
    /\ DrainOwed

-----------------------------------------------------------------------------
(* Lemmas about the helpers *)

(* writeSseFrame leaves a buffer that holds a frame, and a response that    *)
(* owes a 'drain' goes on owing it.                                         *)
LEMMA FrameWritten ==
    ASSUME TypeOK, DrainOwed, NEW s \in Stream, WriteSseFrame(s)
    PROVE  /\ buffered' \in [Stream -> Nat]
           /\ needDrain' \subseteq Stream
           /\ needDrain \subseteq needDrain'
           /\ \A r \in needDrain' : buffered'[r] > 0
           /\ WaitsForDrain(s) => s \in needDrain'
<1> USE SseStreamsAssumption
<1>1. /\ HighWater \in Nat
      /\ buffered \in [Stream -> Nat]
      /\ buffered' = [buffered EXCEPT ![s] = @ + 1]
      /\ needDrain' = IF buffered[s] + 1 < HighWater THEN needDrain ELSE needDrain \cup {s}
  BY DEF TypeOK, WriteSseFrame
<1>2. buffered' \in [Stream -> Nat] /\ needDrain' \subseteq Stream /\ needDrain \subseteq needDrain'
  BY <1>1 DEF TypeOK
<1>3. \A r \in needDrain' : buffered'[r] > 0
  BY <1>1, <1>2 DEF DrainOwed, TypeOK
<1>4. WaitsForDrain(s) => s \in needDrain'
  BY <1>1 DEF WaitsForDrain
<1> QED
  BY <1>2, <1>3, <1>4

(* closeLegacySseSession leaves neither the session nor its timer behind,   *)
(* and touches no other stream.                                             *)
LEMMA SessionClosed ==
    ASSUME TypeOK, NothingLeftBehind, TimerMatchesSession, NEW s \in Stream,
           CloseLegacySseSession(s), kind' = kind
    PROVE  /\ heartbeat' \subseteq Stream
           /\ DOMAIN sessions' \subseteq Stream
           /\ \A r \in DOMAIN sessions' : sessions'[r] \in LegacySseSession
           /\ heartbeat' \subseteq heartbeat
           /\ DOMAIN sessions' = DOMAIN sessions \ {s}
           /\ DOMAIN sessions' \subseteq heartbeat'
           /\ kind[s] = "legacy" => s \notin heartbeat'
           /\ TimerMatchesSession'
<1>1. /\ DOMAIN sessions' = DOMAIN sessions \ {s}
      /\ \A r \in DOMAIN sessions' : sessions'[r] = sessions[r]
      /\ heartbeat' = IF s \in DOMAIN sessions THEN heartbeat \ {s} ELSE heartbeat
  BY DEF CloseLegacySseSession, DeleteItem, HasItem
<1> QED
  BY <1>1 DEF TypeOK, NothingLeftBehind, TimerMatchesSession

(* A message that is sent or refused keeps the sessions, the timers and the *)
(* drains of its stream in step.                                            *)
LEMMA MessageSent ==
    ASSUME IInv, NEW p \in Poster, NEW s \in Stream, SendLegacySseMessage(p, s),
           kind' = kind, pc' = pc, closed' = closed, active' = active
    PROVE  IInv'
<1>1. Opened' = Opened
  BY DEF Opened
<1>2. SlotsCounted'
  BY <1>1 DEF IInv, SlotsCounted, SlotsMatchStreams
<1>3. CASE /\ CloseLegacySseSession(s)
           /\ Answer(p)
           /\ UNCHANGED <<buffered, needDrain>>
  <2>1. /\ DOMAIN call' \subseteq DOMAIN call
        /\ \A q \in DOMAIN call' : call'[q] = call[q]
    BY <1>3 DEF Answer, DeleteItem
  <2>2. TypeOK'
    BY <1>3, <2>1, SessionClosed DEF IInv, TypeOK
  <2>3. NothingLeftBehind' /\ TimerMatchesSession'
    BY <1>1, <1>3, SessionClosed DEF IInv, NothingLeftBehind
  <2>4. DrainOwed'
    BY <1>3, <2>1 DEF IInv, DrainOwed
  <2> QED
    BY <1>2, <2>2, <2>3, <2>4 DEF IInv
<1>4. CASE /\ Reachable(s)
           /\ sessions' = [sessions EXCEPT ![s].sequence = @ + 1]
           /\ WriteSseFrame(s)
           /\ IF WaitsForDrain(s)
                THEN call' = PutItem(call, p, [pc |-> "drain", stream |-> s])
                ELSE Answer(p)
           /\ UNCHANGED heartbeat
  <2>1. /\ DOMAIN sessions' = DOMAIN sessions
        /\ \A r \in DOMAIN sessions' : sessions'[r] \in LegacySseSession
    BY <1>4 DEF IInv, TypeOK, Reachable, HasItem, LegacySseSession
  <2>2. \A q \in DOMAIN call' :
           \/ q \in DOMAIN call /\ call'[q] = call[q]
           \/ q = p /\ call'[q] = [pc |-> "drain", stream |-> s] /\ WaitsForDrain(s)
    BY <1>4 DEF Answer, DeleteItem, PutItem
  <2>3. DOMAIN call' \subseteq Poster /\ \A q \in DOMAIN call' : call'[q] \in Call
    BY <2>2 DEF IInv, TypeOK, Call
  <2>4. TypeOK'
    BY <1>4, <2>1, <2>3, FrameWritten DEF IInv, TypeOK
  <2>5. NothingLeftBehind' /\ TimerMatchesSession'
    BY <1>1, <1>4, <2>1 DEF IInv, NothingLeftBehind, TimerMatchesSession
  <2>6. DrainOwed'
    BY <1>4, <2>2, FrameWritten DEF IInv, DrainOwed
  <2> QED
    BY <1>2, <2>4, <2>5, <2>6 DEF IInv
<1> QED
  BY <1>3, <1>4 DEF SendLegacySseMessage

(* A step that neither opens nor ends a handler keeps the slots counted. *)
LEMMA SlotsKept ==
    ASSUME IInv, UNCHANGED <<pc, active>>
    PROVE  Opened' = Opened /\ SlotsCounted'
  BY DEF IInv, SlotsCounted, SlotsMatchStreams, Opened

-----------------------------------------------------------------------------
LEMMA InitHolds ==
    ASSUME Init
    PROVE  IInv
<1>1. Opened = {}
  BY DEF Init, Opened
<1>2. SlotsCounted
  BY <1>1, FS_EmptySet, SseStreamsAssumption DEF Init, SlotsCounted, SlotsMatchStreams
<1>3. TypeOK
  BY DEF Init, TypeOK, EmptyTable
<1>4. NothingLeftBehind /\ TimerMatchesSession /\ DrainOwed
  BY DEF Init, EmptyTable, NothingLeftBehind, TimerMatchesSession, DrainOwed
<1> QED
  BY <1>2, <1>3, <1>4 DEF IInv

LEMMA OpenStep ==
    ASSUME IInv, NEW s \in Stream, Open(s)
    PROVE  IInv'
<1> USE SseStreamsAssumption
<1>1. s \notin Opened /\ Opened' = Opened \cup {s}
  BY DEF Open, Opened, IInv, TypeOK
<1>2. SlotsCounted'
  <2>1. IsFiniteSet(Opened') /\ Cardinality(Opened') = Cardinality(Opened) + 1
    BY <1>1, FS_AddElement DEF IInv, SlotsCounted
  <2>2. active \in Nat /\ active < MaxConnections /\ active' = active + 1
    BY DEF IInv, TypeOK, Open, ConnectionFree
  <2> QED
    BY <2>1, <2>2 DEF IInv, SlotsCounted, SlotsMatchStreams
<1>3. /\ WriteSseFrame(s)
      /\ heartbeat' = heartbeat \cup {s}
      /\ UNCHANGED <<kind, closed, call>>
  BY DEF Open
<1>4. /\ DOMAIN sessions' = DOMAIN sessions \cup (IF kind[s] = "legacy" THEN {s} ELSE {})
      /\ \A r \in DOMAIN sessions' : sessions'[r] \in LegacySseSession
  BY DEF Open, PutItem, LegacySseSession, IInv, TypeOK
<1>5. TypeOK'
  <2>1. pc' \in [Stream -> {"new", "open", "done"}] /\ active' \in Nat
    BY DEF Open, IInv, TypeOK
  <2> QED
    BY <1>3, <1>4, <2>1, FrameWritten DEF IInv, TypeOK
<1>6. NothingLeftBehind' /\ TimerMatchesSession'
  BY <1>1, <1>3, <1>4 DEF IInv, NothingLeftBehind, TimerMatchesSession, TypeOK
<1>7. DrainOwed'
  BY <1>3, FrameWritten DEF IInv, DrainOwed
<1> QED
  BY <1>2, <1>5, <1>6, <1>7 DEF IInv

LEMMA FinishStep ==
    ASSUME IInv, NEW s \in Stream, Finish(s)
    PROVE  IInv'
<1>1. s \in Opened /\ Opened' = Opened \ {s}
  BY DEF Finish, Opened, IInv, TypeOK
<1>2. SlotsCounted' /\ active' \in Nat
  <2>1. /\ IsFiniteSet(Opened')
        /\ Cardinality(Opened') = Cardinality(Opened) - 1
        /\ Cardinality(Opened') \in Nat
    BY <1>1, FS_RemoveElement, FS_CardinalityType DEF IInv, SlotsCounted
  <2>2. active \in Nat /\ active' = active - 1 /\ MaxConnections \in Nat
    BY SseStreamsAssumption DEF IInv, TypeOK, Finish
  <2> QED
    BY <2>1, <2>2 DEF IInv, SlotsCounted, SlotsMatchStreams
<1>3. UNCHANGED <<kind, closed, buffered, needDrain, call>>
  BY DEF Finish
<1>4. /\ heartbeat' \subseteq heartbeat \ {s}
      /\ DOMAIN sessions' = DOMAIN sessions \ {s}
      /\ DOMAIN sessions' \subseteq heartbeat'
      /\ \A r \in DOMAIN sessions' : sessions'[r] \in LegacySseSession
      /\ TimerMatchesSession'
  <2>1. CASE kind[s] = "legacy"
    BY <1>3, <2>1, SessionClosed DEF IInv, Finish
  <2>2. CASE kind[s] # "legacy"
    <3>1. heartbeat' = heartbeat \ {s} /\ sessions' = sessions /\ s \notin DOMAIN sessions
      BY <2>2 DEF Finish, IInv, TimerMatchesSession
    <3> QED
      BY <1>3, <3>1 DEF IInv, TypeOK, NothingLeftBehind, TimerMatchesSession
  <2> QED
    BY <2>1, <2>2
<1>5. TypeOK'
  BY <1>2, <1>3, <1>4 DEF IInv, TypeOK, Finish
<1>6. NothingLeftBehind'
  BY <1>1, <1>4 DEF IInv, NothingLeftBehind
<1>7. DrainOwed'
  BY <1>3 DEF IInv, DrainOwed
<1> QED
  BY <1>2, <1>4, <1>5, <1>6, <1>7 DEF IInv

LEMMA ClientReadsStep ==
    ASSUME IInv, NEW s \in Stream, ClientReads(s)
    PROVE  IInv'
<1>1. Opened' = Opened /\ SlotsCounted'
  BY SlotsKept DEF ClientReads
<1>2. /\ buffered \in [Stream -> Nat]
      /\ buffered[s] > 0
      /\ buffered' = [buffered EXCEPT ![s] = @ - 1]
      /\ buffered' \in [Stream -> Nat]
  BY DEF IInv, TypeOK, ClientReads
<1>3. /\ DOMAIN call' \subseteq DOMAIN call
      /\ \A p \in DOMAIN call' : call'[p] = call[p]
      /\ needDrain' \subseteq needDrain
  BY DEF ClientReads
<1>4. TypeOK'
  BY <1>2, <1>3 DEF IInv, TypeOK, ClientReads
<1>5. NothingLeftBehind' /\ TimerMatchesSession'
  BY <1>1 DEF IInv, NothingLeftBehind, TimerMatchesSession, ClientReads
<1>6. DrainOwed'
  <2>1. CASE buffered[s] = 1 /\ s \in needDrain
    <3>1. /\ needDrain' = needDrain \ {s}
          /\ call' = [p \in {q \in DOMAIN call : call[q] # [pc |-> "drain", stream |-> s]} |-> call[p]]
      BY <2>1 DEF ClientReads
    <3>2. \A r \in needDrain' : buffered'[r] > 0
      BY <1>2, <3>1 DEF IInv, DrainOwed, TypeOK
    <3>3. ASSUME NEW p \in DOMAIN call', call'[p].pc = "drain"
          PROVE  call'[p].stream \in needDrain'
      <4>1. p \in DOMAIN call /\ call'[p] = call[p] /\ call[p] # [pc |-> "drain", stream |-> s]
        BY <3>1
      <4>2. call[p] \in Call
        BY <4>1 DEF IInv, TypeOK
      <4>3. call[p].stream # s
        BY <3>3, <4>1, <4>2 DEF Call
      <4> QED
        BY <3>1, <3>3, <4>1, <4>3 DEF IInv, DrainOwed
    <3> QED
      BY <3>2, <3>3 DEF DrainOwed
  <2>2. CASE ~(buffered[s] = 1 /\ s \in needDrain)
    <3>1. UNCHANGED <<needDrain, call>>
      BY <2>2 DEF ClientReads
    <3>2. \A r \in needDrain : buffered'[r] > 0
      BY <1>2, <2>2 DEF IInv, DrainOwed, TypeOK
    <3> QED
      BY <3>1, <3>2 DEF IInv, DrainOwed
  <2> QED
    BY <2>1, <2>2
<1> QED
  BY <1>1, <1>4, <1>5, <1>6 DEF IInv

LEMMA PostStep ==
    ASSUME IInv, NEW p \in Poster, NEW s \in Stream, NEW id \in RequestId, Post(p, s, id)
    PROVE  IInv'
<1>1. Opened' = Opened /\ SlotsCounted'
  BY SlotsKept DEF Post
<1>2. /\ DOMAIN sessions' = DOMAIN sessions
      /\ \A r \in DOMAIN sessions' : sessions'[r] \in LegacySseSession
  BY DEF Post, Reservable, Reachable, HasItem, IInv, TypeOK, LegacySseSession
<1>3. \A q \in DOMAIN call' :
         \/ q \in DOMAIN call /\ call'[q] = call[q]
         \/ q = p /\ call'[q] = [pc |-> "dispatch", stream |-> s]
  BY DEF Post, PutItem
<1>4. TypeOK'
  <2>1. DOMAIN call' \subseteq Poster /\ \A q \in DOMAIN call' : call'[q] \in Call
    BY <1>3 DEF IInv, TypeOK, Call
  <2> QED
    BY <1>2, <2>1 DEF IInv, TypeOK, Post
<1>5. NothingLeftBehind' /\ TimerMatchesSession'
  BY <1>1, <1>2 DEF IInv, NothingLeftBehind, TimerMatchesSession, Post
<1>6. DrainOwed'
  BY <1>3 DEF IInv, DrainOwed, Post
<1> QED
  BY <1>1, <1>4, <1>5, <1>6 DEF IInv

LEMMA InvariantStep ==
    ASSUME IInv, [Next]_vars
    PROVE  IInv'
<1>1. ASSUME NEW s \in Stream, Refuse(s) PROVE IInv'
  <2>1. Opened' = Opened
    BY <1>1 DEF Refuse, Opened, IInv, TypeOK
  <2> QED
    BY <1>1, <2>1 DEF Refuse, IInv, TypeOK, SlotsCounted, SlotsMatchStreams, NothingLeftBehind,
                      TimerMatchesSession, DrainOwed
<1>2. ASSUME NEW s \in Stream, Heartbeat(s) PROVE IInv'
  <2>1. Opened' = Opened /\ SlotsCounted'
    BY <1>2, SlotsKept DEF Heartbeat
  <2>2. TypeOK'
    BY <1>2, FrameWritten DEF Heartbeat, IInv, TypeOK
  <2>3. NothingLeftBehind' /\ TimerMatchesSession'
    BY <1>2, <2>1 DEF Heartbeat, IInv, NothingLeftBehind, TimerMatchesSession
  <2>4. DrainOwed'
    BY <1>2, FrameWritten DEF Heartbeat, IInv, DrainOwed
  <2> QED
    BY <2>1, <2>2, <2>3, <2>4 DEF IInv
<1>3. ASSUME NEW s \in Stream, HeartbeatFails(s) PROVE IInv'
  <2>1. Opened' = Opened /\ SlotsCounted'
    BY <1>3, SlotsKept DEF HeartbeatFails
  <2>2. TypeOK'
    BY <1>3, SessionClosed DEF HeartbeatFails, IInv, TypeOK
  <2>3. NothingLeftBehind' /\ TimerMatchesSession'
    BY <1>3, <2>1, SessionClosed DEF HeartbeatFails, IInv, NothingLeftBehind
  <2>4. DrainOwed'
    BY <1>3 DEF HeartbeatFails, IInv, DrainOwed
  <2> QED
    BY <2>1, <2>2, <2>3, <2>4 DEF IInv
<1>4. ASSUME NEW s \in Stream, ClientGone(s) PROVE IInv'
  <2>1. Opened' = Opened /\ SlotsCounted'
    BY <1>4, SlotsKept DEF ClientGone
  <2> QED
    BY <1>4, <2>1 DEF ClientGone, IInv, TypeOK, NothingLeftBehind, TimerMatchesSession, DrainOwed
<1>5. ASSUME NEW p \in Poster, NEW s \in Stream, NEW id \in RequestId \cup {None},
             PostRejected(p, s, id)
      PROVE IInv'
  BY <1>5, MessageSent DEF PostRejected
<1>6. ASSUME NEW p \in Poster, Dispatched(p) PROVE IInv'
  <2>1. call[p].stream \in Stream
    BY <1>6 DEF Dispatched, IInv, TypeOK, Call
  <2> QED
    BY <1>6, <2>1, MessageSent DEF Dispatched
<1>7. CASE UNCHANGED vars
  <2>1. Opened' = Opened
    BY <1>7 DEF vars, Opened
  <2> QED
    BY <1>7, <2>1 DEF vars, IInv, TypeOK, SlotsCounted, SlotsMatchStreams, NothingLeftBehind,
                      TimerMatchesSession, DrainOwed
<1> QED
  BY <1>1, <1>2, <1>3, <1>4, <1>5, <1>6, <1>7, OpenStep, FinishStep, ClientReadsStep, PostStep
     DEF Next

LEMMA Invariance == Spec => []IInv
<1>1. Init => IInv
  BY InitHolds
<1>2. IInv /\ [Next]_vars => IInv'
  BY InvariantStep
<1> QED
  BY <1>1, <1>2, PTL DEF Spec

-----------------------------------------------------------------------------
(* The state of the streams, the sessions and the posts has its type; in    *)
(* particular activeConnections never goes below zero.                      *)
THEOREM TypeCorrect == Spec => []TypeOK
<1>1. IInv => TypeOK
  BY DEF IInv
<1> QED
  BY <1>1, Invariance, PTL

(* Whoever finds out first that a stream is gone, activeConnections is the  *)
(* number of handlers that hold a stream, and within MaxConnections         *)
(* (mcp/sse-connection-limit.ts).                                           *)
THEOREM SlotsSafe == Spec => []SlotsMatchStreams
<1>1. IInv => SlotsMatchStreams
  BY DEF IInv, SlotsCounted
<1> QED
  BY <1>1, Invariance, PTL

(* A handler that has ended leaves neither its session in the Map nor its   *)
(* timer running, and no session in use is without its timer                *)
(* (mcp/legacy-sse-session.ts, mcp/streamable-get-stream.ts).               *)
THEOREM NoLeaks == Spec => []NothingLeftBehind
<1>1. IInv => NothingLeftBehind
  BY DEF IInv
<1> QED
  BY <1>1, Invariance, PTL

(* A message of POST /messages that waits for 'drain' on a live stream is   *)
(* woken by an event that is still to come (mcp/sse-event.ts).              *)
THEOREM WakeupsArrive == Spec => []NoLostWakeup
<1>1. IInv => NoLostWakeup
  BY DEF IInv, DrainOwed, NoLostWakeup
<1> QED
  BY <1>1, Invariance, PTL

-----------------------------------------------------------------------------
(* RateLimit *)

(* A multiple of the window length. *)
IsStart(s) == \E q \in Nat : s = q * Window

(* The stored record is the history of its window and the one before, and   *)
(* no later window has seen a request.                                      *)
ItemTrue ==
    item # NoRecord =>
        /\ item \in Record
        /\ IsStart(item.windowStart) /\ item.windowStart \in Window..WindowStart(clock)
        /\ item.expiresAt = item.windowStart + 2 * Window
        /\ item.currentCount = accepted[item.windowStart]
        /\ item.previousCount = accepted[item.windowStart - Window]
        /\ \A s \in Windows : s > item.windowStart => accepted[s] = 0

(* Without a record the windows that count are empty. *)
NothingStored ==
    item = NoRecord => \A s \in Windows : s + Window >= WindowStart(clock) => accepted[s] = 0

Hit == [pc : {"idle", "read", "put"}, now : Nat, attempt : Nat, existing : Record \cup {NoRecord}]

(* A call under way took its time in this window; what it read was alive at *)
(* that time and within the limit.                                          *)
HitOK(w) ==
    /\ hit[w] \in Hit
    /\ hit[w].pc # "idle" =>
         /\ hit[w].now \in Window..clock
         /\ WindowStart(hit[w].now) = WindowStart(clock)
    /\ hit[w].pc = "put" =>
         /\ WithinLimit(hit[w].existing, hit[w].now)
         /\ hit[w].existing # NoRecord =>
              /\ hit[w].existing.expiresAt = hit[w].existing.windowStart + 2 * Window
              /\ hit[w].existing.expiresAt > hit[w].now

RateTyped ==
    /\ clock \in Window..MaxClock
    /\ hitAt \in Window..clock
    /\ accepted \in [Windows -> Nat]
    /\ DOMAIN hit = Worker

(* All this as long as no call was under way when a window began. *)
RateInductive ==
    ~straddled /\ RateTyped /\ ItemTrue /\ NothingStored /\ (\A w \in Worker : HitOK(w)) /\ WeightedCap

(* The multiples of the window length lie apart by at least one window. *)
LEMMA StartsApart ==
    ASSUME NEW a, NEW b, IsStart(a), IsStart(b), a < b
    PROVE  a + Window <= b
<1>1. Window \in Nat /\ Window > 0
  BY RateLimitAssumption
<1>2. PICK p \in Nat : a = p * Window
  BY DEF IsStart
<1>3. PICK q \in Nat : b = q * Window
  BY DEF IsStart
<1>4. p < q
  <2>1. CASE q <= p
    <3>1. PICK d \in Nat : p = q + d
      BY <2>1, p - q \in Nat, p = q + (p - q)
    <3>2. p * Window = q * Window + d * Window /\ d * Window \in Nat /\ q * Window \in Nat
      BY <1>1, <3>1
    <3> QED
      BY <1>2, <1>3, <3>2
  <2> QED
    BY <2>1
<1>5. PICK d \in Nat : q = p + 1 + d
  BY <1>4, q - p - 1 \in Nat, q = p + 1 + (q - p - 1)
<1>6. q * Window = p * Window + Window + d * Window /\ d * Window \in Nat /\ p * Window \in Nat
  BY <1>1, <1>5
<1> QED
  BY <1>1, <1>2, <1>3, <1>6

LEMMA StartsAreWindows ==
    ASSUME NEW s, IsStart(s), s <= MaxClock
    PROVE  s \in Nat /\ s \in Windows
<1>1. Window \in Nat /\ Window > 0 /\ MaxClock \in Nat
  BY RateLimitAssumption
<1>2. PICK q \in Nat : s = q * Window
  BY DEF IsStart
<1>3. s \in Nat
  BY <1>1, <1>2
<1>4. (q * Window) % Window = 0
  BY <1>1
<1> QED
  BY <1>1, <1>2, <1>3, <1>4 DEF Windows

LEMMA WindowBounds ==
    ASSUME NEW n \in Nat
    PROVE  /\ IsStart(WindowStart(n)) /\ WindowStart(n) \in Nat
           /\ WindowStart(n) <= n /\ n < WindowStart(n) + Window
<1>1. Window \in Nat /\ Window > 0
  BY RateLimitAssumption
<1>2. n \div Window \in Nat
  BY <1>1
<1>3. (n \div Window) * Window <= n /\ n < (n \div Window) * Window + Window
  BY <1>1
<1>4. (n \div Window) * Window \in Nat
  BY <1>1, <1>2
<1> QED
  BY <1>2, <1>3, <1>4 DEF IsStart, WindowStart

(* A start that is no later than a time is no later than its window. *)
LEMMA StartsBefore ==
    ASSUME NEW n \in Nat, NEW s, IsStart(s), s <= n
    PROVE  s <= WindowStart(n)
<1>1. Window \in Nat /\ Window > 0 /\ s \in Nat
  BY RateLimitAssumption DEF IsStart
<1>2. ~(WindowStart(n) + Window <= s)
  BY <1>1, WindowBounds
<1>3. ~(WindowStart(n) < s)
  BY <1>2, StartsApart, WindowBounds
<1> QED
  BY <1>1, <1>3, WindowBounds

(* The window of a time of the run, and the window before it. *)
LEMMA TwoWindows ==
    ASSUME NEW n \in Window..MaxClock
    PROVE  LET s == WindowStart(n) IN
           /\ s \in Nat /\ Window <= s /\ s <= n /\ n < s + Window /\ IsStart(s)
           /\ s \in Windows /\ s - Window \in Windows /\ s - Window # s
           /\ s - Window \in Nat
<1>1. Window \in Nat /\ Window > 0 /\ MaxClock \in Nat /\ n \in Nat /\ Window <= n /\ n <= MaxClock
  BY RateLimitAssumption
<1>2. PICK s : s = WindowStart(n)
  OBVIOUS
<1>3. s \in Nat /\ s <= n /\ n < s + Window /\ IsStart(s)
  BY <1>1, <1>2, WindowBounds
<1>4. s > 0 /\ IsStart(Window)
  <2>1. s > 0
    BY <1>1, <1>3
  <2>2. 1 \in Nat /\ Window = 1 * Window
    BY <1>1
  <2> QED
    BY <2>1, <2>2 DEF IsStart
<1>5. Window <= s
  BY <1>1, <1>2, <1>4, StartsBefore
<1>6. IsStart(s - Window)
  <2>1. PICK q \in Nat : s = q * Window
    BY <1>3 DEF IsStart
  <2>2. q # 0
    BY <1>1, <1>4, <2>1
  <2>3. q - 1 \in Nat /\ s - Window = (q - 1) * Window
    BY <1>1, <2>1, <2>2
  <2> QED
    BY <2>3 DEF IsStart
<1>7. s - Window \in Nat /\ s - Window <= MaxClock /\ s <= MaxClock /\ s - Window # s
  BY <1>1, <1>3, <1>5
<1> QED
  BY <1>2, <1>3, <1>5, <1>6, <1>7, StartsAreWindows

(* The heart of it: what countersForWindow makes of a record that is still  *)
(* the stored one (or of no record, when the stored one has expired) is the *)
(* history of the window and of the one before.                             *)
Stands(existing, now) ==
    IF existing = NoRecord THEN item # NoRecord => item.expiresAt <= now
    ELSE /\ item # NoRecord /\ existing.expiresAt > now
         /\ existing.expiresAt = existing.windowStart + 2 * Window
         /\ existing.windowStart = item.windowStart
         /\ existing.previousCount = item.previousCount
         /\ existing.currentCount = item.currentCount

LEMMA CountersTrue ==
    ASSUME RateTyped, ItemTrue, NothingStored, NEW existing, NEW now \in Window..clock,
           WindowStart(now) = WindowStart(clock), Stands(existing, now)
    PROVE  LET c == CountersForWindow(existing, now) IN
           /\ c.currentCount = accepted[WindowStart(now)]
           /\ c.previousCount = accepted[WindowStart(now) - Window]
<1>1. Window \in Nat /\ Window > 0 /\ clock \in Nat /\ now \in Nat /\ now \in Window..MaxClock
  BY RateLimitAssumption DEF RateTyped
<1>2. PICK s : s = WindowStart(now)
  OBVIOUS
<1>3. /\ s \in Nat /\ Window <= s /\ s <= now /\ now < s + Window /\ IsStart(s)
      /\ s \in Windows /\ s - Window \in Windows /\ s - Window \in Nat
  BY <1>1, <1>2, TwoWindows
<1>4. CASE existing = NoRecord
  <2>1. accepted[s] = 0 /\ accepted[s - Window] = 0
    <3>1. CASE item = NoRecord
      <4>1. s + Window >= s /\ (s - Window) + Window >= s
        BY <1>1, <1>3
      <4> QED
        BY <1>2, <1>3, <3>1, <4>1 DEF NothingStored
    <3>2. CASE item # NoRecord
      <4>1. /\ item.windowStart \in Nat /\ item.expiresAt = item.windowStart + 2 * Window
            /\ item.expiresAt <= now
        BY <1>4, <3>2 DEF ItemTrue, Record, Stands
      <4>2. s > item.windowStart /\ s - Window > item.windowStart
        BY <1>1, <1>3, <4>1
      <4> QED
        BY <1>3, <3>2, <4>2 DEF ItemTrue
    <3> QED
      BY <3>1, <3>2
  <2> QED
    BY <1>2, <1>4, <2>1 DEF CountersForWindow
<1>5. CASE existing # NoRecord
  <2>1. PICK start : start = item.windowStart
    OBVIOUS
  <2>2. /\ start \in Nat /\ IsStart(start) /\ start <= s
        /\ existing.windowStart = start /\ existing.expiresAt = start + 2 * Window
        /\ existing.expiresAt > now
        /\ existing.currentCount = accepted[start] /\ existing.previousCount = accepted[start - Window]
        /\ \A x \in Windows : x > start => accepted[x] = 0
    BY <1>2, <1>5, <2>1 DEF ItemTrue, Stands, Record
  <2>3. ~(existing.expiresAt <= now)
    BY <1>1, <2>2
  <2>4. CASE start = s
    BY <1>2, <1>5, <2>2, <2>3, <2>4 DEF CountersForWindow
  <2>5. CASE start < s
    <3>1. start + Window <= s
      BY <1>3, <2>2, <2>5, StartsApart
    <3>2. IsStart(start + Window)
      <4>1. PICK q \in Nat : start = q * Window
        BY <2>2 DEF IsStart
      <4>2. q + 1 \in Nat /\ start + Window = (q + 1) * Window
        BY <1>1, <4>1
      <4> QED
        BY <4>2 DEF IsStart
    <3>3. ~(start + Window < s)
      <4>1. start + Window < s => start + Window + Window <= s
        BY <1>3, <3>2, StartsApart
      <4> QED
        BY <1>1, <1>3, <2>2, <4>1
    <3>4. start + Window = s /\ s - Window = start
      BY <1>1, <1>3, <2>2, <3>1, <3>3
    <3>5. accepted[s] = 0
      BY <1>3, <2>2, <2>5
    <3> QED
      BY <1>2, <1>5, <2>2, <2>3, <2>5, <3>4, <3>5 DEF CountersForWindow
  <2> QED
    BY <1>3, <2>2, <2>4, <2>5
<1> QED
  BY <1>4, <1>5


(* A request counted on such a record keeps the record true to the history  *)
(* and the history within the limit.                                        *)
LEMMA CountTrue ==
    ASSUME RateTyped, ItemTrue, NothingStored, NEW existing, NEW now \in Window..clock,
           WindowStart(now) = WindowStart(clock), Stands(existing, now), WithinLimit(existing, now),
           Count(existing, now), UNCHANGED clock
    PROVE  /\ accepted' \in [Windows -> Nat] /\ hitAt' \in Window..clock'
           /\ ItemTrue' /\ NothingStored' /\ WeightedCap'
<1>1. /\ Window \in Nat /\ Window > 0 /\ MaxRequests \in Nat /\ clock \in Nat
      /\ now \in Nat /\ now \in Window..MaxClock /\ accepted \in [Windows -> Nat]
  BY RateLimitAssumption DEF RateTyped
<1>2. PICK s : s = WindowStart(now)
  OBVIOUS
<1>3. /\ s \in Nat /\ Window <= s /\ s <= now /\ now < s + Window /\ IsStart(s)
      /\ s \in Windows /\ s - Window \in Windows /\ s - Window # s /\ s - Window \in Nat
  BY <1>1, <1>2, TwoWindows
<1>4. PICK current \in Nat, previous \in Nat : current = accepted[s] /\ previous = accepted[s - Window]
  BY <1>1, <1>3
<1>5. /\ CountersForWindow(existing, now).currentCount = current
      /\ CountersForWindow(existing, now).previousCount = previous
  BY <1>2, <1>4, CountersTrue
<1>6. accepted' = [accepted EXCEPT ![s] = current + 1] /\ hitAt' = now
  BY <1>2, <1>4 DEF Count
<1>7. /\ accepted' \in [Windows -> Nat] /\ hitAt' \in Window..clock'
      /\ accepted'[s] = current + 1 /\ accepted'[s - Window] = previous
      /\ \A x \in Windows \ {s} : accepted'[x] = accepted[x]
  BY <1>1, <1>3, <1>4, <1>6
<1>8. item' = [windowStart |-> s, previousCount |-> previous, currentCount |-> current + 1,
               expiresAt |-> s + 2 * Window]
  BY <1>2, <1>5 DEF Count, NextRecord
<1>9. item' \in Record /\ item' # NoRecord
  BY <1>1, <1>3, <1>4, <1>8, NoRecordAssumption DEF Record
<1>10. \A x \in Windows : x > s => accepted'[x] = 0
  <2> SUFFICES ASSUME NEW x \in Windows, x > s PROVE accepted[x] = 0
    BY <1>3, <1>7
  <2>1. x \in Nat /\ x + Window >= s
    BY <1>1, <1>3 DEF Windows
  <2>2. CASE item = NoRecord
    BY <1>2, <2>1, <2>2 DEF NothingStored
  <2>3. CASE item # NoRecord
    <3>1. item.windowStart \in Nat /\ item.windowStart <= s
      BY <1>2, <2>3 DEF ItemTrue, Record
    <3>2. x > item.windowStart
      BY <1>3, <2>1, <3>1
    <3> QED
      BY <2>3, <3>2 DEF ItemTrue
  <2> QED
    BY <2>2, <2>3
<1>11. ItemTrue'
  <2>1. WindowStart(clock)' = s
    BY <1>2 DEF WindowStart
  <2>2. /\ item'.windowStart = s /\ item'.expiresAt = s + 2 * Window
        /\ item'.currentCount = accepted'[s] /\ item'.previousCount = accepted'[s - Window]
    BY <1>7, <1>8
  <2>3. s \in Window..s
    BY <1>1, <1>3
  <2> QED
    BY <1>3, <1>9, <1>10, <2>1, <2>2, <2>3 DEF ItemTrue
<1>12. NothingStored'
  BY <1>9 DEF NothingStored
<1>13. WeightedCap'
  <2>1. PICK rest \in Nat : rest = Remaining(now)
    <3>1. Window - (now - s) \in Nat
      BY <1>1, <1>3
    <3> QED
      BY <1>2, <3>1 DEF Remaining
  <2>2. current * Window + previous * rest < MaxRequests * Window
    BY <1>5, <2>1 DEF WithinLimit
  <2>3. /\ (current + 1) * Window = current * Window + Window
        /\ (MaxRequests + 1) * Window = MaxRequests * Window + Window
    BY <1>1
  <2>4. /\ current * Window \in Nat /\ previous * rest \in Nat /\ MaxRequests * Window \in Nat
    BY <1>1, <2>1
  <2>5. (current + 1) * Window + previous * rest < (MaxRequests + 1) * Window
    BY <1>1, <2>2, <2>3, <2>4
  <2>6. WindowStart(hitAt)' = s /\ Remaining(hitAt)' = rest
    BY <1>2, <1>6, <2>1 DEF WindowStart, Remaining
  <2> QED
    BY <1>7, <2>5, <2>6 DEF WeightedCap
<1> QED
  BY <1>7, <1>11, <1>12, <1>13

-----------------------------------------------------------------------------

(* What a read returns stands at the time that the read was made for. *)
LEMMA PrunedStands ==
    ASSUME ItemTrue, NEW now \in Nat
    PROVE  /\ Stands(Pruned(now), now)
           /\ Pruned(now) # NoRecord =>
                /\ Pruned(now) \in Record
                /\ Pruned(now).expiresAt = Pruned(now).windowStart + 2 * Window
                /\ Pruned(now).expiresAt > now
<1>1. CASE item = NoRecord
  BY <1>1 DEF Pruned, Stands
<1>2. CASE item # NoRecord /\ item.expiresAt <= now
  BY <1>2 DEF Pruned, Stands
<1>3. CASE item # NoRecord /\ ~(item.expiresAt <= now)
  <2>1. item \in Record /\ item.expiresAt = item.windowStart + 2 * Window
    BY <1>3 DEF ItemTrue
  <2>2. item.expiresAt > now
    BY <1>3, <2>1 DEF Record
  <2> QED
    BY <1>3, <2>1, <2>2 DEF Pruned, Stands
<1> QED
  BY <1>1, <1>2, <1>3

(* A call moves to a state that satisfies its invariant, and nothing else   *)
(* happens.                                                                 *)
LEMMA CallMoves ==
    ASSUME RateInductive, NEW w \in Worker, NEW to, hit' = [hit EXCEPT ![w] = to],
           UNCHANGED <<backend, clock, item, accepted, hitAt, straddled>>, HitOK(w)'
    PROVE  RateInductive'
<1>1. DOMAIN hit' = Worker /\ \A v \in Worker \ {w} : hit'[v] = hit[v]
  BY DEF RateInductive, RateTyped
<1>2. \A v \in Worker : HitOK(v)'
  BY <1>1 DEF RateInductive, HitOK
<1>3. RateTyped' /\ ItemTrue' /\ NothingStored' /\ WeightedCap'
  BY <1>1 DEF RateInductive, RateTyped, ItemTrue, NothingStored, WeightedCap
<1> QED
  BY <1>2, <1>3 DEF RateInductive

LEMMA IdleOK == ASSUME NEW w \in Worker, hit'[w] = Idle PROVE HitOK(w)'
  BY DEF HitOK, Hit, Idle

LEMMA DiskHitStep == RateInductive /\ DiskHit => RateInductive'
<1> SUFFICES ASSUME RateInductive, DiskHit PROVE RateInductive'
  OBVIOUS
<1>1. clock \in Nat /\ clock \in Window..clock
  BY RateLimitAssumption DEF RateInductive, RateTyped
<1>2. Stands(Pruned(clock), clock)
  BY <1>1, PrunedStands DEF RateInductive
<1>3. PICK existing : existing = Pruned(clock)
  OBVIOUS
<1>4. WithinLimit(existing, clock) /\ Count(existing, clock) /\ UNCHANGED <<clock, hit, straddled>>
  BY <1>3 DEF DiskHit
<1>5. PICK now : now = clock
  OBVIOUS
<1>6. /\ accepted' \in [Windows -> Nat] /\ hitAt' \in Window..clock'
      /\ ItemTrue' /\ NothingStored' /\ WeightedCap'
  BY <1>1, <1>2, <1>3, <1>4, <1>5, CountTrue DEF RateInductive
<1>7. \A w \in Worker : HitOK(w)'
  BY <1>4 DEF RateInductive, HitOK
<1> QED
  BY <1>4, <1>6, <1>7 DEF RateInductive, RateTyped

LEMMA PutRecordStep ==
    ASSUME RateInductive, NEW w \in Worker, PutRecord(w)
    PROVE  RateInductive'
<1>1. PICK existing, now : existing = hit[w].existing /\ now = hit[w].now
  OBVIOUS
<1>2. /\ hit[w].pc = "put" /\ PutCondition(existing, now) /\ Count(existing, now)
      /\ hit' = [hit EXCEPT ![w] = Idle] /\ UNCHANGED <<clock, straddled>>
  BY <1>1 DEF PutRecord
<1>3. /\ now \in Window..clock /\ WindowStart(now) = WindowStart(clock) /\ WithinLimit(existing, now)
      /\ existing # NoRecord => /\ existing \in Record
                                /\ existing.expiresAt = existing.windowStart + 2 * Window
                                /\ existing.expiresAt > now
  BY <1>1, <1>2 DEF RateInductive, HitOK, Hit
<1>4. Stands(existing, now)
  BY <1>2, <1>3 DEF PutCondition, Stands
<1>5. /\ accepted' \in [Windows -> Nat] /\ hitAt' \in Window..clock'
      /\ ItemTrue' /\ NothingStored' /\ WeightedCap'
  BY <1>2, <1>3, <1>4, CountTrue DEF RateInductive
<1>6. DOMAIN hit' = Worker /\ hit'[w] = Idle /\ \A v \in Worker \ {w} : hit'[v] = hit[v]
  BY <1>2 DEF RateInductive, RateTyped
<1>7. \A v \in Worker : HitOK(v)'
  BY <1>2, <1>6, IdleOK DEF RateInductive, HitOK
<1> QED
  BY <1>2, <1>5, <1>6, <1>7 DEF RateInductive, RateTyped

LEMMA ReadRecordStep ==
    ASSUME RateInductive, NEW w \in Worker, ReadRecord(w)
    PROVE  RateInductive'
<1>1. PICK now : now = hit[w].now
  OBVIOUS
<1>2. PICK existing : existing = Pruned(now)
  OBVIOUS
<1>3. PICK old : old = hit[w]
  OBVIOUS
<1>4. /\ old.pc = "read" /\ UNCHANGED <<backend, clock, item, accepted, hitAt, straddled>>
      /\ hit' = [hit EXCEPT ![w] = IF WithinLimit(existing, now)
                                   THEN [old EXCEPT !.pc = "put", !.existing = existing] ELSE Idle]
  BY <1>1, <1>2, <1>3 DEF ReadRecord
<1>5. now \in Window..clock /\ WindowStart(now) = WindowStart(clock) /\ now \in Nat
  BY <1>1, <1>3, <1>4, RateLimitAssumption DEF RateInductive, HitOK, RateTyped
<1>6. DOMAIN hit = Worker
  BY DEF RateInductive, RateTyped
<1>7. CASE ~WithinLimit(existing, now)
  BY <1>4, <1>6, <1>7, IdleOK, CallMoves
<1>8. CASE WithinLimit(existing, now)
  <2>1. PICK new : new = [old EXCEPT !.pc = "put", !.existing = existing]
    OBVIOUS
  <2>2. hit' = [hit EXCEPT ![w] = new] /\ hit'[w] = new
    BY <1>4, <1>6, <1>8, <2>1
  <2>3. old \in Hit /\ existing \in Record \cup {NoRecord}
    BY <1>2, <1>3, <1>5, PrunedStands DEF RateInductive, HitOK
  <2>4. new \in Hit /\ new.pc = "put" /\ new.now = now /\ new.existing = existing
    BY <1>1, <1>3, <2>1, <2>3 DEF Hit
  <2>5. existing # NoRecord => /\ existing.expiresAt = existing.windowStart + 2 * Window
                               /\ existing.expiresAt > now
    BY <1>2, <1>5, PrunedStands DEF RateInductive
  <2>6. HitOK(w)'
    BY <1>4, <1>5, <1>8, <2>2, <2>4, <2>5 DEF HitOK
  <2> QED
    BY <1>4, <2>2, <2>6, CallMoves
<1> QED
  BY <1>7, <1>8

(* StartHit, and the repetition after a conflict. *)
LEMMA StartsOK ==
    ASSUME RateInductive, NEW w \in Worker, NEW n \in Nat,
           hit'[w] = [pc |-> "read", now |-> clock, attempt |-> n, existing |-> NoRecord],
           UNCHANGED clock
    PROVE  HitOK(w)'
<1>1. clock \in Nat /\ clock \in Window..clock
  BY RateLimitAssumption DEF RateInductive, RateTyped
<1> QED
  BY <1>1 DEF HitOK, Hit

LEMMA CallStep ==
    ASSUME RateInductive, NEW w \in Worker, StartHit(w) \/ PutConflict(w) \/ CallFails(w)
    PROVE  RateInductive'
<1>1. DOMAIN hit = Worker /\ hit[w] \in Hit
  BY DEF RateInductive, RateTyped, HitOK
<1>2. CASE StartHit(w)
  BY <1>1, <1>2, StartsOK, CallMoves DEF StartHit
<1>3. CASE PutConflict(w) /\ hit[w].attempt < MaxAttempts
  <2>1. PICK n \in Nat : n = hit[w].attempt + 1
    BY <1>1 DEF Hit
  <2>2. PICK to : to = [pc |-> "read", now |-> clock, attempt |-> n, existing |-> NoRecord]
    OBVIOUS
  <2>3. hit' = [hit EXCEPT ![w] = to] /\ UNCHANGED <<backend, clock, item, accepted, hitAt, straddled>>
    BY <1>3, <2>1, <2>2 DEF PutConflict
  <2> QED
    BY <1>1, <2>2, <2>3, StartsOK, CallMoves
<1>4. CASE PutConflict(w) /\ ~(hit[w].attempt < MaxAttempts)
  BY <1>1, <1>4, IdleOK, CallMoves DEF PutConflict
<1>5. CASE CallFails(w)
  BY <1>1, <1>5, IdleOK, CallMoves DEF CallFails
<1> QED
  BY <1>2, <1>3, <1>4, <1>5

(* The record is removed only when neither of its windows counts. *)
LEMMA SweepStep == RateInductive /\ Sweep => RateInductive'
<1> SUFFICES ASSUME RateInductive, Sweep PROVE RateInductive'
  OBVIOUS
<1>1. /\ item # NoRecord /\ item.expiresAt <= clock /\ item' = NoRecord
      /\ UNCHANGED <<clock, hit, accepted, hitAt, straddled>>
  BY DEF Sweep
<1>2. /\ Window \in Nat /\ Window > 0 /\ clock \in Nat /\ clock \in Window..MaxClock
  BY RateLimitAssumption DEF RateInductive, RateTyped
<1>3. PICK start \in Nat : /\ start = item.windowStart /\ IsStart(start)
                           /\ start + 2 * Window <= clock
                           /\ \A s \in Windows : s > start => accepted[s] = 0
  BY <1>1 DEF RateInductive, ItemTrue, Record
<1>4. WindowStart(clock) \in Nat /\ clock < WindowStart(clock) + Window
  BY <1>2, WindowBounds
<1>5. ASSUME NEW s \in Windows, s + Window >= WindowStart(clock) PROVE accepted[s] = 0
  <2>1. s \in Nat
    BY DEF Windows
  <2>2. start + Window < WindowStart(clock)
    BY <1>2, <1>3, <1>4
  <2>3. s > start
    BY <1>2, <1>3, <1>4, <1>5, <2>1, <2>2
  <2> QED
    BY <1>3, <2>3
<1>6. NothingStored' /\ ItemTrue'
  BY <1>1, <1>5 DEF NothingStored, ItemTrue
<1>7. RateTyped' /\ WeightedCap' /\ \A w \in Worker : HitOK(w)'
  BY <1>1 DEF RateInductive, RateTyped, WeightedCap, HitOK
<1> QED
  BY <1>1, <1>6, <1>7 DEF RateInductive

LEMMA TickStep ==
    ASSUME RateInductive, Tick
    PROVE  straddled' \/ RateInductive'
<1> SUFFICES ASSUME ~straddled' PROVE RateInductive'
  OBVIOUS
<1>1. /\ clock < MaxClock /\ clock' = clock + 1 /\ UNCHANGED <<item, hit, accepted, hitAt>>
      /\ \/ WindowStart(clock + 1) = WindowStart(clock)
         \/ \A w \in Worker : hit[w].pc = "idle"
  BY DEF Tick
<1>2. /\ Window \in Nat /\ Window > 0 /\ clock \in Nat /\ clock + 1 \in Window..MaxClock
      /\ clock + 1 \in Nat /\ MaxClock \in Nat
  BY <1>1, RateLimitAssumption DEF RateInductive, RateTyped
<1>3. PICK next : next = clock + 1
  OBVIOUS
<1>4. /\ WindowStart(clock) \in Nat /\ WindowStart(next) \in Nat
      /\ WindowStart(clock) <= WindowStart(next)
  <2>1. IsStart(WindowStart(clock)) /\ WindowStart(clock) <= next /\ WindowStart(clock) \in Nat
    BY <1>2, <1>3, WindowBounds
  <2> QED
    BY <1>2, <1>3, <2>1, WindowBounds, StartsBefore
<1>5. RateTyped'
  BY <1>1, <1>2 DEF RateInductive, RateTyped
<1>6. WindowStart(clock)' = WindowStart(next)
  BY <1>1, <1>3 DEF WindowStart
<1>7. ItemTrue'
  BY <1>1, <1>4, <1>6 DEF RateInductive, ItemTrue
<1>8. NothingStored'
  <2> SUFFICES ASSUME item = NoRecord, NEW s \in Windows, s + Window >= WindowStart(next)
               PROVE  accepted[s] = 0
    BY <1>1, <1>6 DEF NothingStored
  <2>1. s \in Nat
    BY DEF Windows
  <2>2. s + Window >= WindowStart(clock)
    BY <1>2, <1>4, <2>1
  <2> QED
    BY <2>2 DEF RateInductive, NothingStored
<1>9. WeightedCap'
  BY <1>1 DEF RateInductive, WeightedCap
<1>10. ASSUME NEW w \in Worker PROVE HitOK(w)'
  <2>1. HitOK(w)
    BY DEF RateInductive
  <2>2. CASE hit[w].pc = "idle"
    BY <1>1, <2>1, <2>2 DEF HitOK
  <2>3. CASE hit[w].pc # "idle"
    <3>1. WindowStart(next) = WindowStart(clock)
      BY <1>1, <1>3, <2>3
    <3>2. hit[w].now \in Window..next
      BY <1>2, <1>3, <2>1, <2>3 DEF HitOK
    <3> QED
      BY <1>1, <1>3, <1>6, <2>1, <2>3, <3>1, <3>2 DEF HitOK
  <2> QED
    BY <2>2, <2>3
<1> QED
  BY <1>5, <1>7, <1>8, <1>9, <1>10 DEF RateInductive

LEMMA RateStart == RateInit => RateInductive
<1> SUFFICES ASSUME RateInit PROVE RateInductive
  OBVIOUS
<1>1. /\ Window \in Nat /\ Window > 0 /\ MaxRequests \in Nat /\ MaxRequests > 0
      /\ Window \in Window..MaxClock /\ clock = Window /\ hitAt = Window
      /\ item = NoRecord /\ accepted = [s \in Windows |-> 0]
  BY RateLimitAssumption DEF RateInit
<1>2. RateTyped /\ ItemTrue /\ NothingStored
  BY <1>1 DEF RateTyped, ItemTrue, NothingStored, RateInit
<1>3. \A w \in Worker : HitOK(w)
  BY DEF RateInit, HitOK, Hit, Idle
<1>4. WeightedCap
  <2>1. PICK s : s = WindowStart(hitAt)
    OBVIOUS
  <2>2. s \in Nat /\ s \in Windows /\ s - Window \in Windows /\ s <= Window /\ Window < s + Window
    BY <1>1, <2>1, TwoWindows
  <2>3. accepted[s] = 0 /\ accepted[s - Window] = 0
    BY <1>1, <2>2
  <2>4. Remaining(hitAt) \in Nat
    BY <1>1, <2>1, <2>2 DEF Remaining
  <2>5. 0 * Window + 0 * Remaining(hitAt) = 0
    BY <1>1, <2>4
  <2>6. (MaxRequests + 1) * Window > 0
    <3>1. (MaxRequests + 1) * Window = MaxRequests * Window + Window /\ MaxRequests * Window \in Nat
      BY <1>1
    <3> QED
      BY <1>1, <3>1
  <2> QED
    BY <2>1, <2>3, <2>5, <2>6 DEF WeightedCap
<1> QED
  BY <1>2, <1>3, <1>4 DEF RateInductive, RateInit

LEMMA RateStep ==
    ASSUME straddled \/ RateInductive, [RateNext]_rateVars
    PROVE  straddled' \/ RateInductive'
<1> SUFFICES ASSUME ~straddled' PROVE RateInductive'
  OBVIOUS
<1>2. RateInductive
  BY DEF RateNext, rateVars, DiskHit, StartHit, ReadRecord, PutRecord, PutConflict, CallFails, Sweep, Tick
<1>1. CASE UNCHANGED rateVars
  BY <1>1, <1>2 DEF rateVars, RateInductive, RateTyped, ItemTrue, NothingStored, HitOK, WeightedCap
<1> QED
  BY <1>1, <1>2, DiskHitStep, ReadRecordStep, PutRecordStep, CallStep, SweepStep, TickStep DEF RateNext

(* For any window length, limit and number of processes: as long as no call *)
(* is under way when a window begins, the requests counted in a window and  *)
(* what is left of the window before stay under maxRequests + 1, whatever   *)
(* conflicts, failures and removals by the table come between.              *)
THEOREM SlidingLimitHolds == RateSpec => []WeightedCap
<1>1. straddled \/ RateInductive => WeightedCap
  BY DEF RateInductive, WeightedCap
<1>2. (straddled \/ RateInductive) /\ [RateNext]_rateVars => (straddled \/ RateInductive)'
  BY RateStep
<1> QED
  BY <1>1, <1>2, RateStart, PTL DEF RateSpec

(* Under the same condition no counted request is ever forgotten: the       *)
(* counters that the algorithm makes of the stored record are the history.  *)
THEOREM NoRequestForgotten == RateSpec => []CountersMatchHistory
<1>1. straddled \/ RateInductive => CountersMatchHistory
  <2> SUFFICES ASSUME RateInductive PROVE CountersMatchHistory
    BY DEF CountersMatchHistory
  <2>1. clock \in Nat /\ clock \in Window..clock
    BY RateLimitAssumption DEF RateInductive, RateTyped
  <2>2. CASE item # NoRecord /\ item.expiresAt <= clock
    <3>1. Stands(NoRecord, clock)
      BY <2>2 DEF Stands
    <3>2. CountersForWindow(item, clock) = CountersForWindow(NoRecord, clock)
      BY <2>2 DEF CountersForWindow
    <3> QED
      BY <2>1, <3>1, <3>2, CountersTrue DEF RateInductive, CountersMatchHistory
  <2>3. CASE ~(item # NoRecord /\ item.expiresAt <= clock)
    <3>1. Pruned(clock) = item
      BY <2>3 DEF Pruned
    <3>2. Stands(item, clock)
      BY <2>1, <3>1, PrunedStands DEF RateInductive
    <3> QED
      BY <2>1, <3>2, CountersTrue DEF RateInductive, CountersMatchHistory
  <2> QED
    BY <2>2, <2>3
<1>2. (straddled \/ RateInductive) /\ [RateNext]_rateVars => (straddled \/ RateInductive)'
  BY RateStep
<1> QED
  BY <1>1, <1>2, RateStart, PTL DEF RateSpec

(* A request is counted in the window of its own time, and what the sliding *)
(* limit leaves to that window is at most maxRequests.                      *)
LEMMA CapStep ==
    ASSUME straddled \/ RateInductive, straddled' \/ RateInductive', WindowCap, [RateNext]_rateVars
    PROVE  WindowCap'
<1> SUFFICES ASSUME ~straddled' PROVE WindowCap'
  BY DEF WindowCap
<1>3. ~straddled /\ RateInductive /\ RateInductive'
  <2>1. ~straddled
    BY DEF RateNext, rateVars, DiskHit, StartHit, ReadRecord, PutRecord, PutConflict, CallFails, Sweep, Tick
  <2> QED
    BY <2>1
<1>1. CASE UNCHANGED accepted
  BY <1>1, <1>3 DEF WindowCap
<1>2. ASSUME NEW existing, NEW now, Count(existing, now) PROVE WindowCap'
  <2>1. PICK s : s = WindowStart(now)
    OBVIOUS
  <2>2. now \in Window..MaxClock /\ hitAt' = now /\ accepted' \in [Windows -> Nat]
    BY <1>2, <1>3, RateLimitAssumption DEF Count, RateInductive, RateTyped
  <2>3. s \in Windows /\ s - Window \in Windows /\ s \in Nat /\ s <= now /\ now < s + Window
    BY <2>1, <2>2, TwoWindows
  <2>4. PICK current \in Nat, previous \in Nat : current = accepted'[s] /\ previous = accepted'[s - Window]
    BY <2>2, <2>3
  <2>5. /\ Window \in Nat /\ Window > 0 /\ MaxRequests \in Nat /\ now \in Nat
    BY <2>2, RateLimitAssumption
  <2>6. PICK rest \in Nat : rest = Remaining(now)
    <3>1. Window - (now - s) \in Nat
      BY <2>3, <2>5
    <3> QED
      BY <2>1, <3>1 DEF Remaining
  <2>7. current * Window + previous * rest < (MaxRequests + 1) * Window
    <3>1. WindowStart(hitAt)' = s /\ Remaining(hitAt)' = rest
      BY <2>1, <2>2, <2>6 DEF WindowStart, Remaining
    <3> QED
      BY <1>3, <2>4, <3>1 DEF RateInductive, WeightedCap
  <2>8. current <= MaxRequests
    <3>1. CASE current >= MaxRequests + 1
      <4>1. PICK d \in Nat : current = MaxRequests + 1 + d
        <5>1. current - (MaxRequests + 1) \in Nat
          BY <2>5, <3>1
        <5> QED
          BY <2>5, <5>1
      <4>2. /\ current * Window = (MaxRequests + 1) * Window + d * Window
            /\ d * Window \in Nat /\ previous * rest \in Nat /\ (MaxRequests + 1) * Window \in Nat
        BY <2>5, <4>1
      <4> QED
        BY <2>7, <4>2
    <3> QED
      BY <2>5, <3>1
  <2>9. \A x \in Windows \ {s} : accepted'[x] = accepted[x]
    BY <1>2, <1>3, <2>1 DEF Count, RateInductive, RateTyped
  <2> QED
    BY <1>3, <2>4, <2>8, <2>9 DEF WindowCap
<1> QED
  BY <1>1, <1>2 DEF RateNext, rateVars, DiskHit, StartHit, ReadRecord, PutRecord, PutConflict, CallFails,
                    Sweep, Tick

(* And so the configured limit: under the same condition no window counts   *)
(* more than maxRequests requests.                                          *)
THEOREM LimitHolds == RateSpec => []WindowCap
<1>1. RateInit => WindowCap
  BY RateLimitAssumption DEF RateInit, WindowCap
<1>2. (straddled \/ RateInductive) /\ [RateNext]_rateVars => (straddled \/ RateInductive)'
  BY RateStep
<1>3. /\ straddled \/ RateInductive
      /\ (straddled \/ RateInductive)'
      /\ WindowCap /\ [RateNext]_rateVars
      => WindowCap'
  BY CapStep
<1> QED
  BY <1>1, <1>2, <1>3, RateStart, PTL DEF RateSpec

-----------------------------------------------------------------------------
(* RateLimit when calls may straddle the beginning of a window.             *)

(* The calls that no longer hold a time before s: only the others can still *)
(* write a record of an older window over one of s.                         *)
OnTime(s) == {w \in Worker : hit[w].pc = "idle" \/ s <= hit[w].now}

(* The calls that no longer hold a time of window p. *)
Gone(p) == {w \in Worker : hit[w].pc = "idle" \/ WindowStart(hit[w].now) # p}

(* How often the counter of s may have been started. *)
Starts(s) == IF backend = "disk" THEN 1 ELSE Cardinality(OnTime(s))

MostStarts == IF backend = "disk" THEN 1 ELSE Cardinality(Worker)

(* The requests that calls may have added to p after its end. *)
Strays(p) == IF backend = "disk" THEN 0 ELSE Cardinality(Gone(p))

(* What the stored record has of window s. *)
Stored(s) == IF item # NoRecord /\ item.windowStart = s THEN item.currentCount ELSE 0

ItemSound ==
    item # NoRecord => /\ item \in Record
                       /\ item.windowStart <= clock
                       /\ item.expiresAt = item.windowStart + 2 * Window

(* The window under way has its stored count and one full limit for every   *)
(* start of the counter but the last.                                       *)
CurrentBound ==
    LET s == WindowStart(clock) IN
    /\ Stored(s) <= MaxRequests
    /\ accepted[s] = 0 \/ accepted[s] + MaxRequests <= MaxRequests * Starts(s) + Stored(s)

PastBound ==
    \A p \in Windows : p < WindowStart(clock) => accepted[p] <= MaxRequests * MostStarts + Strays(p)

FutureEmpty == \A p \in Windows : p > WindowStart(clock) => accepted[p] = 0

(* As HitOK, except that the time may lie in an earlier window. *)
LateHitOK(w) ==
    /\ hit[w] \in Hit
    /\ hit[w].pc # "idle" => hit[w].now \in Window..clock /\ backend # "disk"
    /\ hit[w].pc = "put" =>
         /\ WithinLimit(hit[w].existing, hit[w].now)
         /\ hit[w].existing # NoRecord =>
              /\ hit[w].existing.expiresAt = hit[w].existing.windowStart + 2 * Window
              /\ hit[w].existing.expiresAt > hit[w].now

StraddleInductive ==
    /\ RateTyped /\ ItemSound /\ CurrentBound /\ PastBound /\ FutureEmpty
    /\ \A w \in Worker : LateHitOK(w)

-----------------------------------------------------------------------------

LEMMA TimesMore ==
    ASSUME NEW m \in Nat, NEW a \in Nat, NEW b \in Nat, a <= b
    PROVE  m * a \in Nat /\ m * b \in Nat /\ m * a <= m * b /\ (a < b => m * a + m <= m * b)
<1>1. PICK d \in Nat : b = a + d
  BY b - a \in Nat, b = a + (b - a)
<1>2. m * b = m * a + m * d /\ m * a \in Nat /\ m * d \in Nat
  BY <1>1
<1>3. ASSUME a < b PROVE m * a + m <= m * b
  <2>1. PICK e \in Nat : d = e + 1
    BY <1>1, <1>3, d - 1 \in Nat, d = (d - 1) + 1
  <2>2. m * d = m * e + m /\ m * e \in Nat
    BY <2>1
  <2> QED
    BY <1>2, <2>2
<1> QED
  BY <1>2, <1>3

(* A set of calls that grows counts more. *)
LEMMA Grows ==
    ASSUME IsFiniteSet(Worker), NEW A, NEW B, A \subseteq B, B \subseteq Worker
    PROVE  /\ Cardinality(A) \in Nat /\ Cardinality(B) \in Nat
           /\ Cardinality(A) <= Cardinality(B) /\ Cardinality(B) <= Cardinality(Worker)
           /\ (A # B => Cardinality(A) < Cardinality(B))
<1>1. IsFiniteSet(B) /\ Cardinality(B) <= Cardinality(Worker)
  BY FS_Subset
<1>2. /\ IsFiniteSet(A) /\ Cardinality(A) <= Cardinality(B)
      /\ (Cardinality(A) = Cardinality(B) => A = B)
  BY <1>1, FS_Subset
<1>3. Cardinality(A) \in Nat /\ Cardinality(B) \in Nat
  BY <1>1, <1>2, FS_CardinalityType
<1> QED
  BY <1>1, <1>2, <1>3

LEMMA StartsBounded ==
    ASSUME IsFiniteSet(Worker), NEW s
    PROVE  /\ Starts(s) \in Nat /\ Starts(s) <= MostStarts /\ MostStarts \in Nat /\ Strays(s) \in Nat
           /\ Cardinality(Worker) \in Nat /\ (backend # "disk" => Strays(s) <= Cardinality(Worker))
<1>1. OnTime(s) \subseteq Worker /\ Gone(s) \subseteq Worker
  BY DEF OnTime, Gone
<1>2. /\ Cardinality(OnTime(s)) \in Nat /\ Cardinality(OnTime(s)) <= Cardinality(Worker)
      /\ Cardinality(Worker) \in Nat
  BY <1>1, Grows
<1>3. Cardinality(Gone(s)) \in Nat /\ Cardinality(Gone(s)) <= Cardinality(Worker)
  BY <1>1, Grows
<1> QED
  BY <1>2, <1>3 DEF Starts, MostStarts, Strays

(* A window that a time of the run lies in. *)
LEMMA ClockWindow ==
    ASSUME RateTyped
    PROVE  LET s == WindowStart(clock) IN
           /\ s \in Windows /\ s \in Nat /\ Window <= s /\ s <= clock /\ clock < s + Window /\ IsStart(s)
           /\ clock \in Nat /\ Window \in Nat /\ Window > 0 /\ MaxRequests \in Nat /\ MaxRequests > 0
           /\ accepted[s] \in Nat /\ accepted \in [Windows -> Nat]
<1>1. clock \in Window..MaxClock /\ accepted \in [Windows -> Nat]
  BY DEF RateTyped
<1>2. /\ clock \in Nat /\ Window \in Nat /\ Window > 0 /\ MaxRequests \in Nat /\ MaxRequests > 0
  BY <1>1, RateLimitAssumption
<1> QED
  BY <1>1, <1>2, TwoWindows

(* Within the limit means that the counter is below it. *)
LEMMA CounterBelow ==
    ASSUME NEW existing, existing # NoRecord => existing \in Record, NEW now \in Nat,
           WithinLimit(existing, now)
    PROVE  /\ CountersForWindow(existing, now).currentCount \in Nat
           /\ CountersForWindow(existing, now).previousCount \in Nat
           /\ CountersForWindow(existing, now).currentCount < MaxRequests
<1>1. /\ CountersForWindow(existing, now).currentCount \in Nat
      /\ CountersForWindow(existing, now).previousCount \in Nat
  BY DEF CountersForWindow, Record
<1>2. PICK current \in Nat, previous \in Nat :
        /\ current = CountersForWindow(existing, now).currentCount
        /\ previous = CountersForWindow(existing, now).previousCount
  BY <1>1
<1>3. Window \in Nat /\ Window > 0 /\ MaxRequests \in Nat
  BY RateLimitAssumption
<1>4. PICK rest \in Nat : rest = Remaining(now)
  <2>1. WindowStart(now) \in Nat /\ WindowStart(now) <= now /\ now < WindowStart(now) + Window
    BY WindowBounds
  <2>2. Window - (now - WindowStart(now)) \in Nat
    BY <1>3, <2>1
  <2> QED
    BY <2>2 DEF Remaining
<1>5. current * Window + previous * rest < MaxRequests * Window
  BY <1>2, <1>4 DEF WithinLimit
<1>6. ~(MaxRequests <= current)
  <2>1. SUFFICES ASSUME MaxRequests <= current PROVE FALSE
    OBVIOUS
  <2>2. Window * MaxRequests <= Window * current /\ Window * MaxRequests \in Nat
    BY <1>3, <2>1, TimesMore
  <2>3. /\ previous * rest \in Nat /\ Window * MaxRequests = MaxRequests * Window
        /\ Window * current = current * Window /\ current * Window \in Nat
    BY <1>3
  <2> QED
    BY <1>5, <2>2, <2>3
<1> QED
  BY <1>1, <1>2, <1>3, <1>6

(* The counter of the window under way is the stored one. *)
LEMMA CounterStored ==
    ASSUME RateTyped, ItemSound, NEW existing, NEW now \in Nat, NEW s \in Nat, s = WindowStart(now),
           Stands(existing, now)
    PROVE  CountersForWindow(existing, now).currentCount = Stored(s)
<1>1. Window \in Nat /\ Window > 0 /\ now < s + Window
  BY RateLimitAssumption, WindowBounds
<1>2. CASE existing = NoRecord
  <2>1. ~(item # NoRecord /\ item.windowStart = s)
    BY <1>1, <1>2 DEF Stands, ItemSound, Record
  <2> QED
    BY <1>2, <2>1 DEF CountersForWindow, Stored
<1>3. CASE existing # NoRecord
  <2>1. /\ item # NoRecord /\ existing.windowStart = item.windowStart
        /\ existing.currentCount = item.currentCount /\ item \in Record
        /\ existing.expiresAt > now /\ existing.expiresAt = existing.windowStart + 2 * Window
    BY <1>3 DEF Stands, ItemSound
  <2>2. ~(existing.expiresAt <= now)
    BY <1>1, <2>1 DEF Record
  <2> QED
    BY <1>3, <2>1, <2>2 DEF CountersForWindow, Stored
<1> QED
  BY <1>2, <1>3

(* What writing the record does, at a time of this or an earlier window. *)
LEMMA CountSound ==
    ASSUME RateTyped, NEW existing, existing # NoRecord => existing \in Record,
           NEW now \in Window..clock, NEW s, s = WindowStart(now),
           WithinLimit(existing, now), Count(existing, now), UNCHANGED clock
    PROVE  /\ s \in Windows /\ s \in Nat /\ s <= WindowStart(clock) /\ s <= now /\ now < s + Window
           /\ hitAt' \in Window..clock' /\ accepted' \in [Windows -> Nat]
           /\ accepted'[s] = accepted[s] + 1
           /\ \A p \in Windows \ {s} : accepted'[p] = accepted[p]
           /\ ItemSound'
           /\ item' # NoRecord /\ item'.windowStart = s
           /\ item'.currentCount = CountersForWindow(existing, now).currentCount + 1
           /\ item'.currentCount <= MaxRequests /\ item'.currentCount \in Nat
<1>1. /\ Window \in Nat /\ Window > 0 /\ MaxRequests \in Nat /\ clock \in Nat /\ now \in Nat
      /\ now \in Window..MaxClock /\ now <= clock /\ accepted \in [Windows -> Nat]
  BY RateLimitAssumption DEF RateTyped
<1>2. s \in Windows /\ s \in Nat /\ s <= now /\ now < s + Window /\ IsStart(s)
  BY <1>1, TwoWindows
<1>3. s <= WindowStart(clock)
  <2>1. s <= clock
    BY <1>1, <1>2
  <2> QED
    BY <1>1, <1>2, <2>1, StartsBefore
<1>4. PICK current \in Nat, previous \in Nat :
        /\ current = CountersForWindow(existing, now).currentCount
        /\ previous = CountersForWindow(existing, now).previousCount
        /\ current < MaxRequests
  BY <1>1, CounterBelow
<1>5. item' = [windowStart |-> s, previousCount |-> previous, currentCount |-> current + 1,
               expiresAt |-> s + 2 * Window]
  BY <1>4 DEF Count, NextRecord
<1>6. item' \in Record /\ item' # NoRecord
  BY <1>1, <1>2, <1>4, <1>5, NoRecordAssumption DEF Record
<1>7. ItemSound'
  <2>1. item'.windowStart <= clock' /\ item'.expiresAt = item'.windowStart + 2 * Window
    BY <1>1, <1>2, <1>5
  <2> QED
    BY <1>6, <2>1 DEF ItemSound
<1>8. /\ accepted' \in [Windows -> Nat] /\ accepted'[s] = accepted[s] + 1
      /\ \A p \in Windows \ {s} : accepted'[p] = accepted[p]
  <2>1. accepted' = [accepted EXCEPT ![s] = accepted[s] + 1] /\ accepted[s] \in Nat
    BY <1>1, <1>2 DEF Count
  <2> QED
    BY <1>1, <1>2, <2>1
<1>9. hitAt' \in Window..clock'
  BY DEF Count
<1>10. /\ item'.windowStart = s /\ item'.currentCount = current + 1
       /\ item'.currentCount <= MaxRequests /\ item'.currentCount \in Nat
  BY <1>1, <1>4, <1>5
<1> QED
  BY <1>2, <1>3, <1>4, <1>6, <1>7, <1>8, <1>9, <1>10

(* A request counted in the window under way adds one to both sides. *)
LEMMA CountOnTime ==
    ASSUME IsFiniteSet(Worker), StraddleInductive, NEW existing, existing # NoRecord => existing \in Record,
           NEW now \in Window..clock, WindowStart(now) = WindowStart(clock), Stands(existing, now),
           WithinLimit(existing, now), Count(existing, now), UNCHANGED <<backend, clock>>,
           Starts(WindowStart(clock)) > 0,
           NEW more \in Nat, Starts(WindowStart(clock)) <= more, Starts(WindowStart(clock))' = more,
           \A p \in Windows : p < WindowStart(clock) => Strays(p)' \in Nat /\ Strays(p) <= Strays(p)'
    PROVE  ItemSound' /\ CurrentBound' /\ PastBound' /\ FutureEmpty'
<1>1. PICK s : s = WindowStart(now)
  OBVIOUS
<1>2. /\ s \in Windows /\ s \in Nat /\ accepted' \in [Windows -> Nat]
      /\ accepted'[s] = accepted[s] + 1 /\ \A p \in Windows \ {s} : accepted'[p] = accepted[p]
      /\ ItemSound' /\ item' # NoRecord /\ item'.windowStart = s
      /\ item'.currentCount = CountersForWindow(existing, now).currentCount + 1
      /\ item'.currentCount <= MaxRequests /\ item'.currentCount \in Nat
  BY <1>1, CountSound DEF StraddleInductive
<1>3. /\ accepted[s] \in Nat /\ MaxRequests \in Nat /\ now \in Nat /\ clock \in Nat
  BY <1>1, RateLimitAssumption, ClockWindow DEF StraddleInductive
<1>4. PICK stored \in Nat : stored = Stored(s) /\ item'.currentCount = stored + 1
  <2>1. CountersForWindow(existing, now).currentCount = Stored(s)
    BY <1>1, <1>2, <1>3, CounterStored DEF StraddleInductive
  <2>2. Stored(s) \in Nat
    BY DEF Stored, StraddleInductive, ItemSound, Record
  <2> QED
    BY <1>2, <2>1, <2>2
<1>5. WindowStart(clock)' = s /\ Stored(s)' = stored + 1
  BY <1>1, <1>2, <1>4 DEF WindowStart, Stored
<1>6. PICK turns \in Nat : turns = Starts(s) /\ turns > 0 /\ turns <= more
  BY <1>1, StartsBounded
<1>7. accepted[s] = 0 \/ accepted[s] + MaxRequests <= MaxRequests * turns + stored
  BY <1>1, <1>4, <1>6 DEF StraddleInductive, CurrentBound
<1>8. /\ MaxRequests * turns <= MaxRequests * more /\ MaxRequests <= MaxRequests * turns
      /\ MaxRequests * turns \in Nat /\ MaxRequests * more \in Nat
  <2>1. MaxRequests * turns <= MaxRequests * more /\ MaxRequests * turns \in Nat /\ MaxRequests * more \in Nat
    BY <1>3, <1>6, TimesMore
  <2>2. MaxRequests * 1 <= MaxRequests * turns
    BY <1>3, <1>6, TimesMore
  <2> QED
    BY <1>3, <2>1, <2>2
<1>9. accepted'[s] + MaxRequests <= MaxRequests * more + (stored + 1)
  BY <1>2, <1>3, <1>7, <1>8
<1>10. Starts(s)' = more
  BY <1>1, <1>5 DEF Starts, OnTime
<1>11. CurrentBound'
  BY <1>2, <1>4, <1>5, <1>9, <1>10 DEF CurrentBound
<1>12. PastBound'
  <2> SUFFICES ASSUME NEW p \in Windows, p < s
               PROVE  accepted'[p] <= MaxRequests * MostStarts' + Strays(p)'
    BY <1>5 DEF PastBound
  <2>1. accepted'[p] = accepted[p] /\ accepted[p] \in Nat
    BY <1>2, <1>3 DEF StraddleInductive, RateTyped
  <2>2. accepted[p] <= MaxRequests * MostStarts + Strays(p)
    BY <1>1 DEF StraddleInductive, PastBound
  <2>3. MostStarts' = MostStarts
    BY DEF MostStarts
  <2>4. Strays(p) \in Nat /\ Strays(p)' \in Nat /\ Strays(p) <= Strays(p)' /\ MostStarts \in Nat
    BY <1>1, StartsBounded
  <2>5. MaxRequests * MostStarts \in Nat
    BY <1>3, <2>4
  <2> QED
    BY <2>1, <2>2, <2>3, <2>4, <2>5
<1>13. FutureEmpty'
  BY <1>1, <1>2, <1>5 DEF StraddleInductive, FutureEmpty
<1> QED
  BY <1>2, <1>11, <1>12, <1>13

LEMMA StraddleDiskHit ==
    ASSUME IsFiniteSet(Worker), StraddleInductive, DiskHit
    PROVE  StraddleInductive'
<1>1. PICK existing, now : existing = Pruned(clock) /\ now = clock
  OBVIOUS
<1>2. /\ backend = "disk" /\ WithinLimit(existing, now) /\ Count(existing, now)
      /\ UNCHANGED <<backend, clock, hit>>
  BY <1>1 DEF DiskHit
<1>3. /\ clock \in Nat /\ now \in Window..clock
  BY <1>1, ClockWindow DEF StraddleInductive, RateTyped
<1>4. Stands(existing, now) /\ (existing # NoRecord => existing \in Record)
  <2>1. CASE item # NoRecord /\ ~(item.expiresAt <= clock)
    <3>1. item \in Record /\ item.expiresAt = item.windowStart + 2 * Window
      BY <2>1 DEF StraddleInductive, ItemSound
    <3>2. item.expiresAt > clock
      BY <1>3, <2>1, <3>1 DEF Record
    <3> QED
      BY <1>1, <2>1, <3>1, <3>2 DEF Pruned, Stands
  <2>2. CASE ~(item # NoRecord /\ ~(item.expiresAt <= clock))
    BY <1>1, <2>2 DEF Pruned, Stands
  <2> QED
    BY <2>1, <2>2
<1>5. Starts(WindowStart(clock)) = 1 /\ Starts(WindowStart(clock))' = 1
  BY <1>2 DEF Starts
<1>6. \A p : Strays(p) = 0 /\ Strays(p)' = 0
  BY <1>2 DEF Strays
<1>7. ItemSound' /\ CurrentBound' /\ PastBound' /\ FutureEmpty'
  BY <1>1, <1>2, <1>3, <1>4, <1>5, <1>6, CountOnTime
<1>8. RateTyped'
  <2>1. hitAt' \in Window..clock' /\ accepted' \in [Windows -> Nat]
    BY <1>2, <1>3, <1>4, CountSound DEF StraddleInductive
  <2> QED
    BY <1>2, <2>1 DEF StraddleInductive, RateTyped
<1>9. \A w \in Worker : LateHitOK(w)'
  BY <1>2 DEF StraddleInductive, LateHitOK
<1> QED
  BY <1>7, <1>8, <1>9 DEF StraddleInductive

(* A call that ends, or takes a new time, or keeps its time, only leaves    *)
(* the calls that are late.                                                 *)
LEMMA SetsGrow ==
    ASSUME IsFiniteSet(Worker), RateTyped, NEW w \in Worker, NEW to, hit' = [hit EXCEPT ![w] = to],
           \/ to.pc = "idle"
           \/ to.now = clock
           \/ hit[w].pc # "idle" /\ to.now = hit[w].now,
           UNCHANGED <<backend, clock>>
    PROVE  /\ OnTime(WindowStart(clock)) \subseteq OnTime(WindowStart(clock))'
           /\ Starts(WindowStart(clock))' \in Nat
           /\ Starts(WindowStart(clock)) <= Starts(WindowStart(clock))'
           /\ \A p \in Windows : p < WindowStart(clock) =>
                /\ Gone(p) \subseteq Gone(p)'
                /\ Strays(p)' \in Nat /\ Strays(p) <= Strays(p)'
<1>1. DOMAIN hit = Worker /\ hit'[w] = to /\ \A v \in Worker \ {w} : hit'[v] = hit[v]
  BY DEF RateTyped
<1>2. PICK s : s = WindowStart(clock)
  OBVIOUS
<1>3. s \in Nat /\ s <= clock /\ clock \in Nat /\ WindowStart(clock)' = s
  BY <1>2, ClockWindow DEF WindowStart
<1>4. OnTime(s) \subseteq OnTime(s)'
  BY <1>1, <1>3 DEF OnTime
<1>5. OnTime(s)' \subseteq Worker
  BY DEF OnTime
<1>6. Starts(s)' \in Nat /\ Starts(s) <= Starts(s)'
  <2>1. /\ Cardinality(OnTime(s)) \in Nat /\ Cardinality(OnTime(s)') \in Nat
        /\ Cardinality(OnTime(s)) <= Cardinality(OnTime(s)')
    BY <1>4, <1>5, Grows
  <2> QED
    BY <2>1 DEF Starts
<1>7. ASSUME NEW p \in Windows, p < s
      PROVE  Gone(p) \subseteq Gone(p)' /\ Strays(p)' \in Nat /\ Strays(p) <= Strays(p)'
  <2>1. p \in Nat /\ p # s
    BY <1>3, <1>7 DEF Windows
  <2>2. Gone(p) \subseteq Gone(p)' /\ Gone(p)' \subseteq Worker
    <3>1. \A v \in Gone(p) : v \in Gone(p)'
      <4> SUFFICES ASSUME NEW v \in Gone(p) PROVE v \in Gone(p)'
        OBVIOUS
      <4>1. CASE v # w
        BY <1>1, <4>1 DEF Gone, WindowStart
      <4>2. CASE v = w
        <5>1. to.now = clock => WindowStart(to.now) # p
          BY <1>2, <2>1
        <5> QED
          BY <1>1, <4>2, <5>1 DEF Gone, WindowStart
      <4> QED
        BY <4>1, <4>2
    <3> QED
      BY <3>1 DEF Gone
  <2>3. /\ Cardinality(Gone(p)) \in Nat /\ Cardinality(Gone(p)') \in Nat
        /\ Cardinality(Gone(p)) <= Cardinality(Gone(p)')
    BY <2>2, Grows
  <2> QED
    BY <2>2, <2>3 DEF Strays
<1>8. /\ OnTime(WindowStart(clock))' = OnTime(s)' /\ Starts(WindowStart(clock))' = Starts(s)'
  BY <1>3 DEF OnTime, Starts
<1> QED
  BY <1>2, <1>4, <1>6, <1>7, <1>8

(* The bounds of the past after a step that counts in none of its windows. *)
LEMMA PastKept ==
    ASSUME IsFiniteSet(Worker), StraddleInductive, UNCHANGED <<backend, clock>>,
           NEW p \in Windows, p < WindowStart(clock), NEW strays \in Nat, Strays(p) <= strays,
           accepted'[p] = accepted[p]
    PROVE  accepted'[p] <= MaxRequests * MostStarts' + strays
<1>1. accepted[p] \in Nat /\ accepted[p] <= MaxRequests * MostStarts + Strays(p)
  BY DEF StraddleInductive, PastBound, RateTyped
<1>2. MostStarts' = MostStarts /\ Strays(p) \in Nat /\ MostStarts \in Nat
  BY StartsBounded DEF MostStarts
<1>3. MaxRequests * MostStarts \in Nat
  BY <1>2, RateLimitAssumption
<1> QED
  BY <1>1, <1>2, <1>3

(* Such a call moves, and nothing is counted. *)
LEMMA LateCallMoves ==
    ASSUME IsFiniteSet(Worker), StraddleInductive, NEW w \in Worker, NEW to,
           hit' = [hit EXCEPT ![w] = to],
           \/ to.pc = "idle"
           \/ to.now = clock
           \/ hit[w].pc # "idle" /\ to.now = hit[w].now,
           UNCHANGED <<backend, clock, item, accepted, hitAt>>, LateHitOK(w)'
    PROVE  StraddleInductive'
<1>1. PICK s : s = WindowStart(clock)
  OBVIOUS
<1>2. /\ s \in Nat /\ accepted[s] \in Nat /\ MaxRequests \in Nat /\ WindowStart(clock)' = s
  BY <1>1, ClockWindow DEF StraddleInductive, WindowStart
<1>3. /\ Starts(s)' \in Nat /\ Starts(s) <= Starts(s)' /\ Starts(s) \in Nat
      /\ \A p \in Windows : p < s => Strays(p)' \in Nat /\ Strays(p) <= Strays(p)'
  <2>1. Starts(WindowStart(clock))' = Starts(s)'
    BY <1>2 DEF Starts, OnTime
  <2> QED
    BY <1>1, <2>1, SetsGrow, StartsBounded DEF StraddleInductive
<1>4. CurrentBound'
  <2>1. Stored(s)' = Stored(s) /\ Stored(s) \in Nat /\ Stored(s) <= MaxRequests
    BY <1>1 DEF Stored, StraddleInductive, CurrentBound, ItemSound, Record
  <2>2. accepted[s] = 0 \/ accepted[s] + MaxRequests <= MaxRequests * Starts(s) + Stored(s)
    BY <1>1 DEF StraddleInductive, CurrentBound
  <2>3. MaxRequests * Starts(s) <= MaxRequests * Starts(s)' /\ MaxRequests * Starts(s) \in Nat
        /\ MaxRequests * Starts(s)' \in Nat
    BY <1>2, <1>3, TimesMore
  <2>4. accepted[s] = 0 \/ accepted[s] + MaxRequests <= MaxRequests * Starts(s)' + Stored(s)
    BY <1>2, <2>1, <2>2, <2>3
  <2> QED
    BY <1>2, <2>1, <2>4 DEF CurrentBound
<1>5. PastBound'
  BY <1>1, <1>2, <1>3, PastKept DEF PastBound
<1>6. FutureEmpty' /\ ItemSound' /\ RateTyped'
  BY DEF StraddleInductive, FutureEmpty, ItemSound, RateTyped, WindowStart
<1>7. \A v \in Worker : LateHitOK(v)'
  BY DEF StraddleInductive, RateTyped, LateHitOK
<1> QED
  BY <1>4, <1>5, <1>6, <1>7 DEF StraddleInductive

LEMMA LateIdleOK == ASSUME NEW w \in Worker, hit'[w] = Idle PROVE LateHitOK(w)'
  BY DEF LateHitOK, Hit, Idle

(* A write of a record of an earlier window: the counter of the window      *)
(* under way is gone, and so is one of the calls that could do this to it;  *)
(* the earlier window has one request more and one stray call less.         *)
LEMMA CountLate ==
    ASSUME IsFiniteSet(Worker), StraddleInductive, NEW w \in Worker, hit' = [hit EXCEPT ![w] = Idle],
           hit[w].pc # "idle", NEW q, q = WindowStart(hit[w].now), q \in Windows, q < WindowStart(clock),
           hit[w].now < q + Window, UNCHANGED <<backend, clock>>,
           accepted' \in [Windows -> Nat], accepted'[q] = accepted[q] + 1,
           \A p \in Windows \ {q} : accepted'[p] = accepted[p],
           item' # NoRecord, item'.windowStart = q
    PROVE  CurrentBound' /\ PastBound' /\ FutureEmpty'
<1>1. PICK s : s = WindowStart(clock)
  OBVIOUS
<1>2. /\ s \in Nat /\ s \in Windows /\ IsStart(s) /\ accepted[s] \in Nat /\ MaxRequests \in Nat
      /\ MaxRequests > 0 /\ WindowStart(clock)' = s /\ Window \in Nat /\ clock \in Nat
  BY <1>1, ClockWindow DEF StraddleInductive, WindowStart
<1>3. /\ backend # "disk" /\ hit[w].now \in Nat /\ DOMAIN hit = Worker /\ hit'[w].pc = "idle"
  BY <1>2 DEF StraddleInductive, LateHitOK, Hit, RateTyped, Idle
<1>4. q \in Nat /\ q # s /\ hit[w].now < s
  <2>1. IsStart(q) /\ q \in Nat
    BY <1>3, WindowBounds
  <2>2. q + Window <= s
    BY <1>1, <1>2, <2>1, StartsApart
  <2> QED
    BY <1>1, <1>2, <1>3, <2>1, <2>2
<1>5. /\ OnTime(s) \subseteq OnTime(s)'
      /\ \A p \in Windows : p < s => /\ Gone(p) \subseteq Gone(p)'
                                     /\ Strays(p)' \in Nat /\ Strays(p) <= Strays(p)'
  <2>1. OnTime(WindowStart(clock))' = OnTime(s)'
    BY <1>2 DEF OnTime
  <2>2. Idle.pc = "idle"
    BY DEF Idle
  <2> QED
    BY <1>1, <2>1, <2>2, SetsGrow DEF StraddleInductive
<1>6. CurrentBound'
  <2>1. w \in OnTime(s)' /\ w \notin OnTime(s)
    BY <1>2, <1>3, <1>4 DEF OnTime
  <2>2. OnTime(s)' \subseteq Worker
    BY DEF OnTime
  <2>3. /\ Cardinality(OnTime(s)) \in Nat /\ Cardinality(OnTime(s)') \in Nat
        /\ Cardinality(OnTime(s)) < Cardinality(OnTime(s)')
    BY <1>5, <2>1, <2>2, Grows
  <2>4. PICK old \in Nat, new \in Nat : old = Starts(s) /\ new = Starts(s)' /\ old < new
    BY <1>3, <2>3 DEF Starts
  <2>5. MaxRequests * old + MaxRequests <= MaxRequests * new /\ MaxRequests * old \in Nat
        /\ MaxRequests * new \in Nat
    BY <1>2, <2>4, TimesMore
  <2>6. Stored(s) \in Nat /\ Stored(s) <= MaxRequests
    BY <1>1 DEF Stored, StraddleInductive, CurrentBound, ItemSound, Record
  <2>7. accepted[s] = 0 \/ accepted[s] + MaxRequests <= MaxRequests * old + Stored(s)
    BY <1>1, <2>4 DEF StraddleInductive, CurrentBound
  <2>8. Stored(s)' = 0
    BY <1>4 DEF Stored
  <2>9. accepted'[s] = accepted[s]
    BY <1>2, <1>4
  <2>10. accepted'[s] = 0 \/ accepted'[s] + MaxRequests <= MaxRequests * new + 0
    BY <1>2, <2>5, <2>6, <2>7, <2>9
  <2> QED
    BY <1>2, <2>4, <2>8, <2>10 DEF CurrentBound
<1>7. PastBound'
  <2> SUFFICES ASSUME NEW p \in Windows, p < s
               PROVE  accepted'[p] <= MaxRequests * MostStarts' + Strays(p)'
    BY <1>2 DEF PastBound
  <2>1. CASE p # q
    BY <1>1, <1>5, <2>1, PastKept
  <2>2. CASE p = q
    <3>1. w \in Gone(q)' /\ w \notin Gone(q)
      BY <1>3 DEF Gone
    <3>2. Gone(q) \subseteq Gone(q)' /\ Gone(q)' \subseteq Worker
      BY <1>5, <2>2 DEF Gone
    <3>3. /\ Cardinality(Gone(q)) \in Nat /\ Cardinality(Gone(q)') \in Nat
          /\ Cardinality(Gone(q)) < Cardinality(Gone(q)')
      BY <3>1, <3>2, Grows
    <3>4. PICK old \in Nat, new \in Nat : old = Strays(q) /\ new = Strays(q)' /\ old < new
      BY <1>3, <3>3 DEF Strays
    <3>5. accepted[q] \in Nat /\ accepted[q] <= MaxRequests * MostStarts + old
      BY <1>1, <3>4 DEF StraddleInductive, PastBound, RateTyped
    <3>6. MostStarts' = MostStarts /\ MostStarts \in Nat
      BY StartsBounded DEF MostStarts
    <3>7. MaxRequests * MostStarts \in Nat
      BY <1>2, <3>6
    <3> QED
      BY <2>2, <3>4, <3>5, <3>6, <3>7
  <2> QED
    BY <2>1, <2>2
<1>8. FutureEmpty'
  <2> SUFFICES ASSUME NEW p \in Windows, p > s PROVE accepted'[p] = 0
    BY <1>2 DEF FutureEmpty
  <2>1. p # q /\ accepted[p] = 0
    BY <1>1, <1>2, <1>4 DEF StraddleInductive, FutureEmpty, Windows
  <2> QED
    BY <2>1
<1> QED
  BY <1>6, <1>7, <1>8

LEMMA StraddlePutRecord ==
    ASSUME IsFiniteSet(Worker), StraddleInductive, NEW w \in Worker, PutRecord(w)
    PROVE  StraddleInductive'
<1>1. PICK existing, now : existing = hit[w].existing /\ now = hit[w].now
  OBVIOUS
<1>2. /\ hit[w].pc = "put" /\ hit[w].pc # "idle" /\ PutCondition(existing, now) /\ Count(existing, now)
      /\ hit' = [hit EXCEPT ![w] = Idle] /\ UNCHANGED <<backend, clock>>
  BY <1>1 DEF PutRecord
<1>3. /\ now \in Window..clock /\ WithinLimit(existing, now) /\ backend # "disk"
      /\ existing # NoRecord => /\ existing \in Record
                                /\ existing.expiresAt = existing.windowStart + 2 * Window
                                /\ existing.expiresAt > now
  BY <1>1, <1>2 DEF StraddleInductive, LateHitOK, Hit
<1>4. Stands(existing, now)
  BY <1>2, <1>3 DEF PutCondition, Stands
<1>5. PICK q : q = WindowStart(now)
  OBVIOUS
<1>6. /\ q \in Windows /\ q \in Nat /\ q <= WindowStart(clock) /\ q <= now /\ now < q + Window
      /\ hitAt' \in Window..clock' /\ accepted' \in [Windows -> Nat]
      /\ accepted'[q] = accepted[q] + 1 /\ \A p \in Windows \ {q} : accepted'[p] = accepted[p]
      /\ ItemSound' /\ item' # NoRecord /\ item'.windowStart = q
  BY <1>2, <1>3, <1>5, CountSound DEF StraddleInductive
<1>7. CASE q = WindowStart(clock)
  <2>1. Idle.pc = "idle"
    BY DEF Idle
  <2>2. PICK more \in Nat : /\ more = Starts(WindowStart(clock))' /\ Starts(WindowStart(clock)) <= more
                            /\ \A p \in Windows : p < WindowStart(clock) =>
                                 Strays(p)' \in Nat /\ Strays(p) <= Strays(p)'
    BY <1>2, <2>1, SetsGrow DEF StraddleInductive
  <2>3. Starts(WindowStart(clock)) > 0
    <3>1. w \in OnTime(q)
      BY <1>1, <1>6 DEF OnTime
    <3>2. {} \subseteq OnTime(q) /\ OnTime(q) \subseteq Worker /\ {} # OnTime(q)
      BY <3>1 DEF OnTime
    <3>3. Cardinality({}) \in Nat /\ Cardinality(OnTime(q)) \in Nat /\ Cardinality({}) < Cardinality(OnTime(q))
      BY <3>2, Grows
    <3> QED
      BY <1>3, <1>7, <3>3 DEF Starts
  <2>4. CurrentBound' /\ PastBound' /\ FutureEmpty'
    BY <1>2, <1>3, <1>4, <1>5, <1>7, <2>2, <2>3, CountOnTime
  <2> QED
    BY <2>4, <1>6, <1>2, LateIdleOK DEF StraddleInductive, RateTyped, LateHitOK
<1>8. CASE q # WindowStart(clock)
  <2>1. q < WindowStart(clock)
    BY <1>6, <1>8, ClockWindow DEF StraddleInductive
  <2>2. CurrentBound' /\ PastBound' /\ FutureEmpty'
    BY <1>1, <1>2, <1>5, <1>6, <2>1, CountLate
  <2> QED
    BY <2>2, <1>6, <1>2, LateIdleOK DEF StraddleInductive, RateTyped, LateHitOK
<1> QED
  BY <1>7, <1>8

LEMMA StraddleReadRecord ==
    ASSUME IsFiniteSet(Worker), StraddleInductive, NEW w \in Worker, ReadRecord(w)
    PROVE  StraddleInductive'
<1>1. PICK old, now : old = hit[w] /\ now = hit[w].now
  OBVIOUS
<1>2. PICK existing : existing = Pruned(now)
  OBVIOUS
<1>3. /\ old.pc = "read" /\ UNCHANGED <<backend, clock, item, accepted, hitAt>>
      /\ hit' = [hit EXCEPT ![w] = IF WithinLimit(existing, now)
                                   THEN [old EXCEPT !.pc = "put", !.existing = existing] ELSE Idle]
  BY <1>1, <1>2 DEF ReadRecord
<1>4. /\ old \in Hit /\ now \in Window..clock /\ now \in Nat /\ backend # "disk" /\ DOMAIN hit = Worker
  BY <1>1, <1>3 DEF StraddleInductive, LateHitOK, Hit, RateTyped
<1>5. CASE ~WithinLimit(existing, now)
  <2>1. hit' = [hit EXCEPT ![w] = Idle] /\ Idle.pc = "idle" /\ hit'[w] = Idle
    BY <1>3, <1>4, <1>5 DEF Idle
  <2> QED
    BY <1>3, <2>1, LateIdleOK, LateCallMoves
<1>6. CASE WithinLimit(existing, now)
  <2>1. PICK new : new = [old EXCEPT !.pc = "put", !.existing = existing]
    OBVIOUS
  <2>2. hit' = [hit EXCEPT ![w] = new] /\ hit'[w] = new
    BY <1>3, <1>4, <1>6, <2>1
  <2>3. /\ existing \in Record \cup {NoRecord}
        /\ existing # NoRecord => /\ existing.expiresAt = existing.windowStart + 2 * Window
                                  /\ existing.expiresAt > now
    BY <1>2, <1>4 DEF Pruned, StraddleInductive, ItemSound, Record
  <2>4. new \in Hit /\ new.pc = "put" /\ new.now = now /\ new.existing = existing
    BY <1>1, <1>4, <2>1, <2>3 DEF Hit
  <2>5. LateHitOK(w)'
    BY <1>3, <1>4, <1>6, <2>2, <2>3, <2>4 DEF LateHitOK
  <2>6. hit[w].pc # "idle" /\ new.now = hit[w].now
    BY <1>1, <1>3, <2>4
  <2> QED
    BY <1>3, <2>2, <2>5, <2>6, LateCallMoves
<1> QED
  BY <1>5, <1>6

LEMMA StraddleCall ==
    ASSUME IsFiniteSet(Worker), StraddleInductive, NEW w \in Worker,
           StartHit(w) \/ PutConflict(w) \/ CallFails(w)
    PROVE  StraddleInductive'
<1>1. /\ DOMAIN hit = Worker /\ hit[w] \in Hit /\ clock \in Nat /\ clock \in Window..clock
      /\ UNCHANGED <<backend, clock, item, accepted, hitAt>>
  BY ClockWindow
     DEF StraddleInductive, RateTyped, LateHitOK, StartHit, PutConflict, CallFails
<1>2. ASSUME NEW n \in Nat, backend # "disk",
             hit' = [hit EXCEPT ![w] = [pc |-> "read", now |-> clock, attempt |-> n, existing |-> NoRecord]]
      PROVE  StraddleInductive'
  <2>1. PICK to : to = [pc |-> "read", now |-> clock, attempt |-> n, existing |-> NoRecord]
    OBVIOUS
  <2>2. hit' = [hit EXCEPT ![w] = to] /\ hit'[w] = to /\ to.now = clock /\ to.pc = "read" /\ to \in Hit
    BY <1>1, <1>2, <2>1 DEF Hit
  <2>3. LateHitOK(w)'
    BY <1>1, <1>2, <2>2 DEF LateHitOK
  <2> QED
    BY <1>1, <2>2, <2>3, LateCallMoves
<1>3. ASSUME hit' = [hit EXCEPT ![w] = Idle] PROVE StraddleInductive'
  <2>1. Idle.pc = "idle" /\ hit'[w] = Idle
    BY <1>1, <1>3 DEF Idle
  <2> QED
    BY <1>1, <1>3, <2>1, LateIdleOK, LateCallMoves
<1>4. CASE StartHit(w)
  BY <1>2, <1>4 DEF StartHit
<1>5. CASE PutConflict(w)
  <2>1. backend # "disk" /\ hit[w].attempt + 1 \in Nat
    BY <1>1, <1>5 DEF StraddleInductive, LateHitOK, PutConflict, Hit
  <2> QED
    BY <1>2, <1>3, <1>5, <2>1 DEF PutConflict
<1>6. CASE CallFails(w)
  BY <1>3, <1>6 DEF CallFails
<1> QED
  BY <1>4, <1>5, <1>6

(* The table removes no record of the window under way. *)
LEMMA StraddleSweep ==
    ASSUME StraddleInductive, Sweep
    PROVE  StraddleInductive'
<1>1. /\ item # NoRecord /\ item.expiresAt <= clock /\ item' = NoRecord
      /\ UNCHANGED <<backend, clock, hit, accepted, hitAt>>
  BY DEF Sweep
<1>2. PICK s : s = WindowStart(clock)
  OBVIOUS
<1>3. s \in Nat /\ clock < s + Window /\ clock \in Nat /\ Window \in Nat /\ WindowStart(clock)' = s
  BY <1>1, <1>2, ClockWindow DEF StraddleInductive, WindowStart
<1>4. Stored(s) = 0 /\ Stored(s)' = 0
  BY <1>1, <1>3 DEF Stored, StraddleInductive, ItemSound, Record
<1>5. Starts(s)' = Starts(s)
  BY <1>1 DEF Starts, OnTime
<1>6. CurrentBound'
  BY <1>1, <1>2, <1>3, <1>4, <1>5 DEF StraddleInductive, CurrentBound
<1>7. PastBound'
  BY <1>1, <1>2, <1>3 DEF StraddleInductive, PastBound, MostStarts, Strays, Gone, WindowStart
<1>8. FutureEmpty' /\ ItemSound' /\ RateTyped' /\ \A w \in Worker : LateHitOK(w)'
  BY <1>1 DEF StraddleInductive, FutureEmpty, ItemSound, RateTyped, LateHitOK, WindowStart
<1> QED
  BY <1>6, <1>7, <1>8 DEF StraddleInductive

(* When a window ends, what it counted is at most a limit for every call. *)
LEMMA WindowEnds ==
    ASSUME IsFiniteSet(Worker), StraddleInductive
    PROVE  /\ accepted[WindowStart(clock)] <= MaxRequests * MostStarts \/ accepted[WindowStart(clock)] = 0
           /\ MaxRequests * MostStarts \in Nat
<1>1. PICK s : s = WindowStart(clock)
  OBVIOUS
<1>2. accepted[s] \in Nat /\ MaxRequests \in Nat /\ s \in Nat
  BY <1>1, ClockWindow DEF StraddleInductive
<1>3. Starts(s) \in Nat /\ Starts(s) <= MostStarts /\ MostStarts \in Nat
  BY StartsBounded
<1>4. /\ MaxRequests * Starts(s) <= MaxRequests * MostStarts
      /\ MaxRequests * Starts(s) \in Nat /\ MaxRequests * MostStarts \in Nat
  BY <1>2, <1>3, TimesMore
<1>5. Stored(s) \in Nat /\ Stored(s) <= MaxRequests
  BY <1>1 DEF Stored, StraddleInductive, CurrentBound, ItemSound, Record
<1>6. accepted[s] = 0 \/ accepted[s] + MaxRequests <= MaxRequests * Starts(s) + Stored(s)
  BY <1>1 DEF StraddleInductive, CurrentBound
<1> QED
  BY <1>1, <1>2, <1>4, <1>5, <1>6

LEMMA StraddleTick ==
    ASSUME IsFiniteSet(Worker), StraddleInductive, Tick
    PROVE  StraddleInductive'
<1>1. /\ clock < MaxClock /\ clock' = clock + 1 /\ UNCHANGED <<backend, item, hit, accepted, hitAt>>
  BY DEF Tick
<1>2. PICK s, t : s = WindowStart(clock) /\ t = WindowStart(clock + 1)
  OBVIOUS
<1>3. /\ s \in Nat /\ clock \in Nat /\ clock + 1 \in Nat /\ Window \in Nat /\ IsStart(s) /\ s <= clock
      /\ MaxRequests \in Nat /\ accepted \in [Windows -> Nat] /\ s \in Windows /\ clock < s + Window
  BY <1>2, ClockWindow DEF StraddleInductive
<1>4. RateTyped'
  BY <1>1, RateLimitAssumption DEF StraddleInductive, RateTyped
<1>5. t = WindowStart(clock)' /\ t \in Nat /\ t \in Windows
  <2>1. t = WindowStart(clock)'
    BY <1>1, <1>2 DEF WindowStart
  <2>2. clock + 1 \in Window..MaxClock
    BY <1>1, <1>4 DEF RateTyped
  <2> QED
    BY <1>2, <2>1, <2>2, TwoWindows
<1>6. s <= t
  <2>1. s <= clock + 1
    BY <1>3
  <2> QED
    BY <1>2, <1>3, <2>1, StartsBefore
<1>7. ItemSound' /\ \A w \in Worker : LateHitOK(w)'
  <2>1. ItemSound'
    BY <1>1, <1>3 DEF StraddleInductive, ItemSound, Record
  <2>2. ASSUME NEW w \in Worker PROVE LateHitOK(w)'
    <3>1. LateHitOK(w)
      BY DEF StraddleInductive
    <3>2. hit[w].pc # "idle" => hit[w].now \in Window..(clock + 1)
      BY <1>3, <3>1 DEF LateHitOK
    <3> QED
      BY <1>1, <3>1, <3>2 DEF LateHitOK
  <2> QED
    BY <2>1, <2>2
<1>8. \A p : /\ Strays(p)' = Strays(p) /\ Starts(p)' = Starts(p) /\ Stored(p)' = Stored(p)
  BY <1>1 DEF Strays, Starts, Gone, OnTime, Stored, WindowStart
<1>9. MostStarts' = MostStarts
  BY <1>1 DEF MostStarts
<1>10. FutureEmpty'
  <2> SUFFICES ASSUME NEW p \in Windows, p > t PROVE accepted[p] = 0
    BY <1>1, <1>5 DEF FutureEmpty
  <2>1. p > s
    BY <1>3, <1>5, <1>6 DEF Windows
  <2> QED
    BY <1>2, <2>1 DEF StraddleInductive, FutureEmpty
<1>11. PastBound'
  <2> SUFFICES ASSUME NEW p \in Windows, p < t
               PROVE  accepted[p] <= MaxRequests * MostStarts + Strays(p)
    BY <1>1, <1>5, <1>8, <1>9 DEF PastBound
  <2>1. p \in Nat /\ Strays(p) \in Nat /\ MaxRequests * MostStarts \in Nat /\ accepted[p] \in Nat
    BY <1>3, StartsBounded, WindowEnds DEF Windows
  <2>2. CASE p < s
    BY <1>2, <2>2 DEF StraddleInductive, PastBound
  <2>3. CASE p = s
    BY <1>2, <2>1, <2>3, WindowEnds
  <2>4. CASE p > s
    <3>1. accepted[p] = 0
      BY <1>2, <2>4 DEF StraddleInductive, FutureEmpty
    <3> QED
      BY <2>1, <3>1
  <2> QED
    BY <1>3, <2>1, <2>2, <2>3, <2>4
<1>12. CurrentBound'
  <2>1. CASE t = s
    BY <1>1, <1>2, <1>5, <1>8, <2>1 DEF StraddleInductive, CurrentBound
  <2>2. CASE t > s
    <3>1. accepted[t] = 0
      BY <1>2, <1>5, <2>2 DEF StraddleInductive, FutureEmpty
    <3>2. s + Window <= t
      <4>1. IsStart(t)
        BY <1>2, <1>3, WindowBounds
      <4> QED
        BY <1>3, <2>2, <4>1, StartsApart
    <3>3. Stored(t) = 0
      BY <1>3, <1>5, <3>2 DEF Stored, StraddleInductive, ItemSound, Record
    <3> QED
      BY <1>1, <1>3, <1>5, <1>8, <3>1, <3>3 DEF CurrentBound
  <2> QED
    BY <1>3, <1>5, <1>6, <2>1, <2>2
<1> QED
  BY <1>4, <1>7, <1>10, <1>11, <1>12 DEF StraddleInductive

LEMMA StraddleStart ==
    ASSUME IsFiniteSet(Worker), RateInit
    PROVE  StraddleInductive
<1>1. RateTyped /\ item = NoRecord /\ accepted = [p \in Windows |-> 0] /\ hit = [w \in Worker |-> Idle]
  BY RateStart DEF RateInductive, RateInit
<1>2. WindowStart(clock) \in Windows /\ MaxRequests \in Nat
  BY <1>1, ClockWindow
<1>3. ItemSound /\ FutureEmpty /\ \A w \in Worker : LateHitOK(w)
  BY <1>1 DEF ItemSound, FutureEmpty, LateHitOK, Hit, Idle
<1>4. CurrentBound
  BY <1>1, <1>2 DEF CurrentBound, Stored
<1>5. PastBound
  <2> SUFFICES ASSUME NEW p \in Windows PROVE 0 <= MaxRequests * MostStarts + Strays(p)
    BY <1>1 DEF PastBound
  <2>1. MostStarts \in Nat /\ Strays(p) \in Nat
    BY StartsBounded
  <2>2. MaxRequests * MostStarts \in Nat
    BY <1>2, <2>1
  <2> QED
    BY <2>1, <2>2
<1> QED
  BY <1>1, <1>3, <1>4, <1>5 DEF StraddleInductive

LEMMA StraddleStep ==
    ASSUME IsFiniteSet(Worker), StraddleInductive, [RateNext]_rateVars
    PROVE  StraddleInductive'
<1>1. CASE UNCHANGED rateVars
  BY <1>1 DEF rateVars, StraddleInductive, RateTyped, ItemSound, CurrentBound, PastBound, FutureEmpty, LateHitOK,
              Starts, MostStarts, Strays, Stored, OnTime, Gone, WindowStart
<1> QED
  BY <1>1, StraddleDiskHit, StraddleReadRecord, StraddlePutRecord, StraddleCall, StraddleSweep, StraddleTick
     DEF RateNext

(* For any window length, limit and finite number of concurrent calls, with *)
(* calls that may be under way over any number of windows: no window counts *)
(* more than maxRequests + 1 requests for every one of these calls, and the *)
(* disk store never counts more than maxRequests.                           *)
THEOREM StraddleLimitHolds ==
    ASSUME IsFiniteSet(Worker)
    PROVE  RateSpec => []StraddleCap
<1>1. StraddleInductive => StraddleCap
  <2> SUFFICES ASSUME StraddleInductive, NEW p \in Windows
               PROVE  accepted[p] <= IF backend = "disk" THEN MaxRequests
                                     ELSE Cardinality(Worker) * (MaxRequests + 1)
    BY DEF StraddleCap
  <2>1. PICK s : s = WindowStart(clock)
    OBVIOUS
  <2>2. /\ accepted[p] \in Nat /\ p \in Nat /\ s \in Nat /\ MaxRequests \in Nat
    BY <2>1, ClockWindow DEF StraddleInductive, Windows
  <2>3. PICK most \in Nat, strays \in Nat, n \in Nat :
          /\ most = MostStarts /\ strays = Strays(p) /\ n = Cardinality(Worker)
          /\ backend # "disk" => strays <= n
    BY StartsBounded
  <2>4. MaxRequests * most \in Nat
    BY <2>2, <2>3
  <2>5. accepted[p] <= MaxRequests * most + strays
    <3>1. CASE p < s
      BY <2>1, <2>3, <3>1 DEF StraddleInductive, PastBound
    <3>2. CASE p = s
      BY <2>1, <2>2, <2>3, <2>4, <3>2, WindowEnds
    <3>3. CASE p > s
      <4>1. accepted[p] = 0
        BY <2>1, <3>3 DEF StraddleInductive, FutureEmpty
      <4> QED
        BY <2>3, <2>4, <4>1
    <3> QED
      BY <2>2, <3>1, <3>2, <3>3
  <2>6. CASE backend = "disk"
    <3>1. most = 1 /\ strays = 0
      BY <2>3, <2>6 DEF MostStarts, Strays
    <3> QED
      BY <2>2, <2>5, <2>6, <3>1
  <2>7. CASE backend # "disk"
    <3>1. most = n
      BY <2>3, <2>7 DEF MostStarts
    <3>2. n * (MaxRequests + 1) = MaxRequests * n + n
      BY <2>2, <2>3
    <3>3. accepted[p] <= n * (MaxRequests + 1)
      BY <2>2, <2>3, <2>4, <2>5, <2>7, <3>1, <3>2
    <3> QED
      BY <2>3, <2>7, <3>3
  <2> QED
    BY <2>6, <2>7
<1>2. RateInit => StraddleInductive
  BY StraddleStart
<1>3. StraddleInductive /\ [RateNext]_rateVars => StraddleInductive'
  BY StraddleStep
<1> QED
  BY <1>1, <1>2, <1>3, PTL DEF RateSpec
=============================================================================
