----------------------------- MODULE SseStreams -----------------------------
(***************************************************************************)
(* The receive streams of one process: GET /mcp                            *)
(* (mcp/streamable-get-stream.ts) and the legacy transport, GET /sse and   *)
(* POST /messages (mcp/endpoints.sse.ts, mcp/legacy-sse-session.ts), with  *)
(* their heartbeats (mcp/sse-event.ts) and the connection limit            *)
(* (mcp/sse-connection-limit.ts).                                          *)
(*                                                                         *)
(* A response is external.  As the code uses it, write() says whether the  *)
(* buffer is still below its high-water mark, 'drain' follows when a       *)
(* buffer that was not has been emptied, and never after the response has  *)
(* closed, and 'close' is emitted once it has.  Of a frame only its place  *)
(* in the buffer counts.                                                   *)
(***************************************************************************)
EXTENDS DynamoTable

CONSTANTS
    Stream,             \* requests for a stream; also the id of a legacy session
    Poster,             \* handlers of POST /messages
    RequestId, None,
    MaxConnections,     \* MCP_SSE_MAX_CONNECTIONS
    MaxRequestIds,      \* 4096
    HighWater,          \* frames that fill the buffer of a response
    MaxBuffered,        \* bound on the frames in a buffer
    MaxEvents           \* bound on the messages of a session

(* The first frame of a stream is far shorter than a buffer. *)
ASSUME SseStreamsAssumption ==
    /\ None \notin RequestId
    /\ {MaxConnections, MaxRequestIds, MaxBuffered, MaxEvents} \subseteq Nat
    /\ HighWater \in Nat \ {0, 1}

VARIABLES
    kind,       \* the endpoint of each stream
    pc,         \* its handler: "new", "open" (waitForClose) or "done"
    closed,     \* streams whose response is destroyed
    buffered,   \* frames written and not yet read by the client
    needDrain,  \* responses that will emit 'drain' when their buffer is empty
    heartbeat,  \* streams whose interval timer is set
    sessions,   \* the Map of legacy sessions
    active,     \* activeConnections
    call        \* POST /messages under way, by poster

vars == <<kind, pc, closed, buffered, needDrain, heartbeat, sessions, active, call>>

LegacySseSession == [requestIdHashes : SUBSET RequestId, sequence : Nat]

Call == [pc : {"dispatch", "drain"}, stream : Stream]

Init ==
    /\ kind \in [Stream -> {"legacy", "streamable"}]
    /\ pc = [s \in Stream |-> "new"]
    /\ closed = {}
    /\ buffered = [s \in Stream |-> 0]
    /\ needDrain = {}
    /\ heartbeat = {}
    /\ sessions = EmptyTable
    /\ active = 0
    /\ call = EmptyTable

-----------------------------------------------------------------------------
(* Helpers *)

Answer(p) == call' = DeleteItem(call, p)

(* Mutant: the timer is left running. *)
MutCloseLegacySseSession(s) ==
    /\ sessions' = DeleteItem(sessions, s)
    /\ UNCHANGED heartbeat

CloseLegacySseSession(s) ==
    /\ sessions' = DeleteItem(sessions, s)
    /\ heartbeat' = IF HasItem(sessions, s) THEN heartbeat \ {s} ELSE heartbeat

(* The frame goes into the buffer, and write() may say that it is full. *)
WriteSseFrame(s) ==
    /\ buffered[s] < MaxBuffered
    /\ buffered' = [buffered EXCEPT ![s] = @ + 1]
    /\ needDrain' = IF buffered[s] + 1 < HighWater THEN needDrain ELSE needDrain \cup {s}

(* Mutant: a writer waits for 'drain' whatever write() returned. *)
MutWaitsForDrain(s) == TRUE

WaitsForDrain(s) == buffered[s] + 1 >= HighWater

-----------------------------------------------------------------------------
(* GET /sse and GET /mcp *)

(* Mutant: one connection too many is let in. *)
MutConnectionFree == active <= MaxConnections

ConnectionFree == active < MaxConnections

(* runLegacySseSession and runStreamableGetStream: the slot, the session,   *)
(* the timer, the headers and the first frame, without a pause.             *)
Open(s) ==
    /\ pc[s] = "new"
    /\ s \notin closed
    /\ ConnectionFree
    /\ pc' = [pc EXCEPT ![s] = "open"]
    /\ active' = active + 1
    /\ heartbeat' = heartbeat \cup {s}
    /\ sessions' = IF kind[s] = "legacy"
                     THEN PutItem(sessions, s, [requestIdHashes |-> {}, sequence |-> 0])
                     ELSE sessions
    /\ WriteSseFrame(s)
    /\ UNCHANGED <<kind, closed, call>>

(* 429; or the client has left while its session was looked up, the first   *)
(* write throws, and all is undone.                                         *)
Refuse(s) ==
    /\ pc[s] = "new"
    /\ s \in closed \/ ~ConnectionFree
    /\ pc' = [pc EXCEPT ![s] = "done"]
    /\ UNCHANGED <<kind, closed, buffered, needDrain, heartbeat, sessions, active, call>>

(* Mutant: nothing is left to do for a session that is gone. *)
MutFinish(s) ==
    /\ pc[s] = "open"
    /\ s \in closed
    /\ kind[s] = "legacy" => HasItem(sessions, s)
    /\ pc' = [pc EXCEPT ![s] = "done"]
    /\ active' = active - 1
    /\ heartbeat' = heartbeat \ {s}
    /\ sessions' = DeleteItem(sessions, s)
    /\ UNCHANGED <<kind, closed, buffered, needDrain, call>>

(* 'close' ends waitForClose: the finally blocks. *)
Finish(s) ==
    /\ pc[s] = "open"
    /\ s \in closed
    /\ pc' = [pc EXCEPT ![s] = "done"]
    /\ active' = active - 1
    /\ IF kind[s] = "legacy"
         THEN CloseLegacySseSession(s)
         ELSE heartbeat' = heartbeat \ {s} /\ UNCHANGED sessions
    /\ UNCHANGED <<kind, closed, buffered, needDrain, call>>

(* The timer of a stream that is up writes a comment.  Nobody waits for it. *)
Heartbeat(s) ==
    /\ s \in heartbeat \ closed
    /\ WriteSseFrame(s)
    /\ UNCHANGED <<kind, pc, closed, heartbeat, sessions, active, call>>

(* The timer of a stream that has closed: the write throws.  A legacy       *)
(* session is closed; a streamable response is destroyed, which it is.      *)
HeartbeatFails(s) ==
    /\ s \in heartbeat \cap closed
    /\ kind[s] = "legacy"
    /\ CloseLegacySseSession(s)
    /\ UNCHANGED <<kind, pc, closed, buffered, needDrain, active, call>>

-----------------------------------------------------------------------------
(* POST /messages, by a client with a valid bearer token *)

Reachable(s) == HasItem(sessions, s) /\ s \notin closed

(* sendLegacySseMessage and the answer: 404, 202, or 202 after 'drain'. *)
SendLegacySseMessage(p, s) ==
    \/ /\ ~Reachable(s)
       /\ CloseLegacySseSession(s)
       /\ Answer(p)
       /\ UNCHANGED <<buffered, needDrain>>
    \/ /\ Reachable(s)
       /\ sessions[s].sequence < MaxEvents
       /\ sessions' = [sessions EXCEPT ![s].sequence = @ + 1]
       /\ WriteSseFrame(s)
       /\ IF WaitsForDrain(s)
            THEN call' = PutItem(call, p, [pc |-> "drain", stream |-> s])
            ELSE Answer(p)
       /\ UNCHANGED heartbeat

(* reserveLegacyRequestId *)
Reservable(s, id) ==
    /\ Reachable(s)
    /\ id \notin sessions[s].requestIdHashes
    /\ Cardinality(sessions[s].requestIdHashes) < MaxRequestIds

(* A request with an id that can be reserved is dispatched. *)
Post(p, s, id) ==
    /\ p \notin DOMAIN call
    /\ Reservable(s, id)
    /\ sessions' = [sessions EXCEPT ![s].requestIdHashes = @ \cup {id}]
    /\ call' = PutItem(call, p, [pc |-> "dispatch", stream |-> s])
    /\ UNCHANGED <<kind, pc, closed, buffered, needDrain, heartbeat, active>>

(* One that is not a request (None), or whose id cannot be reserved, gets   *)
(* an error on the stream.  A notification is answered 202, session or not, *)
(* and changes nothing.                                                     *)
PostRejected(p, s, id) ==
    /\ p \notin DOMAIN call
    /\ id = None \/ ~Reservable(s, id)
    /\ SendLegacySseMessage(p, s)
    /\ UNCHANGED <<kind, pc, closed, active>>

(* The method has been carried out. *)
Dispatched(p) ==
    /\ p \in DOMAIN call
    /\ call[p].pc = "dispatch"
    /\ SendLegacySseMessage(p, call[p].stream)
    /\ UNCHANGED <<kind, pc, closed, active>>

-----------------------------------------------------------------------------
(* The client reads a frame.  'drain' lets those go on who wait for it. *)
ClientReads(s) ==
    /\ s \notin closed
    /\ buffered[s] > 0
    /\ buffered' = [buffered EXCEPT ![s] = @ - 1]
    /\ IF buffered[s] = 1 /\ s \in needDrain
         THEN /\ needDrain' = needDrain \ {s}
              /\ call' = [p \in {q \in DOMAIN call : call[q] # [pc |-> "drain", stream |-> s]} |-> call[p]]
         ELSE UNCHANGED <<needDrain, call>>
    /\ UNCHANGED <<kind, pc, closed, heartbeat, sessions, active>>

(* The client goes away, or the connection breaks. *)
ClientGone(s) ==
    /\ pc[s] # "done"
    /\ s \notin closed
    /\ closed' = closed \cup {s}
    /\ UNCHANGED <<kind, pc, buffered, needDrain, heartbeat, sessions, active, call>>

Next ==
    \/ \E s \in Stream :
          \/ Open(s)
          \/ Refuse(s)
          \/ Finish(s)
          \/ Heartbeat(s)
          \/ HeartbeatFails(s)
          \/ ClientReads(s)
          \/ ClientGone(s)
    \/ \E p \in Poster :
          \/ \E s \in Stream, id \in RequestId : Post(p, s, id)
          \/ \E s \in Stream, id \in RequestId \cup {None} : PostRejected(p, s, id)
          \/ Dispatched(p)

(* Node delivers the 'close' of a response. *)
Fairness == \A s \in Stream : WF_vars(Finish(s))

Spec == Init /\ [][Next]_vars /\ Fairness

-----------------------------------------------------------------------------
(* Properties *)

Opened == {s \in Stream : pc[s] = "open"}

TypeOK ==
    /\ kind \in [Stream -> {"legacy", "streamable"}]
    /\ pc \in [Stream -> {"new", "open", "done"}]
    /\ closed \subseteq Stream
    /\ buffered \in [Stream -> Nat]
    /\ needDrain \subseteq Stream
    /\ heartbeat \subseteq Stream
    /\ DOMAIN sessions \subseteq Stream
    /\ \A s \in DOMAIN sessions : sessions[s] \in LegacySseSession
    /\ active \in Nat
    /\ DOMAIN call \subseteq Poster
    /\ \A p \in DOMAIN call : call[p] \in Call

(* The counter is the number of handlers that hold a stream, and within the *)
(* limit, whoever finds out first that a stream is gone: its handler, its   *)
(* timer or a message.  docs/api/configuration.md:38.                       *)
SlotsMatchStreams == active = Cardinality(Opened) /\ active <= MaxConnections

(* Once a handler has ended, neither a session nor a timer is left of it,   *)
(* and a session that is still in use has its timer.                        *)
NothingLeftBehind ==
    /\ heartbeat \cup DOMAIN sessions \subseteq Opened
    /\ DOMAIN sessions \subseteq heartbeat

(* A message that waits for 'drain' on a live stream waits for an event     *)
(* that is still to come.                                                   *)
NoLostWakeup ==
    \A p \in DOMAIN call :
        LET s == call[p].stream IN
        call[p].pc = "drain" /\ s \notin closed => s \in needDrain /\ buffered[s] > 0

(* A stream whose client has gone gives its slot, its session and its timer *)
(* back, also when a heartbeat or a message has closed its session before.  *)
StreamsLetGo ==
    \A s \in Stream : s \in closed ~> pc[s] # "open" /\ s \notin heartbeat \cup DOMAIN sessions
=============================================================================
