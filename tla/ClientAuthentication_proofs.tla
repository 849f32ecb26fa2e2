-------------------- MODULE ClientAuthentication_proofs --------------------
(* Proofs about ClientAuthentication, for every set of clients, documents,  *)
(* assertions, processes and workers, and every lifetime, skew and delay.   *)
EXTENDS ClientAuthentication, TLAPS

-----------------------------------------------------------------------------
(* The inductive invariant *)

Shapes ==
    /\ DOMAIN origin = Document
    /\ DOMAIN left = Document
    /\ DOMAIN memory = Process
    /\ DOMAIN replay = Process
    /\ accepted \in [Process -> [Assertion -> Nat]]

(* A copy of what d said, to be used until expiresAt: within the longest    *)
(* lifetime from now and, once d no longer says it, from the end of a       *)
(* transfer that began before.                                              *)
CopyOK(d, body, expiresAt) ==
    /\ body \in Publishable[d]
    /\ expiresAt <= clock + MaxCacheSeconds
    /\ origin[d] = body \/ expiresAt <= left[d][body] + MaxDelay + MaxCacheSeconds

(* An answer under way from the server of d, to be used until then. *)
TransferOK(d, body, until) ==
    /\ body \in Publishable[d]
    /\ until <= clock + MaxDelay
    /\ origin[d] = body \/ until <= left[d][body] + MaxDelay

(* A request under way. *)
CallOK(w) ==
    /\ call[w] \in Call
    /\ call[w].pc \in {"cached", "fetched", "write"} => call[w].body \in Body(call[w].document)
    /\ call[w].pc \in {"cached", "write"} => CopyOK(call[w].document, call[w].body, call[w].expiresAt)
    /\ call[w].pc \in {"fetched", "write"} => TransferOK(call[w].document, call[w].body, call[w].until)
    /\ call[w].document[1] = "jwks" => call[w].assertion \in Assertion

(* Every copy, wherever it is, stems from one transfer: a copy of a copy    *)
(* has no longer to live.                                                   *)
MemoryBounded ==
    \A p \in Process : \A d \in DOMAIN memory[p] :
        CopyOK(d, memory[p][d].body, memory[p][d].expiresAt)

TableBounded == \A d \in DOMAIN table : CopyOK(d, table[d].body, table[d].expiresAt)

(* No change lies in the future. *)
LeftBefore == \A d \in Document : \A body \in Publishable[d] : left[d][body] <= clock

(* An assertion that was accepted is remembered until it is too old. *)
AcceptedRemembered ==
    \A p \in Process, a \in Assertion :
        LET k == <<Claims[a].client, Claims[a].jti>> IN
        accepted[p][a] > 0 =>
            \/ clock >= RememberUntil(Claims[a])
            \/ k \in DOMAIN replay[p] /\ replay[p][k] >= RememberUntil(Claims[a])

IInv ==
    /\ TypeOK
    /\ Shapes
    /\ LeftBefore
    /\ MemoryBounded
    /\ TableBounded
    /\ \A w \in DOMAIN call : CallOK(w)
    /\ AcceptedRemembered
    /\ Revocable
    /\ AssertionOncePerProcess

-----------------------------------------------------------------------------
(* What the steps have in common *)

(* The requests of the other workers are left alone, and that of w, if it   *)
(* goes on, is as it should be.                                             *)
OthersKept(w) == \A v \in DOMAIN call' : v # w => v \in DOMAIN call /\ call'[v] = call[v]

NewCallOK(w) == w \in DOMAIN call' => CallOK(w)'

LEMMA AnswerKeeps ==
    ASSUME NEW w, Answer(w)
    PROVE  OthersKept(w) /\ w \notin DOMAIN call' /\ NewCallOK(w)
  BY DEF Answer, DeleteItem, OthersKept, NewCallOK

LEMMA ContinueKeeps ==
    ASSUME NEW w, NEW next, Continue(w, next)
    PROVE  OthersKept(w) /\ w \in DOMAIN call' /\ call'[w] = next
  BY DEF Continue, PutItem, OthersKept

(* What the provers need of the constants. *)
LEMMA Constants ==
    /\ MaxCacheSeconds \in Nat /\ MaxDelay \in Nat /\ Skew \in Nat
    /\ \A d \in Document : Publishable[d] \subseteq Body(d) \cup {None}
    /\ \A d \in Document : \A seconds \in Lifetimes[d] : seconds \in Nat /\ seconds <= MaxCacheSeconds
    /\ \A a \in Assertion : RememberUntil(Claims[a]) \in Nat
    /\ None \notin Assertion
<1>1. \A a \in Assertion : Claims[a].exp \in Nat
  BY ClientAuthenticationAssumption
<1>2. MaxCacheSeconds \in Nat /\ MaxDelay \in Nat /\ Skew \in Nat
  BY ClientAuthenticationAssumption
<1>3. \A a \in Assertion : RememberUntil(Claims[a]) \in Nat
  BY <1>1, <1>2 DEF RememberUntil
<1>4. \A d \in Document : \A seconds \in Lifetimes[d] : seconds \in Nat /\ seconds <= MaxCacheSeconds
  BY <1>2, ClientAuthenticationAssumption
<1>5. \A d \in Document : Publishable[d] \subseteq Body(d) \cup {None}
  BY ClientAuthenticationAssumption
<1>6. None \notin Assertion
  BY ClientAuthenticationAssumption
<1> QED
  BY <1>2, <1>3, <1>4, <1>5, <1>6

(* What any of the documents may say. *)
AnyBody == (UNION {Body(d) : d \in Document}) \cup {None}

Pc == {"lookup", "read", "cached", "fetch", "fetched", "write"}

LEMMA CallType ==
    /\ Call = [process : Process, document : Document, assertion : Assertion \cup {None}, pc : Pc,
               body : AnyBody, expiresAt : Nat, until : Nat]
    /\ None \in AnyBody
    /\ \A d \in Document : Body(d) \subseteq AnyBody
<1>1. None \in AnyBody
  BY Zenon DEF AnyBody
<1>2. \A d \in Document : Body(d) \subseteq AnyBody
  BY DEF AnyBody
<1> QED
  BY <1>1, <1>2, Zenon DEF Call, AnyBody, Pc

(* The ways in which a request goes on keep its type. *)
LEMMA CallContinues ==
    ASSUME NEW c \in Call, NEW d \in Document, NEW e \in Nat, NEW u \in Nat,
           NEW pc \in Pc, NEW body \in AnyBody
    PROVE  /\ [c EXCEPT !.pc = pc] \in Call
           /\ [c EXCEPT !.pc = pc, !.expiresAt = e] \in Call
           /\ [c EXCEPT !.pc = pc, !.body = body, !.expiresAt = e] \in Call
           /\ [c EXCEPT !.pc = pc, !.body = body, !.until = u] \in Call
           /\ [c EXCEPT !.document = d, !.pc = pc, !.body = body, !.expiresAt = e, !.until = u] \in Call
<1>1. c \in [process : Process, document : Document, assertion : Assertion \cup {None}, pc : Pc,
             body : AnyBody, expiresAt : Nat, until : Nat]
  BY CallType
<1> QED
  BY <1>1, CallType

(* A request that a step does not touch stays as it should be, if neither   *)
(* the time nor a document changes.                                         *)
LEMMA CallKept ==
    ASSUME IInv, NEW v \in DOMAIN call, v \in DOMAIN call', call'[v] = call[v],
           UNCHANGED <<clock, origin, left>>
    PROVE  CallOK(v)'
<1>1. CallOK(v)
  BY DEF IInv
<1> QED
  BY <1>1 DEF CallOK, CopyOK, TransferOK

(* What a step of w has to show: of its request, of the entries it writes,  *)
(* and of what it relies on.                                                *)
LEMMA WorkerStep ==
    ASSUME IInv, NEW w \in Worker, OthersKept(w), NewCallOK(w),
           UNCHANGED <<backend, clock, origin, left>>,
           DOMAIN memory' = Process,
           \A p \in Process : \A d \in DOMAIN memory'[p] : d \in Document /\ memory'[p][d] \in Entry(d),
           MemoryBounded',
           DOMAIN table' \subseteq Document, \A d \in DOMAIN table' : table'[d] \in Entry(d),
           TableBounded',
           DOMAIN replay' = Process, \A p \in Process : \A k \in DOMAIN replay'[p] : replay'[p][k] \in Nat,
           accepted' \in [Process -> [Assertion -> Nat]], AcceptedRemembered', AssertionOncePerProcess',
           lapse' \in Nat, Revocable'
    PROVE  IInv'
<1>1. ASSUME NEW v \in DOMAIN call' PROVE CallOK(v)'
  <2>1. CASE v = w
    BY <2>1 DEF NewCallOK
  <2>2. CASE v # w
    BY <2>2, CallKept DEF OthersKept
  <2> QED
    BY <2>1, <2>2
<1>2. DOMAIN call' \subseteq Worker
  BY DEF OthersKept, IInv, TypeOK
<1>3. \A v \in DOMAIN call' :
         /\ call'[v] \in Call
         /\ call'[v].pc \in {"cached", "fetched", "write"} => call'[v].body \in Body(call'[v].document)
  BY <1>1 DEF CallOK
<1>4. TypeOK'
  BY <1>2, <1>3 DEF IInv, TypeOK
<1>5. Shapes' /\ LeftBefore'
  BY DEF IInv, Shapes, LeftBefore
<1> QED
  BY <1>1, <1>4, <1>5 DEF IInv

(* A step that only changes the request of w. *)
LEMMA QuietStep ==
    ASSUME IInv, NEW w \in Worker, OthersKept(w), NewCallOK(w),
           UNCHANGED <<backend, clock, origin, left, memory, table, replay, accepted, lapse>>
    PROVE  IInv'
<1>1. MemoryBounded' /\ TableBounded' /\ AcceptedRemembered' /\ AssertionOncePerProcess' /\ Revocable'
  BY DEF IInv, MemoryBounded, TableBounded, CopyOK, AcceptedRemembered, AssertionOncePerProcess,
         Revocable
<1>2. /\ DOMAIN memory' = Process
      /\ \A p \in Process : \A d \in DOMAIN memory'[p] : d \in Document /\ memory'[p][d] \in Entry(d)
      /\ DOMAIN table' \subseteq Document /\ \A d \in DOMAIN table' : table'[d] \in Entry(d)
      /\ DOMAIN replay' = Process
      /\ \A p \in Process : \A k \in DOMAIN replay'[p] : replay'[p][k] \in Nat
      /\ accepted' \in [Process -> [Assertion -> Nat]]
      /\ lapse' \in Nat
  BY DEF IInv, TypeOK, Shapes
<1> QED
  BY <1>1, <1>2, WorkerStep

-----------------------------------------------------------------------------
(* The memory of a process *)

(* Each entry of the memory was there before, or is the one for d. *)
MemoryFrom(d, entry) ==
    /\ DOMAIN memory' = Process
    /\ \A p \in Process : \A k \in DOMAIN memory'[p] :
          \/ k \in DOMAIN memory[p] /\ memory'[p][k] = memory[p][k]
          \/ k = d /\ memory'[p][k] = entry

LEMMA PrunedSubset ==
    ASSUME NEW cache, NEW d, NEW kept \in Pruned(cache, d)
    PROVE  /\ kept \subseteq DOMAIN cache
           /\ \A k \in kept : k[1] = d[1] => cache[k].expiresAt > clock \/ cache[k].expiresAt = clock
  BY DEF Pruned

(* writeExpiringCache writes the entry for d, or none when it is not to be  *)
(* kept, and drops others.                                                  *)
LEMMA MemoryWritten ==
    ASSUME IInv, NEW p \in Process, NEW d, NEW body, NEW seconds, WriteMemory(p, d, body, seconds)
    PROVE  /\ DOMAIN memory' = Process
           /\ \A q \in Process : \A k \in DOMAIN memory'[q] :
                 \/ k \in DOMAIN memory[q] /\ memory'[q][k] = memory[q][k]
                 \/ k = d /\ seconds # 0 /\ memory'[q][k] = [body |-> body, expiresAt |-> clock + seconds]
<1>1. DOMAIN memory = Process
  BY DEF IInv, Shapes
<1>2. PICK kept \in Pruned(memory[p], d) :
         IF seconds = 0
           THEN memory' = [memory EXCEPT ![p] = [k \in kept \ {d} |-> @[k]]]
           ELSE \E rest \in MakeRoom(kept, d) :
                  memory' = [memory EXCEPT ![p] =
                      PutItem([k \in rest |-> @[k]], d, [body |-> body, expiresAt |-> clock + seconds])]
  BY DEF WriteMemory
<1>3. kept \subseteq DOMAIN memory[p]
  BY PrunedSubset
<1>4. CASE seconds = 0
  <2>1. memory' = [memory EXCEPT ![p] = [k \in kept \ {d} |-> memory[p][k]]]
    BY <1>2, <1>4
  <2> QED
    BY <1>1, <1>3, <2>1
<1>5. CASE seconds # 0
  <2>1. PICK rest \in MakeRoom(kept, d) :
           memory' = [memory EXCEPT ![p] =
               PutItem([k \in rest |-> memory[p][k]], d, [body |-> body, expiresAt |-> clock + seconds])]
    BY <1>2, <1>5
  <2>2. rest \subseteq kept
    BY DEF MakeRoom
  <2>3. DOMAIN memory' = Process /\ \A q \in Process : q # p => memory'[q] = memory[q]
    BY <1>1, <2>1
  <2>4. memory'[p] = PutItem([k \in rest |-> memory[p][k]], d, [body |-> body, expiresAt |-> clock + seconds])
    BY <1>1, <2>1
  <2>5. \A k \in DOMAIN memory'[p] :
           \/ k \in rest /\ memory'[p][k] = memory[p][k]
           \/ k = d /\ memory'[p][k] = [body |-> body, expiresAt |-> clock + seconds]
    BY <2>4 DEF PutItem
  <2> QED
    BY <1>3, <1>5, <2>2, <2>3, <2>5
<1> QED
  BY <1>4, <1>5

(* An entry that may be kept until it expires leaves the memory as it       *)
(* should be.                                                               *)
LEMMA MemoryKept ==
    ASSUME IInv, NEW d \in Document, NEW entry \in Entry(d), MemoryFrom(d, entry),
           CopyOK(d, entry.body, entry.expiresAt), UNCHANGED <<clock, origin, left>>
    PROVE  /\ DOMAIN memory' = Process
           /\ \A p \in Process : \A k \in DOMAIN memory'[p] : k \in Document /\ memory'[p][k] \in Entry(k)
           /\ MemoryBounded'
<1>1. DOMAIN memory' = Process
  BY DEF MemoryFrom
<1>2. ASSUME NEW p \in Process, NEW k \in DOMAIN memory'[p]
      PROVE  /\ k \in Document /\ memory'[p][k] \in Entry(k)
             /\ CopyOK(k, memory'[p][k].body, memory'[p][k].expiresAt)
  BY DEF MemoryFrom, IInv, TypeOK, MemoryBounded
<1>3. MemoryBounded'
  BY <1>2 DEF MemoryBounded, CopyOK
<1> QED
  BY <1>1, <1>2, <1>3

(* Pruning alone does so as well. *)
LEMMA MemoryPruned ==
    ASSUME IInv, NEW p \in Process, NEW d, NEW kept \in Pruned(memory[p], d),
           memory' = [memory EXCEPT ![p] = [k \in kept |-> @[k]]], UNCHANGED <<clock, origin, left>>
    PROVE  /\ DOMAIN memory' = Process
           /\ \A q \in Process : \A k \in DOMAIN memory'[q] : k \in Document /\ memory'[q][k] \in Entry(k)
           /\ MemoryBounded'
<1>1. DOMAIN memory = Process /\ kept \subseteq DOMAIN memory[p]
  BY PrunedSubset DEF IInv, Shapes
<1>2. DOMAIN memory' = Process
  BY <1>1
<1>3. \A q \in Process : \A k \in DOMAIN memory'[q] : k \in DOMAIN memory[q] /\ memory'[q][k] = memory[q][k]
  BY <1>1
<1>4. \A q \in Process : \A k \in DOMAIN memory'[q] : k \in Document /\ memory'[q][k] \in Entry(k)
  BY <1>3 DEF IInv, TypeOK
<1>5. MemoryBounded'
  BY <1>3 DEF IInv, MemoryBounded, CopyOK
<1> QED
  BY <1>2, <1>4, <1>5

-----------------------------------------------------------------------------
(* The end of a lookup *)

(* What d said may be relied on: it says so still, or has for too short a   *)
(* time not said so.                                                        *)
MayRelyOn(d, body) ==
    /\ body \in Publishable[d]
    /\ origin[d] = body \/ clock <= left[d][body] + MaxDelay + MaxCacheSeconds

LEMMA ReliedOn ==
    ASSUME IInv, NEW d \in Document, NEW body, MayRelyOn(d, body), RelyOn(d, body)
    PROVE  lapse' \in Nat /\ Revocable'
<1>1. /\ clock \in Nat /\ lapse \in Nat /\ lapse <= MaxCacheSeconds + MaxDelay
      /\ left[d][body] \in Nat /\ left[d][body] <= clock
      /\ MaxCacheSeconds \in Nat /\ MaxDelay \in Nat
  BY Constants DEF IInv, TypeOK, Revocable, LeftBefore, MayRelyOn
<1>2. Lapse(d, body) \in Nat /\ Lapse(d, body) <= MaxCacheSeconds + MaxDelay
  BY <1>1 DEF Lapse, MayRelyOn
<1>3. lapse' \in Nat /\ lapse' <= MaxCacheSeconds + MaxDelay
  BY <1>1, <1>2 DEF RelyOn
<1> QED
  BY <1>3 DEF Revocable

(* What rejectReplay remembers and forgets. *)
ReplayOK ==
    /\ DOMAIN replay' = Process
    /\ \A p \in Process : \A k \in DOMAIN replay'[p] : replay'[p][k] \in Nat
    /\ accepted' \in [Process -> [Assertion -> Nat]]
    /\ AcceptedRemembered'
    /\ AssertionOncePerProcess'

LEMMA ReplayUnchanged ==
    ASSUME IInv, UNCHANGED <<clock, replay, accepted>>
    PROVE  ReplayOK
<1>1. AcceptedRemembered' /\ AssertionOncePerProcess'
  BY DEF IInv, AcceptedRemembered, AssertionOncePerProcess
<1> QED
  BY <1>1 DEF IInv, TypeOK, Shapes, ReplayOK

(* What is forgotten is too old. *)
LEMMA ReplayPruned ==
    ASSUME IInv, NEW p \in Process, clock' = clock, accepted' = accepted,
           replay' = [replay EXCEPT ![p] = [k \in Remembered(p) |-> @[k]]]
    PROVE  ReplayOK
<1>1. /\ DOMAIN replay = Process /\ clock \in Nat
      /\ \A q \in Process : \A k \in DOMAIN replay[q] : replay[q][k] \in Nat
  BY DEF IInv, Shapes, TypeOK
<1>2. DOMAIN replay' = Process
  BY <1>1
<1>3. \A q \in Process : \A k \in DOMAIN replay'[q] : k \in DOMAIN replay[q] /\ replay'[q][k] = replay[q][k]
  BY <1>1 DEF Remembered
<1>4. \A q \in Process : \A k \in DOMAIN replay[q] : k \in DOMAIN replay'[q] \/ replay[q][k] <= clock
  BY <1>1 DEF Remembered
<1>5. AcceptedRemembered'
  <2>1. ASSUME NEW q \in Process, NEW a \in Assertion, NEW k, k = <<Claims[a].client, Claims[a].jti>>,
               accepted[q][a] > 0
        PROVE  \/ clock >= RememberUntil(Claims[a])
               \/ k \in DOMAIN replay'[q] /\ replay'[q][k] >= RememberUntil(Claims[a])
    <3>1. RememberUntil(Claims[a]) \in Nat
      BY Constants
    <3>2. \/ clock >= RememberUntil(Claims[a])
          \/ k \in DOMAIN replay[q] /\ replay[q][k] >= RememberUntil(Claims[a])
      BY <2>1 DEF IInv, AcceptedRemembered
    <3> QED
      BY <1>1, <1>3, <1>4, <3>1, <3>2
  <2> QED
    BY <2>1 DEF AcceptedRemembered, RememberUntil
<1> QED
  BY <1>1, <1>2, <1>3, <1>5 DEF IInv, TypeOK, Shapes, ReplayOK, AssertionOncePerProcess

(* An assertion whose claims hold and that is not remembered has not been   *)
(* accepted before, and is remembered from now on.                          *)
LEMMA AssertionAccepted ==
    ASSUME IInv, NEW p \in Process, NEW a \in Assertion, clock' = clock,
           clock < RememberUntil(Claims[a]), ~Replayed(p, Claims[a]), Remember(p, Claims[a]),
           accepted' = [accepted EXCEPT ![p][a] = @ + 1]
    PROVE  ReplayOK
<1> DEFINE id(b) == <<Claims[b].client, Claims[b].jti>>
           until(b) == RememberUntil(Claims[b])
<1>1. /\ DOMAIN replay = Process /\ clock \in Nat
      /\ \A q \in Process : \A k \in DOMAIN replay[q] : replay[q][k] \in Nat
      /\ accepted \in [Process -> [Assertion -> Nat]]
      /\ \A b \in Assertion : until(b) \in Nat
  BY Constants DEF IInv, Shapes, TypeOK
<1>2. \A q \in Process, b \in Assertion :
         accepted[q][b] > 0 =>
            clock >= until(b) \/ (id(b) \in DOMAIN replay[q] /\ replay[q][id(b)] >= until(b))
  BY DEF IInv, AcceptedRemembered
<1>3. ~(id(a) \in DOMAIN replay[p] /\ replay[p][id(a)] > clock)
  BY DEF Replayed, Remembered
<1>4. /\ DOMAIN replay' = Process
      /\ \A q \in Process : q # p => replay'[q] = replay[q]
      /\ id(a) \in DOMAIN replay'[p] /\ replay'[p][id(a)] = until(a)
      /\ \A k \in DOMAIN replay'[p] : k # id(a) => k \in DOMAIN replay[p] /\ replay'[p][k] = replay[p][k]
      /\ \A k \in DOMAIN replay[p] : k # id(a) => k \in DOMAIN replay'[p] \/ replay[p][k] <= clock
  <2> HIDE DEF until, id
  <2>1. replay' = [replay EXCEPT ![p] = PutItem([k \in Remembered(p) |-> replay[p][k]], id(a), until(a))]
    BY DEF Remember, id, until
  <2>2. /\ DOMAIN replay' = Process
        /\ \A q \in Process : q # p => replay'[q] = replay[q]
        /\ replay'[p] = PutItem([k \in Remembered(p) |-> replay[p][k]], id(a), until(a))
    BY <1>1, <2>1
  <2>3. /\ DOMAIN replay'[p] = Remembered(p) \cup {id(a)}
        /\ replay'[p][id(a)] = until(a)
        /\ \A k \in Remembered(p) : k # id(a) => replay'[p][k] = replay[p][k]
    BY <2>2 DEF PutItem
  <2> QED
    BY <1>1, <2>2, <2>3 DEF Remembered
<1>5. /\ accepted' \in [Process -> [Assertion -> Nat]]
      /\ accepted'[p][a] = accepted[p][a] + 1
      /\ \A q \in Process, b \in Assertion : q # p \/ b # a => accepted'[q][b] = accepted[q][b]
  BY <1>1
<1> HIDE DEF until, id
<1>6. accepted[p][a] = 0
  <2>1. accepted[p][a] \in Nat /\ until(a) \in Nat /\ clock < until(a)
    BY <1>1 DEF until
  <2>2. ~(accepted[p][a] > 0)
    BY <1>1, <1>2, <1>3, <2>1
  <2> QED
    BY <2>1, <2>2
<1>7. ASSUME NEW q \in Process, NEW b \in Assertion, accepted'[q][b] > 0
      PROVE  clock >= until(b) \/ (id(b) \in DOMAIN replay'[q] /\ replay'[q][id(b)] >= until(b))
  <2>1. CASE q = p /\ b = a
    BY <1>1, <1>4, <2>1
  <2>2. CASE q # p
    BY <1>2, <1>4, <1>5, <1>7, <2>2
  <2>3. CASE q = p /\ b # a
    <3>1. clock >= until(b) \/ (id(b) \in DOMAIN replay[p] /\ replay[p][id(b)] >= until(b))
      BY <1>2, <1>5, <1>7, <2>3
    <3>2. until(b) \in Nat
      BY <1>1
    <3>3. CASE id(b) = id(a)
      BY <1>1, <1>3, <3>1, <3>2, <3>3
    <3>4. CASE id(b) # id(a)
      BY <1>1, <1>4, <2>3, <3>1, <3>2, <3>4
    <3> QED
      BY <3>3, <3>4
  <2> QED
    BY <2>1, <2>2, <2>3
<1>8. AcceptedRemembered'
  BY <1>7 DEF AcceptedRemembered, RememberUntil, until, id
<1>9. AssertionOncePerProcess'
  BY <1>5, <1>6 DEF IInv, AssertionOncePerProcess
<1>10. \A q \in Process : \A k \in DOMAIN replay'[q] : replay'[q][k] \in Nat
  BY <1>1, <1>4
<1> QED
  BY <1>4, <1>5, <1>8, <1>9, <1>10 DEF ReplayOK

(* A lookup ends with something that may be relied on: the request goes on  *)
(* to the keys of the client, or is answered.                               *)
LEMMA LookupEnds ==
    ASSUME IInv, NEW w \in Worker, w \in DOMAIN call, NEW body, Resolved(w, body),
           MayRelyOn(call[w].document, body), UNCHANGED <<clock, origin, left>>
    PROVE  OthersKept(w) /\ NewCallOK(w) /\ ReplayOK /\ lapse' \in Nat /\ Revocable'
<1>1. /\ call[w] \in Call /\ call[w].document \in Document /\ call[w].process \in Process
      /\ call[w].assertion \in Assertion \cup {None}
      /\ call[w].document[1] = "jwks" => call[w].assertion \in Assertion
  BY DEF IInv, CallOK, Call
<1>2. call[w].document[1] \in {"metadata", "jwks"} /\ call[w].document[2] \in Client
  BY <1>1 DEF Document
<1>3. CASE call[w].document[1] = "metadata"
  <2>1. ClientResolved(w, body)
    BY <1>3 DEF Resolved
  <2>2. lapse' \in Nat /\ Revocable'
    BY <1>1, <2>1, ReliedOn DEF ClientResolved
  <2>3. ReplayOK
    BY <2>1, ReplayUnchanged DEF ClientResolved
  <2>4. CASE Answer(w)
    BY <2>2, <2>3, <2>4, AnswerKeeps
  <2>5. CASE ~Answer(w)
    <3> DEFINE next == [call[w] EXCEPT !.document = <<"jwks", call[w].document[2]>>, !.pc = "lookup",
                                       !.body = None, !.expiresAt = 0, !.until = 0]
    <3>1. Continue(w, next) /\ call[w].assertion # None
      BY <2>1, <2>5 DEF ClientResolved
    <3>2. <<"jwks", call[w].document[2]>> \in Document
      BY <1>2 DEF Document
    <3>3. next \in Call /\ next.pc = "lookup" /\ next.assertion = call[w].assertion
      <4>1. next \in Call
        <5>1. 0 \in Nat /\ "lookup" \in Pc
          BY DEF Pc
        <5> QED
          BY <1>1, <3>2, <5>1, CallType, CallContinues
      <4>2. next.pc = "lookup" /\ next.assertion = call[w].assertion
        BY <1>1 DEF Call
      <4> QED
        BY <4>1, <4>2
    <3> HIDE DEF next
    <3>4. OthersKept(w) /\ call'[w] = next
      BY <3>1, ContinueKeeps
    <3>5. CallOK(w)'
      BY <1>1, <3>1, <3>3, <3>4 DEF CallOK
    <3> QED
      BY <2>2, <2>3, <3>4, <3>5 DEF NewCallOK
  <2> QED
    BY <2>4, <2>5
<1>4. CASE call[w].document[1] = "jwks"
  <2> DEFINE p == call[w].process
             a == call[w].assertion
  <2>1. AssertionChecked(w, body) /\ a \in Assertion /\ p \in Process
    BY <1>1, <1>4 DEF Resolved
  <2>2. lapse' \in Nat /\ Revocable'
    BY <1>1, <2>1, ReliedOn DEF AssertionChecked
  <2>3. ReplayOK
    <3>1. CASE UNCHANGED <<replay, accepted>>
      BY <3>1, ReplayUnchanged
    <3>2. CASE replay' = [replay EXCEPT ![p] = [k \in Remembered(p) |-> @[k]]] /\ accepted' = accepted
      BY <2>1, <3>2, ReplayPruned
    <3>3. CASE /\ ClaimsValid(call[w].document[2], body.keys, Claims[a])
               /\ ~Replayed(p, Claims[a])
               /\ Remember(p, Claims[a])
               /\ accepted' = [accepted EXCEPT ![p][a] = @ + 1]
      <4>1. clock < RememberUntil(Claims[a])
        BY <3>3 DEF ClaimsValid, RememberUntil
      <4> QED
        BY <2>1, <3>3, <4>1, AssertionAccepted
    <3> QED
      BY <2>1, <3>1, <3>2, <3>3 DEF AssertionChecked
  <2> QED
    BY <2>1, <2>2, <2>3, AnswerKeeps DEF AssertionChecked
<1> QED
  BY <1>2, <1>3, <1>4

-----------------------------------------------------------------------------
(* The steps of a request *)

(* What is written about a request under way. *)
LEMMA CallFacts ==
    ASSUME IInv, NEW w \in Worker, w \in DOMAIN call
    PROVE  /\ call[w] \in Call /\ call[w].document \in Document /\ call[w].process \in Process
           /\ call[w].expiresAt \in Nat /\ call[w].until \in Nat
           /\ call[w].document[1] = "jwks" => call[w].assertion \in Assertion
           /\ clock \in Nat
           /\ CallOK(w)
<1>1. CallOK(w) /\ call[w] \in Call /\ clock \in Nat
  BY DEF IInv, CallOK, TypeOK
<1>2. /\ call[w].document \in Document /\ call[w].process \in Process
      /\ call[w].expiresAt \in Nat /\ call[w].until \in Nat
  BY <1>1, CallType
<1> QED
  BY <1>1, <1>2 DEF CallOK

(* A request goes on with a copy of no document in hand. *)
LEMMA GoesOnEmptyHanded ==
    ASSUME IInv, NEW w \in Worker, NEW next \in Call, Continue(w, next),
           next.pc \in {"lookup", "read", "fetch"},
           next.document[1] = "jwks" => next.assertion \in Assertion
    PROVE  OthersKept(w) /\ NewCallOK(w)
<1>1. OthersKept(w) /\ call'[w] = next
  BY ContinueKeeps
<1> QED
  BY <1>1 DEF NewCallOK, CallOK

LEMMA ReceiveStep ==
    ASSUME IInv, NEW w \in Worker, NEW p \in Process, NEW client \in Client,
           NEW assertion \in Assertion \cup {None}, Receive(w, p, client, assertion)
    PROVE  IInv'
<1>1. PICK next : next = [process |-> p, document |-> <<"metadata", client>>, assertion |-> assertion,
                          pc |-> "lookup", body |-> None, expiresAt |-> 0, until |-> 0]
  OBVIOUS
<1>2. <<"metadata", client>> \in Document
  BY DEF Document
<1>3. next \in Call
  BY <1>1, <1>2, CallType DEF Pc
<1>4. next.pc = "lookup" /\ next.document[1] = "metadata"
  BY <1>1
<1>5. OthersKept(w) /\ NewCallOK(w)
  BY <1>1, <1>3, <1>4, GoesOnEmptyHanded DEF Receive
<1> QED
  BY <1>5, QuietStep DEF Receive

(* An entry of the memory that is not pruned may be relied on. *)
LEMMA LookupStep ==
    ASSUME IInv, NEW w \in Worker, Lookup(w)
    PROVE  IInv'
<1>1. PICK p : p = call[w].process
  OBVIOUS
<1>2. PICK d : d = call[w].document
  OBVIOUS
<1>3. PICK kept \in Pruned(memory[p], d) :
         /\ memory' = [memory EXCEPT ![p] = [k \in kept |-> @[k]]]
         /\ IF d \in kept
              THEN Resolved(w, memory[p][d].body)
              ELSE /\ Continue(w, [call[w] EXCEPT !.pc = IF backend = "dynamodb" THEN "read" ELSE "fetch"])
                   /\ UNCHANGED <<replay, accepted, lapse>>
  BY <1>1, <1>2 DEF Lookup
<1>4. w \in DOMAIN call /\ UNCHANGED <<backend, clock, origin, left, table>>
  BY DEF Lookup
<1>5. p \in Process /\ d \in Document /\ call[w] \in Call /\ clock \in Nat
  BY <1>1, <1>2, <1>4, CallFacts
<1>6. /\ DOMAIN memory' = Process
      /\ \A q \in Process : \A k \in DOMAIN memory'[q] : k \in Document /\ memory'[q][k] \in Entry(k)
      /\ MemoryBounded'
  BY <1>3, <1>4, <1>5, MemoryPruned
<1>7. /\ DOMAIN table' \subseteq Document /\ \A k \in DOMAIN table' : table'[k] \in Entry(k)
      /\ TableBounded'
  BY <1>4 DEF IInv, TypeOK, TableBounded, CopyOK
<1>8. OthersKept(w) /\ NewCallOK(w) /\ ReplayOK /\ lapse' \in Nat /\ Revocable'
  <2>1. CASE d \in kept
    <3>1. d \in DOMAIN memory[p] /\ memory[p][d].expiresAt >= clock /\ memory[p][d].expiresAt \in Nat
      <4>1. kept \subseteq DOMAIN memory[p]
              /\ (memory[p][d].expiresAt > clock \/ memory[p][d].expiresAt = clock)
        BY <1>3, <2>1, PrunedSubset
      <4>2. memory[p][d] \in Entry(d)
        BY <1>5, <2>1, <4>1 DEF IInv, TypeOK
      <4> QED
        BY <1>5, <2>1, <4>1, <4>2 DEF Entry
    <3>2. CopyOK(d, memory[p][d].body, memory[p][d].expiresAt)
      BY <1>5, <3>1 DEF IInv, MemoryBounded
    <3>3. MayRelyOn(d, memory[p][d].body)
      <4>1. memory[p][d].body \in Publishable[d]
        BY <3>2 DEF CopyOK
      <4>2. left[d][memory[p][d].body] \in Nat /\ MaxDelay \in Nat /\ MaxCacheSeconds \in Nat
        BY <1>5, <4>1, Constants DEF IInv, TypeOK
      <4> QED
        BY <1>5, <3>1, <3>2, <4>1, <4>2 DEF CopyOK, MayRelyOn
    <3>4. Resolved(w, memory[p][d].body)
      BY <1>3, <2>1
    <3> QED
      BY <1>2, <1>4, <3>3, <3>4, LookupEnds
  <2>2. CASE d \notin kept
    <3>1. PICK pc \in {"read", "fetch"} : pc = IF backend = "dynamodb" THEN "read" ELSE "fetch"
      OBVIOUS
    <3>2. PICK next : next = [call[w] EXCEPT !.pc = pc]
      OBVIOUS
    <3>3. next \in Call
      <4>1. pc \in Pc /\ 0 \in Nat
        BY <3>1 DEF Pc
      <4> QED
        BY <1>5, <3>2, <4>1, CallType, CallContinues
    <3>4. next.pc = pc /\ next.document = call[w].document /\ next.assertion = call[w].assertion
      BY <1>5, <3>2, CallType
    <3>5. Continue(w, next) /\ UNCHANGED <<replay, accepted, lapse>>
      BY <1>3, <2>2, <3>1, <3>2
    <3>6. OthersKept(w) /\ NewCallOK(w)
      BY <1>4, <3>1, <3>3, <3>4, <3>5, CallFacts, GoesOnEmptyHanded
    <3>7. ReplayOK
      BY <1>4, <3>5, ReplayUnchanged
    <3> QED
      BY <3>5, <3>6, <3>7 DEF IInv, TypeOK, Revocable
  <2> QED
    BY <2>1, <2>2
<1> QED
  BY <1>4, <1>6, <1>7, <1>8, WorkerStep DEF ReplayOK

(* The table hands out a copy that may be used as long as the one it keeps. *)
LEMMA ReadTableStep ==
    ASSUME IInv, NEW w \in Worker, ReadTable(w)
    PROVE  IInv'
<1>1. w \in DOMAIN call /\ UNCHANGED <<backend, clock, origin, left, memory, table, replay, accepted, lapse>>
  BY DEF ReadTable
<1>2. PICK d \in Document : d = call[w].document
  BY <1>1, CallFacts
<1>3. OthersKept(w) /\ NewCallOK(w)
  <2>1. CASE HasItem(table, d)
    <3>1. PICK body \in Body(d) : body = table[d].body
      BY <2>1 DEF IInv, TypeOK, Entry, HasItem
    <3>2. PICK e \in Nat : e = table[d].expiresAt
      BY <2>1 DEF IInv, TypeOK, Entry, HasItem
    <3>3. CopyOK(d, body, e)
      BY <2>1, <3>1, <3>2 DEF IInv, TableBounded, HasItem
    <3>4. PICK next : next = [call[w] EXCEPT !.pc = "cached", !.body = body, !.expiresAt = e]
      OBVIOUS
    <3>5. Continue(w, next)
      BY <1>2, <2>1, <3>1, <3>2, <3>4 DEF ReadTable
    <3>6. next \in Call
      <4>1. "cached" \in Pc /\ body \in AnyBody /\ 0 \in Nat
        BY <1>2, <3>1, CallType DEF Pc
      <4> QED
        BY <1>1, <3>2, <3>4, <4>1, CallFacts, CallContinues
    <3>7. /\ next.pc = "cached" /\ next.document = d /\ next.assertion = call[w].assertion
          /\ next.body = body /\ next.expiresAt = e
      BY <1>1, <1>2, <3>4, CallFacts, CallType
    <3>8. OthersKept(w) /\ call'[w] = next
      BY <3>5, ContinueKeeps
    <3>9. CopyOK(d, body, e)'
      BY <1>1, <3>3 DEF CopyOK
    <3>10. CallOK(w)'
      BY <1>1, <1>2, <3>6, <3>7, <3>8, <3>9, CallFacts DEF CallOK
    <3> QED
      BY <3>8, <3>10 DEF NewCallOK
  <2>2. CASE ~HasItem(table, d)
    <3>1. PICK next : next = [call[w] EXCEPT !.pc = "fetch"]
      OBVIOUS
    <3>2. next \in Call
      <4>1. "fetch" \in Pc /\ 0 \in Nat
        BY DEF Pc
      <4> QED
        BY <1>1, <1>2, <3>1, <4>1, CallFacts, CallType, CallContinues
    <3>3. next.pc = "fetch" /\ next.document = call[w].document /\ next.assertion = call[w].assertion
      BY <1>1, <3>1, CallFacts, CallType
    <3>4. Continue(w, next)
      BY <1>2, <2>2, <3>1 DEF ReadTable
    <3> QED
      BY <1>1, <3>2, <3>3, <3>4, CallFacts, GoesOnEmptyHanded
  <2> QED
    BY <2>1, <2>2
<1> QED
  BY <1>1, <1>3, QuietStep

(* A copy that has time left may be relied on. *)
LEMMA CopyRelied ==
    ASSUME IInv, NEW d \in Document, NEW body, NEW e \in Nat, CopyOK(d, body, e), clock <= e
    PROVE  MayRelyOn(d, body)
<1>1. /\ body \in Publishable[d] /\ left[d][body] \in Nat /\ clock \in Nat
      /\ MaxDelay \in Nat /\ MaxCacheSeconds \in Nat
  BY Constants DEF IInv, TypeOK, CopyOK
<1> QED
  BY <1>1 DEF CopyOK, MayRelyOn

(* So may an answer that arrives in time. *)
LEMMA TransferRelied ==
    ASSUME IInv, NEW d \in Document, NEW body, NEW u \in Nat, TransferOK(d, body, u), clock <= u
    PROVE  MayRelyOn(d, body)
<1>1. /\ body \in Publishable[d] /\ left[d][body] \in Nat /\ clock \in Nat
      /\ MaxDelay \in Nat /\ MaxCacheSeconds \in Nat
  BY Constants DEF IInv, TypeOK, TransferOK
<1> QED
  BY <1>1 DEF TransferOK, MayRelyOn

(* writeExpiringCache with the seconds that the copy has left. *)
LEMMA MemoryWrittenCopy ==
    ASSUME IInv, NEW p \in Process, NEW d \in Document, NEW body \in Body(d), NEW seconds \in Nat,
           WriteMemory(p, d, body, seconds), seconds # 0 => CopyOK(d, body, clock + seconds),
           UNCHANGED <<clock, origin, left>>
    PROVE  /\ DOMAIN memory' = Process
           /\ \A q \in Process : \A k \in DOMAIN memory'[q] : k \in Document /\ memory'[q][k] \in Entry(k)
           /\ MemoryBounded'
<1>1. PICK e \in Nat : e = clock + seconds
  BY DEF IInv, TypeOK
<1>2. PICK entry \in Entry(d) : entry = [body |-> body, expiresAt |-> e]
  BY DEF Entry
<1>3. entry.body = body /\ entry.expiresAt = e
  BY <1>2
<1>4. /\ DOMAIN memory' = Process
      /\ \A q \in Process : \A k \in DOMAIN memory'[q] :
            \/ k \in DOMAIN memory[q] /\ memory'[q][k] = memory[q][k]
            \/ k = d /\ seconds # 0 /\ memory'[q][k] = entry
  BY <1>1, <1>2, MemoryWritten
<1>5. CASE seconds # 0
  BY <1>1, <1>3, <1>4, <1>5, MemoryKept DEF MemoryFrom
<1>6. CASE seconds = 0
  <2>1. \A q \in Process : \A k \in DOMAIN memory'[q] : k \in DOMAIN memory[q] /\ memory'[q][k] = memory[q][k]
    BY <1>4, <1>6
  <2>2. \A q \in Process : \A k \in DOMAIN memory'[q] : k \in Document /\ memory'[q][k] \in Entry(k)
    BY <2>1 DEF IInv, TypeOK
  <2>3. MemoryBounded'
    BY <2>1 DEF IInv, MemoryBounded, CopyOK
  <2> QED
    BY <1>4, <2>2, <2>3
<1> QED
  BY <1>5, <1>6

(* The table is left alone. *)
LEMMA TableKept ==
    ASSUME IInv, UNCHANGED <<clock, origin, left, table>>
    PROVE  /\ DOMAIN table' \subseteq Document /\ \A d \in DOMAIN table' : table'[d] \in Entry(d)
           /\ TableBounded'
  BY DEF IInv, TypeOK, TableBounded, CopyOK

(* A copy from the table is written to the memory with the time it has left. *)
LEMMA CachedEntryStep ==
    ASSUME IInv, NEW w \in Worker, CachedEntry(w)
    PROVE  IInv'
<1>1. w \in DOMAIN call /\ call[w].pc = "cached" /\ UNCHANGED <<backend, clock, origin, left, table>>
  BY DEF CachedEntry
<1>2. PICK d \in Document : d = call[w].document
  BY <1>1, CallFacts
<1>3. PICK p \in Process : p = call[w].process
  BY <1>1, CallFacts
<1>4. PICK e \in Nat : e = call[w].expiresAt
  BY <1>1, CallFacts
<1>5. PICK body \in Body(d) : body = call[w].body
  BY <1>1, <1>2, CallFacts DEF CallOK
<1>6. clock \in Nat /\ CopyOK(d, body, e)
  BY <1>1, <1>2, <1>4, <1>5, CallFacts DEF CallOK
<1>7. CASE e > clock
  <2>1. PICK seconds \in Nat : seconds = e - clock
    BY <1>6, <1>7
  <2>2. clock + seconds = e
    BY <1>6, <2>1
  <2>3. WriteMemory(p, d, body, seconds) /\ Resolved(w, body)
    BY <1>2, <1>3, <1>4, <1>5, <1>7, <2>1 DEF CachedEntry, CacheSecondsRemaining
  <2>4. MayRelyOn(d, body)
    BY <1>6, <1>7, CopyRelied
  <2>5. OthersKept(w) /\ NewCallOK(w) /\ ReplayOK /\ lapse' \in Nat /\ Revocable'
    BY <1>1, <1>2, <2>3, <2>4, LookupEnds
  <2>6. /\ DOMAIN memory' = Process
        /\ \A q \in Process : \A k \in DOMAIN memory'[q] : k \in Document /\ memory'[q][k] \in Entry(k)
        /\ MemoryBounded'
    BY <1>1, <1>6, <2>2, <2>3, MemoryWrittenCopy
  <2> QED
    BY <1>1, <2>5, <2>6, TableKept, WorkerStep DEF ReplayOK
<1>8. CASE ~(e > clock)
  <2>1. PICK next : next = [call[w] EXCEPT !.pc = "fetch", !.body = None, !.expiresAt = 0]
    OBVIOUS
  <2>2. Continue(w, next) /\ UNCHANGED <<memory, replay, accepted, lapse>>
    BY <1>4, <1>8, <2>1 DEF CachedEntry
  <2>3. next \in Call
    <3>1. "fetch" \in Pc /\ 0 \in Nat
      BY DEF Pc
    <3> QED
      BY <1>1, <1>2, <2>1, <3>1, CallFacts, CallType, CallContinues
  <2>4. next.pc = "fetch" /\ next.document = call[w].document /\ next.assertion = call[w].assertion
    BY <1>1, <2>1, CallFacts, CallType
  <2>5. OthersKept(w) /\ NewCallOK(w)
    BY <1>1, <2>2, <2>3, <2>4, CallFacts, GoesOnEmptyHanded
  <2> QED
    BY <1>1, <2>2, <2>5, QuietStep
<1> QED
  BY <1>7, <1>8

(* What the server answers is what the document says when it answers. *)
LEMMA FetchStep ==
    ASSUME IInv, NEW w \in Worker, Fetch(w)
    PROVE  IInv'
<1>1. /\ w \in DOMAIN call /\ origin[call[w].document] # None
      /\ UNCHANGED <<backend, clock, origin, left, memory, table, replay, accepted, lapse>>
  BY DEF Fetch
<1>2. PICK d \in Document : d = call[w].document
  BY <1>1, CallFacts
<1>3. PICK body \in Body(d) : body = origin[d]
  BY <1>1, <1>2, Constants DEF IInv, TypeOK
<1>4. PICK u \in Nat : u = clock + MaxDelay
  BY Constants DEF IInv, TypeOK
<1>5. TransferOK(d, body, u)
  BY <1>3, <1>4 DEF TransferOK, IInv, TypeOK
<1>6. PICK next : next = [call[w] EXCEPT !.pc = "fetched", !.body = body, !.until = u]
  OBVIOUS
<1>7. Continue(w, next)
  BY <1>2, <1>3, <1>4, <1>6 DEF Fetch
<1>8. next \in Call
  <2>1. "fetched" \in Pc /\ body \in AnyBody /\ 0 \in Nat
    BY <1>2, <1>3, CallType DEF Pc
  <2> QED
    BY <1>1, <1>4, <1>6, <2>1, CallFacts, CallContinues
<1>9. /\ next.pc = "fetched" /\ next.document = d /\ next.assertion = call[w].assertion
      /\ next.body = body /\ next.until = u
  BY <1>1, <1>2, <1>6, CallFacts, CallType
<1>10. OthersKept(w) /\ call'[w] = next
  BY <1>7, ContinueKeeps
<1>11. TransferOK(d, body, u)'
  BY <1>1, <1>5 DEF TransferOK
<1>12. CallOK(w)'
  BY <1>1, <1>2, <1>8, <1>9, <1>10, <1>11, CallFacts DEF CallOK
<1> QED
  BY <1>1, <1>10, <1>12, QuietStep DEF NewCallOK

(* A transfer that ends in time makes a copy that may live for a lifetime.  *)
LEMMA TransferEnds ==
    ASSUME IInv, NEW d \in Document, NEW body, NEW u \in Nat, TransferOK(d, body, u), clock <= u,
           NEW seconds \in Nat, seconds <= MaxCacheSeconds, NEW e \in Nat, e <= clock + seconds
    PROVE  CopyOK(d, body, e)
<1>1. /\ body \in Publishable[d] /\ left[d][body] \in Nat /\ clock \in Nat
      /\ MaxDelay \in Nat /\ MaxCacheSeconds \in Nat
  BY Constants DEF IInv, TypeOK, TransferOK
<1> QED
  BY <1>1 DEF TransferOK, CopyOK

LEMMA FetchedStep ==
    ASSUME IInv, NEW w \in Worker, Fetched(w)
    PROVE  IInv'
<1>1. /\ w \in DOMAIN call /\ call[w].pc = "fetched" /\ clock <= call[w].until
      /\ UNCHANGED <<backend, clock, origin, left, table>>
  BY DEF Fetched
<1>2. PICK d \in Document : d = call[w].document
  BY <1>1, CallFacts
<1>3. PICK p \in Process : p = call[w].process
  BY <1>1, CallFacts
<1>4. PICK u \in Nat : u = call[w].until
  BY <1>1, CallFacts
<1>5. PICK body \in Body(d) : body = call[w].body
  BY <1>1, <1>2, CallFacts DEF CallOK
<1>6. clock \in Nat /\ TransferOK(d, body, u) /\ clock <= u
  BY <1>1, <1>2, <1>4, <1>5, CallFacts DEF CallOK
<1>7. PICK seconds \in Lifetimes[d] :
         /\ WriteMemory(p, d, body, seconds)
         /\ IF backend = "dynamodb"
              THEN /\ Continue(w, [call[w] EXCEPT !.pc = "write",
                                      !.expiresAt = IF seconds = 0 THEN 0 ELSE clock + seconds])
                   /\ UNCHANGED <<replay, accepted, lapse>>
              ELSE Resolved(w, body)
  BY <1>2, <1>3, <1>5 DEF Fetched
<1>8. seconds \in Nat /\ seconds <= MaxCacheSeconds
  BY Constants
<1>9. /\ DOMAIN memory' = Process
      /\ \A q \in Process : \A k \in DOMAIN memory'[q] : k \in Document /\ memory'[q][k] \in Entry(k)
      /\ MemoryBounded'
  <2>1. PICK e \in Nat : e = clock + seconds
    BY <1>6, <1>8
  <2>2. CopyOK(d, body, clock + seconds)
    BY <1>6, <1>8, <2>1, TransferEnds
  <2> QED
    BY <1>1, <1>7, <1>8, <2>2, MemoryWrittenCopy
<1>10. OthersKept(w) /\ NewCallOK(w) /\ ReplayOK /\ lapse' \in Nat /\ Revocable'
  <2>1. CASE backend # "dynamodb"
    <3>1. MayRelyOn(d, body)
      BY <1>6, TransferRelied
    <3> QED
      BY <1>1, <1>2, <1>7, <2>1, <3>1, LookupEnds
  <2>2. CASE backend = "dynamodb"
    <3>1. PICK e \in Nat : e = IF seconds = 0 THEN 0 ELSE clock + seconds
      BY <1>6, <1>8
    <3>2. CopyOK(d, body, e)
      <4>1. e <= clock + seconds
        BY <1>6, <1>8, <3>1
      <4> QED
        BY <1>6, <1>8, <4>1, TransferEnds
    <3>3. PICK next : next = [call[w] EXCEPT !.pc = "write", !.expiresAt = e]
      OBVIOUS
    <3>4. Continue(w, next) /\ UNCHANGED <<replay, accepted, lapse>>
      BY <1>7, <2>2, <3>1, <3>3
    <3>5. next \in Call
      <4>1. "write" \in Pc /\ 0 \in Nat
        BY DEF Pc
      <4>2. call[w] \in Call /\ e \in Nat /\ None \in AnyBody
        BY <1>1, <3>1, CallFacts, CallType
      <4> QED
        BY <3>3, <4>1, <4>2, CallContinues
    <3>6. /\ next.pc = "write" /\ next.document = d /\ next.assertion = call[w].assertion
          /\ next.body = body /\ next.expiresAt = e /\ next.until = u
      BY <1>1, <1>2, <1>4, <1>5, <3>3, CallFacts, CallType
    <3>7. OthersKept(w) /\ call'[w] = next
      BY <3>4, ContinueKeeps
    <3>8. CopyOK(d, body, e)' /\ TransferOK(d, body, u)'
      BY <1>1, <1>6, <3>2 DEF CopyOK, TransferOK
    <3>9. CallOK(w)'
      BY <1>1, <1>2, <3>5, <3>6, <3>7, <3>8, CallFacts DEF CallOK
    <3>10. ReplayOK
      BY <1>1, <3>4, ReplayUnchanged
    <3> QED
      BY <3>4, <3>7, <3>9, <3>10 DEF NewCallOK, IInv, TypeOK, Revocable
  <2> QED
    BY <2>1, <2>2
<1> QED
  BY <1>1, <1>9, <1>10, TableKept, WorkerStep DEF ReplayOK

(* The table is given a copy that may live for the lifetime it was fetched  *)
(* with, however late the write arrives.                                    *)
LEMMA WriteTableStep ==
    ASSUME IInv, NEW w \in Worker, WriteTable(w)
    PROVE  IInv'
<1>1. /\ w \in DOMAIN call /\ call[w].pc = "write"
      /\ UNCHANGED <<backend, clock, origin, left, memory>>
  BY DEF WriteTable
<1>2. PICK d \in Document : d = call[w].document
  BY <1>1, CallFacts
<1>3. PICK e \in Nat : e = call[w].expiresAt
  BY <1>1, CallFacts
<1>4. PICK u \in Nat : u = call[w].until
  BY <1>1, CallFacts
<1>5. PICK body \in Body(d) : body = call[w].body
  BY <1>1, <1>2, CallFacts DEF CallOK
<1>6. clock \in Nat /\ CopyOK(d, body, e) /\ TransferOK(d, body, u)
  BY <1>1, <1>2, <1>3, <1>4, <1>5, CallFacts DEF CallOK
<1>7. /\ table' = IF e = 0 THEN DeleteItem(table, d) ELSE PutItem(table, d, [body |-> body, expiresAt |-> e])
      /\ IF clock <= u THEN Resolved(w, body) ELSE Answer(w) /\ UNCHANGED <<replay, accepted, lapse>>
  BY <1>2, <1>3, <1>4, <1>5 DEF WriteTable
<1>8. /\ DOMAIN table' \subseteq Document /\ \A k \in DOMAIN table' : table'[k] \in Entry(k)
      /\ TableBounded'
  <2>1. PICK entry \in Entry(d) : entry = [body |-> body, expiresAt |-> e]
    BY DEF Entry
  <2>2. entry.body = body /\ entry.expiresAt = e
    BY <2>1
  <2>3. \A k \in DOMAIN table' :
           \/ k \in DOMAIN table /\ table'[k] = table[k]
           \/ k = d /\ table'[k] = entry
    <3>1. CASE e = 0
      BY <1>7, <3>1 DEF DeleteItem
    <3>2. CASE e # 0
      BY <1>7, <2>1, <3>2 DEF PutItem
    <3> QED
      BY <3>1, <3>2
  <2>4. DOMAIN table' \subseteq Document /\ \A k \in DOMAIN table' : table'[k] \in Entry(k)
    BY <2>3 DEF IInv, TypeOK
  <2>5. \A k \in DOMAIN table' : CopyOK(k, table'[k].body, table'[k].expiresAt)
    BY <1>6, <2>2, <2>3 DEF IInv, TableBounded
  <2>6. TableBounded'
    BY <1>1, <2>5 DEF TableBounded, CopyOK
  <2> QED
    BY <2>4, <2>6
<1>9. OthersKept(w) /\ NewCallOK(w) /\ ReplayOK /\ lapse' \in Nat /\ Revocable'
  <2>1. CASE clock <= u
    <3>1. MayRelyOn(d, body)
      BY <1>6, <2>1, TransferRelied
    <3> QED
      BY <1>1, <1>2, <1>7, <2>1, <3>1, LookupEnds
  <2>2. CASE ~(clock <= u)
    <3>1. Answer(w) /\ UNCHANGED <<replay, accepted, lapse>>
      BY <1>7, <2>2
    <3>2. ReplayOK
      BY <1>1, <3>1, ReplayUnchanged
    <3> QED
      BY <3>1, <3>2, AnswerKeeps DEF IInv, TypeOK, Revocable
  <2> QED
    BY <2>1, <2>2
<1>10. /\ DOMAIN memory' = Process
       /\ \A q \in Process : \A k \in DOMAIN memory'[q] : k \in Document /\ memory'[q][k] \in Entry(k)
       /\ MemoryBounded'
  BY <1>1 DEF IInv, TypeOK, Shapes, MemoryBounded, CopyOK
<1> QED
  BY <1>1, <1>8, <1>9, <1>10, WorkerStep DEF ReplayOK

LEMMA CallEndsStep ==
    ASSUME IInv, NEW w \in Worker, CallEnds(w)
    PROVE  IInv'
  BY AnswerKeeps, QuietStep DEF CallEnds

-----------------------------------------------------------------------------
(* The other steps *)

(* A process that starts anew has forgotten the assertions it accepted, and *)
(* counts them from nought.                                                 *)
LEMMA RestartStep ==
    ASSUME IInv, NEW p \in Process, Restart(p)
    PROVE  IInv'
<1>1. /\ UNCHANGED <<backend, clock, origin, left, table, lapse>>
      /\ memory' = [memory EXCEPT ![p] = EmptyTable]
      /\ replay' = [replay EXCEPT ![p] = EmptyTable]
      /\ accepted' = [accepted EXCEPT ![p] = [a \in Assertion |-> 0]]
      /\ call' = [w \in {v \in DOMAIN call : call[v].process # p} |-> call[w]]
  BY DEF Restart
<1>2. DOMAIN memory = Process /\ DOMAIN replay = Process /\ accepted \in [Process -> [Assertion -> Nat]]
  BY DEF IInv, Shapes
<1>3. \A v \in DOMAIN call' : v \in DOMAIN call /\ call'[v] = call[v]
  BY <1>1
<1>4. \A v \in DOMAIN call' : CallOK(v)'
  BY <1>1, <1>3, CallKept
<1>5. /\ DOMAIN memory' = Process /\ DOMAIN replay' = Process
      /\ \A q \in Process : \A k \in DOMAIN memory'[q] : k \in DOMAIN memory[q] /\ memory'[q][k] = memory[q][k]
      /\ \A q \in Process : q # p => replay'[q] = replay[q]
      /\ \A k \in DOMAIN replay'[p] : FALSE
  BY <1>1, <1>2 DEF EmptyTable
<1>6. /\ accepted' \in [Process -> [Assertion -> Nat]]
      /\ \A q \in Process, a \in Assertion : accepted'[q][a] = IF q = p THEN 0 ELSE accepted[q][a]
  BY <1>1, <1>2
<1>7. TypeOK'
  <2>1. \A q \in Process :
           /\ \A d \in DOMAIN memory'[q] : d \in Document /\ memory'[q][d] \in Entry(d)
           /\ \A k \in DOMAIN replay'[q] : replay'[q][k] \in Nat
           /\ accepted'[q] \in [Assertion -> Nat]
    BY <1>5, <1>6 DEF IInv, TypeOK
  <2>2. DOMAIN call' \subseteq Worker
    BY <1>3 DEF IInv, TypeOK
  <2>3. \A v \in DOMAIN call' :
           /\ call'[v] \in Call
           /\ call'[v].pc \in {"cached", "fetched", "write"} => call'[v].body \in Body(call'[v].document)
    BY <1>4 DEF CallOK
  <2> QED
    BY <1>1, <2>1, <2>2, <2>3 DEF IInv, TypeOK
<1>8. Shapes' /\ LeftBefore' /\ Revocable'
  BY <1>1, <1>5, <1>6 DEF IInv, Shapes, LeftBefore, Revocable
<1>9. MemoryBounded' /\ TableBounded'
  BY <1>1, <1>5 DEF IInv, MemoryBounded, TableBounded, CopyOK
<1>10. AssertionOncePerProcess'
  BY <1>6 DEF IInv, AssertionOncePerProcess
<1>11. AcceptedRemembered'
  BY <1>1, <1>5, <1>6 DEF IInv, AcceptedRemembered
<1> QED
  BY <1>4, <1>7, <1>8, <1>9, <1>10, <1>11 DEF IInv

(* Copies and transfers are as they should be after a step that changes     *)
(* documents or the time, if what is known about them is preserved.         *)
LEMMA BoundsKept ==
    ASSUME IInv, UNCHANGED <<backend, memory, replay, call, accepted, lapse>>,
           clock' \in Nat, clock <= clock',
           \A d \in Document : origin'[d] \in Publishable[d] /\ left'[d] \in [Publishable[d] -> Nat],
           DOMAIN origin' = Document, DOMAIN left' = Document, LeftBefore',
           \A d \in DOMAIN table' : d \in DOMAIN table /\ table'[d] = table[d],
           \A body : \A d \in Document, e \in Nat : CopyOK(d, body, e) => CopyOK(d, body, e)',
           \A body : \A d \in Document, u \in Nat : TransferOK(d, body, u) => TransferOK(d, body, u)'
    PROVE  IInv'
<1>1. \A p \in Process : \A d \in DOMAIN memory[p] :
         d \in Document /\ memory[p][d] \in Entry(d) /\ memory[p][d].expiresAt \in Nat
           /\ CopyOK(d, memory[p][d].body, memory[p][d].expiresAt)
  BY DEF IInv, TypeOK, MemoryBounded, Entry
<1>2. MemoryBounded'
  BY <1>1 DEF MemoryBounded, CopyOK
<1>3. \A d \in DOMAIN table :
         d \in Document /\ table[d] \in Entry(d) /\ table[d].expiresAt \in Nat
           /\ CopyOK(d, table[d].body, table[d].expiresAt)
  BY DEF IInv, TypeOK, TableBounded, Entry
<1>4. TableBounded'
  BY <1>3 DEF TableBounded, CopyOK
<1>5. ASSUME NEW w \in DOMAIN call' PROVE CallOK(w)'
  <2>1. w \in Worker /\ w \in DOMAIN call /\ call' = call
    BY DEF IInv, TypeOK
  <2>2. /\ call[w] \in Call /\ call[w].document \in Document
        /\ call[w].expiresAt \in Nat /\ call[w].until \in Nat /\ CallOK(w)
    BY <2>1, CallFacts
  <2>3. PICK c : c = call[w]
    OBVIOUS
  <2>4. /\ c.pc \in {"cached", "write"} => CopyOK(c.document, c.body, c.expiresAt)'
        /\ c.pc \in {"fetched", "write"} => TransferOK(c.document, c.body, c.until)'
    BY <2>2, <2>3 DEF CallOK
  <2> QED
    BY <2>1, <2>2, <2>3, <2>4 DEF CallOK, CopyOK, TransferOK
<1>6. TypeOK'
  <2>1. DOMAIN table' \subseteq Document /\ \A d \in DOMAIN table' : table'[d] \in Entry(d)
    BY <1>3
  <2> QED
    BY <2>1 DEF IInv, TypeOK
<1>7. Shapes' /\ Revocable' /\ AssertionOncePerProcess'
  BY DEF IInv, Shapes, Revocable, AssertionOncePerProcess
<1>8. AcceptedRemembered'
  <2>1. \A a \in Assertion : RememberUntil(Claims[a]) \in Nat
    BY Constants
  <2>2. clock \in Nat /\ clock' \in Nat /\ clock <= clock'
    BY DEF IInv, TypeOK
  <2>3. ASSUME NEW p \in Process, NEW a \in Assertion, NEW k, k = <<Claims[a].client, Claims[a].jti>>,
               accepted[p][a] > 0
        PROVE  \/ clock' >= RememberUntil(Claims[a])
               \/ k \in DOMAIN replay[p] /\ replay[p][k] >= RememberUntil(Claims[a])
    <3>1. \/ clock >= RememberUntil(Claims[a])
          \/ k \in DOMAIN replay[p] /\ replay[p][k] >= RememberUntil(Claims[a])
      BY <2>3 DEF IInv, AcceptedRemembered
    <3> QED
      BY <2>1, <2>2, <3>1
  <2> QED
    BY <2>3 DEF AcceptedRemembered, RememberUntil
<1> QED
  BY <1>2, <1>4, <1>5, <1>6, <1>7, <1>8 DEF IInv

(* When a document changes, what it said until now has been left this very  *)
(* moment: a copy or transfer of it has its whole allowance left.           *)
LEMMA PublishStep ==
    ASSUME IInv, NEW d \in Document, NEW body \in Publishable[d], Publish(d, body)
    PROVE  IInv'
<1>1. /\ origin' = [origin EXCEPT ![d] = body] /\ body # origin[d]
      /\ left' = [left EXCEPT ![d][origin[d]] = clock]
      /\ UNCHANGED <<backend, clock, memory, table, replay, call, accepted, lapse>>
  BY DEF Publish
<1>2. /\ DOMAIN origin = Document /\ DOMAIN left = Document
      /\ \A k \in Document : origin[k] \in Publishable[k] /\ left[k] \in [Publishable[k] -> Nat]
      /\ \A k \in Document : \A b \in Publishable[k] : left[k][b] <= clock
      /\ clock \in Nat /\ MaxDelay \in Nat /\ MaxCacheSeconds \in Nat
  BY Constants DEF IInv, Shapes, TypeOK, LeftBefore
<1>3. /\ DOMAIN origin' = Document /\ origin'[d] = body
      /\ \A k \in Document : k # d => origin'[k] = origin[k]
  BY <1>1, <1>2
<1>4. /\ DOMAIN left' = Document
      /\ left'[d] \in [Publishable[d] -> Nat] /\ left'[d][origin[d]] = clock
      /\ \A b \in Publishable[d] : b # origin[d] => left'[d][b] = left[d][b]
      /\ \A k \in Document : k # d => left'[k] = left[k]
  BY <1>1, <1>2
<1>5. \A k \in Document : origin'[k] \in Publishable[k] /\ left'[k] \in [Publishable[k] -> Nat]
  BY <1>2, <1>3, <1>4
<1>6. LeftBefore'
  <2>1. ASSUME NEW k \in Document, NEW b \in Publishable[k] PROVE left'[k][b] <= clock'
    <3>1. CASE k = d /\ b = origin[d]
      BY <1>1, <1>2, <1>4, <3>1
    <3>2. CASE k = d /\ b # origin[d]
      BY <1>1, <1>2, <1>4, <3>2
    <3>3. CASE k # d
      BY <1>1, <1>2, <1>4, <3>3
    <3> QED
      BY <3>1, <3>2, <3>3
  <2> QED
    BY <2>1 DEF LeftBefore
<1>7. ASSUME NEW k \in Document, NEW b, NEW e \in Nat, CopyOK(k, b, e) PROVE CopyOK(k, b, e)'
  <2>1. b \in Publishable[k] /\ e <= clock + MaxCacheSeconds
    BY <1>7 DEF CopyOK
  <2>2. CASE k = d /\ b = origin[d]
    BY <1>1, <1>2, <1>4, <2>1, <2>2 DEF CopyOK
  <2>3. CASE k # d \/ b # origin[d]
    <3>1. origin[k] = b => origin'[k] = b
      BY <1>3, <2>3
    <3>2. left'[k][b] = left[k][b]
      BY <1>4, <2>1, <2>3
    <3> QED
      BY <1>1, <1>7, <3>1, <3>2 DEF CopyOK
  <2> QED
    BY <2>2, <2>3
<1>8. ASSUME NEW k \in Document, NEW b, NEW u \in Nat, TransferOK(k, b, u) PROVE TransferOK(k, b, u)'
  <2>1. b \in Publishable[k] /\ u <= clock + MaxDelay
    BY <1>8 DEF TransferOK
  <2>2. CASE k = d /\ b = origin[d]
    BY <1>1, <1>2, <1>4, <2>1, <2>2 DEF TransferOK
  <2>3. CASE k # d \/ b # origin[d]
    <3>1. origin[k] = b => origin'[k] = b
      BY <1>3, <2>3
    <3>2. left'[k][b] = left[k][b]
      BY <1>4, <2>1, <2>3
    <3> QED
      BY <1>1, <1>8, <3>1, <3>2 DEF TransferOK
  <2> QED
    BY <2>2, <2>3
<1>9. clock' \in Nat /\ clock <= clock' /\ \A k \in DOMAIN table' : k \in DOMAIN table /\ table'[k] = table[k]
  BY <1>1, <1>2
<1> QED
  BY <1>1, <1>3, <1>4, <1>5, <1>6, <1>7, <1>8, <1>9, BoundsKept

LEMMA SweepStep ==
    ASSUME IInv, NEW d \in Document, Sweep(d)
    PROVE  IInv'
<1>1. UNCHANGED <<backend, clock, origin, left, memory, replay, call, accepted, lapse>>
        /\ table' = DeleteItem(table, d)
  BY DEF Sweep
<1>2. \A k \in DOMAIN table' : k \in DOMAIN table /\ table'[k] = table[k]
  BY <1>1 DEF DeleteItem
<1>3. clock' \in Nat /\ clock <= clock'
  BY <1>1 DEF IInv, TypeOK
<1>4. /\ \A k \in Document : origin'[k] \in Publishable[k] /\ left'[k] \in [Publishable[k] -> Nat]
      /\ DOMAIN origin' = Document /\ DOMAIN left' = Document /\ LeftBefore'
  BY <1>1 DEF IInv, TypeOK, Shapes, LeftBefore
<1>5. /\ \A body : \A k \in Document, e \in Nat : CopyOK(k, body, e) => CopyOK(k, body, e)'
      /\ \A body : \A k \in Document, u \in Nat : TransferOK(k, body, u) => TransferOK(k, body, u)'
  BY <1>1 DEF CopyOK, TransferOK
<1> QED
  BY <1>1, <1>2, <1>3, <1>4, <1>5, BoundsKept

LEMMA TickStep ==
    ASSUME IInv, Tick
    PROVE  IInv'
<1>1. UNCHANGED <<backend, origin, left, memory, table, replay, call, accepted, lapse>> /\ clock' = clock + 1
  BY DEF Tick
<1>2. clock \in Nat /\ clock' \in Nat /\ clock <= clock' /\ MaxDelay \in Nat /\ MaxCacheSeconds \in Nat
  BY <1>1, Constants DEF IInv, TypeOK
<1>3. /\ \A k \in Document : origin'[k] \in Publishable[k] /\ left'[k] \in [Publishable[k] -> Nat]
      /\ DOMAIN origin' = Document /\ DOMAIN left' = Document
  BY <1>1 DEF IInv, TypeOK, Shapes
<1>4. LeftBefore'
  <2>1. \A d \in Document : \A body \in Publishable[d] : left[d][body] \in Nat /\ left[d][body] <= clock
    BY DEF IInv, TypeOK, LeftBefore
  <2> QED
    BY <1>1, <1>2, <2>1 DEF LeftBefore
<1>5. /\ \A body : \A k \in Document, e \in Nat : CopyOK(k, body, e) => CopyOK(k, body, e)'
      /\ \A body : \A k \in Document, u \in Nat : TransferOK(k, body, u) => TransferOK(k, body, u)'
  BY <1>1, <1>2 DEF CopyOK, TransferOK
<1> QED
  BY <1>1, <1>2, <1>3, <1>4, <1>5, BoundsKept

-----------------------------------------------------------------------------
(* The theorems *)

LEMMA InitHolds == Init => IInv
<1> SUFFICES ASSUME Init PROVE IInv
  OBVIOUS
<1>1. TypeOK
  BY DEF Init, TypeOK, EmptyTable
<1>2. Shapes /\ LeftBefore /\ MemoryBounded /\ TableBounded /\ AcceptedRemembered
  BY DEF Init, Shapes, LeftBefore, MemoryBounded, TableBounded, AcceptedRemembered, EmptyTable
<1>3. \A w \in DOMAIN call : CallOK(w)
  BY DEF Init, EmptyTable
<1>4. Revocable
  BY Constants DEF Init, Revocable
<1>5. AssertionOncePerProcess
  BY DEF Init, AssertionOncePerProcess
<1> QED
  BY <1>1, <1>2, <1>3, <1>4, <1>5 DEF IInv

LEMMA NextKeeps == IInv /\ [Next]_vars => IInv'
<1> SUFFICES ASSUME IInv, [Next]_vars PROVE IInv'
  OBVIOUS
<1>1. ASSUME NEW w \in Worker, NEW p \in Process, NEW client \in Client,
             NEW assertion \in Assertion \cup {None}, Receive(w, p, client, assertion)
      PROVE  IInv'
  BY <1>1, ReceiveStep
<1>2. ASSUME NEW w \in Worker, Lookup(w) PROVE IInv'
  BY <1>2, LookupStep
<1>3. ASSUME NEW w \in Worker, ReadTable(w) PROVE IInv'
  BY <1>3, ReadTableStep
<1>4. ASSUME NEW w \in Worker, CachedEntry(w) PROVE IInv'
  BY <1>4, CachedEntryStep
<1>5. ASSUME NEW w \in Worker, Fetch(w) PROVE IInv'
  BY <1>5, FetchStep
<1>6. ASSUME NEW w \in Worker, Fetched(w) PROVE IInv'
  BY <1>6, FetchedStep
<1>7. ASSUME NEW w \in Worker, WriteTable(w) PROVE IInv'
  BY <1>7, WriteTableStep
<1>8. ASSUME NEW w \in Worker, CallEnds(w) PROVE IInv'
  BY <1>8, CallEndsStep
<1>9. ASSUME NEW p \in Process, Restart(p) PROVE IInv'
  BY <1>9, RestartStep
<1>10. ASSUME NEW d \in Document, NEW body \in Publishable[d], Publish(d, body) PROVE IInv'
  BY <1>10, PublishStep
<1>11. ASSUME NEW d \in Document, Sweep(d) PROVE IInv'
  BY <1>11, SweepStep
<1>12. CASE Tick
  BY <1>12, TickStep
<1>13. CASE UNCHANGED vars
  <2>1. UNCHANGED <<backend, clock, origin, left, memory, table, replay, call, accepted, lapse>>
    BY <1>13 DEF vars
  <2> QED
    BY <2>1 DEF IInv, TypeOK, Shapes, LeftBefore, MemoryBounded, TableBounded, CallOK, CopyOK, TransferOK,
                AcceptedRemembered, Revocable, AssertionOncePerProcess
<1> QED
  BY <1>1, <1>2, <1>3, <1>4, <1>5, <1>6, <1>7, <1>8, <1>9, <1>10, <1>11, <1>12, <1>13 DEF Next

(* The invariant holds in every state of every behaviour of the lookups,    *)
(* the caches of auth/expiring-cache.ts and of the table, and the replay    *)
(* cache of auth/client-assertion.ts.                                       *)
THEOREM Invariance == Spec => []IInv
  BY InitHolds, NextKeeps, PTL DEF Spec

(* The caches, the requests under way and the table always hold records of  *)
(* the shape the code declares: a cached answer or a write under way holds  *)
(* a parsed document of its own kind (auth/client-resolver.ts).             *)
THEOREM TypeCorrect == Spec => []TypeOK
<1>1. IInv => TypeOK
  BY DEF IInv
<1> QED
  BY <1>1, Invariance, PTL

(* Whatever the number of processes, the lifetimes and the delays, a key or *)
(* a method that the client withdrew is relied on for at most one cache     *)
(* lifetime and one transfer: resolveClientIdMetadataDocument and clientJwks*)
(* copy from the table to the memory only the time that remains.            *)
THEOREM WithdrawalTakesEffect == Spec => []Revocable
<1>1. IInv => Revocable
  BY DEF IInv
<1> QED
  BY <1>1, Invariance, PTL

(* rejectReplay accepts an assertion once in the life of a process: it      *)
(* forgets it no earlier than validateAssertionClaims starts to refuse it.  *)
THEOREM NoReplay == Spec => []AssertionOncePerProcess
<1>1. IInv => AssertionOncePerProcess
  BY DEF IInv
<1> QED
  BY <1>1, Invariance, PTL
=============================================================================
