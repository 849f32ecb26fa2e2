-------------------------- MODULE StoreFile_proofs -------------------------
(* Proofs about StoreFile, for any number of processes and updates, with    *)
(* crashes, file-system errors and stale locks.  What depends on the lock   *)
(* is proved up to the first removal of a lock its remover had not judged.  *)
EXTENDS StoreFile, TLAPS

(* A process that waits for the lock or holds it works on some update. *)
Busy ==
    \A p \in Process : pc[p] \in Waiting \cup Holding =>
        cur[p] \in Update /\ outcome[p] \in {"ok", "refused", "error"}

Typed == TypeOK /\ Busy

(* Settling answers the current update and leaves the process idle. *)
LEMMA SettleTyped ==
    ASSUME Typed, NEW p \in Process, NEW r \in {"ok", "refused", "error"},
           pc[p] \in Waiting \cup Holding, Settle(p, r)
    PROVE  /\ cur' \in [Process -> Update \cup {None}]
           /\ pc' \in [Process -> {"idle", "dead"} \cup Waiting \cup Holding]
           /\ temp' \in [Process -> Content]
           /\ outcome' \in [Process -> {"none", "ok", "refused", "error"}]
           /\ answer' \in [Update -> {"new", "pending", "ok", "refused", "error"}]
           /\ Busy'
  BY DEF Settle, Typed, TypeOK, Busy, Content, Waiting, Holding

LEMMA TypedStep ==
    ASSUME Typed, [Next]_vars
    PROVE  Typed'
<1> USE StoreFileAssumption
<1>1. ASSUME NEW p \in Process, NEW u \in Update, Enqueue(p, u) PROVE Typed'
  BY <1>1 DEF Enqueue, watch, Typed, TypeOK, Busy
<1>2. ASSUME NEW p \in Process, Dequeue(p) PROVE Typed'
  <2>1. queue[p] \in Seq(Update) /\ queue[p] # <<>>
    BY <1>2 DEF Dequeue, Typed, TypeOK
  <2>2. Head(queue[p]) \in Update /\ Tail(queue[p]) \in Seq(Update)
    BY <2>1
  <2> QED
    BY <1>2, <2>2 DEF Dequeue, watch, Typed, TypeOK, Busy, Waiting, Holding
<1>3. ASSUME NEW p \in Process, CreateLock(p) \/ WriteMetadata(p) PROVE Typed'
  <2>1. /\ UNCHANGED <<polls, outcome, file, durable, queue, cur, temp, answer>>
        /\ pc' \in [Process -> {"idle", "dead"} \cup Waiting \cup Holding]
        /\ pc[p] \in Waiting \cup Holding
        /\ \A q \in Process : q # p => pc'[q] = pc[q]
        /\ judged' \in SUBSET Process /\ stolen' \in BOOLEAN
    BY <1>3 DEF CreateLock, WriteMetadata, workVars, watch, Typed, TypeOK, Waiting, Holding
  <2>2. lock' \in LockFile \cup {None}
    <3>1. cur[p] \in Update
      BY <2>1 DEF Typed, Busy
    <3>2. CASE CreateLock(p)
      <4>1. [process |-> p, update |-> cur[p], written |-> FALSE, expired |-> FALSE] \in LockFile
        BY <3>1 DEF LockFile
      <4> QED
        BY <3>2, <4>1 DEF CreateLock, Typed, TypeOK
    <3>3. CASE WriteMetadata(p)
      BY <3>3 DEF WriteMetadata, OwnLock, LockFile, Typed, TypeOK
    <3> QED
      BY <1>3, <3>2, <3>3
  <2> QED
    BY <2>1, <2>2 DEF Typed, TypeOK, Busy
<1>4. ASSUME NEW p \in Process, WriteMetadataFails(p) PROVE Typed'
  <2>1. lock' \in LockFile \cup {None}
    BY <1>4 DEF WriteMetadataFails, OwnLock, LockFile, Typed, TypeOK
  <2> QED
    BY <1>4, <2>1, SettleTyped DEF WriteMetadataFails, watch, Typed, TypeOK, Holding
<1>5. ASSUME NEW p \in Process, InspectLock(p) \/ InspectMtime(p) \/ RemoveStaleLock(p) \/ PollAgain(p)
      PROVE Typed'
  <2>1. /\ UNCHANGED <<outcome, file, durable, queue, cur, temp, answer>>
        /\ pc' \in [Process -> {"idle", "dead"} \cup Waiting \cup Holding]
        /\ pc[p] \in Waiting
        /\ \A q \in Process : q # p => pc'[q] = pc[q]
        /\ lock' \in LockFile \cup {None}
        /\ judged' \in SUBSET Process /\ stolen' \in BOOLEAN
    BY <1>5 DEF InspectLock, InspectMtime, Judge, RemoveStaleLock, PollAgain, workVars, watch,
                Typed, TypeOK, Waiting, Holding
  <2>2. polls' \in [Process -> 0..MaxPolls]
    <3>1. polls \in [Process -> 0..MaxPolls]
      BY DEF Typed, TypeOK
    <3>2. CASE PollAgain(p)
      <4>1. polls[p] + 1 \in 0..MaxPolls
        BY <3>1, <3>2 DEF PollAgain
      <4> QED
        BY <3>1, <3>2, <4>1 DEF PollAgain
    <3>3. CASE ~PollAgain(p)
      BY <1>5, <3>1, <3>3 DEF InspectLock, InspectMtime, RemoveStaleLock
    <3> QED
      BY <3>2, <3>3
  <2> QED
    BY <2>1, <2>2 DEF Typed, TypeOK, Busy
<1>6. ASSUME NEW p \in Process, LockTimeout(p) \/ AcquireFails(p) \/ ReleaseFails(p)
      PROVE Typed'
  <2>1. /\ pc[p] \in Waiting \cup Holding
        /\ Settle(p, "error")
        /\ UNCHANGED <<lock, file, durable, queue, polls, judged, stolen>>
    BY <1>6 DEF LockTimeout, AcquireFails, ReleaseFails, watch, Waiting, Holding
  <2> QED
    BY <2>1, SettleTyped DEF Typed, TypeOK
<1>7. ASSUME NEW p \in Process, ReadAndApply(p) PROVE Typed'
  BY <1>7 DEF ReadAndApply, watch, Typed, TypeOK, Busy, Waiting, Holding, Content
<1>8. ASSUME NEW p \in Process, ApplyThrows(p) \/ WriteTemp(p) \/ WorkFails(p) PROVE Typed'
  <2>1. /\ UNCHANGED <<lock, polls, file, durable, queue, cur, temp, answer, judged, stolen>>
        /\ pc' \in [Process -> {"idle", "dead"} \cup Waiting \cup Holding]
        /\ pc[p] \in Holding
        /\ \A q \in Process : q # p => pc'[q] = pc[q] /\ outcome'[q] = outcome[q]
    BY <1>8 DEF ApplyThrows, WriteTemp, WorkFails, workVars, watch, Typed, TypeOK, Holding
  <2>2. /\ outcome' \in [Process -> {"none", "ok", "refused", "error"}]
        /\ outcome'[p] = outcome[p] \/ outcome'[p] \in {"refused", "error"}
    BY <1>8 DEF ApplyThrows, WriteTemp, WorkFails, Typed, TypeOK
  <2> QED
    BY <2>1, <2>2 DEF Typed, TypeOK, Busy
<1>9. ASSUME NEW p \in Process, SyncTemp(p) \/ RenameTemp(p) \/ SyncDirectory(p) PROVE Typed'
  <2>1. /\ UNCHANGED <<lock, polls, queue, cur, outcome, answer, judged, stolen>>
        /\ pc' \in [Process -> {"idle", "dead"} \cup Waiting \cup Holding]
        /\ pc[p] \in Holding
        /\ \A q \in Process : q # p => pc'[q] = pc[q]
    BY <1>9 DEF SyncTemp, RenameTemp, SyncDirectory, watch, Typed, TypeOK, Holding
  <2>2. temp' \in [Process -> Content] /\ file' \in Content /\ durable' \in SUBSET Update
    <3>1. temp \in [Process -> Content] /\ file \in Content /\ durable \in SUBSET Update
      BY DEF Typed, TypeOK
    <3>2. CASE SyncTemp(p)
      <4>1. [temp[p] EXCEPT !.synced = TRUE] \in Content
        BY <3>1 DEF Content
      <4> QED
        BY <3>1, <3>2, <4>1 DEF SyncTemp
    <3>3. CASE RenameTemp(p)
      BY <3>1, <3>3 DEF RenameTemp
    <3>4. CASE SyncDirectory(p)
      BY <3>1, <3>4 DEF SyncDirectory, Content
    <3> QED
      BY <1>9, <3>2, <3>3, <3>4
  <2> QED
    BY <2>1, <2>2 DEF Typed, TypeOK, Busy
<1>10. ASSUME NEW p \in Process, CloseLock(p) \/ UnlinkLock(p) PROVE Typed'
  <2>1. outcome[p] \in {"ok", "refused", "error"} /\ pc[p] \in Waiting \cup Holding
    BY <1>10 DEF CloseLock, UnlinkLock, Typed, Busy, Holding
  <2>2. CASE Settle(p, outcome[p])
    BY <1>10, <2>1, <2>2, SettleTyped DEF CloseLock, UnlinkLock, watch, Typed, TypeOK
  <2>3. CASE ~Settle(p, outcome[p])
    BY <1>10, <2>3 DEF CloseLock, UnlinkLock, watch, Typed, TypeOK, Busy, Waiting, Holding
  <2> QED
    BY <2>2, <2>3
<1>11. ASSUME NEW p \in Process, Crash(p) PROVE Typed'
  BY <1>11 DEF Crash, watch, Typed, TypeOK, Busy, Waiting, Holding
<1>12. CASE LockExpires
  <2>1. lock \in LockFile
    BY <1>12 DEF LockExpires, Typed, TypeOK
  <2>2. [lock EXCEPT !.expired = TRUE] \in LockFile
    BY <2>1 DEF LockFile
  <2> QED
    BY <1>12, <2>2 DEF LockExpires, watch, Typed, TypeOK, Busy
<1>13. CASE UNCHANGED vars
  BY <1>13 DEF vars, watch, Typed, TypeOK, Busy
<1> QED
  BY <1>1, <1>2, <1>3, <1>4, <1>5, <1>6, <1>7, <1>8, <1>9, <1>10, <1>11, <1>12, <1>13
     DEF Next, Step

LEMMA InitTyped ==
    ASSUME Init
    PROVE  Typed
<1>1. /\ judged \in SUBSET Process
      /\ lock \in LockFile \cup {None}
      /\ durable \in SUBSET Update
      /\ queue \in [Process -> Seq(Update)]
      /\ cur \in [Process -> Update \cup {None}]
      /\ pc \in [Process -> {"idle", "dead"} \cup Waiting \cup Holding]
      /\ outcome \in [Process -> {"none", "ok", "refused", "error"}]
      /\ answer \in [Update -> {"new", "pending", "ok", "refused", "error"}]
  BY DEF Init
<1>2. polls \in [Process -> 0..MaxPolls]
  BY StoreFileAssumption DEF Init
<1>3. file \in Content /\ temp \in [Process -> Content]
  BY DEF Init, Content
<1>4. stolen \in BOOLEAN
  BY Zenon DEF Init
<1>5. Busy
  BY DEF Init, Busy, Waiting, Holding
<1> QED
  BY <1>1, <1>2, <1>3, <1>4, <1>5 DEF Typed, TypeOK

(* The state is well typed, also after a lock was stolen. *)
THEOREM TypeCorrect == Spec => []TypeOK
<1>1. Init => Typed
  BY InitTyped
<1>2. Typed /\ [Next]_vars => Typed'
  BY TypedStep
<1>3. Typed => TypeOK
  BY DEF Typed
<1> QED
  BY <1>1, <1>2, <1>3, PTL DEF Spec

-----------------------------------------------------------------------------
(* The inductive invariant. *)

(* Whoever is past createLock owns the lock file, which is not stale. *)
HeldLock == \A p \in Process : pc[p] \in Holding => OwnLock(p) /\ ~lock.expired

(* Who has judged the lock that is there was right. *)
JudgedStale == \A p \in judged : lock # None => lock.expired

(* What a process is about to write contains all that the file holds. *)
FreshSnapshot ==
    \A p \in Process : pc[p] \in {"temp", "sync", "rename"} =>
        /\ file.ids \subseteq temp[p].ids
        /\ cur[p] \in temp[p].ids
        /\ pc[p] = "rename" => temp[p].synced

(* Acknowledged updates are on disk, and so are those about to be. *)
Committed ==
    /\ file.synced
    /\ durable \subseteq file.ids
    /\ \A u \in Update : answer[u] = "ok" => u \in durable
    /\ \A p \in Process :
          /\ pc[p] = "syncdir" => cur[p] \in file.ids
          /\ pc[p] \in {"close", "unlink"} /\ outcome[p] = "ok" => cur[p] \in durable

Inductive == Typed /\ HeldLock /\ JudgedStale /\ FreshSnapshot /\ Committed

Exclusive == \A p, q \in Process : pc[p] \in Holding /\ pc[q] \in Holding => p = q

LEMMA LockExcludes ==
    ASSUME HeldLock
    PROVE  Exclusive
  BY DEF HeldLock, Exclusive, OwnLock

LEMMA SettleKeeps ==
    ASSUME Inductive, Typed', NEW p \in Process, NEW r,
           pc[p] \in Waiting \cup Holding,
           Settle(p, r), r = "ok" => cur[p] \in durable,
           UNCHANGED <<file, durable, judged>>,
           \/ lock' = lock
           \/ pc[p] \in Holding /\ (lock' = None \/ (lock # None /\ lock'.expired = lock.expired))
    PROVE  Inductive'
<1>1. /\ pc' = [pc EXCEPT ![p] = "idle"] /\ pc'[p] = "idle"
      /\ \A q \in Process : q # p => /\ pc'[q] = pc[q] /\ cur'[q] = cur[q]
                                     /\ temp'[q] = temp[q] /\ outcome'[q] = outcome[q]
      /\ \A u \in Update : answer'[u] = answer[u] \/ (u = cur[p] /\ answer'[u] = r)
  BY DEF Settle, Inductive, Typed, TypeOK
<1>2. HeldLock'
  <2> SUFFICES ASSUME NEW q \in Process, pc'[q] \in Holding PROVE (OwnLock(q) /\ ~lock.expired)'
    BY DEF HeldLock
  <2>1. q # p /\ pc[q] \in Holding /\ OwnLock(q) /\ ~lock.expired /\ cur'[q] = cur[q]
    BY <1>1 DEF Inductive, HeldLock, Holding
  <2>2. pc[p] \notin Holding
    BY <2>1, LockExcludes DEF Inductive, Exclusive
  <2> QED
    BY <2>1, <2>2 DEF OwnLock
<1>3. JudgedStale'
  BY DEF Inductive, JudgedStale
<1>4. FreshSnapshot'
  BY <1>1 DEF Inductive, FreshSnapshot
<1>5. Committed'
  BY <1>1 DEF Inductive, Committed
<1> QED
  BY <1>2, <1>3, <1>4, <1>5 DEF Inductive

LEMMA InductiveStep ==
    ASSUME Inductive, [Next]_vars, ~stolen'
    PROVE  Inductive'
<1> USE StoreFileAssumption
<1>0. Typed'
  BY TypedStep DEF Inductive
<1>1. ASSUME NEW p \in Process, NEW u \in Update, Enqueue(p, u) PROVE Inductive'
  <2>1. UNCHANGED <<lock, judged, file, durable, cur, pc, polls, temp, outcome>>
        /\ \A v \in Update : answer'[v] = "ok" => answer[v] = "ok"
    BY <1>1 DEF Enqueue, watch, Inductive, Typed, TypeOK
  <2> QED
    BY <1>0, <2>1 DEF Inductive, HeldLock, OwnLock, JudgedStale, FreshSnapshot, Committed
<1>2. ASSUME NEW p \in Process, Dequeue(p) PROVE Inductive'
  <2>1. /\ UNCHANGED <<lock, judged, file, durable, temp, answer>>
        /\ pc'[p] = "create"
        /\ \A q \in Process : q # p => pc'[q] = pc[q] /\ cur'[q] = cur[q] /\ outcome'[q] = outcome[q]
    BY <1>2 DEF Dequeue, watch, Inductive, Typed, TypeOK
  <2> QED
    BY <1>0, <2>1 DEF Inductive, HeldLock, OwnLock, JudgedStale, FreshSnapshot, Committed, Holding
<1>3. ASSUME NEW p \in Process, CreateLock(p) PROVE Inductive'
  <2>1. /\ UNCHANGED <<file, durable, temp, answer, cur, outcome>>
        /\ pc'[p] \in {"metadata", "inspect"}
        /\ \A q \in Process : q # p => pc'[q] = pc[q]
        /\ \/ lock' = lock /\ judged' = judged /\ pc'[p] = "inspect"
           \/ lock = None /\ pc'[p] = "metadata" /\ judged' = {}
              /\ lock' = [process |-> p, update |-> cur[p], written |-> FALSE, expired |-> FALSE]
    BY <1>3 DEF CreateLock, workVars, Inductive, Typed, TypeOK
  <2>2. HeldLock'
    <3>1. cur[p] \in Update
      BY <1>3 DEF CreateLock, Inductive, Typed, Busy, Waiting
    <3>2. [process |-> p, update |-> cur[p], written |-> FALSE, expired |-> FALSE] # None
      <4>1. [process |-> p, update |-> cur[p], written |-> FALSE, expired |-> FALSE] \in LockFile
        BY <3>1 DEF LockFile
      <4>2. None \notin LockFile
        OBVIOUS
      <4> QED
        BY <4>1, <4>2
    <3> QED
      BY <2>1, <3>2 DEF Inductive, HeldLock, OwnLock, Holding
  <2>3. JudgedStale' /\ FreshSnapshot' /\ Committed'
    BY <2>1 DEF Inductive, JudgedStale, FreshSnapshot, Committed, Typed, TypeOK
  <2> QED
    BY <1>0, <2>2, <2>3 DEF Inductive
<1>4. ASSUME NEW p \in Process, WriteMetadata(p) PROVE Inductive'
  <2>1. /\ UNCHANGED <<judged, file, durable, temp, answer, cur, outcome>>
        /\ pc'[p] = "read" /\ pc[p] = "metadata"
        /\ \A q \in Process : q # p => pc'[q] = pc[q]
        /\ lock' = lock \/ (lock # None /\ lock' = [lock EXCEPT !.written = TRUE])
    BY <1>4 DEF WriteMetadata, OwnLock, workVars, watch, Inductive, Typed, TypeOK
  <2>2. /\ lock # None
        /\ lock' # None /\ lock'.process = lock.process /\ lock'.update = lock.update
        /\ lock'.expired = lock.expired
    <3>1. lock # None
      BY <2>1 DEF Inductive, HeldLock, OwnLock, Holding
    <3>2. lock \in LockFile
      BY <3>1 DEF Inductive, Typed, TypeOK
    <3>3. lock' \in LockFile
      BY <2>1, <3>2 DEF LockFile
    <3> QED
      BY <2>1, <3>1, <3>2, <3>3 DEF LockFile
  <2>3. HeldLock' /\ JudgedStale' /\ FreshSnapshot' /\ Committed'
    BY <2>1, <2>2 DEF Inductive, HeldLock, OwnLock, Holding, JudgedStale, FreshSnapshot, Committed
  <2> QED
    BY <1>0, <2>3 DEF Inductive
<1>5. ASSUME NEW p \in Process, InspectLock(p) \/ InspectMtime(p) \/ PollAgain(p)
      PROVE Inductive'
  <2>1. /\ UNCHANGED <<lock, file, durable, temp, answer, cur, outcome>>
        /\ pc'[p] \in {"mtime", "wait", "create", "remove"}
        /\ \A q \in Process : q # p => pc'[q] = pc[q]
        /\ judged' = judged \/ (lock # None /\ lock.expired)
    BY <1>5 DEF InspectLock, InspectMtime, Judge, PollAgain, workVars, watch, Inductive, Typed, TypeOK
  <2> QED
    BY <1>0, <2>1 DEF Inductive, HeldLock, OwnLock, Holding, JudgedStale, FreshSnapshot, Committed
<1>17. ASSUME NEW p \in Process, RemoveStaleLock(p) PROVE Inductive'
  <2>1. /\ UNCHANGED <<file, durable, temp, answer, cur, outcome>>
        /\ lock' = None /\ pc'[p] = "wait"
        /\ \A q \in Process : q # p => pc'[q] = pc[q]
    BY <1>17 DEF RemoveStaleLock, workVars, Inductive, Typed, TypeOK
  <2>2. lock = None \/ p \in judged
    BY <1>17 DEF RemoveStaleLock
  <2>3. \A q \in Process : pc[q] \notin Holding
    BY <2>2 DEF Inductive, HeldLock, OwnLock, JudgedStale
  <2> QED
    BY <1>0, <2>1, <2>3 DEF Inductive, HeldLock, Holding, JudgedStale, FreshSnapshot, Committed
<1>6. ASSUME NEW p \in Process,
             WriteMetadataFails(p) \/ LockTimeout(p) \/ AcquireFails(p) \/ ReleaseFails(p)
      PROVE Inductive'
  <2>1. /\ pc[p] \in Waiting \cup Holding
        /\ Settle(p, "error")
        /\ UNCHANGED <<file, durable, judged>>
    BY <1>6 DEF WriteMetadataFails, LockTimeout, AcquireFails, ReleaseFails, watch, Waiting, Holding
  <2>2. \/ lock' = lock
        \/ pc[p] \in Holding /\ (lock' = None \/ (lock # None /\ lock'.expired = lock.expired))
    BY <1>6 DEF WriteMetadataFails, LockTimeout, AcquireFails, ReleaseFails, OwnLock, Holding,
                LockFile, Inductive, Typed, TypeOK
  <2> QED
    BY <1>0, <2>1, <2>2, SettleKeeps
<1>7. ASSUME NEW p \in Process, CloseLock(p) \/ UnlinkLock(p) PROVE Inductive'
  <2>1. pc[p] \in Holding /\ pc[p] \in {"close", "unlink"} /\ UNCHANGED <<file, durable, judged>>
    BY <1>7 DEF CloseLock, UnlinkLock, watch, Holding
  <2>2. CASE Settle(p, outcome[p])
    <3>1. outcome[p] = "ok" => cur[p] \in durable
      BY <2>1 DEF Inductive, Committed
    <3>2. lock' = lock \/ lock' = None
      BY <1>7 DEF CloseLock, UnlinkLock
    <3> QED
      BY <1>0, <2>1, <2>2, <3>1, <3>2, SettleKeeps
  <2>3. CASE ~Settle(p, outcome[p])
    <3>1. /\ UNCHANGED <<lock, judged, file, durable, cur, temp, outcome, answer>>
          /\ pc[p] = "close" /\ pc'[p] = "unlink"
          /\ \A q \in Process : q # p => pc'[q] = pc[q]
      BY <1>7, <2>3 DEF CloseLock, UnlinkLock, watch, Inductive, Typed, TypeOK
    <3> QED
      BY <1>0, <3>1 DEF Inductive, HeldLock, OwnLock, Holding, JudgedStale, FreshSnapshot, Committed
  <2> QED
    BY <2>2, <2>3
<1>8. ASSUME NEW p \in Process, ReadAndApply(p) PROVE Inductive'
  <2>1. /\ UNCHANGED <<lock, judged, file, durable, cur, outcome, answer>>
        /\ pc[p] = "read" /\ pc'[p] = "temp"
        /\ temp'[p].ids = file.ids \cup {cur[p]}
        /\ \A q \in Process : q # p => pc'[q] = pc[q] /\ temp'[q] = temp[q]
    BY <1>8 DEF ReadAndApply, watch, Inductive, Typed, TypeOK
  <2> QED
    BY <1>0, <2>1 DEF Inductive, HeldLock, OwnLock, Holding, JudgedStale, FreshSnapshot, Committed
<1>9. ASSUME NEW p \in Process, ApplyThrows(p) \/ WorkFails(p) PROVE Inductive'
  <2>1. /\ UNCHANGED <<lock, judged, file, durable, cur, temp, answer>>
        /\ pc[p] \in Holding /\ pc'[p] = "close" /\ outcome'[p] # "ok"
        /\ \A q \in Process : q # p => pc'[q] = pc[q] /\ outcome'[q] = outcome[q]
    BY <1>9 DEF ApplyThrows, WorkFails, workVars, watch, Inductive, Typed, TypeOK, Holding
  <2> QED
    BY <1>0, <2>1 DEF Inductive, HeldLock, OwnLock, Holding, JudgedStale, FreshSnapshot, Committed
<1>10. ASSUME NEW p \in Process, WriteTemp(p) PROVE Inductive'
  <2>1. /\ UNCHANGED <<lock, judged, file, durable, cur, temp, outcome, answer>>
        /\ pc[p] = "temp" /\ pc'[p] = "sync"
        /\ \A q \in Process : q # p => pc'[q] = pc[q]
    BY <1>10 DEF WriteTemp, workVars, watch, Inductive, Typed, TypeOK
  <2> QED
    BY <1>0, <2>1 DEF Inductive, HeldLock, OwnLock, Holding, JudgedStale, FreshSnapshot, Committed
<1>11. ASSUME NEW p \in Process, SyncTemp(p) PROVE Inductive'
  <2>1. /\ UNCHANGED <<lock, judged, file, durable, cur, outcome, answer>>
        /\ pc[p] = "sync" /\ pc'[p] = "rename"
        /\ temp'[p].ids = temp[p].ids /\ temp'[p].synced
        /\ \A q \in Process : q # p => pc'[q] = pc[q] /\ temp'[q] = temp[q]
    BY <1>11 DEF SyncTemp, watch, Inductive, Typed, TypeOK, Content
  <2> QED
    BY <1>0, <2>1 DEF Inductive, HeldLock, OwnLock, Holding, JudgedStale, FreshSnapshot, Committed
<1>12. ASSUME NEW p \in Process, RenameTemp(p) PROVE Inductive'
  <2>1. /\ UNCHANGED <<lock, judged, durable, cur, temp, outcome, answer>>
        /\ pc[p] = "rename" /\ pc'[p] = "syncdir" /\ file' = temp[p]
        /\ \A q \in Process : q # p => pc'[q] = pc[q]
    BY <1>12 DEF RenameTemp, watch, Inductive, Typed, TypeOK
  <2>2. \A q \in Process : q # p => pc[q] \notin Holding
    BY <2>1, LockExcludes DEF Inductive, Exclusive, Holding
  <2>3. file.ids \subseteq temp[p].ids /\ cur[p] \in temp[p].ids /\ temp[p].synced
    BY <2>1 DEF Inductive, FreshSnapshot
  <2>4. HeldLock' /\ JudgedStale'
    BY <2>1 DEF Inductive, HeldLock, OwnLock, Holding, JudgedStale
  <2>5. FreshSnapshot'
    BY <2>1, <2>2 DEF FreshSnapshot, Holding
  <2>6. Committed'
    BY <2>1, <2>2, <2>3 DEF Inductive, Committed, Holding
  <2> QED
    BY <1>0, <2>4, <2>5, <2>6 DEF Inductive
<1>13. ASSUME NEW p \in Process, SyncDirectory(p) PROVE Inductive'
  <2>1. /\ UNCHANGED <<lock, judged, file, cur, temp, outcome, answer>>
        /\ pc[p] = "syncdir" /\ pc'[p] = "close" /\ durable' = file.ids
        /\ \A q \in Process : q # p => pc'[q] = pc[q]
    BY <1>13 DEF SyncDirectory, watch, Inductive, Typed, TypeOK
  <2> QED
    BY <1>0, <2>1 DEF Inductive, HeldLock, OwnLock, Holding, JudgedStale, FreshSnapshot, Committed
<1>14. ASSUME NEW p \in Process, Crash(p) PROVE Inductive'
  <2>1. /\ UNCHANGED <<lock, judged, file, durable, cur, temp, outcome, answer>>
        /\ pc'[p] = "dead"
        /\ \A q \in Process : q # p => pc'[q] = pc[q]
    BY <1>14 DEF Crash, watch, Inductive, Typed, TypeOK
  <2> QED
    BY <1>0, <2>1 DEF Inductive, HeldLock, OwnLock, Holding, JudgedStale, FreshSnapshot, Committed
<1>15. CASE LockExpires
  <2>1. /\ UNCHANGED <<judged, file, durable, cur, pc, temp, outcome, answer>>
        /\ lock' # None /\ lock'.expired
    <3>1. lock \in LockFile /\ [lock EXCEPT !.expired = TRUE] \in LockFile
      BY <1>15 DEF LockExpires, LockFile, Inductive, Typed, TypeOK
    <3>2. None \notin LockFile
      OBVIOUS
    <3> QED
      BY <1>15, <3>1, <3>2 DEF LockExpires, watch, LockFile
  <2>2. \A p \in Process : pc[p] \notin Holding
    BY <1>15 DEF LockExpires, InUse, Inductive, HeldLock, OwnLock
  <2> QED
    BY <1>0, <2>1, <2>2 DEF Inductive, HeldLock, JudgedStale, FreshSnapshot, Committed, Holding
<1>16. CASE UNCHANGED vars
  BY <1>0, <1>16 DEF vars, watch, Inductive, HeldLock, OwnLock, Holding, JudgedStale, FreshSnapshot, Committed
<1> QED
  BY <1>1, <1>2, <1>3, <1>4, <1>5, <1>6, <1>7, <1>8, <1>9, <1>10, <1>11, <1>12, <1>13,
     <1>14, <1>15, <1>16, <1>17
     DEF Next, Step

(* A theft is not forgotten. *)
LEMMA StolenStays ==
    ASSUME Typed, stolen, [Next]_vars
    PROVE  stolen'
<1>1. ASSUME NEW p \in Process, RemoveStaleLock(p) PROVE stolen'
  BY <1>1 DEF RemoveStaleLock
<1>2. CASE stolen' = stolen
  BY <1>2
<1>3. ASSUME NEW p \in Process, Step(p), ~RemoveStaleLock(p) PROVE stolen' = stolen
  BY <1>3 DEF Step, Dequeue, CreateLock, WriteMetadata, WriteMetadataFails, InspectLock, InspectMtime,
              PollAgain, LockTimeout, AcquireFails, ReadAndApply, ApplyThrows, WriteTemp, SyncTemp,
              RenameTemp, SyncDirectory, WorkFails, CloseLock, UnlinkLock, ReleaseFails, watch
<1> QED
  BY <1>1, <1>2, <1>3 DEF Next, Enqueue, Crash, LockExpires, vars, watch

(* The file is complete on disk whoever holds the lock. *)
FileSynced == file.synced /\ \A p \in Process : pc[p] = "rename" => temp[p].synced

LEMMA SyncedStep ==
    ASSUME Typed, FileSynced, [Next]_vars
    PROVE  FileSynced'
<1>0. TypeOK
  BY DEF Typed
<1>1. ASSUME NEW p \in Process, NEW r, Settle(p, r), UNCHANGED file PROVE FileSynced'
  <2>1. pc'[p] = "idle" /\ \A q \in Process : q # p => pc'[q] = pc[q] /\ temp'[q] = temp[q]
    BY <1>0, <1>1 DEF Settle, TypeOK
  <2> QED
    BY <1>1, <2>1 DEF FileSynced
<1>2. ASSUME NEW p \in Process, UNCHANGED file, pc'[p] = "rename" => temp'[p].synced,
             \A q \in Process : q # p => pc'[q] = pc[q] /\ temp'[q] = temp[q]
      PROVE  FileSynced'
  BY <1>2 DEF FileSynced
<1>3. ASSUME NEW p \in Process,
             \/ Dequeue(p) \/ CreateLock(p) \/ WriteMetadata(p) \/ InspectLock(p) \/ InspectMtime(p)
             \/ RemoveStaleLock(p) \/ PollAgain(p) \/ ReadAndApply(p) \/ ApplyThrows(p) \/ WriteTemp(p)
             \/ SyncDirectory(p) \/ WorkFails(p) \/ Crash(p)
      PROVE FileSynced'
  <2>1. /\ UNCHANGED file /\ pc'[p] # "rename"
        /\ \A q \in Process : q # p => pc'[q] = pc[q] /\ temp'[q] = temp[q]
    BY <1>0, <1>3
       DEF Dequeue, CreateLock, WriteMetadata, InspectLock, InspectMtime, Judge, RemoveStaleLock,
           PollAgain, ReadAndApply, ApplyThrows, WriteTemp, SyncDirectory, WorkFails, Crash,
           workVars, TypeOK
  <2> QED
    BY <1>2, <2>1
<1>7. ASSUME NEW p \in Process, SyncTemp(p) PROVE FileSynced'
  <2>1. /\ UNCHANGED file /\ temp'[p].synced
        /\ \A q \in Process : q # p => pc'[q] = pc[q] /\ temp'[q] = temp[q]
    BY <1>0, <1>7 DEF SyncTemp, TypeOK, Content
  <2> QED
    BY <1>2, <2>1
<1>4. ASSUME NEW p \in Process,
             \/ WriteMetadataFails(p) \/ LockTimeout(p) \/ AcquireFails(p) \/ ReleaseFails(p)
             \/ CloseLock(p) \/ UnlinkLock(p)
      PROVE FileSynced'
  <2>1. CASE \E r : Settle(p, r) /\ UNCHANGED file
    BY <1>1, <2>1
  <2>2. CASE CloseLock(p) /\ pc' = [pc EXCEPT ![p] = "unlink"] /\ UNCHANGED <<temp, file>>
    BY <1>0, <2>2 DEF FileSynced, TypeOK
  <2> QED
    BY <1>4, <2>1, <2>2
       DEF WriteMetadataFails, LockTimeout, AcquireFails, ReleaseFails, CloseLock, UnlinkLock
<1>5. ASSUME NEW p \in Process, RenameTemp(p) PROVE FileSynced'
  BY <1>0, <1>5 DEF RenameTemp, FileSynced, TypeOK
<1>6. CASE (\E p \in Process, u \in Update : Enqueue(p, u)) \/ LockExpires \/ UNCHANGED vars
  BY <1>6 DEF Enqueue, LockExpires, vars, FileSynced
<1> QED
  BY <1>3, <1>4, <1>5, <1>6, <1>7 DEF Next, Step

(* What the lock establishes holds until a lock is stolen. *)
Protected == Typed /\ FileSynced /\ (stolen \/ Inductive)

LEMMA ProtectedStep ==
    ASSUME Protected, [Next]_vars
    PROVE  Protected'
<1>1. Typed' /\ FileSynced'
  BY TypedStep, SyncedStep DEF Protected
<1>2. CASE stolen
  BY <1>1, <1>2, StolenStays DEF Protected
<1>3. CASE Inductive
  BY <1>1, <1>3, InductiveStep DEF Protected
<1> QED
  BY <1>2, <1>3 DEF Protected

LEMMA InitProtected ==
    ASSUME Init
    PROVE  Protected /\ Inductive
<1>1. Typed
  BY InitTyped
<1>2. FileSynced /\ HeldLock /\ JudgedStale /\ FreshSnapshot /\ Committed
  BY DEF Init, FileSynced, Holding, HeldLock, JudgedStale, FreshSnapshot, Committed
<1> QED
  BY <1>1, <1>2 DEF Protected, Inductive

(* Until a waiter removes a lock that it has not judged, the lock file      *)
(* serializes all processes, no acknowledged update is lost, and a power    *)
(* loss at any moment leaves a complete file with all of them: crashes,     *)
(* file-system errors, and locks that were left behind and removed as stale *)
(* do no harm.                                                              *)
THEOREM LockSerializes == Spec => [](MutualExclusion /\ UpdatesKept /\ PowerLossSafe)
<1>1. Init => Protected
  BY InitProtected
<1>2. Protected /\ [Next]_vars => Protected'
  BY ProtectedStep
<1>3. Protected => MutualExclusion /\ UpdatesKept /\ PowerLossSafe
  <2> SUFFICES ASSUME Protected PROVE MutualExclusion /\ UpdatesKept /\ PowerLossSafe
    OBVIOUS
  <2>1. MutualExclusion
    BY LockExcludes DEF Protected, Inductive, Exclusive, MutualExclusion
  <2>2. UpdatesKept /\ PowerLossSafe
    BY DEF Protected, FileSynced, Inductive, Committed, UpdatesKept, NoLostUpdate, PowerLossSafe
  <2> QED
    BY <2>1, <2>2
<1> QED
  BY <1>1, <1>2, <1>3, PTL DEF Spec

(* The lock file keeps two processes from working on the file at once, as   *)
(* long as each waiter removes the lock it has judged.                      *)
THEOREM OneHolder == Spec => []MutualExclusion
<1>1. Spec => [](MutualExclusion /\ UpdatesKept /\ PowerLossSafe)
  BY LockSerializes
<1> QED
  BY <1>1, PTL

(* A power loss at any moment leaves a complete file, and every update that *)
(* was acknowledged as long as no lock was stolen.                          *)
THEOREM PowerLossHarmless == Spec => []PowerLossSafe
<1>1. Spec => [](MutualExclusion /\ UpdatesKept /\ PowerLossSafe)
  BY LockSerializes
<1> QED
  BY <1>1, PTL

-----------------------------------------------------------------------------
(* Refused updates.  Here the lock plays no part: the argument holds for    *)
(* expiring locks and for two holders at a time as well.                    *)

(* Neither the file nor anything about to replace it has the update. *)
Untouched(u) == u \notin file.ids /\ \A q \in Process : u \notin temp[q].ids

(* An update is worked on by its own process, once: it is in one place of   *)
(* one queue or is the current one, and has not been answered.              *)
WorkedOnce ==
    \A p \in Process :
        /\ cur[p] # None => Origin[cur[p]] = p /\ answer[cur[p]] = "pending"
        /\ \A i \in DOMAIN queue[p] :
              /\ Origin[queue[p][i]] = p
              /\ answer[queue[p][i]] = "pending"
              /\ queue[p][i] # cur[p]
        /\ \A i, j \in DOMAIN queue[p] : queue[p][i] = queue[p][j] => i = j

(* The process has not applied its current update, or has seen it throw. *)
NotApplied(p) ==
    \/ pc[p] \in Waiting \cup {"metadata", "read"}
    \/ pc[p] \in {"close", "unlink"} /\ outcome[p] = "refused"

Untraced ==
    /\ \A u \in Update : answer[u] \in {"new", "refused"} => Untouched(u)
    /\ \A p \in Process : \A i \in DOMAIN queue[p] : Untouched(queue[p][i])
    /\ \A p \in Process : NotApplied(p) => Untouched(cur[p])

(* The outcome is decided when the lock is released. *)
OkUntilClose ==
    \A p \in Process : pc[p] \in (Waiting \cup Holding) \ {"close", "unlink"} => outcome[p] = "ok"

NoTrace == Typed /\ WorkedOnce /\ Untraced /\ OkUntilClose

LEMMA OkStep ==
    ASSUME Typed, OkUntilClose, [Next]_vars
    PROVE  OkUntilClose'
<1>1. ASSUME NEW p \in Process, NEW r, Settle(p, r) PROVE OkUntilClose'
  BY <1>1 DEF Settle, OkUntilClose, Typed, TypeOK, Waiting, Holding
<1>2. ASSUME NEW p \in Process,
             \/ Dequeue(p) \/ CreateLock(p) \/ WriteMetadata(p) \/ InspectLock(p) \/ InspectMtime(p)
             \/ RemoveStaleLock(p) \/ PollAgain(p)
      PROVE OkUntilClose'
  BY <1>2 DEF Dequeue, CreateLock, WriteMetadata, InspectLock, InspectMtime, Judge, RemoveStaleLock,
              PollAgain, OkUntilClose, Typed, TypeOK, Waiting, Holding
<1>3. ASSUME NEW p \in Process,
             \/ ReadAndApply(p) \/ ApplyThrows(p) \/ WriteTemp(p) \/ SyncTemp(p) \/ RenameTemp(p)
             \/ SyncDirectory(p) \/ WorkFails(p) \/ Crash(p)
      PROVE OkUntilClose'
  BY <1>3 DEF ReadAndApply, ApplyThrows, WriteTemp, SyncTemp, RenameTemp, SyncDirectory, WorkFails,
              Crash, OkUntilClose, Typed, TypeOK, Waiting, Holding
<1>4. ASSUME NEW p \in Process,
             \/ WriteMetadataFails(p) \/ LockTimeout(p) \/ AcquireFails(p) \/ ReleaseFails(p)
             \/ CloseLock(p) \/ UnlinkLock(p)
      PROVE OkUntilClose'
  <2>1. CASE CloseLock(p) /\ pc' = [pc EXCEPT ![p] = "unlink"] /\ UNCHANGED outcome
    BY <2>1 DEF OkUntilClose, Typed, TypeOK
  <2> QED
    BY <1>1, <1>4, <2>1 DEF WriteMetadataFails, LockTimeout, AcquireFails, ReleaseFails, CloseLock, UnlinkLock
<1>5. CASE (\E p \in Process, u \in Update : Enqueue(p, u)) \/ LockExpires \/ UNCHANGED vars
  BY <1>5 DEF Enqueue, LockExpires, vars, OkUntilClose
<1> QED
  BY <1>2, <1>3, <1>4, <1>5 DEF Next, Step

(* A step that spreads no update and starts none. *)
LEMMA SpreadsNothing ==
    ASSUME NoTrace, Typed', OkUntilClose', UNCHANGED <<queue, cur, answer>>,
           \A u \in Update : Untouched(u) => Untouched(u)',
           \A p \in Process : NotApplied(p)' => NotApplied(p)
    PROVE  NoTrace'
<1>1. WorkedOnce'
  BY DEF NoTrace, WorkedOnce
<1>2. /\ \A p \in Process : \A i \in DOMAIN queue[p] : queue[p][i] \in Update
      /\ \A p \in Process : NotApplied(p) => cur[p] \in Update
  BY DEF NoTrace, Typed, TypeOK, Busy, NotApplied, Holding
<1>3. Untraced'
  BY <1>2 DEF NoTrace, Untraced
<1> QED
  BY <1>1, <1>3 DEF NoTrace

(* Settling throws the temporary file away and answers "refused" only for   *)
(* an update that threw.                                                    *)
LEMMA SettleSpreadsNothing ==
    ASSUME NoTrace, Typed', OkUntilClose', NEW p \in Process, NEW r \in {"ok", "refused", "error"},
           pc[p] \in Waiting \cup Holding,
           Settle(p, r), r = "refused" => NotApplied(p), UNCHANGED <<file, queue>>
    PROVE  NoTrace'
<1>1. /\ pc'[p] = "idle" /\ cur'[p] = None /\ temp'[p].ids = {}
      /\ \A q \in Process : q # p => /\ pc'[q] = pc[q] /\ cur'[q] = cur[q]
                                     /\ temp'[q] = temp[q] /\ outcome'[q] = outcome[q]
      /\ answer'[cur[p]] = r
      /\ \A u \in Update : u # cur[p] => answer'[u] = answer[u]
      /\ cur[p] \in Update
  BY DEF Settle, NoTrace, Typed, TypeOK, Busy
<1>2. \A u : Untouched(u) => Untouched(u)'
  BY <1>1 DEF Untouched
<1>3. /\ \A q \in Process : \A i \in DOMAIN queue[q] : queue[q][i] \in Update /\ queue[q][i] # cur[p]
      /\ \A q \in Process : q # p => cur[q] # cur[p] \/ cur[q] = None
      /\ None \notin Update
  BY <1>1, StoreFileAssumption DEF NoTrace, WorkedOnce, Typed, TypeOK
<1>4. WorkedOnce'
  <2> SUFFICES ASSUME NEW q \in Process
               PROVE  /\ cur'[q] # None => Origin[cur'[q]] = q /\ answer'[cur'[q]] = "pending"
                      /\ \A i \in DOMAIN queue[q] :
                            /\ Origin[queue[q][i]] = q
                            /\ answer'[queue[q][i]] = "pending"
                            /\ queue[q][i] # cur'[q]
                      /\ \A i, j \in DOMAIN queue[q] : queue[q][i] = queue[q][j] => i = j
    BY DEF WorkedOnce
  <2>1. cur'[q] # None => Origin[cur'[q]] = q /\ answer'[cur'[q]] = "pending"
    <3> SUFFICES ASSUME cur'[q] # None PROVE Origin[cur'[q]] = q /\ answer'[cur'[q]] = "pending"
      OBVIOUS
    <3>1. q # p /\ cur'[q] = cur[q] /\ cur[q] # cur[p]
      BY <1>1, <1>3
    <3>2. cur[q] \in Update
      BY <3>1 DEF NoTrace, Typed, TypeOK
    <3> QED
      BY <1>1, <3>1, <3>2 DEF NoTrace, WorkedOnce
  <2>2. \A i \in DOMAIN queue[q] :
            /\ Origin[queue[q][i]] = q
            /\ answer'[queue[q][i]] = "pending"
            /\ queue[q][i] # cur'[q]
    BY <1>1, <1>3 DEF NoTrace, WorkedOnce
  <2> QED
    BY <2>1, <2>2 DEF NoTrace, WorkedOnce
<1>5. Untraced'
  <2>1. \A u \in Update : answer'[u] \in {"new", "refused"} => Untouched(u)'
    BY <1>1, <1>2 DEF NoTrace, Untraced
  <2>2. \A q \in Process : \A i \in DOMAIN queue[q] : Untouched(queue[q][i])'
    BY <1>2 DEF NoTrace, Untraced
  <2>3. \A q \in Process : NotApplied(q)' => q # p /\ NotApplied(q)
    BY <1>1 DEF NotApplied, Waiting
  <2>4. \A q \in Process : NotApplied(q)' => Untouched(cur[q])'
    BY <1>1, <1>2, <2>3 DEF NoTrace, Untraced, Untouched
  <2> QED
    BY <2>1, <2>2, <2>4 DEF Untraced
<1> QED
  BY <1>4, <1>5 DEF NoTrace

LEMMA NoTraceStep ==
    ASSUME NoTrace, [Next]_vars
    PROVE  NoTrace'
<1> USE StoreFileAssumption
<1>0. Typed /\ Typed' /\ OkUntilClose'
  BY TypedStep, OkStep DEF NoTrace
<1>1. ASSUME NEW p \in Process, NEW u \in Update, Enqueue(p, u) PROVE NoTrace'
  <2>1. /\ UNCHANGED <<file, temp, cur, pc, outcome>>
        /\ Origin[u] = p /\ answer[u] = "new" /\ answer'[u] = "pending"
        /\ \A v \in Update : v # u => answer'[v] = answer[v]
        /\ \A q \in Process : q # p => queue'[q] = queue[q]
        /\ queue'[p] = Append(queue[p], u)
        /\ queue[p] \in Seq(Update)
    BY <1>0, <1>1 DEF Enqueue, Typed, TypeOK
  <2>2. /\ DOMAIN queue'[p] = 1 .. Len(queue[p]) + 1 /\ DOMAIN queue[p] = 1 .. Len(queue[p])
        /\ Len(queue[p]) \in Nat
        /\ \A i \in DOMAIN queue[p] : queue'[p][i] = queue[p][i]
        /\ queue'[p][Len(queue[p]) + 1] = u
    BY <2>1
  <2>3. /\ \A q \in Process : cur[q] # None => cur[q] # u
        /\ \A q \in Process : \A i \in DOMAIN queue[q] : queue[q][i] # u /\ queue[q][i] \in Update
        /\ \A q \in Process : cur[q] # None => cur[q] \in Update
        /\ u # None
    <3>1. \A q \in Process : cur[q] # None => cur[q] # u /\ cur[q] \in Update
      BY <1>0, <2>1 DEF NoTrace, WorkedOnce, Typed, TypeOK
    <3>2. \A q \in Process : \A i \in DOMAIN queue[q] : queue[q][i] \in Update
      BY <1>0 DEF Typed, TypeOK
    <3>3. \A q \in Process : \A i \in DOMAIN queue[q] : queue[q][i] # u
      BY <2>1 DEF NoTrace, WorkedOnce
    <3> QED
      BY <3>1, <3>2, <3>3
  <2>4. WorkedOnce'
    <3> SUFFICES ASSUME NEW q \in Process
                 PROVE  /\ cur[q] # None => Origin[cur[q]] = q /\ answer'[cur[q]] = "pending"
                        /\ \A i \in DOMAIN queue'[q] :
                              /\ Origin[queue'[q][i]] = q
                              /\ answer'[queue'[q][i]] = "pending"
                              /\ queue'[q][i] # cur[q]
                        /\ \A i, j \in DOMAIN queue'[q] : queue'[q][i] = queue'[q][j] => i = j
      BY <2>1 DEF WorkedOnce
    <3>1. cur[q] # None => Origin[cur[q]] = q /\ answer'[cur[q]] = "pending"
      BY <2>1, <2>3 DEF NoTrace, WorkedOnce
    <3>2. \A i \in DOMAIN queue'[q] :
              \/ q = p /\ i = Len(queue[p]) + 1 /\ queue'[q][i] = u
              \/ i \in DOMAIN queue[q] /\ queue'[q][i] = queue[q][i]
      BY <2>1, <2>2
    <3>3. \A i \in DOMAIN queue'[q] :
              /\ Origin[queue'[q][i]] = q
              /\ answer'[queue'[q][i]] = "pending"
              /\ queue'[q][i] # cur[q]
      BY <2>1, <2>3, <3>2 DEF NoTrace, WorkedOnce
    <3>4. \A i, j \in DOMAIN queue'[q] : queue'[q][i] = queue'[q][j] => i = j
      BY <2>3, <3>2 DEF NoTrace, WorkedOnce
    <3> QED
      BY <3>1, <3>3, <3>4
  <2>5. Untraced'
    <3>1. \A v : Untouched(v)' <=> Untouched(v)
      BY <2>1 DEF Untouched
    <3>2. \A v \in Update : answer'[v] \in {"new", "refused"} => Untouched(v)
      BY <2>1 DEF NoTrace, Untraced
    <3>3. \A q \in Process : \A i \in DOMAIN queue'[q] : Untouched(queue'[q][i])
      <4> SUFFICES ASSUME NEW q \in Process, NEW i \in DOMAIN queue'[q] PROVE Untouched(queue'[q][i])
        OBVIOUS
      <4>1. CASE i \in DOMAIN queue[q] /\ queue'[q][i] = queue[q][i]
        BY <4>1 DEF NoTrace, Untraced
      <4>2. CASE queue'[q][i] = u
        BY <2>1, <4>2 DEF NoTrace, Untraced
      <4> QED
        BY <2>1, <2>2, <4>1, <4>2
    <3>4. \A q \in Process : NotApplied(q)' => Untouched(cur[q])
      BY <2>1 DEF NoTrace, Untraced, NotApplied
    <3> QED
      BY <2>1, <3>1, <3>2, <3>3, <3>4 DEF Untraced, Untouched
  <2> QED
    BY <1>0, <2>4, <2>5 DEF NoTrace
<1>2. ASSUME NEW p \in Process, Dequeue(p) PROVE NoTrace'
  <2>1. /\ UNCHANGED <<file, temp, answer>>
        /\ queue[p] \in Seq(Update) /\ queue[p] # <<>>
        /\ pc'[p] = "create" /\ cur'[p] = Head(queue[p]) /\ queue'[p] = Tail(queue[p])
        /\ \A q \in Process : q # p => /\ pc'[q] = pc[q] /\ cur'[q] = cur[q]
                                       /\ queue'[q] = queue[q] /\ outcome'[q] = outcome[q]
    BY <1>0, <1>2 DEF Dequeue, Typed, TypeOK
  <2>2. /\ cur'[p] = queue[p][1] /\ 1 \in DOMAIN queue[p]
        /\ \A i \in DOMAIN queue'[p] : i \in Nat /\ i + 1 \in DOMAIN queue[p] /\ i + 1 # 1
                                       /\ queue'[p][i] = queue[p][i + 1]
    BY <2>1
  <2>3. WorkedOnce'
    <3> SUFFICES ASSUME NEW q \in Process
                 PROVE  /\ cur'[q] # None => Origin[cur'[q]] = q /\ answer[cur'[q]] = "pending"
                        /\ \A i \in DOMAIN queue'[q] :
                              /\ Origin[queue'[q][i]] = q
                              /\ answer[queue'[q][i]] = "pending"
                              /\ queue'[q][i] # cur'[q]
                        /\ \A i, j \in DOMAIN queue'[q] : queue'[q][i] = queue'[q][j] => i = j
      BY <2>1 DEF WorkedOnce
    <3>1. CASE q # p
      BY <2>1, <3>1 DEF NoTrace, WorkedOnce
    <3>2. CASE q = p
      BY <2>2, <3>2 DEF NoTrace, WorkedOnce
    <3> QED
      BY <3>1, <3>2
  <2>4. Untraced'
    <3>1. \A v : Untouched(v)' <=> Untouched(v)
      BY <2>1 DEF Untouched
    <3>2. \A q \in Process : \A i \in DOMAIN queue'[q] : Untouched(queue'[q][i])
      <4> SUFFICES ASSUME NEW q \in Process, NEW i \in DOMAIN queue'[q] PROVE Untouched(queue'[q][i])
        OBVIOUS
      <4>1. CASE q = p
        BY <2>2, <4>1 DEF NoTrace, Untraced
      <4>2. CASE q # p
        BY <2>1, <4>2 DEF NoTrace, Untraced
      <4> QED
        BY <4>1, <4>2
    <3>3. \A q \in Process : NotApplied(q)' => Untouched(cur'[q])
      BY <2>1, <2>2 DEF NoTrace, Untraced, NotApplied
    <3> QED
      BY <2>1, <3>1, <3>2, <3>3 DEF NoTrace, Untraced, Untouched
  <2> QED
    BY <1>0, <2>3, <2>4 DEF NoTrace
<1>3. ASSUME NEW p \in Process,
             \/ CreateLock(p) \/ WriteMetadata(p) \/ InspectLock(p) \/ InspectMtime(p)
             \/ RemoveStaleLock(p) \/ PollAgain(p)
      PROVE NoTrace'
  <2>1. /\ UNCHANGED <<file, temp, queue, cur, answer, outcome>>
        /\ pc[p] \in Waiting \cup {"metadata"}
        /\ \A q \in Process : q # p => pc'[q] = pc[q]
    BY <1>0, <1>3 DEF CreateLock, WriteMetadata, InspectLock, InspectMtime, Judge, RemoveStaleLock,
                      PollAgain, workVars, Waiting, Typed, TypeOK
  <2>2. \A q \in Process : NotApplied(q)' => NotApplied(q)
    BY <2>1 DEF NotApplied
  <2> QED
    BY <1>0, <2>1, <2>2, SpreadsNothing DEF Untouched
<1>4. ASSUME NEW p \in Process, ApplyThrows(p) \/ WriteTemp(p) \/ WorkFails(p) PROVE NoTrace'
  <2>1. /\ UNCHANGED <<file, temp, queue, cur, answer>>
        /\ \A q \in Process : q # p => pc'[q] = pc[q] /\ outcome'[q] = outcome[q]
        /\ \/ pc[p] = "read"
           \/ pc'[p] = "sync"
           \/ pc'[p] = "close" /\ outcome'[p] = "error"
    BY <1>0, <1>4 DEF ApplyThrows, WriteTemp, WorkFails, workVars, Typed, TypeOK
  <2>2. \A q \in Process : NotApplied(q)' => NotApplied(q)
    BY <2>1 DEF NotApplied, Waiting
  <2> QED
    BY <1>0, <2>1, <2>2, SpreadsNothing DEF Untouched
<1>5. ASSUME NEW p \in Process, SyncTemp(p) \/ RenameTemp(p) \/ SyncDirectory(p) PROVE NoTrace'
  <2>1. /\ UNCHANGED <<queue, cur, answer, outcome>>
        /\ \A q \in Process : q # p => pc'[q] = pc[q]
        /\ pc'[p] \in {"rename", "syncdir", "close"}
        /\ pc'[p] = "close" => SyncDirectory(p)
        /\ temp \in [Process -> Content]
        /\ temp' = temp \/ temp' = [temp EXCEPT ![p].synced = TRUE]
        /\ file' = file \/ file' = temp[p]
    BY <1>0, <1>5 DEF SyncTemp, RenameTemp, SyncDirectory, Typed, TypeOK
  <2>4. \A q \in Process : temp'[q].ids = temp[q].ids
    BY <2>1 DEF Content
  <2>2. \A u \in Update : Untouched(u) => Untouched(u)'
    BY <2>1, <2>4 DEF Untouched
  <2>3. \A q \in Process : NotApplied(q)' => NotApplied(q)
    BY <2>1 DEF NoTrace, OkUntilClose, NotApplied, Waiting, Holding, SyncDirectory
  <2> QED
    BY <1>0, <2>1, <2>2, <2>3, SpreadsNothing
<1>6. ASSUME NEW p \in Process, ReadAndApply(p) PROVE NoTrace'
  <2>1. /\ UNCHANGED <<file, queue, cur, answer, outcome>>
        /\ pc[p] = "read" /\ pc'[p] = "temp" /\ cur[p] \in Update
        /\ temp'[p].ids = file.ids \cup {cur[p]}
        /\ \A q \in Process : q # p => pc'[q] = pc[q] /\ temp'[q] = temp[q]
    BY <1>0, <1>6 DEF ReadAndApply, Typed, TypeOK, Busy, Holding
  <2>2. \A u : Untouched(u) /\ u # cur[p] => Untouched(u)'
    BY <2>1 DEF Untouched
  <2>3. \A q \in Process : NotApplied(q)' => q # p /\ NotApplied(q) /\ cur[q] \in Update
    BY <1>0, <2>1 DEF NotApplied, Waiting, Typed, Busy, Holding
  <2>4. /\ \A q \in Process : q # p /\ cur[q] \in Update => cur[q] # cur[p]
        /\ \A q \in Process : \A i \in DOMAIN queue[q] : queue[q][i] # cur[p]
        /\ answer[cur[p]] = "pending"
    BY <2>1 DEF NoTrace, WorkedOnce
  <2>5. WorkedOnce'
    BY <2>1 DEF NoTrace, WorkedOnce
  <2>6. Untraced'
    <3>1. \A u \in Update : answer[u] \in {"new", "refused"} => Untouched(u)'
      BY <2>2, <2>4 DEF NoTrace, Untraced
    <3>2. \A q \in Process : \A i \in DOMAIN queue[q] : Untouched(queue[q][i])'
      BY <2>1, <2>2, <2>4 DEF NoTrace, Untraced
    <3>3. \A q \in Process : NotApplied(q)' => Untouched(cur[q])'
      BY <2>1, <2>2, <2>3, <2>4 DEF NoTrace, Untraced
    <3> QED
      BY <2>1, <3>1, <3>2, <3>3 DEF Untraced
  <2> QED
    BY <1>0, <2>5, <2>6 DEF NoTrace
<1>7. ASSUME NEW p \in Process,
             WriteMetadataFails(p) \/ LockTimeout(p) \/ AcquireFails(p) \/ ReleaseFails(p)
      PROVE NoTrace'
  <2>1. pc[p] \in Waiting \cup Holding /\ Settle(p, "error") /\ UNCHANGED <<file, queue>>
    BY <1>7 DEF WriteMetadataFails, LockTimeout, AcquireFails, ReleaseFails, Waiting, Holding
  <2> QED
    BY <1>0, <2>1, SettleSpreadsNothing
<1>8. ASSUME NEW p \in Process, CloseLock(p) \/ UnlinkLock(p) PROVE NoTrace'
  <2>1. /\ pc[p] \in {"close", "unlink"} /\ UNCHANGED <<file, queue>>
        /\ outcome[p] \in {"ok", "refused", "error"}
    BY <1>0, <1>8 DEF CloseLock, UnlinkLock, Typed, Busy, Holding
  <2>2. CASE Settle(p, outcome[p])
    <3>1. outcome[p] = "refused" => NotApplied(p)
      BY <2>1 DEF NotApplied
    <3>2. pc[p] \in Waiting \cup Holding
      BY <2>1 DEF Holding
    <3> QED
      BY <1>0, <2>1, <2>2, <3>1, <3>2, SettleSpreadsNothing
  <2>3. CASE ~Settle(p, outcome[p])
    <3>1. /\ UNCHANGED <<file, temp, queue, cur, answer, outcome>>
          /\ pc[p] = "close" /\ pc'[p] = "unlink"
          /\ \A q \in Process : q # p => pc'[q] = pc[q]
      BY <1>0, <1>8, <2>3 DEF CloseLock, UnlinkLock, Typed, TypeOK
    <3>2. \A q \in Process : NotApplied(q)' => NotApplied(q)
      BY <3>1 DEF NotApplied, Waiting
    <3> QED
      BY <1>0, <3>1, <3>2, SpreadsNothing DEF Untouched
  <2> QED
    BY <2>2, <2>3
<1>9. ASSUME NEW p \in Process, Crash(p) PROVE NoTrace'
  <2>1. /\ UNCHANGED <<file, temp, queue, cur, answer, outcome>>
        /\ pc'[p] = "dead"
        /\ \A q \in Process : q # p => pc'[q] = pc[q]
    BY <1>0, <1>9 DEF Crash, Typed, TypeOK
  <2>2. \A q \in Process : NotApplied(q)' => NotApplied(q)
    BY <2>1 DEF NotApplied, Waiting
  <2> QED
    BY <1>0, <2>1, <2>2, SpreadsNothing DEF Untouched
<1>10. CASE LockExpires \/ UNCHANGED vars
  <2>1. UNCHANGED <<file, temp, queue, cur, answer, outcome, pc>>
    BY <1>10 DEF LockExpires, vars
  <2> QED
    BY <1>0, <2>1, SpreadsNothing DEF Untouched, NotApplied
<1> QED
  BY <1>1, <1>2, <1>3, <1>4, <1>5, <1>6, <1>7, <1>8, <1>9, <1>10 DEF Next, Step

LEMMA InitNoTrace ==
    ASSUME Init
    PROVE  NoTrace
<1>1. Typed
  BY InitTyped
<1>2. WorkedOnce /\ Untraced /\ OkUntilClose
  BY DEF Init, Waiting, Holding, WorkedOnce, Untraced, Untouched, NotApplied, OkUntilClose
<1> QED
  BY <1>1, <1>2 DEF NoTrace

(* An update whose function threw leaves nothing in the file, however the   *)
(* other processes' updates interleave with it, and even when an expired    *)
(* lock lets two of them work at once.                                      *)
THEOREM RefusedUpdatesLeaveNoTrace == Spec => []RefusedLeavesNoTrace
<1>1. Init => NoTrace
  BY InitNoTrace
<1>2. NoTrace /\ [Next]_vars => NoTrace'
  BY NoTraceStep
<1>3. NoTrace => RefusedLeavesNoTrace
  BY DEF NoTrace, Untraced, Untouched, RefusedLeavesNoTrace
<1> QED
  BY <1>1, <1>2, <1>3, PTL DEF Spec

-----------------------------------------------------------------------------
(* One step on the whole file.                                              *)

(* What a process is about to write is the file with its update and nothing *)
(* else, and the file does not have the update yet.                         *)
ExactSnapshot ==
    \A p \in Process : pc[p] \in {"temp", "sync", "rename"} =>
        temp[p].ids = file.ids \cup {cur[p]} /\ cur[p] \notin file.ids

LEMMA ExactStep ==
    ASSUME Inductive, NoTrace, ExactSnapshot, [Next]_vars
    PROVE  ExactSnapshot'
<1> USE StoreFileAssumption
<1>0. TypeOK
  BY DEF Inductive, Typed
<1>1. ASSUME NEW p \in Process, UNCHANGED file, pc'[p] \notin {"temp", "sync", "rename"},
             \A q \in Process : q # p => pc'[q] = pc[q] /\ cur'[q] = cur[q] /\ temp'[q] = temp[q]
      PROVE  ExactSnapshot'
  BY <1>1 DEF ExactSnapshot
<1>2. ASSUME NEW p \in Process, NEW r, Settle(p, r), UNCHANGED file PROVE ExactSnapshot'
  <2>1. pc'[p] = "idle"
        /\ \A q \in Process : q # p => pc'[q] = pc[q] /\ cur'[q] = cur[q] /\ temp'[q] = temp[q]
    BY <1>0, <1>2 DEF Settle, TypeOK
  <2> QED
    BY <1>1, <1>2, <2>1
<1>3. ASSUME NEW p \in Process,
             \/ Dequeue(p) \/ CreateLock(p) \/ WriteMetadata(p) \/ InspectLock(p) \/ InspectMtime(p)
             \/ RemoveStaleLock(p) \/ PollAgain(p) \/ ApplyThrows(p) \/ SyncDirectory(p) \/ WorkFails(p)
             \/ Crash(p)
      PROVE ExactSnapshot'
  <2>1. /\ UNCHANGED file /\ pc'[p] \notin {"temp", "sync", "rename"}
        /\ \A q \in Process : q # p => pc'[q] = pc[q] /\ cur'[q] = cur[q] /\ temp'[q] = temp[q]
    BY <1>0, <1>3 DEF Dequeue, CreateLock, WriteMetadata, InspectLock, InspectMtime, Judge, RemoveStaleLock,
              PollAgain, ApplyThrows, SyncDirectory, WorkFails, Crash, workVars, TypeOK
  <2> QED
    BY <1>1, <2>1
<1>4. ASSUME NEW p \in Process,
             \/ WriteMetadataFails(p) \/ LockTimeout(p) \/ AcquireFails(p) \/ ReleaseFails(p)
             \/ CloseLock(p) \/ UnlinkLock(p)
      PROVE ExactSnapshot'
  <2>1. CASE \E r : Settle(p, r) /\ UNCHANGED file
    BY <1>2, <2>1
  <2>2. CASE CloseLock(p) /\ pc' = [pc EXCEPT ![p] = "unlink"] /\ UNCHANGED <<cur, temp, file>>
    BY <1>0, <2>2 DEF ExactSnapshot, TypeOK
  <2> QED
    BY <1>4, <2>1, <2>2
       DEF WriteMetadataFails, LockTimeout, AcquireFails, ReleaseFails, CloseLock, UnlinkLock
<1>5. ASSUME NEW p \in Process, ReadAndApply(p) PROVE ExactSnapshot'
  <2>1. /\ UNCHANGED <<file, cur>> /\ pc[p] = "read"
        /\ temp'[p].ids = file.ids \cup {cur[p]}
        /\ \A q \in Process : q # p => pc'[q] = pc[q] /\ temp'[q] = temp[q]
    BY <1>0, <1>5 DEF ReadAndApply, TypeOK
  <2>2. cur[p] \notin file.ids
    BY <2>1 DEF NoTrace, Untraced, NotApplied, Untouched
  <2> QED
    BY <2>1, <2>2 DEF ExactSnapshot
<1>6. ASSUME NEW p \in Process, WriteTemp(p) \/ SyncTemp(p) PROVE ExactSnapshot'
  <2>1. /\ UNCHANGED <<file, cur>> /\ pc[p] \in {"temp", "sync"}
        /\ temp'[p].ids = temp[p].ids
        /\ \A q \in Process : q # p => pc'[q] = pc[q] /\ temp'[q] = temp[q]
    BY <1>0, <1>6 DEF WriteTemp, SyncTemp, workVars, TypeOK, Content
  <2> QED
    BY <2>1 DEF ExactSnapshot
<1>7. ASSUME NEW p \in Process, RenameTemp(p) PROVE ExactSnapshot'
  <2>1. /\ pc[p] = "rename" /\ pc'[p] = "syncdir"
        /\ \A q \in Process : q # p => pc'[q] = pc[q]
    BY <1>0, <1>7 DEF RenameTemp, TypeOK
  <2>2. \A q \in Process : q # p => pc[q] \notin Holding
    BY <2>1, LockExcludes DEF Inductive, Exclusive, Holding
  <2> QED
    BY <2>1, <2>2 DEF ExactSnapshot, Holding
<1>8. CASE (\E p \in Process, u \in Update : Enqueue(p, u)) \/ LockExpires \/ UNCHANGED vars
  BY <1>8 DEF Enqueue, LockExpires, vars, ExactSnapshot
<1> QED
  BY <1>3, <1>4, <1>5, <1>6, <1>7, <1>8 DEF Next, Step

(* Whoever settles answers an update that is waited for, and answers        *)
(* according to what became of it.                                          *)
LEMMA SettleReplies ==
    ASSUME Inductive, NoTrace, NEW p \in Process, NEW r \in {"ok", "refused", "error"},
           pc[p] \in Waiting \cup Holding, Settle(p, r), UNCHANGED <<file, durable>>,
           r = "ok" => cur[p] \in durable, r = "refused" => NotApplied(p)
    PROVE  Atomic!AtomicNext
<1>1. cur[p] \in Update /\ cur[p] # None
  BY StoreFileAssumption DEF Inductive, Typed, Busy
<1>2. answer[cur[p]] = "pending"
  BY <1>1 DEF NoTrace, WorkedOnce
<1>3. r = "refused" => cur[p] \notin file.ids
  BY DEF NoTrace, Untraced, Untouched
<1>4. Atomic!Reply(cur[p], r)
  BY <1>2, <1>3 DEF Atomic!Reply, Settle
<1> QED
  BY <1>1, <1>4 DEF Atomic!AtomicNext

LEMMA AtomicStep ==
    ASSUME Inductive, NoTrace, ExactSnapshot, [Next]_vars
    PROVE  [Atomic!AtomicNext]_(Atomic!atomicVars)
<1>0. Typed
  BY DEF Inductive
<1>1. ASSUME NEW p \in Process, NEW u \in Update, Enqueue(p, u) PROVE Atomic!AtomicNext
  <2>1. Atomic!Call(u)
    BY <1>1 DEF Enqueue, Atomic!Call
  <2> QED
    BY <2>1 DEF Atomic!AtomicNext
<1>2. ASSUME NEW p \in Process,
             \/ Dequeue(p) \/ CreateLock(p) \/ WriteMetadata(p) \/ InspectLock(p) \/ InspectMtime(p)
             \/ RemoveStaleLock(p) \/ PollAgain(p) \/ ReadAndApply(p) \/ ApplyThrows(p) \/ WriteTemp(p)
             \/ SyncTemp(p) \/ WorkFails(p) \/ Crash(p)
      PROVE UNCHANGED Atomic!atomicVars
  BY <1>2 DEF Dequeue, CreateLock, WriteMetadata, InspectLock, InspectMtime, RemoveStaleLock, PollAgain,
              ReadAndApply, ApplyThrows, WriteTemp, SyncTemp, WorkFails, Crash, workVars, Atomic!atomicVars
<1>3. ASSUME NEW p \in Process,
             WriteMetadataFails(p) \/ LockTimeout(p) \/ AcquireFails(p) \/ ReleaseFails(p)
      PROVE Atomic!AtomicNext
  <2>1. pc[p] \in Waiting \cup Holding /\ Settle(p, "error") /\ UNCHANGED <<file, durable>>
    BY <1>3 DEF WriteMetadataFails, LockTimeout, AcquireFails, ReleaseFails, Waiting, Holding
  <2> QED
    BY <2>1, SettleReplies
<1>4. ASSUME NEW p \in Process, CloseLock(p) \/ UnlinkLock(p)
      PROVE Atomic!AtomicNext \/ UNCHANGED Atomic!atomicVars
  <2>1. /\ pc[p] \in {"close", "unlink"} /\ pc[p] \in Waiting \cup Holding
        /\ UNCHANGED <<file, durable>>
        /\ outcome[p] \in {"ok", "refused", "error"}
    BY <1>0, <1>4 DEF CloseLock, UnlinkLock, Typed, Busy, Holding
  <2>2. CASE Settle(p, outcome[p])
    <3>1. outcome[p] = "ok" => cur[p] \in durable
      BY <2>1 DEF Inductive, Committed
    <3>2. outcome[p] = "refused" => NotApplied(p)
      BY <2>1 DEF NotApplied
    <3> QED
      BY <2>1, <2>2, <3>1, <3>2, SettleReplies
  <2>3. CASE ~Settle(p, outcome[p])
    BY <1>4, <2>1, <2>3 DEF CloseLock, UnlinkLock, Atomic!atomicVars
  <2> QED
    BY <2>2, <2>3
<1>5. ASSUME NEW p \in Process, RenameTemp(p) PROVE Atomic!AtomicNext
  <2>1. /\ pc[p] = "rename" /\ file' = temp[p] /\ UNCHANGED <<durable, answer>>
    BY <1>5 DEF RenameTemp
  <2>2. cur[p] \in Update /\ cur[p] # None
    BY <1>0, <2>1, StoreFileAssumption DEF Typed, Busy, Holding
  <2>3. answer[cur[p]] = "pending"
    BY <2>2 DEF NoTrace, WorkedOnce
  <2>4. Atomic!Apply(cur[p])
    BY <2>1, <2>3 DEF ExactSnapshot, Atomic!Apply
  <2> QED
    BY <2>2, <2>4 DEF Atomic!AtomicNext
<1>6. ASSUME NEW p \in Process, SyncDirectory(p) PROVE Atomic!AtomicNext
  BY <1>6 DEF SyncDirectory, Atomic!Save, Atomic!AtomicNext
<1>7. CASE LockExpires \/ UNCHANGED vars
  BY <1>7 DEF LockExpires, vars, Atomic!atomicVars
<1> QED
  BY <1>1, <1>2, <1>3, <1>4, <1>5, <1>6, <1>7 DEF Next, Step

(* Until a lock is stolen, StoreFile.update is one step on the whole file,  *)
(* taken while its caller waits and at most once, for any processes,        *)
(* crashes, stale locks and file-system errors.                             *)
THEOREM ImplementsOneStep == Spec => ImplementsAtomicStore
<1> DEFINE Exact == NoTrace /\ Protected /\ (stolen \/ ExactSnapshot)
<1>1. Init => Exact /\ Atomic!AtomicInit
  <2> SUFFICES ASSUME Init PROVE Exact /\ Atomic!AtomicInit
    OBVIOUS
  <2>1. Protected
    BY InitProtected
  <2>2. NoTrace
    BY InitNoTrace
  <2>3. ExactSnapshot /\ Atomic!AtomicInit
    BY DEF Init, ExactSnapshot, Atomic!AtomicInit
  <2> QED
    BY <2>1, <2>2, <2>3
<1>2. Exact /\ [Next]_vars => Exact' /\ [stolen \/ Atomic!AtomicNext]_(Atomic!atomicVars)
  <2> SUFFICES ASSUME Exact, [Next]_vars
               PROVE  Exact' /\ [stolen \/ Atomic!AtomicNext]_(Atomic!atomicVars)
    OBVIOUS
  <2>1. NoTrace' /\ Protected'
    BY NoTraceStep, ProtectedStep
  <2>2. CASE stolen
    BY <2>1, <2>2, StolenStays DEF Protected
  <2>3. CASE ~stolen
    <3>1. Inductive /\ ExactSnapshot
      BY <2>3 DEF Protected
    <3> QED
      BY <2>1, <3>1, ExactStep, AtomicStep
  <2> QED
    BY <2>2, <2>3
<1> QED
  BY <1>1, <1>2, PTL DEF Spec, ImplementsAtomicStore
=============================================================================
