----------------------------- MODULE StoreFile -----------------------------
(***************************************************************************)
(* The file behind the disk store (auth/storage/store-file.ts and          *)
(* store-lock.ts): several processes of the service share one JSON file.   *)
(*                                                                         *)
(* Inside a process the updates of a path are chained one after the other. *)
(* Across processes an update holds the lock file <path>.lock, created     *)
(* with O_EXCL, while it reads the file, applies its function, and         *)
(* replaces the file by a temporary one.  A lock whose stale time has      *)
(* passed is removed by whoever finds it, the lock of a dead process and   *)
(* one that a live process failed to remove alike.  A process may die      *)
(* anywhere.                                                               *)
(*                                                                         *)
(* The content of the file is abstracted to the set of updates it holds.   *)
(* Time appears only through what it decides: a lock expires (300 s), and  *)
(* a waiter gives up (5 s) after at most MaxPolls attempts.                *)
(*                                                                         *)
(* The verdict "stale" and the removal are two steps.  The history         *)
(* variables judged and stolen record whose verdict is about the lock file *)
(* that is there, and whether a waiter ever removed another one.           *)
(***************************************************************************)
EXTENDS Naturals, Sequences, FiniteSets

CONSTANTS
    Process,
    Update,         \* calls of StoreFile.update
    Origin,         \* the process each update is called in
    None,
    MaxPolls,       \* attempts to take the lock before the timeout
    MaxCrashes

(* What a lock file says, and whether its stale time has passed. *)
LockFile == [process : Process, update : Update, written : BOOLEAN, expired : BOOLEAN]

ASSUME StoreFileAssumption ==
    /\ Origin \in [Update -> Process]
    /\ None \notin Update \cup LockFile
    /\ MaxPolls \in Nat
    /\ MaxCrashes \in Nat

VARIABLES
    lock,       \* the lock file: whose it is, metadata written, expired
    file,       \* what the store path names: its updates, and whether fsynced
    durable,    \* the updates the store path is sure to name after a power loss
    queue,      \* pathUpdates: the updates waiting in each process
    cur,        \* the update each process is working on
    pc,
    polls,
    temp,       \* the state read, then the temporary file
    outcome,    \* how the current update will be answered
    answer,     \* what each caller of update was told
    judged,     \* who found the lock file that is there to be stale
    stolen      \* whether a lock that its remover had not judged was removed

watch == <<judged, stolen>>

vars == <<lock, file, durable, queue, cur, pc, polls, temp, outcome, answer, watch>>

workVars == <<file, durable, queue, cur, temp, answer>>

Content == [ids : SUBSET Update, synced : BOOLEAN]

Holding == {"metadata", "read", "temp", "sync", "rename", "syncdir", "close", "unlink"}

Waiting == {"create", "inspect", "mtime", "remove", "wait"}

Init ==
    /\ lock = None
    /\ file = [ids |-> {}, synced |-> TRUE]
    /\ durable = {}
    /\ queue = [p \in Process |-> <<>>]
    /\ cur = [p \in Process |-> None]
    /\ pc = [p \in Process |-> "idle"]
    /\ polls = [p \in Process |-> 0]
    /\ temp = [p \in Process |-> [ids |-> {}, synced |-> FALSE]]
    /\ outcome = [p \in Process |-> "none"]
    /\ answer = [u \in Update |-> "new"]
    /\ judged = {}
    /\ stolen = FALSE

-----------------------------------------------------------------------------
(* The queue of one process *)

(* update is called: the work is chained behind pathUpdates. *)
Enqueue(p, u) ==
    /\ pc[p] # "dead"
    /\ Origin[u] = p
    /\ answer[u] = "new"
    /\ queue' = [queue EXCEPT ![p] = Append(@, u)]
    /\ answer' = [answer EXCEPT ![u] = "pending"]
    /\ UNCHANGED <<lock, file, durable, cur, pc, polls, temp, outcome, watch>>

(* The previous update has settled, one way or the other. *)
Dequeue(p) ==
    /\ pc[p] = "idle"
    /\ queue[p] # <<>>
    /\ cur' = [cur EXCEPT ![p] = Head(queue[p])]
    /\ queue' = [queue EXCEPT ![p] = Tail(@)]
    /\ pc' = [pc EXCEPT ![p] = "create"]
    /\ polls' = [polls EXCEPT ![p] = 0]
    /\ outcome' = [outcome EXCEPT ![p] = "ok"]
    /\ UNCHANGED <<lock, file, durable, temp, answer, watch>>

(* The promise of update settles: the caller is answered. *)
Settle(p, result) ==
    /\ answer' = [answer EXCEPT ![cur[p]] = result]
    /\ pc' = [pc EXCEPT ![p] = "idle"]
    /\ cur' = [cur EXCEPT ![p] = None]
    /\ temp' = [temp EXCEPT ![p] = [ids |-> {}, synced |-> FALSE]]
    /\ outcome' = [outcome EXCEPT ![p] = "none"]

-----------------------------------------------------------------------------
(* The lock file *)

(* The random token in the metadata names one acquisition. *)
OwnLock(p) == lock # None /\ lock.process = p /\ lock.update = cur[p]

(* Mutant: the lock is created without O_EXCL. *)
MutCreateLock(p) ==
    /\ pc[p] = "create"
    /\ lock' = [process |-> p, update |-> cur[p], written |-> FALSE, expired |-> FALSE]
    /\ judged' = {}
    /\ pc' = [pc EXCEPT ![p] = "metadata"]
    /\ UNCHANGED <<polls, outcome, stolen, workVars>>

(* createLock up to the open with O_EXCL. *)
CreateLock(p) ==
    /\ pc[p] = "create"
    /\ IF lock = None
         THEN /\ lock' = [process |-> p, update |-> cur[p], written |-> FALSE, expired |-> FALSE]
              /\ judged' = {}
              /\ pc' = [pc EXCEPT ![p] = "metadata"]
         ELSE /\ UNCHANGED <<lock, judged>>
              /\ pc' = [pc EXCEPT ![p] = "inspect"]
    /\ UNCHANGED <<polls, outcome, stolen, workVars>>

(* The metadata goes to the open handle: if the path was replaced in the    *)
(* meantime, to a file that has no name any more.                           *)
WriteMetadata(p) ==
    /\ pc[p] = "metadata"
    /\ lock' = IF OwnLock(p) THEN [lock EXCEPT !.written = TRUE] ELSE lock
    /\ pc' = [pc EXCEPT ![p] = "read"]
    /\ UNCHANGED <<polls, outcome, workVars, watch>>

(* The write or the fsync of the metadata fails: the path is removed,       *)
(* unless that fails too, and the error thrown.                             *)
WriteMetadataFails(p) ==
    /\ pc[p] = "metadata"
    /\ \/ lock' = None
       \/ UNCHANGED lock
       \/ OwnLock(p) /\ lock' = [lock EXCEPT !.written = TRUE]
    /\ Settle(p, "error")
    /\ UNCHANGED <<file, durable, queue, polls, watch>>

(* The verdict of recoverStaleLock on the lock file that is there. *)
Judge(p) ==
    /\ pc' = [pc EXCEPT ![p] = IF lock # None /\ lock.expired THEN "remove" ELSE "wait"]
    /\ judged' = IF lock # None /\ lock.expired THEN judged \cup {p} ELSE judged

(* recoverStaleLock: readLockMetadata, which answers with nothing when the  *)
(* lock cannot be opened or is not written yet.                             *)
InspectLock(p) ==
    /\ pc[p] = "inspect"
    /\ \/ lock # None /\ lock.written /\ Judge(p)
       \/ pc' = [pc EXCEPT ![p] = "mtime"] /\ UNCHANGED judged
    /\ UNCHANGED <<lock, polls, outcome, stolen, workVars>>

(* Mutant: a lock without metadata counts as stale. *)
MutInspectMtime(p) ==
    /\ pc[p] = "mtime"
    /\ pc' = [pc EXCEPT ![p] = IF lock # None THEN "remove" ELSE "wait"]
    /\ judged' = IF lock # None THEN judged \cup {p} ELSE judged
    /\ UNCHANGED <<lock, polls, outcome, stolen, workVars>>

(* lockMtimeExpired, for a lock without readable metadata; a lock that      *)
(* cannot be looked at is not stale.                                        *)
InspectMtime(p) ==
    /\ pc[p] = "mtime"
    /\ \/ Judge(p)
       \/ pc' = [pc EXCEPT ![p] = "wait"] /\ UNCHANGED judged
    /\ UNCHANGED <<lock, polls, outcome, stolen, workVars>>

(* rm(path): whatever the path names by now. *)
RemoveStaleLock(p) ==
    /\ pc[p] = "remove"
    /\ lock' = None
    /\ judged' = judged \ {p}
    /\ stolen' = IF lock # None /\ p \notin judged THEN TRUE ELSE stolen
    /\ pc' = [pc EXCEPT ![p] = "wait"]
    /\ UNCHANGED <<polls, outcome, workVars>>

(* Mutant: the time spent waiting is not counted. *)
MutPollForever(p) ==
    /\ pc[p] = "wait"
    /\ pc' = [pc EXCEPT ![p] = "create"]
    /\ UNCHANGED <<lock, polls, outcome, workVars, watch>>

(* Five seconds are not over: poll again. *)
PollAgain(p) ==
    /\ pc[p] = "wait"
    /\ polls[p] < MaxPolls
    /\ polls' = [polls EXCEPT ![p] = @ + 1]
    /\ pc' = [pc EXCEPT ![p] = "create"]
    /\ UNCHANGED <<lock, outcome, workVars, watch>>

(* Mutant: the caller is told of the timeout, and the update stays queued.  *)
MutLockTimeout(p) ==
    /\ pc[p] = "wait"
    /\ Settle(p, "error")
    /\ queue' = [queue EXCEPT ![p] = Append(@, cur[p])]
    /\ UNCHANGED <<lock, file, durable, polls, watch>>

(* "store file is locked" *)
LockTimeout(p) ==
    /\ pc[p] = "wait"
    /\ Settle(p, "error")
    /\ UNCHANGED <<lock, file, durable, queue, polls, watch>>

(* The directory cannot be made, or a file-system error other than EEXIST   *)
(* ends acquireLock.                                                        *)
AcquireFails(p) ==
    /\ pc[p] \in {"create", "inspect", "remove"}
    /\ Settle(p, "error")
    /\ UNCHANGED <<lock, file, durable, queue, polls, watch>>

(* releaseLock: the metadata is read back.  A lock that cannot be opened    *)
(* counts as not our own, stays, and is no error. ...                       *)
CloseLock(p) ==
    /\ pc[p] = "close"
    /\ \/ /\ OwnLock(p)
          /\ lock.written
          /\ pc' = [pc EXCEPT ![p] = "unlink"]
          /\ UNCHANGED <<cur, temp, outcome, answer>>
       \/ Settle(p, outcome[p])
    /\ UNCHANGED <<lock, file, durable, queue, polls, watch>>

(* ... and the path removed when the token was our own. *)
UnlinkLock(p) ==
    /\ pc[p] = "unlink"
    /\ lock' = None
    /\ Settle(p, outcome[p])
    /\ UNCHANGED <<file, durable, queue, polls, watch>>

(* A file-system error in releaseLock replaces the outcome of the work, and *)
(* leaves the lock file where it is.                                        *)
ReleaseFails(p) ==
    /\ pc[p] \in {"close", "unlink"}
    /\ Settle(p, "error")
    /\ UNCHANGED <<lock, file, durable, queue, polls, watch>>

-----------------------------------------------------------------------------
(* The work under the lock *)

(* read, then the function, which runs at once on what was read. *)
ReadAndApply(p) ==
    /\ pc[p] = "read"
    /\ temp' = [temp EXCEPT ![p] = [ids |-> file.ids \cup {cur[p]}, synced |-> FALSE]]
    /\ pc' = [pc EXCEPT ![p] = "temp"]
    /\ UNCHANGED <<lock, file, durable, queue, cur, polls, outcome, answer, watch>>

(* Mutant: the file is written although the function threw. *)
MutApplyThrows(p) ==
    /\ pc[p] = "read"
    /\ temp' = [temp EXCEPT ![p] = [ids |-> file.ids \cup {cur[p]}, synced |-> FALSE]]
    /\ outcome' = [outcome EXCEPT ![p] = "refused"]
    /\ pc' = [pc EXCEPT ![p] = "temp"]
    /\ UNCHANGED <<lock, file, durable, queue, cur, polls, answer, watch>>

(* The function throws: nothing is written. *)
ApplyThrows(p) ==
    /\ pc[p] = "read"
    /\ outcome' = [outcome EXCEPT ![p] = "refused"]
    /\ pc' = [pc EXCEPT ![p] = "close"]
    /\ UNCHANGED <<lock, polls, workVars, watch>>

(* write: the temporary file gets its content ... *)
WriteTemp(p) ==
    /\ pc[p] = "temp"
    /\ pc' = [pc EXCEPT ![p] = "sync"]
    /\ UNCHANGED <<lock, polls, outcome, workVars, watch>>

(* Mutant: the temporary file is not fsynced. *)
MutSyncTemp(p) ==
    /\ pc[p] = "sync"
    /\ pc' = [pc EXCEPT ![p] = "rename"]
    /\ UNCHANGED <<lock, polls, outcome, workVars, watch>>

(* ... is fsynced ... *)
SyncTemp(p) ==
    /\ pc[p] = "sync"
    /\ temp' = [temp EXCEPT ![p].synced = TRUE]
    /\ pc' = [pc EXCEPT ![p] = "rename"]
    /\ UNCHANGED <<lock, file, durable, queue, cur, polls, outcome, answer, watch>>

(* ... renamed over the store path ... *)
RenameTemp(p) ==
    /\ pc[p] = "rename"
    /\ file' = temp[p]
    /\ pc' = [pc EXCEPT ![p] = "syncdir"]
    /\ UNCHANGED <<lock, durable, queue, cur, polls, temp, outcome, answer, watch>>

(* ... and the directory fsynced. *)
SyncDirectory(p) ==
    /\ pc[p] = "syncdir"
    /\ durable' = file.ids
    /\ pc' = [pc EXCEPT ![p] = "close"]
    /\ UNCHANGED <<lock, file, queue, cur, polls, temp, outcome, answer, watch>>

(* A file-system error in read or write; after the rename the update is in  *)
(* the store although its caller is told that it failed.                    *)
WorkFails(p) ==
    /\ pc[p] \in {"read", "temp", "sync", "rename", "syncdir"}
    /\ outcome' = [outcome EXCEPT ![p] = "error"]
    /\ pc' = [pc EXCEPT ![p] = "close"]
    /\ UNCHANGED <<lock, polls, workVars, watch>>

-----------------------------------------------------------------------------
(* The environment *)

Dead == {p \in Process : pc[p] = "dead"}

(* The process dies; its promises never settle, its lock file stays. *)
Crash(p) ==
    /\ pc[p] # "dead"
    /\ Cardinality(Dead) < MaxCrashes
    /\ pc' = [pc EXCEPT ![p] = "dead"]
    /\ UNCHANGED <<lock, file, durable, queue, cur, polls, temp, outcome, answer, watch>>

(* The lock file is that of an update under way in a live process. *)
InUse == pc[lock.process] \in Holding /\ cur[lock.process] = lock.update

(* 300 seconds pass over a lock that was left behind: its process died, or  *)
(* could not remove it.  Assumed: the work under a lock, which is bounded   *)
(* by the size of the store, takes a live process less than that.           *)
LockExpires ==
    /\ lock # None
    /\ ~lock.expired
    /\ ~InUse
    /\ lock' = [lock EXCEPT !.expired = TRUE]
    /\ UNCHANGED <<file, durable, queue, cur, pc, polls, temp, outcome, answer, watch>>

Step(p) ==
    \/ Dequeue(p)
    \/ CreateLock(p) \/ WriteMetadata(p) \/ WriteMetadataFails(p)
    \/ InspectLock(p) \/ InspectMtime(p) \/ RemoveStaleLock(p)
    \/ PollAgain(p) \/ LockTimeout(p) \/ AcquireFails(p)
    \/ ReadAndApply(p) \/ ApplyThrows(p)
    \/ WriteTemp(p) \/ SyncTemp(p) \/ RenameTemp(p) \/ SyncDirectory(p) \/ WorkFails(p)
    \/ CloseLock(p) \/ UnlinkLock(p) \/ ReleaseFails(p)

Next ==
    \/ \E p \in Process : Step(p) \/ Crash(p)
    \/ \E p \in Process, u \in Update : Enqueue(p, u)
    \/ LockExpires

Spec == Init /\ [][Next]_vars

(* A live process keeps running its event loop. *)
FairSpec == Spec /\ \A p \in Process : WF_vars(Step(p))

-----------------------------------------------------------------------------
(* Properties *)

TypeOK ==
    /\ lock \in LockFile \cup {None}
    /\ file \in Content
    /\ durable \in SUBSET Update
    /\ queue \in [Process -> Seq(Update)]
    /\ cur \in [Process -> Update \cup {None}]
    /\ pc \in [Process -> {"idle", "dead"} \cup Waiting \cup Holding]
    /\ polls \in [Process -> 0..MaxPolls]
    /\ temp \in [Process -> Content]
    /\ outcome \in [Process -> {"none", "ok", "refused", "error"}]
    /\ answer \in [Update -> {"new", "pending", "ok", "refused", "error"}]
    /\ judged \in SUBSET Process
    /\ stolen \in BOOLEAN

(* The lock file keeps two processes from working on the file at once,      *)
(* whatever locks were left behind and removed as stale, as long as each    *)
(* waiter removes the very lock it has judged.                              *)
MutualExclusion ==
    ~stolen => \A p, q \in Process : pc[p] \in Holding /\ pc[q] \in Holding => p = q

(* An update whose caller was told that it succeeded is in the store file,  *)
(* whatever the other processes wrote since: withStoreLock serializes the   *)
(* read-modify-write transactions of all processes.                         *)
NoLostUpdate == \A u \in Update : answer[u] = "ok" => u \in file.ids

(* That is so as long as no waiter removes a lock other than the one it has *)
(* judged: errors, crashes and stale locks alone lose nothing.              *)
UpdatesKept == ~stolen => NoLostUpdate

(* A power loss at any moment leaves a complete file, because content is    *)
(* fsynced before the rename, and with every acknowledged update, because   *)
(* the directory is fsynced before the answer.                              *)
PowerLossSafe ==
    /\ file.synced
    /\ ~stolen => \A u \in Update : answer[u] = "ok" => u \in durable

(* An update whose function threw leaves nothing behind, not even through   *)
(* the state it shared with the updates after it.                           *)
RefusedLeavesNoTrace == \A u \in Update : answer[u] = "refused" => u \notin file.ids

(* Every update is answered unless its own process dies: a lock left behind *)
(* by another process, or a failed update ahead in the queue, cannot hang   *)
(* it.                                                                      *)
EveryUpdateAnswered ==
    \A u \in Update :
        answer[u] = "pending" ~> (answer[u] # "pending" \/ pc[Origin[u]] = "dead")

Atomic == INSTANCE AtomicStore WITH content <- file.ids, safe <- durable

(* The queue, the lock, the temporary file and the rename together make an  *)
(* update one step on the whole file, taken while its caller waits, and     *)
(* only once: what a failed, timed-out or crashed update has begun never    *)
(* reaches the file after its answer.  The promise of AtomicStore ends with *)
(* the first removal of a lock that its remover had not judged.             *)
ImplementsAtomicStore ==
    Atomic!AtomicInit /\ [][stolen \/ Atomic!AtomicNext]_(Atomic!atomicVars)
=============================================================================
