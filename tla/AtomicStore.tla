---------------------------- MODULE AtomicStore ----------------------------
(***************************************************************************)
(* What StoreFile.update promises its callers, whatever the processes that *)
(* share the file do: an update is one step, made between its call and its *)
(* answer, on the content that the step before has left.  The models of    *)
(* the disk store take an update for such a step; StoreFile is shown to    *)
(* implement it.                                                           *)
(***************************************************************************)

CONSTANT Update     \* calls of StoreFile.update

VARIABLES
    content,    \* the updates that were made
    safe,       \* those a power loss would leave
    answer      \* what each caller was told

atomicVars == <<content, safe, answer>>

AtomicInit ==
    /\ content = {}
    /\ safe = {}
    /\ answer = [u \in Update |-> "new"]

Call(u) ==
    /\ answer[u] = "new"
    /\ answer' = [answer EXCEPT ![u] = "pending"]
    /\ UNCHANGED <<content, safe>>

(* The update is made, once, and nothing else changes. *)
Apply(u) ==
    /\ answer[u] = "pending"
    /\ u \notin content
    /\ content' = content \cup {u}
    /\ UNCHANGED <<safe, answer>>

(* All that was made so far is safe. *)
Save ==
    /\ safe' = content
    /\ UNCHANGED <<content, answer>>

(* The caller learns the outcome.  After an error it does not know whether  *)
(* the update was made, but that it will not be made any more.              *)
Reply(u, result) ==
    /\ answer[u] = "pending"
    /\ result = "ok" => u \in safe
    /\ result = "refused" => u \notin content
    /\ answer' = [answer EXCEPT ![u] = result]
    /\ UNCHANGED <<content, safe>>

AtomicNext ==
    \/ \E u \in Update :
         Call(u) \/ Apply(u) \/ \E result \in {"ok", "refused", "error"} : Reply(u, result)
    \/ Save

AtomicSpec == AtomicInit /\ [][AtomicNext]_atomicVars
=============================================================================
