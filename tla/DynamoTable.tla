---------------------------- MODULE DynamoTable ----------------------------
(***************************************************************************)
(* One item collection of the DynamoDB state table, as the code in         *)
(* auth/storage/dynamodb uses it: a partial function from keys to items.   *)
(* GetItem is always sent with ConsistentRead, so a read sees every write  *)
(* that was acknowledged before it; a conditional write evaluates its      *)
(* condition and applies its update in one step.  External: the service    *)
(* itself is not part of the repository.                                   *)
(***************************************************************************)
EXTENDS Naturals, FiniteSets

EmptyTable == [k \in {} |-> k]

HasItem(table, k) == k \in DOMAIN table

(* PutItem, and UpdateItem on a whole item. *)
PutItem(table, k, item) ==
    [x \in DOMAIN table \cup {k} |-> IF x = k THEN item ELSE table[x]]

(* DeleteItem, and the removal of an item by the TTL process. *)
DeleteItem(table, k) ==
    [x \in DOMAIN table \ {k} |-> table[x]]

(* The condition "#expiresAt > :now": false when the item is missing. *)
ExpiresAfter(table, k, now) ==
    HasItem(table, k) /\ table[k].expiresAt > now
=============================================================================
