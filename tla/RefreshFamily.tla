--------------------------- MODULE RefreshFamily ---------------------------
(***************************************************************************)
(* What a refresh-token store promises, whatever its backend.              *)
(*                                                                         *)
(* A family starts with the token of one authorization-code grant and      *)
(* grows only at its tip: a token is exchanged for at most one successor.  *)
(* A closed family (a replay was detected, or the family lapsed) never     *)
(* grows again.  Both OAuthStore implementations are shown to implement    *)
(* this specification.                                                     *)
(***************************************************************************)
EXTENDS DynamoTable

CONSTANTS
    Token,      \* refresh tokens, identified with their hashes
    Family,     \* family identifiers
    Root        \* parent of a token that was not obtained by rotation

VARIABLES
    lineage,    \* every token ever minted: its parent and its family
    closed      \* families that no longer mint tokens

familyVars == <<lineage, closed>>

Used(f) == \E t \in DOMAIN lineage : lineage[t].family = f

Successors(t) == {u \in DOMAIN lineage : lineage[u].parent = t}

FamilyInit ==
    /\ lineage = EmptyTable
    /\ closed = {}

(* createRefreshToken: the first token of a new family. *)
Grant(t, f) ==
    /\ t \notin DOMAIN lineage
    /\ ~Used(f)
    /\ lineage' = PutItem(lineage, t, [parent |-> Root, family |-> f])
    /\ UNCHANGED closed

(* rotateRefreshToken, answered with a new token. *)
Rotate(old, new) ==
    /\ old \in DOMAIN lineage
    /\ new \notin DOMAIN lineage
    /\ Successors(old) = {}
    /\ lineage[old].family \notin closed
    /\ lineage' = PutItem(lineage, new, [parent |-> old, family |-> lineage[old].family])
    /\ UNCHANGED closed

(* The family is revoked after a replay, or lapses. *)
Close(f) ==
    /\ Used(f)
    /\ closed' = closed \cup {f}
    /\ UNCHANGED lineage

FamilyNext ==
    \/ \E t \in Token, f \in Family : Grant(t, f)
    \/ \E old, new \in Token : Rotate(old, new)
    \/ \E f \in Family : Close(f)

FamilySpec == FamilyInit /\ [][FamilyNext]_familyVars
=============================================================================
