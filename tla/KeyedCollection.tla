--------------------------- MODULE KeyedCollection ---------------------------
(***************************************************************************)
(* What one collection of the configuration document (externals,         *)
(* processes or pipelines) promises its users (spec.md, 3 and 4.3):       *)
(* names are unique keys, a create never clobbers an existing entry, an   *)
(* edit replaces an entry by a new version of the same entity under the   *)
(* same name, and an entry is destroyed only by removing it by name.      *)
(*                                                                         *)
(* An entry is a record [id |-> i, val |-> v]: id is the identity of the  *)
(* entity (which create made it), val abstracts its fields.               *)
(***************************************************************************)
EXTENDS FiniteSets

CONSTANTS Keys, Ids, Vals

VARIABLE coll

Entry == [id : Ids, val : Vals]

UsedIds == {coll[k].id : k \in DOMAIN coll}

\* Extend or override the function f at key k.
Put(f, k, e) == [x \in DOMAIN f \cup {k} |-> IF x = k THEN e ELSE f[x]]

Init == coll = [k \in {} |-> CHOOSE e \in Entry : TRUE]

\* A new entity, with an identity no entry has, under a free name.
Create(k, e) ==
    /\ k \notin DOMAIN coll
    /\ e.id \notin UsedIds
    /\ coll' = Put(coll, k, e)

\* A new version of the entity stored under k, under the same name.
Update(k, e) ==
    /\ k \in DOMAIN coll
    /\ e.id = coll[k].id
    /\ coll' = [coll EXCEPT ![k] = e]

Remove(k) ==
    /\ k \in DOMAIN coll
    /\ coll' = [x \in DOMAIN coll \ {k} |-> coll[x]]

\* Loading a document replaces every entry by fresh entities.
ReplaceAll ==
    /\ DOMAIN coll' \subseteq Keys
    /\ \A k \in DOMAIN coll' : coll'[k] \in Entry /\ coll'[k].id \notin UsedIds
    /\ \A a, b \in DOMAIN coll' : a # b => coll'[a].id # coll'[b].id

Next ==
    \/ \E k \in Keys, e \in Entry : Create(k, e) \/ Update(k, e)
    \/ \E k \in Keys : Remove(k)
    \/ ReplaceAll

Spec == Init /\ [][Next]_coll
=============================================================================
