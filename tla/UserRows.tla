-------------------------------- MODULE UserRows --------------------------------
(***************************************************************************)
(* What the platform promises of a user's devices, uploads and snapshots:  *)
(* each operation is one step, and nothing is seen of it before or after   *)
(* that step. Which transactions carry it out, what they lock and when     *)
(* they are aborted is left to the specification that implements this one. *)
(***************************************************************************)
EXTENDS Integers, FiniteSets

CONSTANTS Devices, Approved, Limits, NoBytes

VARIABLES
  tier,      \* the user's tier, or "gone"
  state,     \* of each device: "none", "live", "ended" (its grant is gone), "revoked"
  claimed,   \* the devices that have stored a snapshot once
  uploads,   \* the user's uploads
  snapshots, \* the ids of the uploads that have a snapshot
  last       \* the bytes each device stored last, unless a row of it was deleted since

vars == <<tier, state, claimed, uploads, snapshots, last>>

Ids == {u.id : u \in uploads}
RowsOf(d) == {u \in uploads : u.dev = d}

(* Only live devices hold a slot, and there is one more for d while the    *)
(* others leave one of those its user has today.                           *)
Holders == {d \in claimed : state[d] = "live"}
HasPlace(d) == tier # "gone" /\ Cardinality(Holders \ {d}) < Limits[tier]

(* The uploads are these from now on, and those that parsed have snapshots. *)
Keep(rows) == uploads' = rows /\ snapshots' = {u.id : u \in {v \in rows : v.parsed}}
Forget(gone) == last' = [d \in Devices |-> IF \E u \in gone : u.dev = d THEN NoBytes ELSE last[d]]

Init ==
  /\ tier = "free"
  /\ state = [d \in Devices |-> IF d \in Approved THEN "live" ELSE "none"]
  /\ claimed \subseteq Approved /\ Cardinality(claimed) <= Limits["free"]
  /\ uploads = {} /\ snapshots = {} /\ last = [d \in Devices |-> NoBytes]

(* A device the user did not revoke stores bytes it did not just store: it *)
(* has a slot, or there is one for it, which its first snapshot takes. The *)
(* new row is the device's newest.                                         *)
Store ==
  \E u \in uploads' \ uploads :
    /\ state[u.dev] \in {"live", "ended"} /\ last[u.dev] # u.sha
    /\ u.id \notin Ids /\ \A v \in RowsOf(u.dev) : v.id < u.id
    /\ u.dev \in claimed \/ HasPlace(u.dev)
    /\ Keep(uploads \cup {u})
    /\ last' = [last EXCEPT ![u.dev] = u.sha]
    /\ claimed' = IF u.parsed THEN claimed \cup {u.dev} ELSE claimed
    /\ UNCHANGED <<tier, state>>

(* The re-parse changes what one upload parses to, and its snapshot.       *)
Reparse ==
  \E u \in uploads, parsed \in BOOLEAN :
    /\ Keep((uploads \ {u}) \cup {[u EXCEPT !.parsed = parsed]})
    /\ UNCHANGED <<tier, state, claimed, last>>

(* Uploads go with their snapshots: a batch of expired ones, which may     *)
(* commit after its user became a paid one, or all of them.                *)
Remove(gone) ==
  /\ Keep(uploads \ gone) /\ Forget(gone)
  /\ UNCHANGED <<tier, state, claimed>>

Expire == \E gone \in SUBSET uploads : gone # {} /\ Remove(gone)
DeleteData == Remove(uploads)

DeleteAccount ==
  /\ tier' = "gone" /\ state' = [d \in Devices |-> "none"]
  /\ Keep({}) /\ Forget(uploads)
  /\ UNCHANGED claimed

Approve(d) ==
  /\ tier # "gone" /\ state[d] = "none" /\ d \notin claimed
  /\ state' = [state EXCEPT ![d] = "live"]
  /\ UNCHANGED <<tier, claimed, uploads, snapshots, last>>

EndGrant(d) ==
  /\ state[d] = "live" /\ state' = [state EXCEPT ![d] = "ended"]
  /\ UNCHANGED <<tier, claimed, uploads, snapshots, last>>

Revoke(d) ==
  /\ state[d] \in {"live", "ended"} /\ state' = [state EXCEPT ![d] = "revoked"]
  /\ UNCHANGED <<tier, claimed, uploads, snapshots, last>>

ChangeTier ==
  /\ tier # "gone" /\ tier' \in DOMAIN Limits \ {tier}
  /\ UNCHANGED <<state, claimed, uploads, snapshots, last>>

Next ==
  \/ Store \/ Reparse \/ Expire \/ DeleteData \/ DeleteAccount \/ ChangeTier
  \/ \E d \in Devices : Approve(d) \/ EndGrant(d) \/ Revoke(d)

Spec == Init /\ [][Next]_vars
=============================================================================
