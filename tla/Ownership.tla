------------------------------ MODULE Ownership ------------------------------
(***************************************************************************)
(* What the workspaces package promises about the people of one workspace: *)
(*                                                                         *)
(*   - nobody owns it before it is founded, and from then on exactly one   *)
(*     user does;                                                          *)
(*   - the ownership moves only on an offer its present owner made, to the *)
(*     user it was made to; an offer by somebody who does not own the      *)
(*     workspace any more comes to nothing;                                *)
(*   - people come and go one at a time: the owner cannot leave, the old   *)
(*     owner stays a member when the ownership moves, and who has left     *)
(*     returns only as the owner.                                          *)
(*                                                                         *)
(* Module Workspaces, with its requests, its check-then-act steps and its  *)
(* crashes, is shown to implement this specification.                      *)
(***************************************************************************)
CONSTANTS
  Users,    \* the users of the system
  NoUser    \* "nobody"

VARIABLES
  owner,     \* the owner, or nobody
  standing,  \* of each user: outsider, member or removed
  offers     \* pairs <<u, v>>: u has offered v the ownership

people == <<owner, standing, offers>>

Init ==
  /\ owner = NoUser
  /\ standing = [u \in Users |-> "outsider"]
  /\ offers = {}

Becomes(u, s) == standing' = [standing EXCEPT ![u] = s]

Found(u) ==
  /\ owner = NoUser
  /\ owner' = u
  /\ Becomes(u, "member")
  /\ UNCHANGED offers

Join(u) ==
  /\ owner # NoUser
  /\ standing[u] = "outsider"
  /\ Becomes(u, "member")
  /\ UNCHANGED <<owner, offers>>

Leave(u) ==
  /\ standing[u] = "member"
  /\ u # owner
  /\ Becomes(u, "removed")
  /\ UNCHANGED <<owner, offers>>

Offer(u) ==
  /\ owner \notin {NoUser, u}
  /\ offers' = offers \cup {<<owner, u>>}
  /\ UNCHANGED <<owner, standing>>

(* An offer lapses: withdrawn, or refused because its maker is no longer   *)
(* the owner.                                                              *)
Lapse(o) ==
  /\ offers' = offers \ {o}
  /\ UNCHANGED <<owner, standing>>

(* The same offer may have been made twice; one of them is used.           *)
HandOver(u) ==
  /\ <<owner, u>> \in offers
  /\ owner' = u
  /\ Becomes(u, "member")
  /\ offers' \in {offers, offers \ {<<owner, u>>}}

Next ==
  \/ \E u \in Users : Found(u) \/ Join(u) \/ Leave(u) \/ Offer(u) \/ HandOver(u)
  \/ \E o \in offers : Lapse(o)

Spec == Init /\ [][Next]_people
=============================================================================
