----------------------------- MODULE RequestDesk -----------------------------
(***************************************************************************)
(* What the permission-request desk promises, without transactions: a      *)
(* request is opened when none like it is open, and somebody who owned the *)
(* permission at some moment since then decides it, granting it together   *)
(* with the row that gives the permission, or denying it.                  *)
(***************************************************************************)
EXTENDS Permission

CONSTANTS Accounts,     \* service accounts
          Asked,        \* permissions that may be asked for
          Ids,          \* ids of requests
          None,         \* absent value
          Redecide      \* may a closed request be decided again?

VARIABLES requests,     \* table permissions_requests, by id
          rows,         \* table permissions: the rows of base roles
          since         \* history: what was true at some moment since opening

deskVars == <<requests, rows, since>>

Held(a)    == {r.perm : r \in {x \in rows : x.sa = a}}
Owns(a, p) == HasPermission(Held(a), OwnerOf(p))

\* The requests of the table for permission p to account sa that are open.
OpenRequests(sa, p) ==
  {id \in Ids : /\ requests[id] # None
                /\ requests[id].sa = sa /\ requests[id].perm = p
                /\ requests[id].state = "open"}

\* The row that gives what a request asks for.
RowOf(r) == [sa |-> r.sa, perm |-> r.perm]

NothingSince == [owners |-> {}, had |-> FALSE]

\* Of every request: who owns its permission, and whether the requester has
\* the row it asks for,
Now == [id \in Ids |->
  IF requests[id] = None
    THEN NothingSince
    ELSE [owners |-> {a \in Accounts : Owns(a, requests[id].perm)},
          had    |-> RowOf(requests[id]) \in rows]]

\* ... and at some moment since it was opened.
Remember ==
  since' = [id \in Ids |-> [owners |-> since[id].owners \cup Now'[id].owners,
                            had    |-> since[id].had \/ Now'[id].had]]

DeskInit ==
  /\ requests = [id \in Ids |-> None]
  /\ since = [id \in Ids |-> NothingSince]

Open(id, sa, p) ==
  /\ requests[id] = None
  /\ OpenRequests(sa, p) = {}
  /\ requests' = [requests EXCEPT ![id] =
       [sa |-> sa, perm |-> p, state |-> "open", moderator |-> None]]
  /\ UNCHANGED rows

Decidable(id, m) ==
  /\ requests[id] # None
  /\ requests[id].state = "open" \/ Redecide
  /\ m \in since[id].owners

Decide(id, outcome, m) ==
  requests' = [requests EXCEPT ![id].state = outcome, ![id].moderator = m]

Deny(id, m) ==
  /\ Decidable(id, m)
  /\ Decide(id, "denied", m)
  /\ UNCHANGED rows

\* A grant gives the row.  It may leave the rows alone only if the requester
\* already had the row at some moment since it asked.
Grant(id, m) ==
  /\ Decidable(id, m)
  /\ Decide(id, "granted", m)
  /\ \/ rows' = rows \cup {RowOf(requests[id])}
     \/ since[id].had /\ UNCHANGED rows

\* Other routes of the API give and take rows.
Elsewhere == UNCHANGED requests

DeskNext ==
  /\ \/ \E id \in Ids, sa \in Accounts, p \in Asked : Open(id, sa, p)
     \/ \E id \in Ids, m \in Accounts : Deny(id, m) \/ Grant(id, m)
     \/ Elsewhere
  /\ Remember

DeskSpec == DeskInit /\ [][DeskNext]_deskVars
=============================================================================
