----------------------------- MODULE Permission -----------------------------
(***************************************************************************)
(* The permission algebra of Will.IAM (models/permission.go) and its two   *)
(* evaluators.                                                             *)
(*                                                                         *)
(* A permission string Service::Level::Action::{ResourceHierarchy} is a    *)
(* record; its hierarchy, which the code splits on "::" before every       *)
(* comparison, is the sequence of its parts.  Whether an account satisfies *)
(* a permission is decided in two places that share no code:               *)
(*   - by SQL, ServiceAccounts.HasPermission, with the list of strings     *)
(*     that PermissionMatches builds (route guards, owner checks of        *)
(*     handlers that take one permission, permission requests);            *)
(*   - in Go, Permission.IsPresent over all the rows of the account        *)
(*     (owner checks of handlers that take lists of permissions).          *)
(***************************************************************************)
EXTENDS Naturals, Sequences, FiniteSets

CONSTANTS Services,   \* names of services, as they appear in permissions
          Actions,    \* names of actions
          Segments,   \* the parts of a hierarchy that are not the wildcard
          Star        \* the wildcard "*"

ASSUME StarAssumption == Star \notin Services \cup Actions \cup Segments

Parts == Segments \cup {Star}

\* A hierarchy has at least one part: strings.Split never returns none.
Hierarchies == Seq(Parts) \ {<<>>}

RO == "RO"            \* owner: may use the permission and hand it out
RL == "RL"            \* lender: may only use it
Levels == {RO, RL}

Permissions == [service : Services \cup {Star}, level : Levels,
                action : Actions \cup {Star}, rh : Hierarchies]

\* OwnershipLevel.Less: a lender is less than an owner, nothing else is.
Less(l, m) == l = RL /\ m = RO

-----------------------------------------------------------------------------
(* Hierarchies *)

\* Faults: the size check forgotten; a hierarchy no longer containing itself.
ContainsUnsized(rh, orh) ==
  \/ rh = orh
  \/ \E k \in DOMAIN rh : /\ rh[k] = Star
                          /\ \A j \in 1..(k - 1) : j \in DOMAIN orh /\ rh[j] = orh[j]
ContainsStrictly(rh, orh) ==
  /\ Len(rh) <= Len(orh)
  /\ \E k \in DOMAIN rh : rh[k] = Star /\ \A j \in 1..(k - 1) : rh[j] = orh[j]

\* ResourceHierarchy.Contains: the loop walks the parts of orh; a wildcard
\* of rh met while everything before it agreed ends it with success.
Contains(rh, orh) ==
  /\ Len(rh) <= Len(orh)
  /\ \/ rh = orh
     \/ \E k \in DOMAIN rh : /\ rh[k] = Star
                             /\ \A j \in 1..(k - 1) : rh[j] = orh[j]

\* Fault: the loop stops one part early.
PrefixesShort(rh) ==
  {Append(SubSeq(rh, 1, i), Star) :
      i \in {n \in 1..(Len(rh) - 2) : \A j \in 2..(n + 1) : rh[j] # Star}}

\* What the loop of PermissionMatches appends: the i first parts followed by
\* a wildcard, for every i before the first wildcard after part one.
Prefixes(rh) ==
  {Append(SubSeq(rh, 1, i), Star) :
      i \in {n \in 1..(Len(rh) - 1) : \A j \in 2..(n + 1) : rh[j] # Star}}

\* ResourceHierarchy.PermissionMatches, as the set SQL's = ANY makes of it.
PermissionMatches(rh) ==
  IF rh = <<Star>> THEN {rh} ELSE {<<Star>>, rh} \cup Prefixes(rh)

\* Hierarchies as the README writes them: a wildcard only as the last part.
WellFormed(rh) == \A i \in 1..(Len(rh) - 1) : rh[i] # Star

-----------------------------------------------------------------------------
(* The two evaluators: does the held permission satisfy the asked one? *)

Wild(held, asked) == held = Star \/ held = asked

\* One row of ServiceAccounts.HasPermission.
SqlGrants(held, asked) ==
  /\ Wild(held.service, asked.service)
  /\ Wild(held.action, asked.action)
  /\ asked.level = RO => held.level = RO
  /\ held.rh \in PermissionMatches(asked.rh)

\* One row of Permission.IsPresent.
GoGrants(held, asked) ==
  /\ Wild(held.service, asked.service)
  /\ Wild(held.action, asked.action)
  /\ ~Less(held.level, asked.level)
  /\ Contains(held.rh, asked.rh)

HasPermission(rows, asked) == \E held \in rows : SqlGrants(held, asked)
IsPresent(rows, asked)     == \E held \in rows : GoGrants(held, asked)

\* Fault: the level is left as the body has it.
OwnerOfUnlifted(p) == p

\* The owner's version of a permission, which handlers ask for before they
\* let the caller hand the permission out.
OwnerOf(p) == [p EXCEPT !.level = RO]

HasAllOwnerPermissions(rows, ps) == \A p \in ps : IsPresent(rows, OwnerOf(p))

\* Permission.HasServiceFullAccess and HasServiceFullOwnership.
HasServiceFullAccess(p)    == p.action = Star /\ p.rh = <<Star>>
HasServiceFullOwnership(p) == HasServiceFullAccess(p) /\ p.level = RO

\* Fault: the service's account and creator become lenders.
FullLoan(service) ==
  [service |-> service, level |-> RL, action |-> Star, rh |-> <<Star>>]

\* What Services.Create gives to the service's account and to its creator.
FullOwnership(service) ==
  [service |-> service, level |-> RO, action |-> Star, rh |-> <<Star>>]

-----------------------------------------------------------------------------
(* What a hierarchy stands for (README: complete and open hierarchies) *)

\* A resource is named by parts without wildcards.  A complete hierarchy
\* stands for the one resource it names, an open one for everything below
\* the parts before its wildcard.
Resources(depth) == UNION {[1..n -> Segments] : n \in 1..depth}

Denotes(rh, depth) ==
  IF rh[Len(rh)] = Star
    THEN {r \in Resources(depth) : /\ Len(r) >= Len(rh)
                                   /\ \A j \in 1..(Len(rh) - 1) : r[j] = rh[j]}
    ELSE {rh}
=============================================================================
