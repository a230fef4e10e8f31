----------------------------- MODULE RequestList -----------------------------
(***************************************************************************)
(* The list of open permission requests an account is shown.  It is meant  *)
(* for those who decide them, but it is a query of its own, a third        *)
(* evaluator of permissions besides the two of Permission: it matches      *)
(* hierarchies as strings, with LIKE.                                      *)
(*                                                                         *)
(* No part of a hierarchy is the beginning of another one here; in the     *)
(* code, a held x also brings requests for a longer name that begins so.   *)
(***************************************************************************)
EXTENDS Permission

\* Fault: no "%" after the hierarchy.
LikeWhole(rh, orh) == Len(rh) = Len(orh) /\ \A i \in DOMAIN rh : rh[i] \in {Star, orh[i]}

\* rh without its wildcards, followed by anything.  A wildcard in the middle
\* leaves an empty part, which no other hierarchy has.
Like(rh, orh) ==
  /\ Len(rh) <= Len(orh)
  /\ \A i \in 1..(Len(rh) - 1) : rh[i] # Star /\ rh[i] = orh[i]
  /\ rh[Len(rh)] \in {Star, orh[Len(rh)]}

\* One row of the account, and one open request for the permission p.
Shows(held, p) ==
  /\ held.level = RO
  /\ Wild(held.service, p.service)
  /\ Wild(held.action, p.action)
  /\ held.rh = <<Star>> \/ Like(held.rh, p.rh)

\* PermissionsRequests.ListOpenRequestsVisibleTo, without its pages.
ListOpenRequestsVisibleTo(rows, open) ==
  {p \in open : \E held \in rows : Shows(held, p)}

-----------------------------------------------------------------------------
(* Properties, of a row held and a permission asked for *)

\* Whoever may decide a request finds it on the list, unless a row of theirs
\* has a wildcard before its last part; and whoever finds one they may not
\* decide owns the complete hierarchy that the asked one continues.
RequestReachesDeciders(held, asked) ==
  LET shown   == asked \in ListOpenRequestsVisibleTo({held}, {asked})
      decides == HasPermission({held}, OwnerOf(asked))
  IN  WellFormed(held.rh) =>
        /\ decides => shown
        /\ (shown /\ ~ decides /\ WellFormed(asked.rh)) =>
             /\ held.rh[Len(held.rh)] # Star
             /\ held.rh = SubSeq(asked.rh, 1, Len(held.rh)) /\ held.rh # asked.rh
=============================================================================
