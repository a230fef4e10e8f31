---------------------------- MODULE MCPermission ----------------------------
(***************************************************************************)
(* Every pair of permissions over a small alphabet, visited as states: a   *)
(* row an account holds and a permission somebody asks for.  A step asks   *)
(* for another permission, or hands the asked one on (it becomes the held  *)
(* row) when the owner's check allows it.                                  *)
(***************************************************************************)
EXTENDS AMListing, RequestList

CONSTANTS MaxDepth,   \* bound: parts of a hierarchy
          x, y        \* segments, and the ids of two roles

ASSUME DepthAssumption == MaxDepth \in Nat

VARIABLES root, held, asked
vars == <<root, held, asked>>

BoundedHierarchies == UNION {[1..n -> Parts] : n \in 1..MaxDepth}

Universe == [service : Services \cup {Star}, level : Levels,
             action : Actions \cup {Star}, rh : BoundedHierarchies]

Init == /\ held \in Universe
        /\ root = held
        /\ asked = held

\* The evaluators are asked another question about the held row.
Ask == /\ asked' \in Universe
       /\ UNCHANGED <<root, held>>

\* The owner of the held row hands out the asked permission.
HandOut == /\ GoGrants(held, OwnerOf(asked))
           /\ held' = asked
           /\ UNCHANGED <<root, asked>>

Next == Ask \/ HandOut

Spec == Init /\ [][Next]_vars

-----------------------------------------------------------------------------
\* The two evaluators give the same answer for every hierarchy written the
\* way the README writes them: a permission that a handler taking one
\* permission (SQL) accepts, a handler taking a list (Go) accepts, and back.
EvaluatorsAgree ==
  (WellFormed(held.rh) /\ WellFormed(asked.rh))
    => (SqlGrants(held, asked) <=> GoGrants(held, asked))

\* Whatever the hierarchies, SQL never answers yes where Go answers no.
SqlIsStricter == SqlGrants(held, asked) => GoGrants(held, asked)

\* Contains is the inclusion of the resources the two hierarchies stand for.
ContainsIsInclusion ==
  (WellFormed(held.rh) /\ WellFormed(asked.rh))
    => (Contains(held.rh, asked.rh)
          <=> Denotes(asked.rh, MaxDepth + 1) \subseteq Denotes(held.rh, MaxDepth + 1))

\* However long the chain of hand-outs, its last permission lies within what
\* an owner at its start had: levels and wildcards never add up to more, and
\* a lender starts no chain.
ChainsConserveRights ==
  held = root \/ GoGrants(root, [held EXCEPT !.level = RO])

\* The list of open requests, a query of its own, agrees with the evaluator
\* that decides: see RequestReachesDeciders.
RequestsReachDeciders == RequestReachesDeciders(held, asked)

-----------------------------------------------------------------------------
(* The listing of an account that holds root and held *)

MCRoleList == <<[id |-> x, name |-> "crew"], [id |-> y, name |-> "team"]>>
MCRegistered == <<"shop">>

\* A service that lists its one action, or all it has below it: complete
\* entries among others, with a wildcard of its own or without.
MCServiceAM(service, tail) ==
  IF tail = <<Empty>> THEN <<Entry(<<"read">>, FALSE)>>
  ELSE IF Len(tail) = 2
    THEN <<Entry(<<"read", x>>, FALSE), Entry(<<"read", x, y>>, TRUE), Entry(<<"read", y>>, TRUE)>>
    ELSE <<Entry(<<"read", x, y>>, TRUE), Entry(<<"read", x, Star>>, TRUE)>>

Typings ==
  {<<t>> : t \in {Empty, WillIAM, "shop"}}
    \cup {<<WillIAM, t>> : t \in {Empty} \cup Sx!Range(RolesActions)}
    \cup {<<WillIAM, a, t>> : a \in Sx!Range(RolesActions \o ServicesActions),
                             t \in {Empty, "crew"}}
    \cup {<<WillIAM, "EditRole", x, Empty>>, <<"shop", Empty>>,
          <<"shop", "read", Empty>>, <<"shop", "read", x, Empty>>}

ASSUME ServiceAMAssumption ==
  \A prefix \in Typings :
    Len(prefix) > 1 /\ prefix[1] # WillIAM => Answer(ServiceAM(prefix[1], Tail(prefix)))

Mine == {root, held}
AllWellFormed == \A row \in Mine : WellFormed(row.rh)

\* The flags of a complete entry are the answers the account gets elsewhere
\* about the two permissions the entry stands for, from the other evaluator;
\* an incomplete entry is never flagged.
ListingTellsRights ==
  AllWellFormed =>
    \A prefix \in Typings : Succeeds(prefix) =>
      \A e \in Sx!Range(List(Mine, prefix)) :
        /\ e.lender = (e.complete /\ HasPermission(Mine, BuildPermission(e.prefix, RL)))
        /\ e.owner  = (e.complete /\ HasPermission(Mine, BuildPermission(e.prefix, RO)))

May(p) == HasPermission(Mine, BuildPermission(p, RL))

\* The list of what may be typed has p: as the beginning of a permission; as
\* a permission, flagged as the routes decide about it.
Continues(typed, p) ==
  \E e \in Sx!Range(List(Mine, typed)) : e.prefix = p /\ ~e.complete
Completes(typed, p) ==
  \E e \in Sx!Range(List(Mine, typed)) : e.prefix = p /\ e.complete /\ e.lender = May(p)

\* Whoever types from entry to entry comes, on the way to any permission a
\* route demands, to its action, and there to the permission for everything: if
\* that is flagged as his, the route lets him pass.  A role is also offered by
\* itself, with the answer of its routes.  An account or a service is not
\* (usecases/am.go:205): one who may edit that one only finds no entry saying so.
ListingLeadsToGuards ==
  AllWellFormed =>
    \A g \in Guards :
      LET all   == <<WillIAM, g[2], Star>>
          typed == <<WillIAM, g[2], Empty>>
      IN  /\ Continues(<<Empty>>, <<WillIAM>>)
          /\ Continues(<<WillIAM, Empty>>, <<WillIAM, g[2]>>)
          /\ Completes(typed, all) /\ (May(all) => May(g))
          /\ g[2] = "EditRole" => Completes(typed, g)

-----------------------------------------------------------------------------
\* The comment on PermissionMatches (models/permission.go:73): the list holds
\* all the ways an account can have a permission over the hierarchy, so that
\* any hierarchy that contains the asked one is on it.
MatchesAreComplete ==
  Contains(held.rh, asked.rh) => held.rh \in PermissionMatches(asked.rh)
=============================================================================
