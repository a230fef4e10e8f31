------------------------------ MODULE AMListing ------------------------------
(***************************************************************************)
(* The access manager's listing (usecases/am.go): what may be typed after  *)
(* a prefix on the way to a permission, and which of the complete          *)
(* permissions on the list the account has.                                *)
(*                                                                         *)
(* A prefix is the sequence of its parts between "::"; what is typed of    *)
(* the last part is Empty or a whole one.  An entry has no ownership level:*)
(* a complete one stands for a lender's and an owner's permission.         *)
(***************************************************************************)
EXTENDS Permission

Sx == INSTANCE SequencesExt

CONSTANTS WillIAM,          \* the service name of Will.IAM itself
          Registered,       \* permission names of the services, in a sequence
          RoleList,         \* roles, in a sequence of records of id and name
          AccountIds,       \* ids of service accounts
          ServiceIds,       \* ids of services
          Empty,            \* nothing typed
          ServiceAM(_, _)   \* what GET /am of a service answers to a prefix

\* Ids are UUIDs.
ASSUME ListsAssumption ==
  /\ Registered \in Seq(Sx!Range(Registered))
  /\ RoleList \in Seq(Sx!Range(RoleList))
  /\ \A r \in Sx!Range(RoleList) : r.id \in Segments
  /\ AccountIds \subseteq Segments /\ ServiceIds \subseteq Segments

Entry(prefix, complete) ==
  [prefix |-> prefix, complete |-> complete, lender |-> FALSE, owner |-> FALSE]

Each(F(_), s) == [i \in DOMAIN s |-> F(s[i])]
Begins(whole, typed) == typed \in {Empty, whole}

\* The loops that append, in order, those of s that are in T.
Kept(s, T) ==
  LET kept[i \in 0..Len(s)] ==
        IF i = 0 THEN <<>>
        ELSE IF s[i] \in T THEN Append(kept[i - 1], s[i]) ELSE kept[i - 1]
  IN  kept[Len(s)]

\* The names in s that begin as typed.
Filtered(s, typed) == Kept(s, {name \in Sx!Range(s) : Begins(name, typed)})

RolesActions           == <<"CreateRoles", "EditRole">>
ServiceAccountsActions == <<"CreateServiceAccounts", "EditServiceAccount">>
ServicesActions        == <<"CreateServices", "EditService">>

-----------------------------------------------------------------------------
(* The list *)

ListServices(typed) ==
  Each(LAMBDA s : Entry(<<s>>, FALSE), Filtered(<<WillIAM>> \o Registered, typed))

\* Fault: the second append forgotten.
ListWillIAMActionsTwo(typed) ==
  Each(LAMBDA a : Entry(<<WillIAM, a>>, FALSE),
       Filtered(RolesActions \o ServiceAccountsActions, typed))

ListWillIAMActions(typed) ==
  Each(LAMBDA a : Entry(<<WillIAM, a>>, FALSE),
       Filtered(RolesActions \o ServiceAccountsActions \o ServicesActions, typed))

\* Only EditRole is about one role; the roles whose name begins as typed are
\* offered by their ids.
ListRolesActionsRH(action, typed) ==
  IF action \in {"CreateRoles", "ListRoles"} THEN <<>>
  ELSE Each(LAMBDA r : Entry(<<WillIAM, action, r.id>>, TRUE),
            Kept(RoleList, {r \in Sx!Range(RoleList) : Begins(r.name, typed)}))

ListWillIAMResourceHierarchies(action, typed) ==
  IF action \in Sx!Range(RolesActions) THEN ListRolesActionsRH(action, typed) ELSE <<>>

ListWillIAMPermissions(prefix) ==
  IF Len(prefix) = 2 THEN ListWillIAMActions(prefix[2])
  ELSE ListWillIAMResourceHierarchies(prefix[2], prefix[3])

\* The service answers without its own name, which is put before.
ListServicePermissions(prefix) ==
  Each(LAMBDA e : [e EXCEPT !.prefix = <<prefix[1]>> \o @],
       ServiceAM(prefix[1], Tail(prefix)))

\* What services are expected to answer: entries without flags, whose prefixes
\* go on after the service's name with an action and parts of a hierarchy; a
\* wildcard is the last part of a complete one.
Answer(ams) ==
  /\ ams \in Seq(Sx!Range(ams))
  /\ \A e \in Sx!Range(ams) :
       /\ e.complete \in BOOLEAN /\ e = Entry(e.prefix, e.complete)
       /\ e.prefix \in Seq(Sx!Range(e.prefix))
       /\ e.complete => /\ Tail(e.prefix) \in Seq(Parts)
                        /\ WellFormed(Tail(e.prefix))

ListPermissions(prefix) ==
  CASE Len(prefix) = 1 -> ListServices(prefix[1])
    [] Len(prefix) > 1 /\ prefix[1] = WillIAM -> ListWillIAMPermissions(prefix)
    [] Len(prefix) > 1 /\ prefix[1] # WillIAM -> ListServicePermissions(prefix)

\* After "::" and up to the first part of a hierarchy a wildcard may follow,
\* unless the list has one.
MaybeAddStarPermissions(prefix, ams) ==
  IF \/ Len(prefix) = 1 \/ Sx!Last(prefix) # Empty \/ Len(prefix) > 3
     \/ \E i \in DOMAIN ams : Sx!Last(ams[i].prefix) = Star
    THEN ams
    ELSE <<Entry(Append(Sx!Front(prefix), Star), Len(prefix) >= 3)>> \o ams

-----------------------------------------------------------------------------
(* What the account has of it *)

\* ValidatePermission: service, action and a hierarchy, no part of them empty.
Valid(prefix) == Len(prefix) >= 3 /\ \A i \in DOMAIN prefix : prefix[i] # Empty

BuildPermission(prefix, level) ==
  [service |-> prefix[1], level |-> level, action |-> prefix[2],
   rh |-> SubSeq(prefix, 3, Len(prefix))]

\* Fault: the owner's permission is built as the lender's is.
BuildLenderAndLender(prefix) ==
  <<BuildPermission(prefix, RL), BuildPermission(prefix, RL)>>

BuildLenderAndOwnerPermissions(prefix) ==
  <<BuildPermission(prefix, RL), BuildPermission(prefix, RO)>>

ServiceAccountHasPermissions(rows, ps) == Each(LAMBDA p : IsPresent(rows, p), ps)

\* AM.List succeeds when the service is registered, so that it has a URL, and
\* every complete entry can be made a permission.
Succeeds(prefix) ==
  /\ Len(prefix) > 1 => prefix[1] \in {WillIAM} \cup Sx!Range(Registered)
  /\ \A e \in Sx!Range(ListPermissions(prefix)) : e.complete => Valid(e.prefix)

\* The first loop of AM.List: the two permissions of every complete entry, and
\* the places of those entries.
Questions(ams) ==
  LET loop[i \in 0..Len(ams)] ==
        IF i = 0 THEN [ps |-> <<>>, is |-> <<>>]
        ELSE IF ams[i].complete
          THEN LET before == loop[i - 1]
               IN  [ps |-> before.ps \o BuildLenderAndOwnerPermissions(ams[i].prefix),
                    is |-> Append(before.is, i)]
          ELSE loop[i - 1]
  IN  loop[Len(ams)]

\* The second one gives the answers back by place.
Flagged(ams, is, has) ==
  LET at(i) == CHOOSE k \in DOMAIN is : is[k] = i
  IN  [i \in DOMAIN ams |->
         IF i \in Sx!Range(is)
           THEN [ams[i] EXCEPT !.lender = has[2 * at(i) - 1], !.owner = has[2 * at(i)]]
           ELSE ams[i]]

\* AM.List: all the questions are asked at once.
List(rows, prefix) ==
  LET ams == MaybeAddStarPermissions(prefix, ListPermissions(prefix))
      q   == Questions(ams)
  IN  Flagged(ams, q.is, ServiceAccountHasPermissions(rows, q.ps))

-----------------------------------------------------------------------------
(* Routes *)

\* The permissions the routes of Will.IAM demand, as prefixes: of whoever
\* creates something that of everything, of whoever reads or edits one role,
\* account or service that of its {id}.
Guards ==
  {<<WillIAM, a, Star>> : a \in {"CreateRoles", "CreateServiceAccounts", "CreateServices"}}
    \cup {<<WillIAM, "EditRole", r.id>> : r \in Sx!Range(RoleList)}
    \cup {<<WillIAM, "EditServiceAccount", id>> : id \in AccountIds}
    \cup {<<WillIAM, "EditService", id>> : id \in ServiceIds}
=============================================================================
