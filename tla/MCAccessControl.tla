--------------------------- MODULE MCAccessControl ---------------------------
(***************************************************************************)
(* A small organisation: root administers Will.IAM and owns a branch of a  *)
(* service, ana owns a leaf of it and lends another, and both belong to a  *)
(* team.  The requests below are the ones they and their colleagues send.  *)
(***************************************************************************)
EXTENDS AccountLists

CONSTANTS root, ana, new1, new2,             \* accounts
          rRoot, rAna, team, rNew1, rNew2,   \* roles
          n1, n2, n3, pic,                   \* names, addresses, a picture
          iam, shop, lab,                    \* services
          read,                              \* an action
          x, y                               \* parts of hierarchies

MCAccounts == {root, ana, new1, new2}
MCRoles    == {rRoot, rAna, team, rNew1, rNew2}
MCNames    == {n1, n2, n3}
MCPictures == {pic}
MCServices == {iam, shop, lab}
MCActions  == {read, "CreateRoles", "EditRole", "CreateServiceAccounts",
               "EditServiceAccount", "CreateServices"}
MCSegments == {x, y} \cup MCAccounts \cup MCRoles

Perm(l, s, a, h) == [service |-> s, level |-> l, action |-> a, rh |-> h]

Admin    == Perm(RO, iam, Star, <<Star>>)
Branch   == Perm(RO, shop, read, <<x, Star>>)
Leaf     == Perm(RO, shop, read, <<x, y>>)
LeafLoan == Perm(RL, shop, read, <<x, y>>)
Loan     == Perm(RL, shop, read, <<y>>)

Person(name, base) ==
  [name |-> name, email |-> name, picture |-> None, base |-> base]

MCInitAccounts == [a \in MCAccounts |-> CASE a = root -> Person(n1, rRoot)
                                          [] a = ana  -> Person(n2, rAna)
                                          [] OTHER    -> None]
MCInitRoles    == {rRoot, rAna, team}
MCInitBindings == {<<root, rRoot>>, <<ana, rAna>>, <<ana, team>>}
MCInitRows     == {[role |-> rRoot, perm |-> Admin], [role |-> rRoot, perm |-> Branch],
                   [role |-> rAna, perm |-> Leaf], [role |-> team, perm |-> Loan]}

MCRank  == [n \in MCNames |-> CASE n = n1 -> 1 [] n = n2 -> 2 [] n = n3 -> 3]
MCAsked == {Branch, LeafLoan}

Few(S) == {{}} \cup {{e} : e \in S}

\* Requests on roles, permissions and services, with lists of at most one.
\* Role updates are for the roles the role list shows: not for base roles.
RoleRequests ==
  LET given == {Branch, Leaf, LeafLoan, Loan}
  IN  {[Blank("createRole") EXCEPT !.caller = root, !.perms = ps, !.accts = as] :
          ps \in Few(given), as \in {{ana}, {new1}}}
      \cup {[Blank("updateRole") EXCEPT !.caller = root, !.target = team,
                                        !.perms = ps, !.accts = as] :
          ps \in Few(given), as \in Few({ana})}
      \cup {[Blank(op) EXCEPT !.caller = c, !.target = r, !.perms = {p}] :
          op \in {"createPermission", "deletePermission"}, c \in {root, ana},
          r \in {team, rAna}, p \in given}
      \cup {[Blank("attribute") EXCEPT !.caller = ana, !.roles = {rRoot, team},
                                       !.perms = {p}] : p \in {LeafLoan, Loan}}
      \cup {[Blank("attributeToEmails") EXCEPT !.caller = root, !.emails = {n2},
                                               !.perms = {p}] : p \in {Branch, Loan}}
      \cup {[Blank("createService") EXCEPT !.caller = c, !.name = n3, !.service = lab] :
          c \in {root, ana}}

\* Logins of people known and unknown, and the administration of accounts.
\* The body of an update repeats the account's address.
AccountRequests ==
  {[Blank("login") EXCEPT !.email = e, !.picture = p] :
      e \in {n2, n3}, p \in {None, pic}}
  \cup {[Blank("createAccount") EXCEPT !.caller = root, !.name = n, !.email = e,
                                       !.perms = {Leaf}, !.roles = rs] :
      n \in {n2, n3}, e \in {None, n3}, rs \in {{}, {rAna}, {team}}}
  \cup {[Blank("updateAccount") EXCEPT !.caller = root, !.target = ana, !.name = n,
                                       !.email = n2, !.perms = ps, !.roles = rs] :
      n \in {n2, n3}, ps \in Few({Leaf}), rs \in {{}, {rAna}, {team}}}

\* An administrator gives a person a permission by updating their base role.
BaseRoleRequests ==
  {[Blank("updateRole") EXCEPT !.caller = root, !.target = rAna, !.perms = {Branch}]}

CONSTANTS WithRoles, WithAccounts, WithBaseRoles   \* which of them a run sends
MCRequests == (IF WithRoles THEN RoleRequests ELSE {})
                \cup (IF WithAccounts THEN AccountRequests ELSE {})
                \cup (IF WithBaseRoles THEN BaseRoleRequests ELSE {})
=============================================================================
