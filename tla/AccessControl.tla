---------------------------- MODULE AccessControl ----------------------------
(***************************************************************************)
(* The role-based access-control core of Will.IAM: service accounts, roles,*)
(* bindings, permission rows and services, and the HTTP requests that      *)
(* change them.                                                            *)
(*                                                                         *)
(* A request is served by one goroutine in several steps that talk to the  *)
(* database one after the other: the route's guard, the owner checks of    *)
(* the handler, and then one transaction of the use case.  Nothing is held *)
(* between two steps, so requests interleave and what a check read may be  *)
(* gone when the transaction runs.  A transaction is one action here (its  *)
(* statements are the subject of other modules); a request refused by a    *)
(* check, or whose transaction fails, changes nothing: Fail.               *)
(***************************************************************************)
EXTENDS Permission

CONSTANTS Accounts,      \* ids that service accounts may get
          Roles,         \* ids that roles may get
          Names,         \* names of accounts and e-mail addresses
          Pictures,      \* profile pictures the identity provider may report
          None,          \* absent value (NULL)
          WillIAM,       \* the service name of Will.IAM itself
          Workers,       \* goroutines serving requests
          Requests,      \* the requests clients send
          MaxCalls,      \* bound: requests served in a behaviour
          InitAccounts, InitRoles, InitBindings, InitRows

VARIABLES accounts,      \* table service_accounts, by id
          roles,         \* table roles
          bindings,      \* table role_bindings
          rows,          \* table permissions
          services,      \* table services
          job,           \* what each worker is doing
          calls          \* requests accepted so far

vars == <<accounts, roles, bindings, rows, services, job, calls>>
tables == <<accounts, roles, bindings, rows, services>>

Account == [name : Names, email : Names \cup {None},
            picture : Pictures \cup {None}, base : Roles]
Row     == [role : Roles, perm : Permissions]
Service == [account : Accounts, creator : Accounts, permissionName : Services]

Ops == {"createRole", "updateRole", "createPermission", "deletePermission",
        "attribute", "attributeToEmails", "createAccount", "updateAccount",
        "createService", "login"}

\* One record for every kind of request; a field a kind does not use is empty.
Request == [op : Ops,
            caller  : Accounts \cup {None},          \* who sends it
            target  : Accounts \cup Roles \cup {None}, \* {id} of the route
            perms   : SUBSET Permissions,            \* the rest is the body
            accts   : SUBSET Accounts,
            roles   : SUBSET Roles,
            emails  : SUBSET Names,
            name    : Names \cup {None},
            email   : Names \cup {None},
            picture : Pictures \cup {None},
            service : Services \cup {None}]

Blank(op) == [op |-> op, caller |-> None, target |-> None, perms |-> {},
              accts |-> {}, roles |-> {}, emails |-> {}, name |-> None,
              email |-> None, picture |-> None, service |-> None]

Steps == {"idle", "roles", "perms", "owner", "find", "create", "write", "commit"}

\* A worker: the request, the next step, the accounts a query found and the
\* account row it read.
Job  == [req : Requests, step : Steps, found : SUBSET Accounts,
         seen : Account \cup {None}] \cup {None}

ASSUME NoneAssumption ==
  None \notin Account \cup [req : Requests, step : Steps, found : SUBSET Accounts,
                            seen : Account \cup {None}]

\* What the routes and the Validate methods of the bodies let through.
Valid(q) ==
  /\ q.op # "login" => q.caller \in Accounts
  /\ q.op \in {"updateRole", "createPermission", "deletePermission"}
       => q.target \in Roles
  /\ q.op = "updateAccount" => q.target \in Accounts
  /\ q.op \in {"createAccount", "updateAccount", "createService"} => q.name \in Names
  /\ q.op = "login" => q.email \in Names
  /\ q.op = "createService" => q.service \in Services

ASSUME RequestsAssumption ==
  /\ Requests \subseteq Request
  /\ \A q \in Requests : Valid(q)
  /\ MaxCalls \in Nat
ASSUME InitAssumption ==
  /\ InitAccounts \in [Accounts -> Account \cup {None}]
  /\ InitRoles \subseteq Roles
  /\ \A a \in Accounts : InitAccounts[a] # None => InitAccounts[a].base \in InitRoles
  /\ InitBindings \subseteq {a \in Accounts : InitAccounts[a] # None} \X InitRoles
  /\ InitRows \subseteq [role : InitRoles, perm : Permissions]

\* The unique indexes of the schema hold of the database a behaviour starts with.
ASSUME IndexesAssumption ==
  \A a, b \in {c \in Accounts : InitAccounts[c] # None} :
    \/ InitAccounts[a].name = InitAccounts[b].name
    \/ InitAccounts[a].email = InitAccounts[b].email /\ InitAccounts[a].email # None
    => a = b

-----------------------------------------------------------------------------
(* Queries *)

Existing == {a \in Accounts : accounts[a] # None}

\* Permissions.ForServiceAccount: the rows of every role bound to the account.
RowsOf(a) == {row.perm : row \in {x \in rows : <<a, x.role>> \in bindings}}

\* Permissions.ForRole, for several roles.
RowsOfRoles(rs) == {row.perm : row \in {x \in rows : x.role \in rs}}

\* ServiceAccounts.ForEmail and ForEmails.
WithEmail(emails) == {a \in Existing : accounts[a].email \in emails}

\* Fault: the unique index on addresses is missing.
EmailUnindexed(email, self) == TRUE

\* The unique indexes on names and on e-mail addresses; NULLs never clash.
NameFree(name, self) == \A a \in Existing \ {self} : accounts[a].name # name
EmailFree(email, self) ==
  email = None \/ \A a \in Existing \ {self} : accounts[a].email # email

Given(rs, ps) == [role : rs, perm : ps]

-----------------------------------------------------------------------------
(* Routes *)

\* The action of the Will.IAM permission a route demands (api/app.go).
RouteAction == [createRole    |-> "CreateRoles",
                updateRole    |-> "EditRole",
                createAccount |-> "CreateServiceAccounts",
                updateAccount |-> "EditServiceAccount",
                createService |-> "CreateServices"]
Guarded == DOMAIN RouteAction

\* hasPermissionMiddleware: {id} is replaced by the id in the path.
RouteGuard(q) ==
  q.op \in Guarded =>
    HasPermission(RowsOf(q.caller),
      [service |-> WillIAM, level |-> RL, action |-> RouteAction[q.op],
       rh |-> <<IF q.target = None THEN Star ELSE q.target>>])

FirstStep(op) ==
  CASE op \in {"createAccount", "updateAccount"}         -> "roles"
    [] op \in {"createRole", "updateRole", "attribute",
               "attributeToEmails"}                      -> "perms"
    [] op \in {"createPermission", "deletePermission"}   -> "owner"
    [] op = "createService"                              -> "commit"
    [] op = "login"                                      -> "find"

Doing(w, op, step) ==
  job[w] # None /\ job[w].req.op = op /\ job[w].step = step

Advance(w, step) == job' = [job EXCEPT ![w].step = step]
Done(w)          == job' = [job EXCEPT ![w] = None]

\* A request comes in and passes the route's guard.  The caller of every
\* request but a login has been authenticated as an existing account; a
\* DELETE has found the row it names.
Arrive(w) ==
  /\ job[w] = None
  /\ calls < MaxCalls
  /\ \E q \in Requests :
       /\ q.op # "login" => q.caller \in Existing /\ RouteGuard(q)
       /\ q.op = "deletePermission" => Given({q.target}, q.perms) \subseteq rows
       /\ job' = [job EXCEPT ![w] = [req |-> q, step |-> FirstStep(q.op),
                                     found |-> {}, seen |-> None]]
  /\ calls' = calls + 1
  /\ UNCHANGED tables

\* The request ends without effect: a check says no, a constraint or the
\* connection fails and the transaction is rolled back, the process dies.
Fail(w) ==
  /\ job[w] # None
  /\ Done(w)
  /\ UNCHANGED <<tables, calls>>

-----------------------------------------------------------------------------
(* Owner checks *)

\* Fault: the roles of the body are taken as they are.
CheckRolesTaken(w) ==
  /\ Doing(w, "createAccount", "roles") \/ Doing(w, "updateAccount", "roles")
  /\ Advance(w, "perms")
  /\ UNCHANGED <<tables, calls>>

\* HasAllOwnerRolesPermissions: the caller owns all that the roles of the
\* body give.
CheckRoles(w) ==
  /\ Doing(w, "createAccount", "roles") \/ Doing(w, "updateAccount", "roles")
  /\ LET q == job[w].req
     IN  HasAllOwnerPermissions(RowsOf(q.caller), RowsOfRoles(q.roles))
  /\ Advance(w, "perms")
  /\ UNCHANGED <<tables, calls>>

\* HasAllOwnerPermissions: the caller owns all the permissions of the body.
CheckPerms(w) ==
  /\ job[w] # None /\ job[w].step = "perms"
  /\ LET q == job[w].req
     IN  /\ HasAllOwnerPermissions(RowsOf(q.caller), q.perms)
         /\ Advance(w, IF q.op = "attributeToEmails" THEN "find" ELSE "commit")
  /\ UNCHANGED <<tables, calls>>

\* The handlers that take one permission ask SQL for its owner's version.
CheckOwner(w) ==
  /\ job[w] # None /\ job[w].step = "owner"
  /\ LET q == job[w].req
     IN  \A p \in q.perms : HasPermission(RowsOf(q.caller), OwnerOf(p))
  /\ Advance(w, "commit")
  /\ UNCHANGED <<tables, calls>>

-----------------------------------------------------------------------------
(* Roles and permissions *)

\* Fault: bindings to accounts that do not exist are accepted.
CreateRoleDangling(w) ==
  /\ Doing(w, "createRole", "commit")
  /\ LET q == job[w].req
     IN  \E r \in Roles \ roles :
           /\ roles' = roles \cup {r}
           /\ rows' = rows \cup Given({r}, q.perms)
           /\ bindings' = bindings \cup (q.accts \X {r})
  /\ Done(w)
  /\ UNCHANGED <<accounts, services, calls>>

\* Roles.Create: a new role, its rows and its bindings.  Bindings to ids that
\* are not accounts break a foreign key: the transaction fails.
CreateRole(w) ==
  /\ Doing(w, "createRole", "commit")
  /\ LET q == job[w].req
     IN  \E r \in Roles \ roles :
           /\ q.accts \subseteq Existing
           /\ roles' = roles \cup {r}
           /\ rows' = rows \cup Given({r}, q.perms)
           /\ bindings' = bindings \cup (q.accts \X {r})
  /\ Done(w)
  /\ UNCHANGED <<accounts, services, calls>>

\* Roles.Update: the rows of the role and all its bindings are replaced.
UpdateRole(w) ==
  /\ Doing(w, "updateRole", "commit")
  /\ LET q == job[w].req
     IN  /\ q.perms # {} \/ q.accts # {} => q.target \in roles
         /\ q.accts \subseteq Existing
         /\ rows' = {x \in rows : x.role # q.target} \cup Given({q.target}, q.perms)
         /\ bindings' = {b \in bindings : b[2] # q.target}
                          \cup (q.accts \X {q.target})
  /\ Done(w)
  /\ UNCHANGED <<accounts, roles, services, calls>>

\* Roles.CreatePermission: ON CONFLICT DO NOTHING.
CreatePermission(w) ==
  /\ Doing(w, "createPermission", "commit")
  /\ LET q == job[w].req
     IN  /\ q.target \in roles
         /\ rows' = rows \cup Given({q.target}, q.perms)
  /\ Done(w)
  /\ UNCHANGED <<accounts, roles, bindings, services, calls>>

\* Permissions.Delete, by id: when the row found at arrival was replaced by
\* an equal one since, the new row has another id and stays.
DeletePermission(w) ==
  /\ Doing(w, "deletePermission", "commit")
  /\ LET q == job[w].req
     IN  rows' = rows \ Given({q.target}, q.perms) \/ rows' = rows
  /\ Done(w)
  /\ UNCHANGED <<accounts, roles, bindings, services, calls>>

\* Permissions.Attribute: every permission to every role.
Attribute(w) ==
  /\ Doing(w, "attribute", "commit")
  /\ LET q == job[w].req
     IN  /\ q.perms # {} => q.roles \subseteq roles
         /\ rows' = rows \cup Given(q.roles, q.perms)
  /\ Done(w)
  /\ UNCHANGED <<accounts, roles, bindings, services, calls>>

\* Permissions.AttributeToEmails looks the accounts up before its transaction.
FindEmails(w) ==
  /\ Doing(w, "attributeToEmails", "find")
  /\ job' = [job EXCEPT ![w].found = WithEmail(job[w].req.emails),
                        ![w].step = "commit"]
  /\ UNCHANGED <<tables, calls>>

AttributeToEmails(w) ==
  /\ Doing(w, "attributeToEmails", "commit")
  /\ rows' = rows \cup Given({accounts[a].base : a \in job[w].found},
                              job[w].req.perms)
  /\ Done(w)
  /\ UNCHANGED <<accounts, roles, bindings, services, calls>>

-----------------------------------------------------------------------------
(* Service accounts *)

\* createServiceAccount: a base role, the account and their binding.  The
\* transaction fails when the name or the address is taken.
CreateServiceAccount(a, r, name, email) ==
  /\ accounts[a] = None /\ r \notin roles
  /\ NameFree(name, a) /\ EmailFree(email, a)
  /\ accounts' = [accounts EXCEPT ![a] = [name |-> name, email |-> email,
                                          picture |-> None, base |-> r]]
  /\ roles' = roles \cup {r}

\* ServiceAccounts.CreateWithNested.  A body without an address asks for a
\* key-pair account.
CreateWithNested(w) ==
  /\ Doing(w, "createAccount", "commit")
  /\ LET q == job[w].req
     IN  \E a \in Accounts, r \in Roles :
           /\ q.roles \subseteq roles
           /\ CreateServiceAccount(a, r, q.name, q.email)
           /\ bindings' = bindings \cup ({a} \X ({r} \cup q.roles))
           /\ rows' = rows \cup Given({r}, q.perms)
  /\ Done(w)
  /\ UNCHANGED <<services, calls>>

\* Fault: the binding to the base role is dropped with the others.
UnboundAll(sa) == {b \in bindings : b[1] = sa}

\* ServiceAccounts.DropBindings keeps the binding to the base role.
Unbound(sa) == {b \in bindings : b[1] = sa /\ b[2] # accounts[sa].base}

\* ServiceAccounts.UpdateWithNested.  The address is set to the new name.
UpdateWithNested(w) ==
  /\ Doing(w, "updateAccount", "commit")
  /\ LET q == job[w].req
         sa == q.target
         base == accounts[sa].base
     IN  /\ sa \in Existing
         /\ q.roles \subseteq roles
         /\ NameFree(q.name, sa) /\ EmailFree(q.name, sa)
         /\ accounts' = [accounts EXCEPT ![sa].name = q.name,
                                         ![sa].email = q.name]
         /\ bindings' = (bindings \ Unbound(sa)) \cup ({sa} \X (q.roles \ {base}))
         /\ rows' = {x \in rows : x.role # base} \cup Given({base}, q.perms)
  /\ Done(w)
  /\ UNCHANGED <<roles, services, calls>>

\* AuthenticateAccessToken, once the provider has vouched for the address:
\* the account is looked up; an unchanged picture ends the login.
FindAccount(w) ==
  /\ Doing(w, "login", "find")
  /\ LET q == job[w].req
     IN  IF WithEmail({q.email}) = {}
           THEN Advance(w, "create")
           ELSE \E a \in WithEmail({q.email}) :
                  IF q.picture \in {None, accounts[a].picture}
                    THEN Done(w)
                    ELSE job' = [job EXCEPT ![w].step = "write",
                                            ![w].found = {a},
                                            ![w].seen = accounts[a]]
  /\ UNCHANGED <<tables, calls>>

\* ... a missing account is created, in a transaction of its own,
CreateForEmail(w) ==
  /\ Doing(w, "login", "create")
  /\ LET q == job[w].req
     IN  \E a \in Accounts, r \in Roles :
           /\ CreateServiceAccount(a, r, q.email, q.email)
           /\ bindings' = bindings \cup {<<a, r>>}
  /\ Done(w)
  /\ UNCHANGED <<rows, services, calls>>

\* ... and a new picture is saved by writing back the whole row read before.
SavePicture(w) ==
  /\ Doing(w, "login", "write")
  /\ LET q == job[w].req
         seen == job[w].seen
     IN  \E a \in job[w].found :
           /\ NameFree(seen.name, a) /\ EmailFree(seen.email, a)
           /\ accounts' = [accounts EXCEPT ![a] = [seen EXCEPT !.picture = q.picture]]
  /\ Done(w)
  /\ UNCHANGED <<roles, bindings, rows, services, calls>>

-----------------------------------------------------------------------------
(* Services *)

\* Services.Create: a key-pair account named after the service, the service,
\* and full ownership of its permission name to that account and the creator.
CreateService(w) ==
  /\ Doing(w, "createService", "commit")
  /\ LET q == job[w].req
     IN  \E a \in Accounts, r \in Roles :
           /\ CreateServiceAccount(a, r, q.name, None)
           /\ bindings' = bindings \cup {<<a, r>>}
           /\ services' = services \cup
                {[account |-> a, creator |-> q.caller, permissionName |-> q.service]}
           /\ rows' = rows \cup Given({r, accounts[q.caller].base},
                                      {FullOwnership(q.service)})
  /\ Done(w)
  /\ UNCHANGED calls

-----------------------------------------------------------------------------

Init ==
  /\ accounts = InitAccounts
  /\ roles = InitRoles
  /\ bindings = InitBindings
  /\ rows = InitRows
  /\ services = {}
  /\ job = [w \in Workers |-> None]
  /\ calls = 0

Work(w) ==
  \/ CheckRoles(w) \/ CheckPerms(w) \/ CheckOwner(w)
  \/ CreateRole(w) \/ UpdateRole(w) \/ CreatePermission(w) \/ DeletePermission(w)
  \/ Attribute(w) \/ FindEmails(w) \/ AttributeToEmails(w)
  \/ CreateWithNested(w) \/ UpdateWithNested(w)
  \/ FindAccount(w) \/ CreateForEmail(w) \/ SavePicture(w)
  \/ CreateService(w)

Next == \E w \in Workers : Arrive(w) \/ Work(w) \/ Fail(w)

Spec == Init /\ [][Next]_vars

-----------------------------------------------------------------------------
(* Properties *)

\* Types, and what the foreign keys promise: bindings and rows name existing
\* accounts and roles, and every account's base role exists.
TypeOK ==
  /\ accounts \in [Accounts -> Account \cup {None}]
  /\ roles \subseteq Roles
  /\ \A a \in Existing : accounts[a].base \in roles
  /\ bindings \subseteq Existing \X roles
  /\ rows \subseteq [role : roles, perm : Permissions]
  /\ services \subseteq Service
  /\ job \in [Workers -> Job]
  /\ calls \in 0..MaxCalls

\* What a request under way knows of the accounts stays true: they are never
\* deleted, and a row is read before it is written back, with the base role
\* the account still has.
JobOKAt(w) ==
  /\ job[w].found \subseteq Existing
  /\ job[w].req.op # "login" => job[w].req.caller \in Existing
  /\ job[w].step = "write" =>
       /\ job[w].seen # None
       /\ \A a \in job[w].found : job[w].seen.base = accounts[a].base
JobOK == \A w \in Workers : job[w] # None => JobOKAt(w)

\* No step deletes an account or moves it to another base role.
AccountsKept ==
  \A a \in Existing : a \in Existing' /\ accounts'[a].base = accounts[a].base

\* The owner's rights there are: those the database started with and those
\* founded with a service.
Seeds == {row.perm : row \in {x \in InitRows : x.perm.level = RO}}
           \cup {FullOwnership(s.permissionName) : s \in services}

Backed(p) == \E q \in Seeds : GoGrants(q, OwnerOf(p))

\* Rights are never made up (README: an owner can provide the same rights, a
\* lender cannot): every row was there at the start or lies within a right
\* some seed owner had, however requests interleave, whatever is revoked
\* while they are under way, and however many hands a permission goes through.
RightsConserved == \A row \in rows : row \in InitRows \/ Backed(row.perm)

\* ... and so are the permissions a request is about to write: what makes
\* RightsConserved inductive although checks and writes are apart.
Checked(w) == /\ job[w] # None
              /\ \/ job[w].step = "commit" /\ job[w].req.op # "createService"
                 \/ job[w].step = "find" /\ job[w].req.op = "attributeToEmails"
CheckedConserved ==
  \A w \in Workers : Checked(w) => \A p \in job[w].req.perms : Backed(p)

\* Nobody is bound to a right that nobody owned, unless he was from the start:
\* who binds an account to a role owns what the role gives (README: a lender
\* cannot provide his rights to others).  The roles of an account's body are
\* checked by reading their rows, and bound in a later transaction
\* (api/service_accounts_handlers.go:120): the role may have grown by then, and
\* may have lost what the caller owned of it.
BindingsConserved ==
  \A a \in Existing : \A row \in rows :
    <<a, row.role>> \in bindings =>
      \/ Backed(row.perm)
      \/ row \in InitRows /\ <<a, row.role>> \in InitBindings

\* An e-mail address belongs to one account, also when two first logins, or
\* a first login and the creation of the account, look for it at once.
OneAccountPerAddress ==
  \A a, b \in Existing :
    accounts[a].email = accounts[b].email /\ accounts[a].email # None => a = b

\* An account is always bound to its base role: the permissions attributed
\* to it (to its base role) are permissions it has.
BaseBindingKept == \A a \in Existing : <<a, accounts[a].base>> \in bindings

\* "Also creates an associate Service Account with full access and attributes
\* full access to creator" (usecases/services.go:29): both own the service's
\* permission name the moment it exists, through the bindings they have.
FoundersOwnTheirService ==
  [][\A s \in services' \ services :
       \A a \in {s.account, s.creator} :
         \E p \in RowsOf(a)' :
           HasServiceFullOwnership(p) /\ p.service = s.permissionName]_vars

\* An address that resolves to an account resolves to the same account ever
\* after, unless an update of that account carries another address.
AddressKeepsAccount ==
  [][\A a \in Existing :
       accounts[a].email # None /\ accounts'[a].email # accounts[a].email
         => \E w \in Workers :
              /\ Doing(w, "updateAccount", "commit")
              /\ job[w].req.target = a
              /\ job[w].req.email # accounts[a].email]_vars
=============================================================================
