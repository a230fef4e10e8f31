---------------------------- MODULE AccountsProofs ----------------------------
(***************************************************************************)
(* For every set of accounts, roles, requests and workers: what the unique *)
(* indexes keep, who is bound to which role and so to which rights, and    *)
(* what the lists of accounts show.                                        *)
(***************************************************************************)
EXTENDS AccountLists, AccessControlProofs, FiniteSetTheorems,
        FunctionTheorems

-----------------------------------------------------------------------------
(* How a step changes the accounts *)

\* The unique index on names.
OneAccountPerName ==
  \A a, b \in Existing : accounts[a].name = accounts[b].name => a = b

\* A transaction writes at most one account, whose name and address the
\* indexes find free, and fails otherwise.
LEMMA AccountWritten ==
  ASSUME TypeOK, NEW w \in Workers, Arrive(w) \/ Work(w) \/ Fail(w)
  PROVE  \/ UNCHANGED accounts
         \/ \E a \in Accounts : \E new :
              /\ accounts' = [accounts EXCEPT ![a] = new]
              /\ NameFree(new.name, a) /\ EmailFree(new.email, a)
<1> DEFINE Written == \E a \in Accounts : \E new :
                        /\ accounts' = [accounts EXCEPT ![a] = new]
                        /\ NameFree(new.name, a) /\ EmailFree(new.email, a)
           q == job[w].req
<1>1. ASSUME NEW a \in Accounts, NEW r, NEW name, NEW email,
             CreateServiceAccount(a, r, name, email)
      PROVE  Written
  <2> DEFINE new == [name |-> name, email |-> email, picture |-> None, base |-> r]
  <2>1. /\ accounts' = [accounts EXCEPT ![a] = new]
        /\ NameFree(new.name, a) /\ EmailFree(new.email, a)
    BY <1>1 DEF CreateServiceAccount
  <2>2. QED
    BY <2>1
<1>2. CASE CreateWithNested(w)
  BY <1>1, <1>2 DEF CreateWithNested
<1>3. CASE CreateForEmail(w)
  BY <1>1, <1>3 DEF CreateForEmail
<1>4. CASE CreateService(w)
  BY <1>1, <1>4 DEF CreateService
<1>5. CASE UpdateWithNested(w)
  <2> DEFINE sa  == q.target
             new == [accounts[sa] EXCEPT !.name = q.name, !.email = q.name]
  <2>1. sa \in Existing /\ NameFree(q.name, sa) /\ EmailFree(q.name, sa)
        /\ accounts' = [accounts EXCEPT ![sa].name = q.name, ![sa].email = q.name]
    BY <1>5 DEF UpdateWithNested
  <2>2. sa \in Accounts /\ accounts[sa] \in Account
    BY <2>1 DEF Existing, TypeOK
  <2>3. accounts' = [accounts EXCEPT ![sa] = new]
    BY <2>1, <2>2 DEF TypeOK
  <2>4. new.name = q.name /\ new.email = q.name
    BY <2>2 DEF Account
  <2>5. NameFree(new.name, sa) /\ EmailFree(new.email, sa)
    BY <2>1, <2>4
  <2>6. QED
    BY <2>2, <2>3, <2>5
<1>6. CASE SavePicture(w)
  <2> DEFINE seen == job[w].seen
             new  == [seen EXCEPT !.picture = q.picture]
  <2>1. PICK a \in job[w].found :
          /\ NameFree(seen.name, a) /\ EmailFree(seen.email, a)
          /\ accounts' = [accounts EXCEPT ![a] = new]
    BY <1>6 DEF SavePicture
  <2>2. a \in Accounts
    BY <1>6, JobFields DEF SavePicture, Doing
  <2>3. NameFree(new.name, a) /\ EmailFree(new.email, a)
    BY <2>1
  <2>4. QED
    BY <2>1, <2>2, <2>3
<1>7. CASE ~ (\/ CreateWithNested(w) \/ CreateForEmail(w) \/ CreateService(w)
              \/ UpdateWithNested(w) \/ SavePicture(w))
  BY <1>7 DEF Arrive, Fail, Work, CheckRoles, CheckPerms, CheckOwner, CreateRole, UpdateRole,
       CreatePermission, DeletePermission, Attribute, FindEmails, AttributeToEmails,
       FindAccount, tables
<1>8. QED
  BY <1>2, <1>3, <1>4, <1>5, <1>6, <1>7

LEMMA NextUnique ==
  ASSUME TypeOK, OneAccountPerName, OneAccountPerAddress, [Next]_vars
  PROVE  OneAccountPerName' /\ OneAccountPerAddress'
<1>1. CASE UNCHANGED accounts
  BY <1>1 DEF OneAccountPerName, OneAccountPerAddress, Existing
<1>2. ASSUME NEW a \in Accounts, NEW new,
             accounts' = [accounts EXCEPT ![a] = new],
             NameFree(new.name, a), EmailFree(new.email, a)
      PROVE  OneAccountPerName' /\ OneAccountPerAddress'
  <2>1. accounts'[a] = new /\ \A b \in Accounts \ {a} : accounts'[b] = accounts[b]
    BY <1>2 DEF TypeOK
  <2>2. \A b \in Existing' \ {a} : b \in Existing /\ accounts'[b] = accounts[b]
    BY <2>1 DEF Existing
  <2>3. \A b \in Existing' \ {a} :
          /\ accounts'[b].name # new.name
          /\ new.email = None \/ accounts'[b].email # new.email
    BY <1>2, <2>2 DEF NameFree, EmailFree
  <2>4. OneAccountPerName'
    BY <2>1, <2>2, <2>3 DEF OneAccountPerName
  <2>5. OneAccountPerAddress'
    BY <2>1, <2>2, <2>3 DEF OneAccountPerAddress
  <2>6. QED
    BY <2>4, <2>5
<1>3. QED
  BY <1>1, <1>2, AccountWritten DEF Next, vars

\* An address belongs to one account, and a name too, for any number of first
\* logins, creations and updates at once: each looks for the address in one
\* step and writes it in another (usecases/service_accounts.go:365), and the
\* indexes settle who was first.
THEOREM AddressesAreUnique == Spec => [](OneAccountPerName /\ OneAccountPerAddress)
<1>1. Init => OneAccountPerName /\ OneAccountPerAddress
  BY IndexesAssumption DEF Init, OneAccountPerName, OneAccountPerAddress, Existing
<1>2. QED
  BY <1>1, NextUnique, TypeCorrect, PTL DEF Spec

-----------------------------------------------------------------------------
(* Who is bound to which role *)

\* A new account is bound to its base role by the transaction that creates it.
LEMMA CreatedIsBound ==
  ASSUME TypeOK, BaseBindingKept, NEW a \in Accounts, NEW r \in Roles,
         NEW name, NEW email, CreateServiceAccount(a, r, name, email),
         bindings \subseteq bindings', <<a, r>> \in bindings'
  PROVE  BaseBindingKept'
<1> DEFINE new == [name |-> name, email |-> email, picture |-> None, base |-> r]
<1>1. accounts' = [accounts EXCEPT ![a] = new]
  BY DEF CreateServiceAccount
<1>2. accounts'[a] = new /\ \A b \in Accounts \ {a} : accounts'[b] = accounts[b]
  BY <1>1 DEF TypeOK
<1>3. QED
  BY <1>2 DEF BaseBindingKept, Existing

\* Only an update of a role can unbind an account from its base role.
LEMMA BaseBindingStep ==
  ASSUME TypeOK, JobOK, BaseBindingKept,
         NEW w \in Workers, Arrive(w) \/ Work(w) \/ Fail(w),
         UpdateRole(w) => \A a \in Existing : job[w].req.target # accounts[a].base
  PROVE  BaseBindingKept'
<1> DEFINE q == job[w].req
<1>1. CASE UNCHANGED accounts /\ bindings \subseteq bindings'
  BY <1>1 DEF BaseBindingKept, Existing
<1>2. CASE UpdateRole(w)
  <2>1. /\ UNCHANGED accounts
        /\ bindings' = {b \in bindings : b[2] # q.target} \cup (q.accts \X {q.target})
    BY <1>2 DEF UpdateRole
  <2>2. QED
    BY <1>2, <2>1 DEF BaseBindingKept, Existing
<1>3. CASE CreateWithNested(w)
  <2>1. PICK a \in Accounts, r \in Roles :
          /\ CreateServiceAccount(a, r, q.name, q.email)
          /\ bindings' = bindings \cup ({a} \X ({r} \cup q.roles))
    BY <1>3 DEF CreateWithNested
  <2>2. bindings \subseteq bindings' /\ <<a, r>> \in bindings'
    BY <2>1
  <2>3. QED
    BY <2>1, <2>2, CreatedIsBound
<1>4. CASE CreateForEmail(w)
  <2>1. PICK a \in Accounts, r \in Roles :
          /\ CreateServiceAccount(a, r, q.email, q.email)
          /\ bindings' = bindings \cup {<<a, r>>}
    BY <1>4 DEF CreateForEmail
  <2>2. QED
    BY <2>1, CreatedIsBound
<1>5. CASE CreateService(w)
  <2>1. PICK a \in Accounts, r \in Roles :
          /\ CreateServiceAccount(a, r, q.name, None)
          /\ bindings' = bindings \cup {<<a, r>>}
    BY <1>5 DEF CreateService
  <2>2. QED
    BY <2>1, CreatedIsBound
<1>6. CASE UpdateWithNested(w)
  <2> DEFINE sa  == q.target
             new == [accounts[sa] EXCEPT !.name = q.name, !.email = q.name]
  <2>1. /\ sa \in Existing
        /\ accounts' = [accounts EXCEPT ![sa].name = q.name, ![sa].email = q.name]
        /\ bindings' = (bindings \ Unbound(sa))
                         \cup ({sa} \X (q.roles \ {accounts[sa].base}))
    BY <1>6 DEF UpdateWithNested
  <2>2. sa \in Accounts /\ accounts[sa] \in Account /\ accounts[sa] # None
    BY <2>1 DEF Existing, TypeOK
  <2>3. accounts' = [accounts EXCEPT ![sa] = new] /\ new.base = accounts[sa].base
    BY <2>1, <2>2 DEF TypeOK, Account
  <2>4. \A a \in Existing' : a \in Existing /\ accounts'[a].base = accounts[a].base
    BY <2>2, <2>3 DEF TypeOK, Existing
  <2>5. \A a \in Existing : <<a, accounts[a].base>> \in bindings'
    BY <2>1 DEF BaseBindingKept, Unbound
  <2>6. QED
    BY <2>4, <2>5 DEF BaseBindingKept
<1>7. CASE SavePicture(w)
  <2> DEFINE new == [job[w].seen EXCEPT !.picture = q.picture]
  <2>1. PICK a \in job[w].found : accounts' = [accounts EXCEPT ![a] = new]
    BY <1>7 DEF SavePicture
  <2>2. /\ a \in Existing /\ a \in Accounts
        /\ job[w].seen \in Account /\ job[w].seen.base = accounts[a].base
    BY <1>7, JobFields DEF SavePicture, Doing, JobOK, JobOKAt
  <2>3. new.base = accounts[a].base
    BY <2>2 DEF Account
  <2>4. \A b \in Existing' : b \in Existing /\ accounts'[b].base = accounts[b].base
    BY <2>1, <2>2, <2>3 DEF TypeOK, Existing
  <2>5. bindings' = bindings
    BY <1>7 DEF SavePicture
  <2>6. QED
    BY <2>4, <2>5 DEF BaseBindingKept
<1>8. CASE ~ (\/ CreateWithNested(w) \/ CreateForEmail(w) \/ CreateService(w)
              \/ UpdateWithNested(w) \/ SavePicture(w) \/ UpdateRole(w))
  <2>1. UNCHANGED accounts /\ bindings \subseteq bindings'
    BY <1>8 DEF Arrive, Fail, Work, CheckRoles, CheckPerms, CheckOwner, CreateRole,
         CreatePermission, DeletePermission, Attribute, FindEmails, AttributeToEmails,
         FindAccount, tables
  <2>2. QED
    BY <1>1, <2>1
<1>9. QED
  BY <1>2, <1>3, <1>4, <1>5, <1>6, <1>7, <1>8

\* The role list shows no base roles (repositories/roles.go:110): an update of
\* one takes its id from elsewhere.
RoleUpdatesSpareBases ==
  \A w \in Workers :
    UpdateRole(w) => \A a \in Existing : job[w].req.target # accounts[a].base

BaseBoundAtStart ==
  \A a \in Accounts : InitAccounts[a] # None => <<a, InitAccounts[a].base>> \in InitBindings

LEMMA BaseBindingNext ==
  ASSUME TypeOK, JobOK, BaseBindingKept, [Next]_vars, [RoleUpdatesSpareBases]_vars
  PROVE  BaseBindingKept'
<1>1. CASE UNCHANGED vars
  BY <1>1 DEF vars, BaseBindingKept, Existing
<1>2. CASE Next /\ RoleUpdatesSpareBases
  BY <1>2, BaseBindingStep DEF Next, RoleUpdatesSpareBases
<1>3. QED
  BY <1>1, <1>2

\* Nothing but an update of a base role through the roles' route unbinds an
\* account from it: creations bind, updates of accounts leave that binding
\* (repositories/service_accounts.go:59), a login writes back the
\* base role it read.  The hypothesis is needed: UpdateRole replaces all the
\* bindings of whatever role it is sent (usecases/roles.go:86).
THEOREM BaseBindingsStay ==
  ASSUME BaseBoundAtStart
  PROVE  Spec /\ [][RoleUpdatesSpareBases]_vars => []BaseBindingKept
<1>1. Init => BaseBindingKept
  BY DEF Init, BaseBindingKept, BaseBoundAtStart, Existing
<1>2. TypeOK /\ JobOK /\ BaseBindingKept /\ [Next]_vars /\ [RoleUpdatesSpareBases]_vars
        => BaseBindingKept'
  BY BaseBindingNext
<1>3. QED
  BY <1>1, <1>2, TypeCorrect, PTL DEF Spec

\* The founding of a service gives both founders the row, through a role each
\* of them is bound to.
LEMMA FoundersOwn ==
  ASSUME TypeOK, JobOK, BaseBindingKept, NEW w \in Workers, CreateService(w),
         NEW s \in services' \ services, NEW a \in {s.account, s.creator}
  PROVE  \E p \in RowsOf(a)' : HasServiceFullOwnership(p) /\ p.service = s.permissionName
<1> DEFINE q == job[w].req
           full == FullOwnership(q.service)
<1>1. PICK sa \in Accounts, r \in Roles :
        /\ bindings' = bindings \cup {<<sa, r>>}
        /\ services' = services \cup
             {[account |-> sa, creator |-> q.caller, permissionName |-> q.service]}
        /\ rows' = rows \cup Given({r, accounts[q.caller].base}, {full})
  BY DEF CreateService
<1>2. s.account = sa /\ s.creator = q.caller /\ s.permissionName = q.service
  BY <1>1
<1>3. q.caller \in Existing
  BY DEF CreateService, Doing, JobOK, JobOKAt
<1>4. PICK role \in {r, accounts[q.caller].base} : <<a, role>> \in bindings'
  BY <1>1, <1>2, <1>3 DEF BaseBindingKept
<1>5. [role |-> role, perm |-> full] \in rows'
  BY <1>1 DEF Given
<1>6. full \in RowsOf(a)'
  <2> DEFINE row == [role |-> role, perm |-> full]
  <2>1. row \in {x \in rows' : <<a, x.role>> \in bindings'} /\ row.perm = full
    BY <1>4, <1>5
  <2>2. QED
    BY <2>1 DEF RowsOf
<1>7. HasServiceFullOwnership(full) /\ full.service = s.permissionName
  BY <1>2 DEF HasServiceFullOwnership, HasServiceFullAccess, FullOwnership
<1>8. QED
  BY <1>6, <1>7

\* "Also creates an associate Service Account with full access and attributes
\* full access to creator" (usecases/services.go:29): the creator has it only
\* through its base role, so the same hypothesis is needed.
THEOREM FoundersOwnTheirServices ==
  ASSUME BaseBoundAtStart
  PROVE  Spec /\ [][RoleUpdatesSpareBases]_vars => FoundersOwnTheirService
<1> DEFINE A == \A s \in services' \ services :
                  \A a \in {s.account, s.creator} :
                    \E p \in RowsOf(a)' :
                      HasServiceFullOwnership(p) /\ p.service = s.permissionName
<1>1. TypeOK /\ JobOK /\ BaseBindingKept /\ [Next]_vars => [A]_vars
  <2> SUFFICES ASSUME TypeOK, JobOK, BaseBindingKept, Next PROVE A
    OBVIOUS
  <2>1. PICK w \in Workers : Arrive(w) \/ Work(w) \/ Fail(w)
    BY DEF Next
  <2>2. CASE CreateService(w)
    BY <2>2, FoundersOwn
  <2>3. CASE ~ CreateService(w)
    <3>1. UNCHANGED services
      BY <2>1, <2>3 DEF Arrive, Fail, Work, CheckRoles, CheckPerms, CheckOwner, CreateRole,
           UpdateRole, CreatePermission, DeletePermission, Attribute, FindEmails,
           AttributeToEmails, FindAccount, CreateWithNested, UpdateWithNested,
           CreateForEmail, SavePicture, tables
    <3>2. QED
      BY <3>1
  <2>4. QED
    BY <2>2, <2>3
<1>2. QED
  BY <1>1, TypeCorrect, BaseBindingsStay, PTL DEF Spec, FoundersOwnTheirService

\* What a request is about to write lies within a right some owner had, also
\* when the rows that let its check pass are gone by now
\* (usecases/service_accounts.go:423 checks, usecases/roles.go:86 writes).
THEOREM ChecksAreConserved == Spec => []CheckedConserved
<1> DEFINE IInv == TypeOK /\ JobOK /\ RightsConserved /\ CheckedConserved
<1>1. Init => IInv
  BY InitType, InitConserved
<1>2. IInv /\ [Next]_vars => IInv'
  BY NextType, NextConserved
<1>3. QED
  BY <1>1, <1>2, PTL DEF Spec

-----------------------------------------------------------------------------
(* Who is bound to which right *)

\* An account's request whose roles have been checked.
RolesChecked(w) == /\ job[w] # None
                   /\ job[w].req.op \in {"createAccount", "updateAccount"}
                   /\ job[w].step # "roles"

\* What the roles of such a request give lies within a right some owner had,
\* also what was added to them since: the strengthening for BindingsConserved.
RolesConserved ==
  \A w \in Workers :
    RolesChecked(w) => \A p \in RowsOfRoles(job[w].req.roles) : Backed(p)

\* The roles of a request are checked by CheckRoles only.
LEMMA RolesBecomeChecked ==
  ASSUME TypeOK, NEW w \in Workers, Arrive(w) \/ Work(w) \/ Fail(w)
  PROVE  RolesChecked(w)' => /\ job[w] # None /\ job'[w].req = job[w].req
                             /\ RolesChecked(w) \/ CheckRoles(w)
<1>1. CASE Done(w)
  BY <1>1, DoneJob DEF RolesChecked
<1>2. CASE Arrive(w)
  <2>1. PICK q \in Requests :
          job' = [job EXCEPT ![w] = [req |-> q, step |-> FirstStep(q.op),
                                     found |-> {}, seen |-> None]]
    BY <1>2 DEF Arrive
  <2>2. job'[w].step = FirstStep(q.op) /\ job'[w].req = q
    BY <2>1 DEF TypeOK
  <2>3. q.op \in {"createAccount", "updateAccount"} => FirstStep(q.op) = "roles"
    BY DEF FirstStep
  <2>4. QED
    BY <2>2, <2>3 DEF RolesChecked
<1>3. CASE CheckRoles(w)
  <2>1. job[w] # None /\ Advance(w, "perms")
    BY <1>3 DEF CheckRoles, Doing
  <2>2. job'[w].req = job[w].req
    BY <2>1, AdvanceJob DEF Steps
  <2>3. QED
    BY <1>3, <2>1, <2>2
<1>4. CASE CheckPerms(w) \/ CheckOwner(w)
  <2>1. /\ job[w] # None /\ job[w].step # "roles"
        /\ \E s \in {"find", "commit"} : Advance(w, s)
    BY <1>4 DEF CheckPerms, CheckOwner
  <2>2. job'[w].req = job[w].req
    BY <2>1, AdvanceJob DEF Steps
  <2>3. QED
    BY <2>1, <2>2 DEF RolesChecked
<1>5. CASE FindEmails(w)
  <2>1. /\ job[w] # None /\ job[w].req.op = "attributeToEmails"
        /\ job' = [job EXCEPT ![w].found = WithEmail(job[w].req.emails),
                              ![w].step = "commit"]
    BY <1>5 DEF FindEmails, Doing
  <2>2. job'[w].req = job[w].req
    BY <2>1, JobFields DEF TypeOK
  <2>3. QED
    BY <2>1, <2>2 DEF RolesChecked
<1>6. CASE FindAccount(w)
  <2>1. job[w] # None /\ job[w].req.op = "login"
    BY <1>6 DEF FindAccount, Doing
  <2>2. CASE Advance(w, "create")
    <3>1. job'[w].req = job[w].req
      BY <2>1, <2>2, AdvanceJob DEF Steps
    <3>2. QED
      BY <2>1, <3>1 DEF RolesChecked
  <2>3. ASSUME NEW a,
               job' = [job EXCEPT ![w].step = "write", ![w].found = {a},
                                  ![w].seen = accounts[a]]
        PROVE  job'[w].req = job[w].req
    BY <2>1, <2>3, JobFields DEF TypeOK
  <2>4. QED
    BY <1>1, <1>6, <2>1, <2>2, <2>3 DEF FindAccount, RolesChecked
<1>7. CASE \/ Fail(w) \/ CreateRole(w) \/ UpdateRole(w) \/ CreatePermission(w)
           \/ DeletePermission(w) \/ Attribute(w) \/ AttributeToEmails(w)
           \/ CreateWithNested(w) \/ UpdateWithNested(w) \/ CreateForEmail(w)
           \/ SavePicture(w) \/ CreateService(w)
  <2>1. Done(w)
    BY <1>7 DEF Fail, CreateRole, UpdateRole, CreatePermission, DeletePermission,
                Attribute, AttributeToEmails, CreateWithNested, UpdateWithNested,
                CreateForEmail, SavePicture, CreateService
  <2>2. QED
    BY <1>1, <2>1
<1>8. QED
  BY <1>2, <1>3, <1>4, <1>5, <1>6, <1>7 DEF Work

\* The caller owns all that the roles give when they are checked.
LEMMA RolesCheckBacks ==
  ASSUME TypeOK, RightsConserved, NEW w \in Workers, CheckRoles(w)
  PROVE  \A p \in RowsOfRoles(job[w].req.roles) : Backed(p)
<1> DEFINE q == job[w].req
<1>1. ASSUME NEW p \in RowsOfRoles(q.roles) PROVE Backed(p)
  <2>1. p \in Permissions
    BY DEF RowsOfRoles, TypeOK
  <2>2. IsPresent(RowsOf(q.caller), OwnerOf(p))
    BY DEF CheckRoles, HasAllOwnerPermissions
  <2>3. QED
    BY <2>1, <2>2, OwnedIsBacked
<1>2. QED
  BY <1>1

\* The roles of a checked request may grow, but by checked permissions.
LEMMA RolesStep ==
  ASSUME TypeOK, RightsConserved, CheckedConserved, RolesConserved,
         NEW w \in Workers, Arrive(w) \/ Work(w) \/ Fail(w)
  PROVE  RolesConserved'
<1> SUFFICES ASSUME NEW v \in Workers, RolesChecked(v)',
                    NEW p \in RowsOfRoles(job[v].req.roles)'
             PROVE  Backed(p)'
  BY DEF RolesConserved
<1>1. PICK row \in rows' : row.role \in job'[v].req.roles /\ row.perm = p
  BY DEF RowsOfRoles
<1>2. services \subseteq services'
  BY ServicesGrow
<1>3. CASE row \notin rows
  BY <1>1, <1>3, AddedIsBacked
<1>4. CASE row \in rows
  <2>1. /\ job'[v].req = job[v].req
        /\ RolesChecked(v) \/ (v = w /\ CheckRoles(w))
    <3>1. CASE v = w
      BY <3>1, RolesBecomeChecked
    <3>2. CASE v # w
      BY <3>2, BecomesChecked DEF RolesChecked
    <3>3. QED
      BY <3>1, <3>2
  <2>2. p \in RowsOfRoles(job[v].req.roles)
    BY <1>1, <1>4, <2>1 DEF RowsOfRoles
  <2>3. Backed(p)
    BY <2>1, <2>2, RolesCheckBacks DEF RolesConserved
  <2>4. QED
    BY <1>2, <2>3, BackedStays
<1>5. QED
  BY <1>3, <1>4

\* A new role has no rows before the transaction that creates it.
LEMMA NewRoleIsBare ==
  ASSUME TypeOK, NEW r, r \notin roles, NEW row \in rows
  PROVE  row.role # r
  BY DEF TypeOK

\* What a step binds an account to lies within a right some owner had.
LEMMA BoundIsBacked ==
  ASSUME TypeOK, CheckedConserved, RolesConserved,
         NEW w \in Workers, Arrive(w) \/ Work(w) \/ Fail(w),
         NEW a, NEW row \in rows', <<a, row.role>> \in bindings' \ bindings
  PROVE  Backed(row.perm)'
<1> DEFINE q == job[w].req
           b == <<a, row.role>>
<1>1. services \subseteq services'
  BY ServicesGrow
<1>2. CASE row \notin rows
  BY <1>2, AddedIsBacked
<1>3. ASSUME row \in rows, RolesChecked(w), row.role \in q.roles
      PROVE  Backed(row.perm)'
  <2>1. row.perm \in RowsOfRoles(q.roles)
    BY <1>3 DEF RowsOfRoles
  <2>2. Backed(row.perm)
    BY <1>3, <2>1 DEF RolesConserved
  <2>3. QED
    BY <1>1, <2>2, BackedStays
<1>4. CASE row \in rows /\ CreateRole(w)
  <2>1. PICK r \in Roles \ roles : bindings' = bindings \cup (q.accts \X {r})
    BY <1>4 DEF CreateRole
  <2>2. row.role = r
    BY <2>1
  <2>3. QED
    BY <1>4, <2>1, <2>2, NewRoleIsBare
<1>5. CASE UpdateRole(w)
  <2>1. /\ rows' = {x \in rows : x.role # q.target} \cup Given({q.target}, q.perms)
        /\ bindings' = {x \in bindings : x[2] # q.target} \cup (q.accts \X {q.target})
        /\ Checked(w)
    BY <1>5 DEF UpdateRole, Checked, Doing
  <2>2. row.role = q.target
    BY <2>1
  <2>3. row.perm \in q.perms
    BY <2>1, <2>2 DEF Given
  <2>4. Backed(row.perm)
    BY <2>1, <2>3 DEF CheckedConserved
  <2>5. QED
    BY <1>1, <2>4, BackedStays
<1>6. CASE row \in rows /\ CreateWithNested(w)
  <2>1. PICK sa \in Accounts, r \in Roles :
          /\ r \notin roles
          /\ bindings' = bindings \cup ({sa} \X ({r} \cup q.roles))
    BY <1>6 DEF CreateWithNested, CreateServiceAccount
  <2>2. RolesChecked(w)
    BY <1>6 DEF CreateWithNested, Doing, RolesChecked
  <2>3. row.role \in {r} \cup q.roles
    BY <2>1
  <2>4. QED
    BY <1>3, <1>6, <2>1, <2>2, <2>3, NewRoleIsBare
<1>7. CASE row \in rows /\ UpdateWithNested(w)
  <2>1. bindings' = (bindings \ Unbound(q.target))
                      \cup ({q.target} \X (q.roles \ {accounts[q.target].base}))
    BY <1>7 DEF UpdateWithNested
  <2>2. RolesChecked(w)
    BY <1>7 DEF UpdateWithNested, Doing, RolesChecked
  <2>3. row.role \in q.roles
    BY <2>1
  <2>4. QED
    BY <1>3, <1>7, <2>2, <2>3
<1>8. CASE row \in rows /\ (CreateForEmail(w) \/ CreateService(w))
  <2>1. \E sa \in Accounts, r \in Roles :
          r \notin roles /\ bindings' = bindings \cup {<<sa, r>>}
    BY <1>8 DEF CreateForEmail, CreateService, CreateServiceAccount
  <2>2. PICK sa \in Accounts, r \in Roles :
          r \notin roles /\ bindings' = bindings \cup {<<sa, r>>}
    BY <2>1
  <2>3. row.role = r
    BY <2>2
  <2>4. QED
    BY <1>8, <2>2, <2>3, NewRoleIsBare
<1>9. CASE ~ (\/ CreateRole(w) \/ UpdateRole(w) \/ CreateWithNested(w)
              \/ UpdateWithNested(w) \/ CreateForEmail(w) \/ CreateService(w))
  <2>1. UNCHANGED bindings
    BY <1>9 DEF Arrive, Fail, Work, CheckRoles, CheckPerms, CheckOwner, CreatePermission,
         DeletePermission, Attribute, FindEmails, AttributeToEmails, FindAccount,
         SavePicture, tables
  <2>2. QED
    BY <2>1
<1>10. QED
  BY <1>2, <1>4, <1>5, <1>6, <1>7, <1>8, <1>9

LEMMA BindingsNext ==
  ASSUME TypeOK, RightsConserved, CheckedConserved, RolesConserved, BindingsConserved,
         [Next]_vars
  PROVE  RolesConserved' /\ BindingsConserved'
<1>1. ASSUME NEW w \in Workers, Arrive(w) \/ Work(w) \/ Fail(w)
      PROVE  RolesConserved' /\ BindingsConserved'
  <2>1. ASSUME NEW a \in Existing', NEW row \in rows', <<a, row.role>> \in bindings'
        PROVE  \/ Backed(row.perm)'
               \/ row \in InitRows /\ <<a, row.role>> \in InitBindings
    <3>1. CASE <<a, row.role>> \notin bindings
      BY <1>1, <2>1, <3>1, BoundIsBacked
    <3>2. CASE row \notin rows
      BY <1>1, <3>2, AddedIsBacked
    <3>3. CASE <<a, row.role>> \in bindings /\ row \in rows
      <4>1. a \in Existing
        BY <3>3 DEF TypeOK
      <4>2. Backed(row.perm) => Backed(row.perm)'
        BY <1>1, ServicesGrow, BackedStays
      <4>3. QED
        BY <3>3, <4>1, <4>2 DEF BindingsConserved
    <3>4. QED
      BY <3>1, <3>2, <3>3
  <2>2. BindingsConserved'
    BY <2>1 DEF BindingsConserved
  <2>3. QED
    BY <1>1, <2>2, RolesStep
<1>2. CASE UNCHANGED vars
  BY <1>2 DEF vars, RolesConserved, RolesChecked, RowsOfRoles, BindingsConserved, Backed,
     Seeds, Existing
<1>3. QED
  BY <1>1, <1>2 DEF Next

\* Nobody comes by a right that nobody owned: for any requests of any number of
\* workers, whoever is bound to a role that gives a permission was bound to it
\* and the role gave it from the start, or the permission lies within a right
\* some owner had, though the roles of a body are checked in one step and bound
\* in a later one (api/service_accounts_handlers.go:120,
\* usecases/service_accounts.go:149).
THEOREM BindingsAreConserved == Spec => []BindingsConserved
<1>1. Init => RolesConserved /\ BindingsConserved
  BY DEF Init, RolesConserved, RolesChecked, BindingsConserved
<1>2. QED
  BY <1>1, BindingsNext, TypeCorrect, RightsAreConserved, ChecksAreConserved, PTL DEF Spec

-----------------------------------------------------------------------------
(* Lists *)

\* The elements of S have the numbers from zero on, each one number.
Numbering(S, n, place) ==
  /\ \A a \in S : place[a] \in 0..(n - 1)
  /\ \A a, b \in S : place[a] = place[b] => a = b
  /\ \A i \in 0..(n - 1) : \E a \in S : place[a] = i

\* Counting those before it numbers the elements of a finite set from zero on.
LEMMA Numbered ==
  ASSUME NEW S, IsFiniteSet(S), NEW rank \in [S -> Nat],
         \A a, b \in S : rank[a] = rank[b] => a = b,
         NEW n, n = Cardinality(S),
         NEW place, place = [a \in S |-> Cardinality({b \in S : rank[b] < rank[a]})]
  PROVE  Numbering(S, n, place)
<1> DEFINE Before(a) == {b \in S : rank[b] < rank[a]}
<1>1. n \in Nat
  BY FS_CardinalityType
<1>2. ASSUME NEW a \in S PROVE /\ IsFiniteSet(Before(a))
                               /\ Cardinality(Before(a)) \in 0..(n - 1)
  <2>1. IsFiniteSet(S \ {a}) /\ Cardinality(S \ {a}) = n - 1
    BY FS_RemoveElement
  <2>2. Before(a) \in SUBSET (S \ {a})
    OBVIOUS
  <2>3. IsFiniteSet(Before(a)) /\ Cardinality(Before(a)) <= n - 1
    BY <2>1, <2>2, FS_Subset
  <2>4. QED
    BY <1>1, <2>3, FS_CardinalityType
<1>3. ASSUME NEW a \in S, NEW b \in S, rank[a] < rank[b]
      PROVE  Cardinality(Before(a)) < Cardinality(Before(b))
  <2>1. /\ IsFiniteSet(Before(a) \cup {a})
        /\ Cardinality(Before(a) \cup {a}) = Cardinality(Before(a)) + 1
    <3>1. a \notin Before(a)
      OBVIOUS
    <3>2. QED
      BY <1>2, <3>1, FS_AddElement
  <2>2. Before(a) \cup {a} \in SUBSET Before(b)
    BY <1>3
  <2>3. Cardinality(Before(a) \cup {a}) <= Cardinality(Before(b))
    BY <1>2, <2>2, FS_Subset
  <2>4. Cardinality(Before(a)) \in Nat /\ Cardinality(Before(b)) \in Nat
    BY <1>2, FS_CardinalityType
  <2>5. QED
    BY <2>1, <2>3, <2>4
<1>4. place \in [S -> 0..(n - 1)]
  BY <1>2
<1>5. ASSUME NEW a \in S, NEW b \in S, place[a] = place[b] PROVE a = b
  <2>1. /\ Cardinality(Before(a)) = Cardinality(Before(b))
        /\ Cardinality(Before(a)) \in Nat /\ Cardinality(Before(b)) \in Nat
    BY <1>2, <1>5, FS_CardinalityType
  <2>2. ~ rank[a] < rank[b] /\ ~ rank[b] < rank[a]
    BY <1>3, <2>1
  <2>3. rank[a] = rank[b]
    BY <2>2
  <2>4. QED
    BY <2>3
<1>6. place \in Injection(S, 0..(n - 1))
  BY <1>4, <1>5, Fun_IsInj
<1>7. IsFiniteSet(0..(n - 1)) /\ Cardinality(0..(n - 1)) = n
  <2>1. n - 1 \in Int /\ n = (n - 1) - 0 + 1 /\ (0 > n - 1 => n = 0)
    BY <1>1
  <2>2. QED
    BY <2>1, FS_Interval
<1>8. place \in Surjection(S, 0..(n - 1))
  BY <1>6, <1>7, FS_Injection
<1>9. \A i \in 0..(n - 1) : \E a \in S : place[a] = i
  BY <1>8 DEF Surjection
<1>10. QED
  BY <1>4, <1>5, <1>9 DEF Numbering

\* What is numbered with each number of a set once is as much as the set.
LEMMA Slice ==
  ASSUME NEW U, NEW place, NEW R, IsFiniteSet(R),
         \A a \in U : place[a] \in R,
         \A a, b \in U : place[a] = place[b] => a = b,
         \A i \in R : \E a \in U : place[a] = i
  PROVE  Cardinality(U) = Cardinality(R)
<1> DEFINE g == [a \in U |-> place[a]]
<1>1. g \in Bijection(U, R)
  <2>1. g \in [U -> R]
    OBVIOUS
  <2>2. \A a, b \in U : g[a] = g[b] => a = b
    OBVIOUS
  <2>3. \A i \in R : \E a \in U : g[a] = i
    OBVIOUS
  <2>4. QED
    BY <2>1, <2>2, <2>3, Fun_IsBij
<1>2. ExistsBijection(R, U)
  <2>1. ExistsBijection(U, R)
    BY <1>1, Fun_ExistsBij
  <2>2. QED
    BY <2>1, Fun_ExistsBijSymmetric
<1>3. QED
  BY <1>2, FS_Bijection

\* Page k has the numbers from size * k on, size of them if there are as many.
CutBy(S, n, place, size, page) ==
  \A k \in 0..(n \div size) :
    /\ page[k] \in SUBSET S
    /\ \A a \in S : a \in page[k]
                      <=> place[a] >= size * k /\ place[a] < size * k + size

AllOnce(S, n, size, page) ==
  /\ UNION {page[k] : k \in 0..(n \div size)} = S
  /\ \A k \in 0..(n \div size) : Cardinality(page[k]) =
       IF k < n \div size THEN size ELSE n - size * (n \div size)

\* Numbered from zero and cut at every size-th number, a finite set falls into
\* full pages and what is left.
LEMMA Cut ==
  ASSUME NEW S, NEW n \in Nat, NEW place, Numbering(S, n, place),
         NEW size \in 1..2, NEW page, CutBy(S, n, place, size, page)
  PROVE  AllOnce(S, n, size, page)
<1> USE DEF Numbering, CutBy
<1> DEFINE last  == n \div size
           hi(k) == IF k < last THEN size * k + (size - 1) ELSE n - 1
<1>1. /\ last \in Nat /\ size * last <= n /\ n < size * last + size
      /\ \A k \in 0..last : /\ size * k \in Nat
                            /\ k < last => size * k + size <= n
      /\ \A i \in 0..(n - 1) : \E k \in 0..last : size * k <= i /\ i < size * k + size
  <2>1. CASE size = 1
    <3>1. last = n
      BY <2>1
    <3>2. QED
      BY <2>1, <3>1
  <2>2. CASE size = 2
    <3>1. last \in Nat /\ 2 * last <= n /\ n < 2 * last + 2
      BY <2>2
    <3>2. ASSUME NEW i \in 0..(n - 1)
          PROVE  \E k \in 0..last : 2 * k <= i /\ i < 2 * k + 2
      <4>1. (i \div 2) \in Nat /\ 2 * (i \div 2) <= i /\ i < 2 * (i \div 2) + 2
        OBVIOUS
      <4>2. (i \div 2) \in 0..last
        BY <3>1, <4>1
      <4>3. QED
        BY <4>1, <4>2
    <3>3. QED
      BY <2>2, <3>1, <3>2
  <2>3. QED
    BY <2>1, <2>2
<1>2. ASSUME NEW k \in 0..last
      PROVE  Cardinality(page[k]) = IF k < last THEN size ELSE n - size * last
  <2>1. /\ size * k \in Int /\ hi(k) \in Int
        /\ size * k .. hi(k) \subseteq 0..(n - 1)
    BY <1>1
  <2>2. /\ page[k] \in SUBSET S
        /\ \A a \in S : a \in page[k] <=> place[a] \in size * k .. hi(k)
    BY <1>1
  <2>3. Cardinality(page[k]) = IF size * k > hi(k) THEN 0 ELSE hi(k) - size * k + 1
    <3>1. PICK P : P = page[k]
      OBVIOUS
    <3>2. PICK R : R = size * k .. hi(k)
      OBVIOUS
    <3>3. P \subseteq S /\ \A a \in S : a \in P <=> place[a] \in R
      BY <2>2, <3>1, <3>2
    <3>4. \A i \in R : \E a \in P : place[a] = i
      BY <2>1, <3>2, <3>3
    <3>5. \A a, b \in P : place[a] = place[b] => a = b
      BY <3>3
    <3>6. IsFiniteSet(R) /\ Cardinality(R) = IF size * k > hi(k) THEN 0 ELSE hi(k) - size * k + 1
      BY <2>1, <3>2, FS_Interval
    <3>7. \A a \in P : place[a] \in R
      BY <3>3
    <3>8. IsFiniteSet(R)
      BY <3>6
    <3>9. Cardinality(P) = Cardinality(R)
      BY <3>4, <3>5, <3>7, <3>8, Slice
    <3>10. QED
      BY <3>1, <3>6, <3>9
  <2>4. k < last => size * k <= hi(k) /\ hi(k) - size * k + 1 = size
    BY <1>1
  <2>5. ~ k < last => k = last /\ hi(k) = n - 1
    BY <1>1
  <2>6. QED
    BY <1>1, <2>3, <2>4, <2>5
<1>3. ASSUME NEW a \in S PROVE \E k \in 0..last : a \in page[k]
  <2>1. PICK k \in 0..last : size * k <= place[a] /\ place[a] < size * k + size
    BY <1>1
  <2>2. place[a] \in 0..(n - 1) /\ size * k \in Nat
    BY <1>1
  <2>3. QED
    BY <2>1, <2>2
<1>4. QED
  BY <1>2, <1>3 DEF AllOnce

\* A page without a limit shows everybody.
LEMMA Unlimited ==
  ASSUME NEW S, IsFiniteSet(S) PROVE Page(S, All) = S
<1>1. ASSUME NEW a \in S PROVE Place(a, S) \in Nat
  <2> DEFINE before == {b \in S : Rank[accounts[b].name] < Rank[accounts[a].name]}
  <2>1. before \in SUBSET S
    OBVIOUS
  <2>2. IsFiniteSet(before)
    BY <2>1, FS_Subset
  <2>3. QED
    BY <2>2, FS_CardinalityType DEF Place
<1>2. Offset(All) = 0 /\ All.pageSize = 0
  BY DEF Offset, All
<1>3. QED
  BY <1>1, <1>2 DEF Page

\* Names are unique and so are their ranks: no two accounts share a place, and
\* the pages neither repeat nor skip one.
LEMMA PagesShowAll ==
  ASSUME TypeOK, OneAccountPerName, NEW S \in SUBSET Existing, IsFiniteSet(S)
  PROVE  Pages(S, Cardinality(S))
<1>1. PICK n : n = Cardinality(S)
  OBVIOUS
<1>2. n \in Nat
  BY <1>1, FS_CardinalityType
<1>3. PICK rank : rank = [a \in S |-> Rank[accounts[a].name]]
  OBVIOUS
<1>4. rank \in [S -> Nat] /\ \A a, b \in S : rank[a] = rank[b] => a = b
  <2>1. ASSUME NEW a \in S PROVE a \in Existing /\ accounts[a].name \in Names
    BY DEF TypeOK, Existing, Account
  <2>2. QED
    BY <1>3, <2>1, ListsAssumption DEF OneAccountPerName
<1>5. PICK place : place = [a \in S |-> Cardinality({b \in S : rank[b] < rank[a]})]
  OBVIOUS
<1>6. Numbering(S, n, place)
  BY <1>1, <1>4, <1>5, Numbered
<1>7. ASSUME NEW a \in S PROVE place[a] = Place(a, S)
  <2>1. {b \in S : Rank[accounts[b].name] < Rank[accounts[a].name]}
          = {b \in S : rank[b] < rank[a]}
    BY <1>3
  <2>2. QED
    BY <1>5, <2>1 DEF Place
<1>8. ASSUME NEW size \in 1..2
      PROVE  LET last == n \div size
                 page(k) == Page(S, [pageSize |-> size, page |-> k])
             IN  /\ UNION {page(k) : k \in 0..last} = S
                 /\ \A k \in 0..last : Cardinality(page(k)) =
                      IF k < last THEN size ELSE n - size * last
  <2>1. PICK page : page = [k \in 0..(n \div size) |-> Page(S, [pageSize |-> size, page |-> k])]
    OBVIOUS
  <2>2. ASSUME NEW k \in 0..(n \div size)
        PROVE  /\ page[k] \in SUBSET S
               /\ \A a \in S : a \in page[k]
                                 <=> place[a] >= size * k /\ place[a] < size * k + size
    <3> DEFINE lo == [pageSize |-> size, page |-> k]
    <3>1. Offset(lo) = size * k /\ lo.pageSize = size /\ size # 0
      BY DEF Offset
    <3>2. page[k] = Page(S, lo)
      BY <2>1
    <3>3. QED
      BY <1>7, <3>1, <3>2 DEF Page
  <2>3. CutBy(S, n, place, size, page)
    BY <2>2 DEF CutBy
  <2>4. AllOnce(S, n, size, page)
    BY <1>2, <1>6, <2>3, Cut
  <2>5. QED
    BY <2>1, <2>4 DEF AllOnce
<1>9. QED
  BY <1>1, <1>8 DEF Pages

\* From rows to roles to accounts, and from an account to its rows: the same
\* permissions are found either way.
LEMMA HoldersHave ==
  ASSUME TypeOK, NEW p
  PROVE  Holders(p) = {a \in Existing : HasPermission(RowsOf(a), p)}
<1>1. ASSUME NEW a \in Existing, HasPermission(RowsOf(a), p) PROVE a \in Holders(p)
  <2>1. PICK row \in rows : <<a, row.role>> \in bindings /\ SqlGrants(row.perm, p)
    BY <1>1 DEF HasPermission, RowsOf
  <2> DEFINE b == <<a, row.role>>
  <2>2. b \in bindings /\ b[1] = a /\ b[2] = row.role
    BY <2>1
  <2>3. QED
    BY <2>1, <2>2 DEF Holders
<1>2. ASSUME NEW a \in Holders(p) PROVE a \in Existing /\ HasPermission(RowsOf(a), p)
  <2>1. PICK b \in bindings, row \in rows :
          b[1] = a /\ b[2] = row.role /\ SqlGrants(row.perm, p)
    BY <1>2 DEF Holders
  <2>2. b = <<a, row.role>> /\ a \in Existing
    BY <2>1 DEF TypeOK
  <2>3. row.perm \in RowsOf(a)
    BY <2>1, <2>2 DEF RowsOf
  <2>4. QED
    BY <2>1, <2>2, <2>3 DEF HasPermission
<1>3. QED
  BY <1>1, <1>2

\* Whoever satisfies the owner's version of a permission satisfies it.
LEMMA OwnersHave ==
  ASSUME NEW held, NEW p \in Permissions, HasPermission(held, OwnerOf(p))
  PROVE  HasPermission(held, p)
<1>1. PICK h \in held : SqlGrants(h, OwnerOf(p))
  BY DEF HasPermission
<1>2. SqlGrants(h, p)
  BY <1>1, OwnerOfType DEF SqlGrants
<1>3. QED
  BY <1>2 DEF HasPermission

LEMMA ListedNow ==
  ASSUME TypeOK, OneAccountPerName, IsFiniteSet(Existing)
  PROVE  ListedAreLetThrough
<1>1. List(All) = Existing
  BY Unlimited DEF List
<1>2. Pages(Existing, ListCount)
  BY PagesShowAll DEF ListCount
<1>3. ASSUME NEW p \in Asked
      PROVE  LET listed == ListWithPermission(All, p)
             IN  /\ listed = {a \in Existing : HasPermission(RowsOf(a), p)}
                 /\ ListWithPermissionCount(p) = Cardinality(listed)
                 /\ \A a \in Existing : MayList(a, p) => a \in listed
  <2>1. Holders(p) = {a \in Existing : HasPermission(RowsOf(a), p)}
    BY HoldersHave
  <2>2. Holders(p) \in SUBSET Existing
    BY <2>1
  <2>3. IsFiniteSet(Holders(p))
    BY <2>2, FS_Subset
  <2>4. ListWithPermission(All, p) = Holders(p)
    BY <2>3, Unlimited DEF ListWithPermission
  <2>5. ASSUME NEW a \in Existing, MayList(a, p) PROVE a \in Holders(p)
    <3>1. p \in Permissions
      BY ListsAssumption
    <3>2. HasPermission(RowsOf(a), p)
      BY <2>5, <3>1, OwnersHave DEF MayList
    <3>3. QED
      BY <2>1, <3>2
  <2>6. QED
    BY <2>1, <2>4, <2>5 DEF ListWithPermissionCount
<1>4. QED
  BY <1>1, <1>2, <1>3 DEF ListedAreLetThrough

\* A step adds at most one account.
LEMMA NextFinite ==
  ASSUME TypeOK, IsFiniteSet(Existing), [Next]_vars
  PROVE  IsFiniteSet(Existing)'
<1>1. CASE UNCHANGED accounts
  BY <1>1 DEF Existing
<1>2. ASSUME NEW a \in Accounts, NEW new, accounts' = [accounts EXCEPT ![a] = new]
      PROVE  IsFiniteSet(Existing')
  <2>1. \A b \in Accounts \ {a} : accounts'[b] = accounts[b]
    BY <1>2 DEF TypeOK
  <2>2. Existing' \in SUBSET (Existing \cup {a})
    BY <2>1 DEF Existing
  <2>3. IsFiniteSet(Existing \cup {a})
    BY FS_AddElement
  <2>4. QED
    BY <2>2, <2>3, FS_Subset
<1>3. QED
  BY <1>1, <1>2, AccountWritten DEF Next, vars

\* The table starts with finitely many accounts.
FiniteAtStart == IsFiniteSet({a \in Accounts : InitAccounts[a] # None})

\* For pages of one and of two accounts, any table and any permission: the
\* pages, read in one state, show every account once, who is listed as having
\* a permission is who passes the guard that asks for it, and whoever may see
\* that list is on it (repositories/service_accounts.go:34, 269, 301, 339).
THEOREM ListedPassGuards ==
  ASSUME FiniteAtStart PROVE Spec => []ListedAreLetThrough
<1>1. Init => IsFiniteSet(Existing)
  BY FiniteAtStart DEF Init, Existing, FiniteAtStart
<1>2. TypeOK /\ IsFiniteSet(Existing) /\ [Next]_vars => IsFiniteSet(Existing)'
  BY NextFinite
<1>3. TypeOK /\ OneAccountPerName /\ IsFiniteSet(Existing) => ListedAreLetThrough
  BY ListedNow
<1>4. QED
  BY <1>1, <1>2, <1>3, TypeCorrect, AddressesAreUnique, PTL DEF Spec
=============================================================================
