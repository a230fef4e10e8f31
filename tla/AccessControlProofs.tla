------------------------- MODULE AccessControlProofs -------------------------
(***************************************************************************)
(* For every set of accounts, roles, requests and workers: the tables stay *)
(* well-formed, and no sequence of requests makes up rights.               *)
(***************************************************************************)
EXTENDS AccessControl, PermissionProofs

-----------------------------------------------------------------------------
(* How a step changes what the workers are doing *)

LEMMA JobFields ==
  ASSUME TypeOK, NEW w \in Workers, job[w] # None
  PROVE  /\ job[w].req \in Requests
         /\ job[w].req \in Request
         /\ Valid(job[w].req)
         /\ job[w].step \in Steps
         /\ job[w].found \subseteq Accounts
         /\ job[w].seen \in Account \cup {None}
         /\ job[w] \in [req : Requests, step : Steps, found : SUBSET Accounts,
                        seen : Account \cup {None}]
  BY RequestsAssumption DEF TypeOK, Job

LEMMA DoneJob ==
  ASSUME TypeOK, NEW w \in Workers, Done(w)
  PROVE  /\ job' \in [Workers -> Job]
         /\ job'[w] = None
         /\ \A v \in Workers : v # w => job'[v] = job[v]
  BY DEF TypeOK, Done, Job

LEMMA AdvanceJob ==
  ASSUME TypeOK, NEW w \in Workers, job[w] # None, NEW s \in Steps, Advance(w, s)
  PROVE  /\ job' \in [Workers -> Job]
         /\ job'[w].req = job[w].req
         /\ job'[w].step = s
         /\ job'[w].found = job[w].found
         /\ job'[w].seen = job[w].seen
         /\ \A v \in Workers : v # w => job'[v] = job[v]
  BY JobFields DEF TypeOK, Advance, Job

\* What a worker knows of an account it found survives a step that keeps it.
LEMMA Kept ==
  ASSUME AccountsKept, NEW S, S \subseteq Existing
  PROVE  /\ S \subseteq Existing'
         /\ \A a \in S : accounts'[a].base = accounts[a].base
  BY DEF AccountsKept

LEMMA CarriedOver ==
  ASSUME JobOK, AccountsKept, NEW v \in Workers, job'[v] = job[v], job'[v] # None
  PROVE  JobOKAt(v)'
<1>1. JobOKAt(v)
  BY DEF JobOK
<1>2. QED
  BY <1>1, Kept DEF JobOKAt

LEMMA DoneJobOK ==
  ASSUME TypeOK, JobOK, NEW w \in Workers, Done(w), AccountsKept
  PROVE  JobOK'
<1>1. job'[w] = None /\ \A v \in Workers : v # w => job'[v] = job[v]
  BY DoneJob
<1>2. ASSUME NEW v \in Workers, job'[v] # None
      PROVE  JobOKAt(v)'
  BY <1>1, <1>2, CarriedOver
<1>3. QED
  BY <1>2 DEF JobOK

LEMMA AdvanceJobOK ==
  ASSUME TypeOK, JobOK, NEW w \in Workers, job[w] # None,
         NEW s \in Steps, s # "write", Advance(w, s), AccountsKept
  PROVE  JobOK'
<1>1. /\ job'[w].req = job[w].req /\ job'[w].step = s
      /\ job'[w].found = job[w].found /\ job'[w].seen = job[w].seen
      /\ \A v \in Workers : v # w => job'[v] = job[v]
  BY AdvanceJob
<1>2. ASSUME NEW v \in Workers, job'[v] # None
      PROVE  JobOKAt(v)'
  <2>1. CASE v = w
    <3>1. JobOKAt(w)
      BY DEF JobOK
    <3>2. QED
      BY <1>1, <2>1, <3>1, Kept DEF JobOKAt
  <2>2. CASE v # w
    BY <1>1, <1>2, <2>2, CarriedOver
  <2>3. QED
    BY <2>1, <2>2
<1>3. QED
  BY <1>2 DEF JobOK

-----------------------------------------------------------------------------
(* How a step changes the tables *)

LEMMA SameAccounts ==
  ASSUME accounts' = accounts
  PROVE  Existing' = Existing /\ AccountsKept
  BY DEF Existing, AccountsKept

\* createServiceAccount adds one well-formed account and its base role.
LEMMA CreateServiceAccountType ==
  ASSUME TypeOK, NEW a \in Accounts, NEW r \in Roles, NEW n \in Names,
         NEW e \in Names \cup {None}, CreateServiceAccount(a, r, n, e)
  PROVE  /\ accounts' \in [Accounts -> Account \cup {None}]
         /\ roles' \subseteq Roles /\ roles \subseteq roles' /\ r \in roles'
         /\ AccountsKept /\ Existing \subseteq Existing' /\ a \in Existing'
         /\ \A b \in Existing' : accounts'[b].base \in roles'
<1> DEFINE new == [name |-> n, email |-> e, picture |-> None, base |-> r]
<1>1. new \in Account /\ new # None
  BY NoneAssumption DEF Account
<1>2. accounts' = [accounts EXCEPT ![a] = new] /\ roles' = roles \cup {r}
  BY DEF CreateServiceAccount
<1>3. accounts' \in [Accounts -> Account \cup {None}]
  BY <1>1, <1>2 DEF TypeOK
<1>4. \A b \in Accounts : accounts'[b] = IF b = a THEN new ELSE accounts[b]
  BY <1>2 DEF TypeOK
<1>5. AccountsKept /\ Existing \subseteq Existing' /\ a \in Existing'
  <2>1. accounts[a] = None
    BY DEF CreateServiceAccount
  <2>2. QED
    BY <1>1, <1>4, <2>1 DEF Existing, AccountsKept
<1>6. ASSUME NEW b \in Existing' PROVE accounts'[b].base \in roles'
  <2>1. CASE b = a
    BY <1>2, <1>4, <2>1
  <2>2. CASE b # a
    <3>1. b \in Existing /\ accounts'[b] = accounts[b]
      BY <1>4, <2>2 DEF Existing
    <3>2. QED
      BY <1>2, <3>1 DEF TypeOK
  <2>3. QED
    BY <2>1, <2>2
<1>7. QED
  BY <1>2, <1>3, <1>5, <1>6 DEF TypeOK

\* Rows given to existing roles keep the table well-formed.
LEMMA GivenType ==
  ASSUME NEW rs, NEW ps \in SUBSET Permissions, NEW all, rs \subseteq all
  PROVE  Given(rs, ps) \subseteq [role : all, perm : Permissions]
  BY DEF Given

\* The parts of TypeOK that speak of the tables survive when the steps of the
\* actions do; what is left to show of an action is its effect on each table.
LEMMA TypeFromParts ==
  ASSUME accounts' \in [Accounts -> Account \cup {None}],
         roles' \subseteq Roles,
         \A a \in Existing' : accounts'[a].base \in roles',
         bindings' \subseteq Existing' \X roles',
         rows' \subseteq [role : roles', perm : Permissions],
         services' \subseteq Service,
         job' \in [Workers -> Job],
         calls' \in 0..MaxCalls
  PROVE  TypeOK'
  BY DEF TypeOK

-----------------------------------------------------------------------------
(* The tables are well-formed *)

LEMMA InitType == Init => TypeOK /\ JobOK
<1> SUFFICES ASSUME Init PROVE TypeOK /\ JobOK
  OBVIOUS
<1>1. bindings \subseteq Existing \X roles
  BY InitAssumption DEF Init, Existing
<1>2. \A a \in Existing : accounts[a].base \in roles
  BY InitAssumption DEF Init, Existing
<1>3. calls \in 0..MaxCalls
  BY RequestsAssumption DEF Init
<1>4. job \in [Workers -> Job]
  BY DEF Init, Job
<1>5. TypeOK
  BY <1>1, <1>2, <1>3, <1>4, InitAssumption DEF Init, TypeOK
<1>6. JobOK
  BY DEF Init, JobOK
<1>7. QED
  BY <1>5, <1>6

LEMMA ArriveType ==
  ASSUME TypeOK, JobOK, NEW w \in Workers, Arrive(w)
  PROVE  TypeOK' /\ JobOK'
<1>1. PICK q \in Requests :
        /\ q.op # "login" => q.caller \in Existing
        /\ job' = [job EXCEPT ![w] = [req |-> q, step |-> FirstStep(q.op),
                                      found |-> {}, seen |-> None]]
  BY DEF Arrive
<1> DEFINE new == [req |-> q, step |-> FirstStep(q.op), found |-> {}, seen |-> None]
<1>2. FirstStep(q.op) \in Steps /\ FirstStep(q.op) # "write"
  BY RequestsAssumption DEF Request, Ops, FirstStep, Steps
<1>3. new \in Job
  BY <1>2 DEF Job
<1>4. job' \in [Workers -> Job]
  BY <1>1, <1>3 DEF TypeOK
<1>5. UNCHANGED tables /\ calls' = calls + 1 /\ calls < MaxCalls
  BY DEF Arrive
<1>6. calls' \in 0..MaxCalls
  BY <1>5, RequestsAssumption DEF TypeOK
<1>7. TypeOK'
  BY <1>4, <1>5, <1>6 DEF TypeOK, tables, Existing
<1>8. Existing' = Existing /\ AccountsKept
  BY <1>5, SameAccounts DEF tables
<1>9. ASSUME NEW v \in Workers, job'[v] # None
      PROVE  JobOKAt(v)'
  <2>1. CASE v = w
    <3>1. job'[v] = new
      BY <1>1, <2>1 DEF TypeOK
    <3>2. new.found = {} /\ new.step # "write" /\ new.req = q
      BY <1>2
    <3>3. QED
      BY <1>1, <1>8, <3>1, <3>2 DEF JobOKAt
  <2>2. CASE v # w
    <3>1. job'[v] = job[v]
      BY <1>1, <2>2 DEF TypeOK
    <3>2. QED
      BY <1>8, <1>9, <3>1, CarriedOver
  <2>3. QED
    BY <2>1, <2>2
<1>10. JobOK'
  BY <1>9 DEF JobOK
<1>11. QED
  BY <1>7, <1>10

LEMMA FailType ==
  ASSUME TypeOK, JobOK, NEW w \in Workers, Fail(w)
  PROVE  TypeOK' /\ JobOK'
<1>1. Done(w) /\ UNCHANGED <<tables, calls>>
  BY DEF Fail
<1>2. job' \in [Workers -> Job]
  BY <1>1, DoneJob
<1>3. TypeOK'
  BY <1>1, <1>2 DEF TypeOK, tables, Existing
<1>4. QED
  BY <1>1, <1>3, DoneJobOK, SameAccounts DEF tables

\* The three owner checks and the lookup of addresses write no table.
LEMMA CheckType ==
  ASSUME TypeOK, JobOK, NEW w \in Workers,
         CheckRoles(w) \/ CheckPerms(w) \/ CheckOwner(w)
  PROVE  TypeOK' /\ JobOK'
<1>1. PICK s \in {"perms", "find", "commit"} : Advance(w, s)
  BY DEF CheckRoles, CheckPerms, CheckOwner
<1>2. job[w] # None /\ UNCHANGED <<tables, calls>>
  BY DEF CheckRoles, CheckPerms, CheckOwner, Doing
<1>3. s \in Steps /\ s # "write"
  BY DEF Steps
<1>4. job' \in [Workers -> Job]
  BY <1>1, <1>2, <1>3, AdvanceJob
<1>5. TypeOK'
  BY <1>2, <1>4 DEF TypeOK, tables, Existing
<1>6. QED
  BY <1>1, <1>2, <1>3, <1>5, AdvanceJobOK, SameAccounts DEF tables

LEMMA FindEmailsType ==
  ASSUME TypeOK, JobOK, NEW w \in Workers, FindEmails(w)
  PROVE  TypeOK' /\ JobOK'
<1> DEFINE found == WithEmail(job[w].req.emails)
           new   == [job[w] EXCEPT !.found = found, !.step = "commit"]
<1>1. job[w] # None /\ UNCHANGED <<tables, calls>>
  BY DEF FindEmails, Doing
<1>2. found \subseteq Existing /\ found \subseteq Accounts
  BY DEF WithEmail, Existing
<1>3. job' = [job EXCEPT ![w] = new]
  BY <1>1, JobFields DEF FindEmails, TypeOK
<1>4. /\ new \in Job /\ new.found = found /\ new.step = "commit"
      /\ new.req = job[w].req
  BY <1>1, <1>2, JobFields DEF Job, Steps
<1>5. job' \in [Workers -> Job]
  BY <1>3, <1>4 DEF TypeOK
<1>6. TypeOK'
  BY <1>1, <1>5 DEF TypeOK, tables, Existing
<1>7. Existing' = Existing /\ AccountsKept
  BY <1>1, SameAccounts DEF tables
<1>8. ASSUME NEW v \in Workers, job'[v] # None
      PROVE  JobOKAt(v)'
  <2>1. CASE v = w
    <3>1. job'[v] = new
      BY <1>3, <2>1 DEF TypeOK
    <3>2. QED
      BY <1>1, <1>2, <1>4, <1>7, <2>1, <3>1 DEF JobOK, JobOKAt
  <2>2. CASE v # w
    <3>1. job'[v] = job[v]
      BY <1>3, <2>2 DEF TypeOK
    <3>2. QED
      BY <1>7, <1>8, <3>1, CarriedOver
  <2>3. QED
    BY <2>1, <2>2
<1>9. QED
  BY <1>6, <1>8 DEF JobOK

LEMMA CreateRoleType ==
  ASSUME TypeOK, JobOK, NEW w \in Workers, CreateRole(w)
  PROVE  TypeOK' /\ JobOK'
<1> DEFINE q == job[w].req
<1>1. Done(w) /\ job[w] # None /\ UNCHANGED <<accounts, services, calls>>
  BY DEF CreateRole, Doing
<1>2. PICK r \in Roles : /\ q.accts \subseteq Existing
                         /\ roles' = roles \cup {r}
                         /\ rows' = rows \cup Given({r}, q.perms)
                         /\ bindings' = bindings \cup (q.accts \X {r})
  BY DEF CreateRole
<1>3. Existing' = Existing /\ AccountsKept
  BY <1>1, SameAccounts
<1>4. q.perms \in SUBSET Permissions
  BY <1>1, JobFields DEF Request
<1>5. rows' \subseteq [role : roles', perm : Permissions]
  BY <1>2, <1>4, GivenType DEF TypeOK
<1>6. bindings' \subseteq Existing' \X roles'
  BY <1>2, <1>3 DEF TypeOK
<1>7. job' \in [Workers -> Job]
  BY <1>1, DoneJob
<1>8. TypeOK'
  BY <1>1, <1>2, <1>3, <1>5, <1>6, <1>7 DEF TypeOK
<1>9. QED
  BY <1>1, <1>3, <1>8, DoneJobOK

LEMMA UpdateRoleType ==
  ASSUME TypeOK, JobOK, NEW w \in Workers, UpdateRole(w)
  PROVE  TypeOK' /\ JobOK'
<1> DEFINE q == job[w].req
<1>1. /\ Done(w) /\ job[w] # None /\ UNCHANGED <<accounts, roles, services, calls>>
      /\ q.perms # {} \/ q.accts # {} => q.target \in roles
      /\ q.accts \subseteq Existing
      /\ rows' = {x \in rows : x.role # q.target} \cup Given({q.target}, q.perms)
      /\ bindings' = {b \in bindings : b[2] # q.target} \cup (q.accts \X {q.target})
  BY DEF UpdateRole, Doing
<1>2. Existing' = Existing /\ AccountsKept
  BY <1>1, SameAccounts
<1>3. q.perms \in SUBSET Permissions
  BY <1>1, JobFields DEF Request
<1>4. rows' \subseteq [role : roles', perm : Permissions]
  <2>1. Given({q.target}, q.perms) \subseteq [role : roles, perm : Permissions]
    BY <1>1, <1>3 DEF Given
  <2>2. QED
    BY <1>1, <2>1 DEF TypeOK
<1>5. bindings' \subseteq Existing' \X roles'
  <2>1. q.accts \X {q.target} \subseteq Existing \X roles
    BY <1>1
  <2>2. QED
    BY <1>1, <1>2, <2>1 DEF TypeOK
<1>6. job' \in [Workers -> Job]
  BY <1>1, DoneJob
<1>7. TypeOK'
  BY <1>1, <1>2, <1>4, <1>5, <1>6 DEF TypeOK
<1>8. QED
  BY <1>1, <1>2, <1>7, DoneJobOK

\* The transactions that write nothing but rows, of roles that exist.
LEMMA RowsOnlyType ==
  ASSUME TypeOK, JobOK, NEW w \in Workers, Done(w),
         rows' \subseteq [role : roles, perm : Permissions],
         UNCHANGED <<accounts, roles, bindings, services, calls>>
  PROVE  TypeOK' /\ JobOK'
<1>1. Existing' = Existing /\ AccountsKept
  BY SameAccounts
<1>2. job' \in [Workers -> Job]
  BY DoneJob
<1>3. TypeOK'
  BY <1>1, <1>2 DEF TypeOK
<1>4. QED
  BY <1>1, <1>3, DoneJobOK

LEMMA PermissionsType ==
  ASSUME TypeOK, JobOK, NEW w \in Workers,
         CreatePermission(w) \/ DeletePermission(w) \/ Attribute(w) \/ AttributeToEmails(w)
  PROVE  TypeOK' /\ JobOK'
<1> DEFINE q == job[w].req
<1>1. /\ Done(w) /\ job[w] # None
      /\ UNCHANGED <<accounts, roles, bindings, services, calls>>
  BY DEF CreatePermission, DeletePermission, Attribute, AttributeToEmails, Doing
<1>2. q.perms \in SUBSET Permissions
  BY <1>1, JobFields DEF Request
<1>3. rows' \subseteq [role : roles, perm : Permissions]
  <2>1. CASE CreatePermission(w)
    <3>1. q.target \in roles /\ rows' = rows \cup Given({q.target}, q.perms)
      BY <2>1 DEF CreatePermission
    <3>2. QED
      BY <1>2, <3>1 DEF Given, TypeOK
  <2>2. CASE DeletePermission(w)
    BY <2>2 DEF DeletePermission, TypeOK
  <2>3. CASE Attribute(w)
    <3>1. /\ q.perms # {} => q.roles \subseteq roles
          /\ rows' = rows \cup Given(q.roles, q.perms)
      BY <2>3 DEF Attribute
    <3>2. QED
      BY <1>2, <3>1 DEF Given, TypeOK
  <2>4. CASE AttributeToEmails(w)
    <3>1. rows' = rows \cup Given({accounts[a].base : a \in job[w].found}, q.perms)
      BY <2>4 DEF AttributeToEmails
    <3>2. {accounts[a].base : a \in job[w].found} \subseteq roles
      BY <1>1 DEF JobOK, JobOKAt, TypeOK
    <3>3. QED
      BY <1>2, <3>1, <3>2 DEF Given, TypeOK
  <2>5. QED
    BY <2>1, <2>2, <2>3, <2>4
<1>4. QED
  BY <1>1, <1>3, RowsOnlyType

LEMMA CreateWithNestedType ==
  ASSUME TypeOK, JobOK, NEW w \in Workers, CreateWithNested(w)
  PROVE  TypeOK' /\ JobOK'
<1> DEFINE q == job[w].req
<1>1. /\ Done(w) /\ job[w] # None /\ UNCHANGED <<services, calls>>
      /\ q.op = "createAccount"
  BY DEF CreateWithNested, Doing
<1>2. PICK a \in Accounts, r \in Roles :
        /\ q.roles \subseteq roles
        /\ CreateServiceAccount(a, r, q.name, q.email)
        /\ bindings' = bindings \cup ({a} \X ({r} \cup q.roles))
        /\ rows' = rows \cup Given({r}, q.perms)
  BY DEF CreateWithNested
<1>3. /\ q.perms \in SUBSET Permissions /\ q.name \in Names
      /\ q.email \in Names \cup {None}
  BY <1>1, JobFields DEF Request, Valid
<1>4. /\ accounts' \in [Accounts -> Account \cup {None}]
      /\ roles' \subseteq Roles /\ roles \subseteq roles' /\ r \in roles'
      /\ AccountsKept /\ Existing \subseteq Existing' /\ a \in Existing'
      /\ \A b \in Existing' : accounts'[b].base \in roles'
  BY <1>2, <1>3, CreateServiceAccountType
<1>5. bindings' \subseteq Existing' \X roles'
  <2>1. {a} \X ({r} \cup q.roles) \subseteq Existing' \X roles'
    BY <1>2, <1>4
  <2>2. QED
    BY <1>2, <1>4, <2>1 DEF TypeOK
<1>6. rows' \subseteq [role : roles', perm : Permissions]
  <2>1. Given({r}, q.perms) \subseteq [role : roles', perm : Permissions]
    BY <1>3, <1>4 DEF Given
  <2>2. QED
    BY <1>2, <1>4, <2>1 DEF TypeOK
<1>7. job' \in [Workers -> Job]
  BY <1>1, DoneJob
<1>8. TypeOK'
  BY <1>1, <1>4, <1>5, <1>6, <1>7 DEF TypeOK
<1>9. QED
  BY <1>1, <1>4, <1>8, DoneJobOK

LEMMA UpdateWithNestedType ==
  ASSUME TypeOK, JobOK, NEW w \in Workers, UpdateWithNested(w)
  PROVE  TypeOK' /\ JobOK'
<1> DEFINE q    == job[w].req
           sa   == q.target
           base == accounts[sa].base
           new  == [accounts[sa] EXCEPT !.name = q.name, !.email = q.name]
<1>1. /\ Done(w) /\ job[w] # None /\ UNCHANGED <<roles, services, calls>>
      /\ q.op = "updateAccount"
      /\ sa \in Existing /\ q.roles \subseteq roles
      /\ accounts' = [accounts EXCEPT ![sa].name = q.name, ![sa].email = q.name]
      /\ bindings' = (bindings \ Unbound(sa)) \cup ({sa} \X (q.roles \ {base}))
      /\ rows' = {x \in rows : x.role # base} \cup Given({base}, q.perms)
  BY DEF UpdateWithNested, Doing
<1>2. q.perms \in SUBSET Permissions /\ q.name \in Names /\ sa \in Accounts
  BY <1>1, JobFields DEF Request, Valid, Existing
<1>3. accounts[sa] \in Account /\ base \in roles
  BY <1>1, <1>2 DEF TypeOK, Existing
<1>4. new \in Account /\ new # None /\ new.base = base
  BY <1>2, <1>3, NoneAssumption DEF Account
<1>5. /\ accounts' \in [Accounts -> Account \cup {None}]
      /\ \A b \in Accounts : accounts'[b] = IF b = sa THEN new ELSE accounts[b]
  BY <1>1, <1>2, <1>4 DEF TypeOK
<1>6. Existing' = Existing
  BY <1>1, <1>4, <1>5 DEF Existing
<1>7. \A b \in Existing' : accounts'[b].base \in roles'
  <2>1. \A b \in Existing : b \in Accounts /\ accounts[b].base \in roles
    BY DEF TypeOK, Existing
  <2>2. \A b \in Existing : accounts'[b].base \in roles
    BY <1>3, <1>4, <1>5, <2>1
  <2>3. QED
    BY <1>1, <1>6, <2>2
<1>8. bindings' \subseteq Existing' \X roles'
  <2>1. {sa} \X (q.roles \ {base}) \subseteq Existing \X roles
    BY <1>1
  <2>2. QED
    BY <1>1, <1>6, <2>1 DEF TypeOK
<1>9. rows' \subseteq [role : roles', perm : Permissions]
  <2>1. Given({base}, q.perms) \subseteq [role : roles, perm : Permissions]
    BY <1>2, <1>3 DEF Given
  <2>2. QED
    BY <1>1, <2>1 DEF TypeOK
<1>10. job' \in [Workers -> Job]
  BY <1>1, DoneJob
<1>11. TypeOK'
  BY <1>1, <1>5, <1>7, <1>8, <1>9, <1>10 DEF TypeOK
<1>12. AccountsKept
  BY <1>2, <1>4, <1>5, <1>6 DEF AccountsKept, Existing
<1>13. QED
  BY <1>1, <1>11, <1>12, DoneJobOK

LEMMA FindAccountType ==
  ASSUME TypeOK, JobOK, NEW w \in Workers, FindAccount(w)
  PROVE  TypeOK' /\ JobOK'
<1> DEFINE Write(a) == [job[w] EXCEPT !.step = "write", !.found = {a},
                                      !.seen = accounts[a]]
<1>1. job[w] # None /\ UNCHANGED <<tables, calls>>
  BY DEF FindAccount, Doing
<1>2. Existing' = Existing /\ AccountsKept
  BY <1>1, SameAccounts DEF tables
<1>3. CASE Advance(w, "create")
  <2>1. job' \in [Workers -> Job]
    BY <1>1, <1>3, AdvanceJob DEF Steps
  <2>2. TypeOK'
    BY <1>1, <2>1 DEF TypeOK, tables, Existing
  <2>3. QED
    BY <1>1, <1>2, <1>3, <2>2, AdvanceJobOK DEF Steps
<1>4. CASE Done(w)
  <2>1. job' \in [Workers -> Job]
    BY <1>4, DoneJob
  <2>2. TypeOK'
    BY <1>1, <2>1 DEF TypeOK, tables, Existing
  <2>3. QED
    BY <1>2, <1>4, <2>2, DoneJobOK
<1>5. ASSUME NEW a \in WithEmail({job[w].req.email}),
             job' = [job EXCEPT ![w].step = "write", ![w].found = {a},
                                ![w].seen = accounts[a]]
      PROVE  TypeOK' /\ JobOK'
  <2>1. a \in Accounts /\ a \in Existing /\ accounts[a] \in Account
    BY DEF WithEmail, Existing, TypeOK
  <2>2. job' = [job EXCEPT ![w] = Write(a)]
    BY <1>1, <1>5, JobFields DEF TypeOK
  <2>3. /\ Write(a) \in Job /\ Write(a).found = {a} /\ Write(a).seen = accounts[a]
        /\ Write(a).req = job[w].req
    BY <1>1, <2>1, JobFields DEF Job, Steps
  <2>4. job' \in [Workers -> Job]
    BY <2>2, <2>3 DEF TypeOK
  <2>5. TypeOK'
    BY <1>1, <2>4 DEF TypeOK, tables, Existing
  <2>6. ASSUME NEW v \in Workers, job'[v] # None
        PROVE  JobOKAt(v)'
    <3>1. CASE v = w
      <4>1. job'[v] = Write(a)
        BY <2>2, <3>1 DEF TypeOK
      <4>2. accounts[a] # None
        BY <2>1 DEF Existing
      <4>3. job[w].req.op # "login" => job[w].req.caller \in Existing
        BY <1>1 DEF JobOK, JobOKAt
      <4>4. accounts' = accounts
        BY <1>1 DEF tables
      <4>5. /\ job'[v].found = {a} /\ job'[v].seen = accounts[a]
            /\ job'[v].req = job[w].req
        BY <2>3, <4>1
      <4>6. QED
        BY <1>2, <2>1, <4>2, <4>3, <4>4, <4>5 DEF JobOKAt
    <3>2. CASE v # w
      <4>1. job'[v] = job[v]
        BY <2>2, <3>2 DEF TypeOK
      <4>2. QED
        BY <1>2, <2>6, <4>1, CarriedOver
    <3>3. QED
      BY <3>1, <3>2
  <2>7. QED
    BY <2>5, <2>6 DEF JobOK
<1>6. QED
  BY <1>3, <1>4, <1>5 DEF FindAccount

LEMMA CreateForEmailType ==
  ASSUME TypeOK, JobOK, NEW w \in Workers, CreateForEmail(w)
  PROVE  TypeOK' /\ JobOK'
<1> DEFINE q == job[w].req
<1>1. /\ Done(w) /\ job[w] # None /\ UNCHANGED <<rows, services, calls>>
      /\ q.op = "login"
  BY DEF CreateForEmail, Doing
<1>2. PICK a \in Accounts, r \in Roles :
        /\ CreateServiceAccount(a, r, q.email, q.email)
        /\ bindings' = bindings \cup {<<a, r>>}
  BY DEF CreateForEmail
<1>3. q.email \in Names
  BY <1>1, JobFields DEF Valid
<1>4. /\ accounts' \in [Accounts -> Account \cup {None}]
      /\ roles' \subseteq Roles /\ roles \subseteq roles' /\ r \in roles'
      /\ AccountsKept /\ Existing \subseteq Existing' /\ a \in Existing'
      /\ \A b \in Existing' : accounts'[b].base \in roles'
  BY <1>2, <1>3, CreateServiceAccountType
<1>5. bindings' \subseteq Existing' \X roles'
  BY <1>2, <1>4 DEF TypeOK
<1>6. rows' \subseteq [role : roles', perm : Permissions]
  BY <1>1, <1>4 DEF TypeOK
<1>7. job' \in [Workers -> Job]
  BY <1>1, DoneJob
<1>8. TypeOK'
  BY <1>1, <1>4, <1>5, <1>6, <1>7 DEF TypeOK
<1>9. QED
  BY <1>1, <1>4, <1>8, DoneJobOK

LEMMA CreateServiceType ==
  ASSUME TypeOK, JobOK, NEW w \in Workers, CreateService(w)
  PROVE  TypeOK' /\ JobOK'
<1> DEFINE q == job[w].req
<1>1. Done(w) /\ job[w] # None /\ UNCHANGED calls /\ q.op = "createService"
  BY DEF CreateService, Doing
<1>2. PICK a \in Accounts, r \in Roles :
        /\ CreateServiceAccount(a, r, q.name, None)
        /\ bindings' = bindings \cup {<<a, r>>}
        /\ services' = services \cup
             {[account |-> a, creator |-> q.caller, permissionName |-> q.service]}
        /\ rows' = rows \cup Given({r, accounts[q.caller].base},
                                   {FullOwnership(q.service)})
  BY DEF CreateService
<1>3. q.name \in Names /\ q.service \in Services /\ q.caller \in Accounts
  BY <1>1, JobFields DEF Valid
<1>4. /\ accounts' \in [Accounts -> Account \cup {None}]
      /\ roles' \subseteq Roles /\ roles \subseteq roles' /\ r \in roles'
      /\ AccountsKept /\ Existing \subseteq Existing' /\ a \in Existing'
      /\ \A b \in Existing' : accounts'[b].base \in roles'
  BY <1>2, <1>3, CreateServiceAccountType
<1>5. bindings' \subseteq Existing' \X roles'
  BY <1>2, <1>4 DEF TypeOK
<1>6. rows' \subseteq [role : roles', perm : Permissions]
  <2>1. FullOwnership(q.service) \in Permissions
    BY <1>3 DEF FullOwnership, Permissions, Levels, Hierarchies, Parts
  <2>2. accounts[q.caller].base \in roles'
    BY <1>1, <1>4 DEF JobOK, JobOKAt, TypeOK
  <2>3. QED
    BY <1>2, <1>4, <2>1, <2>2 DEF Given, TypeOK
<1>7. services' \subseteq Service
  BY <1>2, <1>3 DEF TypeOK, Service
<1>8. job' \in [Workers -> Job]
  BY <1>1, DoneJob
<1>9. TypeOK'
  BY <1>1, <1>4, <1>5, <1>6, <1>7, <1>8 DEF TypeOK
<1>10. QED
  BY <1>1, <1>4, <1>9, DoneJobOK

LEMMA SavePictureType ==
  ASSUME TypeOK, JobOK, NEW w \in Workers, SavePicture(w)
  PROVE  TypeOK' /\ JobOK'
<1> DEFINE q   == job[w].req
           new == [job[w].seen EXCEPT !.picture = q.picture]
<1>1. /\ Done(w) /\ job[w] # None /\ job[w].step = "write"
      /\ UNCHANGED <<roles, bindings, rows, services, calls>>
  BY DEF SavePicture, Doing
<1>2. PICK a \in job[w].found : accounts' = [accounts EXCEPT ![a] = new]
  BY DEF SavePicture
<1>3. a \in Existing /\ a \in Accounts
  BY <1>1, <1>2 DEF JobOK, JobOKAt, Existing
<1>4. job[w].seen \in Account /\ q.picture \in Pictures \cup {None}
  BY <1>1, JobFields DEF JobOK, JobOKAt, Request
<1>5. new \in Account /\ new # None /\ new.base = job[w].seen.base
  BY <1>4, NoneAssumption DEF Account
<1>6. /\ accounts' \in [Accounts -> Account \cup {None}]
      /\ \A b \in Accounts : accounts'[b] = IF b = a THEN new ELSE accounts[b]
  BY <1>2, <1>3, <1>5 DEF TypeOK
<1>7. Existing' = Existing
  BY <1>3, <1>5, <1>6 DEF Existing
<1>8. AccountsKept
  <2>1. new.base = accounts[a].base
    BY <1>1, <1>2, <1>5 DEF JobOK, JobOKAt
  <2>2. QED
    BY <1>6, <1>7, <2>1 DEF AccountsKept, Existing
<1>9. \A b \in Existing' : accounts'[b].base \in roles'
  BY <1>1, <1>7, <1>8 DEF AccountsKept, TypeOK
<1>10. job' \in [Workers -> Job]
  BY <1>1, DoneJob
<1>11. TypeOK'
  BY <1>1, <1>6, <1>7, <1>9, <1>10 DEF TypeOK
<1>12. QED
  BY <1>1, <1>8, <1>11, DoneJobOK

LEMMA NextType ==
  ASSUME TypeOK, JobOK, [Next]_vars
  PROVE  TypeOK' /\ JobOK'
<1>1. ASSUME NEW w \in Workers, Arrive(w) \/ Work(w) \/ Fail(w)
      PROVE  TypeOK' /\ JobOK'
  <2>1. CASE Arrive(w)
    BY <2>1, ArriveType
  <2>2. CASE Fail(w)
    BY <2>2, FailType
  <2>3. CASE CheckRoles(w) \/ CheckPerms(w) \/ CheckOwner(w)
    BY <2>3, CheckType
  <2>4. CASE CreateRole(w)
    BY <2>4, CreateRoleType
  <2>5. CASE UpdateRole(w)
    BY <2>5, UpdateRoleType
  <2>6. CASE CreatePermission(w) \/ DeletePermission(w) \/ Attribute(w) \/ AttributeToEmails(w)
    BY <2>6, PermissionsType
  <2>7. CASE FindEmails(w)
    BY <2>7, FindEmailsType
  <2>8. CASE CreateWithNested(w)
    BY <2>8, CreateWithNestedType
  <2>9. CASE UpdateWithNested(w)
    BY <2>9, UpdateWithNestedType
  <2>10. CASE FindAccount(w)
    BY <2>10, FindAccountType
  <2>11. CASE CreateForEmail(w)
    BY <2>11, CreateForEmailType
  <2>12. CASE SavePicture(w)
    BY <2>12, SavePictureType
  <2>13. CASE CreateService(w)
    BY <2>13, CreateServiceType
  <2>14. QED
    BY <1>1, <2>1, <2>2, <2>3, <2>4, <2>5, <2>6, <2>7, <2>8, <2>9, <2>10, <2>11,
       <2>12, <2>13 DEF Work
<1>2. CASE UNCHANGED vars
  BY <1>2 DEF vars, TypeOK, JobOK, JobOKAt, Existing
<1>3. QED
  BY <1>1, <1>2 DEF Next

\* The foreign keys of the schema are never broken, and what a request read of
\* an account before it writes is still so when it writes: accounts are never
\* deleted and never change their base role (repositories/service_accounts.go).
THEOREM TypeCorrect == Spec => [](TypeOK /\ JobOK)
<1>1. Init => TypeOK /\ JobOK
  BY InitType
<1>2. TypeOK /\ JobOK /\ [Next]_vars => TypeOK' /\ JobOK'
  BY NextType
<1>3. QED
  BY <1>1, <1>2, PTL DEF Spec

-----------------------------------------------------------------------------
(* Rights are conserved *)

LEMMA FullOwnershipType ==
  ASSUME NEW s \in Services
  PROVE  FullOwnership(s) \in Permissions /\ FullOwnership(s).level = RO
  BY DEF FullOwnership, Permissions, Levels, Hierarchies, Parts

LEMMA SeedsType ==
  ASSUME TypeOK
  PROVE  Seeds \subseteq Permissions
<1>1. \A row \in InitRows : row.perm \in Permissions
  BY InitAssumption
<1>2. \A s \in services : FullOwnership(s.permissionName) \in Permissions
  BY FullOwnershipType DEF TypeOK, Service
<1>3. QED
  BY <1>1, <1>2 DEF Seeds

LEMMA BackedStays ==
  ASSUME services \subseteq services', NEW p, Backed(p)
  PROVE  Backed(p)'
  BY DEF Backed, Seeds

\* What an owner's check lets through lies within a seed: the row that passes
\* the check is an owner's row, so it is a seed or lies within one, and
\* handing out is transitive.
LEMMA OwnedIsBacked ==
  ASSUME TypeOK, RightsConserved, NEW a, NEW p \in Permissions,
         IsPresent(RowsOf(a), OwnerOf(p))
  PROVE  Backed(p)
<1>1. PICK row \in rows : GoGrants(row.perm, OwnerOf(p))
  BY DEF IsPresent, RowsOf
<1>2. row.perm \in Permissions
  BY DEF TypeOK
<1>3. row.perm.level = RO
  BY <1>1, <1>2, OwnerOfType DEF GoGrants, Less, Permissions, Levels
<1>4. CASE row \in InitRows
  <2>1. row.perm \in Seeds
    BY <1>3, <1>4 DEF Seeds
  <2>2. QED
    BY <1>1, <2>1 DEF Backed
<1>5. CASE Backed(row.perm)
  <2>1. PICK q \in Seeds : GoGrants(q, OwnerOf(row.perm))
    BY <1>5 DEF Backed
  <2>2. q \in Permissions
    BY SeedsType
  <2>3. GoGrants(q, OwnerOf(p))
    BY <1>1, <1>2, <2>1, <2>2, OwnershipTransitive
  <2>4. QED
    BY <2>1, <2>3 DEF Backed
<1>6. QED
  BY <1>4, <1>5 DEF RightsConserved

\* A step writes rows that were there or rows of a checked request; only the
\* creation of a service writes others.
LEMMA WrittenRows ==
  ASSUME TypeOK, NEW w \in Workers, Arrive(w) \/ Work(w) \/ Fail(w), ~CreateService(w)
  PROVE  /\ services' = services
         /\ \A row \in rows' : row \in rows \/ (Checked(w) /\ row.perm \in job[w].req.perms)
<1> DEFINE q == job[w].req
           Goal == /\ services' = services
                   /\ \A row \in rows' : row \in rows \/ (Checked(w) /\ row.perm \in q.perms)
<1>1. CASE Arrive(w) \/ Fail(w) \/ CheckRoles(w) \/ CheckPerms(w) \/ CheckOwner(w)
             \/ FindEmails(w) \/ FindAccount(w)
  BY <1>1 DEF Arrive, Fail, CheckRoles, CheckPerms, CheckOwner, FindEmails, FindAccount, tables
<1>2. CASE CreateForEmail(w) \/ SavePicture(w)
  BY <1>2 DEF CreateForEmail, SavePicture
<1>3. CASE CreateRole(w)
  BY <1>3 DEF CreateRole, Checked, Doing, Given
<1>4. CASE UpdateRole(w)
  BY <1>4 DEF UpdateRole, Checked, Doing, Given
<1>5. CASE CreatePermission(w)
  BY <1>5 DEF CreatePermission, Checked, Doing, Given
<1>6. CASE DeletePermission(w)
  BY <1>6 DEF DeletePermission
<1>7. CASE Attribute(w)
  BY <1>7 DEF Attribute, Checked, Doing, Given
<1>8. CASE AttributeToEmails(w)
  BY <1>8 DEF AttributeToEmails, Checked, Doing, Given
<1>9. CASE CreateWithNested(w)
  BY <1>9 DEF CreateWithNested, Checked, Doing, Given
<1>10. CASE UpdateWithNested(w)
  BY <1>10 DEF UpdateWithNested, Checked, Doing, Given
<1>11. QED
  BY <1>1, <1>2, <1>3, <1>4, <1>5, <1>6, <1>7, <1>8, <1>9, <1>10 DEF Work

\* A request comes to be checked by an owner's check only.
LEMMA BecomesChecked ==
  ASSUME TypeOK, NEW w \in Workers, Arrive(w) \/ Work(w) \/ Fail(w)
  PROVE  /\ \A v \in Workers : v # w => job'[v] = job[v]
         /\ Checked(w)' => /\ job[w] # None /\ job'[w].req = job[w].req
                           /\ Checked(w) \/ CheckPerms(w) \/ CheckOwner(w)
<1>1. CASE Done(w)
  BY <1>1, DoneJob DEF Checked
<1>2. CASE Arrive(w)
  <2>1. PICK q \in Requests :
          job' = [job EXCEPT ![w] = [req |-> q, step |-> FirstStep(q.op),
                                     found |-> {}, seen |-> None]]
    BY <1>2 DEF Arrive
  <2>2. /\ job'[w].step = FirstStep(q.op) /\ job'[w].req = q
        /\ \A v \in Workers : v # w => job'[v] = job[v]
    BY <2>1 DEF TypeOK
  <2>3. q.op \in Ops
    BY RequestsAssumption DEF Request
  <2>4. /\ FirstStep(q.op) = "commit" => q.op = "createService"
        /\ FirstStep(q.op) = "find" => q.op # "attributeToEmails"
    BY <2>3 DEF FirstStep, Ops
  <2>5. QED
    BY <2>2, <2>4 DEF Checked
<1>3. CASE CheckRoles(w)
  <2>1. job[w] # None /\ Advance(w, "perms")
    BY <1>3 DEF CheckRoles, Doing
  <2>2. job'[w].step = "perms" /\ \A v \in Workers : v # w => job'[v] = job[v]
    BY <2>1, AdvanceJob DEF Steps
  <2>3. QED
    BY <2>2 DEF Checked
<1>4. CASE CheckPerms(w) \/ CheckOwner(w)
  <2>1. job[w] # None /\ \E s \in {"find", "commit"} : Advance(w, s)
    BY <1>4 DEF CheckPerms, CheckOwner
  <2>2. job'[w].req = job[w].req /\ \A v \in Workers : v # w => job'[v] = job[v]
    BY <2>1, AdvanceJob DEF Steps
  <2>3. QED
    BY <1>4, <2>1, <2>2
<1>5. CASE FindEmails(w)
  <2>1. /\ job[w] # None /\ job[w].req.op = "attributeToEmails" /\ job[w].step = "find"
        /\ job' = [job EXCEPT ![w].found = WithEmail(job[w].req.emails),
                              ![w].step = "commit"]
    BY <1>5 DEF FindEmails, Doing
  <2>2. job'[w].req = job[w].req /\ \A v \in Workers : v # w => job'[v] = job[v]
    BY <2>1, JobFields DEF TypeOK
  <2>3. QED
    BY <2>1, <2>2 DEF Checked
<1>6. CASE FindAccount(w)
  <2>1. job[w] # None /\ job[w].req.op = "login"
    BY <1>6 DEF FindAccount, Doing
  <2>2. CASE Advance(w, "create")
    <3>1. job'[w].step = "create" /\ \A v \in Workers : v # w => job'[v] = job[v]
      BY <2>1, <2>2, AdvanceJob DEF Steps
    <3>2. QED
      BY <3>1 DEF Checked
  <2>3. ASSUME NEW a,
               job' = [job EXCEPT ![w].step = "write", ![w].found = {a},
                                  ![w].seen = accounts[a]]
        PROVE  job'[w].step = "write" /\ \A v \in Workers : v # w => job'[v] = job[v]
    BY <2>1, <2>3, JobFields DEF TypeOK
  <2>4. QED
    BY <1>1, <1>6, <2>2, <2>3 DEF FindAccount, Checked
<1>7. CASE \/ Fail(w) \/ CreateRole(w) \/ UpdateRole(w) \/ CreatePermission(w)
           \/ DeletePermission(w) \/ Attribute(w) \/ AttributeToEmails(w)
           \/ CreateWithNested(w) \/ UpdateWithNested(w) \/ CreateForEmail(w)
           \/ SavePicture(w) \/ CreateService(w)
  <2>1. Done(w)
    BY <1>7 DEF Fail, CreateRole, UpdateRole, CreatePermission, DeletePermission,
                Attribute, AttributeToEmails, CreateWithNested, UpdateWithNested,
                CreateForEmail, SavePicture, CreateService
  <2>2. QED
    BY <1>1, <2>1
<1>8. QED
  BY <1>2, <1>3, <1>4, <1>5, <1>6, <1>7 DEF Work

\* Both owner's checks establish what CheckedConserved asks of the request:
\* the Go check directly, the SQL check because SQL is the stricter one.
LEMMA CheckBacks ==
  ASSUME TypeOK, RightsConserved, NEW w \in Workers, CheckPerms(w) \/ CheckOwner(w)
  PROVE  \A p \in job[w].req.perms : Backed(p)
<1> DEFINE q == job[w].req
<1>1. job[w] # None
  BY DEF CheckPerms, CheckOwner
<1>2. q.perms \in SUBSET Permissions
  BY <1>1, JobFields DEF Request
<1>3. ASSUME NEW p \in q.perms PROVE Backed(p)
  <2>1. p \in Permissions /\ OwnerOf(p) \in Permissions
    BY <1>2, OwnerOfType
  <2>2. CASE CheckPerms(w)
    <3>1. IsPresent(RowsOf(q.caller), OwnerOf(p))
      BY <2>2 DEF CheckPerms, HasAllOwnerPermissions
    <3>2. QED
      BY <2>1, <3>1, OwnedIsBacked
  <2>3. CASE CheckOwner(w)
    <3>1. PICK held \in RowsOf(q.caller) : SqlGrants(held, OwnerOf(p))
      BY <2>3 DEF CheckOwner, HasPermission
    <3>2. held \in Permissions
      BY DEF RowsOf, TypeOK
    <3>3. GoGrants(held, OwnerOf(p))
      BY <2>1, <3>1, <3>2, SqlStricter
    <3>4. IsPresent(RowsOf(q.caller), OwnerOf(p))
      BY <3>1, <3>3 DEF IsPresent
    <3>5. QED
      BY <2>1, <3>4, OwnedIsBacked
  <2>4. QED
    BY <2>2, <2>3
<1>4. QED
  BY <1>3

LEMMA InitConserved == Init => RightsConserved /\ CheckedConserved
  BY DEF Init, RightsConserved, CheckedConserved, Checked

LEMMA ServicesGrow ==
  ASSUME TypeOK, NEW w \in Workers, Arrive(w) \/ Work(w) \/ Fail(w)
  PROVE  services \subseteq services'
<1>1. CASE CreateService(w)
  BY <1>1 DEF CreateService
<1>2. CASE ~CreateService(w)
  BY <1>2, WrittenRows
<1>3. QED
  BY <1>1, <1>2

\* A row that a step adds lies within a right some owner has: its request was
\* checked, or it is the full ownership of a service being created.
LEMMA AddedIsBacked ==
  ASSUME TypeOK, CheckedConserved, NEW w \in Workers, Arrive(w) \/ Work(w) \/ Fail(w),
         NEW row \in rows', row \notin rows
  PROVE  Backed(row.perm)'
<1>1. services \subseteq services'
  BY ServicesGrow
<1>2. CASE ~CreateService(w)
  <2>1. Checked(w) /\ row.perm \in job[w].req.perms
    BY <1>2, WrittenRows
  <2>2. Backed(row.perm)
    BY <2>1 DEF CheckedConserved
  <2>3. QED
    BY <1>1, <2>2, BackedStays
<1>3. CASE CreateService(w)
  <2> DEFINE s == job[w].req.service
  <2>1. row.perm = FullOwnership(s)
    BY <1>3 DEF CreateService, Given
  <2>2. \E x \in services' : x.permissionName = s
    <3>1. PICK a \in Accounts :
            services' = services \cup {[account |-> a, creator |-> job[w].req.caller,
                                        permissionName |-> s]}
      BY <1>3 DEF CreateService
    <3> DEFINE new == [account |-> a, creator |-> job[w].req.caller,
                       permissionName |-> s]
    <3>2. new \in services' /\ new.permissionName = s
      BY <3>1
    <3>3. QED
      BY <3>2
  <2>3. s \in Services
    BY <1>3, JobFields DEF CreateService, Doing, Valid
  <2>4. FullOwnership(s) \in Seeds'
    BY <2>2 DEF Seeds
  <2>5. GoGrants(FullOwnership(s), OwnerOf(FullOwnership(s)))
    BY <2>3, FullOwnershipType, OwnerHandsOutItself
  <2>6. QED
    BY <2>1, <2>4, <2>5 DEF Backed
<1>4. QED
  BY <1>2, <1>3

LEMMA NextConserved ==
  ASSUME TypeOK, JobOK, RightsConserved, CheckedConserved, [Next]_vars
  PROVE  RightsConserved' /\ CheckedConserved'
<1>1. ASSUME NEW w \in Workers, Arrive(w) \/ Work(w) \/ Fail(w)
      PROVE  RightsConserved' /\ CheckedConserved'
  <2>1. services \subseteq services'
    BY <1>1, ServicesGrow
  <2>2. ASSUME NEW row \in rows' PROVE row \in InitRows \/ Backed(row.perm)'
    <3>1. CASE row \in rows
      BY <2>1, <3>1, BackedStays DEF RightsConserved
    <3>2. CASE row \notin rows
      BY <1>1, <3>2, AddedIsBacked
    <3>3. QED
      BY <3>1, <3>2
  <2>3. ASSUME NEW v \in Workers, Checked(v)', NEW p \in job'[v].req.perms
        PROVE  Backed(p)'
    <3>1. CASE v # w
      <4>1. job'[v] = job[v]
        BY <1>1, <3>1, BecomesChecked
      <4>2. Checked(v) /\ p \in job[v].req.perms
        BY <2>3, <4>1 DEF Checked
      <4>3. QED
        BY <2>1, <4>2, BackedStays DEF CheckedConserved
    <3>2. CASE v = w
      <4>1. /\ job'[w].req = job[w].req
            /\ Checked(w) \/ CheckPerms(w) \/ CheckOwner(w)
        BY <1>1, <2>3, <3>2, BecomesChecked
      <4>2. p \in job[w].req.perms
        BY <2>3, <3>2, <4>1
      <4>3. Backed(p)
        BY <4>1, <4>2, CheckBacks DEF CheckedConserved
      <4>4. QED
        BY <2>1, <4>3, BackedStays
    <3>3. QED
      BY <3>1, <3>2
  <2>4. QED
    BY <2>2, <2>3 DEF RightsConserved, CheckedConserved
<1>2. CASE UNCHANGED vars
  <2>1. rows' = rows /\ job' = job /\ services' = services
    BY <1>2 DEF vars
  <2>2. QED
    BY <2>1 DEF RightsConserved, CheckedConserved, Checked, Backed, Seeds
<1>3. QED
  BY <1>1, <1>2 DEF Next

\* The rule the README states for owners and lenders, for the whole system:
\* from any database, for any requests of any number of workers, every
\* permission row is an initial one or lies within an initial owner's right
\* or the full ownership of a created service.  Checks and writes are apart
\* (api/roles_handlers.go:147 and usecases/roles.go:86), yet a check whose
\* answer has gone stale does not let a right be made up.
THEOREM RightsAreConserved == Spec => []RightsConserved
<1> DEFINE IInv == TypeOK /\ JobOK /\ RightsConserved /\ CheckedConserved
<1>1. Init => IInv
  BY InitType, InitConserved
<1>2. IInv /\ [Next]_vars => IInv'
  BY NextType, NextConserved
<1>3. IInv => RightsConserved
  OBVIOUS
<1>4. QED
  BY <1>1, <1>2, <1>3, PTL DEF Spec
=============================================================================
