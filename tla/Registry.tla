------------------------------ MODULE Registry ------------------------------
(***************************************************************************)
(* What an administrator may rely on when roles, accounts, services and    *)
(* permissions are changed by several requests at once.  A request takes   *)
(* effect as a whole or not at all.  What it replaces is replaced, what it *)
(* lists is there, and what it does not speak of keeps a value it had      *)
(* meanwhile; only requests that overlap it can make a difference.         *)
(***************************************************************************)
EXTENDS Naturals, Sequences

CONSTANTS Accounts, Roles, Services,   \* ids of records
          BaseRole,                    \* of each account
          Perms,                       \* permissions, as opaque values
          Values,                      \* what the columns of records hold
          Requests,                    \* the requests clients send
          Workers,                     \* goroutines serving them
          None                         \* absent value

VARIABLES rows,      \* the rows of permissions and of role_bindings
          records,   \* of accounts, roles and services: value by column
          serving,   \* the request each worker is serving
          answered,  \* requests answered with success so far
          since      \* history: what happened since a worker's request came

registryVars == <<rows, records, serving, answered, since>>

Ids == Accounts \cup Roles \cup Services
Columns(id) == CASE id \in Roles    -> {"name"}
                 [] id \in Accounts -> {"name", "email", "picture"}
                 [] id \in Services -> {"name", "permissionName", "amUrl"}

PermissionRow(r, p) == [table |-> "permissions", role |-> r, of |-> p]
BindingRow(r, a)    == [table |-> "role_bindings", role |-> r, of |-> a]
Rows == {PermissionRow(r, p) : r \in Roles, p \in Perms}
          \cup {BindingRow(r, a) : r \in Roles, a \in Accounts}

Elements(s) == {s[i] : i \in DOMAIN s}

-----------------------------------------------------------------------------
(* What a request asks for *)

\* The rows it replaces, ...
Scope(q) ==
  CASE q.op = "updateRole"       -> {x \in Rows : x.role = q.id}
    [] q.op = "updateAccount"    ->
         {x \in Rows : IF x.table = "permissions"
                         THEN x.role = BaseRole[q.id]
                         ELSE x.of = q.id /\ x.role # BaseRole[q.id]}
    [] q.op = "deletePermission" -> {PermissionRow(q.id, q.perms[1])}
    [] OTHER                     -> {}

\* ... those it lists, ...
Listed(q) ==
  CASE q.op = "updateRole"    ->
         {PermissionRow(q.id, p) : p \in Elements(q.perms)}
           \cup {BindingRow(q.id, a) : a \in Elements(q.accounts)}
    [] q.op = "updateAccount" ->
         {PermissionRow(BaseRole[q.id], p) : p \in Elements(q.perms)}
           \cup {BindingRow(r, q.id) : r \in Elements(q.roles) \ {BaseRole[q.id]}}
    [] q.op = "createPermission" -> {PermissionRow(q.id, q.perms[1])}
    [] q.op = "attribute"     ->
         {PermissionRow(r, p) : r \in Elements(q.roles), p \in Elements(q.perms)}
    [] OTHER                  -> {}

\* ... and the columns it sets, of the record it is about.  The address of
\* an account follows its name.
Sets(q) == IF q.op = "updateAccount"
             THEN [name |-> q.sets.name, email |-> q.sets.name]
             ELSE q.sets
Saves(q) == q.op \in {"updateRole", "updateAccount", "login", "updateService"}

Over(old, sets) == [c \in DOMAIN old |-> IF c \in DOMAIN sets THEN sets[c] ELSE old[c]]

-----------------------------------------------------------------------------
(* History: of the rows a request replaces, those overlapping requests have *)
(* put; of those it lists, the ones they have taken away; and the values its *)
(* record had meanwhile *)

Nothing == [put |-> {}, taken |-> {}, past |-> {}]

\* Of the requests that go on; by is what the request that ends here lists.
Remember(by) ==
  since' = [w \in Workers |->
    IF serving'[w] = None THEN Nothing
    ELSE LET q == serving'[w]
             h == IF serving[w] = None THEN Nothing ELSE since[w]
         IN  [put   |-> h.put \cup (by \cap rows' \cap Scope(q)),
              taken |-> h.taken \cup ((rows \ rows') \cap Listed(q)),
              past  |-> h.past \cup {records'[q.id]}]]

-----------------------------------------------------------------------------

\* A request comes, or ends in an error and without effect.
Come(w) ==
  /\ serving[w] = None
  /\ \E q \in Requests : serving' = [serving EXCEPT ![w] = q]
  /\ UNCHANGED <<rows, records, answered>>
  /\ Remember({})

Leave(w) ==
  /\ serving[w] # None
  /\ serving' = [serving EXCEPT ![w] = None]
  /\ UNCHANGED <<rows, records, answered>>
  /\ Remember({})

\* A request takes effect and is answered with success.
Apply(w) ==
  /\ serving[w] # None
  /\ serving' = [serving EXCEPT ![w] = None]
  /\ answered' = answered + 1
  /\ LET q == serving[w]
     IN  /\ rows' \subseteq Listed(q) \cup (rows \ Scope(q)) \cup (rows \cap since[w].put)
         /\ (rows \ Scope(q)) \cup (Listed(q) \ since[w].taken) \subseteq rows'
         /\ IF Saves(q)
              THEN \E old \in since[w].past :
                     records' = [records EXCEPT ![q.id] = Over(old, Sets(q))]
              ELSE UNCHANGED records
         /\ Remember(Listed(q))

RegistryNext == \E w \in Workers : Come(w) \/ Leave(w) \/ Apply(w)

RegistryInit ==
  /\ serving = [w \in Workers |-> None]
  /\ answered = 0
  /\ since = [w \in Workers |-> Nothing]

RegistrySpec == RegistryInit /\ [][RegistryNext]_registryVars
=============================================================================
