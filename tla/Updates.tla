------------------------------- MODULE Updates -------------------------------
(***************************************************************************)
(* The use cases that change roles, accounts, services and permissions, as *)
(* the transactions they are: programs of statements, run one statement at *)
(* a time, interleaved with those of every other transaction.              *)
(*                                                                         *)
(* The database is PostgreSQL at READ COMMITTED.  A statement sees what    *)
(* was committed when it started and what its own transaction wrote.  What *)
(* a transaction inserts, deletes or updates is locked until it ends, and  *)
(* so, against changes of their keys, are the rows its inserts refer to.   *)
(* A statement is run in two halves, each of which may have to wait: a     *)
(* DELETE picks its rows and then removes them; an INSERT enters its key   *)
(* and then looks for the rows it refers to; an UPDATE takes its row and   *)
(* then enters the new keys.                                               *)
(***************************************************************************)
EXTENDS Naturals, Sequences, FiniteSets

CONSTANTS Accounts, Roles, Services, BaseRole, Perms, Values, Requests, Workers, None,
          InitRows, InitRecords,
          Rank,             \* an order of permissions, accounts and roles
          MaxCalls          \* bound: requests served in a behaviour

VARIABLES rows,      \* tables permissions and role_bindings, as committed
          records,   \* tables service_accounts, roles and services
          tx,        \* the transaction each worker is in
          calls,     \* requests begun so far
          answered,  \* ... and those answered with success
          since      \* history, read by the properties only

vars == <<rows, records, tx, calls, answered, since>>

Book == INSTANCE Registry
  WITH serving <- [w \in Workers |-> IF tx[w] = None THEN None ELSE tx[w].req]

Request == [op : {"updateRole", "updateAccount", "attribute", "createPermission",
                  "deletePermission", "login", "updateService"},
            id : Book!Ids,                       \* what the request is about
            perms : Seq(Perms), accounts : Seq(Accounts), roles : Seq(Roles),
            sets : UNION {[C -> Values] : C \in SUBSET UNION {Book!Columns(i) : i \in Book!Ids}}]

\* Unique indexes, and through them the keys other rows refer to.
Unique(id) == CASE id \in Roles    -> {"name"}
                [] id \in Accounts -> {"name", "email"}
                [] id \in Services -> {}
Peers(id)  == CASE id \in Roles    -> Roles \ {id}
                [] id \in Accounts -> Accounts \ {id}
                [] id \in Services -> {}

\* Ids are those of records of the kind the route is about; roles and accounts
\* have a name in the body, a login a picture.
WellFormed(q) ==
  /\ q.op \in {"updateRole", "createPermission", "deletePermission"} => q.id \in Roles
  /\ q.op \in {"updateAccount", "login"} => q.id \in Accounts
  /\ q.op = "updateService" => q.id \in Services
  /\ q.op \in {"createPermission", "deletePermission"} => q.perms # <<>>
  /\ q.op \in {"updateRole", "updateAccount"} => "name" \in DOMAIN q.sets
  /\ q.op = "login" => "picture" \in DOMAIN q.sets
  /\ Book!Saves(q) => DOMAIN q.sets \subseteq Book!Columns(q.id)

ASSUME UpdatesAssumption ==
  /\ Accounts \cap Roles = {} /\ Accounts \cap Services = {} /\ Roles \cap Services = {}
  /\ BaseRole \in [Accounts -> Roles]
  /\ InitRows \subseteq Book!Rows
  /\ InitRecords \in [Book!Ids -> UNION {[Book!Columns(i) -> Values] : i \in Book!Ids}]
  /\ \A id \in Book!Ids : InitRecords[id] \in [Book!Columns(id) -> Values]
  /\ \A id \in Book!Ids : \A peer \in Peers(id), c \in Unique(id) :
       InitRecords[id][c] # InitRecords[peer][c]
  /\ Requests \subseteq Request
  /\ \A q \in Requests : WellFormed(q)
  /\ Rank \in [Perms \cup Accounts \cup Roles -> Nat]
  /\ MaxCalls \in Nat

\* A transaction: its request, the record it read first, its next statement
\* and which half of it, the rows a DELETE picked, and what it wrote.
Tx == [req : Requests, seen : UNION {[Book!Columns(i) -> Values] : i \in Book!Ids},
       pc : Nat \ {0}, half : {1, 2},
       picked : SUBSET Book!Rows, inserted : SUBSET Book!Rows, deleted : SUBSET Book!Rows,
       saved : BOOLEAN, new : UNION {[Book!Columns(i) -> Values] : i \in Book!Ids}]

ASSUME NoneAssumption == None \notin Requests \cup Tx

-----------------------------------------------------------------------------
(* Statements *)

Insert(row)  == [do |-> "insert", row |-> row, strict |-> FALSE]   \* ON CONFLICT DO NOTHING
Bind(row)    == [do |-> "insert", row |-> row, strict |-> TRUE]
Delete(S)    == [do |-> "delete", rows |-> S]
Save         == [do |-> "save"]
Skip         == [do |-> "skip"]                                    \* continue

Each(Stmt(_), s) == [i \in DOMAIN s |-> Stmt(s[i])]

RowsOfRole(r)       == {x \in Book!Rows : x.table = "permissions" /\ x.role = r}
BindingsOfRole(r)   == {x \in Book!Rows : x.table = "role_bindings" /\ x.role = r}
\* Fault: every binding of the account.
EveryBindingOf(a)   == {x \in Book!Rows : x.table = "role_bindings" /\ x.of = a}
\* ServiceAccounts.DropBindings keeps the binding to the base role.
BindingsOf(a)       == {x \in Book!Rows : /\ x.table = "role_bindings" /\ x.of = a
                                          /\ x.role # BaseRole[a]}

-----------------------------------------------------------------------------
(* Use cases *)

\* Fault: the old permissions are dropped when the new ones are there.
UpdateRoleDropsLate(q) ==
  Each(LAMBDA p : Insert(Book!PermissionRow(q.id, p)), q.perms)
    \o <<Delete(RowsOfRole(q.id)), Delete(BindingsOfRole(q.id))>>
    \o Each(LAMBDA a : Bind(Book!BindingRow(q.id, a)), q.accounts)
    \o <<Save>>

\* Roles.Update.
UpdateRole(q) ==
  <<Delete(RowsOfRole(q.id))>>
    \o Each(LAMBDA p : Insert(Book!PermissionRow(q.id, p)), q.perms)
    \o <<Delete(BindingsOfRole(q.id))>>
    \o Each(LAMBDA a : Bind(Book!BindingRow(q.id, a)), q.accounts)
    \o <<Save>>

\* ServiceAccounts.UpdateWithNested.
UpdateWithNested(q) ==
  LET base == BaseRole[q.id]
  IN  <<Save, Delete(BindingsOf(q.id))>>
        \o Each(LAMBDA r : IF r = base THEN Skip ELSE Bind(Book!BindingRow(r, q.id)), q.roles)
        \o <<Delete(RowsOfRole(base))>>
        \o Each(LAMBDA p : Insert(Book!PermissionRow(base, p)), q.perms)

\* Fault: from the last permission to the first.
AttributeBackwards(q) ==
  LET n == Len(q.perms)
  IN  [i \in 1..(Len(q.roles) * n) |->
         Insert(Book!PermissionRow(q.roles[((i - 1) \div n) + 1],
                                   q.perms[n - ((i - 1) % n)]))]

\* Permissions.Attribute, and AttributeToEmails with the base roles of the
\* accounts it found, in the order the database returned them.
Attribute(q) ==
  LET n == Len(q.perms)
  IN  [i \in 1..(Len(q.roles) * n) |->
         Insert(Book!PermissionRow(q.roles[((i - 1) \div n) + 1],
                                   q.perms[((i - 1) % n) + 1]))]

\* Roles.CreatePermission and Permissions.Delete: one statement each.  What
\* is deleted is the row the handler found, not one put in its place since.
CreatePermission(q) == <<Insert(Book!PermissionRow(q.id, q.perms[1]))>>
DeletePermission(q) == <<Delete({Book!PermissionRow(q.id, q.perms[1])})>>

\* A login that found its account with another picture, and Services.Update,
\* write back the record they read first.
WriteBack(q) == <<Save>>

Program == [q \in Requests |->
  CASE q.op = "updateRole"                -> UpdateRole(q)
    [] q.op = "updateAccount"             -> UpdateWithNested(q)
    [] q.op = "attribute"                 -> Attribute(q)
    [] q.op = "createPermission"          -> CreatePermission(q)
    [] q.op = "deletePermission"          -> DeletePermission(q)
    [] q.op \in {"login", "updateService"} -> WriteBack(q)]

\* The record a transaction saves: Roles.Update writes the one column it has;
\* the other updates write every column, those they do not change as read.
Saved(w) == Book!Over(tx[w].seen, Book!Sets(tx[w].req))

-----------------------------------------------------------------------------
(* Locks *)

Statement(w) == Program[tx[w].req][tx[w].pc]
At(w, do, half) ==
  /\ tx[w] # None
  /\ tx[w].pc <= Len(Program[tx[w].req])
  /\ Statement(w).do = do
  /\ tx[w].half = half

KeyChange(id, new) == \E c \in Unique(id) : new[c] # records[id][c]

\* The records a row refers to.
Refers(row) == {row.role} \cup (IF row.table = "role_bindings" THEN {row.of} ELSE {})

WroteKey(v, id) == /\ tx[v] # None /\ tx[v].saved /\ tx[v].req.id = id
                   /\ KeyChange(id, tx[v].new)

\* The rows whose references are checked, and so locked.
Checked(v) == tx[v].inserted \ (IF At(v, "insert", 2) THEN {Statement(v).row} ELSE {})

\* The other transaction v holds what the next half-statement of w needs.
WaitsFor(w, v) ==
  /\ v # w /\ tx[v] # None
  /\ \/ At(w, "insert", 1) /\ Statement(w).row \in tx[v].inserted \cup tx[v].deleted
     \/ At(w, "insert", 2) /\ \E id \in Refers(Statement(w).row) : WroteKey(v, id)
     \/ At(w, "delete", 2) /\ tx[w].picked \cap tx[v].deleted # {}
     \/ /\ At(w, "save", 1)
        /\ LET id == tx[w].req.id
           IN  \/ tx[v].saved /\ tx[v].req.id = id
               \/ /\ KeyChange(id, Saved(w))
                  /\ \E row \in Checked(v) : id \in Refers(row)
     \/ /\ At(w, "save", 2) /\ tx[v].saved
        /\ tx[v].req.id \in Peers(tx[w].req.id)
        /\ \E c \in Unique(tx[w].req.id) :
             tx[w].new[c] \in {tx[v].new[c], records[tx[v].req.id][c]}
Free(w) == \A v \in Workers : ~ WaitsFor(w, v)

\* Transactions that wait for each other in a circle.
Circle(D) ==
  /\ D # {}
  /\ \A u \in D : (\E v \in D : WaitsFor(u, v)) /\ (\E v \in D : WaitsFor(v, u))

Deadlocked(w) == \E D \in SUBSET Workers : w \in D /\ Circle(D)

-----------------------------------------------------------------------------
(* Transactions *)

\* A request has passed its handler's checks; the record it is going to write
\* back is read.
Begin(w) ==
  /\ tx[w] = None
  /\ calls < MaxCalls
  /\ \E q \in Requests :
       /\ q.op = "login" => records[q.id].picture # q.sets.picture
       /\ tx' = [tx EXCEPT ![w] =
            [req |-> q, seen |-> records[q.id], pc |-> 1, half |-> 1, picked |-> {},
             inserted |-> {}, deleted |-> {}, saved |-> FALSE, new |-> records[q.id]]]
  /\ calls' = calls + 1
  /\ UNCHANGED <<rows, records, answered>>
  /\ Book!Remember({})

\* Fault: an error returns without a rollback.
Unended(w) == UNCHANGED tx

End(w) == tx' = [tx EXCEPT ![w] = None]

\* A constraint is violated, a statement fails, the client goes away or the
\* process dies: nothing of the transaction stays.
Abort(w) ==
  /\ tx[w] # None
  /\ End(w)
  /\ UNCHANGED <<rows, records, calls, answered>>
  /\ Book!Remember({})

\* The database ends a transaction of a circle.
Victim(w) == Deadlocked(w) /\ Abort(w)

-----------------------------------------------------------------------------
(* Statements at work *)

\* What w sees of the rows.
Visible(w) == (rows \ tx[w].deleted) \cup tx[w].inserted

Only(t) ==
  /\ t
  /\ UNCHANGED <<rows, records, calls, answered>>
  /\ Book!Remember({})

\* A row that is there already ends the statement, or, for a binding, the
\* transaction.
EnterKey(w) ==
  /\ At(w, "insert", 1) /\ Free(w)
  /\ LET row == Statement(w).row
     IN  Only(CASE row \notin Visible(w) ->
                     tx' = [tx EXCEPT ![w].inserted = @ \cup {row}, ![w].half = 2]
                [] row \in Visible(w) /\ Statement(w).strict -> End(w)
                [] OTHER -> tx' = [tx EXCEPT ![w].pc = @ + 1])

CheckReferences(w) ==
  /\ At(w, "insert", 2) /\ Free(w)
  /\ Only(tx' = [tx EXCEPT ![w].pc = @ + 1, ![w].half = 1])

Pass(w) ==
  /\ At(w, "skip", 1)
  /\ Only(tx' = [tx EXCEPT ![w].pc = @ + 1])

Pick(w) ==
  /\ At(w, "delete", 1)
  /\ Only(tx' = [tx EXCEPT ![w].picked = Statement(w).rows \cap Visible(w), ![w].half = 2])

Remove(w) ==
  /\ At(w, "delete", 2) /\ Free(w)
  /\ Only(tx' = [tx EXCEPT ![w].deleted = @ \cup tx[w].picked,
                           ![w].inserted = @ \ tx[w].picked,
                           ![w].picked = {}, ![w].pc = @ + 1, ![w].half = 1])

TakeRecord(w) ==
  /\ At(w, "save", 1) /\ Free(w)
  /\ Only(tx' = [tx EXCEPT ![w].saved = TRUE, ![w].new = Saved(w), ![w].half = 2])

\* A name or an address that is taken ends the transaction.
EnterKeys(w) ==
  /\ At(w, "save", 2) /\ Free(w)
  /\ LET id == tx[w].req.id
     IN  Only(IF \E peer \in Peers(id), c \in Unique(id) : tx[w].new[c] = records[peer][c]
                THEN End(w)
                ELSE tx' = [tx EXCEPT ![w].pc = @ + 1, ![w].half = 1])

\* Rows that are gone are no longer waited for by those who picked them, also
\* when equal ones have taken their place.
Commit(w) ==
  /\ tx[w] # None /\ tx[w].pc = Len(Program[tx[w].req]) + 1
  /\ rows' = (rows \ tx[w].deleted) \cup tx[w].inserted
  /\ records' = IF tx[w].saved THEN [records EXCEPT ![tx[w].req.id] = tx[w].new]
                ELSE records
  /\ tx' = [v \in Workers |->
       IF v = w \/ tx[v] = None THEN (IF v = w THEN None ELSE tx[v])
       ELSE [tx[v] EXCEPT !.picked = @ \ tx[w].deleted]]
  /\ answered' = answered + 1
  /\ UNCHANGED calls
  /\ Book!Remember(Book!Listed(tx[w].req))

-----------------------------------------------------------------------------

Init ==
  /\ rows = InitRows
  /\ records = InitRecords
  /\ tx = [w \in Workers |-> None]
  /\ calls = 0
  /\ answered = 0
  /\ since = [w \in Workers |-> Book!Nothing]

Move(w) ==
  \/ EnterKey(w) \/ CheckReferences(w) \/ Pass(w) \/ Pick(w) \/ Remove(w)
  \/ TakeRecord(w) \/ EnterKeys(w) \/ Commit(w)

Next == \E w \in Workers : Begin(w) \/ Move(w) \/ Abort(w)

Spec == Init /\ [][Next]_vars

\* The database answers every statement it can and breaks every circle; nobody
\* has to send requests.
FairSpec == Spec /\ \A w \in Workers : WF_vars(Move(w) \/ Victim(w))

-----------------------------------------------------------------------------
(* Properties *)

\* The rows a transaction takes away were committed before it began to write,
\* and nobody else can take them away first: what it picked or deleted is
\* there until it ends.
TypeOK ==
  /\ rows \subseteq Book!Rows
  /\ records \in [Book!Ids -> UNION {[Book!Columns(i) -> Values] : i \in Book!Ids}]
  /\ \A id \in Book!Ids : DOMAIN records[id] = Book!Columns(id)
  /\ \A w \in Workers : tx[w] # None =>
       /\ tx[w].req \in Requests
       /\ tx[w].pc \in 1..(Len(Program[tx[w].req]) + 1) /\ tx[w].half \in {1, 2}
       /\ tx[w].inserted \subseteq Book!Rows
       /\ tx[w].deleted \subseteq rows
       /\ tx[w].picked \subseteq Visible(w)
  /\ calls \in 0..MaxCalls
  /\ answered \in 0..calls

\* Roles.Update, ServiceAccounts.UpdateWithNested, Services.Update, attributions
\* and logins, statement by statement and interleaved, do what Registry lets
\* whole requests do: an update replaces what it replaces, also if others of
\* the same role or account run meanwhile, leaves nothing behind when it fails,
\* and writes no column but its own with a value that column did not have
\* meanwhile.  An account's update leaves it the binding to its base role; a
\* role's takes all its bindings, a base role's too (usecases/roles.go:97).
BookSpec == Book!RegistrySpec

\* Every transaction ends: a statement of another one can make it wait, but
\* none waits for ever, also when requests lock the same rows in opposite
\* orders.
TxEnds == \A w \in Workers : tx[w] # None ~> tx[w] = None

\* The request of v gives its record a name or an address that is not the
\* committed one.
Renames(v) == /\ Book!Saves(tx[v].req)
              /\ KeyChange(tx[v].req.id, IF tx[v].saved THEN tx[v].new ELSE Saved(v))

InOrder(s) == \A i, j \in DOMAIN s : i < j => Rank[s[i]] < Rank[s[j]]

\* Transactions that wait for each other in a circle have a reason that their
\* requests give: one changes a name that others refer to, lists things in
\* another order than the rest, has deleted rows which the others are about to
\* put back, or replaces a role while another replaces the roles of an account,
\* which is done in the opposite order.  Requests that only add rows, in one
\* order, are never broken off, however many meet.
DeadlocksAreProvoked ==
  \A D \in SUBSET Workers : Circle(D) =>
    \E v \in D :
      \/ Renames(v)
      \/ \E s \in {tx[v].req.perms, tx[v].req.accounts, tx[v].req.roles} : ~ InOrder(s)
      \/ tx[v].deleted # {}
      \/ tx[v].req.op = "updateRole" /\ \E u \in D : tx[u].req.op = "updateAccount"
=============================================================================
