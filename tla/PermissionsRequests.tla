------------------------- MODULE PermissionsRequests -------------------------
(***************************************************************************)
(* Permission requests as the code runs them: one database transaction per *)
(* HTTP request, its statements interleaved with those of every other      *)
(* transaction.  The database is PostgreSQL at its default isolation, READ *)
(* COMMITTED: a statement sees what was committed when it started, what a  *)
(* transaction wrote is seen by the others when it commits, and a statement*)
(* that meets a row another transaction has written waits for its end.     *)
(***************************************************************************)
EXTENDS Permission, Naturals, FiniteSets

CONSTANTS Accounts,     \* service accounts
          Requesters,   \* the accounts that ask for permissions,
          Moderators,   \* ... and those that try to decide
          Asked,        \* permissions clients ask for
          Ids,          \* ids of requests
          None,         \* absent value (NULL)
          Workers,      \* goroutines serving requests
          Changing,     \* rows the other routes of the API create and delete
          InitRows,
          MaxCalls,     \* bound: transactions begun (and, by Ids, requests made)
          MaxChanges    \* bound: rows created or deleted by other routes

VARIABLES requests,     \* table permissions_requests, by id, as committed
          rows,         \* table permissions as committed: rows of base roles
          tx,           \* the transaction each worker is in
          calls,        \* transactions begun so far
          changes,      \* changes made by other routes so far
          since         \* history, read by the properties only

vars == <<requests, rows, tx, calls, changes, since>>

Row     == [sa : Accounts, perm : Permissions]
Request == [sa : Accounts, perm : Asked, state : {"open", "granted", "denied"},
            moderator : Accounts \cup {None}]

\* A transaction: what it does and for whom, its next statement, the request
\* it is about (None: not known, or not inserted), the permission asked for,
\* and the row it has inserted and not committed (None: none).
Tx == [op : {"create", "grant", "deny"}, caller : Accounts,
       step : {"get", "check", "insert", "update", "commit"},
       id : Ids \cup {None}, perm : Asked \cup {None}, row : Row \cup {None}]

ASSUME InitRowsAssumption == InitRows \subseteq Row /\ Changing \subseteq Row
ASSUME ClientsAssumption == Requesters \subseteq Accounts /\ Moderators \subseteq Accounts
ASSUME AskedAssumption == Asked \subseteq Permissions
ASSUME BoundsAssumption == MaxCalls \in Nat /\ MaxChanges \in Nat
ASSUME NoneAssumption == None \notin Accounts \cup Ids \cup Asked \cup Row \cup Request \cup Tx

-----------------------------------------------------------------------------
(* Queries *)

\* ServiceAccounts.HasPermission: the rows of the account's roles.
Held(a)      == {r.perm : r \in {x \in rows : x.sa = a}}
Owns(a, p)   == HasPermission(Held(a), OwnerOf(p))

RowOf(r) == [sa |-> r.sa, perm |-> r.perm]

\* Fault: the partial unique index and its ON CONFLICT are missing.
AnyRequests(sa, p) == {}

\* What the partial unique index permissions_requests_open_unique holds.
OpenRequests(sa, p) ==
  {id \in Ids : /\ requests[id] # None
                /\ requests[id].sa = sa /\ requests[id].perm = p
                /\ requests[id].state = "open"}

-----------------------------------------------------------------------------
(* Locks *)

At(v, op, step) == tx[v] # None /\ tx[v].op = op /\ tx[v].step = step

\* Fault: a decision reads the request FOR SHARE.
WroteOrShares(v, id) ==
  /\ tx[v] # None /\ tx[v].id = id
  /\ tx[v].op = "create" => tx[v].step = "commit"
  /\ tx[v].step # "get"

\* v has updated request id, or inserted it, and has not ended.
Wrote(v, id) ==
  /\ tx[v] # None /\ tx[v].id = id
  /\ At(v, "create", "commit") \/ At(v, "grant", "commit") \/ At(v, "deny", "commit")

\* v is inserting the index entry of an open request, or giving it up.
HasKey(v, sa, p) ==
  \/ /\ At(v, "create", "commit")
     /\ tx[v].id # None /\ tx[v].caller = sa /\ tx[v].perm = p
  \/ \E id \in OpenRequests(sa, p) : Wrote(v, id)

\* The other transaction v has written what the next statement of w meets.
WaitsFor(w, v) ==
  /\ v # w /\ tx[v] # None
  /\ \/ At(w, "create", "insert") /\ HasKey(v, tx[w].caller, tx[w].perm)
     \/ At(w, "grant", "insert") /\ tx[v].row = RowOf(requests[tx[w].id])
     \/ /\ At(w, "grant", "update") \/ At(w, "deny", "update")
        /\ Wrote(v, tx[w].id)
Free(w) == \A v \in Workers : ~ WaitsFor(w, v)

\* Transactions that wait for each other in a circle.
Circle(D) ==
  /\ D # {}
  /\ \A u \in D : \E v \in D : WaitsFor(u, v)

-----------------------------------------------------------------------------
(* Transactions: WithPGTx *)

\* The worker leaves its transaction, committed or rolled back.
End(w) == tx' = [tx EXCEPT ![w] = None]

Start(w, t) ==
  /\ tx[w] = None
  /\ calls < MaxCalls
  /\ tx' = [tx EXCEPT ![w] = t]
  /\ calls' = calls + 1
  /\ UNCHANGED <<requests, rows, changes>>

\* No more requests are made than there are Ids for.
SpareId ==
  Cardinality({w \in Workers : tx[w] # None /\ tx[w].op = "create"})
    < Cardinality({id \in Ids : requests[id] = None})

BeginCreate(w) ==
  /\ SpareId
  /\ \E sa \in Requesters, p \in Asked :
       Start(w, [op |-> "create", caller |-> sa, step |-> "check",
                 id |-> None, perm |-> p, row |-> None])

BeginDecision(w) ==
  \E m \in Moderators, id \in Ids, op \in {"grant", "deny"} :
    Start(w, [op |-> op, caller |-> m, step |-> "get",
              id |-> id, perm |-> None, row |-> None])

\* A statement or the commit fails, the client goes away or the process dies:
\* nothing of the transaction stays.
Abort(w) ==
  /\ tx[w] # None
  /\ End(w)
  /\ UNCHANGED <<requests, rows, calls, changes>>

-----------------------------------------------------------------------------
(* PermissionsRequests.Create *)

\* A requester who has the permission is refused.
CheckRequester(w) ==
  /\ At(w, "create", "check")
  /\ IF HasPermission(Held(tx[w].caller), tx[w].perm)
       THEN End(w)
       ELSE tx' = [tx EXCEPT ![w].step = "insert"]
  /\ UNCHANGED <<requests, rows, calls, changes>>

\* INSERT .. ON CONFLICT .. WHERE state = 'open' DO NOTHING RETURNING id.
InsertRequest(w) ==
  /\ At(w, "create", "insert")
  /\ Free(w)
  /\ IF OpenRequests(tx[w].caller, tx[w].perm) # {}
       THEN tx' = [tx EXCEPT ![w].step = "commit"]
       ELSE \E id \in Ids :
              /\ requests[id] = None /\ \A v \in Workers : ~ Wrote(v, id)
              /\ tx' = [tx EXCEPT ![w].step = "commit", ![w].id = id]
  /\ UNCHANGED <<requests, rows, calls, changes>>

CommitCreate(w) ==
  /\ At(w, "create", "commit")
  /\ requests' = IF tx[w].id = None THEN requests
                 ELSE [requests EXCEPT ![tx[w].id] =
                         [sa |-> tx[w].caller, perm |-> tx[w].perm,
                          state |-> "open", moderator |-> None]]
  /\ End(w)
  /\ UNCHANGED <<rows, calls, changes>>

-----------------------------------------------------------------------------
(* PermissionsRequests.Grant and Deny *)

\* A request that is missing or closed is refused.
GetRequest(w) ==
  /\ At(w, "grant", "get") \/ At(w, "deny", "get")
  /\ LET r == requests[tx[w].id]
     IN  IF r # None /\ r.state = "open"
           THEN tx' = [tx EXCEPT ![w].step = "check", ![w].perm = r.perm]
           ELSE End(w)
  /\ UNCHANGED <<requests, rows, calls, changes>>

\* Fault: a moderator who is refused leaves the transaction open.
CheckModeratorUnended(w) ==
  /\ At(w, "grant", "check") \/ At(w, "deny", "check")
  /\ IF Owns(tx[w].caller, tx[w].perm)
       THEN tx' = [tx EXCEPT ![w].step = IF tx[w].op = "grant"
                                           THEN "insert" ELSE "update"]
       ELSE UNCHANGED tx
  /\ UNCHANGED <<requests, rows, calls, changes>>

\* A moderator who does not own the permission is refused.
CheckModerator(w) ==
  /\ At(w, "grant", "check") \/ At(w, "deny", "check")
  /\ IF Owns(tx[w].caller, tx[w].perm)
       THEN tx' = [tx EXCEPT ![w].step = IF tx[w].op = "grant"
                                           THEN "insert" ELSE "update"]
       ELSE End(w)
  /\ UNCHANGED <<requests, rows, calls, changes>>

\* Fault: the insertion runs outside the transaction.
InsertPermissionNow(w) ==
  /\ At(w, "grant", "insert")
  /\ rows' = rows \cup {RowOf(requests[tx[w].id])}
  /\ tx' = [tx EXCEPT ![w].step = "update"]
  /\ UNCHANGED <<requests, calls, changes>>

\* createPermissionForServiceAccount: INSERT .. ON CONFLICT DO NOTHING.
InsertPermission(w) ==
  /\ At(w, "grant", "insert")
  /\ Free(w)
  /\ LET row == RowOf(requests[tx[w].id])
     IN  tx' = [tx EXCEPT ![w].step = "update",
                          ![w].row = IF row \in rows THEN None ELSE row]
  /\ UNCHANGED <<requests, rows, calls, changes>>

\* UPDATE permissions_requests SET state .. WHERE id = ..: the state the row
\* has by now is not asked about.
UpdateRequest(w) ==
  /\ At(w, "grant", "update") \/ At(w, "deny", "update")
  /\ Free(w)
  /\ tx' = [tx EXCEPT ![w].step = "commit"]
  /\ UNCHANGED <<requests, rows, calls, changes>>

\* Fault: the decision does not say whose it is.
DecideAnonymously(w, outcome) == requests' = [requests EXCEPT ![tx[w].id].state = outcome]

Decide(w, outcome) ==
  requests' = [requests EXCEPT ![tx[w].id].state = outcome,
                               ![tx[w].id].moderator = tx[w].caller]

\* Fault: the row the grant inserted is forgotten.
CommitRowless(w) ==
  /\ At(w, "grant", "commit")
  /\ Decide(w, "granted")
  /\ End(w)
  /\ UNCHANGED <<rows, calls, changes>>

CommitGrant(w) ==
  /\ At(w, "grant", "commit")
  /\ Decide(w, "granted")
  /\ rows' = IF tx[w].row = None THEN rows ELSE rows \cup {tx[w].row}
  /\ End(w)
  /\ UNCHANGED <<calls, changes>>

CommitDeny(w) ==
  /\ At(w, "deny", "commit")
  /\ Decide(w, "denied")
  /\ End(w)
  /\ UNCHANGED <<rows, calls, changes>>

-----------------------------------------------------------------------------
(* The other routes, each change in a transaction of its own *)

GiveRow ==
  /\ changes < MaxChanges
  /\ \E row \in Changing \ rows :
       /\ \A v \in Workers : tx[v] # None => tx[v].row # row
       /\ rows' = rows \cup {row}
  /\ changes' = changes + 1
  /\ UNCHANGED <<requests, tx, calls>>

TakeRow ==
  /\ changes < MaxChanges
  /\ \E row \in Changing \cap rows : rows' = rows \ {row}
  /\ changes' = changes + 1
  /\ UNCHANGED <<requests, tx, calls>>

-----------------------------------------------------------------------------

Desk == INSTANCE RequestDesk WITH Redecide <- TRUE

Init ==
  /\ requests = [id \in Ids |-> None]
  /\ rows = InitRows
  /\ tx = [w \in Workers |-> None]
  /\ calls = 0
  /\ changes = 0
  /\ since = [id \in Ids |-> Desk!NothingSince]

\* The next statement of a transaction.
Statement(w) ==
  \/ CheckRequester(w) \/ InsertRequest(w) \/ CommitCreate(w)
  \/ GetRequest(w) \/ CheckModerator(w) \/ InsertPermission(w)
  \/ UpdateRequest(w) \/ CommitGrant(w) \/ CommitDeny(w)

Next ==
  /\ \/ \E w \in Workers : BeginCreate(w) \/ BeginDecision(w) \/ Statement(w) \/ Abort(w)
     \/ GiveRow \/ TakeRow
  /\ Desk!Remember

Spec == Init /\ [][Next]_vars

\* The database answers every statement it can; nobody has to send requests.
FairSpec == Spec /\ \A w \in Workers : WF_vars(Statement(w) /\ Desk!Remember)

-----------------------------------------------------------------------------
(* Properties *)

\* Types; a request has a moderator exactly when it is closed, and a
\* moderation that is past its first statement is about a request that is there.
TypeOK ==
  /\ requests \in [Ids -> Request \cup {None}]
  /\ \A id \in Ids : requests[id] # None =>
       (requests[id].state = "open") = (requests[id].moderator = None)
  /\ rows \subseteq Row
  /\ tx \in [Workers -> Tx \cup {None}]
  /\ \A w \in Workers :
       tx[w] # None /\ tx[w].op # "create" =>
         /\ tx[w].id # None
         /\ tx[w].step # "get" => /\ requests[tx[w].id] # None
                                  /\ tx[w].perm = requests[tx[w].id].perm
  /\ calls \in 0..MaxCalls
  /\ changes \in 0..MaxChanges

\* At most one request of an account for a permission is open, however many
\* are sent at once and whatever is being decided meanwhile.
OneOpenRequest ==
  \A id1, id2 \in Ids :
    /\ requests[id1] # None /\ requests[id1].state = "open"
    /\ requests[id2] # None /\ requests[id2].state = "open"
    /\ RowOf(requests[id1]) = RowOf(requests[id2])
    => id1 = id2

\* A row appears, other than by the other routes, only in a step after which
\* its request is granted: a grant that fails half-way has given nothing.
GrantIsAtomic ==
  [][\A row \in rows' \ rows :
       \/ changes' # changes
       \/ \E id \in Ids : /\ requests'[id] # None
                          /\ requests'[id].state = "granted"
                          /\ RowOf(requests'[id]) = row]_vars

\* The transactions implement the desk: in particular a request is decided by
\* somebody who owned the permission after it was opened, and a grant gives
\* the permission or leaves it where it was.
DeskSpec == Desk!DeskSpec

\* However many creations and decisions meet, over the same request, the same
\* permission or both: never do they wait for each other in a circle, of any
\* length, that the database would have to break by failing one of them.
NoCircles == \A D \in SUBSET Workers : ~ Circle(D)

\* No transaction waits for ever for another, and none is left open: each
\* ends, whatever the locks it meets.
TxEnds == \A w \in Workers : tx[w] # None ~> tx[w] = None

\* "permission request is closed" (usecases/permissions_requests.go:56 and 82):
\* the decision on a request is final.
DecidedOnce ==
  [][\A id \in Ids :
       requests[id] # None /\ requests[id].state # "open"
         => requests'[id] = requests[id]]_vars
=============================================================================
