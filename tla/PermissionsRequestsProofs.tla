---------------------- MODULE PermissionsRequestsProofs ----------------------
(***************************************************************************)
(* That the transactions of the permission requests keep at most one       *)
(* request open, grant all or nothing, and implement the desk, for any     *)
(* number of accounts, requests and goroutines and any set of rows.        *)
(***************************************************************************)
EXTENDS PermissionsRequests, TLAPS

-----------------------------------------------------------------------------
(* The inductive invariant *)

\* What the history remembers covers what is true now.
SinceOK ==
  /\ since \in [Ids -> [owners : SUBSET Accounts, had : BOOLEAN]]
  /\ \A id \in Ids : /\ Desk!Now[id].owners \subseteq since[id].owners
                     /\ Desk!Now[id].had => since[id].had

\* w has inserted a request and not committed it.
Pending(w) == At(w, "create", "commit") /\ tx[w].id # None

\* A creation knows the permission asked for; the request it has inserted
\* takes an id nobody has, and none like it is open.
CreationOK(w) ==
  tx[w] # None /\ tx[w].op = "create" =>
    /\ tx[w].perm # None
    /\ tx[w].step # "commit" => tx[w].id = None
    /\ tx[w].id # None => /\ requests[tx[w].id] = None
                          /\ OpenRequests(tx[w].caller, tx[w].perm) = {}

\* A decision past its check is by somebody who owned the permission after
\* the request was opened.
ModeratorOK(w) ==
  tx[w] # None /\ tx[w].op # "create" /\ tx[w].step \in {"insert", "update", "commit"}
    => tx[w].caller \in since[tx[w].id].owners

\* Only a grant inserts a row, that of its request; one that has found the
\* row there found it after the request was opened.
RowOK(w) ==
  tx[w] # None =>
    IF tx[w].op = "grant" /\ tx[w].step \in {"update", "commit"}
      THEN \/ tx[w].row = RowOf(requests[tx[w].id])
           \/ tx[w].row = None /\ since[tx[w].id].had
      ELSE tx[w].row = None

\* Two insertions under way differ, in their ids and in what they ask for.
Distinct(v, w) ==
  v # w /\ Pending(v) /\ Pending(w) =>
    /\ tx[v].id # tx[w].id
    /\ <<tx[v].caller, tx[v].perm>> # <<tx[w].caller, tx[w].perm>>

IInv ==
  /\ TypeOK
  /\ SinceOK
  /\ \A w \in Workers : CreationOK(w) /\ ModeratorOK(w) /\ RowOK(w)
  /\ \A v, w \in Workers : Distinct(v, w)
  /\ OneOpenRequest

-----------------------------------------------------------------------------
(* Facts about the operators *)

\* The desk evaluates permissions as the transactions do.
LEMMA SameOwners ==
  ASSUME NEW a \in Accounts, NEW p PROVE Desk!Owns(a, p) <=> Owns(a, p)
<1>1. Desk!OwnerOf(p) = OwnerOf(p)
  BY DEF OwnerOf, RO, Desk!OwnerOf, Desk!RO
<1>2. \A rh : Desk!PermissionMatches(rh) = PermissionMatches(rh)
  BY DEF PermissionMatches, Prefixes, Desk!PermissionMatches, Desk!Prefixes
<1>3. \A held, asked : Desk!SqlGrants(held, asked) <=> SqlGrants(held, asked)
  BY <1>2 DEF SqlGrants, Wild, RO, Desk!SqlGrants, Desk!Wild, Desk!RO
<1>4. Desk!Held(a) = Held(a)
  BY DEF Held, Desk!Held
<1>5. QED
  BY <1>1, <1>3, <1>4 DEF Owns, HasPermission, Desk!Owns, Desk!HasPermission

LEMMA SameRequests ==
  /\ \A r : Desk!RowOf(r) = RowOf(r)
  /\ \A sa, p : Desk!OpenRequests(sa, p) = OpenRequests(sa, p)
  BY DEF RowOf, OpenRequests, Desk!RowOf, Desk!OpenRequests

\* Nothing is removed from what the history remembers, and every step of the
\* requests adds what is true after it.
LEMMA HistoryGrows ==
  ASSUME SinceOK, Desk!Remember
  PROVE  /\ SinceOK'
         /\ \A id \in Ids : /\ since[id].owners \subseteq since'[id].owners
                            /\ since[id].had => since'[id].had
<1>1. ASSUME NEW id \in Ids
      PROVE  Desk!Now[id]' \in [owners : SUBSET Accounts, had : BOOLEAN]
  BY <1>1 DEF Desk!Now, Desk!NothingSince
<1>2. QED
  BY <1>1 DEF SinceOK, Desk!Remember

-----------------------------------------------------------------------------
(* What a step has to keep *)

\* Requests are never deleted or readdressed, and a closed one stays closed.
RequestsKept ==
  \A id \in Ids : requests[id] # None =>
    /\ requests'[id] # None
    /\ requests'[id].sa = requests[id].sa
    /\ requests'[id].perm = requests[id].perm
    /\ requests'[id].state = "open" => requests[id].state = "open"

TablesOK ==
  /\ requests \in [Ids -> Request \cup {None}]
  /\ \A id \in Ids : requests[id] # None =>
       (requests[id].state = "open") = (requests[id].moderator = None)
  /\ rows \subseteq Row
  /\ calls \in 0..MaxCalls
  /\ changes \in 0..MaxChanges

\* A decision past its first statement is about a request that is there.
DecisionOK(w) ==
  tx[w] # None /\ tx[w].op # "create" =>
    /\ tx[w].id # None
    /\ tx[w].step # "get" => /\ requests[tx[w].id] # None
                             /\ tx[w].perm = requests[tx[w].id].perm

WorkerOK(w) == DecisionOK(w) /\ CreationOK(w) /\ ModeratorOK(w) /\ RowOK(w)

LEMMA IInvParts ==
  IInv <=> /\ TablesOK
           /\ SinceOK
           /\ tx \in [Workers -> Tx \cup {None}]
           /\ \A w \in Workers : WorkerOK(w)
           /\ \A v, w \in Workers : Distinct(v, w)
           /\ OneOpenRequest
  BY DEF IInv, TypeOK, TablesOK, DecisionOK, WorkerOK

LEMMA NoneIsNone ==
  /\ None \notin Accounts /\ None \notin Ids /\ None \notin Asked
  /\ None \notin Row /\ None \notin Request /\ None \notin Tx
  BY NoneAssumption

\* A worker a step does not move stays in order, provided the requests are
\* kept and nothing takes the place of what it has inserted.
LEMMA OthersKept ==
  ASSUME IInv, Desk!Remember, RequestsKept,
         NEW v \in Workers, tx'[v] = tx[v],
         Pending(v) => /\ requests'[tx[v].id] = None
                       /\ OpenRequests(tx[v].caller, tx[v].perm)' = {}
  PROVE  WorkerOK(v)'
<1>1. tx[v] # None => tx[v] \in Tx
  BY IInvParts
<1>2. WorkerOK(v)
  BY IInvParts
<1>3. \A id \in Ids : /\ since[id].owners \subseteq since'[id].owners
                      /\ since[id].had => since'[id].had
  BY HistoryGrows, IInvParts
<1>4. DecisionOK(v)'
  BY <1>1, <1>2 DEF WorkerOK, DecisionOK, RequestsKept, Tx
<1>5. CreationOK(v)'
  <2>1. tx[v] # None /\ tx[v].op = "create" /\ tx[v].id # None => Pending(v)
    BY <1>1, <1>2 DEF WorkerOK, CreationOK, Pending, At, Tx
  <2>2. QED
    BY <1>1, <1>2, <2>1 DEF WorkerOK, CreationOK, OpenRequests
<1>6. ModeratorOK(v)'
  BY <1>1, <1>2, <1>3 DEF WorkerOK, ModeratorOK, DecisionOK, Tx
<1>7. RowOK(v)'
  BY <1>1, <1>2, <1>3 DEF WorkerOK, RowOK, DecisionOK, RowOf, RequestsKept, Tx
<1>8. QED
  BY <1>4, <1>5, <1>6, <1>7 DEF WorkerOK

\* A step of worker w, which leaves t where its transaction was.
LEMMA WorkerStep ==
  ASSUME IInv, Desk!Remember, RequestsKept, TablesOK', OneOpenRequest',
         NEW w \in Workers, NEW t \in Tx \cup {None}, tx' = [tx EXCEPT ![w] = t],
         WorkerOK(w)',
         \A v \in Workers \ {w} :
           /\ Pending(v) => /\ requests'[tx[v].id] = None
                            /\ OpenRequests(tx[v].caller, tx[v].perm)' = {}
           /\ Distinct(v, w)'
  PROVE  IInv'
<1>1. tx \in [Workers -> Tx \cup {None}] /\ SinceOK
  BY IInvParts
<1>2. tx' \in [Workers -> Tx \cup {None}]
  BY <1>1
<1>3. \A v \in Workers \ {w} : tx'[v] = tx[v]
  BY <1>1
<1>4. \A v \in Workers : WorkerOK(v)'
  BY <1>3, OthersKept
<1>5. \A u, v \in Workers : Distinct(u, v)'
  <2> SUFFICES ASSUME NEW u \in Workers, NEW v \in Workers PROVE Distinct(u, v)'
    OBVIOUS
  <2>1. CASE u = w \/ v = w
    BY <2>1 DEF Distinct
  <2>2. CASE u # w /\ v # w
    <3>1. Distinct(u, v) /\ tx'[u] = tx[u] /\ tx'[v] = tx[v]
      BY <1>3, <2>2, IInvParts
    <3>2. QED
      BY <3>1 DEF Distinct, Pending, At
  <2>3. QED
    BY <2>1, <2>2
<1>6. QED
  <2>1. SinceOK'
    BY <1>1, HistoryGrows
  <2>2. QED
    BY <1>2, <1>4, <1>5, <2>1 DEF IInv, TypeOK, TablesOK, DecisionOK, WorkerOK

\* A step that leaves the requests alone and inserts none.
LEMMA QuietStep ==
  ASSUME IInv, Desk!Remember, UNCHANGED requests, TablesOK',
         NEW w \in Workers, NEW t \in Tx \cup {None}, tx' = [tx EXCEPT ![w] = t],
         WorkerOK(w)', ~ Pending(w)'
  PROVE  IInv'
<1>1. RequestsKept /\ OneOpenRequest'
  BY DEF IInv, RequestsKept, OneOpenRequest, RowOf
<1>2. ASSUME NEW v \in Workers \ {w}, Pending(v)
      PROVE  requests'[tx[v].id] = None /\ OpenRequests(tx[v].caller, tx[v].perm)' = {}
  <2>1. requests[tx[v].id] = None /\ OpenRequests(tx[v].caller, tx[v].perm) = {}
    BY <1>2 DEF IInv, CreationOK, Pending, At
  <2>2. tx'[v] = tx[v]
    BY IInvParts
  <2>3. QED
    BY <2>1, <2>2 DEF OpenRequests
<1>3. \A v \in Workers : Distinct(v, w)'
  BY DEF Distinct
<1>4. QED
  BY <1>1, <1>2, <1>3, WorkerStep

LEMMA QuietEnd ==
  ASSUME IInv, Desk!Remember, UNCHANGED requests, TablesOK', NEW w \in Workers, End(w)
  PROVE  IInv'
<1>1. tx'[w] = None /\ tx' = [tx EXCEPT ![w] = None]
  BY IInvParts DEF End
<1>2. WorkerOK(w)' /\ ~ Pending(w)'
  BY <1>1 DEF WorkerOK, DecisionOK, CreationOK, ModeratorOK, RowOK, Pending, At
<1>3. QED
  BY <1>1, <1>2, QuietStep

-----------------------------------------------------------------------------
(* Every step keeps the invariant *)

LEMMA XBeginCreate ==
  ASSUME IInv, Desk!Remember, NEW w \in Workers, BeginCreate(w)
  PROVE  IInv'
<1>1. PICK sa \in Requesters, p \in Asked :
        Start(w, [op |-> "create", caller |-> sa, step |-> "check",
                  id |-> None, perm |-> p, row |-> None])
  BY DEF BeginCreate
<1> DEFINE t == [op |-> "create", caller |-> sa, step |-> "check",
                 id |-> None, perm |-> p, row |-> None]
<1>2. t \in Tx /\ t # None
  BY ClientsAssumption, NoneIsNone DEF Tx
<1>3. tx' = [tx EXCEPT ![w] = t] /\ tx'[w] = t /\ UNCHANGED requests
  BY <1>1, IInvParts DEF Start
<1>4. TablesOK'
  BY <1>1, BoundsAssumption, IInvParts DEF Start, TablesOK
<1>5. WorkerOK(w)' /\ ~ Pending(w)'
  BY <1>2, <1>3, NoneIsNone
     DEF WorkerOK, DecisionOK, CreationOK, ModeratorOK, RowOK, Pending, At
<1>6. QED
  BY <1>2, <1>3, <1>4, <1>5, QuietStep

LEMMA XBeginDecision ==
  ASSUME IInv, Desk!Remember, NEW w \in Workers, BeginDecision(w)
  PROVE  IInv'
<1>1. PICK m \in Moderators, id \in Ids, op \in {"grant", "deny"} :
        Start(w, [op |-> op, caller |-> m, step |-> "get",
                  id |-> id, perm |-> None, row |-> None])
  BY DEF BeginDecision
<1> DEFINE t == [op |-> op, caller |-> m, step |-> "get",
                 id |-> id, perm |-> None, row |-> None]
<1>2. t \in Tx /\ t # None
  BY ClientsAssumption, NoneIsNone DEF Tx
<1>3. tx' = [tx EXCEPT ![w] = t] /\ tx'[w] = t /\ UNCHANGED requests
  BY <1>1, IInvParts DEF Start
<1>4. TablesOK'
  BY <1>1, BoundsAssumption, IInvParts DEF Start, TablesOK
<1>5. WorkerOK(w)' /\ ~ Pending(w)'
  BY <1>2, <1>3, NoneIsNone
     DEF WorkerOK, DecisionOK, CreationOK, ModeratorOK, RowOK, Pending, At
<1>6. QED
  BY <1>2, <1>3, <1>4, <1>5, QuietStep

LEMMA XAbort ==
  ASSUME IInv, Desk!Remember, NEW w \in Workers, Abort(w)
  PROVE  IInv'
<1>1. TablesOK' /\ UNCHANGED requests /\ End(w)
  BY IInvParts DEF Abort, TablesOK
<1>2. QED
  BY <1>1, QuietEnd

LEMMA XCheckRequester ==
  ASSUME IInv, Desk!Remember, NEW w \in Workers, CheckRequester(w)
  PROVE  IInv'
<1>1. TablesOK' /\ UNCHANGED requests
  BY IInvParts DEF CheckRequester, TablesOK
<1>2. CASE End(w)
  BY <1>1, <1>2, QuietEnd
<1>3. CASE tx' = [tx EXCEPT ![w].step = "insert"]
  <2> DEFINE t == [tx[w] EXCEPT !.step = "insert"]
  <2>1. tx[w] \in Tx /\ tx[w].op = "create" /\ tx[w].step = "check"
    BY IInvParts DEF CheckRequester, At
  <2>2. t \in Tx /\ tx' = [tx EXCEPT ![w] = t] /\ tx'[w] = t
    BY <1>3, <2>1, IInvParts DEF Tx
  <2>3. WorkerOK(w) /\ ~ Pending(w)' /\ t.op = "create" /\ t.step = "insert"
        /\ t.id = tx[w].id /\ t.perm = tx[w].perm /\ t.row = tx[w].row /\ t # None
    BY <2>1, <2>2, NoneIsNone, IInvParts DEF Pending, At, Tx
  <2>4. WorkerOK(w)'
    BY <2>1, <2>2, <2>3, NoneIsNone
       DEF WorkerOK, DecisionOK, CreationOK, ModeratorOK, RowOK
  <2>5. QED
    BY <1>1, <2>2, <2>3, <2>4, QuietStep
<1>4. QED
  BY <1>2, <1>3 DEF CheckRequester

LEMMA XInsertRequest ==
  ASSUME IInv, Desk!Remember, NEW w \in Workers, InsertRequest(w)
  PROVE  IInv'
<1>1. TablesOK' /\ UNCHANGED requests
  BY IInvParts DEF InsertRequest, TablesOK
<1>2. /\ tx[w] \in Tx /\ tx[w].op = "create" /\ tx[w].step = "insert"
      /\ tx[w].id = None /\ tx[w].perm # None /\ tx[w].row = None
  BY IInvParts DEF InsertRequest, At, WorkerOK, CreationOK, RowOK
<1>3. CASE tx' = [tx EXCEPT ![w].step = "commit"]
  <2> DEFINE t == [tx[w] EXCEPT !.step = "commit"]
  <2>1. t \in Tx /\ tx' = [tx EXCEPT ![w] = t] /\ tx'[w] = t /\ t # None
    BY <1>2, <1>3, NoneIsNone, IInvParts DEF Tx
  <2>2. WorkerOK(w)' /\ ~ Pending(w)'
    BY <1>2, <2>1 DEF WorkerOK, DecisionOK, CreationOK, ModeratorOK, RowOK, Pending, At
  <2>3. QED
    BY <1>1, <2>1, <2>2, QuietStep
<1>4. ASSUME OpenRequests(tx[w].caller, tx[w].perm) = {},
             NEW id \in Ids, requests[id] = None, \A v \in Workers : ~ Wrote(v, id),
             tx' = [tx EXCEPT ![w].step = "commit", ![w].id = id]
      PROVE  IInv'
  <2> DEFINE t == [tx[w] EXCEPT !.step = "commit", !.id = id]
  <2>1. t \in Tx /\ tx' = [tx EXCEPT ![w] = t] /\ tx'[w] = t /\ t # None /\ id # None
    BY <1>2, <1>4, NoneIsNone, IInvParts DEF Tx
  <2>2. /\ t.op = "create" /\ t.step = "commit" /\ t.id = id
        /\ t.caller = tx[w].caller /\ t.perm = tx[w].perm /\ t.row = None
    BY <1>2 DEF Tx
  <2>3. OpenRequests(tx[w].caller, tx[w].perm)' = {}
    <3>1. tx'[w].caller = tx[w].caller /\ tx'[w].perm = tx[w].perm
      BY <2>1, <2>2
    <3>2. QED
      BY <1>1, <1>4, <3>1 DEF OpenRequests
  <2>4. WorkerOK(w)'
    <3>1. CreationOK(w)'
      <4>1. requests'[id] = None /\ tx[w].perm # None
        BY <1>1, <1>2, <1>4
      <4> HIDE DEF t
      <4>2. tx'[w].id = id /\ tx'[w].perm # None /\ tx'[w].step = "commit"
        BY <2>1, <2>2, <4>1
      <4>3. QED
        BY <2>3, <4>1, <4>2 DEF CreationOK
    <3>2. DecisionOK(w)' /\ ModeratorOK(w)' /\ RowOK(w)'
      BY <2>1, <2>2 DEF DecisionOK, ModeratorOK, RowOK
    <3>3. QED
      BY <3>1, <3>2 DEF WorkerOK
  <2>5. ASSUME NEW v \in Workers \ {w}
        PROVE  /\ Pending(v) => /\ requests'[tx[v].id] = None
                                /\ OpenRequests(tx[v].caller, tx[v].perm)' = {}
               /\ Distinct(v, w)'
    <3>1. tx'[v] = tx[v]
      BY <2>1, IInvParts
    <3>2. Pending(v) => requests'[tx[v].id] = None /\ OpenRequests(tx[v].caller, tx[v].perm)' = {}
      <4>1. Pending(v) => requests[tx[v].id] = None /\ OpenRequests(tx[v].caller, tx[v].perm) = {}
        BY DEF IInv, CreationOK, Pending, At
      <4>2. QED
        BY <1>1, <3>1, <4>1 DEF OpenRequests
    <3>3. ASSUME Pending(v)
          PROVE  tx[v].id # id /\ <<tx[v].caller, tx[v].perm>> # <<t.caller, t.perm>>
      <4>1. tx[v].id # id
        BY <1>4, <3>3 DEF Wrote, Pending, At
      <4>2. ~ (tx[v].caller = tx[w].caller /\ tx[v].perm = tx[w].perm)
        BY <3>3 DEF InsertRequest, Free, WaitsFor, HasKey, Pending, At
      <4>3. QED
        BY <2>2, <4>1, <4>2
    <3>4. Distinct(v, w)'
      <4>1. Pending(v)' <=> Pending(v)
        BY <3>1 DEF Pending, At
      <4>2. tx'[w].id = id /\ tx'[w].caller = t.caller /\ tx'[w].perm = t.perm
        BY <2>1, <2>2
      <4>3. QED
        BY <3>1, <3>3, <4>1, <4>2 DEF Distinct
    <3>5. QED
      BY <3>2, <3>4
  <2>6. RequestsKept /\ OneOpenRequest'
    BY <1>1 DEF IInv, RequestsKept, OneOpenRequest, RowOf
  <2>7. QED
    BY <1>1, <2>1, <2>4, <2>5, <2>6, WorkerStep
<1>5. QED
  BY <1>3, <1>4 DEF InsertRequest

\* The commit shows the others what was inserted: no request like it is open,
\* and no other insertion under way is for the same.
LEMMA XCommitCreate ==
  ASSUME IInv, Desk!Remember, NEW w \in Workers, CommitCreate(w)
  PROVE  IInv'
<1>1. /\ tx[w] \in Tx /\ tx[w].op = "create" /\ tx[w].step = "commit"
      /\ tx[w].perm \in Asked /\ End(w)
      /\ UNCHANGED <<rows, calls, changes>>
  BY IInvParts DEF CommitCreate, At, WorkerOK, CreationOK, Tx
<1>2. CASE tx[w].id = None
  <2>1. UNCHANGED requests
    BY <1>2 DEF CommitCreate
  <2>2. TablesOK'
    BY <1>1, <2>1, IInvParts DEF TablesOK
  <2>3. QED
    BY <1>1, <2>1, <2>2, QuietEnd
<1>3. CASE tx[w].id # None
  <2> DEFINE id == tx[w].id
             r  == [sa |-> tx[w].caller, perm |-> tx[w].perm,
                    state |-> "open", moderator |-> None]
  <2>1. /\ id \in Ids /\ Pending(w) /\ requests[id] = None
        /\ OpenRequests(r.sa, r.perm) = {}
    <3>1. CreationOK(w)
      BY DEF IInv
    <3>2. id \in Ids /\ Pending(w)
      BY <1>1, <1>3 DEF Pending, At, Tx, CommitCreate
    <3>3. QED
      BY <1>1, <1>3, <3>1, <3>2 DEF CreationOK, Pending, At
  <2>2. requests' = [requests EXCEPT ![id] = r] /\ r \in Request /\ r # None
    BY <1>1, <1>3, NoneIsNone DEF CommitCreate, Request, Tx
  <2>3. /\ requests \in [Ids -> Request \cup {None}] /\ requests'[id] = r
        /\ \A i \in Ids \ {id} : requests'[i] = requests[i]
    BY <2>1, <2>2, IInvParts DEF TablesOK
  <2>4. TablesOK'
    BY <1>1, <2>1, <2>2, <2>3, IInvParts DEF TablesOK
  <2>5. RequestsKept
    BY <2>1, <2>3 DEF RequestsKept
  <2>6. OneOpenRequest'
    <3> SUFFICES ASSUME NEW i \in Ids, NEW j \in Ids,
                        requests'[i] # None, requests'[i].state = "open",
                        requests'[j] # None, requests'[j].state = "open",
                        RowOf(requests'[i]) = RowOf(requests'[j])
                 PROVE  i = j
      BY DEF OneOpenRequest
    <3>1. requests'[i].sa = requests'[j].sa /\ requests'[i].perm = requests'[j].perm
      BY DEF RowOf
    <3>2. CASE i # id /\ j # id
      BY <2>3, <3>2 DEF IInv, OneOpenRequest
    <3>3. CASE i = id /\ j # id
      BY <2>1, <2>3, <3>1, <3>3 DEF OpenRequests
    <3>4. CASE i # id /\ j = id
      BY <2>1, <2>3, <3>1, <3>4 DEF OpenRequests
    <3>5. QED
      BY <3>2, <3>3, <3>4
  <2>7. tx' = [tx EXCEPT ![w] = None] /\ tx'[w] = None
    BY <1>1, IInvParts DEF End
  <2>8. WorkerOK(w)' /\ ~ Pending(w)'
    BY <2>7 DEF WorkerOK, DecisionOK, CreationOK, ModeratorOK, RowOK, Pending, At
  <2>9. ASSUME NEW v \in Workers \ {w}
        PROVE  /\ Pending(v) => /\ requests'[tx[v].id] = None
                                /\ OpenRequests(tx[v].caller, tx[v].perm)' = {}
               /\ Distinct(v, w)'
    <3>1. ASSUME Pending(v)
          PROVE  /\ requests'[tx[v].id] = None
                 /\ OpenRequests(tx[v].caller, tx[v].perm)' = {}
      <4>1. tx'[v] = tx[v] /\ tx[v].id \in Ids
        BY <2>7, <3>1, IInvParts DEF Pending, At, Tx
      <4>2. /\ tx[v].id # id
            /\ ~ (tx[v].caller = r.sa /\ tx[v].perm = r.perm)
        BY <2>1, <3>1 DEF IInv, Distinct
      <4>3. requests[tx[v].id] = None /\ OpenRequests(tx[v].caller, tx[v].perm) = {}
        BY <3>1 DEF IInv, CreationOK, Pending, At
      <4>4. QED
        BY <2>3, <4>1, <4>2, <4>3 DEF OpenRequests
    <3>2. QED
      BY <2>8, <3>1 DEF Distinct
  <2>10. QED
    BY <2>4, <2>5, <2>6, <2>7, <2>8, <2>9, WorkerStep
<1>4. QED
  BY <1>2, <1>3

LEMMA XGetRequest ==
  ASSUME IInv, Desk!Remember, NEW w \in Workers, GetRequest(w)
  PROVE  IInv'
<1>1. TablesOK' /\ UNCHANGED requests
  BY IInvParts DEF GetRequest, TablesOK
<1>2. /\ tx[w] \in Tx /\ tx[w].op \in {"grant", "deny"} /\ tx[w].step = "get"
      /\ tx[w].id \in Ids /\ tx[w].row = None
  BY IInvParts DEF GetRequest, At, WorkerOK, DecisionOK, RowOK, Tx
<1>3. CASE End(w)
  BY <1>1, <1>3, QuietEnd
<1>4. ASSUME requests[tx[w].id] # None,
             tx' = [tx EXCEPT ![w].step = "check", ![w].perm = requests[tx[w].id].perm]
      PROVE  IInv'
  <2> DEFINE t == [tx[w] EXCEPT !.step = "check", !.perm = requests[tx[w].id].perm]
  <2>1. requests[tx[w].id] \in Request
    BY <1>2, <1>4, IInvParts DEF TablesOK
  <2>2. t \in Tx /\ tx' = [tx EXCEPT ![w] = t] /\ tx'[w] = t /\ t # None
    <3>1. t \in Tx
      BY <1>2, <2>1 DEF Tx, Request
    <3>2. tx' = [tx EXCEPT ![w] = t]
      BY <1>4, IInvParts
    <3>3. QED
      BY <3>1, <3>2, NoneIsNone, IInvParts
  <2>3. /\ t.op = tx[w].op /\ t.step = "check" /\ t.id = tx[w].id /\ t.row = None
        /\ t.perm = requests[tx[w].id].perm
    BY <1>2 DEF Tx
  <2>4. WorkerOK(w)' /\ ~ Pending(w)'
    <3>1. DecisionOK(w)'
      <4>1. requests'[tx[w].id] # None /\ tx[w].id # None
              /\ requests'[tx[w].id] = requests[tx[w].id]
        BY <1>1, <1>2, <1>4, NoneIsNone
      <4> HIDE DEF t
      <4>2. tx'[w].id = tx[w].id /\ tx'[w].perm = requests[tx[w].id].perm
        BY <2>2, <2>3
      <4>3. QED
        BY <4>1, <4>2 DEF DecisionOK
    <3>2. CreationOK(w)' /\ ModeratorOK(w)' /\ RowOK(w)' /\ ~ Pending(w)'
      BY <1>2, <2>2, <2>3 DEF CreationOK, ModeratorOK, RowOK, Pending, At
    <3>3. QED
      BY <3>1, <3>2 DEF WorkerOK
  <2>5. QED
    BY <1>1, <2>2, <2>4, QuietStep
<1>5. QED
  BY <1>3, <1>4 DEF GetRequest

\* What a decision past its first statement knows of its request.
LEMMA DecisionKnows ==
  ASSUME IInv, NEW w \in Workers, NEW step \in {"check", "insert", "update", "commit"},
         At(w, "grant", step) \/ At(w, "deny", step)
  PROVE  /\ tx[w] \in Tx /\ tx[w] # None
         /\ tx[w].op \in {"grant", "deny"} /\ tx[w].step = step
         /\ tx[w].id \in Ids /\ tx[w].id # None
         /\ requests[tx[w].id] \in Request /\ requests[tx[w].id] # None
         /\ tx[w].perm = requests[tx[w].id].perm
         /\ DecisionOK(w) /\ ModeratorOK(w) /\ RowOK(w)
<1>1. /\ tx[w] \in Tx /\ tx[w] # None
      /\ tx[w].op \in {"grant", "deny"} /\ tx[w].step = step
      /\ DecisionOK(w) /\ ModeratorOK(w) /\ RowOK(w)
  BY IInvParts DEF At, WorkerOK
<1>2. tx[w].id \in Ids /\ tx[w].id # None
  BY <1>1 DEF DecisionOK, Tx
<1>3. requests[tx[w].id] # None /\ tx[w].perm = requests[tx[w].id].perm
  BY <1>1 DEF DecisionOK
<1>4. requests[tx[w].id] \in Request
  BY <1>2, <1>3, IInvParts DEF TablesOK
<1>5. QED
  BY <1>1, <1>2, <1>3, <1>4

\* The check: who owns the permission now owns it since the request was opened.
LEMMA XCheckModerator ==
  ASSUME IInv, Desk!Remember, NEW w \in Workers, CheckModerator(w)
  PROVE  IInv'
<1>1. TablesOK' /\ UNCHANGED requests
  BY IInvParts DEF CheckModerator, TablesOK
<1>2. At(w, "grant", "check") \/ At(w, "deny", "check")
  BY DEF CheckModerator
<1>3. CASE End(w)
  BY <1>1, <1>3, QuietEnd
<1>4. ASSUME Owns(tx[w].caller, tx[w].perm),
             tx' = [tx EXCEPT ![w].step = IF tx[w].op = "grant" THEN "insert" ELSE "update"]
      PROVE  IInv'
  <2> DEFINE s == IF tx[w].op = "grant" THEN "insert" ELSE "update"
             t == [tx[w] EXCEPT !.step = s]
             r == requests[tx[w].id]
  <2>1. /\ tx[w] \in Tx /\ tx[w].op \in {"grant", "deny"} /\ tx[w].step = "check"
        /\ tx[w].id \in Ids /\ tx[w].id # None /\ r # None /\ tx[w].perm = r.perm
        /\ tx[w].row = None
    BY <1>2, DecisionKnows DEF RowOK
  <2>2. t \in Tx /\ tx' = [tx EXCEPT ![w] = t] /\ tx'[w] = t /\ t # None
    BY <1>4, <2>1, NoneIsNone, IInvParts DEF Tx
  <2>3. /\ t.op = tx[w].op /\ t.step = s /\ t.id = tx[w].id /\ t.row = tx[w].row
        /\ t.perm = tx[w].perm /\ t.caller = tx[w].caller
    BY <2>1 DEF Tx
  <2>4. tx[w].caller \in since'[tx[w].id].owners
    <3>1. tx[w].caller \in Accounts /\ Desk!Owns(tx[w].caller, r.perm)
      BY <1>4, <2>1, SameOwners DEF Tx
    <3>2. tx[w].caller \in Desk!Now[tx[w].id].owners
      BY <2>1, <3>1 DEF Desk!Now
    <3>3. QED
      BY <2>1, <3>2, HistoryGrows, IInvParts DEF SinceOK
  <2>5. WorkerOK(w)' /\ ~ Pending(w)'
    <3>1. DecisionOK(w)' /\ CreationOK(w)' /\ ~ Pending(w)'
      BY <1>1, <2>1, <2>2, <2>3 DEF DecisionOK, CreationOK, Pending, At
    <3>2. ModeratorOK(w)' /\ RowOK(w)'
      BY <2>1, <2>2, <2>3, <2>4 DEF ModeratorOK, RowOK
    <3>3. QED
      BY <3>1, <3>2 DEF WorkerOK
  <2>6. QED
    BY <1>1, <2>2, <2>5, QuietStep
<1>5. QED
  BY <1>3, <1>4 DEF CheckModerator

\* A grant that finds the row there leaves it: then the requester had the row
\* after it asked.
LEMMA XInsertPermission ==
  ASSUME IInv, Desk!Remember, NEW w \in Workers, InsertPermission(w)
  PROVE  IInv'
<1> DEFINE r   == requests[tx[w].id]
           row == RowOf(r)
           new == IF row \in rows THEN None ELSE row
           t   == [tx[w] EXCEPT !.step = "update", !.row = new]
<1>1. TablesOK' /\ UNCHANGED requests
  BY IInvParts DEF InsertPermission, TablesOK
<1>2. /\ tx[w] \in Tx /\ tx[w].op = "grant" /\ tx[w].step = "insert"
      /\ tx[w].id \in Ids /\ tx[w].id # None /\ r \in Request /\ r # None
      /\ tx[w].perm = r.perm /\ tx[w] # None /\ ModeratorOK(w)
  BY DecisionKnows DEF InsertPermission, At
<1>3. row \in Row
  BY <1>2, AskedAssumption DEF RowOf, Row, Request
<1>4. t \in Tx /\ tx' = [tx EXCEPT ![w] = t] /\ tx'[w] = t /\ t # None
  <2>1. new \in Row \cup {None}
    BY <1>3
  <2>2. t \in Tx /\ t # None
    <3> HIDE DEF new
    <3>1. t \in Tx
      BY <1>2, <2>1 DEF Tx
    <3>2. QED
      BY <3>1, NoneIsNone
  <2>3. tx' = [tx EXCEPT ![w].step = "update", ![w].row = new]
    BY DEF InsertPermission
  <2> HIDE DEF new
  <2>4. tx' = [tx EXCEPT ![w] = t]
    BY <2>3, IInvParts
  <2> HIDE DEF t
  <2>5. QED
    BY <2>2, <2>4, IInvParts
<1>5. /\ t.op = "grant" /\ t.step = "update" /\ t.id = tx[w].id /\ t.row = new
      /\ t.perm = tx[w].perm /\ t.caller = tx[w].caller
  BY <1>2 DEF Tx
<1>6. row \in rows => since'[tx[w].id].had
  <2>1. row \in rows => Desk!Now[tx[w].id].had
    BY <1>2, SameRequests DEF Desk!Now
  <2>2. QED
    BY <1>2, <2>1, HistoryGrows, IInvParts DEF SinceOK
<1>7. tx[w].caller \in since'[tx[w].id].owners
  BY <1>2, HistoryGrows, IInvParts DEF ModeratorOK
<1>8. WorkerOK(w)' /\ ~ Pending(w)'
  <2>1. RowOK(w)'
    BY <1>1, <1>4, <1>5, <1>6 DEF RowOK, RowOf
  <2>2. QED
    BY <1>1, <1>2, <1>4, <1>5, <1>7, <2>1
       DEF WorkerOK, DecisionOK, CreationOK, ModeratorOK, Pending, At
<1>9. QED
  BY <1>1, <1>4, <1>8, QuietStep

LEMMA XUpdateRequest ==
  ASSUME IInv, Desk!Remember, NEW w \in Workers, UpdateRequest(w)
  PROVE  IInv'
<1> DEFINE t == [tx[w] EXCEPT !.step = "commit"]
<1>1. TablesOK' /\ UNCHANGED requests
  BY IInvParts DEF UpdateRequest, TablesOK
<1>2. /\ tx[w] \in Tx /\ tx[w].op \in {"grant", "deny"} /\ tx[w].step = "update"
      /\ tx[w].id \in Ids /\ tx[w].id # None /\ requests[tx[w].id] # None
      /\ tx[w].perm = requests[tx[w].id].perm /\ tx[w] # None
      /\ ModeratorOK(w) /\ RowOK(w)
  BY DecisionKnows DEF UpdateRequest
<1>3. t \in Tx /\ tx' = [tx EXCEPT ![w] = t] /\ tx'[w] = t /\ t # None
  BY <1>2, NoneIsNone, IInvParts DEF UpdateRequest, Tx
<1>4. /\ t.op = tx[w].op /\ t.step = "commit" /\ t.id = tx[w].id /\ t.row = tx[w].row
      /\ t.perm = tx[w].perm /\ t.caller = tx[w].caller
  BY <1>2 DEF Tx
<1>5. /\ tx[w].caller \in since'[tx[w].id].owners
      /\ since[tx[w].id].had => since'[tx[w].id].had
  BY <1>2, HistoryGrows, IInvParts DEF ModeratorOK
<1>6. RowOK(w)'
  BY <1>1, <1>2, <1>3, <1>4, <1>5 DEF RowOK, RowOf
<1>7. WorkerOK(w)' /\ ~ Pending(w)'
  BY <1>1, <1>2, <1>3, <1>4, <1>5, <1>6
     DEF WorkerOK, DecisionOK, CreationOK, ModeratorOK, Pending, At
<1>8. QED
  BY <1>1, <1>3, <1>7, QuietStep

\* A decision closes its request and leaves every other as it was.
LEMMA XDecide ==
  ASSUME IInv, Desk!Remember, NEW w \in Workers, NEW outcome \in {"granted", "denied"},
         At(w, "grant", "commit") \/ At(w, "deny", "commit"),
         Decide(w, outcome), End(w), rows' \subseteq Row, UNCHANGED <<calls, changes>>
  PROVE  IInv'
<1> DEFINE id == tx[w].id
           r  == [requests[id] EXCEPT !.state = outcome, !.moderator = tx[w].caller]
<1>1. /\ tx[w] \in Tx /\ tx[w].caller \in Accounts /\ id \in Ids
      /\ requests[id] \in Request /\ requests[id] # None
  BY DecisionKnows DEF Tx
<1>2. /\ requests \in [Ids -> Request \cup {None}]
      /\ r \in Request /\ r # None /\ requests' = [requests EXCEPT ![id] = r]
      /\ r.sa = requests[id].sa /\ r.perm = requests[id].perm
      /\ r.state = outcome /\ r.moderator = tx[w].caller
  <2>1. requests \in [Ids -> Request \cup {None}]
    BY IInvParts DEF TablesOK
  <2>2. r \in Request /\ r # None
    BY <1>1, NoneIsNone DEF Request
  <2>3. requests' = [requests EXCEPT ![id] = r]
    BY <1>1, <2>1 DEF Decide
  <2>4. QED
    BY <1>1, <2>1, <2>2, <2>3 DEF Request
<1>3. requests'[id] = r /\ \A i \in Ids \ {id} : requests'[i] = requests[i]
  BY <1>1, <1>2
<1>4. TablesOK'
  BY <1>1, <1>2, <1>3, NoneIsNone, IInvParts DEF TablesOK
<1>5. RequestsKept
  BY <1>1, <1>2, <1>3 DEF RequestsKept
<1>6. OneOpenRequest'
  BY <1>1, <1>2, <1>3 DEF IInv, OneOpenRequest, RowOf
<1>7. tx' = [tx EXCEPT ![w] = None] /\ tx'[w] = None
  BY IInvParts DEF End
<1>8. WorkerOK(w)' /\ ~ Pending(w)'
  BY <1>7 DEF WorkerOK, DecisionOK, CreationOK, ModeratorOK, RowOK, Pending, At
<1>9. ASSUME NEW v \in Workers \ {w}
      PROVE  /\ Pending(v) => /\ requests'[tx[v].id] = None
                              /\ OpenRequests(tx[v].caller, tx[v].perm)' = {}
             /\ Distinct(v, w)'
  <2>1. ASSUME Pending(v)
        PROVE  requests'[tx[v].id] = None /\ OpenRequests(tx[v].caller, tx[v].perm)' = {}
    <3>1. tx'[v] = tx[v] /\ tx[v].id \in Ids
      BY <1>7, <2>1, IInvParts DEF Pending, At, Tx
    <3>2. requests[tx[v].id] = None /\ OpenRequests(tx[v].caller, tx[v].perm) = {}
      BY <2>1 DEF IInv, CreationOK, Pending, At
    <3>3. requests'[tx[v].id] = None
      BY <1>1, <1>3, <3>1, <3>2
    <3>4. \A i \in Ids : requests'[i] # None /\ requests'[i].state = "open"
                           => requests'[i] = requests[i]
      BY <1>2, <1>3
    <3>5. QED
      BY <3>1, <3>2, <3>3, <3>4 DEF OpenRequests
  <2>2. QED
    BY <1>8, <2>1 DEF Distinct
<1>10. QED
  BY <1>4, <1>5, <1>6, <1>7, <1>8, <1>9, WorkerStep

\* The row a grant commits is its request's; a grant without one found it.
LEMMA GrantedRow ==
  ASSUME IInv, NEW w \in Workers, At(w, "grant", "commit")
  PROVE  /\ RowOf(requests[tx[w].id]) \in Row
         /\ \/ tx[w].row = RowOf(requests[tx[w].id]) /\ tx[w].row # None
            \/ tx[w].row = None /\ since[tx[w].id].had
<1>1. requests[tx[w].id] \in Request /\ RowOK(w)
  BY DecisionKnows
<1>2. RowOf(requests[tx[w].id]) \in Row
  BY <1>1, AskedAssumption DEF RowOf, Row, Request
<1>3. QED
  BY <1>1, <1>2, NoneIsNone DEF RowOK, At

LEMMA XCommitGrant ==
  ASSUME IInv, Desk!Remember, NEW w \in Workers, CommitGrant(w)
  PROVE  IInv'
<1>1. rows' \subseteq Row
  BY GrantedRow, IInvParts DEF CommitGrant, TablesOK
<1>2. QED
  BY <1>1, XDecide DEF CommitGrant

LEMMA XCommitDeny ==
  ASSUME IInv, Desk!Remember, NEW w \in Workers, CommitDeny(w)
  PROVE  IInv'
<1>1. rows' \subseteq Row
  BY IInvParts DEF CommitDeny, TablesOK
<1>2. QED
  BY <1>1, XDecide DEF CommitDeny

\* The other routes touch no request and no transaction.
LEMMA Elsewhere ==
  ASSUME IInv, Desk!Remember, GiveRow \/ TakeRow
  PROVE  IInv'
<1>1. UNCHANGED <<requests, tx>>
  BY DEF GiveRow, TakeRow
<1>2. TablesOK'
  BY InitRowsAssumption, BoundsAssumption, IInvParts DEF GiveRow, TakeRow, TablesOK
<1>3. RequestsKept /\ OneOpenRequest'
  BY <1>1 DEF IInv, RequestsKept, OneOpenRequest, RowOf
<1>4. ASSUME NEW v \in Workers PROVE WorkerOK(v)'
  <2>1. Pending(v) => requests[tx[v].id] = None /\ OpenRequests(tx[v].caller, tx[v].perm) = {}
    BY DEF IInv, CreationOK, Pending, At
  <2>2. QED
    BY <1>1, <1>3, <2>1, OthersKept DEF OpenRequests
<1>5. \A v, w \in Workers : Distinct(v, w)'
  BY <1>1 DEF IInv, Distinct, Pending, At
<1>6. SinceOK'
  BY HistoryGrows, IInvParts
<1>7. QED
  BY <1>1, <1>2, <1>3, <1>4, <1>5, <1>6
     DEF IInv, TypeOK, TablesOK, DecisionOK, WorkerOK

-----------------------------------------------------------------------------
(* The theorems *)

LEMMA InitIInv == Init => IInv
<1> SUFFICES ASSUME Init PROVE IInv
  OBVIOUS
<1>1. TypeOK /\ OneOpenRequest
  BY InitRowsAssumption, BoundsAssumption DEF Init, TypeOK, OneOpenRequest
<1>2. SinceOK
  BY DEF Init, SinceOK, Desk!Now, Desk!NothingSince
<1>3. \A w \in Workers : CreationOK(w) /\ ModeratorOK(w) /\ RowOK(w)
  BY DEF Init, CreationOK, ModeratorOK, RowOK
<1>4. \A v, w \in Workers : Distinct(v, w)
  BY DEF Init, Distinct, Pending, At
<1>5. QED
  BY <1>1, <1>2, <1>3, <1>4 DEF IInv

LEMMA NextIInv == IInv /\ [Next]_vars => IInv'
<1> SUFFICES ASSUME IInv, [Next]_vars PROVE IInv'
  OBVIOUS
<1>1. CASE UNCHANGED vars
  <2>1. TypeOK' /\ OneOpenRequest'
    BY <1>1 DEF vars, IInv, TypeOK, OneOpenRequest, RowOf
  <2>2. Desk!Now' = Desk!Now
    BY <1>1 DEF vars, Desk!Now, Desk!Owns, Desk!Held
  <2>3. SinceOK'
    BY <1>1, <2>2 DEF vars, IInv, SinceOK
  <2>4. \A w \in Workers : (CreationOK(w) /\ ModeratorOK(w) /\ RowOK(w))'
    BY <1>1 DEF vars, IInv, CreationOK, ModeratorOK, RowOK, OpenRequests, RowOf
  <2>5. \A v, w \in Workers : Distinct(v, w)'
    BY <1>1 DEF vars, IInv, Distinct, Pending, At
  <2>6. QED
    BY <2>1, <2>3, <2>4, <2>5 DEF IInv
<1>2. CASE Next
  <2>1. Desk!Remember
    BY <1>2 DEF Next
  <2>2. CASE GiveRow \/ TakeRow
    BY <2>1, <2>2, Elsewhere
  <2>3. ASSUME NEW w \in Workers,
               BeginCreate(w) \/ BeginDecision(w) \/ Statement(w) \/ Abort(w)
        PROVE  IInv'
    BY <2>1, <2>3, XBeginCreate, XBeginDecision, XAbort, XCheckRequester, XInsertRequest,
       XCommitCreate, XGetRequest, XCheckModerator, XInsertPermission, XUpdateRequest,
       XCommitGrant, XCommitDeny
       DEF Statement
  <2>4. QED
    BY <1>2, <2>2, <2>3 DEF Next
<1>3. QED
  BY <1>1, <1>2

LEMMA Invariance == Spec => []IInv
  BY InitIInv, NextIInv, PTL DEF Spec

\* Types: in particular a moderation past its first statement is about a
\* request that is still there and asks for what it asked for
\* (usecases/permissions_requests.go:49 and 75).
THEOREM TypeCorrect == Spec => []TypeOK
<1>1. IInv => TypeOK
  BY DEF IInv
<1>2. QED
  BY <1>1, Invariance, PTL

\* At most one request of an account for a permission is open, for any number
\* of goroutines creating and deciding requests at once: what the partial
\* unique index and ON CONFLICT give PermissionsRequests.Create
\* (repositories/permissions_requests.go:25).
THEOREM OneOpenAtATime == Spec => []OneOpenRequest
<1>1. IInv => OneOpenRequest
  BY DEF IInv
<1>2. QED
  BY <1>1, Invariance, PTL

-----------------------------------------------------------------------------
(* Who waits for whom *)

\* A commit waits for nobody.
LEMMA CommitsGoOn ==
  ASSUME NEW w, NEW v, WaitsFor(w, v) PROVE tx[w].step # "commit"
  BY DEF WaitsFor, At

\* Behind a row of permissions_requests or its index entry there is a commit.
LEMMA RequestRowWaits ==
  ASSUME NEW w, NEW v, WaitsFor(w, v), ~ At(w, "grant", "insert")
  PROVE  tx[v].step = "commit"
  BY DEF WaitsFor, HasKey, Wrote, At

\* Behind a row of permissions there is a grant that has inserted it, and has
\* the request to update at most.
LEMMA PermissionRowWaits ==
  ASSUME IInv, NEW w \in Workers, NEW v \in Workers, WaitsFor(w, v), At(w, "grant", "insert")
  PROVE  tx[v].step \in {"update", "commit"}
<1>1. /\ tx[w] # None /\ tx[w] \in Tx /\ tx[w].op = "grant" /\ tx[w].step = "insert"
      /\ tx[w].id \in Ids /\ requests[tx[w].id] # None
  BY IInvParts DEF At, WorkerOK, DecisionOK, Tx
<1>2. requests[tx[w].id] \in Request
  BY <1>1, IInvParts DEF TablesOK
<1>3. RowOf(requests[tx[w].id]) # None
  <2>1. RowOf(requests[tx[w].id]) \in Row
    BY <1>2, AskedAssumption DEF RowOf, Row, Request
  <2>2. QED
    BY <2>1, NoneIsNone
<1>4. tx[v] # None /\ tx[v].row = RowOf(requests[tx[w].id])
  BY <1>1 DEF WaitsFor, At
<1>5. RowOK(v)
  BY DEF IInv
<1>6. QED
  BY <1>3, <1>4, <1>5 DEF RowOK

\* No waits of any number of creations and decisions ever close to a circle: a
\* grant inserts the row it gives before it locks the request, so that whoever
\* waits is at most two transactions away from one that only has to commit
\* (usecases/permissions_requests.go:95 and 98).
THEOREM DeskNeverDeadlocks == Spec => []NoCircles
<1>1. IInv => NoCircles
  <2> SUFFICES ASSUME IInv, NEW D \in SUBSET Workers, Circle(D) PROVE FALSE
    BY DEF NoCircles
  <2>1. \A u \in D : \E v \in D : WaitsFor(u, v)
    BY DEF Circle
  <2>2. PICK u \in D : TRUE
    BY DEF Circle
  <2>3. PICK v \in D : WaitsFor(u, v)
    BY <2>1
  <2>4. PICK z \in D : WaitsFor(v, z)
    BY <2>1
  <2>5. PICK y \in D : WaitsFor(z, y)
    BY <2>1
  <2>6. tx[v].step # "commit" /\ tx[z].step # "commit"
    BY <2>4, <2>5, CommitsGoOn
  <2>7. At(u, "grant", "insert") /\ At(v, "grant", "insert")
    BY <2>3, <2>4, <2>6, RequestRowWaits
  <2>8. tx[v].step \in {"update", "commit"}
    BY <2>3, <2>7, PermissionRowWaits
  <2>9. QED
    BY <2>7, <2>8 DEF At
<1>2. QED
  BY <1>1, Invariance, PTL

-----------------------------------------------------------------------------
(* Grants *)

\* A commit of a grant closes its request as granted.
LEMMA GrantCloses ==
  ASSUME IInv, NEW w \in Workers, CommitGrant(w)
  PROVE  /\ tx[w].id \in Ids
         /\ requests'[tx[w].id] # None
         /\ requests'[tx[w].id].state = "granted"
         /\ RowOf(requests'[tx[w].id]) = RowOf(requests[tx[w].id])
<1> DEFINE id == tx[w].id
           r  == [requests[id] EXCEPT !.state = "granted", !.moderator = tx[w].caller]
<1>1. /\ id \in Ids /\ requests[id] \in Request /\ tx[w] \in Tx
  BY DecisionKnows DEF CommitGrant
<1>2. requests \in [Ids -> Request \cup {None}]
  BY IInvParts DEF TablesOK
<1>3. requests'[id] = r
  BY <1>1, <1>2 DEF CommitGrant, Decide
<1>4. r \in Request /\ r.state = "granted" /\ RowOf(r) = RowOf(requests[id])
  BY <1>1 DEF Request, RowOf, Tx
<1>5. QED
  BY <1>1, <1>3, <1>4, NoneIsNone

\* A grant gives all or nothing: whatever fails between its statements, a row
\* of a request appears only in the step that records the request as granted
\* (usecases/permissions_requests.go:75).
THEOREM GrantsAreAtomic == Spec => GrantIsAtomic
<1> DEFINE A == \A row \in rows' \ rows :
                  \/ changes' # changes
                  \/ \E id \in Ids : /\ requests'[id] # None
                                     /\ requests'[id].state = "granted"
                                     /\ RowOf(requests'[id]) = row
<1>1. IInv /\ [Next]_vars => [A]_vars
  <2> SUFFICES ASSUME IInv, Next, NEW row \in rows' \ rows PROVE
                 \/ changes' # changes
                 \/ \E id \in Ids : /\ requests'[id] # None
                                    /\ requests'[id].state = "granted"
                                    /\ RowOf(requests'[id]) = row
    OBVIOUS
  <2>1. CASE GiveRow \/ TakeRow
    <3>1. changes \in Nat
      BY IInvParts, BoundsAssumption DEF TablesOK
    <3>2. QED
      BY <2>1, <3>1 DEF GiveRow, TakeRow
  <2>2. ASSUME NEW w \in Workers, CommitGrant(w)
        PROVE  \E id \in Ids : /\ requests'[id] # None
                               /\ requests'[id].state = "granted"
                               /\ RowOf(requests'[id]) = row
    <3>1. row = RowOf(requests[tx[w].id])
      BY <2>2, GrantedRow DEF CommitGrant
    <3>2. QED
      BY <2>2, <3>1, GrantCloses
  <2>3. ASSUME NEW w \in Workers,
               BeginCreate(w) \/ BeginDecision(w) \/ Statement(w) \/ Abort(w),
               ~ CommitGrant(w)
        PROVE  UNCHANGED rows
    BY <2>3 DEF BeginCreate, BeginDecision, Start, Statement, Abort, CheckRequester,
         InsertRequest, CommitCreate, GetRequest, CheckModerator, InsertPermission,
         UpdateRequest, CommitDeny
  <2>4. QED
    BY <2>1, <2>2, <2>3 DEF Next
<1>2. QED
  BY <1>1, Invariance, PTL DEF Spec, GrantIsAtomic

-----------------------------------------------------------------------------
(* The transactions implement the desk *)

\* The commit of a creation is the desk's opening.
LEMMA OpensOrElsewhere ==
  ASSUME IInv, NEW w \in Workers, CommitCreate(w)
  PROVE  \/ UNCHANGED requests
         \/ \E id \in Ids, sa \in Accounts, p \in Asked : Desk!Open(id, sa, p)
<1>1. CASE tx[w].id = None
  BY <1>1 DEF CommitCreate
<1>2. CASE tx[w].id # None
  <2> DEFINE id == tx[w].id
             sa == tx[w].caller
             p  == tx[w].perm
  <2>1. tx[w] \in Tx /\ CreationOK(w) /\ tx[w] # None /\ tx[w].op = "create"
    BY IInvParts DEF CommitCreate, At, WorkerOK
  <2>2. id \in Ids /\ sa \in Accounts /\ p \in Asked
    BY <1>2, <2>1 DEF Tx, CreationOK
  <2>3. requests[id] = None /\ Desk!OpenRequests(sa, p) = {}
    BY <1>2, <2>1, SameRequests DEF CreationOK
  <2>4. Desk!Open(id, sa, p)
    BY <1>2, <2>3 DEF CommitCreate, Desk!Open
  <2>5. QED
    BY <2>2, <2>4
<1>3. QED
  BY <1>1, <1>2

\* The commit of a decision is the desk's, by somebody the desk lets decide.
LEMMA Decides ==
  ASSUME IInv, NEW w \in Workers, At(w, "grant", "commit") \/ At(w, "deny", "commit")
  PROVE  /\ tx[w].id \in Ids /\ tx[w].caller \in Accounts
         /\ Desk!Decidable(tx[w].id, tx[w].caller)
<1>1. /\ tx[w] \in Tx /\ tx[w] # None /\ tx[w].op \in {"grant", "deny"}
      /\ tx[w].step = "commit" /\ tx[w].id \in Ids
      /\ requests[tx[w].id] # None /\ ModeratorOK(w)
  BY DecisionKnows
<1>2. tx[w].caller \in since[tx[w].id].owners /\ tx[w].caller \in Accounts
  BY <1>1 DEF ModeratorOK, Tx
<1>3. QED
  BY <1>1, <1>2 DEF Desk!Decidable

LEMMA DeskStep == IInv /\ [Next]_vars => [Desk!DeskNext]_(Desk!deskVars)
<1> SUFFICES ASSUME IInv, Next PROVE Desk!DeskNext
  BY DEF vars, Desk!deskVars
<1>1. Desk!Remember
  BY DEF Next
<1>2. CASE UNCHANGED requests
  BY <1>1, <1>2 DEF Desk!DeskNext, Desk!Elsewhere
<1>3. ASSUME NEW w \in Workers, CommitCreate(w) PROVE Desk!DeskNext
  BY <1>1, <1>2, <1>3, OpensOrElsewhere DEF Desk!DeskNext
<1>4. ASSUME NEW w \in Workers, CommitGrant(w) PROVE Desk!DeskNext
  <2>1. /\ tx[w].id \in Ids /\ tx[w].caller \in Accounts
        /\ Desk!Decidable(tx[w].id, tx[w].caller)
    BY <1>4, Decides DEF CommitGrant
  <2>2. Desk!Decide(tx[w].id, "granted", tx[w].caller)
    BY <1>4 DEF CommitGrant, Decide, Desk!Decide
  <2>3. \/ rows' = rows \cup {Desk!RowOf(requests[tx[w].id])}
        \/ since[tx[w].id].had /\ UNCHANGED rows
    BY <1>4, GrantedRow, SameRequests DEF CommitGrant
  <2>4. Desk!Grant(tx[w].id, tx[w].caller)
    BY <2>1, <2>2, <2>3 DEF Desk!Grant
  <2>5. QED
    BY <1>1, <2>1, <2>4 DEF Desk!DeskNext
<1>5. ASSUME NEW w \in Workers, CommitDeny(w) PROVE Desk!DeskNext
  <2>1. /\ tx[w].id \in Ids /\ tx[w].caller \in Accounts
        /\ Desk!Decidable(tx[w].id, tx[w].caller)
    BY <1>5, Decides DEF CommitDeny
  <2>2. Desk!Deny(tx[w].id, tx[w].caller)
    BY <1>5, <2>1 DEF CommitDeny, Decide, Desk!Deny, Desk!Decide
  <2>3. QED
    BY <1>1, <2>1, <2>2 DEF Desk!DeskNext
<1>6. ASSUME NEW w \in Workers,
             BeginCreate(w) \/ BeginDecision(w) \/ Statement(w) \/ Abort(w),
             ~ CommitCreate(w), ~ CommitGrant(w), ~ CommitDeny(w)
      PROVE  UNCHANGED requests
  BY <1>6 DEF BeginCreate, BeginDecision, Start, Statement, Abort, CheckRequester,
       InsertRequest, GetRequest, CheckModerator, InsertPermission, UpdateRequest
<1>7. CASE GiveRow \/ TakeRow
  BY <1>2, <1>7 DEF GiveRow, TakeRow
<1>8. QED
  BY <1>2, <1>3, <1>4, <1>5, <1>6, <1>7 DEF Next

\* The transactions, interleaved statement by statement, implement the desk,
\* which answers in one step: a request is opened when none like it is open,
\* decided by somebody who owned its permission at some moment since, and
\* granted together with the row it asks for or because the requester had it
\* (usecases/permissions_requests.go:34, 49 and 75).
THEOREM ImplementsDesk == Spec => DeskSpec
<1>1. Init => Desk!DeskInit
  BY DEF Init, Desk!DeskInit
<1>2. QED
  BY <1>1, DeskStep, Invariance, PTL DEF Spec, DeskSpec, Desk!DeskSpec
=============================================================================
