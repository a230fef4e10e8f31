---------------------------- MODULE UpdatesProofs ----------------------------
(***************************************************************************)
(* That the transactions that change roles, accounts, services and         *)
(* permissions, interleaved statement by statement, implement Registry,    *)
(* and when they can wait for each other in a circle: for any number of    *)
(* goroutines, requests and records, and lists of any length.              *)
(***************************************************************************)
EXTENDS Updates, Integers, FiniteSetTheorems, TLAPS

-----------------------------------------------------------------------------
(* What a program does *)

Stmt == [do : {"insert"}, row : Book!Rows, strict : BOOLEAN]
          \cup [do : {"delete"}, rows : SUBSET Book!Rows] \cup {Save, Skip}

Adds(P, i, x)  == P[i].do = "insert" /\ P[i].row = x
Takes(P, i, x) == P[i].do = "delete" /\ x \in P[i].rows
Saving(P, i)   == P[i].do = "save"

Puts(P) == {x \in Book!Rows : \E i \in DOMAIN P : Adds(P, i, x)}
Cuts(P) == {x \in Book!Rows : \E i \in DOMAIN P : Takes(P, i, x)}

\* Nothing is deleted that was inserted before.
NeverBack(P) ==
  \A i, j \in DOMAIN P, x \in Book!Rows : Adds(P, i, x) /\ Takes(P, j, x) => j < i

SaveFree(P)   == \A i \in DOMAIN P : ~ Saving(P, i)
SavesFirst(P) == /\ \E i \in DOMAIN P : Saving(P, i)
                 /\ \A i, j \in DOMAIN P : Saving(P, j) => j <= i
SavesLast(P)  == /\ \E i \in DOMAIN P : Saving(P, i)
                 /\ \A i, j \in DOMAIN P : Saving(P, j) => i <= j

\* A program inserts what its request lists and deletes what it replaces; an
\* account is saved first, a role or a service last.
ProgramOK(q, P) ==
  /\ P \in Seq(Stmt)
  /\ Puts(P) = Book!Listed(q)
  /\ Cuts(P) = Book!Scope(q)
  /\ NeverBack(P)
  /\ q.op \in {"updateAccount", "login"} => SavesFirst(P)
  /\ q.op \in {"updateRole", "login", "updateService"} => SavesLast(P)
  /\ q.op \in {"attribute", "createPermission", "deletePermission"} => SaveFree(P)

\* The order in which rows are inserted, table b first.
Before(b, x, y) ==
  \/ x.table = b /\ y.table # b
  \/ /\ x.table = y.table
     /\ \/ Rank[x.role] < Rank[y.role]
        \/ Rank[x.role] = Rank[y.role] /\ Rank[x.of] < Rank[y.of]

Rising(b, P) ==
  \A i, j \in DOMAIN P, x, y \in Book!Rows :
    i < j /\ Adds(P, i, x) /\ Adds(P, j, y) => Before(b, x, y)

Ordered(q) == InOrder(q.perms) /\ InOrder(q.accounts) /\ InOrder(q.roles)

-----------------------------------------------------------------------------
(* Programs are put together *)

\* u is s followed by t, whose positions f moves.
Joined(s, t, u, f) ==
  /\ u \in Seq(Stmt)
  /\ \A i \in DOMAIN s : i \in DOMAIN u /\ u[i] = s[i]
  /\ \A j \in DOMAIN t : f[j] \in DOMAIN u /\ u[f[j]] = t[j]
  /\ \A k \in DOMAIN u : k \in DOMAIN s \/ \E j \in DOMAIN t : k = f[j]
  /\ \A i \in DOMAIN s, j \in DOMAIN t : i < f[j]
  /\ \A j, k \in DOMAIN t : /\ j < k <=> f[j] < f[k]
                            /\ j <= k <=> f[j] <= f[k]

LEMMA Join ==
  ASSUME NEW s \in Seq(Stmt), NEW t \in Seq(Stmt)
  PROVE  \E f : Joined(s, t, s \o t, f)
<1>1. PICK u : u = s \o t
  OBVIOUS
<1>2. /\ u \in Seq(Stmt)
      /\ Len(s) \in Nat /\ Len(t) \in Nat /\ Len(u) = Len(s) + Len(t)
      /\ \A i \in 1..Len(s) : u[i] = s[i]
      /\ \A j \in 1..Len(t) : u[Len(s) + j] = t[j]
  BY <1>1
<1> DEFINE f == [j \in 1..Len(t) |-> Len(s) + j]
<1>3. ASSUME NEW k \in 1..Len(u), k \notin 1..Len(s)
      PROVE  \E j \in 1..Len(t) : k = f[j]
  <2>1. k - Len(s) \in 1..Len(t) /\ k = Len(s) + (k - Len(s))
    BY <1>2, <1>3
  <2>2. QED
    BY <2>1
<1>4. DOMAIN s = 1..Len(s) /\ DOMAIN t = 1..Len(t) /\ DOMAIN u = 1..Len(u)
  BY <1>2
<1>5. /\ \A i \in 1..Len(s) : i \in 1..Len(u)
      /\ \A j \in 1..Len(t) : f[j] = Len(s) + j /\ f[j] \in 1..Len(u)
      /\ \A i \in 1..Len(s), j \in 1..Len(t) : i < f[j]
      /\ \A j, k \in 1..Len(t) : /\ j < k <=> f[j] < f[k]
                                 /\ j <= k <=> f[j] <= f[k]
  BY <1>2
<1>6. Joined(s, t, u, f)
  BY <1>2, <1>3, <1>4, <1>5 DEF Joined
<1>7. QED
  BY <1>1, <1>6

LEMMA JoinRows ==
  ASSUME NEW s, NEW t, NEW u, NEW f, Joined(s, t, u, f)
  PROVE  Puts(u) = Puts(s) \cup Puts(t) /\ Cuts(u) = Cuts(s) \cup Cuts(t)
  BY DEF Joined, Puts, Adds, Cuts, Takes

LEMMA JoinBack ==
  ASSUME NEW s, NEW t, NEW u, NEW f, Joined(s, t, u, f),
         NeverBack(s), NeverBack(t), Puts(s) \cap Cuts(t) = {}
  PROVE  NeverBack(u)
<1> USE DEF Adds, Takes
<1> SUFFICES ASSUME NEW i \in DOMAIN u, NEW j \in DOMAIN u, NEW x \in Book!Rows,
                    Adds(u, i, x), Takes(u, j, x)
             PROVE  j < i
  BY DEF NeverBack
<1>1. CASE i \in DOMAIN s /\ j \in DOMAIN s
  BY <1>1 DEF NeverBack, Joined
<1>2. CASE i \in DOMAIN s /\ j \notin DOMAIN s
  BY <1>2 DEF Puts, Cuts, Joined
<1>3. CASE i \notin DOMAIN s /\ j \in DOMAIN s
  BY <1>3 DEF Joined
<1>4. CASE i \notin DOMAIN s /\ j \notin DOMAIN s
  BY <1>4 DEF Joined, NeverBack
<1>5. QED
  BY <1>1, <1>2, <1>3, <1>4

LEMMA JoinSaves ==
  ASSUME NEW s, NEW t, NEW u, NEW f, Joined(s, t, u, f)
  PROVE  /\ SaveFree(s) /\ SaveFree(t) => SaveFree(u)
         /\ SavesFirst(s) /\ SaveFree(t) => SavesFirst(u)
         /\ SaveFree(s) /\ SavesLast(t) => SavesLast(u)
<1>1. SaveFree(s) /\ SaveFree(t) => SaveFree(u)
  BY DEF Joined, SaveFree, Saving
<1>2. ASSUME SavesFirst(s), SaveFree(t) PROVE SavesFirst(u)
  <2>1. \E i \in DOMAIN u : Saving(u, i)
    BY <1>2 DEF Joined, SavesFirst, Saving
  <2>2. ASSUME NEW i \in DOMAIN u, NEW j \in DOMAIN u, Saving(u, j) PROVE j <= i
    <3>1. j \in DOMAIN s /\ Saving(s, j)
      BY <1>2, <2>2 DEF Joined, SaveFree, Saving
    <3>2. CASE i \in DOMAIN s
      BY <1>2, <3>1, <3>2 DEF SavesFirst
    <3>3. CASE i \notin DOMAIN s
      <4>1. j < i
        BY <3>1, <3>3 DEF Joined
      <4>2. i \in Nat /\ j \in Nat
        BY DEF Joined
      <4>3. QED
        BY <4>1, <4>2
    <3>4. QED
      BY <3>2, <3>3
  <2>3. QED
    BY <2>1, <2>2 DEF SavesFirst
<1>3. ASSUME SaveFree(s), SavesLast(t) PROVE SavesLast(u)
  <2>1. \E i \in DOMAIN u : Saving(u, i)
    BY <1>3 DEF Joined, SavesLast, Saving
  <2>2. ASSUME NEW i \in DOMAIN u, NEW j \in DOMAIN u, Saving(u, j) PROVE i <= j
    <3>1. PICK k \in DOMAIN t : j = f[k] /\ Saving(t, k)
      BY <1>3, <2>2 DEF Joined, SaveFree, Saving
    <3>2. CASE i \in DOMAIN s
      <4>1. i < j
        BY <3>1, <3>2 DEF Joined
      <4>2. i \in Nat /\ j \in Nat
        BY DEF Joined
      <4>3. QED
        BY <4>1, <4>2
    <3>3. CASE i \notin DOMAIN s
      BY <1>3, <3>1, <3>3 DEF Joined, SavesLast
    <3>4. QED
      BY <3>2, <3>3
  <2>3. QED
    BY <2>1, <2>2 DEF SavesLast
<1>4. QED
  BY <1>1, <1>2, <1>3

LEMMA JoinRising ==
  ASSUME NEW s, NEW t, NEW u, NEW f, Joined(s, t, u, f), NEW b,
         Rising(b, s), Rising(b, t), \A x \in Puts(s), y \in Puts(t) : Before(b, x, y)
  PROVE  Rising(b, u)
<1> USE DEF Adds
<1> SUFFICES ASSUME NEW i \in DOMAIN u, NEW j \in DOMAIN u, NEW x \in Book!Rows,
                    NEW y \in Book!Rows, i < j, Adds(u, i, x), Adds(u, j, y)
             PROVE  Before(b, x, y)
  BY DEF Rising
<1>1. CASE i \in DOMAIN s /\ j \in DOMAIN s
  BY <1>1 DEF Rising, Joined
<1>2. CASE i \in DOMAIN s /\ j \notin DOMAIN s
  BY <1>2 DEF Puts, Joined
<1>3. CASE i \notin DOMAIN s /\ j \in DOMAIN s
  <2>1. j < i /\ i \in Nat /\ j \in Nat
    BY <1>3 DEF Joined
  <2>2. QED
    BY <2>1
<1>4. CASE i \notin DOMAIN s /\ j \notin DOMAIN s
  BY <1>4 DEF Joined, Rising
<1>5. QED
  BY <1>1, <1>2, <1>3, <1>4

\* A part of a program: what it inserts and what it deletes.
Piece(P, S, C) == P \in Seq(Stmt) /\ Puts(P) = S /\ Cuts(P) = C /\ NeverBack(P)

LEMMA JoinPieces ==
  ASSUME NEW s, NEW S, NEW C, Piece(s, S, C), NEW t, NEW T, NEW D, Piece(t, T, D),
         \A x \in S : x \notin D
  PROVE  Piece(s \o t, S \cup T, C \cup D)
<1>1. PICK u, f : u = s \o t /\ Joined(s, t, u, f)
  BY Join DEF Piece
<1>2. u \in Seq(Stmt)
  BY <1>1 DEF Joined
<1>3. NeverBack(u)
  BY <1>1, JoinBack DEF Piece
<1>4. Puts(u) = S \cup T /\ Cuts(u) = C \cup D
  BY <1>1, JoinRows DEF Piece
<1>5. QED
  BY <1>1, <1>2, <1>3, <1>4 DEF Piece

LEMMA JoinKinds ==
  ASSUME NEW s \in Seq(Stmt), NEW t \in Seq(Stmt)
  PROVE  /\ SaveFree(s) /\ SaveFree(t) => SaveFree(s \o t)
         /\ SavesFirst(s) /\ SaveFree(t) => SavesFirst(s \o t)
         /\ SaveFree(s) /\ SavesLast(t) => SavesLast(s \o t)
  BY Join, JoinSaves

LEMMA JoinOrdered ==
  ASSUME NEW s \in Seq(Stmt), NEW t \in Seq(Stmt), NEW b, Rising(b, s), Rising(b, t),
         \A x \in Puts(s), y \in Puts(t) : Before(b, x, y)
  PROVE  Rising(b, s \o t)
  BY Join, JoinRising

-----------------------------------------------------------------------------
(* Their pieces *)

LEMMA FunSeq ==
  ASSUME NEW n \in Nat, NEW P, DOMAIN P = 1..n, P = [i \in DOMAIN P |-> P[i]],
         \A i \in DOMAIN P : P[i] \in Stmt
  PROVE  P \in Seq(Stmt)
  OBVIOUS

LEMMA OneSave ==
  ASSUME NEW P, P = <<Save>>
  PROVE  /\ P \in Seq(Stmt) /\ DOMAIN P = {1}
         /\ Puts(P) = {} /\ Cuts(P) = {} /\ NeverBack(P) /\ SavesFirst(P) /\ SavesLast(P)
         /\ \A b : Rising(b, P)
<1>1. P \in Seq(Stmt) /\ DOMAIN P = {1} /\ P[1] = Save
  BY DEF Stmt
<1>2. QED
  BY <1>1 DEF Puts, Adds, Cuts, Takes, NeverBack, SavesFirst, SavesLast, Saving, Save, Rising

LEMMA OneDelete ==
  ASSUME NEW S \in SUBSET Book!Rows, NEW P, P = <<Delete(S)>>
  PROVE  /\ P \in Seq(Stmt) /\ DOMAIN P = {1}
         /\ Puts(P) = {} /\ Cuts(P) = S /\ NeverBack(P) /\ SaveFree(P)
         /\ \A b : Rising(b, P)
<1>1. P \in Seq(Stmt) /\ DOMAIN P = {1} /\ P[1] = Delete(S)
  BY DEF Stmt, Delete
<1>2. QED
  BY <1>1 DEF Puts, Adds, Cuts, Takes, NeverBack, SaveFree, Saving, Delete, Rising

LEMMA SaveAndDelete ==
  ASSUME NEW S \in SUBSET Book!Rows, NEW P, P = <<Save, Delete(S)>>
  PROVE  /\ P \in Seq(Stmt) /\ Puts(P) = {} /\ Cuts(P) = S /\ NeverBack(P)
         /\ SavesFirst(P) /\ \A b : Rising(b, P)
<1>1. P \in Seq(Stmt) /\ DOMAIN P = {1, 2} /\ P[1] = Save /\ P[2] = Delete(S)
  BY DEF Stmt, Delete
<1>2. QED
  BY <1>1 DEF Puts, Adds, Cuts, Takes, NeverBack, SavesFirst, Saving, Delete, Save, Rising

LEMMA EachPermission ==
  ASSUME NEW r \in Roles, NEW s \in Seq(Perms),
         NEW P, P = [i \in DOMAIN s |-> Insert(Book!PermissionRow(r, s[i]))]
  PROVE  /\ P \in Seq(Stmt) /\ DOMAIN P = DOMAIN s
         /\ \A i \in DOMAIN s : P[i] = Insert(Book!PermissionRow(r, s[i]))
         /\ Puts(P) = {Book!PermissionRow(r, p) : p \in Book!Elements(s)}
         /\ Cuts(P) = {} /\ NeverBack(P) /\ SaveFree(P)
         /\ InOrder(s) => \A b : Rising(b, P)
<1>1. \A i \in DOMAIN s : s[i] \in Perms /\ Book!PermissionRow(r, s[i]) \in Book!Rows
  BY DEF Book!Rows
<1>2. \A i \in DOMAIN s : Insert(Book!PermissionRow(r, s[i])) \in Stmt
  BY <1>1 DEF Stmt, Insert
<1>3. /\ DOMAIN P = DOMAIN s
      /\ \A i \in DOMAIN s : P[i] = Insert(Book!PermissionRow(r, s[i]))
  OBVIOUS
<1>4. P \in Seq(Stmt)
  <2>1. DOMAIN P = 1..Len(s) /\ Len(s) \in Nat
    BY <1>3
  <2>2. P = [i \in DOMAIN P |-> P[i]]
    OBVIOUS
  <2>3. QED
    BY <1>2, <1>3, <2>1, <2>2, FunSeq
<1>5. ASSUME NEW x \in Book!Rows
      PROVE  x \in Puts(P) <=> \E i \in DOMAIN s : x = Book!PermissionRow(r, s[i])
  <2>1. \A i \in DOMAIN s : Adds(P, i, x) <=> x = Book!PermissionRow(r, s[i])
    BY <1>3 DEF Adds, Insert
  <2>2. QED
    BY <1>3, <2>1 DEF Puts
<1>6. Puts(P) = {Book!PermissionRow(r, p) : p \in Book!Elements(s)}
  BY <1>1, <1>5 DEF Puts, Book!Elements
<1>7. Cuts(P) = {} /\ NeverBack(P) /\ SaveFree(P)
  <2>1. \A i \in DOMAIN P : P[i].do \notin {"delete", "save"}
    BY <1>3 DEF Insert
  <2>2. QED
    BY <2>1 DEF Cuts, Takes, NeverBack, SaveFree, Saving
<1>8. ASSUME InOrder(s), NEW b PROVE Rising(b, P)
  <2> SUFFICES ASSUME NEW i \in DOMAIN s, NEW j \in DOMAIN s, NEW x \in Book!Rows,
                      NEW y \in Book!Rows, i < j, Adds(P, i, x), Adds(P, j, y)
               PROVE  Before(b, x, y)
    BY <1>3 DEF Rising
  <2>1. x = Book!PermissionRow(r, s[i]) /\ y = Book!PermissionRow(r, s[j])
    BY <1>3 DEF Adds, Insert
  <2>2. Rank[s[i]] < Rank[s[j]]
    BY <1>8 DEF InOrder
  <2>3. QED
    BY <2>1, <2>2 DEF Before, Book!PermissionRow
<1>9. QED
  BY <1>3, <1>4, <1>6, <1>7, <1>8

LEMMA EachAccount ==
  ASSUME NEW r \in Roles, NEW s \in Seq(Accounts),
         NEW P, P = [i \in DOMAIN s |-> Bind(Book!BindingRow(r, s[i]))]
  PROVE  /\ P \in Seq(Stmt) /\ DOMAIN P = DOMAIN s
         /\ \A i \in DOMAIN s : P[i] = Bind(Book!BindingRow(r, s[i]))
         /\ Puts(P) = {Book!BindingRow(r, a) : a \in Book!Elements(s)}
         /\ Cuts(P) = {} /\ NeverBack(P) /\ SaveFree(P)
         /\ InOrder(s) => \A b : Rising(b, P)
<1>1. \A i \in DOMAIN s : s[i] \in Accounts /\ Book!BindingRow(r, s[i]) \in Book!Rows
  BY DEF Book!Rows
<1>2. \A i \in DOMAIN s : Bind(Book!BindingRow(r, s[i])) \in Stmt
  BY <1>1 DEF Stmt, Bind
<1>3. /\ DOMAIN P = DOMAIN s
      /\ \A i \in DOMAIN s : P[i] = Bind(Book!BindingRow(r, s[i]))
  OBVIOUS
<1>4. P \in Seq(Stmt)
  <2>1. DOMAIN P = 1..Len(s) /\ Len(s) \in Nat
    BY <1>3
  <2>2. P = [i \in DOMAIN P |-> P[i]]
    OBVIOUS
  <2>3. QED
    BY <1>2, <1>3, <2>1, <2>2, FunSeq
<1>5. ASSUME NEW x \in Book!Rows
      PROVE  x \in Puts(P) <=> \E i \in DOMAIN s : x = Book!BindingRow(r, s[i])
  <2>1. \A i \in DOMAIN s : Adds(P, i, x) <=> x = Book!BindingRow(r, s[i])
    BY <1>3 DEF Adds, Bind
  <2>2. QED
    BY <1>3, <2>1 DEF Puts
<1>6. Puts(P) = {Book!BindingRow(r, a) : a \in Book!Elements(s)}
  BY <1>1, <1>5 DEF Puts, Book!Elements
<1>7. Cuts(P) = {} /\ NeverBack(P) /\ SaveFree(P)
  <2>1. \A i \in DOMAIN P : P[i].do \notin {"delete", "save"}
    BY <1>3 DEF Bind
  <2>2. QED
    BY <2>1 DEF Cuts, Takes, NeverBack, SaveFree, Saving
<1>8. ASSUME InOrder(s), NEW b PROVE Rising(b, P)
  <2> SUFFICES ASSUME NEW i \in DOMAIN s, NEW j \in DOMAIN s, NEW x \in Book!Rows,
                      NEW y \in Book!Rows, i < j, Adds(P, i, x), Adds(P, j, y)
               PROVE  Before(b, x, y)
    BY <1>3 DEF Rising
  <2>1. x = Book!BindingRow(r, s[i]) /\ y = Book!BindingRow(r, s[j])
    BY <1>3 DEF Adds, Bind
  <2>2. Rank[s[i]] < Rank[s[j]]
    BY <1>8 DEF InOrder
  <2>3. QED
    BY <2>1, <2>2 DEF Before, Book!BindingRow
<1>9. QED
  BY <1>3, <1>4, <1>6, <1>7, <1>8

\* The roles of an account but for its base role, which the loop passes over.
LEMMA EachRole ==
  ASSUME NEW a \in Accounts, NEW base \in Roles, NEW s \in Seq(Roles),
         NEW P, DOMAIN P = DOMAIN s, P = [i \in DOMAIN P |-> P[i]],
         \A i \in DOMAIN s :
           P[i] = IF s[i] = base THEN Skip ELSE Bind(Book!BindingRow(s[i], a))
  PROVE  /\ P \in Seq(Stmt) /\ DOMAIN P = DOMAIN s
         /\ \A i \in DOMAIN s :
              P[i] = IF s[i] = base THEN Skip ELSE Bind(Book!BindingRow(s[i], a))
         /\ Puts(P) = {Book!BindingRow(r, a) : r \in Book!Elements(s) \ {base}}
         /\ Cuts(P) = {} /\ NeverBack(P) /\ SaveFree(P)
         /\ InOrder(s) => \A b : Rising(b, P)
<1>1. \A i \in DOMAIN s : s[i] \in Roles /\ Book!BindingRow(s[i], a) \in Book!Rows
  BY DEF Book!Rows
<1>2. /\ Skip \in Stmt
      /\ \A i \in DOMAIN s : Bind(Book!BindingRow(s[i], a)) \in Stmt
  BY <1>1 DEF Stmt, Bind
<1>3. /\ DOMAIN P = DOMAIN s
      /\ \A i \in DOMAIN s :
           P[i] = IF s[i] = base THEN Skip ELSE Bind(Book!BindingRow(s[i], a))
  OBVIOUS
<1>4. P \in Seq(Stmt)
  <2>1. DOMAIN P = 1..Len(s) /\ Len(s) \in Nat
    BY <1>3
  <2>2. P = [i \in DOMAIN P |-> P[i]]
    OBVIOUS
  <2>3. \A i \in DOMAIN P : P[i] \in Stmt
    BY <1>2, <1>3
  <2>4. QED
    BY <2>1, <2>2, <2>3, FunSeq
<1>5. ASSUME NEW x \in Book!Rows
      PROVE  x \in Puts(P) <=> \E i \in DOMAIN s : s[i] # base /\ x = Book!BindingRow(s[i], a)
  <2>1. \A i \in DOMAIN s : Adds(P, i, x) <=> s[i] # base /\ x = Book!BindingRow(s[i], a)
    BY <1>3 DEF Adds, Bind, Skip
  <2>2. QED
    BY <1>3, <2>1 DEF Puts
<1>6. Puts(P) = {Book!BindingRow(r, a) : r \in Book!Elements(s) \ {base}}
  BY <1>1, <1>5 DEF Puts, Book!Elements
<1>7. Cuts(P) = {} /\ NeverBack(P) /\ SaveFree(P)
  <2>1. \A i \in DOMAIN P : P[i].do \notin {"delete", "save"}
    BY <1>3 DEF Bind, Skip
  <2>2. QED
    BY <2>1 DEF Cuts, Takes, NeverBack, SaveFree, Saving
<1>8. ASSUME InOrder(s), NEW b PROVE Rising(b, P)
  <2> SUFFICES ASSUME NEW i \in DOMAIN s, NEW j \in DOMAIN s, NEW x \in Book!Rows,
                      NEW y \in Book!Rows, i < j, Adds(P, i, x), Adds(P, j, y)
               PROVE  Before(b, x, y)
    BY <1>3 DEF Rising
  <2>1. x = Book!BindingRow(s[i], a) /\ y = Book!BindingRow(s[j], a)
    BY <1>3 DEF Adds, Bind, Skip
  <2>2. Rank[s[i]] < Rank[s[j]]
    BY <1>8 DEF InOrder
  <2>3. QED
    BY <2>1, <2>2 DEF Before, Book!BindingRow
<1>9. QED
  BY <1>3, <1>4, <1>6, <1>7, <1>8

\* Positions of a nested loop.
LEMMA Nested ==
  ASSUME NEW n \in Nat, NEW m \in Nat
  PROVE  /\ \A i \in 1..(m * n) : /\ ((i - 1) \div n) + 1 \in 1..m
                                  /\ ((i - 1) % n) + 1 \in 1..n
         /\ \A j \in 1..m, k \in 1..n :
              \E i \in 1..(m * n) : ((i - 1) \div n) + 1 = j /\ ((i - 1) % n) + 1 = k
         /\ \A i, j \in 1..(m * n) : i < j =>
              \/ (i - 1) \div n < (j - 1) \div n
              \/ (i - 1) \div n = (j - 1) \div n /\ (i - 1) % n < (j - 1) % n
<1>1. CASE n = 0
  BY <1>1
<1>2. CASE n > 0
  <2>1. ASSUME NEW i \in 1..(m * n)
        PROVE  /\ (i - 1) \div n \in 0..(m - 1)
               /\ (i - 1) % n \in 0..(n - 1)
               /\ i - 1 = (n * ((i - 1) \div n)) + ((i - 1) % n)
    BY <1>2
  <2>2. ASSUME NEW j \in 1..m, NEW k \in 1..n
        PROVE  \E i \in 1..(m * n) : ((i - 1) \div n) + 1 = j /\ ((i - 1) % n) + 1 = k
    <3> DEFINE i == (n * (j - 1)) + k
    <3>1. n * (j - 1) <= n * (m - 1) /\ n * (j - 1) >= 0
      BY <1>2
    <3>2. i \in 1..(m * n)
      BY <1>2, <3>1
    <3>3. (i - 1) \div n = j - 1 /\ (i - 1) % n = k - 1
      BY <1>2
    <3>4. i - 1 \in Int /\ ((i - 1) \div n) + 1 = j /\ ((i - 1) % n) + 1 = k
      BY <1>2, <3>2, <3>3
    <3>5. QED
      BY <3>2, <3>4
  <2>3. ASSUME NEW i \in 1..(m * n), NEW j \in 1..(m * n), i < j
        PROVE  \/ (i - 1) \div n < (j - 1) \div n
               \/ (i - 1) \div n = (j - 1) \div n /\ (i - 1) % n < (j - 1) % n
    BY <1>2, <2>3
  <2>4. QED
    BY <2>1, <2>2, <2>3
<1>3. QED
  BY <1>1, <1>2
-----------------------------------------------------------------------------
(* The programs *)

LEMMA RequestFields ==
  ASSUME NEW q \in Requests
  PROVE  /\ q \in Request /\ WellFormed(q)
         /\ q.perms \in Seq(Perms) /\ q.accounts \in Seq(Accounts) /\ q.roles \in Seq(Roles)
         /\ q.op \in {"updateRole", "updateAccount", "attribute", "createPermission",
                      "deletePermission", "login", "updateService"}
         /\ q.id \in Book!Ids
  BY UpdatesAssumption DEF Request

\* A permission goes before a binding, or after it.
LEMMA TablesInTurn ==
  ASSUME NEW r \in Roles, NEW p, NEW b \in Roles, NEW a
  PROVE  /\ Before("permissions", Book!PermissionRow(r, p), Book!BindingRow(b, a))
         /\ Before("role_bindings", Book!BindingRow(b, a), Book!PermissionRow(r, p))
  BY DEF Before, Book!PermissionRow, Book!BindingRow

LEMMA RoleProgram ==
  ASSUME NEW q \in Requests, q.op = "updateRole", NEW P, P = Program[q]
  PROVE  /\ ProgramOK(q, P)
         /\ Ordered(q) => Rising("permissions", P)
<1> DEFINE A == <<Delete(RowsOfRole(q.id))>>
           B == [i \in DOMAIN q.perms |-> Insert(Book!PermissionRow(q.id, q.perms[i]))]
           C == <<Delete(BindingsOfRole(q.id))>>
           D == [i \in DOMAIN q.accounts |-> Bind(Book!BindingRow(q.id, q.accounts[i]))]
           E == <<Save>>
<1>1. P = (((A \o B) \o C) \o D) \o E
  BY DEF Program, UpdateRole, Each
<1>2. q.id \in Roles /\ q.perms \in Seq(Perms) /\ q.accounts \in Seq(Accounts)
  BY RequestFields DEF WellFormed
<1> DEFINE given == {Book!PermissionRow(q.id, p) : p \in Book!Elements(q.perms)}
           bound == {Book!BindingRow(q.id, a) : a \in Book!Elements(q.accounts)}
<1>3. /\ RowsOfRole(q.id) \in SUBSET Book!Rows /\ BindingsOfRole(q.id) \in SUBSET Book!Rows
      /\ \A x \in given : x \notin BindingsOfRole(q.id)
      /\ RowsOfRole(q.id) \cup BindingsOfRole(q.id) = Book!Scope(q)
      /\ given \cup bound = Book!Listed(q)
      /\ \A x \in given, y \in bound : Before("permissions", x, y)
  <2>1. RowsOfRole(q.id) \in SUBSET Book!Rows /\ BindingsOfRole(q.id) \in SUBSET Book!Rows
    BY DEF RowsOfRole, BindingsOfRole
  <2>2. \A x \in given : x \notin BindingsOfRole(q.id)
    BY DEF BindingsOfRole, Book!PermissionRow
  <2>3. RowsOfRole(q.id) \cup BindingsOfRole(q.id) = Book!Scope(q)
    BY DEF RowsOfRole, BindingsOfRole, Book!Scope, Book!Rows, Book!PermissionRow,
           Book!BindingRow
  <2>4. given \cup bound = Book!Listed(q)
    BY DEF Book!Listed
  <2>5. \A x \in given, y \in bound : Before("permissions", x, y)
    BY <1>2, TablesInTurn
  <2>6. QED
    BY <2>1, <2>2, <2>3, <2>4, <2>5
<1> DEFINE old  == RowsOfRole(q.id)
           gone == BindingsOfRole(q.id)
           Safe(s) == Ordered(q) => Rising("permissions", s)
<1>4. Piece(A, {}, old) /\ SaveFree(A) /\ Safe(A)
  BY <1>3, OneDelete DEF Piece
<1>5. Piece(B, given, {}) /\ SaveFree(B) /\ Safe(B)
  BY <1>2, EachPermission DEF Ordered, Piece
<1>6. Piece(C, {}, gone) /\ SaveFree(C) /\ Safe(C)
  BY <1>3, OneDelete DEF Piece
<1>7. Piece(D, bound, {}) /\ SaveFree(D) /\ Safe(D)
  BY <1>2, EachAccount DEF Ordered, Piece
<1>8. Piece(E, {}, {}) /\ SavesLast(E) /\ Safe(E)
  BY OneSave DEF Piece
<1> HIDE DEF A, B, C, D, E, given, bound
<1>9. PICK S1 : S1 = A \o B
  OBVIOUS
<1>10. Piece(S1, given, old) /\ SaveFree(S1) /\ Safe(S1)
  <2>1. Piece(A \o B, {} \cup given, old \cup {})
    BY <1>4, <1>5, JoinPieces
  <2>2. SaveFree(A \o B)
    BY <1>4, <1>5, JoinKinds DEF Piece
  <2>3. Safe(A \o B)
    BY <1>4, <1>5, JoinOrdered DEF Piece
  <2>4. QED
    BY <1>9, <2>1, <2>2, <2>3
<1>11. PICK S2 : S2 = S1 \o C
  OBVIOUS
<1>12. Piece(S2, given, old \cup gone) /\ SaveFree(S2) /\ Safe(S2)
  <2>1. Piece(S1 \o C, given \cup {}, old \cup gone)
    BY <1>3, <1>6, <1>10, JoinPieces
  <2>2. SaveFree(S1 \o C)
    BY <1>3, <1>6, <1>10, JoinKinds DEF Piece
  <2>3. Safe(S1 \o C)
    BY <1>3, <1>6, <1>10, JoinOrdered DEF Piece
  <2>4. QED
    BY <1>11, <2>1, <2>2, <2>3
<1>13. PICK S3 : S3 = S2 \o D
  OBVIOUS
<1>14. Piece(S3, given \cup bound, old \cup gone) /\ SaveFree(S3) /\ Safe(S3)
  <2>1. Piece(S2 \o D, given \cup bound, (old \cup gone) \cup {})
    BY <1>3, <1>7, <1>12, JoinPieces
  <2>2. SaveFree(S2 \o D)
    BY <1>3, <1>7, <1>12, JoinKinds DEF Piece
  <2>3. Safe(S2 \o D)
    BY <1>3, <1>7, <1>12, JoinOrdered DEF Piece
  <2>4. QED
    BY <1>13, <2>1, <2>2, <2>3
<1>15. P = S3 \o E
  BY <1>1, <1>9, <1>11, <1>13
<1>16. Piece(P, given \cup bound, old \cup gone) /\ SavesLast(P) /\ Safe(P)
  <2>1. Piece(S3 \o E, (given \cup bound) \cup {}, (old \cup gone) \cup {})
    BY <1>8, <1>14, JoinPieces
  <2>2. SavesLast(S3 \o E)
    BY <1>8, <1>14, JoinKinds DEF Piece
  <2>3. Safe(S3 \o E)
    BY <1>8, <1>14, JoinOrdered DEF Piece
  <2>4. QED
    BY <1>15, <2>1, <2>2, <2>3
<1>17. QED
  BY <1>3, <1>16 DEF ProgramOK, Piece, old, gone
LEMMA AccountProgram ==
  ASSUME NEW q \in Requests, q.op = "updateAccount", NEW P, P = Program[q]
  PROVE  /\ ProgramOK(q, P)
         /\ Ordered(q) => Rising("role_bindings", P)
<1> DEFINE base == BaseRole[q.id]
           A == <<Save, Delete(BindingsOf(q.id))>>
           B == [i \in DOMAIN q.roles |->
                  IF q.roles[i] = base THEN Skip ELSE Bind(Book!BindingRow(q.roles[i], q.id))]
           C == <<Delete(RowsOfRole(base))>>
           D == [i \in DOMAIN q.perms |-> Insert(Book!PermissionRow(base, q.perms[i]))]
<1>1. P = ((A \o B) \o C) \o D
  BY DEF Program, UpdateWithNested, Each
<1>2. /\ q.id \in Accounts /\ q.perms \in Seq(Perms) /\ q.roles \in Seq(Roles)
      /\ base \in Roles
  BY RequestFields, UpdatesAssumption DEF WellFormed
<1> DEFINE given == {Book!PermissionRow(base, p) : p \in Book!Elements(q.perms)}
           bound == {Book!BindingRow(r, q.id) : r \in Book!Elements(q.roles) \ {base}}
<1>3. /\ RowsOfRole(base) \in SUBSET Book!Rows /\ BindingsOf(q.id) \in SUBSET Book!Rows
      /\ \A x \in bound : x \notin RowsOfRole(base)
      /\ BindingsOf(q.id) \cup RowsOfRole(base) = Book!Scope(q)
      /\ given \cup bound = Book!Listed(q)
      /\ \A x \in bound, y \in given : Before("role_bindings", x, y)
  <2>1. RowsOfRole(base) \in SUBSET Book!Rows /\ BindingsOf(q.id) \in SUBSET Book!Rows
    BY DEF RowsOfRole, BindingsOf
  <2>2. \A x \in bound : x \notin RowsOfRole(base)
    BY DEF RowsOfRole, Book!BindingRow
  <2>3. BindingsOf(q.id) \cup RowsOfRole(base) = Book!Scope(q)
    BY DEF RowsOfRole, BindingsOf, Book!Scope, Book!Rows, Book!PermissionRow,
           Book!BindingRow
  <2>4. given \cup bound = Book!Listed(q)
    BY DEF Book!Listed
  <2>5. \A x \in bound, y \in given : Before("role_bindings", x, y)
    <3>1. \A r \in Book!Elements(q.roles) : r \in Roles
      BY <1>2 DEF Book!Elements
    <3>2. QED
      BY <1>2, <3>1, TablesInTurn
  <2>6. QED
    BY <2>1, <2>2, <2>3, <2>4, <2>5
<1> DEFINE gone == BindingsOf(q.id)
           old  == RowsOfRole(base)
           Safe(s) == Ordered(q) => Rising("role_bindings", s)
<1>4. Piece(A, {}, gone) /\ SavesFirst(A) /\ Safe(A)
  BY <1>3, SaveAndDelete DEF Piece
<1>5. Piece(B, bound, {}) /\ SaveFree(B) /\ Safe(B)
  <2>1. PICK a \in Accounts, r0 \in Roles, s \in Seq(Roles) : a = q.id /\ r0 = base /\ s = q.roles
    BY <1>2
  <2>2. B = [i \in DOMAIN s |-> IF s[i] = r0 THEN Skip ELSE Bind(Book!BindingRow(s[i], a))]
    BY <2>1
  <2>3. /\ DOMAIN B = DOMAIN s /\ B = [i \in DOMAIN B |-> B[i]]
         /\ \A i \in DOMAIN s :
              B[i] = IF s[i] = r0 THEN Skip ELSE Bind(Book!BindingRow(s[i], a))
    BY <2>2
  <2> HIDE DEF B
  <2>4. /\ B \in Seq(Stmt)
        /\ Puts(B) = {Book!BindingRow(r, a) : r \in Book!Elements(s) \ {r0}}
        /\ Cuts(B) = {} /\ NeverBack(B) /\ SaveFree(B)
        /\ InOrder(s) => \A b : Rising(b, B)
    BY <2>3, EachRole
  <2>5. QED
    BY <2>1, <2>4 DEF Ordered, Piece
<1>6. Piece(C, {}, old) /\ SaveFree(C) /\ Safe(C)
  BY <1>3, OneDelete DEF Piece
<1>7. Piece(D, given, {}) /\ SaveFree(D) /\ Safe(D)
  BY <1>2, EachPermission DEF Ordered, Piece
<1> HIDE DEF A, B, C, D, given, bound, base
<1>8. PICK S1 : S1 = A \o B
  OBVIOUS
<1>9. Piece(S1, bound, gone) /\ SavesFirst(S1) /\ Safe(S1)
  <2>1. Piece(A \o B, {} \cup bound, gone \cup {})
    BY <1>4, <1>5, JoinPieces
  <2>2. SavesFirst(A \o B)
    BY <1>4, <1>5, JoinKinds DEF Piece
  <2>3. Safe(A \o B)
    BY <1>4, <1>5, JoinOrdered DEF Piece
  <2>4. QED
    BY <1>8, <2>1, <2>2, <2>3
<1>10. PICK S2 : S2 = S1 \o C
  OBVIOUS
<1>11. Piece(S2, bound, gone \cup old) /\ SavesFirst(S2) /\ Safe(S2)
  <2>1. Piece(S1 \o C, bound \cup {}, gone \cup old)
    BY <1>3, <1>6, <1>9, JoinPieces
  <2>2. SavesFirst(S1 \o C)
    BY <1>3, <1>6, <1>9, JoinKinds DEF Piece
  <2>3. Safe(S1 \o C)
    BY <1>3, <1>6, <1>9, JoinOrdered DEF Piece
  <2>4. QED
    BY <1>10, <2>1, <2>2, <2>3
<1>12. P = S2 \o D
  BY <1>1, <1>8, <1>10
<1>13. Piece(P, bound \cup given, gone \cup old) /\ SavesFirst(P) /\ Safe(P)
  <2>1. Piece(S2 \o D, bound \cup given, (gone \cup old) \cup {})
    BY <1>3, <1>7, <1>11, JoinPieces
  <2>2. SavesFirst(S2 \o D)
    BY <1>3, <1>7, <1>11, JoinKinds DEF Piece
  <2>3. Safe(S2 \o D)
    BY <1>3, <1>7, <1>11, JoinOrdered DEF Piece
  <2>4. QED
    BY <1>12, <2>1, <2>2, <2>3
<1>14. QED
  BY <1>3, <1>13 DEF ProgramOK, Piece

\* Permissions.Attribute: roles outside, permissions inside.
LEMMA AttributeProgram ==
  ASSUME NEW q \in Requests, q.op = "attribute", NEW P, P = Program[q]
  PROVE  /\ ProgramOK(q, P)
         /\ Ordered(q) => \A b : Rising(b, P)
<1>1. q.perms \in Seq(Perms) /\ q.roles \in Seq(Roles)
  BY RequestFields
<1>2. PICK n \in Nat, m \in Nat : n = Len(q.perms) /\ m = Len(q.roles)
  BY <1>1
<1>3. PICK I, outer, inner :
        /\ I = 1..(m * n)
        /\ outer = [i \in I |-> ((i - 1) \div n) + 1]
        /\ inner = [i \in I |-> ((i - 1) % n) + 1]
  OBVIOUS
<1>4. m * n \in Nat
  OBVIOUS
<1>5. /\ \A i \in I : /\ outer[i] \in DOMAIN q.roles /\ inner[i] \in DOMAIN q.perms
                      /\ outer[i] \in 1..m /\ inner[i] \in 1..n
      /\ \A j \in DOMAIN q.roles, k \in DOMAIN q.perms :
           \E i \in I : outer[i] = j /\ inner[i] = k
      /\ \A i, j \in I : i < j =>
           \/ outer[i] < outer[j]
           \/ outer[i] = outer[j] /\ inner[i] < inner[j]
  <2>1. DOMAIN q.roles = 1..m /\ DOMAIN q.perms = 1..n
    BY <1>1, <1>2
  <2>2. \A i \in I : /\ outer[i] = ((i - 1) \div n) + 1
                    /\ inner[i] = ((i - 1) % n) + 1
    BY <1>3
  <2>3. /\ \A i \in I : outer[i] \in 1..m /\ inner[i] \in 1..n
        /\ \A j \in 1..m, k \in 1..n : \E i \in I : outer[i] = j /\ inner[i] = k
    <3>1. \A i \in I : /\ ((i - 1) \div n) + 1 \in 1..m
                      /\ ((i - 1) % n) + 1 \in 1..n
      BY <1>3, Nested
    <3>2. \A j \in 1..m, k \in 1..n :
            \E i \in I : ((i - 1) \div n) + 1 = j /\ ((i - 1) % n) + 1 = k
      <4>1. \A j \in 1..m, k \in 1..n : \E i \in 1..(m * n) :
              ((i - 1) \div n) + 1 = j /\ ((i - 1) % n) + 1 = k
        BY Nested, Zenon
      <4>2. QED
        BY <1>3, <4>1
    <3>3. QED
      BY <2>2, <3>1, <3>2
  <2>4. ASSUME NEW i \in I, NEW j \in I, i < j
        PROVE  \/ outer[i] < outer[j]
               \/ outer[i] = outer[j] /\ inner[i] < inner[j]
    <3>1. \/ (i - 1) \div n < (j - 1) \div n
          \/ (i - 1) \div n = (j - 1) \div n /\ (i - 1) % n < (j - 1) % n
      BY <1>3, <2>4, Nested
    <3>2. n # 0 /\ i \in Nat /\ j \in Nat /\ i > 0 /\ j > 0
      BY <1>3, <1>4
    <3>3. QED
      BY <2>2, <3>1, <3>2
  <2>5. QED
    BY <2>1, <2>3, <2>4
<1>6. /\ DOMAIN P = I
      /\ P = [i \in I |-> P[i]]
      /\ \A i \in I :
           /\ q.roles[outer[i]] \in Roles /\ q.perms[inner[i]] \in Perms
           /\ P[i] = Insert(Book!PermissionRow(q.roles[outer[i]], q.perms[inner[i]]))
  <2>1. P = [i \in I |-> Insert(Book!PermissionRow(q.roles[((i - 1) \div n) + 1],
                                                    q.perms[((i - 1) % n) + 1]))]
    BY <1>2, <1>3 DEF Program, Attribute
  <2>2. \A i \in I : P[i] = Insert(Book!PermissionRow(q.roles[outer[i]], q.perms[inner[i]]))
    BY <1>3, <2>1
  <2>3. \A i \in I : q.roles[outer[i]] \in Roles /\ q.perms[inner[i]] \in Perms
    BY <1>1, <1>5
  <2>4. QED
    BY <2>1, <2>2, <2>3
<1> DEFINE Row(i) == Book!PermissionRow(q.roles[outer[i]], q.perms[inner[i]])
<1>7. ASSUME NEW i \in I
       PROVE  P[i] \in Stmt /\ P[i].do = "insert" /\ P[i].row = Row(i)
  <2>1. PICK x \in Book!Rows : x = Row(i)
    BY <1>6 DEF Book!Rows
  <2>2. PICK s : s = P[i]
    OBVIOUS
  <2>3. s = [do |-> "insert", row |-> x, strict |-> FALSE]
    BY <1>6, <2>1, <2>2 DEF Insert
  <2>4. s \in Stmt /\ s.do = "insert" /\ s.row = x
    BY <2>3 DEF Stmt
  <2>5. QED
    BY <2>1, <2>2, <2>4
<1>8. P \in Seq(Stmt)
  <2>1. \A i \in DOMAIN P : P[i] \in Stmt
    BY <1>6, <1>7
  <2>2. P = [i \in DOMAIN P |-> P[i]]
    BY <1>6
  <2>3. QED
    BY <1>3, <1>4, <1>6, <2>1, <2>2, FunSeq
<1>9. \A i \in I : \A x : Adds(P, i, x) <=>
        x = Book!PermissionRow(q.roles[outer[i]], q.perms[inner[i]])
  BY <1>7 DEF Adds
<1>10. Puts(P) = Book!Listed(q)
  <2>1. Book!Listed(q) = {Book!PermissionRow(r, p) : r \in Book!Elements(q.roles),
                                                    p \in Book!Elements(q.perms)}
    BY DEF Book!Listed
  <2>2. ASSUME NEW x \in Puts(P) PROVE x \in Book!Listed(q)
    <3>1. PICK i \in I : x = Book!PermissionRow(q.roles[outer[i]], q.perms[inner[i]])
      BY <1>6, <1>9 DEF Puts
    <3>2. outer[i] \in DOMAIN q.roles /\ inner[i] \in DOMAIN q.perms
      BY <1>5
    <3>3. QED
      BY <2>1, <3>1, <3>2 DEF Book!Elements
  <2>3. ASSUME NEW x \in Book!Listed(q) PROVE x \in Puts(P)
    <3>1. PICK j \in DOMAIN q.roles, k \in DOMAIN q.perms :
            x = Book!PermissionRow(q.roles[j], q.perms[k])
      BY <2>1 DEF Book!Elements
    <3>2. PICK i \in I : outer[i] = j /\ inner[i] = k
      BY <1>5
    <3>3. x \in Book!Rows
      BY <1>1, <3>1 DEF Book!Rows
    <3>4. QED
      BY <1>6, <1>9, <3>1, <3>2, <3>3 DEF Puts
  <2>4. QED
    BY <2>2, <2>3
<1>11. \A i \in DOMAIN P : P[i].do \notin {"delete", "save"}
  BY <1>6, <1>7
<1>12. Cuts(P) = {} /\ NeverBack(P) /\ SaveFree(P)
  BY <1>11 DEF Cuts, Takes, NeverBack, SaveFree, Saving
<1>13. Book!Scope(q) = {}
  BY DEF Book!Scope
<1>14. ASSUME Ordered(q), NEW b PROVE Rising(b, P)
  <2> SUFFICES ASSUME NEW i \in I, NEW j \in I, NEW x \in Book!Rows,
                      NEW y \in Book!Rows, i < j, Adds(P, i, x), Adds(P, j, y)
               PROVE  Before(b, x, y)
    BY <1>6 DEF Rising
  <2>1. /\ x = Book!PermissionRow(q.roles[outer[i]], q.perms[inner[i]])
        /\ y = Book!PermissionRow(q.roles[outer[j]], q.perms[inner[j]])
    BY <1>9
  <2>2. \/ outer[i] < outer[j]
        \/ outer[i] = outer[j] /\ inner[i] < inner[j]
    BY <1>5
  <2>3. /\ outer[i] \in DOMAIN q.roles /\ inner[i] \in DOMAIN q.perms
        /\ outer[j] \in DOMAIN q.roles /\ inner[j] \in DOMAIN q.perms
    BY <1>5
  <2>4. \/ Rank[q.roles[outer[i]]] < Rank[q.roles[outer[j]]]
        \/ /\ q.roles[outer[i]] = q.roles[outer[j]]
           /\ Rank[q.perms[inner[i]]] < Rank[q.perms[inner[j]]]
    BY <1>14, <2>2, <2>3 DEF Ordered, InOrder
  <2>5. QED
    BY <2>1, <2>4 DEF Before, Book!PermissionRow
<1>15. QED
  BY <1>8, <1>10, <1>12, <1>13, <1>14 DEF ProgramOK

\* Who gives or takes one permission names it and its role.
LEMMA OneRole ==
  ASSUME NEW q \in Requests, q.op \in {"createPermission", "deletePermission"}
  PROVE  q.id \in Roles /\ q.perms[1] \in Perms
<1>1. q.id \in Roles /\ q.perms # <<>> /\ q.perms \in Seq(Perms)
  BY RequestFields DEF WellFormed
<1>2. QED
  BY <1>1

\* Requests of one statement.
LEMMA ShortPrograms ==
  ASSUME NEW q \in Requests, NEW P, P = Program[q],
         q.op \in {"createPermission", "deletePermission", "login", "updateService"}
  PROVE  ProgramOK(q, P) /\ \A b : Rising(b, P)
<1>1. CASE q.op = "createPermission"
  <2> DEFINE row == Book!PermissionRow(q.id, q.perms[1])
  <2>1. P = <<Insert(row)>>
    BY <1>1 DEF Program, CreatePermission
  <2>2. row \in Book!Rows
    <3>1. q.id \in Roles /\ q.perms[1] \in Perms
      BY <1>1, OneRole
    <3>2. QED
      BY <3>1 DEF Book!Rows
  <2>3. Book!Listed(q) = {row} /\ Book!Scope(q) = {}
    BY <1>1 DEF Book!Listed, Book!Scope
  <2> HIDE DEF row
  <2>4. P \in Seq(Stmt) /\ DOMAIN P = {1} /\ P[1] = Insert(row)
    BY <2>1, <2>2 DEF Stmt, Insert
  <2>5. /\ Puts(P) = {row} /\ Cuts(P) = {} /\ NeverBack(P) /\ SaveFree(P)
        /\ \A b : Rising(b, P)
    BY <2>2, <2>4
       DEF Puts, Adds, Cuts, Takes, NeverBack, SaveFree, Saving, Insert, Rising
  <2>6. QED
    BY <1>1, <2>3, <2>4, <2>5 DEF ProgramOK
<1>2. CASE q.op = "deletePermission"
  <2> DEFINE row == Book!PermissionRow(q.id, q.perms[1])
  <2>1. P = <<Delete({row})>>
    BY <1>2 DEF Program, DeletePermission
  <2>2. {row} \in SUBSET Book!Rows
    <3>1. q.id \in Roles /\ q.perms[1] \in Perms
      BY <1>2, OneRole
    <3>2. QED
      BY <3>1 DEF Book!Rows
  <2>3. Book!Listed(q) = {} /\ Book!Scope(q) = {row}
    BY <1>2 DEF Book!Listed, Book!Scope
  <2> HIDE DEF row
  <2>4. QED
    BY <1>2, <2>1, <2>2, <2>3, OneDelete DEF ProgramOK
<1>3. CASE q.op \in {"login", "updateService"}
  <2>1. P = <<Save>>
    BY <1>3 DEF Program, WriteBack
  <2>2. Book!Listed(q) = {} /\ Book!Scope(q) = {}
    BY <1>3 DEF Book!Listed, Book!Scope
  <2>3. QED
    BY <1>3, <2>1, <2>2, OneSave DEF ProgramOK
<1>4. QED
  BY <1>1, <1>2, <1>3

\* What is used of the programs from here on.
LEMMA Programs ==
  ASSUME NEW q \in Requests
  PROVE  /\ ProgramOK(q, Program[q])
         /\ Ordered(q) /\ q.op # "updateAccount" => Rising("permissions", Program[q])
         /\ Ordered(q) /\ q.op # "updateRole" => Rising("role_bindings", Program[q])
  BY RequestFields, RoleProgram, AccountProgram, AttributeProgram, ShortPrograms
-----------------------------------------------------------------------------
(* A transaction and what it has done so far *)

\* Statement i of transaction t has had its effect on what t wrote.
Done(t, i) == i < t.pc \/ (i = t.pc /\ t.half = 2)

\* What t has written, by the rows R that are committed and what its history h
\* tells of the other requests:
\* only a DELETE under way has picked rows, some of those it speaks of;
PickedOK(t) ==
  t.picked # {} => /\ t.pc \in DOMAIN Program[t.req] /\ t.half = 2
                   /\ \A x \in t.picked : Takes(Program[t.req], t.pc, x)

\* what it takes away is committed, and is not its own;
TakenOK(t, R) ==
  /\ t.deleted \subseteq R
  /\ t.picked \subseteq R \ t.deleted
  /\ t.picked \cap t.inserted = {}
  /\ t.deleted \subseteq Book!Scope(t.req)

\* it has inserted nothing but what its INSERTs so far list;
InsertedOK(t) ==
  \A x \in t.inserted : \E i \in DOMAIN Program[t.req] :
    Adds(Program[t.req], i, x) /\ Done(t, i)

\* what its DELETEs so far speak of is gone, or others have put it there;
GoneOK(t, h, R) ==
  \A i \in DOMAIN Program[t.req], x \in R :
    Takes(Program[t.req], i, x) /\ Done(t, i) => x \in t.deleted \cup t.picked \cup h.put

\* and what its INSERTs so far list is there, or others have taken it away.
ThereOK(t, h, R) ==
  \A i \in DOMAIN Program[t.req], x \in Book!Rows :
    Adds(Program[t.req], i, x) /\ Done(t, i)
      => x \in t.inserted \cup (R \ t.deleted) \cup h.taken

\* It has saved if its UPDATE was reached, and then what it read first, but for
\* the columns it sets; that was committed since it began.
SavedOK(t, h) ==
  /\ t.saved <=> \E i \in DOMAIN Program[t.req] : Saving(Program[t.req], i) /\ Done(t, i)
  /\ t.saved => t.new = Book!Over(t.seen, Book!Sets(t.req))
  /\ t.seen \in h.past
  /\ t.seen \in [Book!Columns(t.req.id) -> Values]

OwnOK(t, h, R) ==
  /\ PickedOK(t) /\ TakenOK(t, R) /\ InsertedOK(t)
  /\ GoneOK(t, h, R) /\ ThereOK(t, h, R) /\ SavedOK(t, h)

\* u is t but for the fields named in F.
Like(t, u, F) ==
  /\ t \in Tx /\ u \in Tx
  /\ u.req = t.req /\ u.seen = t.seen
  /\ "pc" \in F \/ u.pc = t.pc
  /\ "half" \in F \/ u.half = t.half
  /\ "picked" \in F \/ u.picked = t.picked
  /\ "inserted" \in F \/ u.inserted = t.inserted
  /\ "deleted" \in F \/ u.deleted = t.deleted
  /\ "saved" \in F \/ (u.saved = t.saved /\ u.new = t.new)

LEMMA TxFields ==
  ASSUME NEW t \in Tx
  PROVE  /\ t.req \in Requests /\ t.pc \in Nat /\ t.pc > 0 /\ t.half \in {1, 2}
         /\ t.picked \subseteq Book!Rows /\ t.inserted \subseteq Book!Rows
         /\ t.deleted \subseteq Book!Rows /\ t.saved \in BOOLEAN
         /\ DOMAIN Program[t.req] = 1..Len(Program[t.req])
         /\ Len(Program[t.req]) \in Nat
         /\ DOMAIN Program[t.req] \subseteq Nat
         /\ \A i \in DOMAIN Program[t.req] : Program[t.req][i] \in Stmt
<1>1. t.req \in Requests
  BY DEF Tx
<1>2. Program[t.req] \in Seq(Stmt)
  BY <1>1, Programs DEF ProgramOK
<1>3. QED
  BY <1>1, <1>2 DEF Tx

LEMMA OnlySave ==
  ASSUME NEW q \in Requests, NEW i \in DOMAIN Program[q], Saving(Program[q], i)
  PROVE  /\ Book!Saves(q)
         /\ \A j \in DOMAIN Program[q] : Saving(Program[q], j) => j = i
<1>1. ProgramOK(q, Program[q]) /\ DOMAIN Program[q] \subseteq Nat
  <2>1. ProgramOK(q, Program[q])
    BY Programs
  <2>2. Program[q] \in Seq(Stmt)
    BY <2>1 DEF ProgramOK
  <2>3. QED
    BY <2>1, <2>2
<1>2. Book!Saves(q)
  BY <1>1, RequestFields DEF ProgramOK, SaveFree, Book!Saves
<1>3. SavesFirst(Program[q]) \/ SavesLast(Program[q])
  BY <1>1, <1>2 DEF ProgramOK, Book!Saves
<1>4. QED
  BY <1>1, <1>2, <1>3 DEF SavesFirst, SavesLast

\* The UPDATE of t has entered its keys.
Entered(t) ==
  t.saved /\ \E i \in DOMAIN Program[t.req] : Saving(Program[t.req], i) /\ i < t.pc

\* If it has in u it had so before, or that is what it was doing.
Kept(t, u) ==
  Entered(u) => /\ u.new = t.new
                /\ Entered(t) \/ (Program[t.req][t.pc].do = "save" /\ t.half = 2)

LEMMA KeptOnTheWay ==
  ASSUME NEW t, NEW u, NEW F, Like(t, u, F), "saved" \notin F,
         t.pc \in DOMAIN Program[t.req],
         u.pc = t.pc \/ u.pc = t.pc + 1,
         Program[t.req][t.pc].do # "save" \/ t.half = 2
  PROVE  Kept(t, u)
<1>1. t \in Tx /\ u.req = t.req /\ u.saved = t.saved /\ u.new = t.new
  BY DEF Like
<1>2. DOMAIN Program[t.req] \subseteq Nat /\ t.pc \in Nat
  BY <1>1, TxFields
<1>3. QED
  BY <1>1, <1>2 DEF Kept, Entered, Saving

\* A statement that was half done is done.
LEMMA OwnGoesOn ==
  ASSUME NEW t, NEW u, NEW h, NEW R, Like(t, u, {"pc", "half"}), OwnOK(t, h, R),
         t.half = 2, t.picked = {}, u.pc = t.pc + 1, u.half = 1
  PROVE  OwnOK(u, h, R)
<1>1. u.req = t.req /\ u.picked = {} /\ u.inserted = t.inserted /\ u.deleted = t.deleted
        /\ u.saved = t.saved /\ u.new = t.new /\ u.seen = t.seen
  BY DEF Like
<1>2. \A i \in DOMAIN Program[t.req] : Done(u, i) <=> Done(t, i)
  BY TxFields DEF Done, Like
<1>3. PickedOK(u) /\ TakenOK(u, R) /\ InsertedOK(u)
  BY <1>1, <1>2 DEF OwnOK, PickedOK, TakenOK, InsertedOK
<1>4. GoneOK(u, h, R) /\ ThereOK(u, h, R)
  BY <1>1, <1>2 DEF OwnOK, GoneOK, ThereOK
<1>5. SavedOK(u, h)
  BY <1>1, <1>2 DEF OwnOK, SavedOK
<1>6. QED
  BY <1>3, <1>4, <1>5 DEF OwnOK

\* A statement that has no effect is done: a skip, or an INSERT of a row that
\* is there.
LEMMA OwnPasses ==
  ASSUME NEW t, NEW u, NEW h, NEW R, Like(t, u, {"pc"}), OwnOK(t, h, R),
         t.pc \in DOMAIN Program[t.req], t.half = 1, u.pc = t.pc + 1,
         LET s == Program[t.req][t.pc]
         IN  \/ s.do = "skip"
             \/ s.do = "insert" /\ s.row \in (R \ t.deleted) \cup t.inserted
  PROVE  OwnOK(u, h, R)
<1>1. /\ u.req = t.req /\ u.picked = t.picked /\ u.inserted = t.inserted
      /\ u.deleted = t.deleted /\ u.saved = t.saved /\ u.new = t.new /\ u.seen = t.seen
      /\ u.half = 1
  BY DEF Like
<1>2. t.picked = {}
  BY DEF OwnOK, PickedOK
<1>3. \A i \in DOMAIN Program[t.req] : Done(u, i) <=> Done(t, i) \/ i = t.pc
  BY <1>1, TxFields DEF Done, Like
<1>4. ASSUME NEW x
      PROVE  /\ ~ Takes(Program[t.req], t.pc, x) /\ ~ Saving(Program[t.req], t.pc)
             /\ Adds(Program[t.req], t.pc, x) => x \in (R \ t.deleted) \cup t.inserted
  BY DEF Takes, Saving, Adds
<1>5. PickedOK(u) /\ TakenOK(u, R) /\ InsertedOK(u)
  BY <1>1, <1>2, <1>3 DEF OwnOK, PickedOK, TakenOK, InsertedOK
<1>6. GoneOK(u, h, R) /\ ThereOK(u, h, R)
  BY <1>1, <1>3, <1>4 DEF OwnOK, GoneOK, ThereOK
<1>7. SavedOK(u, h)
  BY <1>1, <1>3, <1>4 DEF OwnOK, SavedOK
<1>8. QED
  BY <1>5, <1>6, <1>7 DEF OwnOK

\* A row is inserted that was not there.
LEMMA OwnInserts ==
  ASSUME NEW t, NEW u, NEW h, NEW R, Like(t, u, {"half", "inserted"}), OwnOK(t, h, R),
         t.pc \in DOMAIN Program[t.req], t.half = 1, u.half = 2,
         Program[t.req][t.pc].do = "insert",
         u.inserted = t.inserted \cup {Program[t.req][t.pc].row}
  PROVE  OwnOK(u, h, R)
<1> DEFINE row == Program[t.req][t.pc].row
<1>1. /\ u.req = t.req /\ u.picked = t.picked /\ u.deleted = t.deleted
      /\ u.saved = t.saved /\ u.new = t.new /\ u.seen = t.seen /\ u.pc = t.pc
  BY DEF Like
<1>2. t.picked = {}
  BY DEF OwnOK, PickedOK
<1>3. \A i \in DOMAIN Program[t.req] : Done(u, i) <=> Done(t, i) \/ i = t.pc
  BY <1>1, TxFields DEF Done, Like
<1>4. ASSUME NEW x
      PROVE  /\ ~ Takes(Program[t.req], t.pc, x) /\ ~ Saving(Program[t.req], t.pc)
             /\ Adds(Program[t.req], t.pc, x) <=> x = row
  BY DEF Takes, Saving, Adds
<1>5. PickedOK(u) /\ TakenOK(u, R)
  BY <1>1, <1>2 DEF OwnOK, PickedOK, TakenOK
<1>6. InsertedOK(u)
  BY <1>1, <1>3, <1>4 DEF OwnOK, InsertedOK
<1>7. GoneOK(u, h, R) /\ ThereOK(u, h, R)
  BY <1>1, <1>3, <1>4 DEF OwnOK, GoneOK, ThereOK
<1>8. SavedOK(u, h)
  BY <1>1, <1>3, <1>4 DEF OwnOK, SavedOK
<1>9. QED
  BY <1>5, <1>6, <1>7, <1>8 DEF OwnOK

\* A DELETE picks the rows it sees: none of them its own, since no program
\* deletes what it inserted.
LEMMA OwnPicks ==
  ASSUME NEW t, NEW u, NEW h, NEW R, Like(t, u, {"half", "picked"}), OwnOK(t, h, R),
         t.pc \in DOMAIN Program[t.req], t.half = 1, u.half = 2,
         Program[t.req][t.pc].do = "delete",
         u.picked = Program[t.req][t.pc].rows \cap ((R \ t.deleted) \cup t.inserted)
  PROVE  OwnOK(u, h, R)
<1>1. /\ u.req = t.req /\ u.inserted = t.inserted /\ u.deleted = t.deleted
      /\ u.saved = t.saved /\ u.new = t.new /\ u.seen = t.seen /\ u.pc = t.pc
  BY DEF Like
<1>2. \A i \in DOMAIN Program[t.req] : Done(u, i) <=> Done(t, i) \/ i = t.pc
  BY <1>1, TxFields DEF Done, Like
<1>3. ASSUME NEW x
      PROVE  /\ ~ Adds(Program[t.req], t.pc, x) /\ ~ Saving(Program[t.req], t.pc)
             /\ Takes(Program[t.req], t.pc, x) <=> x \in Program[t.req][t.pc].rows
  BY DEF Takes, Saving, Adds
<1>4. u.picked \cap t.inserted = {}
  <2> SUFFICES ASSUME NEW x \in t.inserted, x \in u.picked PROVE FALSE
    OBVIOUS
  <2>1. PICK i \in DOMAIN Program[t.req] : Adds(Program[t.req], i, x) /\ Done(t, i)
    BY DEF OwnOK, InsertedOK
  <2>2. x \in Book!Rows /\ Takes(Program[t.req], t.pc, x)
    BY <1>3, TxFields DEF Like
  <2>3. NeverBack(Program[t.req])
    BY TxFields, Programs DEF Like, ProgramOK
  <2>4. t.pc < i
    BY <2>1, <2>2, <2>3 DEF NeverBack
  <2>5. QED
    BY <2>1, <2>4, TxFields DEF Done, Like
<1>5. PickedOK(u)
  BY <1>1, <1>3 DEF PickedOK
<1>6. TakenOK(u, R)
  BY <1>1, <1>4 DEF OwnOK, TakenOK
<1>7. InsertedOK(u)
  BY <1>1, <1>2 DEF OwnOK, InsertedOK
<1>8. GoneOK(u, h, R)
  <2> SUFFICES ASSUME NEW i \in DOMAIN Program[t.req], NEW x \in R,
                      Takes(Program[t.req], i, x), Done(u, i)
               PROVE  x \in u.deleted \cup u.picked \cup h.put
    BY <1>1 DEF GoneOK
  <2>1. t.picked = {}
    BY DEF OwnOK, PickedOK
  <2>2. QED
    BY <1>1, <1>2, <1>3, <2>1 DEF OwnOK, GoneOK
<1>9. ThereOK(u, h, R)
  BY <1>1, <1>2, <1>3 DEF OwnOK, ThereOK
<1>10. SavedOK(u, h)
  BY <1>1, <1>2, <1>3 DEF OwnOK, SavedOK
<1>11. QED
  BY <1>5, <1>6, <1>7, <1>8, <1>9, <1>10 DEF OwnOK

\* ... and removes them.
LEMMA OwnRemoves ==
  ASSUME NEW t, NEW u, NEW h, NEW R,
         Like(t, u, {"pc", "half", "picked", "inserted", "deleted"}), OwnOK(t, h, R),
         t.pc \in DOMAIN Program[t.req], t.half = 2, u.half = 1, u.pc = t.pc + 1,
         Program[t.req][t.pc].do = "delete",
         u.deleted = t.deleted \cup t.picked, u.inserted = t.inserted \ t.picked,
         u.picked = {}
  PROVE  OwnOK(u, h, R)
<1>1. u.req = t.req /\ u.saved = t.saved /\ u.new = t.new /\ u.seen = t.seen
  BY DEF Like
<1>2. \A i \in DOMAIN Program[t.req] : Done(u, i) <=> Done(t, i)
  BY TxFields DEF Done, Like
<1>3. u.inserted = t.inserted
  BY DEF OwnOK, TakenOK
<1>4. \A x \in t.picked : x \in Book!Scope(t.req)
  <2>1. ProgramOK(t.req, Program[t.req])
    BY TxFields, Programs DEF Like
  <2>2. \A x \in t.picked : x \in Cuts(Program[t.req])
    BY TxFields DEF OwnOK, PickedOK, Cuts, Like
  <2>3. QED
    BY <2>1, <2>2 DEF ProgramOK
<1>5. PickedOK(u) /\ TakenOK(u, R)
  BY <1>1, <1>3, <1>4 DEF OwnOK, PickedOK, TakenOK
<1>6. InsertedOK(u)
  BY <1>1, <1>2, <1>3 DEF OwnOK, InsertedOK
<1>7. GoneOK(u, h, R)
  BY <1>1, <1>2 DEF OwnOK, GoneOK
<1>8. ThereOK(u, h, R)
  <2> SUFFICES ASSUME NEW i \in DOMAIN Program[t.req], NEW x \in Book!Rows,
                      Adds(Program[t.req], i, x), Done(t, i)
               PROVE  x \in u.inserted \cup (R \ u.deleted) \cup h.taken
    BY <1>1, <1>2 DEF ThereOK
  <2>1. x \notin t.picked
    <3> SUFFICES ASSUME x \in t.picked PROVE FALSE
      OBVIOUS
    <3>1. Takes(Program[t.req], t.pc, x)
      BY DEF OwnOK, PickedOK
    <3>2. NeverBack(Program[t.req])
      BY TxFields, Programs DEF Like, ProgramOK
    <3>3. t.pc < i
      BY <3>1, <3>2 DEF NeverBack
    <3>4. QED
      BY <3>3, TxFields DEF Done, Like
  <2>2. x \in t.inserted \cup (R \ t.deleted) \cup h.taken
    BY DEF OwnOK, ThereOK
  <2>3. QED
    BY <1>3, <2>1, <2>2
<1>9. SavedOK(u, h)
  BY <1>1, <1>2 DEF OwnOK, SavedOK
<1>10. QED
  BY <1>5, <1>6, <1>7, <1>8, <1>9 DEF OwnOK

\* The record is saved.
LEMMA OwnSaves ==
  ASSUME NEW t, NEW u, NEW h, NEW R, Like(t, u, {"half", "saved"}), OwnOK(t, h, R),
         t.pc \in DOMAIN Program[t.req], t.half = 1, u.half = 2,
         Program[t.req][t.pc].do = "save",
         u.saved = TRUE, u.new = Book!Over(t.seen, Book!Sets(t.req))
  PROVE  OwnOK(u, h, R)
<1>1. /\ u.req = t.req /\ u.picked = t.picked /\ u.inserted = t.inserted
      /\ u.deleted = t.deleted /\ u.seen = t.seen /\ u.pc = t.pc
  BY DEF Like
<1>2. t.picked = {}
  BY DEF OwnOK, PickedOK
<1>3. \A i \in DOMAIN Program[t.req] : Done(u, i) <=> Done(t, i) \/ i = t.pc
  BY <1>1, TxFields DEF Done, Like
<1>4. ASSUME NEW x
      PROVE  /\ ~ Takes(Program[t.req], t.pc, x) /\ ~ Adds(Program[t.req], t.pc, x)
             /\ Saving(Program[t.req], t.pc)
  BY DEF Takes, Saving, Adds
<1>5. PickedOK(u) /\ TakenOK(u, R) /\ InsertedOK(u)
  BY <1>1, <1>2, <1>3 DEF OwnOK, PickedOK, TakenOK, InsertedOK
<1>6. GoneOK(u, h, R) /\ ThereOK(u, h, R)
  BY <1>1, <1>3, <1>4 DEF OwnOK, GoneOK, ThereOK
<1>7. SavedOK(u, h)
  BY <1>1, <1>3, <1>4 DEF OwnOK, SavedOK
<1>8. QED
  BY <1>5, <1>6, <1>7 DEF OwnOK

\* A transaction that begins has done nothing.
LEMMA OwnBegins ==
  ASSUME NEW u \in Tx, NEW h, NEW R, u.pc = 1, u.half = 1,
         u.picked = {}, u.inserted = {}, u.deleted = {}, u.saved = FALSE,
         u.seen \in h.past, u.seen \in [Book!Columns(u.req.id) -> Values]
  PROVE  OwnOK(u, h, R)
<1>1. \A i \in DOMAIN Program[u.req] : ~ Done(u, i)
  BY TxFields DEF Done
<1>2. QED
  BY <1>1 DEF OwnOK, PickedOK, TakenOK, InsertedOK, GoneOK, ThereOK, SavedOK

\* History g of request q is h and what of a commit that changes the rows from
\* R to S, inserting I, replaces or takes away rows q is about.
Tells(g, h, q, R, S, I) ==
  /\ \A x \in I : x \in Book!Scope(q) => x \in g.put
  /\ \A x \in R \ S : x \in Book!Listed(q) => x \in g.taken
  /\ h.put \subseteq g.put /\ h.taken \subseteq g.taken /\ h.past \subseteq g.past

\* Another transaction commits that deleted D and inserted I.
Meets(t, u, h, g, R, S, D, I) ==
  /\ Like(t, u, {"picked"}) /\ OwnOK(t, h, R)
  /\ R \subseteq Book!Rows /\ I \subseteq Book!Rows
  /\ S = (R \ D) \cup I
  /\ t.deleted \cap D = {} /\ u.picked = t.picked \ D
  /\ Tells(g, h, t.req, R, S, I)

LEMMA OwnMeets ==
  ASSUME NEW t, NEW u, NEW h, NEW g, NEW R, NEW S, NEW D, NEW I,
         Meets(t, u, h, g, R, S, D, I)
  PROVE  OwnOK(u, g, S)
<1> USE DEF Tells, Meets
<1>1. /\ u.req = t.req /\ u.inserted = t.inserted /\ u.deleted = t.deleted
      /\ u.saved = t.saved /\ u.new = t.new /\ u.seen = t.seen /\ u.pc = t.pc
      /\ u.half = t.half
  BY DEF Like
<1>2. \A i \in DOMAIN Program[t.req] : Done(u, i) <=> Done(t, i)
  BY <1>1 DEF Done
<1>3. /\ \A i \in DOMAIN Program[t.req], x \in Book!Rows :
           /\ Takes(Program[t.req], i, x) => x \in Book!Scope(t.req)
           /\ Adds(Program[t.req], i, x) => x \in Book!Listed(t.req)
  BY TxFields, Programs DEF Like, ProgramOK, Puts, Cuts
<1>4. PickedOK(u) /\ TakenOK(u, S) /\ InsertedOK(u)
  BY <1>1, <1>2 DEF OwnOK, PickedOK, TakenOK, InsertedOK
<1>5. GoneOK(u, g, S)
  <2> SUFFICES ASSUME NEW i \in DOMAIN Program[t.req], NEW x \in S,
                      Takes(Program[t.req], i, x), Done(t, i)
               PROVE  x \in u.deleted \cup u.picked \cup g.put
    BY <1>1, <1>2 DEF GoneOK
  <2>1. CASE x \in I
    BY <1>3, <2>1
  <2>2. CASE x \in R \ D
    BY <1>1, <2>2 DEF OwnOK, GoneOK
  <2>3. QED
    BY <2>1, <2>2
<1>6. ThereOK(u, g, S)
  <2> SUFFICES ASSUME NEW i \in DOMAIN Program[t.req], NEW x \in Book!Rows,
                      Adds(Program[t.req], i, x), Done(t, i)
               PROVE  x \in u.inserted \cup (S \ u.deleted) \cup g.taken
    BY <1>1, <1>2 DEF ThereOK
  <2>1. x \in t.inserted \cup (R \ t.deleted) \cup h.taken
    BY DEF OwnOK, ThereOK
  <2>2. QED
    BY <1>1, <1>3, <2>1
<1>7. SavedOK(u, g)
  BY <1>1, <1>2 DEF OwnOK, SavedOK
<1>8. QED
  BY <1>4, <1>5, <1>6, <1>7 DEF OwnOK

\* What a transaction that has come to its end is about to commit: the rows it
\* leaves and those it adds are what Registry lets a whole request do.
Ends(t, h, R, S) ==
  /\ S \subseteq Book!Listed(t.req) \cup (R \ Book!Scope(t.req)) \cup (R \cap h.put)
  /\ (R \ Book!Scope(t.req)) \cup (Book!Listed(t.req) \ h.taken) \subseteq S
  /\ t.inserted \subseteq Book!Listed(t.req)
  /\ t.saved <=> Book!Saves(t.req)
  /\ t.saved => t.new = Book!Over(t.seen, Book!Sets(t.req))
  /\ t.seen \in h.past

LEMMA OwnEnds ==
  ASSUME NEW t \in Tx, NEW h, NEW R, R \subseteq Book!Rows, OwnOK(t, h, R),
         t.pc = Len(Program[t.req]) + 1,
         NEW S, S = (R \ t.deleted) \cup t.inserted
  PROVE  Ends(t, h, R, S)
<1> DEFINE P == Program[t.req]
<1>1. /\ ProgramOK(t.req, P) /\ t.req \in Requests
      /\ \A i \in DOMAIN P : Done(t, i)
      /\ t.pc \notin DOMAIN P
  BY TxFields, Programs DEF Done
<1>2. t.picked = {}
  BY <1>1 DEF OwnOK, PickedOK
<1>3. Puts(P) = Book!Listed(t.req) /\ Cuts(P) = Book!Scope(t.req)
  BY <1>1 DEF ProgramOK
<1>4. t.inserted \subseteq Book!Listed(t.req)
  <2>1. t.inserted \subseteq Puts(P)
    BY TxFields DEF OwnOK, InsertedOK, Puts
  <2>2. QED
    BY <1>3, <2>1
<1>5. \A x \in R \ t.deleted : x \in Book!Scope(t.req) => x \in h.put
  <2> SUFFICES ASSUME NEW x \in R, x \notin t.deleted, x \in Cuts(P) PROVE x \in h.put
    BY <1>3
  <2>1. PICK i \in DOMAIN P : Takes(P, i, x)
    BY DEF Cuts
  <2>2. QED
    BY <1>1, <1>2, <2>1 DEF OwnOK, GoneOK
<1>6. \A x \in Book!Listed(t.req) : x \in S \/ x \in h.taken
  <2> SUFFICES ASSUME NEW x \in Puts(P) PROVE x \in S \/ x \in h.taken
    BY <1>3
  <2>1. PICK i \in DOMAIN P : x \in Book!Rows /\ Adds(P, i, x)
    BY DEF Puts
  <2>2. QED
    BY <1>1, <2>1 DEF OwnOK, ThereOK
<1>7. t.saved <=> Book!Saves(t.req)
  <2>1. t.saved <=> \E i \in DOMAIN P : Saving(P, i)
    BY <1>1 DEF OwnOK, SavedOK
  <2>2. Book!Saves(t.req) <=> \E i \in DOMAIN P : Saving(P, i)
    BY <1>1, RequestFields DEF ProgramOK, SavesFirst, SavesLast, SaveFree, Book!Saves
  <2>3. QED
    BY <2>1, <2>2
<1>8. t.deleted \subseteq Book!Scope(t.req)
  BY DEF OwnOK, TakenOK
<1>9. QED
  BY <1>4, <1>5, <1>6, <1>7, <1>8 DEF OwnOK, SavedOK, Ends
-----------------------------------------------------------------------------
(* The inductive invariant *)

Open == {w \in Workers : tx[w] # None}

History == [put : SUBSET Book!Rows, taken : SUBSET Book!Rows,
            past : SUBSET UNION {[Book!Columns(i) -> Values] : i \in Book!Ids}]

TablesOK ==
  /\ rows \subseteq Book!Rows
  /\ DOMAIN records = Book!Ids /\ records = [id \in Book!Ids |-> records[id]]
  /\ \A id \in Book!Ids : records[id] \in [Book!Columns(id) -> Values]
  /\ tx \in [Workers -> Tx \cup {None}]
  /\ since \in [Workers -> History]

\* The history of an idle worker is empty; that of another one knows the record
\* of its request as it is.
SinceOK(w) ==
  IF tx[w] = None THEN since[w] = Book!Nothing
                  ELSE records[tx[w].req.id] \in since[w].past

WorkerOK(w) ==
  tx[w] # None => /\ tx[w].pc <= Len(Program[tx[w].req]) + 1
                  /\ OwnOK(tx[w], since[w], rows)

\* No row is deleted twice.
Apart(v, w) ==
  v # w /\ tx[v] # None /\ tx[w] # None => tx[v].deleted \cap tx[w].deleted = {}

CountOK ==
  /\ calls \in Nat /\ calls <= MaxCalls /\ answered \in Nat
  /\ IsFiniteSet(Open) /\ answered + Cardinality(Open) <= calls

IInv ==
  /\ TablesOK
  /\ \A w \in Workers : SinceOK(w) /\ WorkerOK(w)
  /\ \A v, w \in Workers : Apart(v, w)
  /\ CountOK

-----------------------------------------------------------------------------
(* Types of the operators *)

LEMMA NoneIsNone == None \notin Requests /\ None \notin Tx
  BY NoneAssumption

LEMMA WorkerFacts ==
  ASSUME IInv, NEW w \in Workers, tx[w] # None
  PROVE  /\ tx[w] \in Tx /\ tx[w].req \in Requests /\ tx[w].req.id \in Book!Ids
         /\ since[w] \in History
         /\ OwnOK(tx[w], since[w], rows)
<1>1. tx[w] \in Tx /\ since[w] \in History /\ OwnOK(tx[w], since[w], rows)
  BY DEF IInv, TablesOK, WorkerOK
<1>2. QED
  BY <1>1, TxFields, RequestFields

\* What a transaction saves is a record of the kind it is about.
LEMMA OverType ==
  ASSUME NEW q \in Requests, Book!Saves(q), NEW old \in [Book!Columns(q.id) -> Values]
  PROVE  Book!Over(old, Book!Sets(q)) \in [Book!Columns(q.id) -> Values]
<1> DEFINE sets == Book!Sets(q)
<1>1. q \in Request /\ WellFormed(q)
  BY RequestFields
<1>2. PICK C \in SUBSET UNION {Book!Columns(i) : i \in Book!Ids} : q.sets \in [C -> Values]
  BY <1>1 DEF Request
<1>3. \A c \in DOMAIN sets : sets[c] \in Values
  <2>1. CASE q.op = "updateAccount"
    <3>1. q.sets.name \in Values
      BY <1>1, <1>2, <2>1 DEF WellFormed
    <3>2. sets = [name |-> q.sets.name, email |-> q.sets.name]
      BY <2>1 DEF Book!Sets
    <3>3. QED
      BY <3>1, <3>2
  <2>2. CASE q.op # "updateAccount"
    BY <1>2, <2>2 DEF Book!Sets
  <2>3. QED
    BY <2>1, <2>2
<1> HIDE DEF sets
<1>4. QED
  BY <1>3 DEF Book!Over, sets

-----------------------------------------------------------------------------
(* What a step has to keep *)

\* A step of w that the others and the tables do not notice.
Quiet(w) ==
  /\ UNCHANGED <<rows, records, answered>>
  /\ Book!Remember({})
  /\ tx' \in [Workers -> Tx \cup {None}]
  /\ \A v \in Workers : v # w => tx'[v] = tx[v]

\* w has run half a statement, or is gone.
Stepped(w) ==
  /\ Quiet(w) /\ calls' = calls
  /\ tx[w] # None
  /\ tx'[w] # None =>
       /\ tx'[w].req = tx[w].req
       /\ tx'[w].pc <= Len(Program[tx[w].req]) + 1
       /\ OwnOK(tx'[w], since[w], rows)
       /\ Kept(tx[w], tx'[w])
       /\ \A v \in Workers : v # w /\ tx[v] # None => tx'[w].deleted \cap tx[v].deleted = {}

LEMMA AtFacts ==
  ASSUME IInv, NEW w \in Workers, NEW do, NEW half, At(w, do, half)
  PROVE  /\ tx[w] # None /\ tx[w] \in Tx /\ tx[w].half = half
         /\ tx[w].pc \in DOMAIN Program[tx[w].req]
         /\ Statement(w) = Program[tx[w].req][tx[w].pc]
         /\ Statement(w) \in Stmt /\ Statement(w).do = do
         /\ OwnOK(tx[w], since[w], rows)
<1>1. tx[w] # None /\ tx[w].half = half /\ Statement(w).do = do
        /\ tx[w].pc <= Len(Program[tx[w].req])
        /\ Statement(w) = Program[tx[w].req][tx[w].pc]
  BY DEF At, Statement
<1>2. PICK t \in Tx : t = tx[w] /\ OwnOK(t, since[w], rows)
  BY <1>1, WorkerFacts
<1>3. t.pc \in DOMAIN Program[t.req] /\ Program[t.req][t.pc] \in Stmt
  <2>1. /\ t.pc \in Nat /\ t.pc > 0 /\ Len(Program[t.req]) \in Nat
        /\ DOMAIN Program[t.req] = 1..Len(Program[t.req])
        /\ \A i \in DOMAIN Program[t.req] : Program[t.req][i] \in Stmt
    BY TxFields
  <2>2. t.pc <= Len(Program[t.req])
    BY <1>1, <1>2
  <2>3. QED
    BY <2>1, <2>2
<1>4. QED
  BY <1>1, <1>2, <1>3

\* The deletions of the others stay apart from what w has if w deletes no more.
LEMMA StillApart ==
  ASSUME IInv, NEW w \in Workers, tx[w] # None, NEW D, D = tx[w].deleted
  PROVE  \A v \in Workers : v # w /\ tx[v] # None => D \cap tx[v].deleted = {}
  BY DEF IInv, Apart

\* A new transaction record for w.
LEMMA Takes1 ==
  ASSUME IInv, NEW w \in Workers, NEW u \in Tx, NEW tx1, tx1 = [tx EXCEPT ![w] = u]
  PROVE  /\ tx1 \in [Workers -> Tx \cup {None}] /\ tx1[w] = u
         /\ \A v \in Workers : v # w => tx1[v] = tx[v]
  BY DEF IInv, TablesOK

\* The end of w.
LEMMA EndSteps ==
  ASSUME IInv, NEW w \in Workers, tx[w] # None, End(w),
         UNCHANGED <<rows, records, calls, answered>>, Book!Remember({})
  PROVE  Stepped(w)
<1>1. tx' \in [Workers -> Tx \cup {None}] /\ tx'[w] = None
        /\ \A v \in Workers : v # w => tx'[v] = tx[v]
  BY DEF End, IInv, TablesOK
<1>2. QED
  BY <1>1 DEF Stepped, Quiet

\* w goes on with transaction u.
LEMMA GoesOn ==
  ASSUME IInv, NEW w \in Workers, tx[w] # None, NEW F, NEW u,
         Like(tx[w], u, F), OwnOK(u, since[w], rows), Kept(tx[w], u),
         u.pc <= Len(Program[tx[w].req]) + 1,
         \A v \in Workers : v # w /\ tx[v] # None => u.deleted \cap tx[v].deleted = {},
         tx' = [tx EXCEPT ![w] = u],
         UNCHANGED <<rows, records, calls, answered>>, Book!Remember({})
  PROVE  Stepped(w)
<1>1. u \in Tx /\ u.req = tx[w].req
  BY DEF Like
<1>2. /\ tx' \in [Workers -> Tx \cup {None}] /\ tx'[w] = u
      /\ \A v \in Workers : v # w => tx'[v] = tx[v]
  BY <1>1 DEF IInv, TablesOK
<1>3. QED
  BY <1>1, <1>2 DEF Stepped, Quiet

\* An INSERT enters its key, finds the row there, or ends the transaction.
LEMMA EnterKeySteps ==
  ASSUME IInv, NEW w \in Workers, EnterKey(w)
  PROVE  Stepped(w)
<1> DEFINE row == Statement(w).row
<1>1. PICK t \in Tx : t = tx[w]
  BY AtFacts DEF EnterKey
<1>2. /\ t # None /\ t.half = 1 /\ t.pc \in DOMAIN Program[t.req]
      /\ Program[t.req][t.pc] = Statement(w)
      /\ Statement(w) \in Stmt /\ Statement(w).do = "insert"
      /\ OwnOK(t, since[w], rows)
  BY <1>1, AtFacts DEF EnterKey
<1>3. row \in Book!Rows
  BY <1>2 DEF Stmt, Save, Skip
<1>4. UNCHANGED <<rows, records, calls, answered>> /\ Book!Remember({})
  BY DEF EnterKey, Only
<1>5. CASE row \notin Visible(w)
  <2> DEFINE u == [t EXCEPT !.half = 2, !.inserted = t.inserted \cup {row}]
  <2>1. u \in Tx
    BY <1>3 DEF Tx
  <2>2. tx' = [tx EXCEPT ![w] = u]
    BY <1>1, <1>5 DEF EnterKey, Only, Tx
  <2>3. /\ Like(t, u, {"half", "inserted"}) /\ u.half = 2 /\ u.pc = t.pc
        /\ u.deleted = t.deleted /\ u.inserted = t.inserted \cup {row}
    BY <2>1 DEF Like
  <2> HIDE DEF u
  <2>4. OwnOK(u, since[w], rows)
    BY <1>2, <2>3, OwnInserts
  <2>5. u.pc <= Len(Program[t.req]) + 1
    BY <1>2, <2>3, TxFields
  <2>6. \A v \in Workers : v # w /\ tx[v] # None => u.deleted \cap tx[v].deleted = {}
    BY <1>1, <1>2, <2>3, StillApart
  <2>7. Kept(t, u)
    BY <1>2, <2>3, KeptOnTheWay
  <2>8. QED
    BY <1>1, <1>2, <1>4, <2>2, <2>3, <2>4, <2>5, <2>6, <2>7, GoesOn
<1>6. CASE row \in Visible(w) /\ Statement(w).strict
  BY <1>1, <1>2, <1>4, <1>6, EndSteps DEF EnterKey, Only
<1>7. CASE row \in Visible(w) /\ ~ Statement(w).strict
  <2> DEFINE u == [t EXCEPT !.pc = t.pc + 1]
  <2>1. u \in Tx
    BY DEF Tx
  <2>2. tx' = [tx EXCEPT ![w] = u]
    BY <1>1, <1>7 DEF EnterKey, Only, Tx
  <2>3. /\ Like(t, u, {"pc"}) /\ u.pc = t.pc + 1 /\ u.deleted = t.deleted
    BY <2>1 DEF Like
  <2> HIDE DEF u
  <2>4. row \in (rows \ t.deleted) \cup t.inserted
    BY <1>1, <1>7 DEF Visible
  <2>5. OwnOK(u, since[w], rows)
    BY <1>2, <2>3, <2>4, OwnPasses
  <2>6. u.pc <= Len(Program[t.req]) + 1
    BY <1>2, <2>3, TxFields
  <2>7. \A v \in Workers : v # w /\ tx[v] # None => u.deleted \cap tx[v].deleted = {}
    BY <1>1, <1>2, <2>3, StillApart
  <2>8. Kept(t, u)
    BY <1>2, <2>3, KeptOnTheWay
  <2>9. QED
    BY <1>1, <1>2, <1>4, <2>2, <2>3, <2>5, <2>6, <2>7, <2>8, GoesOn
<1>8. QED
  BY <1>5, <1>6, <1>7

\* The rest of a statement is without effect: the references of an INSERT are
\* there, or the new keys of an UPDATE are free.
LEMMA NextStatement ==
  ASSUME IInv, NEW w \in Workers, NEW do \in {"insert", "save"}, At(w, do, 2),
         tx' = [tx EXCEPT ![w].pc = @ + 1, ![w].half = 1],
         UNCHANGED <<rows, records, calls, answered>>, Book!Remember({})
  PROVE  Stepped(w)
<1>1. PICK t \in Tx : t = tx[w]
  BY AtFacts
<1>2. /\ t # None /\ t.half = 2 /\ t.pc \in DOMAIN Program[t.req]
      /\ Program[t.req][t.pc].do = do
      /\ OwnOK(t, since[w], rows)
  BY <1>1, AtFacts
<1>3. t.picked = {}
  BY <1>2 DEF OwnOK, PickedOK, Takes
<1> DEFINE u == [t EXCEPT !.pc = t.pc + 1, !.half = 1]
<1>4. u \in Tx
  <2>1. t.pc + 1 \in Nat \ {0}
    BY DEF Tx
  <2>2. QED
    BY <2>1 DEF Tx
<1>5. tx' = [tx EXCEPT ![w] = u]
  <2>1. w \in DOMAIN tx
    BY DEF IInv, TablesOK
  <2>2. QED
    BY <1>1, <2>1
<1>6. Like(t, u, {"pc", "half"}) /\ u.pc = t.pc + 1 /\ u.half = 1 /\ u.deleted = t.deleted
  BY <1>4 DEF Like
<1> HIDE DEF u
<1>7. OwnOK(u, since[w], rows)
  BY <1>2, <1>3, <1>6, OwnGoesOn
<1>8. u.pc <= Len(Program[t.req]) + 1
  BY <1>2, <1>6, TxFields
<1>9. \A v \in Workers : v # w /\ tx[v] # None => u.deleted \cap tx[v].deleted = {}
  BY <1>1, <1>2, <1>6, StillApart
<1>10. Kept(t, u)
  BY <1>2, <1>6, KeptOnTheWay
<1>11. QED
  BY <1>1, <1>2, <1>5, <1>6, <1>7, <1>8, <1>9, <1>10, GoesOn

LEMMA PassSteps ==
  ASSUME IInv, NEW w \in Workers, Pass(w)
  PROVE  Stepped(w)
<1>1. PICK t \in Tx : t = tx[w]
  BY AtFacts DEF Pass
<1>2. /\ t # None /\ t.half = 1 /\ t.pc \in DOMAIN Program[t.req]
      /\ Program[t.req][t.pc].do = "skip"
      /\ OwnOK(t, since[w], rows)
  BY <1>1, AtFacts DEF Pass
<1>3. UNCHANGED <<rows, records, calls, answered>> /\ Book!Remember({})
  BY DEF Pass, Only
<1> DEFINE u == [t EXCEPT !.pc = t.pc + 1]
<1>4. u \in Tx
  BY DEF Tx
<1>5. tx' = [tx EXCEPT ![w] = u]
  <2>1. w \in DOMAIN tx
    BY DEF IInv, TablesOK
  <2>2. QED
    BY <1>1, <2>1 DEF Pass, Only
<1>6. Like(t, u, {"pc"}) /\ u.pc = t.pc + 1 /\ u.deleted = t.deleted
  BY <1>4 DEF Like
<1> HIDE DEF u
<1>7. OwnOK(u, since[w], rows)
  BY <1>2, <1>6, OwnPasses
<1>8. u.pc <= Len(Program[t.req]) + 1
  BY <1>2, <1>6, TxFields
<1>9. \A v \in Workers : v # w /\ tx[v] # None => u.deleted \cap tx[v].deleted = {}
  BY <1>1, <1>2, <1>6, StillApart
<1>10. Kept(t, u)
  BY <1>2, <1>6, KeptOnTheWay
<1>11. QED
  BY <1>1, <1>2, <1>3, <1>5, <1>6, <1>7, <1>8, <1>9, <1>10, GoesOn

LEMMA PickSteps ==
  ASSUME IInv, NEW w \in Workers, Pick(w)
  PROVE  Stepped(w)
<1>1. PICK t \in Tx : t = tx[w]
  BY AtFacts DEF Pick
<1>2. /\ t # None /\ t.half = 1 /\ t.pc \in DOMAIN Program[t.req]
      /\ Program[t.req][t.pc] = Statement(w)
      /\ Statement(w) \in Stmt /\ Statement(w).do = "delete"
      /\ OwnOK(t, since[w], rows)
  BY <1>1, AtFacts DEF Pick
<1>3. UNCHANGED <<rows, records, calls, answered>> /\ Book!Remember({})
  BY DEF Pick, Only
<1>4. Statement(w).rows \subseteq Book!Rows
  BY <1>2 DEF Stmt, Save, Skip
<1> DEFINE sees == (rows \ t.deleted) \cup t.inserted
<1> DEFINE u == [t EXCEPT !.half = 2, !.picked = Statement(w).rows \cap sees]
<1>5. u \in Tx
  BY <1>4 DEF Tx
<1>6. tx' = [tx EXCEPT ![w] = u]
  <2>1. w \in DOMAIN tx
    BY DEF IInv, TablesOK
  <2>2. QED
    BY <1>1, <2>1 DEF Pick, Only, Visible
<1>7. /\ Like(t, u, {"half", "picked"}) /\ u.pc = t.pc /\ u.half = 2
      /\ u.deleted = t.deleted /\ u.picked = Statement(w).rows \cap sees
  BY <1>5 DEF Like
<1> HIDE DEF u
<1>8. OwnOK(u, since[w], rows)
  BY <1>2, <1>7, OwnPicks
<1>9. u.pc <= Len(Program[t.req]) + 1
  BY <1>2, <1>7, TxFields
<1>10. \A v \in Workers : v # w /\ tx[v] # None => u.deleted \cap tx[v].deleted = {}
  BY <1>1, <1>2, <1>7, StillApart
<1>11. Kept(t, u)
  BY <1>2, <1>7, KeptOnTheWay
<1>12. QED
  BY <1>1, <1>2, <1>3, <1>6, <1>7, <1>8, <1>9, <1>10, <1>11, GoesOn

\* What a DELETE removes nobody else has deleted, or it would have had to wait.
LEMMA RemoveSteps ==
  ASSUME IInv, NEW w \in Workers, Remove(w)
  PROVE  Stepped(w)
<1>1. PICK t \in Tx : t = tx[w]
  BY AtFacts DEF Remove
<1>2. /\ t # None /\ t.half = 2 /\ t.pc \in DOMAIN Program[t.req]
      /\ Program[t.req][t.pc].do = "delete"
      /\ OwnOK(t, since[w], rows)
  <2>1. At(w, "delete", 2)
    BY DEF Remove
  <2>2. QED
    BY <1>1, <2>1, AtFacts
<1>3. UNCHANGED <<rows, records, calls, answered>> /\ Book!Remember({})
  BY DEF Remove, Only
<1> DEFINE u == [t EXCEPT !.pc = t.pc + 1, !.half = 1, !.picked = {},
                          !.inserted = t.inserted \ t.picked,
                          !.deleted = t.deleted \cup t.picked]
<1>4. u \in Tx
  <2>1. t.pc + 1 \in Nat \ {0}
    BY DEF Tx
  <2>2. QED
    BY <2>1 DEF Tx
<1>5. tx' = [tx EXCEPT ![w] = u]
  <2>1. w \in DOMAIN tx
    BY DEF IInv, TablesOK
  <2>2. tx' = [tx EXCEPT ![w].deleted = @ \cup tx[w].picked,
                         ![w].inserted = @ \ tx[w].picked,
                         ![w].picked = {}, ![w].pc = @ + 1, ![w].half = 1]
    BY DEF Remove, Only
  <2>3. tx' = [tx EXCEPT ![w] = [tx[w] EXCEPT
                 !.deleted = tx[w].deleted \cup tx[w].picked,
                 !.inserted = tx[w].inserted \ tx[w].picked,
                 !.picked = {}, !.pc = tx[w].pc + 1, !.half = 1]]
    BY <2>1, <2>2
  <2>4. QED
    BY <1>1, <2>3
<1>6. /\ Like(t, u, {"pc", "half", "picked", "inserted", "deleted"})
      /\ u.pc = t.pc + 1 /\ u.half = 1 /\ u.picked = {}
      /\ u.deleted = t.deleted \cup t.picked /\ u.inserted = t.inserted \ t.picked
  BY <1>4 DEF Like
<1> HIDE DEF u
<1>7. OwnOK(u, since[w], rows)
  BY <1>2, <1>6, OwnRemoves
<1>8. u.pc <= Len(Program[t.req]) + 1
  BY <1>2, <1>6, TxFields
<1>9. ASSUME NEW v \in Workers, v # w, tx[v] # None
      PROVE  u.deleted \cap tx[v].deleted = {}
  <2>1. t.deleted \cap tx[v].deleted = {}
    BY <1>1, <1>2, <1>9, StillApart
  <2>2. t.picked \cap tx[v].deleted = {}
    BY <1>1, <1>9 DEF Remove, Free, WaitsFor
  <2>3. QED
    BY <1>6, <2>1, <2>2
<1>10. Kept(t, u)
  BY <1>2, <1>6, KeptOnTheWay
<1>11. QED
  BY <1>1, <1>2, <1>3, <1>5, <1>6, <1>7, <1>8, <1>9, <1>10, GoesOn

LEMMA TakeRecordSteps ==
  ASSUME IInv, NEW w \in Workers, TakeRecord(w)
  PROVE  Stepped(w)
<1>1. PICK t \in Tx : t = tx[w]
  BY AtFacts DEF TakeRecord
<1>2. /\ t # None /\ t.half = 1 /\ t.pc \in DOMAIN Program[t.req]
      /\ Program[t.req][t.pc].do = "save"
      /\ OwnOK(t, since[w], rows)
  BY <1>1, AtFacts DEF TakeRecord
<1>3. UNCHANGED <<rows, records, calls, answered>> /\ Book!Remember({})
  BY DEF TakeRecord, Only
<1>4. PICK n : n = Book!Over(t.seen, Book!Sets(t.req))
  OBVIOUS
<1>5. n \in UNION {[Book!Columns(i) -> Values] : i \in Book!Ids}
  <2>1. t.req \in Requests /\ t.req.id \in Book!Ids
    BY TxFields, RequestFields
  <2>2. Book!Saves(t.req)
    <3>1. \E i \in DOMAIN Program[t.req] : Saving(Program[t.req], i)
      BY <1>2 DEF Saving
    <3>2. QED
      BY <2>1, <3>1, Programs, RequestFields DEF ProgramOK, SaveFree, Book!Saves
  <2>3. t.seen \in [Book!Columns(t.req.id) -> Values]
    BY <1>2 DEF OwnOK, SavedOK
  <2>4. n \in [Book!Columns(t.req.id) -> Values]
    BY <1>4, <2>1, <2>2, <2>3, OverType
  <2>5. QED
    BY <2>1, <2>4
<1> DEFINE u == [t EXCEPT !.half = 2, !.saved = TRUE, !.new = n]
<1>6. u \in Tx
  BY <1>5 DEF Tx
<1>7. tx' = [tx EXCEPT ![w] = u]
  <2>1. w \in DOMAIN tx
    BY DEF IInv, TablesOK
  <2>2. QED
    BY <1>1, <1>4, <2>1 DEF TakeRecord, Only, Saved
<1>8. /\ Like(t, u, {"half", "saved"}) /\ u.pc = t.pc /\ u.half = 2 /\ u.saved = TRUE
      /\ u.deleted = t.deleted /\ u.new = n
  BY <1>6 DEF Like
<1> HIDE DEF u
<1>9. OwnOK(u, since[w], rows)
  BY <1>2, <1>4, <1>8, OwnSaves
<1>10. u.pc <= Len(Program[t.req]) + 1
  BY <1>2, <1>8, TxFields
<1>11. \A v \in Workers : v # w /\ tx[v] # None => u.deleted \cap tx[v].deleted = {}
  BY <1>1, <1>2, <1>8, StillApart
<1>12. Kept(t, u)
  <2>1. u.req = t.req /\ t.req \in Requests /\ t.pc \in Nat
          /\ DOMAIN Program[t.req] \subseteq Nat
    BY <1>8, TxFields DEF Like
  <2>2. Saving(Program[t.req], t.pc)
    BY <1>2 DEF Saving
  <2>3. ~ Entered(u)
    BY <1>2, <1>8, <2>1, <2>2, OnlySave DEF Entered
  <2>4. QED
    BY <2>3 DEF Kept
<1>13. QED
  BY <1>1, <1>2, <1>3, <1>7, <1>8, <1>9, <1>10, <1>11, <1>12, GoesOn

LEMMA Steps ==
  ASSUME IInv, NEW w \in Workers,
         \/ EnterKey(w) \/ CheckReferences(w) \/ Pass(w) \/ Pick(w) \/ Remove(w)
         \/ TakeRecord(w) \/ EnterKeys(w) \/ Abort(w)
  PROVE  Stepped(w)
<1>1. CASE CheckReferences(w)
  BY <1>1, NextStatement DEF CheckReferences, Only
<1>2. CASE EnterKeys(w)
  <2>1. CASE End(w)
    BY <1>2, <2>1, EndSteps DEF EnterKeys, Only, At
  <2>2. CASE tx' = [tx EXCEPT ![w].pc = @ + 1, ![w].half = 1]
    BY <1>2, <2>2, NextStatement DEF EnterKeys, Only
  <2>3. QED
    BY <1>2, <2>1, <2>2 DEF EnterKeys, Only
<1>3. CASE Abort(w)
  BY <1>3, EndSteps DEF Abort
<1>4. QED
  BY <1>1, <1>2, <1>3, EnterKeySteps, PassSteps, PickSteps, RemoveSteps, TakeRecordSteps
-----------------------------------------------------------------------------
(* The history *)

\* What is added to history h of request q when the rows become S instead of R
\* and the record of q is r.
Noted(h, q, by, R, S, r) ==
  [put   |-> h.put \cup (by \cap S \cap Book!Scope(q)),
   taken |-> h.taken \cup ((R \ S) \cap Book!Listed(q)),
   past  |-> h.past \cup {r}]

LEMMA Remembered ==
  ASSUME IInv, NEW by, Book!Remember(by), tx' \in [Workers -> Tx \cup {None}]
  PROVE  /\ since' = [v \in Workers |-> since'[v]]
         /\ \A v \in Workers : tx'[v] = None => since'[v] = Book!Nothing
         /\ \A v \in Workers : tx'[v] # None =>
              since'[v] = Noted(IF tx[v] = None THEN Book!Nothing ELSE since[v],
                                tx'[v].req, by, rows, rows', records'[tx'[v].req.id])
<1>1. ASSUME NEW v \in Workers
      PROVE  /\ tx[v] # None => tx[v].req # None
             /\ tx'[v] # None => tx'[v].req # None
  <2>1. tx[v] \in Tx \cup {None} /\ tx'[v] \in Tx \cup {None}
    BY DEF IInv, TablesOK
  <2>2. QED
    BY <2>1, TxFields, NoneIsNone
<1>2. QED
  BY <1>1 DEF Book!Remember, Noted

LEMMA NotedType ==
  ASSUME NEW h \in History, NEW q \in Requests, NEW by,
         NEW R \in SUBSET Book!Rows, NEW S \in SUBSET Book!Rows,
         NEW r \in [Book!Columns(q.id) -> Values]
  PROVE  Noted(h, q, by, R, S, r) \in History
<1>1. r \in UNION {[Book!Columns(i) -> Values] : i \in Book!Ids}
  BY RequestFields
<1>2. QED
  BY <1>1 DEF Noted, History

LEMMA NothingType == Book!Nothing \in History
  BY DEF Book!Nothing, History

\* The history after a step is of its type, and knows the records as they are.
LEMMA SinceStays ==
  ASSUME IInv, NEW by, Book!Remember(by), tx' \in [Workers -> Tx \cup {None}],
         rows' \subseteq Book!Rows,
         \A id \in Book!Ids : records'[id] \in [Book!Columns(id) -> Values]
  PROVE  since' \in [Workers -> History] /\ \A v \in Workers : SinceOK(v)'
<1>1. ASSUME NEW v \in Workers PROVE since'[v] \in History /\ SinceOK(v)'
  <2>1. CASE tx'[v] = None
    BY <2>1, Remembered, NothingType DEF SinceOK
  <2>2. CASE tx'[v] # None
    <3>1. PICK q \in Requests : q = tx'[v].req
      BY <2>2, TxFields
    <3>2. PICK r \in [Book!Columns(q.id) -> Values] : r = records'[q.id]
      BY RequestFields
    <3>3. PICK h \in History : h = IF tx[v] = None THEN Book!Nothing ELSE since[v]
      BY NothingType DEF IInv, TablesOK
    <3>4. since'[v] = Noted(h, q, by, rows, rows', r)
      BY <2>2, <3>1, <3>2, <3>3, Remembered
    <3>5. since'[v] \in History
      BY <3>4, NotedType DEF IInv, TablesOK
    <3>6. r \in since'[v].past
      BY <3>4 DEF Noted
    <3>7. QED
      BY <2>2, <3>1, <3>2, <3>5, <3>6 DEF SinceOK
  <2>3. QED
    BY <2>1, <2>2
<1>2. QED
  BY <1>1, Remembered

\* Nothing happened that history has to note for a worker whose request goes on.
LEMMA SinceAsBefore ==
  ASSUME IInv, UNCHANGED <<rows, records>>, Book!Remember({}),
         tx' \in [Workers -> Tx \cup {None}], NEW v \in Workers,
         \/ tx[v] = None /\ tx'[v] = None
         \/ tx[v] # None /\ tx'[v] # None /\ tx'[v].req = tx[v].req
  PROVE  since'[v] = since[v]
<1>1. CASE tx'[v] = None
  BY <1>1, Remembered DEF IInv, SinceOK
<1>2. CASE tx'[v] # None
  <2>1. PICK q : q = tx[v].req
    OBVIOUS
  <2>2. PICK h \in History : h = since[v]
    BY DEF IInv, TablesOK
  <2>3. PICK r : r = records[q.id]
    OBVIOUS
  <2>4. since'[v] = Noted(h, q, {}, rows, rows, r)
    BY <1>2, <2>1, <2>2, <2>3, Remembered
  <2>5. r \in h.past
    BY <1>2, <2>1, <2>2, <2>3 DEF IInv, SinceOK
  <2>6. Noted(h, q, {}, rows, rows, r) = h
    BY <2>5 DEF Noted, History
  <2>7. QED
    BY <2>2, <2>4, <2>6
<1>3. QED
  BY <1>1, <1>2

-----------------------------------------------------------------------------
(* Every step keeps the invariant *)

LEMMA SteppedKeeps ==
  ASSUME IInv, NEW w \in Workers, Stepped(w)
  PROVE  IInv'
<1>1. /\ UNCHANGED <<rows, records, answered, calls>> /\ Book!Remember({})
      /\ tx' \in [Workers -> Tx \cup {None}] /\ tx[w] # None
      /\ \A v \in Workers : v # w => tx'[v] = tx[v]
  BY DEF Stepped, Quiet
<1>2. tx'[w] # None =>
        /\ tx'[w].req = tx[w].req /\ tx'[w].pc <= Len(Program[tx[w].req]) + 1
        /\ OwnOK(tx'[w], since[w], rows)
        /\ \A v \in Workers : v # w /\ tx[v] # None => tx'[w].deleted \cap tx[v].deleted = {}
  BY DEF Stepped
<1>3. since' \in [Workers -> History] /\ \A v \in Workers : SinceOK(v)'
  BY <1>1, SinceStays DEF IInv, TablesOK
<1>4. TablesOK'
  BY <1>1, <1>3 DEF IInv, TablesOK
<1>5. ASSUME NEW v \in Workers PROVE WorkerOK(v)'
  <2> SUFFICES ASSUME tx'[v] # None
               PROVE  /\ tx'[v].pc <= Len(Program[tx'[v].req]) + 1
                      /\ OwnOK(tx'[v], since'[v], rows')
    BY DEF WorkerOK
  <2>1. tx[v] # None /\ tx'[v].req = tx[v].req
    BY <1>1, <1>2
  <2>2. since'[v] = since[v]
    BY <1>1, <2>1, SinceAsBefore
  <2>3. CASE v = w
    BY <1>1, <1>2, <2>2, <2>3
  <2>4. CASE v # w
    BY <1>1, <2>1, <2>2, <2>4 DEF IInv, WorkerOK
  <2>5. QED
    BY <2>3, <2>4
<1>6. ASSUME NEW u \in Workers, NEW v \in Workers PROVE Apart(u, v)'
  <2> SUFFICES ASSUME u # v, tx'[u] # None, tx'[v] # None
               PROVE  tx'[u].deleted \cap tx'[v].deleted = {}
    BY DEF Apart
  <2>1. tx[u] # None /\ tx[v] # None
    BY <1>1
  <2>2. CASE u = w
    BY <1>1, <1>2, <2>1, <2>2
  <2>3. CASE v = w
    BY <1>1, <1>2, <2>1, <2>3
  <2>4. CASE u # w /\ v # w
    BY <1>1, <2>1, <2>4 DEF IInv, Apart
  <2>5. QED
    BY <2>2, <2>3, <2>4
<1>7. CountOK'
  <2>1. Open' \subseteq Open
    BY <1>1 DEF Open
  <2>2. IsFiniteSet(Open') /\ Cardinality(Open') <= Cardinality(Open)
    BY <2>1, FS_Subset DEF IInv, CountOK
  <2>3. Cardinality(Open') \in Nat /\ Cardinality(Open) \in Nat
    BY <2>2, FS_CardinalityType DEF IInv, CountOK
  <2>4. QED
    BY <1>1, <2>2, <2>3 DEF IInv, CountOK
<1>8. QED
  BY <1>3, <1>4, <1>5, <1>6, <1>7 DEF IInv

\* A request comes: its transaction u has done nothing yet.
Fresh(u) ==
  /\ u.pc = 1 /\ u.half = 1 /\ u.picked = {} /\ u.inserted = {} /\ u.deleted = {}
  /\ u.saved = FALSE
  /\ u.seen \in [Book!Columns(u.req.id) -> Values]

LEMMA BeginTables ==
  ASSUME IInv, NEW w \in Workers, Begin(w)
  PROVE  /\ UNCHANGED <<rows, records, answered>> /\ Book!Remember({})
         /\ tx[w] = None /\ calls < MaxCalls /\ calls' = calls + 1
         /\ tx' \in [Workers -> Tx \cup {None}]
         /\ \A v \in Workers : v # w => tx'[v] = tx[v]
         /\ \E u \in Tx : /\ tx'[w] = u /\ u # None /\ Fresh(u)
                          /\ u.seen = records[u.req.id]
<1>1. PICK q \in Requests : tx' = [tx EXCEPT ![w] =
            [req |-> q, seen |-> records[q.id], pc |-> 1, half |-> 1, picked |-> {},
             inserted |-> {}, deleted |-> {}, saved |-> FALSE, new |-> records[q.id]]]
  BY DEF Begin
<1>2. PICK r \in [Book!Columns(q.id) -> Values] : r = records[q.id]
  BY RequestFields DEF IInv, TablesOK
<1> DEFINE u == [req |-> q, seen |-> r, pc |-> 1, half |-> 1, picked |-> {},
                 inserted |-> {}, deleted |-> {}, saved |-> FALSE, new |-> r]
<1>3. u \in Tx
  <2>1. r \in UNION {[Book!Columns(i) -> Values] : i \in Book!Ids}
    BY RequestFields
  <2>2. QED
    BY <2>1 DEF Tx
<1>4. Fresh(u) /\ u.seen = records[u.req.id]
  BY <1>2 DEF Fresh
<1>5. tx' = [tx EXCEPT ![w] = u]
  BY <1>1, <1>2
<1> HIDE DEF u
<1>6. /\ tx' \in [Workers -> Tx \cup {None}] /\ tx'[w] = u /\ u # None
      /\ \A v \in Workers : v # w => tx'[v] = tx[v]
  BY <1>3, <1>5, NoneIsNone DEF IInv, TablesOK
<1>7. QED
  BY <1>3, <1>4, <1>6 DEF Begin

LEMMA BeginKeeps ==
  ASSUME IInv, NEW w \in Workers, Begin(w)
  PROVE  IInv'
<1>1. /\ UNCHANGED <<rows, records, answered>> /\ Book!Remember({})
      /\ tx[w] = None /\ calls < MaxCalls /\ calls' = calls + 1
  BY BeginTables
<1>2. PICK u \in Tx : tx'[w] = u /\ u # None /\ Fresh(u) /\ u.seen = records[u.req.id]
  BY BeginTables
<1>3. PICK r : r = u.seen
  OBVIOUS
<1>4. /\ u.seen = r /\ u.pc = 1 /\ u.half = 1 /\ u.picked = {}
      /\ u.inserted = {} /\ u.deleted = {} /\ u.saved = FALSE
      /\ u.seen \in [Book!Columns(u.req.id) -> Values]
  BY <1>2, <1>3 DEF Fresh
<1>5. /\ tx' \in [Workers -> Tx \cup {None}] /\ tx'[w] = u /\ u # None
      /\ \A v \in Workers : v # w => tx'[v] = tx[v]
  BY <1>2, BeginTables
<1>6. since' \in [Workers -> History] /\ \A v \in Workers : SinceOK(v)'
  BY <1>1, <1>5, SinceStays DEF IInv, TablesOK
<1>7. TablesOK'
  BY <1>1, <1>5, <1>6 DEF IInv, TablesOK
<1>8. ASSUME NEW v \in Workers PROVE WorkerOK(v)'
  <2>1. CASE v = w
    <3>1. r \in since'[w].past
      BY <1>1, <1>2, <1>3, <1>5, <1>6 DEF SinceOK
    <3>2. OwnOK(u, since'[w], rows)
      BY <1>4, <3>1, OwnBegins
    <3>3. u.pc <= Len(Program[u.req]) + 1
      BY <1>4, TxFields
    <3>4. QED
      BY <1>1, <1>5, <2>1, <3>2, <3>3 DEF WorkerOK
  <2>2. CASE v # w /\ tx[v] = None
    BY <1>5, <2>2 DEF WorkerOK
  <2>3. CASE v # w /\ tx[v] # None
    <3>1. tx'[v] = tx[v]
      BY <1>5, <2>3
    <3>2. since'[v] = since[v]
      BY <1>1, <1>5, <2>3, <3>1, SinceAsBefore
    <3>3. QED
      BY <1>1, <3>1, <3>2 DEF IInv, WorkerOK
  <2>4. QED
    BY <2>1, <2>2, <2>3
<1>9. ASSUME NEW y \in Workers, NEW v \in Workers PROVE Apart(y, v)'
  BY <1>4, <1>5 DEF Apart, IInv
<1>10. CountOK'
  <2>1. Open' = Open \cup {w} /\ w \notin Open
    BY <1>1, <1>5 DEF Open
  <2>2. IsFiniteSet(Open') /\ Cardinality(Open') = Cardinality(Open) + 1
    BY <2>1, FS_AddElement DEF IInv, CountOK
  <2>3. Cardinality(Open) \in Nat
    BY FS_CardinalityType DEF IInv, CountOK
  <2>4. MaxCalls \in Nat
    BY UpdatesAssumption
  <2>5. QED
    BY <1>1, <2>2, <2>3, <2>4 DEF IInv, CountOK
<1>11. QED
  BY <1>6, <1>7, <1>8, <1>9, <1>10 DEF IInv

\* What a commit does to the tables.
LEMMA CommitTables ==
  ASSUME IInv, NEW w \in Workers, Commit(w)
  PROVE  /\ tx[w] # None /\ tx[w] \in Tx
         /\ rows' \subseteq Book!Rows
         /\ rows' \subseteq Book!Listed(tx[w].req) \cup (rows \ Book!Scope(tx[w].req))
                              \cup (rows \cap since[w].put)
         /\ (rows \ Book!Scope(tx[w].req)) \cup (Book!Listed(tx[w].req) \ since[w].taken)
              \subseteq rows'
         /\ tx[w].inserted \subseteq Book!Listed(tx[w].req)
         /\ DOMAIN records' = Book!Ids /\ records' = [id \in Book!Ids |-> records'[id]]
         /\ \A id \in Book!Ids : records'[id] \in [Book!Columns(id) -> Values]
         /\ IF Book!Saves(tx[w].req)
              THEN \E old \in since[w].past :
                     records' = [records EXCEPT ![tx[w].req.id] =
                                   Book!Over(old, Book!Sets(tx[w].req))]
              ELSE UNCHANGED records
<1>1. PICK t \in Tx : t = tx[w] /\ t # None
  BY WorkerFacts DEF Commit
<1>2. PICK h : h = since[w]
  OBVIOUS
<1>3. OwnOK(t, h, rows) /\ t.req \in Requests /\ t.req.id \in Book!Ids
  BY <1>1, <1>2, WorkerFacts
<1>4. rows' = (rows \ t.deleted) \cup t.inserted /\ t.pc = Len(Program[t.req]) + 1
  BY <1>1 DEF Commit
<1>5. rows \subseteq Book!Rows
  BY DEF IInv, TablesOK
<1>6. /\ rows' \subseteq Book!Listed(t.req) \cup (rows \ Book!Scope(t.req)) \cup (rows \cap h.put)
      /\ (rows \ Book!Scope(t.req)) \cup (Book!Listed(t.req) \ h.taken) \subseteq rows'
      /\ t.inserted \subseteq Book!Listed(t.req)
      /\ t.saved <=> Book!Saves(t.req)
      /\ t.saved => t.new = Book!Over(t.seen, Book!Sets(t.req))
      /\ t.seen \in h.past
  <2>1. PICK R : R = rows
    OBVIOUS
  <2>2. PICK S : S = rows'
    OBVIOUS
  <2>3. /\ R \subseteq Book!Rows /\ OwnOK(t, h, R) /\ S = (R \ t.deleted) \cup t.inserted
    BY <1>3, <1>4, <1>5, <2>1, <2>2
  <2>4. Ends(t, h, R, S)
    BY <1>4, <2>3, OwnEnds
  <2>5. QED
    BY <2>1, <2>2, <2>4 DEF Ends
<1>7. rows' \subseteq Book!Rows
  BY <1>4, <1>5, TxFields
<1>8. CASE ~ t.saved
  <2>1. records' = records
    BY <1>1, <1>8 DEF Commit
  <2>2. QED
    BY <1>1, <1>2, <1>6, <1>7, <1>8, <2>1 DEF IInv, TablesOK
<1>9. CASE t.saved
  <2>1. PICK n : n = Book!Over(t.seen, Book!Sets(t.req))
    OBVIOUS
  <2>2. n \in [Book!Columns(t.req.id) -> Values]
    BY <1>3, <1>6, <1>9, <2>1, OverType DEF OwnOK, SavedOK
  <2>3. records' = [records EXCEPT ![t.req.id] = n]
    BY <1>1, <1>6, <1>9, <2>1 DEF Commit
  <2>4. /\ DOMAIN records' = Book!Ids /\ records' = [id \in Book!Ids |-> records'[id]]
        /\ \A id \in Book!Ids : records'[id] \in [Book!Columns(id) -> Values]
    BY <1>3, <2>2, <2>3 DEF IInv, TablesOK
  <2>5. QED
    BY <1>1, <1>2, <1>6, <1>7, <1>9, <2>1, <2>3, <2>4
<1>10. QED
  BY <1>8, <1>9

\* ... and to the other transactions: what it deleted is no longer picked.
LEMMA CommitOthers ==
  ASSUME IInv, NEW w \in Workers, Commit(w)
  PROVE  /\ tx' \in [Workers -> Tx \cup {None}] /\ tx'[w] = None
         /\ \A v \in Workers : v # w => (tx'[v] = None <=> tx[v] = None)
         /\ \A v \in Workers : v # w /\ tx[v] # None =>
              /\ Like(tx[v], tx'[v], {"picked"})
              /\ tx'[v].picked = tx[v].picked \ tx[w].deleted
<1>1. /\ tx' = [v \in Workers |-> tx'[v]] /\ tx'[w] = None
      /\ \A v \in Workers : v # w /\ tx[v] = None => tx'[v] = None
      /\ \A v \in Workers : v # w /\ tx[v] # None =>
           tx'[v] = [tx[v] EXCEPT !.picked = @ \ tx[w].deleted]
  BY DEF Commit
<1>2. ASSUME NEW v \in Workers, v # w, tx[v] # None
      PROVE  /\ tx'[v] \in Tx /\ tx'[v] # None
             /\ Like(tx[v], tx'[v], {"picked"})
             /\ tx'[v].picked = tx[v].picked \ tx[w].deleted
  <2>1. PICK t \in Tx : t = tx[v]
    BY <1>2, WorkerFacts
  <2>2. PICK D : D = tx[w].deleted
    OBVIOUS
  <2> DEFINE u == [t EXCEPT !.picked = @ \ D]
  <2>3. u \in Tx
    BY DEF Tx
  <2>4. Like(t, u, {"picked"}) /\ u.picked = t.picked \ D
    BY <2>3 DEF Like, Tx
  <2>5. tx'[v] = u
    BY <1>1, <1>2, <2>1, <2>2
  <2>6. QED
    BY <2>1, <2>2, <2>3, <2>4, <2>5, NoneIsNone
<1>3. tx' \in [Workers -> Tx \cup {None}]
  BY <1>1, <1>2
<1>4. QED
  BY <1>1, <1>2, <1>3

LEMMA CommitKeeps ==
  ASSUME IInv, NEW w \in Workers, Commit(w)
  PROVE  IInv'
<1>1. PICK t \in Tx : t = tx[w] /\ t # None
  BY CommitTables
<1>2. PICK L : L = Book!Listed(t.req)
  OBVIOUS
<1>3. Book!Remember(L) /\ calls' = calls /\ answered' = answered + 1
  BY <1>1, <1>2 DEF Commit, Book!Remember
<1>4. since' \in [Workers -> History] /\ \A v \in Workers : SinceOK(v)'
  BY <1>3, CommitTables, CommitOthers, SinceStays
<1>5. TablesOK'
  BY <1>4, CommitTables, CommitOthers DEF TablesOK
<1>6. ASSUME NEW v \in Workers, v # w, tx[v] # None
      PROVE  OwnOK(tx'[v], since'[v], rows')
  <2>1. PICK y : y = tx[v]
    OBVIOUS
  <2>2. PICK u : u = tx'[v]
    OBVIOUS
  <2>3. PICK h : h = since[v]
    OBVIOUS
  <2>4. Like(y, u, {"picked"}) /\ u.picked = y.picked \ t.deleted /\ u # None
    BY <1>1, <1>6, <2>1, <2>2, CommitOthers
  <2>5. OwnOK(y, h, rows)
    BY <1>6, <2>1, <2>3, WorkerFacts
  <2>6. u.req = y.req
    BY <2>4 DEF Like
  <2>7. PICK r : r = records'[y.req.id]
    OBVIOUS
  <2>8. PICK R : R = rows
    OBVIOUS
  <2>9. PICK S : S = rows'
    OBVIOUS
  <2>10. PICK D : D = t.deleted
    OBVIOUS
  <2>11. PICK g : g = Noted(h, y.req, L, R, S, r)
    OBVIOUS
  <2>12. since'[v] = g
    <3>1. since'[v] = Noted(h, y.req, L, rows, rows', r)
      BY <1>3, <1>6, <2>1, <2>2, <2>3, <2>4, <2>6, <2>7, CommitOthers, Remembered
    <3>2. QED
      BY <2>8, <2>9, <2>11, <3>1
  <2>13. /\ g.put = h.put \cup (L \cap S \cap Book!Scope(y.req))
         /\ g.taken = h.taken \cup ((R \ S) \cap Book!Listed(y.req))
         /\ g.past = h.past \cup {r}
    BY <2>11 DEF Noted
  <2>14. y.deleted \cap D = {}
    BY <1>1, <1>6, <2>1, <2>10 DEF IInv, Apart
  <2>15. PICK I : I = t.inserted
    OBVIOUS
  <2>16. S = (R \ D) \cup I /\ I \subseteq Book!Rows /\ I \subseteq L
    <3>1. rows' = (rows \ t.deleted) \cup t.inserted
      BY <1>1 DEF Commit
    <3>2. t.inserted \subseteq Book!Rows /\ t.inserted \subseteq L
      BY <1>1, <1>2, CommitTables, TxFields
    <3>3. QED
      BY <2>8, <2>9, <2>10, <2>15, <3>1, <3>2
  <2>17. R \subseteq Book!Rows /\ OwnOK(y, h, R)
    BY <2>5, <2>8 DEF IInv, TablesOK
  <2>18. Tells(g, h, y.req, R, S, I)
    BY <2>13, <2>16 DEF Tells
  <2>19. u.picked = y.picked \ D
    BY <2>4, <2>10
  <2>20. OwnOK(u, g, S)
    <3>1. Meets(y, u, h, g, R, S, D, I)
      BY <2>4, <2>14, <2>16, <2>17, <2>18, <2>19 DEF Meets
    <3>2. QED
      BY <3>1, OwnMeets
  <2>21. QED
    BY <2>2, <2>9, <2>12, <2>20
<1>7. ASSUME NEW v \in Workers PROVE WorkerOK(v)'
  <2> SUFFICES ASSUME tx'[v] # None
               PROVE  /\ tx'[v].pc <= Len(Program[tx'[v].req]) + 1
                      /\ OwnOK(tx'[v], since'[v], rows')
    BY DEF WorkerOK
  <2>1. v # w /\ tx[v] # None
    BY CommitOthers
  <2>2. tx'[v].pc = tx[v].pc /\ tx'[v].req = tx[v].req
    BY <2>1, CommitOthers DEF Like
  <2>3. QED
    BY <1>6, <2>1, <2>2 DEF IInv, WorkerOK
<1>8. ASSUME NEW u \in Workers, NEW v \in Workers PROVE Apart(u, v)'
  <2> SUFFICES ASSUME u # v, tx'[u] # None, tx'[v] # None
               PROVE  tx'[u].deleted \cap tx'[v].deleted = {}
    BY DEF Apart
  <2>1. u # w /\ v # w /\ tx[u] # None /\ tx[v] # None
    BY CommitOthers
  <2>2. tx'[u].deleted = tx[u].deleted /\ tx'[v].deleted = tx[v].deleted
    BY <2>1, CommitOthers DEF Like
  <2>3. QED
    BY <2>1, <2>2 DEF IInv, Apart
<1>9. CountOK'
  <2>1. Open' = Open \ {w} /\ w \in Open
    BY <1>1, CommitOthers DEF Open
  <2>2. IsFiniteSet(Open') /\ Cardinality(Open') = Cardinality(Open) - 1
    BY <2>1, FS_RemoveElement DEF IInv, CountOK
  <2>3. Cardinality(Open) \in Nat
    BY FS_CardinalityType DEF IInv, CountOK
  <2>4. QED
    BY <1>3, <2>2, <2>3 DEF IInv, CountOK
<1>10. QED
  BY <1>4, <1>5, <1>7, <1>8, <1>9 DEF IInv

LEMMA Initially == Init => IInv
<1> SUFFICES ASSUME Init PROVE IInv
  OBVIOUS
<1>1. TablesOK
  <2>1. DOMAIN InitRecords = Book!Ids /\ InitRecords = [id \in Book!Ids |-> InitRecords[id]]
    BY UpdatesAssumption
  <2>2. QED
    BY <2>1, UpdatesAssumption, NothingType DEF Init, TablesOK
<1>2. \A w \in Workers : SinceOK(w) /\ WorkerOK(w)
  BY DEF Init, SinceOK, WorkerOK
<1>3. \A v, w \in Workers : Apart(v, w)
  BY DEF Init, Apart
<1>4. CountOK
  <2>1. Open = {}
    BY DEF Init, Open
  <2>2. QED
    BY <2>1, FS_EmptySet, UpdatesAssumption DEF Init, CountOK
<1>5. QED
  BY <1>1, <1>2, <1>3, <1>4 DEF IInv

LEMMA Stutters ==
  ASSUME IInv, UNCHANGED vars
  PROVE  IInv'
  BY DEF vars, IInv, TablesOK, SinceOK, WorkerOK, Apart, CountOK, Open

LEMMA Invariance == Spec => []IInv
<1>1. IInv /\ [Next]_vars => IInv'
  <2> SUFFICES ASSUME IInv, [Next]_vars PROVE IInv'
    OBVIOUS
  <2>1. CASE UNCHANGED vars
    BY <2>1, Stutters
  <2>2. ASSUME NEW w \in Workers, Begin(w) PROVE IInv'
    BY <2>2, BeginKeeps
  <2>3. ASSUME NEW w \in Workers, Commit(w) PROVE IInv'
    BY <2>3, CommitKeeps
  <2>4. ASSUME NEW w \in Workers,
               \/ EnterKey(w) \/ CheckReferences(w) \/ Pass(w) \/ Pick(w) \/ Remove(w)
               \/ TakeRecord(w) \/ EnterKeys(w) \/ Abort(w)
        PROVE  IInv'
    BY <2>4, Steps, SteppedKeeps
  <2>5. QED
    BY <2>1, <2>2, <2>3, <2>4 DEF Next, Move
<1>2. QED
  BY <1>1, Initially, PTL DEF Spec

-----------------------------------------------------------------------------
(* Theorems *)

\* The types of the variables, whatever goroutines, requests and records there
\* are; with them, that what a transaction deletes or has picked to delete is
\* there until it ends.
THEOREM TypeCorrect == Spec => []TypeOK
<1>1. IInv => TypeOK
  <2> SUFFICES ASSUME IInv PROVE TypeOK
    OBVIOUS
  <2>1. records \in [Book!Ids -> UNION {[Book!Columns(i) -> Values] : i \in Book!Ids}]
          /\ \A id \in Book!Ids : DOMAIN records[id] = Book!Columns(id)
    <3>1. \A id \in Book!Ids :
            records[id] \in UNION {[Book!Columns(i) -> Values] : i \in Book!Ids}
      BY DEF IInv, TablesOK
    <3>2. QED
      BY <3>1 DEF IInv, TablesOK
  <2>2. ASSUME NEW w \in Workers, tx[w] # None
        PROVE  /\ tx[w].req \in Requests
               /\ tx[w].pc \in 1..(Len(Program[tx[w].req]) + 1) /\ tx[w].half \in {1, 2}
               /\ tx[w].inserted \subseteq Book!Rows
               /\ tx[w].deleted \subseteq rows
               /\ tx[w].picked \subseteq Visible(w)
    <3>1. PICK t \in Tx : t = tx[w]
      BY <2>2, WorkerFacts
    <3>2. t.pc <= Len(Program[t.req]) + 1 /\ TakenOK(t, rows)
      BY <2>2, <3>1 DEF IInv, WorkerOK, OwnOK
    <3>3. t.pc \in 1..(Len(Program[t.req]) + 1)
      BY <3>2, TxFields
    <3>4. QED
      BY <3>1, <3>2, <3>3, TxFields DEF TakenOK, Visible
  <2>3. calls \in 0..MaxCalls /\ answered \in 0..calls
    BY FS_CardinalityType, UpdatesAssumption DEF IInv, CountOK
  <2>4. QED
    BY <2>1, <2>2, <2>3 DEF TypeOK, IInv, TablesOK
<1>2. QED
  BY <1>1, Invariance, PTL

serving == [w \in Workers |-> IF tx[w] = None THEN None ELSE tx[w].req]

LEMMA BeginComes ==
  ASSUME IInv, NEW w \in Workers, Begin(w)
  PROVE  Book!Come(w)
<1>1. /\ UNCHANGED <<rows, records, answered>> /\ Book!Remember({}) /\ tx[w] = None
      /\ tx' \in [Workers -> Tx \cup {None}]
      /\ \A v \in Workers : v # w => tx'[v] = tx[v]
      /\ tx'[w] # None
  BY BeginTables
<1>2. PICK q \in Requests : q = tx'[w].req
  BY <1>1, TxFields
<1>3. serving' = [serving EXCEPT ![w] = q]
  BY <1>1, <1>2 DEF serving
<1>4. serving[w] = None
  BY <1>1 DEF serving
<1>5. QED
  BY <1>1, <1>3, <1>4 DEF Book!Come, serving

LEMMA StepLeaves ==
  ASSUME IInv, NEW w \in Workers, Stepped(w)
  PROVE  Book!Leave(w) \/ UNCHANGED Book!registryVars
<1>1. /\ UNCHANGED <<rows, records, answered>> /\ Book!Remember({})
      /\ tx' \in [Workers -> Tx \cup {None}] /\ tx[w] # None
      /\ \A v \in Workers : v # w => tx'[v] = tx[v]
      /\ tx'[w] # None => tx'[w].req = tx[w].req
  BY DEF Stepped, Quiet
<1>2. CASE tx'[w] = None
  <2>1. serving' = [serving EXCEPT ![w] = None]
    BY <1>1, <1>2 DEF serving
  <2>2. serving[w] # None
    BY <1>1, WorkerFacts, NoneIsNone DEF serving
  <2>3. QED
    BY <1>1, <2>1, <2>2 DEF Book!Leave, serving
<1>3. CASE tx'[w] # None
  <2>1. serving' = serving
    BY <1>1, <1>3 DEF serving
  <2>2. ASSUME NEW v \in Workers PROVE since'[v] = since[v]
    BY <1>1, <1>3, SinceAsBefore
  <2>3. since' = since
    BY <1>1, <2>2, Remembered DEF IInv, TablesOK
  <2>4. QED
    BY <1>1, <2>1, <2>3 DEF Book!registryVars, serving
<1>4. QED
  BY <1>2, <1>3

LEMMA CommitApplies ==
  ASSUME IInv, NEW w \in Workers, Commit(w)
  PROVE  Book!Apply(w)
<1>1. /\ tx[w] # None /\ tx[w] \in Tx /\ answered' = answered + 1
      /\ Book!Remember(Book!Listed(tx[w].req))
  BY CommitTables DEF Commit
<1>2. serving[w] = tx[w].req /\ serving[w] # None
  BY <1>1, TxFields, NoneIsNone DEF serving
<1>3. serving' = [serving EXCEPT ![w] = None]
  BY CommitOthers DEF serving, Like
<1>4. Book!Remember(Book!Listed(serving[w]))
  BY <1>1, <1>2 DEF Book!Remember
<1>5. QED
  BY <1>1, <1>2, <1>3, <1>4, CommitTables DEF Book!Apply, serving

\* The transactions, statement by statement and interleaved, do what Registry
\* lets whole requests do: an update replaces what it replaces also when others
\* of the same role or account run meanwhile, one that fails leaves nothing
\* behind, and a column no request sets is written back only with a value it
\* had meanwhile.
THEOREM ImplementsRegistry == Spec => BookSpec
<1>1. Init => Book!RegistryInit
  BY DEF Init, Book!RegistryInit
<1>2. ASSUME IInv, [Next]_vars PROVE [Book!RegistryNext]_Book!registryVars
  <2> USE <1>2
  <2>1. CASE UNCHANGED vars
    BY <2>1 DEF vars, Book!registryVars
  <2>2. ASSUME NEW w \in Workers, Begin(w) PROVE Book!Come(w)
    BY <2>2, BeginComes
  <2>3. ASSUME NEW w \in Workers, Commit(w) PROVE Book!Apply(w)
    BY <2>3, CommitApplies
  <2>4. ASSUME NEW w \in Workers, Stepped(w)
        PROVE  Book!Leave(w) \/ UNCHANGED Book!registryVars
    BY <2>4, StepLeaves
  <2>5. QED
    BY <2>1, <2>2, <2>3, <2>4, Steps DEF Next, Move, Book!RegistryNext
<1>3. QED
  BY <1>1, <1>2, Invariance, PTL DEF Spec, BookSpec, Book!RegistrySpec

-----------------------------------------------------------------------------
(* Names and addresses stay unique *)

RecordsUnique ==
  \A id \in Book!Ids : \A peer \in Peers(id), c \in Unique(id) :
    records[id][c] # records[peer][c]

\* The keys transaction u of w has entered are neither those of another record
\* nor those another transaction has entered for one.
Claims(w, u) ==
  /\ \A peer \in Peers(u.req.id), c \in Unique(u.req.id) : u.new[c] # records[peer][c]
  /\ \A v \in Workers :
       v # w /\ tx[v] # None /\ Entered(tx[v]) /\ tx[v].req.id \in Peers(u.req.id)
         => \A c \in Unique(u.req.id) : u.new[c] # tx[v].new[c]

KeysOK ==
  /\ RecordsUnique
  /\ \A w \in Workers : tx[w] # None /\ Entered(tx[w]) => Claims(w, tx[w])

LEMMA PeersMeet ==
  ASSUME NEW id \in Book!Ids, NEW peer \in Peers(id)
  PROVE  /\ peer \in Book!Ids /\ id \in Peers(peer) /\ peer # id
         /\ Unique(peer) = Unique(id)
         /\ Unique(id) \subseteq Book!Columns(id)
<1>1. Accounts \cap Roles = {} /\ Accounts \cap Services = {} /\ Roles \cap Services = {}
  BY UpdatesAssumption
<1>2. CASE id \in Roles
  BY <1>2, <1>1 DEF Peers, Unique, Book!Columns, Book!Ids
<1>3. CASE id \in Accounts
  BY <1>3, <1>1 DEF Peers, Unique, Book!Columns, Book!Ids
<1>4. CASE id \in Services
  BY <1>4, <1>1 DEF Peers, Unique, Book!Columns, Book!Ids
<1>5. QED
  BY <1>2, <1>3, <1>4 DEF Book!Ids

\* w goes on alone, and what it has entered it may claim.
LEMMA ClaimsStay ==
  ASSUME IInv, KeysOK, NEW w \in Workers, records' = records,
         \A v \in Workers : v # w => tx'[v] = tx[v],
         tx'[w] # None => /\ tx'[w].req.id \in Book!Ids
                          /\ Entered(tx'[w]) => Claims(w, tx'[w])
  PROVE  KeysOK'
<1>1. RecordsUnique'
  BY DEF KeysOK, RecordsUnique
<1>2. ASSUME NEW v \in Workers, tx'[v] # None, Entered(tx'[v])
      PROVE  Claims(v, tx[v])'
  <2>1. CASE v = w
    BY <1>2, <2>1 DEF Claims
  <2>2. CASE v # w
    <3>1. tx'[v] = tx[v] /\ Claims(v, tx[v]) /\ tx[v].req.id \in Book!Ids
      BY <1>2, <2>2, WorkerFacts DEF KeysOK
    <3>2. ASSUME tx'[w] # None, Entered(tx'[w]), tx'[w].req.id \in Peers(tx[v].req.id),
                 NEW c \in Unique(tx[v].req.id)
          PROVE  tx[v].new[c] # tx'[w].new[c]
      <4>1. Claims(w, tx'[w])
        BY <3>2
      <4>2. tx[v].req.id \in Peers(tx'[w].req.id) /\ c \in Unique(tx'[w].req.id)
        BY <3>1, <3>2, PeersMeet
      <4>3. QED
        BY <1>2, <2>2, <3>1, <4>1, <4>2 DEF Claims
    <3>3. QED
      BY <2>2, <3>1, <3>2 DEF Claims
  <2>3. QED
    BY <2>1, <2>2
<1>3. QED
  BY <1>1, <1>2 DEF KeysOK

\* An UPDATE enters keys that are free.
LEMMA EnterKeysClaims ==
  ASSUME IInv, NEW w \in Workers, EnterKeys(w), tx'[w] # None
  PROVE  /\ tx'[w].req = tx[w].req /\ tx'[w].new = tx[w].new
         /\ Claims(w, tx[w])
<1>1. At(w, "save", 2) /\ Free(w) /\ tx[w] # None /\ tx \in [Workers -> Tx \cup {None}]
  BY DEF EnterKeys, At, IInv, TablesOK
<1>2. ~ End(w)
  BY <1>1 DEF End
<1>3. /\ ~ \E peer \in Peers(tx[w].req.id), c \in Unique(tx[w].req.id) :
               tx[w].new[c] = records[peer][c]
      /\ tx' = [tx EXCEPT ![w].pc = @ + 1, ![w].half = 1]
  BY <1>2 DEF EnterKeys, Only
<1>4. tx'[w].req = tx[w].req /\ tx'[w].new = tx[w].new
  <2>1. PICK t \in Tx : t = tx[w]
    BY <1>1
  <2>2. tx' = [tx EXCEPT ![w] = [t EXCEPT !.pc = t.pc + 1, !.half = 1]]
    BY <1>1, <1>3, <2>1
  <2>3. QED
    BY <1>1, <2>1, <2>2 DEF Tx
<1>5. ASSUME NEW v \in Workers, v # w, tx[v] # None, Entered(tx[v]),
             tx[v].req.id \in Peers(tx[w].req.id), NEW c \in Unique(tx[w].req.id)
      PROVE  tx[w].new[c] # tx[v].new[c]
  <2>1. ~ WaitsFor(w, v) /\ tx[v].saved
    BY <1>1, <1>5 DEF Free, Entered
  <2>2. QED
    BY <1>1, <1>5, <2>1 DEF WaitsFor
<1>6. QED
  BY <1>3, <1>4, <1>5 DEF Claims

LEMMA StepKeepsKeys ==
  ASSUME IInv, KeysOK, NEW w \in Workers,
         \/ EnterKey(w) \/ CheckReferences(w) \/ Pass(w) \/ Pick(w) \/ Remove(w)
         \/ TakeRecord(w) \/ EnterKeys(w) \/ Abort(w)
  PROVE  KeysOK'
<1>1. Stepped(w)
  BY Steps
<1>2. /\ records' = records /\ \A v \in Workers : v # w => tx'[v] = tx[v]
      /\ tx[w] # None /\ tx[w].req.id \in Book!Ids
      /\ tx'[w] # None => tx'[w].req = tx[w].req /\ Kept(tx[w], tx'[w])
  BY <1>1, WorkerFacts DEF Stepped, Quiet
<1>3. ASSUME tx'[w] # None, Entered(tx'[w]) PROVE Claims(w, tx'[w])
  <2>1. tx'[w].new = tx[w].new /\ tx'[w].req = tx[w].req
    BY <1>2, <1>3 DEF Kept
  <2>2. Claims(w, tx[w])
    <3>1. CASE Entered(tx[w])
      BY <1>2, <3>1 DEF KeysOK
    <3>2. CASE EnterKeys(w)
      BY <1>3, <3>2, EnterKeysClaims
    <3>3. CASE Abort(w)
      BY <1>1, <1>3, <3>3 DEF Abort, End, IInv, TablesOK
    <3>4. CASE Statement(w).do # "save" \/ tx[w].half # 2
      BY <1>2, <1>3, <3>1, <3>4 DEF Kept, Statement
    <3>5. QED
      <4>1. CASE EnterKey(w) \/ CheckReferences(w) \/ Pass(w) \/ Pick(w) \/ Remove(w)
        <5>1. Statement(w).do # "save"
          BY <4>1 DEF EnterKey, CheckReferences, Pass, Pick, Remove, At
        <5>2. QED
          BY <3>4, <5>1
      <4>2. CASE TakeRecord(w)
        BY <3>4, <4>2 DEF TakeRecord, At
      <4>3. QED
        BY <3>2, <3>3, <4>1, <4>2
  <2>3. QED
    BY <2>1, <2>2 DEF Claims
<1>4. QED
  BY <1>2, <1>3, ClaimsStay

LEMMA BeginKeepsKeys ==
  ASSUME IInv, KeysOK, NEW w \in Workers, Begin(w)
  PROVE  KeysOK'
<1>1. PICK u \in Tx : tx'[w] = u /\ Fresh(u)
  BY BeginTables
<1>2. u.req.id \in Book!Ids /\ ~ Entered(u)
  BY <1>1, TxFields, RequestFields DEF Fresh, Entered
<1>3. QED
  BY <1>1, <1>2, BeginTables, ClaimsStay

LEMMA CommitKeepsKeys ==
  ASSUME IInv, KeysOK, NEW w \in Workers, Commit(w)
  PROVE  KeysOK'
<1>1. PICK t \in Tx : t = tx[w] /\ t # None
  BY CommitTables
<1>2. PICK id \in Book!Ids : id = t.req.id
  BY TxFields, RequestFields
<1>3. t.saved => Claims(w, t)
  <2>1. OwnOK(t, since[w], rows) /\ t.pc = Len(Program[t.req]) + 1
    BY <1>1, WorkerFacts DEF Commit
  <2>2. t.saved => Entered(t)
    BY <2>1, TxFields DEF OwnOK, SavedOK, Entered, Done
  <2>3. QED
    BY <1>1, <2>2 DEF KeysOK
<1>4. \A i \in Book!Ids : records'[i] = IF t.saved /\ i = id THEN t.new ELSE records[i]
  BY <1>1, <1>2 DEF Commit, IInv, TablesOK
<1>5. RecordsUnique'
  <2> SUFFICES ASSUME NEW i \in Book!Ids, NEW peer \in Peers(i), NEW c \in Unique(i)
               PROVE  records'[i][c] # records'[peer][c]
    BY DEF RecordsUnique
  <2>1. /\ peer \in Book!Ids /\ i \in Peers(peer) /\ peer # i /\ Unique(peer) = Unique(i)
        /\ records[i][c] # records[peer][c]
    BY PeersMeet DEF KeysOK, RecordsUnique
  <2>2. CASE t.saved /\ i = id
    BY <1>2, <1>3, <1>4, <2>1, <2>2 DEF Claims
  <2>3. CASE t.saved /\ peer = id
    BY <1>2, <1>3, <1>4, <2>1, <2>3 DEF Claims
  <2>4. CASE ~ (t.saved /\ (i = id \/ peer = id))
    BY <1>4, <2>1, <2>4
  <2>5. QED
    BY <2>2, <2>3, <2>4
<1>6. ASSUME NEW v \in Workers, tx'[v] # None
      PROVE  /\ v # w /\ tx[v] # None
             /\ tx'[v].req = tx[v].req /\ tx'[v].new = tx[v].new
             /\ Entered(tx'[v]) <=> Entered(tx[v])
  BY <1>6, CommitOthers DEF Like, Entered
<1>7. ASSUME NEW v \in Workers, tx'[v] # None, Entered(tx'[v])
      PROVE  Claims(v, tx[v])'
  <2>1. /\ v # w /\ tx[v] # None /\ Entered(tx[v]) /\ Claims(v, tx[v])
        /\ tx'[v].req = tx[v].req /\ tx'[v].new = tx[v].new
        /\ tx[v].req.id \in Book!Ids
    BY <1>6, <1>7, WorkerFacts DEF KeysOK
  <2>2. ASSUME NEW peer \in Peers(tx[v].req.id), NEW c \in Unique(tx[v].req.id)
        PROVE  tx[v].new[c] # records'[peer][c]
    <3>1. peer \in Book!Ids /\ tx[v].req.id \in Peers(peer) /\ Unique(peer) = Unique(tx[v].req.id)
      BY <2>1, PeersMeet
    <3>2. CASE t.saved /\ peer = id
      BY <1>2, <1>3, <1>4, <2>1, <3>1, <3>2 DEF Claims
    <3>3. CASE ~ (t.saved /\ peer = id)
      BY <1>4, <2>1, <3>1, <3>3 DEF Claims
    <3>4. QED
      BY <3>2, <3>3
  <2>3. ASSUME NEW y \in Workers, y # v, tx'[y] # None, Entered(tx'[y]),
               tx'[y].req.id \in Peers(tx[v].req.id), NEW c \in Unique(tx[v].req.id)
        PROVE  tx[v].new[c] # tx'[y].new[c]
    BY <1>6, <2>1, <2>3 DEF Claims
  <2>4. QED
    BY <2>1, <2>2, <2>3 DEF Claims
<1>8. QED
  BY <1>5, <1>7 DEF KeysOK

LEMMA KeysInvariance == Spec => []KeysOK
<1>1. Init => KeysOK
  BY UpdatesAssumption DEF Init, KeysOK, RecordsUnique
<1>2. IInv /\ KeysOK /\ [Next]_vars => KeysOK'
  <2> SUFFICES ASSUME IInv, KeysOK, [Next]_vars PROVE KeysOK'
    OBVIOUS
  <2>1. CASE UNCHANGED vars
    BY <2>1 DEF vars, KeysOK, RecordsUnique, Claims
  <2>2. ASSUME NEW w \in Workers, Begin(w) PROVE KeysOK'
    BY <2>2, BeginKeepsKeys
  <2>3. ASSUME NEW w \in Workers, Commit(w) PROVE KeysOK'
    BY <2>3, CommitKeepsKeys
  <2>4. ASSUME NEW w \in Workers,
               \/ EnterKey(w) \/ CheckReferences(w) \/ Pass(w) \/ Pick(w) \/ Remove(w)
               \/ TakeRecord(w) \/ EnterKeys(w) \/ Abort(w)
        PROVE  KeysOK'
    BY <2>4, StepKeepsKeys
  <2>5. QED
    BY <2>1, <2>2, <2>3, <2>4 DEF Next, Move
<1>3. QED
  BY <1>1, <1>2, Invariance, PTL DEF Spec

-----------------------------------------------------------------------------
(* Circles *)

\* What rises for ever does not stay in a finite set.
LEMMA NoEndlessRise ==
  ASSUME NEW D, IsFiniteSet(D), NEW R,
         \A u \in D : <<u, u>> \notin R,
         \A u, v, y \in D : <<u, v>> \in R /\ <<v, y>> \in R => <<u, y>> \in R,
         \A u \in D : \E v \in D : <<u, v>> \in R
  PROVE  D = {}
<1> SUFFICES ASSUME D # {} PROVE FALSE
  OBVIOUS
<1> DEFINE Above(u) == {v \in D : <<u, v>> \in R}
           C == {Above(u) : u \in D}
<1>1. C \subseteq FiniteSubsetsOf(D) /\ C # {}
  <2>1. FiniteSubsetsOf(D) = SUBSET D
    BY FS_FiniteSubsetsOfFinite
  <2>2. \A u \in D : Above(u) \in SUBSET D
    OBVIOUS
  <2> HIDE DEF Above
  <2>3. C \subseteq SUBSET D
    BY <2>2
  <2>4. PICK u \in D : TRUE
    OBVIOUS
  <2>5. Above(u) \in C
    OBVIOUS
  <2>6. QED
    BY <2>1, <2>3, <2>5
<1>2. \E A \in C : \A B \in C : ~ (<<B, A>> \in StrictSubsetOrdering(D))
  <2> HIDE DEF C
  <2>1. QED
    BY <1>1, FS_StrictSubsetOrderingWellFounded, WFMin
<1>3. PICK u \in D : \A B \in C : ~ (<<B, Above(u)>> \in StrictSubsetOrdering(D))
  BY <1>2
<1>4. PICK v \in D : <<u, v>> \in R
  OBVIOUS
<1>5. Above(v) \in C /\ Above(v) \subseteq Above(u) /\ v \in Above(u) /\ v \notin Above(v)
  BY <1>4
<1>6. <<Above(v), Above(u)>> \in StrictSubsetOrdering(D)
  BY <1>5 DEF StrictSubsetOrdering
<1>7. QED
  BY <1>3, <1>5, <1>6

LEMMA BeforeOrders ==
  ASSUME NEW b, NEW x \in Book!Rows, NEW y \in Book!Rows, NEW z \in Book!Rows
  PROVE  /\ ~ Before(b, x, x)
         /\ Before(b, x, y) /\ Before(b, y, z) => Before(b, x, z)
<1>1. /\ Rank[x.role] \in Nat /\ Rank[y.role] \in Nat /\ Rank[z.role] \in Nat
      /\ Rank[x.of] \in Nat /\ Rank[y.of] \in Nat /\ Rank[z.of] \in Nat
  BY UpdatesAssumption DEF Book!Rows, Book!PermissionRow, Book!BindingRow
<1>2. QED
  BY <1>1 DEF Before

\* Without renaming and deletion, who waits does so for a row that is being
\* inserted or a record that is being saved.
LEMMA CalmWaits ==
  ASSUME IInv, KeysOK, NEW u \in Workers, NEW v \in Workers, WaitsFor(u, v),
         ~ Renames(u), ~ Renames(v), tx[v].deleted = {}
  PROVE  \/ At(u, "insert", 1) /\ Statement(u).row \in tx[v].inserted
         \/ At(u, "save", 1) /\ tx[v].saved /\ tx[v].req.id = tx[u].req.id
<1>1. v # u /\ tx[v] # None /\ tx[u] # None
  BY DEF WaitsFor, At
<1>2. /\ tx[v] \in Tx /\ tx[v].req \in Requests /\ tx[v].req.id \in Book!Ids
      /\ OwnOK(tx[v], since[v], rows)
      /\ tx[u] \in Tx /\ tx[u].req \in Requests /\ tx[u].req.id \in Book!Ids
      /\ OwnOK(tx[u], since[u], rows)
  BY <1>1, WorkerFacts
<1>3. ASSUME NEW y \in {u, v}, tx[y].saved
      PROVE  Book!Saves(tx[y].req) /\ ~ KeyChange(tx[y].req.id, tx[y].new)
  <2>1. Book!Saves(tx[y].req)
    BY <1>2, <1>3, OnlySave DEF OwnOK, SavedOK
  <2>2. QED
    BY <1>3, <2>1 DEF Renames
<1>4. ASSUME At(u, "insert", 2), NEW id, WroteKey(v, id) PROVE FALSE
  BY <1>3, <1>4 DEF WroteKey
<1>5. ASSUME At(u, "save", 1), KeyChange(tx[u].req.id, Saved(u)) PROVE FALSE
  <2>1. Saving(Program[tx[u].req], tx[u].pc) /\ tx[u].pc \in DOMAIN Program[tx[u].req]
          /\ tx[u].half = 1
    BY <1>5, AtFacts DEF Saving
  <2>2. Book!Saves(tx[u].req)
    BY <1>2, <2>1, OnlySave
  <2>3. ~ tx[u].saved
    <3>1. ASSUME NEW i \in DOMAIN Program[tx[u].req], Saving(Program[tx[u].req], i),
                 Done(tx[u], i)
          PROVE  FALSE
      <4>1. i = tx[u].pc
        BY <1>2, <2>1, <3>1, OnlySave
      <4>2. tx[u].pc \in Nat
        BY <1>2, TxFields
      <4>3. QED
        BY <2>1, <3>1, <4>1, <4>2 DEF Done
    <3>2. QED
      BY <1>2, <3>1 DEF OwnOK, SavedOK
  <2>4. QED
    BY <1>5, <2>2, <2>3 DEF Renames
<1>6. ASSUME At(u, "save", 2), tx[v].saved, tx[v].req.id \in Peers(tx[u].req.id),
             NEW c \in Unique(tx[u].req.id),
             tx[u].new[c] \in {tx[v].new[c], records[tx[v].req.id][c]}
      PROVE  FALSE
  <2>1. tx[u].saved
    <3>1. /\ tx[u].half = 2 /\ tx[u].pc \in DOMAIN Program[tx[u].req]
          /\ Saving(Program[tx[u].req], tx[u].pc)
      BY <1>6, AtFacts DEF Saving
    <3>2. Done(tx[u], tx[u].pc)
      BY <3>1 DEF Done
    <3>3. QED
      BY <1>2, <3>1, <3>2 DEF OwnOK, SavedOK
  <2>2. Unique(tx[v].req.id) = Unique(tx[u].req.id)
    BY <1>2, <1>6, PeersMeet
  <2>3. tx[u].new[c] = records[tx[u].req.id][c]
    BY <1>3, <1>6, <2>1 DEF KeyChange
  <2>4. tx[v].new[c] = records[tx[v].req.id][c]
    BY <1>3, <1>6, <2>2 DEF KeyChange
  <2>5. records[tx[u].req.id][c] # records[tx[v].req.id][c]
    BY <1>2, <1>6 DEF KeysOK, RecordsUnique
  <2>6. QED
    BY <1>6, <2>3, <2>4, <2>5
<1>7. QED
  BY <1>1, <1>4, <1>5, <1>6 DEF WaitsFor

\* In a circle nobody waits to save: who could hold the record has nothing left
\* to wait for, or is an account update past its UPDATE; then it is an account
\* that is waited with, and its transaction has done nothing others wait for.
LEMMA CalmCircle ==
  ASSUME IInv, KeysOK, NEW D \in SUBSET Workers, Circle(D),
         \A v \in D : ~ Renames(v) /\ tx[v].deleted = {},
         NEW u \in D, NEW v \in D, WaitsFor(u, v)
  PROVE  At(u, "insert", 1) /\ Statement(u).row \in tx[v].inserted
<1> SUFFICES ASSUME At(u, "save", 1), tx[v].saved, tx[v].req.id = tx[u].req.id
             PROVE  FALSE
  BY CalmWaits
<1>1. tx[u] # None /\ tx[v] # None
  BY DEF WaitsFor, At
<1>2. /\ tx[v] \in Tx /\ tx[v].req \in Requests /\ tx[v].req.id \in Book!Ids
      /\ OwnOK(tx[v], since[v], rows)
      /\ tx[u] \in Tx /\ tx[u].req \in Requests /\ OwnOK(tx[u], since[u], rows)
  BY <1>1, WorkerFacts
<1>3. PICK k \in DOMAIN Program[tx[v].req] :
        Saving(Program[tx[v].req], k) /\ Done(tx[v], k)
  BY <1>2 DEF OwnOK, SavedOK
<1>4. Book!Saves(tx[v].req)
  BY <1>2, <1>3, OnlySave
<1>5. PICK y \in D : WaitsFor(v, y)
  BY DEF Circle
<1>6. At(v, "insert", 1) \/ At(v, "save", 1)
  BY <1>5, CalmWaits
<1>7. /\ tx[v].half = 1 /\ tx[v].pc \in DOMAIN Program[tx[v].req]
      /\ DOMAIN Program[tx[v].req] \subseteq Nat
  BY <1>2, <1>6, AtFacts, TxFields
<1>8. k < tx[v].pc
  BY <1>3, <1>7 DEF Done
<1>9. ~ SavesLast(Program[tx[v].req])
  BY <1>3, <1>7, <1>8 DEF SavesLast
<1>10. tx[v].req.op = "updateAccount"
  BY <1>2, <1>4, <1>9, Programs DEF ProgramOK, Book!Saves
<1>11. tx[u].half = 1 /\ tx[u].pc \in DOMAIN Program[tx[u].req]
         /\ Saving(Program[tx[u].req], tx[u].pc) /\ DOMAIN Program[tx[u].req] \subseteq Nat
  BY <1>2, AtFacts, TxFields DEF Saving
<1>12. Book!Saves(tx[u].req)
  BY <1>2, <1>11, OnlySave
<1>13. tx[u].req.op \in {"updateAccount", "login"}
  <2>1. WellFormed(tx[u].req) /\ WellFormed(tx[v].req)
    BY <1>2, RequestFields
  <2>2. QED
    BY <1>10, <1>12, <2>1, UpdatesAssumption DEF WellFormed, Book!Saves
<1>14. \A i \in DOMAIN Program[tx[u].req] : ~ Done(tx[u], i)
  <2>1. SavesFirst(Program[tx[u].req])
    BY <1>2, <1>13, Programs DEF ProgramOK
  <2>2. QED
    BY <1>11, <2>1 DEF SavesFirst, Done
<1>15. tx[u].inserted = {} /\ ~ tx[u].saved
  BY <1>2, <1>14 DEF OwnOK, InsertedOK, SavedOK
<1>16. PICK z \in D : WaitsFor(z, u)
  BY DEF Circle
<1>17. QED
  BY <1>15, <1>16, CalmWaits

\* Transactions that wait for each other in a circle have a reason that their
\* requests give, however many goroutines there are: one changes a name that
\* others refer to, lists things in another order than the rest, has deleted
\* rows which the others are about to put back, or replaces a role while another
\* replaces the roles of an account.
THEOREM DeadlocksHaveReasons == Spec => []DeadlocksAreProvoked
<1>1. IInv /\ KeysOK => DeadlocksAreProvoked
  <2> SUFFICES ASSUME IInv, KeysOK, NEW D \in SUBSET Workers, Circle(D),
                      \A v \in D : ~ Renames(v) /\ tx[v].deleted = {}
                                     /\ Ordered(tx[v].req),
                      ~ \E u, v \in D : /\ tx[v].req.op = "updateRole"
                                        /\ tx[u].req.op = "updateAccount"
               PROVE  FALSE
    BY DEF DeadlocksAreProvoked, Ordered
  <2>1. \A u \in D : tx[u] # None
    BY DEF Circle, WaitsFor
  <2>2. IsFiniteSet(D) /\ D # {}
    <3>1. D \subseteq Open
      BY <2>1 DEF Open
    <3>2. QED
      BY <3>1, FS_Subset DEF IInv, CountOK, Circle
  <2>3. PICK b \in {"permissions", "role_bindings"} :
          \A v \in D : Rising(b, Program[tx[v].req])
    <3>1. \A v \in D : tx[v].req \in Requests
      BY <2>1, WorkerFacts
    <3>2. QED
      BY <3>1, Programs
  <2> DEFINE row(u) == Statement(u).row
  <2>4. \A u \in D : At(u, "insert", 1) /\ row(u) \in Book!Rows
    <3> SUFFICES ASSUME NEW u \in D PROVE At(u, "insert", 1) /\ row(u) \in Book!Rows
      OBVIOUS
    <3>1. At(u, "insert", 1)
      BY CalmCircle DEF Circle
    <3>2. Statement(u) \in Stmt /\ Statement(u).do = "insert"
      BY <3>1, AtFacts
    <3>3. QED
      BY <3>1, <3>2 DEF Stmt, Save, Skip
  <2>5. ASSUME NEW u \in D, NEW v \in D, WaitsFor(u, v)
        PROVE  Before(b, row(u), row(v))
    <3>1. row(u) \in tx[v].inserted
      BY <2>5, CalmCircle
    <3>2. /\ OwnOK(tx[v], since[v], rows) /\ tx[v] \in Tx /\ tx[v].half = 1
          /\ tx[v].pc \in DOMAIN Program[tx[v].req]
          /\ Adds(Program[tx[v].req], tx[v].pc, row(v))
      BY <2>4, AtFacts DEF Adds
    <3>3. PICK i \in DOMAIN Program[tx[v].req] :
            Adds(Program[tx[v].req], i, row(u)) /\ Done(tx[v], i)
      BY <3>1, <3>2 DEF OwnOK, InsertedOK
    <3>4. i < tx[v].pc
      BY <3>2, <3>3, TxFields DEF Done
    <3>5. QED
      BY <2>3, <2>4, <3>2, <3>3, <3>4 DEF Rising
  <2> DEFINE R == {p \in D \X D : Before(b, row(p[1]), row(p[2]))}
  <2>6. \A u, v \in D : <<u, v>> \in R <=> Before(b, row(u), row(v))
    OBVIOUS
  <2> HIDE DEF R, row
  <2>7. /\ \A u \in D : <<u, u>> \notin R
        /\ \A u, v, y \in D : <<u, v>> \in R /\ <<v, y>> \in R => <<u, y>> \in R
    BY <2>4, <2>6, BeforeOrders
  <2>8. \A u \in D : \E v \in D : <<u, v>> \in R
    BY <2>5, <2>6 DEF Circle
  <2>9. QED
    BY <2>2, <2>7, <2>8, NoEndlessRise
<1>2. QED
  BY <1>1, Invariance, KeysInvariance, PTL
=============================================================================
