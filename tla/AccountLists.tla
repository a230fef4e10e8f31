---------------------------- MODULE AccountLists ----------------------------
(***************************************************************************)
(* What the access-control core tells its clients: the lists of accounts,  *)
(* page by page, and the accounts that have a permission.                  *)
(***************************************************************************)
EXTENDS AccessControl

CONSTANTS Rank,    \* the order of names in the database's collation
          Asked    \* permissions whose holders are listed

ASSUME ListsAssumption ==
  /\ Rank \in [Names -> Nat]
  /\ \A n, m \in Names : Rank[n] = Rank[m] => n = m
  /\ Asked \subseteq Permissions

-----------------------------------------------------------------------------
(* Pages: ORDER BY name LIMIT OFFSET *)

\* No limit when the size is zero, and then no offset either.
Offset(lo) == IF lo.pageSize = 0 THEN 0 ELSE lo.pageSize * lo.page
Place(a, S) == Cardinality({b \in S : Rank[accounts[b].name] < Rank[accounts[a].name]})
Page(S, lo) ==
  {a \in S : /\ Place(a, S) >= Offset(lo)
             /\ lo.pageSize # 0 => Place(a, S) < Offset(lo) + lo.pageSize}

List(lo)  == Page(Existing, lo)
ListCount == Cardinality(Existing)

\* Fault: accounts that have the permission by their base role.
HoldersByBase(p) ==
  LET given == {row.role : row \in {x \in rows : SqlGrants(x.perm, p)}}
  IN  {a \in Existing : accounts[a].base \in given}

\* The accounts bound to a role that has a row satisfying the permission.
Holders(p) ==
  LET given == {row.role : row \in {x \in rows : SqlGrants(x.perm, p)}}
  IN  {b[1] : b \in {x \in bindings : x[2] \in given}}

\* Only an owner of the permission may see who has it.
MayList(caller, p)        == HasPermission(RowsOf(caller), OwnerOf(p))
ListWithPermission(lo, p) == Page(Holders(p), lo)
ListWithPermissionCount(p) == Cardinality(Holders(p))

-----------------------------------------------------------------------------
(* Properties *)

\* The pages of a list, one after the other, show every account once and
\* nothing else, and as many as the count says, for any size.
Pages(S, count) ==
  /\ count = Cardinality(S)
  /\ \A size \in 1..2 :
       LET last == count \div size
           page(k) == Page(S, [pageSize |-> size, page |-> k])
       IN  /\ UNION {page(k) : k \in 0..last} = S
           /\ \A k \in 0..last : Cardinality(page(k)) =
                IF k < last THEN size ELSE count - size * last

All == [pageSize |-> 0, page |-> 0]

\* Who is listed as having a permission is who is let through when he uses it:
\* the query behind the list, which goes from rows to roles to accounts, agrees
\* with the one behind the guards, which goes from the account to its rows;
\* whoever may see the list is on it; and the pages of all accounts show
\* everybody once.  It is about the tables alone, and any request may fail: what
\* the tables hold while requests are under way they also hold when none is.
ListedAreLetThrough == (\A w \in Workers : job[w] = None) =>
  /\ List(All) = Existing /\ Pages(Existing, ListCount)
  /\ \A p \in Asked :
       LET listed == ListWithPermission(All, p)
       IN  /\ listed = {a \in Existing : HasPermission(RowsOf(a), p)}
           /\ ListWithPermissionCount(p) = Cardinality(listed)
           /\ \A a \in Existing : MayList(a, p) => a \in listed
=============================================================================
