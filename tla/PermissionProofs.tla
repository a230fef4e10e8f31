-------------------------- MODULE PermissionProofs --------------------------
(***************************************************************************)
(* What MCPermission checks on a small alphabet, for every alphabet and    *)
(* hierarchies of every length.                                            *)
(***************************************************************************)
EXTENDS Permission, TLAPS

\* Contains relates every hierarchy to itself: an owner of exactly one
\* permission can hand that permission out (models/permission.go:104).
LEMMA ContainsReflexive ==
  ASSUME NEW h \in Hierarchies PROVE Contains(h, h)
  BY DEF Contains, Hierarchies

\* Contains is transitive: what a hierarchy contains through another one it
\* contains itself, wherever the wildcards are (models/permission.go:104).
THEOREM ContainsTransitive ==
  ASSUME NEW a \in Hierarchies, NEW b \in Hierarchies, NEW c \in Hierarchies,
         Contains(a, b), Contains(b, c)
  PROVE  Contains(a, c)
<1> DEFINE Agree(x, y, n) == \A j \in 1..(n - 1) : x[j] = y[j]
<1>1. /\ Len(a) \in Nat /\ DOMAIN a = 1..Len(a)
      /\ Len(b) \in Nat /\ DOMAIN b = 1..Len(b)
      /\ Len(c) \in Nat /\ DOMAIN c = 1..Len(c)
  BY DEF Hierarchies
<1>2. Len(a) <= Len(b) /\ Len(b) <= Len(c) /\ Len(a) <= Len(c)
  BY <1>1 DEF Contains
<1>3. CASE a = b
  BY <1>3
<1>4. CASE b = c
  BY <1>4
<1>5. CASE a # b /\ b # c
  <2>1. PICK k \in 1..Len(a) : a[k] = Star /\ Agree(a, b, k)
    BY <1>1, <1>5 DEF Contains
  <2>2. PICK m \in 1..Len(b) : b[m] = Star /\ Agree(b, c, m)
    BY <1>1, <1>5 DEF Contains
  <2>3. CASE k <= m
    <3>1. \A j \in 1..(k - 1) : a[j] = c[j]
      BY <1>1, <2>1, <2>2, <2>3
    <3>2. QED
      BY <1>1, <1>2, <2>1, <3>1 DEF Contains
  <2>4. CASE m < k
    <3>1. m \in 1..Len(a) /\ a[m] = Star
      BY <1>1, <2>1, <2>2, <2>4
    <3>2. \A j \in 1..(m - 1) : a[j] = c[j]
      BY <1>1, <2>1, <2>2, <2>4
    <3>3. QED
      BY <1>1, <1>2, <3>1, <3>2 DEF Contains
  <2>5. QED
    BY <1>1, <2>1, <2>2, <2>3, <2>4
<1>6. QED
  BY <1>3, <1>4, <1>5

LEMMA OwnerOfType ==
  ASSUME NEW p \in Permissions
  PROVE  /\ OwnerOf(p) \in Permissions
         /\ OwnerOf(p).level = RO
         /\ OwnerOf(p).service = p.service
         /\ OwnerOf(p).action = p.action
         /\ OwnerOf(p).rh = p.rh
  BY DEF OwnerOf, Permissions, Levels

\* Handing out is transitive: the owner of a permission that can be handed
\* to make somebody the owner of a second one, with which a third can be
\* handed out, could have handed out the third one itself (the check of
\* usecases/service_accounts.go:423).  It is why no chain of hand-outs
\* creates rights.
THEOREM OwnershipTransitive ==
  ASSUME NEW p \in Permissions, NEW q \in Permissions, NEW r \in Permissions,
         GoGrants(p, OwnerOf(q)), GoGrants(q, OwnerOf(r))
  PROVE  GoGrants(p, OwnerOf(r))
<1>1. p.rh \in Hierarchies /\ q.rh \in Hierarchies /\ r.rh \in Hierarchies
  BY DEF Permissions
<1>2. Contains(p.rh, r.rh)
  BY <1>1, ContainsTransitive, OwnerOfType DEF GoGrants
<1>3. /\ Wild(p.service, r.service)
      /\ Wild(p.action, r.action)
  BY OwnerOfType DEF GoGrants, Wild
<1>4. ~Less(p.level, OwnerOf(r).level)
  BY OwnerOfType DEF GoGrants, Less
<1>5. QED
  BY <1>2, <1>3, <1>4, OwnerOfType DEF GoGrants

\* An owner's row hands out its own permission, at either level.
LEMMA OwnerHandsOutItself ==
  ASSUME NEW p \in Permissions, p.level = RO
  PROVE  GoGrants(p, OwnerOf(p))
<1>1. Contains(p.rh, p.rh)
  BY ContainsReflexive DEF Permissions
<1>2. QED
  BY <1>1, OwnerOfType DEF GoGrants, Wild, Less, RO, RL

\* Every string that PermissionMatches lists is a hierarchy that contains
\* the asked one (models/permission.go:75).
LEMMA MatchesContain ==
  ASSUME NEW h \in Hierarchies, NEW o \in Hierarchies, h \in PermissionMatches(o)
  PROVE  Contains(h, o)
<1>1. Len(o) \in Nat \ {0} /\ DOMAIN o = 1..Len(o)
  BY DEF Hierarchies
<1>2. CASE h = o
  BY <1>2, ContainsReflexive
<1>3. CASE h = <<Star>>
  BY <1>1, <1>3 DEF Contains
<1>4. CASE h \in Prefixes(o)
  <2>1. PICK i \in 1..(Len(o) - 1) : h = Append(SubSeq(o, 1, i), Star)
    BY <1>4 DEF Prefixes
  <2>2. o \in Seq(Parts) /\ SubSeq(o, 1, i) \in Seq(Parts)
    BY <1>1 DEF Hierarchies
  <2>3. /\ Len(h) = i + 1 /\ DOMAIN h = 1..(i + 1)
        /\ h[i + 1] = Star
        /\ \A j \in 1..i : h[j] = o[j]
    BY <1>1, <2>1, <2>2
  <2>4. i + 1 <= Len(o) /\ i + 1 \in DOMAIN h /\ (i + 1) - 1 = i
    BY <1>1, <2>3
  <2>5. QED
    BY <2>3, <2>4 DEF Contains
<1>5. QED
  BY <1>2, <1>3, <1>4 DEF PermissionMatches

\* SQL is the stricter evaluator, for every pair of permissions: a request
\* let through by ServiceAccounts.HasPermission is one IsPresent accepts.
THEOREM SqlStricter ==
  ASSUME NEW held \in Permissions, NEW asked \in Permissions,
         SqlGrants(held, asked)
  PROVE  GoGrants(held, asked)
<1>1. Contains(held.rh, asked.rh)
  BY MatchesContain DEF SqlGrants, Permissions
<1>2. ~Less(held.level, asked.level)
  BY DEF SqlGrants, Less, RO, RL
<1>3. QED
  BY <1>1, <1>2 DEF SqlGrants, GoGrants

\* Conversely, a hierarchy written with its wildcard last that contains
\* another such hierarchy is on the list PermissionMatches makes of it.
LEMMA ContainedMatch ==
  ASSUME NEW h \in Hierarchies, NEW o \in Hierarchies,
         WellFormed(h), WellFormed(o), Contains(h, o)
  PROVE  h \in PermissionMatches(o)
<1>1. /\ Len(o) \in Nat \ {0} /\ DOMAIN o = 1..Len(o)
      /\ Len(h) \in Nat \ {0} /\ DOMAIN h = 1..Len(h)
      /\ h \in Seq(Parts) /\ o \in Seq(Parts)
  BY DEF Hierarchies
<1>2. Len(h) \in Nat /\ Len(o) \in Nat
  BY <1>1
<1>3. CASE h = o
  BY <1>3 DEF PermissionMatches
<1>4. CASE h # o
  <2>1. PICK k \in 1..Len(h) : h[k] = Star /\ \A j \in 1..(k - 1) : h[j] = o[j]
    BY <1>1, <1>4 DEF Contains
  <2>2. k = Len(h)
    <3>1. k \notin 1..(Len(h) - 1)
      BY <2>1 DEF WellFormed
    <3>2. QED
      BY <1>2, <3>1
  <2>3. CASE k = 1
    <3>1. h = <<Star>>
      BY <1>1, <2>1, <2>2, <2>3
    <3>2. QED
      BY <3>1 DEF PermissionMatches
  <2>4. CASE k > 1
    <3> DEFINE i == k - 1
    <3>1. i \in 1..(Len(o) - 1) /\ i <= Len(o)
      BY <1>1, <2>1, <2>2, <2>4 DEF Contains
    <3>2. SubSeq(o, 1, i) \in Seq(Parts) /\ Len(SubSeq(o, 1, i)) = i
      BY <1>1, <3>1
    <3>3. h = Append(SubSeq(o, 1, i), Star)
      BY <1>1, <2>1, <2>2, <3>1, <3>2
    <3>4. \A j \in 2..(i + 1) : o[j] # Star
      <4>1. Len(h) <= Len(o)
        BY DEF Contains
      <4>2. CASE k = Len(o) /\ o[k] = Star
        <5>1. h = o
          BY <1>1, <2>1, <2>2, <4>2
        <5>2. QED
          BY <5>1, <1>4
      <4>3. CASE ~(k = Len(o) /\ o[k] = Star)
        <5>1. ASSUME NEW j \in 2..(i + 1) PROVE o[j] # Star
          <6>1. j \in 1..(Len(o) - 1) => o[j] # Star
            BY DEF WellFormed
          <6>2. j = Len(o) => j = k
            BY <1>2, <2>2, <4>1
          <6>3. j \in 1..(Len(o) - 1) \/ j = Len(o)
            BY <1>2, <2>2, <4>1
          <6>4. QED
            BY <2>2, <4>3, <6>1, <6>2, <6>3
        <5>2. QED
          BY <5>1
      <4>4. QED
        BY <4>2, <4>3
    <3>5. h \in Prefixes(o)
      BY <3>1, <3>3, <3>4 DEF Prefixes
    <3>6. o # <<Star>>
      BY <1>1, <3>1
    <3>7. QED
      BY <3>5, <3>6 DEF PermissionMatches
  <2>5. QED
    BY <1>1, <2>1, <2>3, <2>4
<1>5. QED
  BY <1>3, <1>4

\* The two evaluators agree on hierarchies written as the README writes them.
THEOREM EvaluatorsAgreeWhenWellFormed ==
  ASSUME NEW held \in Permissions, NEW asked \in Permissions,
         WellFormed(held.rh), WellFormed(asked.rh)
  PROVE  SqlGrants(held, asked) <=> GoGrants(held, asked)
<1>1. ASSUME GoGrants(held, asked) PROVE SqlGrants(held, asked)
  <2>1. held.rh \in PermissionMatches(asked.rh)
    BY <1>1, ContainedMatch DEF GoGrants, Permissions
  <2>2. asked.level = RO => held.level = RO
    BY <1>1 DEF GoGrants, Less, Permissions, Levels
  <2>3. QED
    BY <1>1, <2>1, <2>2 DEF GoGrants, SqlGrants
<1>2. QED
  BY <1>1, SqlStricter

-----------------------------------------------------------------------------
(* Containment and what hierarchies stand for *)

\* A hierarchy without wildcards is a resource.
LEMMA CompleteIsResource ==
  ASSUME NEW o \in Hierarchies, WellFormed(o), o[Len(o)] # Star,
         NEW depth \in Nat, Len(o) <= depth
  PROVE  o \in Resources(depth)
<1>1. o \in Seq(Parts) /\ Len(o) \in Nat \ {0} /\ o \in [1..Len(o) -> Parts]
  BY DEF Hierarchies
<1>2. \A i \in 1..Len(o) : o[i] # Star
  BY <1>1 DEF WellFormed
<1>3. o \in [1..Len(o) -> Segments]
  BY <1>1, <1>2 DEF Parts
<1>4. Len(o) \in 1..depth
  BY <1>1
<1>5. QED
  BY <1>3, <1>4 DEF Resources

\* The parts of an open hierarchy and any segment after them name a resource
\* that it stands for.
LEMMA Below ==
  ASSUME NEW o \in Hierarchies, WellFormed(o), o[Len(o)] = Star,
         NEW s \in Segments, NEW depth \in Nat, NEW n \in Nat, Len(o) <= n, n <= depth
  PROVE  \E r \in Denotes(o, depth) : /\ Len(r) = n
                                      /\ \A j \in 1..(Len(o) - 1) : r[j] = o[j]
<1> DEFINE r == [j \in 1..n |-> IF j < Len(o) THEN o[j] ELSE s]
<1>1. o \in Seq(Parts) /\ Len(o) \in Nat \ {0} /\ o \in [1..Len(o) -> Parts]
  BY DEF Hierarchies
<1>2. r \in [1..n -> Segments]
  <2>1. ASSUME NEW j \in 1..n, j < Len(o) PROVE o[j] \in Segments
    BY <1>1, <2>1 DEF WellFormed, Parts
  <2>2. QED
    BY <1>1, <2>1
<1>3. n \in 1..depth
  BY <1>1
<1>4. r \in Resources(depth)
  BY <1>2, <1>3 DEF Resources
<1>5. Len(r) = n
  BY <1>2
<1>6. \A j \in 1..(Len(o) - 1) : r[j] = o[j]
  BY <1>1
<1>7. r \in Denotes(o, depth)
  BY <1>4, <1>5, <1>6 DEF Denotes
<1>8. QED
  BY <1>5, <1>6, <1>7

\* An open hierarchy contains every other that is as long and begins like it.
LEMMA OpenContains ==
  ASSUME NEW h \in Hierarchies, NEW o \in Hierarchies, h[Len(h)] = Star,
         Len(h) <= Len(o), \A j \in 1..(Len(h) - 1) : h[j] = o[j]
  PROVE  Contains(h, o)
<1>1. Len(h) \in DOMAIN h
  BY DEF Hierarchies
<1>2. QED
  BY <1>1 DEF Contains

\* What Contains compares part by part is whether one set of resources lies
\* within the other (models/permission.go:104, README: complete and open
\* hierarchies).
THEOREM ContainsInclusion ==
  ASSUME NEW h \in Hierarchies, NEW o \in Hierarchies, WellFormed(h), WellFormed(o),
         Segments # {}, NEW depth \in Nat, Len(h) < depth, Len(o) < depth
  PROVE  Contains(h, o) <=> Denotes(o, depth) \subseteq Denotes(h, depth)
<1>1. /\ Len(h) \in Nat \ {0} /\ DOMAIN h = 1..Len(h)
      /\ Len(o) \in Nat \ {0} /\ DOMAIN o = 1..Len(o)
  BY DEF Hierarchies
<1>2. ASSUME Contains(h, o), h # o, NEW r \in Denotes(o, depth)
      PROVE  r \in Denotes(h, depth)
  <2>1. PICK k \in 1..Len(h) : h[k] = Star /\ \A j \in 1..(k - 1) : h[j] = o[j]
    BY <1>1, <1>2 DEF Contains
  <2>2. k \notin 1..(Len(h) - 1)
    BY <2>1 DEF WellFormed
  <2>3. k = Len(h)
    <3>1. Len(h) \in Nat
      BY <1>1
    <3>2. QED
      BY <2>2, <3>1
  <2>4. Len(h) <= Len(o)
    BY <1>2 DEF Contains
  <2>5. CASE o[Len(o)] = Star
    <3>1. /\ r \in Resources(depth) /\ Len(r) >= Len(o)
          /\ \A j \in 1..(Len(o) - 1) : r[j] = o[j]
      BY <1>2, <2>5 DEF Denotes
    <3>2. PICK n \in 1..depth : r \in [1..n -> Segments]
      BY <3>1 DEF Resources
    <3>3. Len(r) = n
      BY <3>2
    <3>4. Len(r) >= Len(h) /\ \A j \in 1..(Len(h) - 1) : r[j] = h[j]
      BY <1>1, <2>1, <2>3, <2>4, <3>1, <3>3
    <3>5. QED
      BY <2>1, <2>3, <3>1, <3>4 DEF Denotes
  <2>6. CASE o[Len(o)] # Star
    <3>1. r = o
      BY <1>2, <2>6 DEF Denotes
    <3>2. o \in Resources(depth)
      BY <1>1, <2>6, CompleteIsResource
    <3>3. Len(o) >= Len(h) /\ \A j \in 1..(Len(h) - 1) : o[j] = h[j]
      BY <1>1, <2>1, <2>3, <2>4
    <3>4. QED
      BY <2>1, <2>3, <3>1, <3>2, <3>3 DEF Denotes
  <2>7. QED
    BY <2>5, <2>6
<1>3. ASSUME Denotes(o, depth) \subseteq Denotes(h, depth) PROVE Contains(h, o)
  <2>1. CASE o[Len(o)] = Star
    <3>1. PICK s : s \in Segments
      OBVIOUS
    <3>2. PICK r \in Denotes(o, depth) :
            Len(r) = Len(o) /\ \A j \in 1..(Len(o) - 1) : r[j] = o[j]
      BY <1>1, <2>1, <3>1, Below
    <3>3. PICK t \in Denotes(o, depth) : Len(t) = Len(o) + 1
      <4>1. Len(o) + 1 \in Nat /\ Len(o) <= Len(o) + 1 /\ Len(o) + 1 <= depth
        BY <1>1
      <4>2. QED
        BY <2>1, <3>1, <4>1, Below
    <3>4. r \in Denotes(h, depth) /\ t \in Denotes(h, depth)
      BY <1>3, <3>2, <3>3
    <3>5. h[Len(h)] = Star
      <4>1. ASSUME h[Len(h)] # Star PROVE FALSE
        <5>1. r = h /\ t = h
          BY <3>4, <4>1 DEF Denotes
        <5>2. QED
          BY <1>1, <3>2, <3>3, <5>1
      <4>2. QED
        BY <4>1
    <3>6. Len(r) >= Len(h) /\ \A j \in 1..(Len(h) - 1) : r[j] = h[j]
      BY <3>4, <3>5 DEF Denotes
    <3>7. \A j \in 1..(Len(h) - 1) : h[j] = o[j]
      BY <1>1, <3>2, <3>6
    <3>8. QED
      BY <3>2, <3>5, <3>6, <3>7, OpenContains
  <2>2. CASE o[Len(o)] # Star
    <3>1. o \in Denotes(h, depth)
      BY <1>3, <2>2 DEF Denotes
    <3>2. CASE h[Len(h)] = Star
      <4>1. Len(o) >= Len(h) /\ \A j \in 1..(Len(h) - 1) : o[j] = h[j]
        BY <3>1, <3>2 DEF Denotes
      <4>2. QED
        BY <1>1, <3>2, <4>1, OpenContains
    <3>3. CASE h[Len(h)] # Star
      <4>1. o = h
        BY <3>1, <3>3 DEF Denotes
      <4>2. QED
        BY <4>1, ContainsReflexive
    <3>4. QED
      BY <3>2, <3>3
  <2>3. QED
    BY <2>1, <2>2
<1>4. QED
  BY <1>2, <1>3
=============================================================================
