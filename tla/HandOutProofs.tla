---------------------------- MODULE HandOutProofs ----------------------------
(***************************************************************************)
(* Chains of hand-outs, the questions asked on the way, the list of open   *)
(* requests and the access manager's listing, for every alphabet, every    *)
(* depth and every registered service: what MCPermission checks up to      *)
(* three parts.                                                            *)
(***************************************************************************)
EXTENDS MCPermission, PermissionProofs, WellFoundedInduction

-----------------------------------------------------------------------------
(* The list of open requests *)

\* What LIKE matches and what Contains contains are the same, for a hierarchy
\* that ends in a wildcard or is the asked one
\* (repositories/permissions_requests.go:82, models/permission.go:104).
LEMMA ContainedIsLike ==
  ASSUME NEW h \in Hierarchies, NEW o \in Hierarchies,
         WellFormed(h), Contains(h, o)
  PROVE  Like(h, o)
<1>1. /\ Len(h) \in Nat \ {0} /\ DOMAIN h = 1..Len(h)
      /\ Len(o) \in Nat \ {0} /\ Len(h) <= Len(o)
  BY DEF Hierarchies, Contains
<1>2. CASE h = o
  BY <1>1, <1>2 DEF Like, WellFormed
<1>3. CASE h # o
  <2>1. PICK k \in 1..Len(h) : h[k] = Star /\ \A j \in 1..(k - 1) : h[j] = o[j]
    BY <1>1, <1>3 DEF Contains
  <2>2. k = Len(h)
    <3>1. k \notin 1..(Len(h) - 1)
      BY <2>1 DEF WellFormed
    <3>2. Len(h) \in Nat
      BY <1>1
    <3>3. QED
      BY <3>1, <3>2
  <2>3. QED
    BY <1>1, <2>1, <2>2 DEF Like, WellFormed
<1>4. QED
  BY <1>2, <1>3

LEMMA LikeIsContainedOrBegins ==
  ASSUME NEW h \in Hierarchies, NEW o \in Hierarchies, Like(h, o), ~ Contains(h, o)
  PROVE  h[Len(h)] # Star /\ h = SubSeq(o, 1, Len(h)) /\ h # o
<1>1. /\ h \in Seq(Parts) /\ Len(h) \in Nat \ {0} /\ DOMAIN h = 1..Len(h)
      /\ o \in Seq(Parts) /\ Len(o) \in Nat \ {0} /\ Len(h) <= Len(o)
  BY DEF Hierarchies, Like
<1>2. h # o
  BY ContainsReflexive
<1>3. h[Len(h)] # Star
  <2>1. ASSUME h[Len(h)] = Star PROVE FALSE
    <3>1. \A j \in 1..(Len(h) - 1) : h[j] = o[j]
      BY DEF Like
    <3>2. Len(h) \in DOMAIN h
      BY <1>1
    <3>3. Contains(h, o)
      BY <1>1, <2>1, <3>1, <3>2 DEF Contains
    <3>4. QED
      BY <3>3
  <2>2. QED
    BY <2>1
<1>4. \A i \in 1..Len(h) : h[i] = o[i]
  BY <1>1, <1>3 DEF Like
<1>5. /\ SubSeq(o, 1, Len(h)) \in Seq(Parts)
      /\ Len(SubSeq(o, 1, Len(h))) = Len(h)
      /\ \A i \in 1..Len(h) : SubSeq(o, 1, Len(h))[i] = o[i]
  BY <1>1
<1>6. h = SubSeq(o, 1, Len(h))
  BY <1>1, <1>4, <1>5
<1>7. QED
  BY <1>2, <1>3, <1>6

\* One row of the account against one request.
LEMMA RowShows ==
  ASSUME NEW h \in Permissions, NEW p \in Permissions, WellFormed(h.rh)
  PROVE  /\ SqlGrants(h, OwnerOf(p)) => Shows(h, p)
         /\ (Shows(h, p) /\ ~ SqlGrants(h, OwnerOf(p)) /\ WellFormed(p.rh)) =>
              /\ h.rh[Len(h.rh)] # Star
              /\ h.rh = SubSeq(p.rh, 1, Len(h.rh)) /\ h.rh # p.rh
<1>1. h.rh \in Hierarchies /\ p.rh \in Hierarchies
  BY DEF Permissions
<1>2. ASSUME SqlGrants(h, OwnerOf(p)) PROVE Shows(h, p)
  <2>1. Contains(h.rh, p.rh)
    BY <1>1, <1>2, OwnerOfType, MatchesContain DEF SqlGrants
  <2>2. QED
    BY <1>1, <1>2, <2>1, ContainedIsLike, OwnerOfType DEF SqlGrants, Shows
<1>3. ASSUME Shows(h, p), ~ SqlGrants(h, OwnerOf(p)), WellFormed(p.rh)
      PROVE  /\ h.rh[Len(h.rh)] # Star
             /\ h.rh = SubSeq(p.rh, 1, Len(h.rh)) /\ h.rh # p.rh
  <2>1. ~ Contains(h.rh, p.rh)
    <3>1. ASSUME Contains(h.rh, p.rh) PROVE FALSE
      <4>1. h.rh \in PermissionMatches(p.rh)
        BY <1>1, <1>3, <3>1, ContainedMatch
      <4>2. QED
        BY <1>3, <4>1, OwnerOfType DEF Shows, SqlGrants
    <3>2. QED
      BY <3>1
  <2>2. h.rh # <<Star>>
    <3>1. Len(p.rh) \in Nat \ {0}
      BY <1>1 DEF Hierarchies
    <3>2. ASSUME h.rh = <<Star>> PROVE Contains(h.rh, p.rh)
      <4>1. Len(h.rh) = 1 /\ 1 \in DOMAIN h.rh /\ h.rh[1] = Star
        BY <3>2
      <4>2. QED
        BY <3>1, <4>1 DEF Contains
    <3>3. QED
      BY <2>1, <3>2
  <2>3. Like(h.rh, p.rh)
    BY <1>3, <2>2 DEF Shows
  <2>4. QED
    BY <1>1, <2>1, <2>3, LikeIsContainedOrBegins
<1>4. QED
  BY <1>2, <1>3

\* Every account finds the requests it may decide on its list, and those it
\* finds without being able to decide them continue a complete hierarchy it
\* owns: for every alphabet and depth
\* (repositories/permissions_requests.go:62, usecases/permissions_requests.go:84).
THEOREM RequestsReachTheirDeciders ==
  ASSUME NEW h \in Permissions, NEW p \in Permissions
  PROVE  RequestReachesDeciders(h, p)
<1>1. p \in ListOpenRequestsVisibleTo({h}, {p}) <=> Shows(h, p)
  BY DEF ListOpenRequestsVisibleTo
<1>2. HasPermission({h}, OwnerOf(p)) <=> SqlGrants(h, OwnerOf(p))
  BY DEF HasPermission
<1>3. QED
  BY <1>1, <1>2, RowShows DEF RequestReachesDeciders

-----------------------------------------------------------------------------
(* Chains of hand-outs *)

\* The hierarchies of bounded depth are hierarchies.
LEMMA UniverseType ==
  ASSUME NEW p \in Universe
  PROVE  p \in Permissions /\ Len(p.rh) <= MaxDepth
<1>1. PICK n \in 1..MaxDepth : p.rh \in [1..n -> Parts]
  BY DEF Universe, BoundedHierarchies
<1>2. n \in Nat \ {0}
  BY DepthAssumption, <1>1
<1>3. p.rh \in Seq(Parts) /\ Len(p.rh) = n
  BY <1>1, <1>2
<1>4. p.rh # <<>>
  BY <1>2, <1>3
<1>5. p.rh \in Hierarchies
  BY <1>3, <1>4 DEF Hierarchies
<1>6. p = [service |-> p.service, level |-> p.level, action |-> p.action, rh |-> p.rh]
  BY DEF Universe
<1>7. QED
  BY <1>1, <1>3, <1>5, <1>6, DepthAssumption DEF Universe, Permissions

\* What the rows are, and where the last one comes from.
IInv ==
  /\ root \in Universe /\ held \in Universe /\ asked \in Universe
  /\ ChainsConserveRights

LEMMA Initially == Init => IInv
  BY DEF Init, IInv, ChainsConserveRights

\* Whoever could hand out the last row could, by the first one, hand out what
\* the last one hands out.
LEMMA Inductive == IInv /\ [Next]_vars => IInv'
<1> SUFFICES ASSUME IInv, [Next]_vars PROVE IInv'
  OBVIOUS
<1>1. /\ root \in Permissions /\ held \in Permissions /\ asked \in Permissions
  BY UniverseType DEF IInv
<1>2. CASE Ask
  BY <1>2 DEF Ask, IInv, ChainsConserveRights
<1>3. CASE HandOut
  <2>1. GoGrants(held, OwnerOf(asked)) /\ held' = asked /\ root' = root /\ asked' = asked
    BY <1>3 DEF HandOut
  <2>2. CASE held = root
    BY <2>1, <2>2 DEF IInv, ChainsConserveRights, OwnerOf
  <2>3. CASE GoGrants(root, OwnerOf(held))
    <3>1. GoGrants(root, OwnerOf(asked))
      BY <1>1, <2>1, <2>3, OwnershipTransitive
    <3>2. QED
      BY <2>1, <3>1 DEF IInv, ChainsConserveRights, OwnerOf
  <2>4. QED
    BY <2>2, <2>3 DEF IInv, ChainsConserveRights, OwnerOf
<1>4. CASE UNCHANGED vars
  BY <1>4 DEF vars, IInv, ChainsConserveRights
<1>5. QED
  BY <1>2, <1>3, <1>4 DEF Next

LEMMA Reachable == Spec => []IInv
  BY Initially, Inductive, PTL DEF Spec

\* However long the chain of hand-outs and whatever the hierarchies in it, no
\* one receives more than the owner at its start had
\* (usecases/service_accounts.go:423, api/roles_handlers.go:149).
THEOREM NoChainCreatesRights == Spec => []ChainsConserveRights
<1>1. IInv => ChainsConserveRights
  BY DEF IInv
<1>2. QED
  BY <1>1, Reachable, PTL

\* A handler that takes one permission and one that takes a list give the same
\* answer for every hierarchy written with its wildcard last
\* (repositories/service_accounts.go:73, models/permission.go:195).
THEOREM HandlersAgree == Spec => []EvaluatorsAgree
<1>1. IInv => EvaluatorsAgree
  BY UniverseType, EvaluatorsAgreeWhenWellFormed DEF IInv, EvaluatorsAgree
<1>2. QED
  BY <1>1, Reachable, PTL

\* Never does a handler that takes one permission accept what one that takes a
\* list refuses, whatever the hierarchies are
\* (repositories/service_accounts.go:73, models/permission.go:195).
THEOREM SqlStaysStricter == Spec => []SqlIsStricter
<1>1. IInv => SqlIsStricter
  BY UniverseType, SqlStricter DEF IInv, SqlIsStricter
<1>2. QED
  BY <1>1, Reachable, PTL

\* The list of open requests and the evaluator that decides them go together
\* along every chain (repositories/permissions_requests.go:62).
THEOREM RequestsAreFound == Spec => []RequestsReachDeciders
<1>1. IInv => RequestsReachDeciders
  BY UniverseType, RequestsReachTheirDeciders DEF IInv, RequestsReachDeciders
<1>2. QED
  BY <1>1, Reachable, PTL

\* Comparing parts decides inclusion of resources, wherever a segment exists to
\* tell an open hierarchy from a complete one (models/permission.go:104).
THEOREM ContainingIsIncluding ==
  ASSUME Segments # {} PROVE Spec => []ContainsIsInclusion
<1>1. IInv => ContainsIsInclusion
  <2> SUFFICES ASSUME IInv, WellFormed(held.rh), WellFormed(asked.rh)
               PROVE  Contains(held.rh, asked.rh)
                        <=> Denotes(asked.rh, MaxDepth + 1) \subseteq Denotes(held.rh, MaxDepth + 1)
    BY DEF ContainsIsInclusion
  <2>1. held.rh \in Hierarchies /\ asked.rh \in Hierarchies
    BY UniverseType DEF IInv, Permissions
  <2>2. /\ MaxDepth + 1 \in Nat /\ Len(held.rh) < MaxDepth + 1 /\ Len(asked.rh) < MaxDepth + 1
    <3>1. Len(held.rh) \in Nat /\ Len(asked.rh) \in Nat
      BY <2>1 DEF Hierarchies
    <3>2. Len(held.rh) <= MaxDepth /\ Len(asked.rh) <= MaxDepth
      BY UniverseType DEF IInv
    <3>3. QED
      BY <3>1, <3>2, DepthAssumption
  <2>3. QED
    BY <2>1, <2>2, ContainsInclusion
<1>2. QED
  BY <1>1, Reachable, PTL

-----------------------------------------------------------------------------
(* Loops *)

\* The least natural number that is not in the set has one before it.
LEMMA NatSets ==
  ASSUME NEW S, 0 \in S, \A n \in Nat : n \in S => n + 1 \in S
  PROVE  Nat \subseteq S
<1>1. SUFFICES ASSUME Nat \ S # {} PROVE FALSE
  OBVIOUS
<1> DEFINE R == OpToRel(<, Nat)
<1>2. IsWellFoundedOn(R, Nat)
  BY NatLessThanWellFounded
<1>3. PICK m \in Nat \ S : \A k \in Nat \ S : ~ (<<k, m>> \in R)
  <2>1. Nat \ S \subseteq Nat
    OBVIOUS
  <2> HIDE DEF R
  <2>2. QED
    BY <1>1, <1>2, <2>1, WFMin
<1>4. m # 0 /\ m - 1 \in Nat /\ m - 1 < m /\ (m - 1) + 1 = m
  OBVIOUS
<1>5. <<m - 1, m>> \in R
  BY <1>4 DEF OpToRel
<1>6. m - 1 \in S
  BY <1>3, <1>4, <1>5
<1>7. (m - 1) + 1 \in S
  BY <1>4, <1>6
<1>8. QED
  BY <1>3, <1>4, <1>7

\* What a loop of n steps over values in S has computed before each of them.
Loop(g, n, a, step) == g[0] = a /\ \A i \in 1..n : g[i] = step[i][g[i - 1]]

LEMMA LoopRuns ==
  ASSUME NEW n \in Nat, NEW S, NEW a \in S, NEW step \in [1..n -> [S -> S]]
  PROVE  \E g \in [0..n -> S] : Loop(g, n, a, step)
<1> DEFINE T == {m \in Nat : m <= n => \E g \in [0..m -> S] : Loop(g, m, a, step)}
<1>1. 0 \in T
  <2> DEFINE g == [i \in 0..0 |-> a]
  <2>1. g \in [0..0 -> S] /\ Loop(g, 0, a, step)
    BY DEF Loop
  <2>2. QED
    BY <2>1
<1>2. ASSUME NEW m \in Nat, m \in T PROVE m + 1 \in T
  <2>1. SUFFICES ASSUME m + 1 <= n PROVE \E h \in [0..(m + 1) -> S] : Loop(h, m + 1, a, step)
    OBVIOUS
  <2>2. PICK g \in [0..m -> S] : Loop(g, m, a, step)
    BY <1>2, <2>1
  <2> DEFINE h == [i \in 0..(m + 1) |-> IF i <= m THEN g[i] ELSE step[m + 1][g[m]]]
  <2>3. h \in [0..(m + 1) -> S]
    <3>1. step[m + 1] \in [S -> S] /\ g[m] \in S
      BY <2>1, <2>2
    <3>2. step[m + 1][g[m]] \in S
      BY <3>1
    <3>3. ASSUME NEW i \in 0..(m + 1), i <= m PROVE g[i] \in S
      BY <2>2, <3>3
    <3>4. QED
      BY <3>2, <3>3
  <2>4. h[0] = a
    BY <2>2 DEF Loop
  <2>5. ASSUME NEW i \in 1..(m + 1) PROVE h[i] = step[i][h[i - 1]]
    <3>1. CASE i <= m
      <4>1. i \in 1..m /\ i - 1 \in 0..m /\ h[i] = g[i] /\ h[i - 1] = g[i - 1]
        BY <3>1
      <4>2. QED
        BY <2>2, <4>1 DEF Loop
    <3>2. CASE i = m + 1
      <4>1. h[i] = step[i][g[m]] /\ h[i - 1] = g[m]
        BY <3>2
      <4>2. QED
        BY <4>1
    <3>3. QED
      BY <3>1, <3>2
  <2>6. QED
    BY <2>3, <2>4, <2>5 DEF Loop
<1>3. Nat \subseteq T
  <2> HIDE DEF T
  <2>1. QED
    BY <1>1, <1>2, NatSets
<1>4. QED
  BY <1>3

\* Two functions that start and go on alike are alike.
LEMMA LoopOnce ==
  ASSUME NEW n \in Nat, NEW f, NEW g, f[0] = g[0],
         \A i \in 1..n : f[i - 1] = g[i - 1] => f[i] = g[i]
  PROVE  f[n] = g[n]
<1> DEFINE U == {i \in Nat : i <= n => f[i] = g[i]}
<1>1. 0 \in U
  OBVIOUS
<1>2. ASSUME NEW i \in Nat, i \in U PROVE i + 1 \in U
  <2>1. SUFFICES ASSUME i + 1 <= n PROVE f[i + 1] = g[i + 1]
    OBVIOUS
  <2>2. i + 1 \in 1..n /\ (i + 1) - 1 = i /\ f[i] = g[i]
    BY <1>2, <2>1
  <2>3. QED
    BY <2>2
<1>3. Nat \subseteq U
  <2> HIDE DEF U
  <2>1. QED
    BY <1>1, <1>2, NatSets
<1>4. QED
  BY <1>3

-----------------------------------------------------------------------------
(* What a filter keeps *)

Keeps(s, T, q, i) == IF s[i] \in T THEN Append(q, s[i]) ELSE q

Keeping(g, s, T) ==
  /\ Kept(s, T) = g[Len(s)]
  /\ g[0] = <<>>
  /\ \A i \in 1..Len(s) : g[i] = Keeps(s, T, g[i - 1], i)

LEMMA KeptSteps ==
  ASSUME NEW S, NEW s \in Seq(S), NEW T
  PROVE  \E g \in [0..Len(s) -> Seq(S)] : Keeping(g, s, T)
<1> DEFINE n == Len(s)
           Q == Seq(S)
           a == <<>>
           step == [i \in 1..n |-> [q \in Q |-> Keeps(s, T, q, i)]]
           Ok(g) == g = [i \in 0..n |->
                           IF i = 0 THEN <<>>
                           ELSE IF s[i] \in T THEN Append(g[i - 1], s[i]) ELSE g[i - 1]]
           f == CHOOSE g : Ok(g)
<1>1. n \in Nat /\ a \in Q
  OBVIOUS
<1>2. step \in [1..n -> [Q -> Q]]
  BY DEF Keeps
<1>3. PICK g \in [0..n -> Q] : Loop(g, n, a, step)
  <2> HIDE DEF step, n, Q, a
  <2>1. QED
    BY <1>1, <1>2, LoopRuns
<1>4. g[0] = <<>> /\ \A i \in 1..n : g[i] = Keeps(s, T, g[i - 1], i)
  <2>1. ASSUME NEW i \in 1..n PROVE g[i] = Keeps(s, T, g[i - 1], i)
    <3>1. i - 1 \in 0..n /\ g[i - 1] \in Q
      BY <1>1
    <3> HIDE DEF Q, n
    <3>2. QED
      BY <1>3, <3>1 DEF Loop
  <2>2. QED
    BY <1>3, <2>1 DEF Loop
<1>5. Ok(g)
  <2>1. ASSUME NEW i \in 0..n
        PROVE  g[i] = IF i = 0 THEN <<>>
                      ELSE IF s[i] \in T THEN Append(g[i - 1], s[i]) ELSE g[i - 1]
    <3>1. CASE i = 0
      BY <1>4, <3>1
    <3>2. CASE i # 0
      <4>1. i \in 1..n
        BY <1>1, <3>2
      <4> HIDE DEF n
      <4>2. QED
        BY <1>4, <3>2, <4>1 DEF Keeps
    <3>3. QED
      BY <3>1, <3>2
  <2> HIDE DEF n
  <2>2. QED
    BY <2>1
<1>6. Ok(f)
  <2> HIDE DEF Ok
  <2>1. QED
    BY <1>5
<1>7. Kept(s, T) = f[n]
  BY DEF Kept
<1>8. f[n] = g[n]
  <2> HIDE DEF f, n
  <2>1. f[0] = g[0]
    BY <1>1, <1>4, <1>6
  <2>2. ASSUME NEW i \in 1..n, f[i - 1] = g[i - 1] PROVE f[i] = g[i]
    <3>1. i \in 0..n /\ i # 0
      BY <1>1
    <3>2. QED
      BY <1>5, <1>6, <2>2, <3>1
  <2>3. QED
    BY <1>1, <2>1, <2>2, LoopOnce
<1>9. QED
  <2> HIDE DEF f, Ok, step
  <2>1. Keeping(g, s, T)
    BY <1>4, <1>7, <1>8 DEF Keeping
  <2>2. QED
    BY <1>3, <2>1

\* A filter keeps what is in its set, and nothing else.
LEMMA KeptRange ==
  ASSUME NEW S, NEW s \in Seq(S), NEW T
  PROVE  /\ Kept(s, T) \in Seq(S)
         /\ Sx!Range(Kept(s, T)) = Sx!Range(s) \cap T
<1> DEFINE n == Len(s)
           Seen(i) == {s[j] : j \in 1..i} \cap T
<1>1. PICK g \in [0..n -> Seq(S)] : Keeping(g, s, T)
  BY KeptSteps
<1>2. /\ g \in [0..n -> Seq(S)]
      /\ Kept(s, T) = g[n]
      /\ g[0] = <<>>
      /\ \A i \in 1..n : g[i] = Keeps(s, T, g[i - 1], i)
  BY <1>1 DEF Keeping
<1>3. n \in Nat
  OBVIOUS
<1> DEFINE U == {i \in Nat : i <= n => Sx!Range(g[i]) = Seen(i)}
<1>4. 0 \in U
  BY <1>2 DEF Sx!Range
<1>5. ASSUME NEW i \in Nat, i \in U PROVE i + 1 \in U
  <2>1. SUFFICES ASSUME i + 1 <= n PROVE Sx!Range(g[i + 1]) = Seen(i + 1)
    OBVIOUS
  <2>2. i + 1 \in 1..n /\ (i + 1) - 1 = i /\ i \in 0..n
    BY <1>3, <2>1
  <2>3. g[i + 1] = Keeps(s, T, g[i], i + 1) /\ g[i] \in Seq(S) /\ Sx!Range(g[i]) = Seen(i)
    BY <1>2, <1>5, <2>1, <2>2
  <2>4. {s[j] : j \in 1..(i + 1)} = {s[j] : j \in 1..i} \cup {s[i + 1]}
    <3>1. 1..(i + 1) = (1..i) \cup {i + 1}
      OBVIOUS
    <3>2. QED
      BY <3>1
  <2>5. ASSUME NEW q \in Seq(S), NEW e \in S
        PROVE  Sx!Range(Append(q, e)) = Sx!Range(q) \cup {e}
    <3>1. /\ Len(q) \in Nat /\ DOMAIN q = 1..Len(q)
          /\ DOMAIN Append(q, e) = 1..(Len(q) + 1)
          /\ Append(q, e)[Len(q) + 1] = e
          /\ \A k \in 1..Len(q) : Append(q, e)[k] = q[k]
      OBVIOUS
    <3>2. 1..(Len(q) + 1) = (1..Len(q)) \cup {Len(q) + 1}
      BY <3>1
    <3>3. QED
      BY <3>1, <3>2 DEF Sx!Range
  <2>6. s[i + 1] \in S
    BY <2>2
  <2>7. CASE s[i + 1] \in T
    <3>1. Sx!Range(g[i + 1]) = Seen(i) \cup {s[i + 1]}
      BY <2>3, <2>5, <2>6, <2>7 DEF Keeps
    <3>2. QED
      BY <2>4, <2>7, <3>1
  <2>8. CASE s[i + 1] \notin T
    <3>1. Sx!Range(g[i + 1]) = Seen(i)
      BY <2>3, <2>8 DEF Keeps
    <3>2. QED
      BY <2>4, <2>8, <3>1
  <2>9. QED
    BY <2>7, <2>8
<1>6. Nat \subseteq U
  <2> HIDE DEF U
  <2>1. QED
    BY <1>4, <1>5, NatSets
<1>7. Sx!Range(g[n]) = Seen(n)
  <2>1. n \in U
    BY <1>3, <1>6
  <2> HIDE DEF n, Seen
  <2>2. QED
    BY <1>3, <2>1
<1>8. Sx!Range(s) = {s[j] : j \in 1..n}
  BY DEF Sx!Range
<1>9. g[n] \in Seq(S)
  BY <1>2, <1>3
<1>10. QED
  <2> HIDE DEF n
  <2>1. Kept(s, T) \in Seq(S)
    BY <1>2, <1>9
  <2>2. Sx!Range(Kept(s, T)) = Sx!Range(s) \cap T
    BY <1>2, <1>7, <1>8
  <2>3. QED
    BY <2>1, <2>2

-----------------------------------------------------------------------------
(* The questions about a list and the answers *)

\* The questions so far: two for each complete entry, in the order of their
\* places.
Asks(ams, q, i) ==
  IF ams[i].complete
    THEN [ps |-> q.ps \o BuildLenderAndOwnerPermissions(ams[i].prefix), is |-> Append(q.is, i)]
    ELSE q

Askable(ams) == {BuildPermission(ams[i].prefix, RL) : i \in DOMAIN ams}
                  \cup {BuildPermission(ams[i].prefix, RO) : i \in DOMAIN ams}

LEMMA QuestionSteps ==
  ASSUME NEW S, NEW ams \in Seq(S)
  PROVE  \E g \in [0..Len(ams) -> [ps : Seq(Askable(ams)), is : Seq(1..Len(ams))]] :
           /\ Questions(ams) = g[Len(ams)]
           /\ g[0] = [ps |-> <<>>, is |-> <<>>]
           /\ \A i \in 1..Len(ams) : g[i] = Asks(ams, g[i - 1], i)
<1> DEFINE n == Len(ams)
           Q == [ps : Seq(Askable(ams)), is : Seq(1..n)]
           a == [ps |-> <<>>, is |-> <<>>]
           step == [i \in 1..n |-> [q \in Q |-> Asks(ams, q, i)]]
           Ok(g) == g = [i \in 0..n |->
                           IF i = 0 THEN [ps |-> <<>>, is |-> <<>>]
                           ELSE IF ams[i].complete
                             THEN LET before == g[i - 1]
                                  IN  [ps |-> before.ps \o BuildLenderAndOwnerPermissions(ams[i].prefix),
                                       is |-> Append(before.is, i)]
                             ELSE g[i - 1]]
           f == CHOOSE g : Ok(g)
<1>1. n \in Nat /\ a \in Q
  OBVIOUS
<1>2. step \in [1..n -> [Q -> Q]]
  <2>1. ASSUME NEW i \in 1..n, NEW q \in Q PROVE Asks(ams, q, i) \in Q
    <3>1. i \in DOMAIN ams
      OBVIOUS
    <3>2. BuildLenderAndOwnerPermissions(ams[i].prefix) \in Seq(Askable(ams))
      <4> DEFINE b(l) == BuildPermission(ams[i].prefix, l)
      <4>1. b(RL) \in Askable(ams) /\ b(RO) \in Askable(ams)
        BY <3>1 DEF Askable
      <4>2. BuildLenderAndOwnerPermissions(ams[i].prefix) = <<b(RL), b(RO)>>
        BY DEF BuildLenderAndOwnerPermissions
      <4> HIDE DEF b
      <4>4. \A P : b(RL) \in P /\ b(RO) \in P => <<b(RL), b(RO)>> \in Seq(P)
        OBVIOUS
      <4>3. QED
        BY <4>1, <4>2, <4>4
    <3>3. Append(q.is, i) \in Seq(1..n)
      OBVIOUS
    <3>4. q.ps \o BuildLenderAndOwnerPermissions(ams[i].prefix) \in Seq(Askable(ams))
      <4>1. q.ps \in Seq(Askable(ams))
        OBVIOUS
      <4>2. QED
        BY <3>2, <4>1
    <3>5. QED
      BY <3>3, <3>4 DEF Asks
  <2> HIDE DEF Q
  <2>2. QED
    BY <2>1
<1>3. PICK g \in [0..n -> Q] : Loop(g, n, a, step)
  <2> HIDE DEF step, n, Q, a
  <2>1. QED
    BY <1>1, <1>2, LoopRuns
<1>4. g[0] = a /\ \A i \in 1..n : g[i] = Asks(ams, g[i - 1], i)
  <2>1. ASSUME NEW i \in 1..n PROVE g[i] = Asks(ams, g[i - 1], i)
    <3>1. i - 1 \in 0..n
      BY <1>1
    <3> HIDE DEF Q, n
    <3>2. QED
      BY <1>3, <3>1 DEF Loop
  <2> HIDE DEF n, step, a, Q
  <2>2. QED
    BY <1>3, <2>1 DEF Loop
<1>5. Ok(g)
  <2>1. ASSUME NEW i \in 0..n
        PROVE  g[i] = IF i = 0 THEN [ps |-> <<>>, is |-> <<>>]
                      ELSE IF ams[i].complete
                        THEN [ps |-> g[i - 1].ps \o BuildLenderAndOwnerPermissions(ams[i].prefix),
                              is |-> Append(g[i - 1].is, i)]
                        ELSE g[i - 1]
    <3>1. CASE i = 0
      BY <1>4, <3>1
    <3>2. CASE i # 0
      <4>1. i \in 1..n
        BY <1>1, <3>2
      <4> HIDE DEF n
      <4>2. QED
        BY <1>4, <3>2, <4>1 DEF Asks
    <3>3. QED
      BY <3>1, <3>2
  <2> HIDE DEF n
  <2>2. QED
    BY <2>1
<1>6. Ok(f)
  <2> HIDE DEF Ok
  <2>1. QED
    BY <1>5
<1>10. f[0] = a /\ \A i \in 1..n : f[i] = Asks(ams, f[i - 1], i)
  <2> HIDE DEF f
  <2>1. 0 \in 0..n /\ \A i \in 1..n : i \in 0..n /\ i # 0
    BY <1>1
  <2> HIDE DEF n
  <2>2. f[0] = a
    BY <1>6, <2>1
  <2>3. ASSUME NEW i \in 1..n PROVE f[i] = Asks(ams, f[i - 1], i)
    BY <1>6, <2>1 DEF Asks
  <2>4. QED
    BY <2>2, <2>3
<1>7. Questions(ams) = f[n]
  BY DEF Questions
<1>8. f[n] = g[n]
  <2> HIDE DEF f, n, Ok
  <2>1. f[0] = g[0]
    BY <1>4, <1>10
  <2>2. ASSUME NEW i \in 1..n, f[i - 1] = g[i - 1] PROVE f[i] = g[i]
    BY <1>4, <1>10, <2>2
  <2>3. QED
    BY <1>1, <2>1, <2>2, LoopOnce
<1>9. QED
  <2> HIDE DEF f, Ok, step
  <2>1. QED
    BY <1>3, <1>4, <1>7, <1>8

\* After the first i entries: the questions about a complete entry are where
\* its place is, whatever entries without questions lie between.
Dealt(ams, q, i) ==
  /\ Len(q.ps) = 2 * Len(q.is)
  /\ \A k \in 1..Len(q.is) :
       /\ ams[q.is[k]].complete
       /\ q.ps[2 * k - 1] = BuildPermission(ams[q.is[k]].prefix, RL)
       /\ q.ps[2 * k]     = BuildPermission(ams[q.is[k]].prefix, RO)
  /\ \A j \in 1..i : ams[j].complete => \E k \in 1..Len(q.is) : q.is[k] = j

LEMMA AskKeepsDealt ==
  ASSUME NEW S, NEW ams \in Seq(S), NEW i \in Nat, i + 1 <= Len(ams),
         NEW q \in [ps : Seq(Askable(ams)), is : Seq(1..Len(ams))], Dealt(ams, q, i)
  PROVE  Dealt(ams, Asks(ams, q, i + 1), i + 1)
<1> DEFINE e == ams[i + 1]
           l == BuildPermission(e.prefix, RL)
           o == BuildPermission(e.prefix, RO)
           r == [ps |-> q.ps \o <<l, o>>, is |-> Append(q.is, i + 1)]
           A == Askable(ams)
           n == Len(ams)
<1>1. 1..(i + 1) = (1..i) \cup {i + 1}
  OBVIOUS
<1>2. CASE ~ e.complete
  <2>1. Asks(ams, q, i + 1) = q
    BY <1>2 DEF Asks
  <2>2. QED
    BY <1>1, <1>2, <2>1 DEF Dealt
<1>3. CASE e.complete
  <2>1. Asks(ams, q, i + 1) = r
    BY <1>3 DEF Asks, BuildLenderAndOwnerPermissions
  <2>2. /\ q.ps \in Seq(A) /\ q.is \in Seq(1..n)
        /\ Len(q.ps) \in Nat /\ Len(q.is) \in Nat /\ Len(q.ps) = 2 * Len(q.is)
    BY DEF Dealt
  <2>3. /\ Len(r.is) = Len(q.is) + 1
        /\ r.is[Len(q.is) + 1] = i + 1
        /\ \A k \in 1..Len(q.is) : r.is[k] = q.is[k]
    BY <2>2
  <2>4. /\ Len(r.ps) = Len(q.ps) + 2
        /\ r.ps[Len(q.ps) + 1] = l /\ r.ps[Len(q.ps) + 2] = o
        /\ \A k \in 1..Len(q.ps) : r.ps[k] = q.ps[k]
    <3>1. \A P, u, v : u \in P /\ v \in P =>
            /\ <<u, v>> \in Seq(P) /\ Len(<<u, v>>) = 2 /\ <<u, v>>[1] = u /\ <<u, v>>[2] = v
      OBVIOUS
    <3>3. l \in A /\ o \in A
      <4>1. i + 1 \in DOMAIN ams
        OBVIOUS
      <4>2. QED
        BY <4>1 DEF Askable
    <3> DEFINE w == <<l, o>>
    <3>4. w \in Seq(A) /\ Len(w) = 2 /\ w[1] = l /\ w[2] = o
      BY <3>1, <3>3
    <3>5. r.ps = q.ps \o w
      OBVIOUS
    <3> HIDE DEF w, l, o, A, r
    <3>6. /\ Len(r.ps) = Len(q.ps) + Len(w)
          /\ \A k \in 1..Len(q.ps) : r.ps[k] = q.ps[k]
          /\ \A k \in 1..Len(w) : r.ps[Len(q.ps) + k] = w[k]
      <4> DEFINE u == q.ps
      <4>1. u \in Seq(A) /\ w \in Seq(A)
        BY <2>2, <3>4
      <4> HIDE DEF u
      <4>2. /\ Len(u \o w) = Len(u) + Len(w)
            /\ \A k \in 1..Len(u) : (u \o w)[k] = u[k]
            /\ \A k \in 1..Len(w) : (u \o w)[Len(u) + k] = w[k]
        BY <4>1
      <4>3. QED
        BY <3>5, <4>2 DEF u
    <3>7. 1 \in 1..Len(w) /\ 2 \in 1..Len(w)
      BY <3>4
    <3>8. QED
      BY <3>4, <3>6, <3>7
  <2>5. ASSUME NEW k \in 1..Len(r.is)
        PROVE  /\ ams[r.is[k]].complete
               /\ r.ps[2 * k - 1] = BuildPermission(ams[r.is[k]].prefix, RL)
               /\ r.ps[2 * k]     = BuildPermission(ams[r.is[k]].prefix, RO)
    <3>1. CASE k \in 1..Len(q.is)
      <4>1. 2 * k - 1 \in 1..Len(q.ps) /\ 2 * k \in 1..Len(q.ps)
        BY <2>2, <3>1
      <4> HIDE DEF r
      <4>2. QED
        BY <2>3, <2>4, <3>1, <4>1 DEF Dealt
    <3>2. CASE k = Len(q.is) + 1
      <4>1. 2 * k - 1 = Len(q.ps) + 1 /\ 2 * k = Len(q.ps) + 2
        BY <2>2, <3>2
      <4> HIDE DEF r
      <4>2. QED
        BY <1>3, <2>3, <2>4, <3>2, <4>1
    <3> HIDE DEF r
    <3>3. QED
      BY <2>2, <2>3, <3>1, <3>2
  <2>6. ASSUME NEW j \in 1..(i + 1), ams[j].complete
        PROVE  \E k \in 1..Len(r.is) : r.is[k] = j
    <3> HIDE DEF r
    <3>1. CASE j \in 1..i
      <4>1. PICK k \in 1..Len(q.is) : q.is[k] = j
        BY <2>6, <3>1 DEF Dealt
      <4>2. k \in 1..Len(r.is) /\ r.is[k] = j
        BY <2>2, <2>3, <4>1
      <4>3. QED
        BY <4>2
    <3>2. CASE j = i + 1
      <4>1. Len(q.is) + 1 \in 1..Len(r.is)
        BY <2>2, <2>3
      <4>2. QED
        BY <2>3, <3>2, <4>1
    <3>3. QED
      BY <1>1, <3>1, <3>2
  <2>7. Len(r.ps) = 2 * Len(r.is)
    <3> HIDE DEF r
    <3>1. QED
      BY <2>2, <2>3, <2>4
  <2> HIDE DEF r
  <2>8. QED
    BY <2>1, <2>5, <2>6, <2>7 DEF Dealt
<1>4. QED
  BY <1>2, <1>3

LEMMA QuestionsDealt ==
  ASSUME NEW S, NEW ams \in Seq(S)
  PROVE  /\ Questions(ams) \in [ps : Seq(Askable(ams)), is : Seq(1..Len(ams))]
         /\ Dealt(ams, Questions(ams), Len(ams))
<1> DEFINE n == Len(ams)
           Q == [ps : Seq(Askable(ams)), is : Seq(1..n)]
<1>1. PICK g \in [0..n -> Q] :
        /\ Questions(ams) = g[n]
        /\ g[0] = [ps |-> <<>>, is |-> <<>>]
        /\ \A i \in 1..n : g[i] = Asks(ams, g[i - 1], i)
  BY QuestionSteps
<1> DEFINE U == {i \in Nat : i <= n => Dealt(ams, g[i], i)}
<1>2. n \in Nat
  OBVIOUS
<1>3. 0 \in U
  <2>1. Dealt(ams, [ps |-> <<>>, is |-> <<>>], 0)
    BY DEF Dealt
  <2>2. QED
    BY <1>1, <2>1
<1>4. ASSUME NEW i \in Nat, i \in U PROVE i + 1 \in U
  <2>1. SUFFICES ASSUME i + 1 <= n PROVE Dealt(ams, g[i + 1], i + 1)
    OBVIOUS
  <2>2. i + 1 \in 1..n /\ (i + 1) - 1 = i /\ i \in 0..n
    BY <1>2, <2>1
  <2>3. g[i] \in Q /\ Dealt(ams, g[i], i) /\ g[i + 1] = Asks(ams, g[i], i + 1)
    <3> HIDE DEF Q, n
    <3>1. QED
      BY <1>1, <1>2, <1>4, <2>1, <2>2
  <2>4. QED
    BY <2>1, <2>3, AskKeepsDealt
<1>5. Nat \subseteq U
  <2> HIDE DEF U
  <2>1. QED
    BY <1>3, <1>4, NatSets
<1>6. n \in U
  BY <1>2, <1>5
<1>7. g[n] \in Q
  <2> HIDE DEF Q, n
  <2>1. QED
    BY <1>1, <1>2
<1> HIDE DEF n
<1>8. QED
  BY <1>1, <1>2, <1>6, <1>7 DEF n

\* What an entry tells about the account with those rows: the answers to the
\* two questions it stands for, or nothing.
Tells(rows, e, f) ==
  /\ f.prefix = e.prefix /\ f.complete = e.complete
  /\ f.lender = (e.complete /\ IsPresent(rows, BuildPermission(e.prefix, RL)))
  /\ f.owner  = (e.complete /\ IsPresent(rows, BuildPermission(e.prefix, RO)))

Bare(e) == e.complete \in BOOLEAN /\ e = Entry(e.prefix, e.complete)

\* The answers come back to the entries they are about.
LEMMA FlagsComeBack ==
  ASSUME NEW S, NEW ams \in Seq(S), NEW rows, \A i \in DOMAIN ams : Bare(ams[i])
  PROVE  LET q == Questions(ams)
             f == Flagged(ams, q.is, ServiceAccountHasPermissions(rows, q.ps))
         IN  DOMAIN f = DOMAIN ams /\ \A i \in DOMAIN ams : Tells(rows, ams[i], f[i])
<1> DEFINE q == Questions(ams)
           is == q.is
           has == ServiceAccountHasPermissions(rows, q.ps)
           f == Flagged(ams, is, has)
           at(i) == CHOOSE k \in DOMAIN is : is[k] = i
<1>1. /\ q \in [ps : Seq(Askable(ams)), is : Seq(1..Len(ams))]
      /\ Dealt(ams, q, Len(ams))
  BY QuestionsDealt
<1> HIDE DEF q
<1>2. /\ is \in Seq(1..Len(ams)) /\ DOMAIN is = 1..Len(is) /\ Len(is) \in Nat
      /\ q.ps \in Seq(Askable(ams)) /\ DOMAIN q.ps = 1..Len(q.ps)
      /\ DOMAIN ams = 1..Len(ams) /\ Len(ams) \in Nat
  BY <1>1
<1>3. /\ DOMAIN has = DOMAIN q.ps
      /\ \A k \in DOMAIN q.ps : has[k] = IsPresent(rows, q.ps[k])
  BY DEF ServiceAccountHasPermissions, Each
<1> HIDE DEF is, has
<1>4. /\ DOMAIN f = DOMAIN ams
      /\ \A i \in DOMAIN ams :
           f[i] = IF i \in Sx!Range(is)
                    THEN [ams[i] EXCEPT !.lender = has[2 * at(i) - 1], !.owner = has[2 * at(i)]]
                    ELSE ams[i]
  BY DEF Flagged
<1> HIDE DEF f
<1>7. \A p : IsPresent(rows, p) \in BOOLEAN
  BY DEF IsPresent
<1>5. ASSUME NEW i \in DOMAIN ams PROVE Tells(rows, ams[i], f[i])
  <2>1. /\ Bare(ams[i])
        /\ ams[i] = [prefix |-> ams[i].prefix, complete |-> ams[i].complete,
                     lender |-> FALSE, owner |-> FALSE]
    BY DEF Bare, Entry
  <2>2. CASE i \in Sx!Range(is)
    <3>1. \E k \in DOMAIN is : is[k] = i
      BY <2>2 DEF Sx!Range
    <3>2. at(i) \in DOMAIN is /\ is[at(i)] = i
      BY <3>1
    <3> DEFINE k == at(i)
    <3> HIDE DEF at
    <3>3. k \in 1..Len(is) /\ is[k] = i
      BY <1>2, <3>2
    <3> HIDE DEF k
    <3>4. /\ ams[i].complete /\ Len(q.ps) = 2 * Len(is)
          /\ q.ps[2 * k - 1] = BuildPermission(ams[i].prefix, RL)
          /\ q.ps[2 * k]     = BuildPermission(ams[i].prefix, RO)
      BY <1>1, <3>3 DEF Dealt, is
    <3>5. 2 * k - 1 \in DOMAIN q.ps /\ 2 * k \in DOMAIN q.ps
      <4>1. 2 * k - 1 \in 1..(2 * Len(is)) /\ 2 * k \in 1..(2 * Len(is))
        BY <1>2, <3>3
      <4>2. QED
        BY <1>2, <3>4, <4>1
    <3>6. f[i] = [ams[i] EXCEPT !.lender = has[2 * k - 1], !.owner = has[2 * k]]
      BY <1>4, <2>2 DEF k
    <3>7. /\ f[i].prefix = ams[i].prefix /\ f[i].complete = ams[i].complete
          /\ f[i].lender = has[2 * k - 1] /\ f[i].owner = has[2 * k]
      BY <2>1, <3>6
    <3>8. /\ has[2 * k - 1] = IsPresent(rows, BuildPermission(ams[i].prefix, RL))
          /\ has[2 * k]     = IsPresent(rows, BuildPermission(ams[i].prefix, RO))
      BY <1>3, <3>4, <3>5
    <3>9. QED
      BY <2>1, <3>4, <3>7, <3>8, <1>7 DEF Tells, Bare
  <2>3. CASE i \notin Sx!Range(is)
    <3>1. ~ ams[i].complete
      <4>1. ASSUME ams[i].complete PROVE FALSE
        <5>1. PICK k \in 1..Len(is) : is[k] = i
          BY <1>1, <1>2, <4>1 DEF Dealt, is
        <5>2. QED
          BY <1>2, <2>3, <5>1 DEF Sx!Range
      <4>2. QED
        BY <4>1
    <3>2. f[i] = ams[i]
      BY <1>4, <2>3
    <3>3. ams[i].lender = FALSE /\ ams[i].owner = FALSE
      BY <2>1
    <3>4. QED
      BY <2>1, <3>1, <3>2, <3>3 DEF Tells, Bare
  <2>4. QED
    BY <2>2, <2>3
<1>6. QED
  BY <1>4, <1>5 DEF f, is, has, q

-----------------------------------------------------------------------------
(* What is on the lists *)

RhOf(prefix) == SubSeq(prefix, 3, Len(prefix))

\* The two evaluators agree about the permissions that the entry stands for.
Sound(e) == e.complete => RhOf(e.prefix) \in Hierarchies /\ WellFormed(RhOf(e.prefix))

\* An entry carries no flag yet, and is one the two evaluators agree on if it
\* can be made a permission.
Fit(e) ==
  /\ Bare(e)
  /\ Valid(e.prefix) => Sound(e)

Fits(ams) == ams \in Seq(Sx!Range(ams)) /\ \A i \in DOMAIN ams : Fit(ams[i])

LEMMA FitsAll ==
  ASSUME NEW n \in Nat, NEW f, f = [i \in 1..n |-> f[i]], \A i \in 1..n : Fit(f[i])
  PROVE  Fits(f)
<1>1. DOMAIN f = 1..n /\ f \in [1..n -> Sx!Range(f)]
  BY DEF Sx!Range
<1>2. f \in Seq(Sx!Range(f))
  BY <1>1
<1>3. QED
  BY <1>1, <1>2 DEF Fits

LEMMA EntryIsBare ==
  ASSUME NEW p, NEW c \in BOOLEAN
  PROVE  Bare(Entry(p, c)) /\ Entry(p, c).prefix = p /\ Entry(p, c).complete = c
  BY DEF Bare, Entry

LEMMA IncompleteFits ==
  ASSUME NEW p PROVE Fit(Entry(p, FALSE))
  BY EntryIsBare DEF Fit, Sound

\* A hierarchy of one part.
LEMMA OnePartFits ==
  ASSUME NEW S, NEW p \in Seq(S), Len(p) = 3, p[3] \in Parts
  PROVE  RhOf(p) \in Hierarchies /\ WellFormed(RhOf(p))
<1> DEFINE h == SubSeq(p, 3, 3)
<1>1. RhOf(p) = h
  BY DEF RhOf
<1>2. Len(h) = 1 /\ DOMAIN h = 1..1 /\ h[1] = p[3] /\ h = [i \in 1..1 |-> h[i]]
  OBVIOUS
<1> HIDE DEF h
<1>3. h \in [1..1 -> Parts]
  BY <1>2
<1>4. h \in Seq(Parts) /\ h # <<>>
  BY <1>2, <1>3
<1>5. QED
  BY <1>1, <1>2, <1>4 DEF Hierarchies, WellFormed

LEMMA RolesFit ==
  ASSUME NEW action, NEW r \in Sx!Range(RoleList)
  PROVE  Fit(Entry(<<WillIAM, action, r.id>>, TRUE))
<1> DEFINE id == r.id
           p == <<WillIAM, action, id>>
<1>1. id \in Parts
  BY ListsAssumption DEF Parts
<1> HIDE DEF id
<1>2. p \in Seq({WillIAM, action, id}) /\ Len(p) = 3 /\ p[3] = id
  OBVIOUS
<1> HIDE DEF p
<1>3. RhOf(p) \in Hierarchies /\ WellFormed(RhOf(p))
  BY <1>1, <1>2, OnePartFits
<1>4. Fit(Entry(p, TRUE))
  BY <1>3, EntryIsBare DEF Fit, Sound
<1>5. QED
  BY <1>4 DEF p, id

LEMMA NoneFit == Fits(<<>>)
  BY DEF Fits, Sx!Range

\* The names that begin as typed.
LEMMA FilteredRange ==
  ASSUME NEW S, NEW s \in Seq(S), NEW typed
  PROVE  /\ Filtered(s, typed) \in Seq(S)
         /\ Sx!Range(Filtered(s, typed)) = {name \in Sx!Range(s) : Begins(name, typed)}
<1> DEFINE T == {name \in Sx!Range(s) : Begins(name, typed)}
<1>1. Kept(s, T) \in Seq(S) /\ Sx!Range(Kept(s, T)) = Sx!Range(s) \cap T
  <2> HIDE DEF T
  <2>1. QED
    BY KeptRange
<1>2. Filtered(s, typed) = Kept(s, T)
  BY DEF Filtered
<1>3. QED
  BY <1>1, <1>2

ServiceNames == <<WillIAM>> \o Registered
WillIAMActions == RolesActions \o ServiceAccountsActions \o ServicesActions

LEMMA ConcatRange ==
  ASSUME NEW S, NEW s \in Seq(S), NEW t \in Seq(S)
  PROVE  s \o t \in Seq(S) /\ Sx!Range(s \o t) = Sx!Range(s) \cup Sx!Range(t)
<1> DEFINE u == s \o t
<1>1. /\ u \in Seq(S) /\ Len(u) = Len(s) + Len(t) /\ DOMAIN u = 1..Len(u)
      /\ DOMAIN s = 1..Len(s) /\ Len(s) \in Nat /\ DOMAIN t = 1..Len(t) /\ Len(t) \in Nat
      /\ \A k \in 1..Len(s) : u[k] = s[k]
      /\ \A k \in 1..Len(t) : u[Len(s) + k] = t[k]
  OBVIOUS
<1> HIDE DEF u
<1>2. ASSUME NEW k \in DOMAIN u PROVE u[k] \in Sx!Range(s) \cup Sx!Range(t)
  <2>1. CASE k \in 1..Len(s)
    BY <1>1, <2>1 DEF Sx!Range
  <2>2. CASE k \notin 1..Len(s)
    <3>1. k - Len(s) \in 1..Len(t) /\ Len(s) + (k - Len(s)) = k
      BY <1>1, <2>2
    <3>2. u[k] = t[k - Len(s)]
      BY <1>1, <3>1
    <3>3. QED
      BY <1>1, <3>1, <3>2 DEF Sx!Range
  <2>3. QED
    BY <2>1, <2>2
<1>3. ASSUME NEW k \in DOMAIN s PROVE s[k] \in Sx!Range(u)
  BY <1>1 DEF Sx!Range
<1>4. ASSUME NEW k \in DOMAIN t PROVE t[k] \in Sx!Range(u)
  <2>1. Len(s) + k \in DOMAIN u
    BY <1>1
  <2>2. QED
    BY <1>1, <2>1 DEF Sx!Range
<1>5. Sx!Range(u) = Sx!Range(s) \cup Sx!Range(t)
  BY <1>2, <1>3, <1>4 DEF Sx!Range
<1>6. QED
  BY <1>1, <1>5 DEF u

LEMMA NamesAreLists ==
  /\ ServiceNames \in Seq({WillIAM} \cup Sx!Range(Registered))
  /\ WillIAM \in Sx!Range(ServiceNames)
  /\ WillIAMActions \in Seq(Sx!Range(WillIAMActions))
  /\ Sx!Range(WillIAMActions) =
       {"CreateRoles", "EditRole", "CreateServiceAccounts", "EditServiceAccount",
        "CreateServices", "EditService"}
<1>1. /\ ServiceNames \in Seq({WillIAM} \cup Sx!Range(Registered))
      /\ WillIAM \in Sx!Range(ServiceNames)
  <2> DEFINE R == Registered
             A == Sx!Range(Registered)
             B == {WillIAM} \cup A
  <2>1. R \in Seq(A)
    BY ListsAssumption
  <2> HIDE DEF A, R
  <2>2. <<WillIAM>> \in Seq(B) /\ R \in Seq(B)
    BY <2>1
  <2>3. <<WillIAM>> \o R \in Seq(B) /\ 1 \in DOMAIN (<<WillIAM>> \o R) /\ (<<WillIAM>> \o R)[1] = WillIAM
    BY <2>2
  <2>4. QED
    BY <2>3 DEF ServiceNames, R, A, Sx!Range
<1> DEFINE s == RolesActions
           t == ServiceAccountsActions
           u == ServicesActions
           v == s \o t
           A == {"CreateRoles", "EditRole"}
           B == {"CreateServiceAccounts", "EditServiceAccount"}
           C == {"CreateServices", "EditService"}
           D == A \cup B \cup C
<1>2. \A a, b : <<a, b>> \in Seq({a, b}) /\ Sx!Range(<<a, b>>) = {a, b}
  BY DEF Sx!Range
<1>3. /\ s \in Seq(A) /\ Sx!Range(s) = A
      /\ t \in Seq(B) /\ Sx!Range(t) = B
      /\ u \in Seq(C) /\ Sx!Range(u) = C
  BY <1>2, Zenon DEF RolesActions, ServiceAccountsActions, ServicesActions
<1>4. A \subseteq D /\ B \subseteq D /\ C \subseteq D
  OBVIOUS
<1> HIDE DEF s, t, u, A, B, C, D
<1>5. s \in Seq(D) /\ t \in Seq(D) /\ u \in Seq(D)
  BY <1>3, <1>4
<1>6. v \in Seq(D) /\ Sx!Range(v) = A \cup B
  BY <1>3, <1>5, ConcatRange
<1> HIDE DEF v
<1>7. v \o u \in Seq(D) /\ Sx!Range(v \o u) = (A \cup B) \cup C
  BY <1>3, <1>5, <1>6, ConcatRange
<1>8. WillIAMActions = v \o u
  BY DEF s, t, u, v, WillIAMActions
<1>9. WillIAMActions \in Seq(D) /\ Sx!Range(WillIAMActions) = D
  BY <1>7, <1>8 DEF D
<1>10. QED
  BY <1>1, <1>9 DEF A, B, C, D

\* One incomplete entry for each name that begins as typed.
LEMMA NamesListed ==
  ASSUME NEW typed
  PROVE  /\ Fits(ListServices(typed))
         /\ Fits(ListWillIAMActions(typed))
         /\ Begins(WillIAM, typed) =>
              \E i \in DOMAIN ListServices(typed) : ListServices(typed)[i] = Entry(<<WillIAM>>, FALSE)
         /\ \A a \in Sx!Range(WillIAMActions) : Begins(a, typed) =>
              \E i \in DOMAIN ListWillIAMActions(typed) :
                ListWillIAMActions(typed)[i] = Entry(<<WillIAM, a>>, FALSE)
<1>1. PICK ks : /\ ks = Filtered(ServiceNames, typed)
                /\ DOMAIN ks = 1..Len(ks) /\ Len(ks) \in Nat
                /\ Sx!Range(ks) = {n \in Sx!Range(ServiceNames) : Begins(n, typed)}
  BY NamesAreLists, FilteredRange
<1>2. ListServices(typed) = [i \in DOMAIN ks |-> Entry(<<ks[i]>>, FALSE)]
  BY <1>1 DEF ListServices, Each, ServiceNames
<1>3. Fits(ListServices(typed))
  <2>1. \A i \in 1..Len(ks) : Fit(ListServices(typed)[i])
    BY <1>1, <1>2, IncompleteFits
  <2>2. QED
    BY <1>1, <1>2, <2>1, FitsAll
<1>4. ASSUME Begins(WillIAM, typed)
      PROVE  \E i \in DOMAIN ListServices(typed) : ListServices(typed)[i] = Entry(<<WillIAM>>, FALSE)
  <2>1. WillIAM \in Sx!Range(ks)
    BY <1>1, <1>4, NamesAreLists
  <2>2. PICK i \in DOMAIN ks : ks[i] = WillIAM
    BY <2>1 DEF Sx!Range
  <2>3. QED
    BY <1>2, <2>2
<1>5. PICK as : /\ as = Filtered(WillIAMActions, typed)
                /\ DOMAIN as = 1..Len(as) /\ Len(as) \in Nat
                /\ Sx!Range(as) = {n \in Sx!Range(WillIAMActions) : Begins(n, typed)}
  BY NamesAreLists, FilteredRange
<1>6. ListWillIAMActions(typed) = [i \in DOMAIN as |-> Entry(<<WillIAM, as[i]>>, FALSE)]
  BY <1>5 DEF ListWillIAMActions, Each, WillIAMActions
<1>7. Fits(ListWillIAMActions(typed))
  <2>1. \A i \in 1..Len(as) : Fit(ListWillIAMActions(typed)[i])
    BY <1>5, <1>6, IncompleteFits
  <2>2. QED
    BY <1>5, <1>6, <2>1, FitsAll
<1>8. ASSUME NEW a \in Sx!Range(WillIAMActions), Begins(a, typed)
      PROVE  \E i \in DOMAIN ListWillIAMActions(typed) :
               ListWillIAMActions(typed)[i] = Entry(<<WillIAM, a>>, FALSE)
  <2>1. a \in Sx!Range(as)
    BY <1>5, <1>8
  <2>2. PICK i \in DOMAIN as : as[i] = a
    BY <2>1 DEF Sx!Range
  <2>3. QED
    BY <1>6, <2>2
<1>9. QED
  BY <1>3, <1>4, <1>7, <1>8

\* One complete entry for each role that is offered.
RolesOn(list, action, typed) ==
  /\ \A i \in DOMAIN list : \E r \in Sx!Range(RoleList) :
       list[i] = Entry(<<WillIAM, action, r.id>>, TRUE)
  /\ action = "EditRole" => \A r \in Sx!Range(RoleList) : Begins(r.name, typed) =>
       \E i \in DOMAIN list : list[i] = Entry(<<WillIAM, action, r.id>>, TRUE)

LEMMA RolesListed ==
  ASSUME NEW action, NEW typed
  PROVE  /\ Fits(ListWillIAMResourceHierarchies(action, typed))
         /\ RolesOn(ListWillIAMResourceHierarchies(action, typed), action, typed)
<1> DEFINE T == {r \in Sx!Range(RoleList) : Begins(r.name, typed)}
           L == ListWillIAMResourceHierarchies(action, typed)
<1>1. PICK ks : /\ ks = Kept(RoleList, T)
                /\ DOMAIN ks = 1..Len(ks) /\ Len(ks) \in Nat
                /\ Sx!Range(ks) = T
  <2>1. RoleList \in Seq(Sx!Range(RoleList))
    BY ListsAssumption
  <2>2. Kept(RoleList, T) \in Seq(Sx!Range(RoleList)) /\ Sx!Range(Kept(RoleList, T)) = T
    <3> DEFINE A == Sx!Range(RoleList)
    <3>1. T \subseteq A
      OBVIOUS
    <3> HIDE DEF T
    <3>2. Kept(RoleList, T) \in Seq(A) /\ Sx!Range(Kept(RoleList, T)) = Sx!Range(RoleList) \cap T
      <4>1. RoleList \in Seq(A)
        BY <2>1
      <4> HIDE DEF A
      <4>2. QED
        BY <4>1, KeptRange
    <3>3. QED
      BY <3>1, <3>2
  <2> HIDE DEF T
  <2>3. QED
    BY <2>2
<1> HIDE DEF T
<1>2. \/ L = <<>> /\ action # "EditRole"
      \/ L = [i \in DOMAIN ks |-> Entry(<<WillIAM, action, ks[i].id>>, TRUE)]
  <2>1. "EditRole" \in Sx!Range(RolesActions)
    BY DEF RolesActions, Sx!Range
  <2>2. QED
    BY <1>1, <2>1 DEF ListWillIAMResourceHierarchies, ListRolesActionsRH, Each, T
<1>3. CASE L = <<>> /\ action # "EditRole"
  <2> HIDE DEF L
  <2>1. Fits(L) /\ RolesOn(L, action, typed)
    BY <1>3, NoneFit DEF RolesOn
  <2>2. QED
    BY <2>1 DEF L
<1>4. CASE L = [i \in DOMAIN ks |-> Entry(<<WillIAM, action, ks[i].id>>, TRUE)]
  <2> HIDE DEF L
  <2>1. \A i \in DOMAIN ks : ks[i] \in Sx!Range(RoleList)
    BY <1>1 DEF T, Sx!Range
  <2>2. Fits(L)
    <3>1. \A i \in 1..Len(ks) : Fit(L[i])
      BY <1>1, <1>4, <2>1, RolesFit
    <3>2. QED
      BY <1>1, <1>4, <3>1, FitsAll
  <2>3. ASSUME NEW r \in Sx!Range(RoleList), Begins(r.name, typed)
        PROVE  \E i \in DOMAIN L : L[i] = Entry(<<WillIAM, action, r.id>>, TRUE)
    <3>1. PICK i \in DOMAIN ks : ks[i] = r
      BY <1>1, <2>3 DEF T, Sx!Range
    <3>2. QED
      BY <1>4, <3>1
  <2>4. \A i \in DOMAIN L : \E r \in Sx!Range(RoleList) : L[i] = Entry(<<WillIAM, action, r.id>>, TRUE)
    BY <1>4, <2>1
  <2>5. QED
    BY <2>2, <2>3, <2>4 DEF L, RolesOn
<1>5. QED
  BY <1>2, <1>3, <1>4

\* What a service answers, with the service's name in front.
LEMMA NamedHierarchy ==
  ASSUME NEW S, NEW q \in Seq(S), NEW s, Valid(<<s>> \o q)
  PROVE  Tail(q) # <<>> /\ RhOf(<<s>> \o q) = Tail(q)
<1> DEFINE A == S \cup {s}
           w == <<s>> \o q
           t == Tail(q)
           n == Len(q) + 1
           h == SubSeq(w, 3, n)
<1>1. q \in Seq(A) /\ <<s>> \in Seq(A) /\ Len(q) \in Nat
  OBVIOUS
<1>2. Len(w) = n /\ \A k \in 1..Len(q) : w[k + 1] = q[k]
  <2>1. w \in Seq(A) /\ Len(w) = 1 + Len(q)
    BY <1>1
  <2>2. ASSUME NEW k \in 1..Len(q) PROVE w[k + 1] = q[k]
    BY <1>1
  <2>3. QED
    BY <1>1, <2>1, <2>2
<1>3. w \in Seq(A)
  BY <1>1
<1>4. Len(w) >= 3
  BY DEF Valid
<1> HIDE DEF w
<1>5. Len(q) >= 2 /\ n \in Nat
  BY <1>1, <1>2, <1>4
<1>6. Len(t) = Len(q) - 1 /\ \A k \in 1..(Len(q) - 1) : t[k] = q[k + 1]
  BY <1>1, <1>5
<1>7. h \in Seq(A) /\ Len(h) = Len(q) - 1 /\ \A k \in 1..(Len(q) - 1) : h[k] = w[k + 2]
  BY <1>1, <1>2, <1>3, <1>5
<1>8. t \in Seq(A)
  BY <1>1, <1>5
<1> HIDE DEF h, t
<1>9. ASSUME NEW k \in 1..(Len(q) - 1) PROVE h[k] = t[k]
  <2>1. k + 1 \in 1..Len(q) /\ (k + 1) + 1 = k + 2
    BY <1>1
  <2>2. w[k + 2] = q[k + 1]
    BY <1>2, <2>1
  <2>3. QED
    BY <1>6, <1>7, <2>2
<1>10. h = t
  BY <1>1, <1>6, <1>7, <1>8, <1>9
<1>11. t # <<>>
  BY <1>1, <1>5, <1>6
<1>12. RhOf(w) = h
  BY <1>2 DEF RhOf, h
<1>13. QED
  BY <1>10, <1>11, <1>12 DEF w, t

LEMMA AnswersFit ==
  ASSUME NEW prefix, Answer(ServiceAM(prefix[1], Tail(prefix)))
  PROVE  Fits(ListServicePermissions(prefix))
<1> DEFINE ams == ServiceAM(prefix[1], Tail(prefix))
           s == prefix[1]
           L == ListServicePermissions(prefix)
<1>1. /\ DOMAIN ams = 1..Len(ams) /\ Len(ams) \in Nat
      /\ \A i \in DOMAIN ams :
           /\ ams[i].complete \in BOOLEAN /\ ams[i] = Entry(ams[i].prefix, ams[i].complete)
           /\ ams[i].prefix \in Seq(Sx!Range(ams[i].prefix))
           /\ ams[i].complete => Tail(ams[i].prefix) \in Seq(Parts) /\ WellFormed(Tail(ams[i].prefix))
  <2> HIDE DEF ams
  <2>1. Answer(ams)
    BY DEF ams
  <2>2. ams \in Seq(Sx!Range(ams))
    BY <2>1 DEF Answer
  <2>3. \A i \in DOMAIN ams : ams[i] \in Sx!Range(ams)
    BY DEF Sx!Range
  <2>4. DOMAIN ams = 1..Len(ams) /\ Len(ams) \in Nat
    BY <2>2
  <2>5. \A e \in Sx!Range(ams) :
          /\ e.complete \in BOOLEAN /\ e = Entry(e.prefix, e.complete)
          /\ e.prefix \in Seq(Sx!Range(e.prefix))
          /\ e.complete => Tail(e.prefix) \in Seq(Parts) /\ WellFormed(Tail(e.prefix))
    BY <2>1 DEF Answer
  <2>6. QED
    BY <2>3, <2>4, <2>5
<1>2. L = [i \in DOMAIN ams |-> [ams[i] EXCEPT !.prefix = <<s>> \o @]]
  BY DEF ListServicePermissions, Each
<1> HIDE DEF L, ams, s
<1>3. ASSUME NEW i \in 1..Len(ams) PROVE Fit(L[i])
  <2> DEFINE q == ams[i].prefix
             c == ams[i].complete
             w == <<s>> \o q
  <2>1. i \in DOMAIN ams /\ c \in BOOLEAN /\ ams[i] = Entry(q, c) /\ q \in Seq(Sx!Range(q))
    BY <1>1
  <2>2. L[i] = [ams[i] EXCEPT !.prefix = w]
    BY <1>2, <2>1
  <2> HIDE DEF w
  <2>3. L[i] = Entry(w, c)
    <3> HIDE DEF q, c
    <3>1. [Entry(q, c) EXCEPT !.prefix = w] = Entry(w, c)
      <4>1. ASSUME NEW l PROVE
              [[prefix |-> q, complete |-> c, lender |-> l, owner |-> l] EXCEPT !.prefix = w]
                = [prefix |-> w, complete |-> c, lender |-> l, owner |-> l]
        OBVIOUS
      <4>2. QED
        BY <4>1, Zenon DEF Entry
    <3>2. QED
      BY <2>1, <2>2, <3>1
  <2>4. c => Tail(q) \in Seq(Parts) /\ WellFormed(Tail(q))
    BY <1>1, <2>1
  <2>5. ASSUME c, Valid(w) PROVE RhOf(w) \in Hierarchies /\ WellFormed(RhOf(w))
    <3>1. Tail(q) # <<>> /\ RhOf(w) = Tail(q)
      <4> HIDE DEF q
      <4>1. QED
        BY <2>1, <2>5, NamedHierarchy DEF w
    <3>2. QED
      BY <2>4, <2>5, <3>1 DEF Hierarchies
  <2> HIDE DEF q, c
  <2>6. QED
    BY <2>1, <2>3, <2>5, EntryIsBare DEF Fit, Sound
<1>4. QED
  BY <1>1, <1>2, <1>3, FitsAll DEF L

\* Something is typed: one part at least.
Typed(prefix) == prefix \in Seq(Sx!Range(prefix)) /\ prefix # <<>>

LEMMA PermissionsFit ==
  ASSUME NEW prefix, Typed(prefix),
         Len(prefix) > 1 /\ prefix[1] # WillIAM => Answer(ServiceAM(prefix[1], Tail(prefix)))
  PROVE  Fits(ListPermissions(prefix))
<1>1. Len(prefix) \in Nat /\ Len(prefix) > 0
  BY DEF Typed
<1>2. CASE Len(prefix) = 1
  <2>1. ListPermissions(prefix) = ListServices(prefix[1])
    BY <1>2 DEF ListPermissions
  <2>2. QED
    BY <2>1, NamesListed
<1>3. CASE Len(prefix) > 1 /\ prefix[1] = WillIAM
  <2>1. ListPermissions(prefix) = ListWillIAMPermissions(prefix)
    BY <1>3 DEF ListPermissions
  <2>2. /\ Fits(ListWillIAMActions(prefix[2]))
        /\ Fits(ListWillIAMResourceHierarchies(prefix[2], prefix[3]))
    BY NamesListed, RolesListed, Zenon
  <2>3. QED
    BY <2>1, <2>2 DEF ListWillIAMPermissions
<1>4. CASE Len(prefix) > 1 /\ prefix[1] # WillIAM
  <2>1. ListPermissions(prefix) = ListServicePermissions(prefix)
    BY <1>4 DEF ListPermissions
  <2>2. QED
    BY <1>4, <2>1, AnswersFit
<1>5. Len(prefix) = 1 \/ Len(prefix) > 1
  <2>1. \A n \in Nat : n > 0 => n = 1 \/ n > 1
    OBVIOUS
  <2>2. QED
    BY <1>1, <2>1
<1>6. QED
  BY <1>2, <1>3, <1>4, <1>5

\* The wildcard is put in front of the others, and moves them on.
LEMMA Prepended ==
  ASSUME NEW e, NEW ams, ams \in Seq(Sx!Range(ams))
  PROVE  LET r == <<e>> \o ams
         IN  /\ r \in Seq(Sx!Range(r)) /\ DOMAIN r = 1..(Len(ams) + 1) /\ r[1] = e
             /\ \A i \in DOMAIN ams : i + 1 \in DOMAIN r /\ r[i + 1] = ams[i]
             /\ \A k \in DOMAIN r : k # 1 => k - 1 \in DOMAIN ams /\ r[k] = ams[k - 1]
<1> DEFINE A == Sx!Range(ams) \cup {e}
           r == <<e>> \o ams
           n == Len(ams)
<1>1. <<e>> \in Seq(A) /\ Len(<<e>>) = 1 /\ ams \in Seq(A) /\ n \in Nat /\ DOMAIN ams = 1..n
  <2> HIDE DEF A
  <2>1. ams \in Seq(Sx!Range(ams)) /\ Sx!Range(ams) \subseteq A /\ e \in A
    BY DEF A
  <2>2. QED
    BY <2>1
<1> HIDE DEF A
<1>2. /\ r \in Seq(A) /\ Len(r) = n + 1 /\ DOMAIN r = 1..(n + 1) /\ r[1] = e
      /\ \A i \in 1..n : r[i + 1] = ams[i]
  BY <1>1
<1> HIDE DEF r
<1>3. r \in Seq(Sx!Range(r))
  <2>1. r \in [1..(n + 1) -> Sx!Range(r)]
    BY <1>1, <1>2 DEF Sx!Range
  <2>2. QED
    BY <1>1, <2>1
<1>4. \A i \in DOMAIN ams : i + 1 \in DOMAIN r /\ r[i + 1] = ams[i]
  BY <1>1, <1>2
<1>5. ASSUME NEW k \in DOMAIN r, k # 1 PROVE k - 1 \in DOMAIN ams /\ r[k] = ams[k - 1]
  <2>1. k - 1 \in 1..n /\ (k - 1) + 1 = k
    BY <1>1, <1>2, <1>5
  <2>2. QED
    BY <1>1, <1>2, <2>1
<1>6. QED
  BY <1>1, <1>2, <1>3, <1>4, <1>5 DEF r

StarEntry(prefix) == Entry(Append(Sx!Front(prefix), Star), Len(prefix) >= 3)

LEMMA StarPrefix ==
  ASSUME NEW prefix, Typed(prefix)
  PROVE  LET w == Append(Sx!Front(prefix), Star)
         IN  /\ w \in Seq(Sx!Range(prefix) \cup {Star}) /\ Len(w) = Len(prefix)
             /\ w[Len(prefix)] = Star
             /\ \A k \in 1..(Len(prefix) - 1) : w[k] = prefix[k]
<1> DEFINE n == Len(prefix)
           A == Sx!Range(prefix) \cup {Star}
           f == SubSeq(prefix, 1, n - 1)
<1>1. prefix \in Seq(A) /\ n \in Nat /\ n > 0 /\ n - 1 \in Nat
  <2>1. prefix \in Seq(Sx!Range(prefix)) /\ prefix # <<>> /\ Sx!Range(prefix) \subseteq A
    BY DEF Typed
  <2> HIDE DEF A
  <2>2. QED
    BY <2>1
<1> HIDE DEF A
<1>2. f \in Seq(A) /\ Len(f) = n - 1 /\ \A k \in 1..(n - 1) : f[k] = prefix[k]
  <2>1. \A m \in Nat : m <= Len(prefix) =>
          /\ SubSeq(prefix, 1, m) \in Seq(A) /\ Len(SubSeq(prefix, 1, m)) = m
          /\ \A k \in 1..m : SubSeq(prefix, 1, m)[k] = prefix[k]
    BY <1>1
  <2>2. n - 1 \in Nat /\ n - 1 <= Len(prefix)
    BY <1>1
  <2>3. QED
    BY <2>1, <2>2
<1>3. Sx!Front(prefix) = f
  BY DEF Sx!Front
<1> HIDE DEF f, n
<1>4. Star \in A
  BY DEF A
<1>5. /\ Append(f, Star) \in Seq(A) /\ Len(Append(f, Star)) = n
      /\ Append(f, Star)[n] = Star
      /\ \A k \in 1..(n - 1) : Append(f, Star)[k] = f[k]
  BY <1>1, <1>2, <1>4
<1>6. QED
  BY <1>2, <1>3, <1>5 DEF A, n

LEMMA StarEntryFits ==
  ASSUME NEW prefix, Typed(prefix), ~ (Len(prefix) > 3)
  PROVE  Fit(StarEntry(prefix)) /\ Sound(StarEntry(prefix))
<1> DEFINE w == Append(Sx!Front(prefix), Star)
           c == Len(prefix) >= 3
<1>1. w \in Seq(Sx!Range(prefix) \cup {Star}) /\ Len(w) = Len(prefix) /\ w[Len(prefix)] = Star
  BY StarPrefix
<1>2. Len(prefix) \in Nat
  BY DEF Typed
<1> HIDE DEF w
<1>3. ASSUME c PROVE RhOf(w) \in Hierarchies /\ WellFormed(RhOf(w))
  <2>1. Len(w) = 3 /\ w[3] \in Parts
    BY <1>1, <1>2, <1>3 DEF Parts
  <2>2. QED
    BY <1>1, <2>1, OnePartFits
<1>4. c \in BOOLEAN
  OBVIOUS
<1> HIDE DEF c
<1>5. Fit(Entry(w, c)) /\ Sound(Entry(w, c))
  BY <1>3, <1>4, EntryIsBare DEF Fit, Sound
<1>6. QED
  BY <1>5 DEF StarEntry, w, c

\* The wildcard's entry disturbs nothing.
LEMMA StarFits ==
  ASSUME NEW prefix, Typed(prefix), NEW ams, Fits(ams)
  PROVE  LET r == MaybeAddStarPermissions(prefix, ams)
         IN  /\ Fits(r)
             /\ \A i \in DOMAIN ams : \E k \in DOMAIN r : r[k] = ams[i]
             /\ \A k \in DOMAIN r : Sound(r[k]) \/ \E i \in DOMAIN ams : r[k] = ams[i]
             /\ Len(prefix) \in {2, 3} /\ prefix[Len(prefix)] = Empty =>
                  \/ \E k \in DOMAIN r : r[k] = StarEntry(prefix)
                  \/ \E i \in DOMAIN ams : Sx!Last(ams[i].prefix) = Star
<1> DEFINE r == MaybeAddStarPermissions(prefix, ams)
<1>1. CASE r = ams /\ ( \/ Len(prefix) = 1 \/ Sx!Last(prefix) # Empty \/ Len(prefix) > 3
                        \/ \E i \in DOMAIN ams : Sx!Last(ams[i].prefix) = Star )
  <2>1. \A i \in DOMAIN ams : \E k \in DOMAIN r : r[k] = ams[i]
    BY <1>1
  <2>2. Len(prefix) \in {2, 3} /\ prefix[Len(prefix)] = Empty =>
          \E i \in DOMAIN ams : Sx!Last(ams[i].prefix) = Star
    <3>1. Len(prefix) \in {2, 3} => Len(prefix) # 1 /\ ~ (Len(prefix) > 3)
      <4>1. \A n \in {2, 3} : n # 1 /\ ~ (n > 3)
        OBVIOUS
      <4>2. QED
        BY <4>1
    <3>2. Sx!Last(prefix) = prefix[Len(prefix)]
      BY DEF Sx!Last
    <3> HIDE DEF r
    <3>3. QED
      BY <1>1, <3>1, <3>2
  <2> HIDE DEF r
  <2>3. \A k \in DOMAIN r : \E i \in DOMAIN ams : r[k] = ams[i]
    BY <1>1
  <2>4. QED
    BY <1>1, <2>1, <2>2, <2>3 DEF r
<1>2. CASE r = <<StarEntry(prefix)>> \o ams /\ ~ (Len(prefix) > 3)
  <2> HIDE DEF r
  <2>1. /\ r \in Seq(Sx!Range(r)) /\ DOMAIN r = 1..(Len(ams) + 1) /\ r[1] = StarEntry(prefix)
        /\ \A i \in DOMAIN ams : i + 1 \in DOMAIN r /\ r[i + 1] = ams[i]
        /\ \A k \in DOMAIN r : k # 1 => k - 1 \in DOMAIN ams /\ r[k] = ams[k - 1]
    BY <1>2, Prepended DEF Fits
  <2>2. Len(ams) \in Nat
    BY DEF Fits
  <2>3. 1 \in DOMAIN r
    BY <2>1, <2>2
  <2>4. Fits(r)
    <3>1. ASSUME NEW k \in DOMAIN r PROVE Fit(r[k])
      BY <1>2, <2>1, StarEntryFits DEF Fits
    <3>2. QED
      BY <2>1, <3>1 DEF Fits
  <2>5. \A k \in DOMAIN r : Sound(r[k]) \/ \E i \in DOMAIN ams : r[k] = ams[i]
    BY <1>2, <2>1, StarEntryFits
  <2>6. QED
    BY <2>1, <2>3, <2>4, <2>5 DEF r
<1>3. QED
  BY <1>1, <1>2 DEF MaybeAddStarPermissions, StarEntry

-----------------------------------------------------------------------------
(* What the list tells *)

\* One row, against a permission of which only the hierarchy and the level are
\* known to be what they should.
LEMMA GrantsAgree ==
  ASSUME NEW h \in Permissions, WellFormed(h.rh),
         NEW p, p.rh \in Hierarchies, WellFormed(p.rh), p.level \in Levels
  PROVE  SqlGrants(h, p) <=> GoGrants(h, p)
<1>1. h.rh \in Hierarchies /\ h.level \in Levels
  BY DEF Permissions
<1>2. h.rh \in PermissionMatches(p.rh) <=> Contains(h.rh, p.rh)
  BY <1>1, MatchesContain, ContainedMatch
<1>3. (p.level = RO => h.level = RO) <=> ~ Less(h.level, p.level)
  BY <1>1 DEF Less, Levels, RO, RL
<1>4. QED
  BY <1>2, <1>3 DEF SqlGrants, GoGrants

Rows(rows) == \A h \in rows : h \in Permissions /\ WellFormed(h.rh)

LEMMA AnswersAgree ==
  ASSUME NEW rows, Rows(rows), NEW e, Sound(e), e.complete, NEW l \in Levels
  PROVE  IsPresent(rows, BuildPermission(e.prefix, l))
           = HasPermission(rows, BuildPermission(e.prefix, l))
<1> DEFINE p == BuildPermission(e.prefix, l)
<1>1. p.rh = RhOf(e.prefix) /\ p.level = l
  BY DEF BuildPermission, RhOf
<1> HIDE DEF p
<1>2. \A h \in rows : SqlGrants(h, p) <=> GoGrants(h, p)
  BY <1>1, GrantsAgree DEF Rows, Sound
<1>3. IsPresent(rows, p) <=> HasPermission(rows, p)
  BY <1>2 DEF IsPresent, HasPermission
<1>4. IsPresent(rows, p) \in BOOLEAN /\ HasPermission(rows, p) \in BOOLEAN
  BY DEF IsPresent, HasPermission
<1>5. QED
  BY <1>3, <1>4 DEF p

\* What the answer of AM.List has in the place of an entry: the answers the
\* account gets elsewhere.
TellsRights(rows, e, f) ==
  /\ f.prefix = e.prefix /\ f.complete = e.complete
  /\ f.lender = (e.complete /\ HasPermission(rows, BuildPermission(e.prefix, RL)))
  /\ f.owner  = (e.complete /\ HasPermission(rows, BuildPermission(e.prefix, RO)))

LEMMA TellsSound ==
  ASSUME NEW rows, Rows(rows), NEW e, Sound(e), e.complete \in BOOLEAN, NEW f, Tells(rows, e, f)
  PROVE  TellsRights(rows, e, f)
<1>1. CASE e.complete
  BY <1>1, AnswersAgree DEF Levels, Tells, TellsRights
<1>2. CASE ~ e.complete
  BY <1>2 DEF Tells, TellsRights
<1>3. QED
  BY <1>1, <1>2

\* The entries of the answer are those of the list with the wildcard put in.
LEMMA ListTells ==
  ASSUME NEW prefix, NEW rows, Fits(MaybeAddStarPermissions(prefix, ListPermissions(prefix)))
  PROVE  LET ams == MaybeAddStarPermissions(prefix, ListPermissions(prefix))
             f   == List(rows, prefix)
         IN  DOMAIN f = DOMAIN ams /\ \A i \in DOMAIN ams : Tells(rows, ams[i], f[i])
<1> DEFINE ams == MaybeAddStarPermissions(prefix, ListPermissions(prefix))
           q == Questions(ams)
           f == Flagged(ams, q.is, ServiceAccountHasPermissions(rows, q.ps))
<1>1. List(rows, prefix) = f
  BY DEF List
<1>2. ams \in Seq(Sx!Range(ams)) /\ \A i \in DOMAIN ams : Bare(ams[i])
  BY DEF Fits, Fit
<1>3. DOMAIN f = DOMAIN ams /\ \A i \in DOMAIN ams : Tells(rows, ams[i], f[i])
  <2> HIDE DEF ams
  <2>1. QED
    BY <1>2, FlagsComeBack
<1>4. QED
  BY <1>1, <1>3

\* Whatever services there are and whatever they list, an entry of the answer
\* is flagged with what the account may do (usecases/am.go:39).
THEOREM ListTellsRights ==
  ASSUME NEW prefix, Typed(prefix), Succeeds(prefix),
         Len(prefix) > 1 /\ prefix[1] # WillIAM => Answer(ServiceAM(prefix[1], Tail(prefix))),
         NEW rows, Rows(rows)
  PROVE  \A f \in Sx!Range(List(rows, prefix)) : TellsRights(rows, f, f)
<1> DEFINE list == ListPermissions(prefix)
           ams == MaybeAddStarPermissions(prefix, list)
           ans == List(rows, prefix)
<1>1. Fits(list)
  BY PermissionsFit
<1>2. /\ Fits(ams)
      /\ \A k \in DOMAIN ams : Sound(ams[k]) \/ \E i \in DOMAIN list : ams[k] = list[i]
  BY <1>1, StarFits
<1>3. DOMAIN ans = DOMAIN ams /\ \A i \in DOMAIN ams : Tells(rows, ams[i], ans[i])
  BY <1>2, ListTells
<1>4. ASSUME NEW i \in DOMAIN list PROVE Sound(list[i])
  <2>1. Fit(list[i]) /\ list[i] \in Sx!Range(list)
    BY <1>1 DEF Fits, Sx!Range
  <2>2. list[i].complete => Valid(list[i].prefix)
    BY <2>1 DEF Succeeds
  <2>3. QED
    BY <2>1, <2>2 DEF Fit, Sound
<1> HIDE DEF list, ams, ans
<1>5. ASSUME NEW i \in DOMAIN ans PROVE TellsRights(rows, ans[i], ans[i])
  <2>1. i \in DOMAIN ams /\ Tells(rows, ams[i], ans[i])
    BY <1>3
  <2>2. Sound(ams[i]) /\ ams[i].complete \in BOOLEAN
    BY <1>2, <1>4, <2>1 DEF Fits, Fit, Bare
  <2>3. TellsRights(rows, ams[i], ans[i])
    BY <2>1, <2>2, TellsSound
  <2>4. QED
    BY <2>3 DEF TellsRights
<1>6. QED
  BY <1>5 DEF Sx!Range, ans

-----------------------------------------------------------------------------
(* Entries and guards along the chains *)

LEMMA TypedOne == \A a : Typed(<<a>>) /\ Len(<<a>>) = 1 /\ <<a>>[1] = a
  BY DEF Typed, Sx!Range
LEMMA TypedTwo == \A a, b : Typed(<<a, b>>) /\ Len(<<a, b>>) = 2 /\ <<a, b>>[1] = a /\ <<a, b>>[2] = b
  BY DEF Typed, Sx!Range
LEMMA TypedThree ==
  \A a, b, c : /\ Typed(<<a, b, c>>) /\ Len(<<a, b, c>>) = 3
               /\ <<a, b, c>>[1] = a /\ <<a, b, c>>[2] = b /\ <<a, b, c>>[3] = c
  BY DEF Typed, Sx!Range
LEMMA TypedFour == \A a, b, c, d : Typed(<<a, b, c, d>>)
  BY DEF Typed, Sx!Range

LEMMA TypingsTyped == \A prefix \in Typings : Typed(prefix)
<1>1. SUFFICES ASSUME NEW prefix \in Typings PROVE Typed(prefix)
  OBVIOUS
<1>2. CASE \E t : prefix = <<t>>
  BY <1>2, TypedOne
<1>3. CASE \E t : prefix = <<WillIAM, t>>
  BY <1>3, TypedTwo
<1>4. CASE \E a, t : prefix = <<WillIAM, a, t>>
  BY <1>4, TypedThree
<1>5. CASE prefix \in {<<WillIAM, "EditRole", x, Empty>>, <<"shop", Empty>>,
                       <<"shop", "read", Empty>>, <<"shop", "read", x, Empty>>}
  BY <1>5, TypedTwo, TypedThree, TypedFour
<1>6. QED
  BY <1>2, <1>3, <1>4, <1>5 DEF Typings

LEMMA MineAreRows == IInv /\ AllWellFormed => Rows(Mine)
  BY UniverseType DEF IInv, AllWellFormed, Mine, Rows

\* What the list flags is what the routes will answer, whatever the account
\* holds, along every chain (usecases/am.go:39).
THEOREM ListingsTellRights == Spec => []ListingTellsRights
<1>1. IInv => ListingTellsRights
  <2> SUFFICES ASSUME IInv, AllWellFormed,
                      NEW prefix \in Typings, Succeeds(prefix),
                      NEW e \in Sx!Range(List(Mine, prefix))
               PROVE  /\ e.lender = (e.complete /\ HasPermission(Mine, BuildPermission(e.prefix, RL)))
                      /\ e.owner  = (e.complete /\ HasPermission(Mine, BuildPermission(e.prefix, RO)))
    BY DEF ListingTellsRights
  <2>1. Typed(prefix) /\ Rows(Mine)
    BY TypingsTyped, MineAreRows
  <2>2. Len(prefix) > 1 /\ prefix[1] # WillIAM => Answer(ServiceAM(prefix[1], Tail(prefix)))
    BY ServiceAMAssumption
  <2>3. \A f \in Sx!Range(List(Mine, prefix)) : TellsRights(Mine, f, f)
    BY <2>1, <2>2, ListTellsRights
  <2>4. QED
    BY <2>3 DEF TellsRights
<1>2. QED
  BY <1>1, Reachable, PTL

\* Whatever is on the list with the wildcard put in is in the answer.
LEMMA Answered ==
  ASSUME NEW prefix, Typed(prefix), NEW rows, Rows(rows), Fits(ListPermissions(prefix)),
         NEW k \in DOMAIN MaybeAddStarPermissions(prefix, ListPermissions(prefix)),
         NEW e, e = MaybeAddStarPermissions(prefix, ListPermissions(prefix))[k], Sound(e)
  PROVE  \E f \in Sx!Range(List(rows, prefix)) : TellsRights(rows, e, f)
<1> DEFINE list == ListPermissions(prefix)
           ams == MaybeAddStarPermissions(prefix, list)
           ans == List(rows, prefix)
<1>1. Fits(ams)
  BY StarFits
<1>2. DOMAIN ans = DOMAIN ams /\ \A i \in DOMAIN ams : Tells(rows, ams[i], ans[i])
  BY <1>1, ListTells
<1>3. ams[k].complete \in BOOLEAN
  BY <1>1 DEF Fits, Fit, Bare
<1>4. k \in DOMAIN ams /\ e = ams[k]
  OBVIOUS
<1> HIDE DEF list, ams, ans
<1>5. TellsRights(rows, e, ans[k]) /\ ans[k] \in Sx!Range(ans)
  BY <1>2, <1>3, <1>4, TellsSound DEF Sx!Range
<1>6. QED
  BY <1>5 DEF ans

\* The wildcard is on the list of what may be typed for it.
LEMMA StarOffered ==
  ASSUME NEW prefix, Typed(prefix), Len(prefix) \in {2, 3}, prefix[Len(prefix)] = Empty,
         NEW list, Fits(list), \A i \in DOMAIN list : Sx!Last(list[i].prefix) # Star
  PROVE  \E k \in DOMAIN MaybeAddStarPermissions(prefix, list) :
           MaybeAddStarPermissions(prefix, list)[k] = StarEntry(prefix)
<1> DEFINE r == MaybeAddStarPermissions(prefix, list)
<1>1. \/ \E k \in DOMAIN r : r[k] = StarEntry(prefix)
      \/ \E i \in DOMAIN list : Sx!Last(list[i].prefix) = Star
  BY StarFits
<1>2. QED
  BY <1>1

\* The steps on the way to a guard: the service, the action, the hierarchy.
LEMMA ServiceOffered ==
  ASSUME NEW rows, Rows(rows)
  PROVE  \E f \in Sx!Range(List(rows, <<Empty>>)) : TellsRights(rows, Entry(<<WillIAM>>, FALSE), f)
<1> DEFINE p == <<Empty>>
           e == Entry(<<WillIAM>>, FALSE)
           list == ListPermissions(p)
           ams == MaybeAddStarPermissions(p, list)
<1>1. Typed(p) /\ Len(p) = 1 /\ p[1] = Empty
  BY TypedOne
<1> HIDE DEF p
<1>2. list = ListServices(Empty)
  BY <1>1 DEF ListPermissions
<1>3. Begins(WillIAM, Empty)
  BY DEF Begins
<1>4. Fits(list) /\ \E i \in DOMAIN list : list[i] = e
  BY <1>2, <1>3, NamesListed
<1>5. Sound(e)
  BY EntryIsBare DEF Sound
<1> HIDE DEF list, e
<1>6. \E k \in DOMAIN ams : ams[k] = e
  BY <1>1, <1>4, StarFits
<1>7. QED
  BY <1>1, <1>4, <1>5, <1>6, Answered DEF list, e, p

LEMMA ActionOffered ==
  ASSUME NEW rows, Rows(rows), NEW a \in Sx!Range(WillIAMActions)
  PROVE  \E f \in Sx!Range(List(rows, <<WillIAM, Empty>>)) :
           TellsRights(rows, Entry(<<WillIAM, a>>, FALSE), f)
<1> DEFINE p == <<WillIAM, Empty>>
           e == Entry(<<WillIAM, a>>, FALSE)
           list == ListPermissions(p)
           ams == MaybeAddStarPermissions(p, list)
<1>1. Typed(p) /\ Len(p) = 2 /\ p[1] = WillIAM /\ p[2] = Empty
  BY TypedTwo
<1> HIDE DEF p
<1>2. list = ListWillIAMActions(Empty)
  BY <1>1 DEF ListPermissions, ListWillIAMPermissions
<1>3. Begins(a, Empty)
  BY DEF Begins
<1>4. Fits(list) /\ \E i \in DOMAIN list : list[i] = e
  BY <1>2, <1>3, NamesListed
<1>5. Sound(e)
  BY EntryIsBare DEF Sound
<1> HIDE DEF list, e
<1>6. \E k \in DOMAIN ams : ams[k] = e
  BY <1>1, <1>4, StarFits
<1>7. QED
  BY <1>1, <1>4, <1>5, <1>6, Answered DEF list, e, p

\* Behind an action there are the wildcard and, for EditRole, every role.
LEMMA HierarchyOffered ==
  ASSUME NEW rows, Rows(rows), NEW a, NEW rh,
         rh = Star \/ (a = "EditRole" /\ \E r \in Sx!Range(RoleList) : rh = r.id)
  PROVE  \E f \in Sx!Range(List(rows, <<WillIAM, a, Empty>>)) :
           TellsRights(rows, Entry(<<WillIAM, a, rh>>, TRUE), f)
<1> DEFINE p == <<WillIAM, a, Empty>>
           w == <<WillIAM, a, rh>>
           e == Entry(w, TRUE)
           list == ListPermissions(p)
           ams == MaybeAddStarPermissions(p, list)
<1>1. Typed(p) /\ Len(p) = 3 /\ p[1] = WillIAM /\ p[2] = a /\ p[3] = Empty
  BY TypedThree
<1>2. Typed(w) /\ Len(w) = 3 /\ w[1] = WillIAM /\ w[2] = a /\ w[3] = rh
  BY TypedThree
<1>9. /\ DOMAIN w = 1..3
      /\ \A r \in Sx!Range(RoleList) : Sx!Last(<<WillIAM, a, r.id>>) = r.id
  BY TypedThree DEF Sx!Last
<1> HIDE DEF p, w
<1>3. list = ListWillIAMResourceHierarchies(a, Empty)
  BY <1>1 DEF ListPermissions, ListWillIAMPermissions
<1>4. Fits(list) /\ RolesOn(list, a, Empty)
  BY <1>3, RolesListed
<1>5. Sound(e)
  <2>1. rh \in Parts
    BY ListsAssumption DEF Parts
  <2>2. RhOf(w) \in Hierarchies /\ WellFormed(RhOf(w))
    BY <1>2, <2>1, OnePartFits DEF Typed
  <2>3. QED
    BY <2>2, EntryIsBare DEF Sound
<1>6. \E k \in DOMAIN ams : ams[k] = e
  <2>1. CASE rh = Star
    <3>1. ASSUME NEW i \in DOMAIN list PROVE Sx!Last(list[i].prefix) # Star
      <4>1. PICK r \in Sx!Range(RoleList) : list[i] = Entry(<<WillIAM, a, r.id>>, TRUE)
        BY <1>4 DEF RolesOn
      <4>2. list[i].prefix = <<WillIAM, a, r.id>>
        BY <4>1, EntryIsBare
      <4>3. r.id \in Segments
        BY ListsAssumption
      <4>4. QED
        BY <1>9, <4>2, <4>3, StarAssumption
    <3>2. StarEntry(p) = e
      <4> DEFINE v == Append(Sx!Front(p), Star)
      <4>1. /\ v \in Seq(Sx!Range(p) \cup {Star}) /\ Len(v) = 3 /\ v[3] = Star
            /\ v[1] = p[1] /\ v[2] = p[2]
        <5>1. /\ v \in Seq(Sx!Range(p) \cup {Star}) /\ Len(v) = Len(p) /\ v[Len(p)] = Star
              /\ \A k \in 1..(Len(p) - 1) : v[k] = p[k]
          BY <1>1, StarPrefix
        <5>2. 1 \in 1..(3 - 1) /\ 2 \in 1..(3 - 1)
          OBVIOUS
        <5> HIDE DEF v
        <5>3. QED
          BY <1>1, <5>1, <5>2
      <4> HIDE DEF v
      <4>2. v = w
        BY <1>1, <1>2, <2>1, <4>1 DEF Typed
      <4>3. QED
        <5>1. Len(p) >= 3
          BY <1>1
        <5> HIDE DEF p, w
        <5>2. (Len(p) >= 3) = TRUE
          BY <5>1
        <5>3. StarEntry(p) = Entry(v, Len(p) >= 3)
          BY DEF StarEntry, v
        <5>4. QED
          BY <4>2, <5>2, <5>3
    <3> HIDE DEF list, e
    <3>3. Len(p) \in {2, 3} /\ p[Len(p)] = Empty
      BY <1>1
    <3>4. \E k \in DOMAIN ams : ams[k] = StarEntry(p)
      BY <1>1, <1>4, <3>1, <3>3, StarOffered
    <3>5. QED
      BY <3>2, <3>4
  <2>2. CASE a = "EditRole" /\ \E r \in Sx!Range(RoleList) : rh = r.id
    <3>1. PICK r \in Sx!Range(RoleList) : rh = r.id
      BY <2>2
    <3>2. Begins(r.name, Empty)
      BY DEF Begins
    <3>3. \E i \in DOMAIN list : list[i] = e
      <4> DEFINE E(i) == Entry(<<WillIAM, a, i>>, TRUE)
      <4>1. e = E(r.id)
        BY <3>1 DEF w
      <4>2. \E i \in DOMAIN list : list[i] = E(r.id)
        BY <1>4, <2>2, <3>1, <3>2 DEF RolesOn
      <4> HIDE DEF e, E, list
      <4>3. QED
        BY <4>1, <4>2
    <3> HIDE DEF list, e
    <3>4. QED
      BY <1>1, <1>4, <3>3, StarFits
  <2>3. QED
    BY <2>1, <2>2
<1> HIDE DEF list, e
<1>7. QED
  BY <1>1, <1>4, <1>5, <1>6, Answered DEF list, e, p, w

\* The permission for everything, if granted, lets pass for each single thing:
\* the query behind the guards has the bare wildcard among the matches of all.
LEMMA AllLetsPass ==
  ASSUME NEW rows, NEW a, NEW rh, HasPermission(rows, BuildPermission(<<WillIAM, a, Star>>, RL))
  PROVE  HasPermission(rows, BuildPermission(<<WillIAM, a, rh>>, RL))
<1> DEFINE all == BuildPermission(<<WillIAM, a, Star>>, RL)
           one == BuildPermission(<<WillIAM, a, rh>>, RL)
<1>1. \A c : LET w == <<WillIAM, a, c>>
            IN  /\ BuildPermission(w, RL).service = WillIAM
                /\ BuildPermission(w, RL).action = a
                /\ BuildPermission(w, RL).level = RL
                /\ BuildPermission(w, RL).rh = SubSeq(w, 3, 3)
  BY TypedThree DEF BuildPermission
<1>2. all.rh = <<Star>>
  <2> DEFINE w == <<WillIAM, a, Star>>
             h == SubSeq(w, 3, 3)
  <2>1. h \in Seq({WillIAM, a, Star}) /\ Len(h) = 1 /\ h[1] = Star
    OBVIOUS
  <2> HIDE DEF h
  <2>2. h = <<Star>>
    BY <2>1
  <2>3. QED
    BY <1>1, <2>2 DEF h
<1>3. /\ one.service = all.service /\ one.action = all.action /\ one.level = all.level
  BY <1>1
<1> HIDE DEF all, one
<1>4. PICK h \in rows : SqlGrants(h, all)
  BY DEF HasPermission, all
<1>5. h.rh = <<Star>>
  BY <1>2, <1>4 DEF SqlGrants, PermissionMatches
<1>6. h.rh \in PermissionMatches(one.rh)
  BY <1>5 DEF PermissionMatches
<1>7. SqlGrants(h, one)
  BY <1>3, <1>4, <1>6 DEF SqlGrants
<1>8. QED
  BY <1>7 DEF HasPermission, one

\* What a list offers, in the words of the property.
LEMMA ContinuesBy ==
  ASSUME NEW typed, NEW p,
         \E f \in Sx!Range(List(Mine, typed)) : TellsRights(Mine, Entry(p, FALSE), f)
  PROVE  Continues(typed, p)
  BY EntryIsBare DEF Continues, TellsRights

LEMMA CompletesBy ==
  ASSUME NEW typed, NEW p,
         \E f \in Sx!Range(List(Mine, typed)) : TellsRights(Mine, Entry(p, TRUE), f)
  PROVE  Completes(typed, p)
<1>1. PICK f \in Sx!Range(List(Mine, typed)) : TellsRights(Mine, Entry(p, TRUE), f)
  OBVIOUS
<1>2. /\ f.prefix = p /\ f.complete = TRUE
      /\ f.lender = HasPermission(Mine, BuildPermission(p, RL))
  <2>1. HasPermission(Mine, BuildPermission(p, RL)) \in BOOLEAN
    BY DEF HasPermission
  <2>2. QED
    BY <1>1, <2>1, EntryIsBare DEF TellsRights
<1>3. QED
  BY <1>1, <1>2 DEF Completes, May

\* A route's permission is an action Will.IAM lists and a hierarchy of one part.
LEMMA GuardsAreActions ==
  ASSUME NEW g \in Guards
  PROVE  \E a \in Sx!Range(WillIAMActions) : \E rh :
           /\ g = <<WillIAM, a, rh>>
           /\ a = "EditRole" => \E r \in Sx!Range(RoleList) : rh = r.id
<1>1. CASE g \in {<<WillIAM, b, Star>> :
                    b \in {"CreateRoles", "CreateServiceAccounts", "CreateServices"}}
  BY <1>1, NamesAreLists
<1>2. CASE g \in {<<WillIAM, "EditRole", r.id>> : r \in Sx!Range(RoleList)}
  BY <1>2, NamesAreLists
<1>3. CASE g \in {<<WillIAM, "EditServiceAccount", id>> : id \in AccountIds}
  BY <1>3, NamesAreLists
<1>4. CASE g \in {<<WillIAM, "EditService", id>> : id \in ServiceIds}
  BY <1>4, NamesAreLists
<1>5. QED
  BY <1>1, <1>2, <1>3, <1>4 DEF Guards

\* Typing from entry to entry leads to the action of every permission a route
\* demands, of everything or of one role, account or service, and there to
\* the permission for everything, flagged as the routes answer, which lets pass
\* for each; roles are offered one by one too (usecases/am.go:50,
\* api/app.go:174).
THEOREM GuardsAreLedTo == Spec => []ListingLeadsToGuards
<1>1. IInv => ListingLeadsToGuards
  <2> SUFFICES ASSUME IInv, AllWellFormed, NEW g \in Guards
               PROVE  /\ Continues(<<Empty>>, <<WillIAM>>)
                      /\ Continues(<<WillIAM, Empty>>, <<WillIAM, g[2]>>)
                      /\ Completes(<<WillIAM, g[2], Empty>>, <<WillIAM, g[2], Star>>)
                      /\ May(<<WillIAM, g[2], Star>>) => May(g)
                      /\ g[2] = "EditRole" => Completes(<<WillIAM, g[2], Empty>>, g)
    BY DEF ListingLeadsToGuards
  <2>1. Rows(Mine)
    BY MineAreRows
  <2>2. PICK a \in Sx!Range(WillIAMActions) :
          \E rh : /\ g = <<WillIAM, a, rh>>
                  /\ a = "EditRole" => \E r \in Sx!Range(RoleList) : rh = r.id
    BY GuardsAreActions
  <2>3. PICK rh :
          /\ g = <<WillIAM, a, rh>>
          /\ a = "EditRole" => \E r \in Sx!Range(RoleList) : rh = r.id
    BY <2>2
  <2>4. g[2] = a
    BY <2>3, TypedThree
  <2>5. Continues(<<Empty>>, <<WillIAM>>)
    BY <2>1, ServiceOffered, ContinuesBy
  <2>6. Continues(<<WillIAM, Empty>>, <<WillIAM, a>>)
    BY <2>1, ActionOffered, ContinuesBy
  <2>7. Completes(<<WillIAM, a, Empty>>, <<WillIAM, a, Star>>)
    BY <2>1, HierarchyOffered, CompletesBy
  <2>8. May(<<WillIAM, a, Star>>) => May(g)
    BY <2>3, AllLetsPass DEF May
  <2>9. a = "EditRole" => Completes(<<WillIAM, a, Empty>>, g)
    BY <2>1, <2>3, HierarchyOffered, CompletesBy
  <2>10. QED
    BY <2>4, <2>5, <2>6, <2>7, <2>8, <2>9
<1>2. QED
  BY <1>1, Reachable, PTL
=============================================================================
