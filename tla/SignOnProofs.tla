---------------------------- MODULE SignOnProofs ----------------------------
(***************************************************************************)
(* Proofs about SignOn, for any number of goroutines and tokens and any    *)
(* clock.  Every step of it is a step of Tokens for Will.IAM, or none, so  *)
(* that what holds of Tokens holds of it.                                  *)
(***************************************************************************)
EXTENDS SignOn, TokensProofs

USE DEF AccessTokens, Time

\* On record, if it is a token at all.
Recorded(a) == a # None => tokens[a] # None

Marked(a) == a # None /\ tokens[a] # None /\ tokens[a].expiredAt # None

\* w has been issued a token.
Fresh(w) == work[w] # None /\ work[w].fresh # None

-----------------------------------------------------------------------------
(* Who has which token *)

\* Nobody has the token issued to w before w is answered, so that nobody
\* supersedes it.
FreshUnknown(w) ==
  Fresh(w) => /\ work[w].fresh <= issued
              /\ ~Marked(work[w].fresh)
              /\ storage # work[w].fresh
              /\ \A s \in Services : held[s] # work[w].fresh
              /\ \A v \in Workers : work[v] # None => work[v].asked # work[w].fresh
              /\ \A v \in Workers \ {w} : Fresh(v) => work[v].fresh # work[w].fresh

\* The token that a request came with is on record,
AskedRecorded(w) == work[w] # None => Recorded(work[w].asked)

\* ... and so is the one that it will be answered with.
AtHand(w) ==
  At(w, "old") \/ At(w, "commit") \/ At(w, "account") \/ At(w, "answer") =>
    /\ Recorded(work[w].fresh)
    /\ work[w].asked # None \/ work[w].fresh # None

Known(w) == FreshUnknown(w) /\ AskedRecorded(w) /\ IssuedOnce(w) /\ AtHand(w)

\* What the browser has is on record.
Handed == Recorded(storage) /\ \A s \in Services : Recorded(held[s])

KInv == /\ IInv /\ SignTypeOK /\ Handed
        /\ \A w \in Workers : Known(w)

-----------------------------------------------------------------------------
(* The session of the front-end s, until it loses an answer *)

Intact(s) == s \notin lost \cup denied

\* w has superseded a, and c is about to be told its successor.
Succeeding(w, a) ==
  /\ Fresh(w) /\ work[w].asked = a
  /\ \/ (At(w, "commit") \/ At(w, "account")) /\ work[w].since <= tokens[a].expiredAt
     \/ At(w, "answer") \/ At(w, "failed")

\* Somebody waits for every answer, and the page asks before there is a
\* session, the front-end when there is one.
Attended(s, w) ==
  /\ work[w] # None => client[w] # None
  /\ client[w] = Sso /\ work[w].asked # None => work[w].asked = storage
  /\ client[w] = s => held[s] # None /\ work[w].asked # None

\* A call comes soon after its token was superseded, if it was, and is never
\* refused.
InTime(s, w) ==
  client[w] = s =>
    /\ At(w, "get") /\ Marked(work[w].asked) =>
         work[w].since <= tokens[work[w].asked].expiredAt + MaxFlight
    /\ ~At(w, "refused")

\* a was superseded, if it was, by a request that is still to be answered.
Succeeded(a) == Marked(a) => /\ now <= tokens[a].expiredAt + MaxFlight
                             /\ \E w \in Workers : Succeeding(w, a)

SessionInv(s) == /\ page # None => held[s] = None
                 /\ \A w \in Workers : Attended(s, w) /\ InTime(s, w)
                 /\ Succeeded(held[s])
                 /\ held[s] = None => Succeeded(storage)

SInv(s) == KInv /\ (Intact(s) => SessionInv(s))

-----------------------------------------------------------------------------
(* A request on its way *)

\* What a step of w on its way, which is none to its arrival or its end, does
\* to the request,
Carried(w) == /\ Only(w) /\ Busy(w) /\ now' = now
              /\ work'[w].asked = work[w].asked
              /\ issued' \in {issued, issued + 1}
              /\ work'[w].fresh # work[w].fresh =>
                   issued' = issued + 1 /\ work'[w].fresh = issued + 1
              /\ IssuedOnce(w)' /\ AtHand(w)'

\* ... to a row on record,
Recording(w, a) == /\ a = work[w].fresh
                   /\ tokens'[a] # None /\ tokens'[a].expiredAt = None

Superseding(w, a) == /\ a = work[w].asked
                     /\ tokens[a] # None /\ tokens'[a] # None
                     /\ Marking(w) /\ tokens'[a].expiredAt = work[w].old.expiredAt
                     /\ At(w, "commit")' /\ Fresh(w)' /\ work'[w].since = work[w].since

Rows(w) == \A a \in AccessTokens :
             tokens'[a] = tokens[a] \/ Recording(w, a) \/ Superseding(w, a)

\* ... and where it leads.
Turns(w) ==
  /\ ~At(w, "get")'
  /\ At(w, "refused")' =>
       work[w].asked = None \/ (At(w, "get") /\ ~Acceptable(tokens[work[w].asked]))
  /\ At(w, "commit") \/ At(w, "account") =>
       \/ At(w, "account")' /\ work'[w].since = work[w].since
       \/ At(w, "answer")' \/ At(w, "failed")'

Effect(w) == Carried(w) /\ Rows(w) /\ Turns(w)

\* The steps that save nothing and end the use of what was read.
LEMMA LeavingEffect ==
  ASSUME IInv, NEW w \in Workers, Busy(w), NEW step \in Ends \cup {"account"}, Leave(w, step),
         tokens' = tokens, now' = now, issued' = issued,
         step \in {"account", "answer"} =>
           Recorded(work[w].fresh) /\ (work[w].asked # None \/ work[w].fresh # None),
         step = "refused" =>
           work[w].asked = None \/ (At(w, "get") /\ ~Acceptable(tokens[work[w].asked])),
         At(w, "commit") \/ At(w, "account") => step \in {"account", "answer", "failed"}
  PROVE  Effect(w)
<1>1. /\ TypeOK /\ work[w] # None /\ step \in Steps \cup Ends /\ issued \in Nat
  BY BoundsAssumption DEF IInv, TypeOK, Busy, Steps
<1>2. /\ Only(w) /\ Same(w) /\ work'[w].step = step
      /\ step \in Steps => work'[w].since = work[w].since
  BY <1>1, LeaveEffect
<1>3. /\ work'[w] # None /\ \A x : At(w, x)' <=> x = step
  BY <1>2, NoneAssumption DEF At, Only
<1>4. Turns(w)
  BY <1>2, <1>3 DEF Turns, Ends, Steps
<1>5. IssuedOnce(w)' /\ AtHand(w)'
  BY <1>2, <1>3 DEF IssuedOnce, AtHand, Recorded, Same, Ends
<1>6. Carried(w)
  BY <1>1, <1>2, <1>5 DEF Carried, Same
<1> QED
  BY <1>4, <1>6 DEF Effect, Rows

\* Those that only go on, saving or not.
LEMMA GoingEffect ==
  ASSUME IInv, NEW w \in Workers, Busy(w), NEW step \in {"begin", "new", "old", "commit"},
         GoTo(w, step), now' = now, issued' = issued,
         step \in {"old", "commit"} =>
           Recorded(work[w].fresh)' /\ (work[w].asked # None \/ work[w].fresh # None),
         ~At(w, "commit"), ~At(w, "account"),
         step = "commit" \/ \A a \in AccessTokens : tokens'[a] = tokens[a] \/ Recording(w, a),
         step = "commit" =>
           \A a \in AccessTokens : \/ tokens'[a] = tokens[a]
                                   \/ /\ a = work[w].asked /\ Marking(w) /\ Fresh(w)
                                      /\ tokens[a] # None /\ tokens'[a] # None
                                      /\ tokens'[a].expiredAt = work[w].old.expiredAt
  PROVE  Effect(w)
<1>1. /\ TypeOK /\ work[w] # None /\ step \in Steps /\ issued \in Nat
  BY BoundsAssumption DEF IInv, TypeOK, Busy, Steps
<1>2. /\ Only(w) /\ Same(w) /\ work'[w].step = step /\ work'[w].since = work[w].since
  BY <1>1, GoToEffect
<1>3. /\ work'[w] # None /\ \A x : At(w, x)' <=> x = step
  BY <1>2, NoneAssumption DEF At, Only
<1>4. Turns(w)
  BY <1>2, <1>3 DEF Turns
<1>5. IssuedOnce(w)' /\ AtHand(w)'
  BY <1>2, <1>3 DEF IssuedOnce, AtHand, Recorded, Same
<1>6. Carried(w)
  BY <1>1, <1>2, <1>5 DEF Carried, Same
<1>7. Rows(w)
  BY <1>2, <1>3 DEF Rows, Superseding, Fresh, Same
<1> QED
  BY <1>4, <1>6, <1>7 DEF Effect

\* A token is issued.
LEMMA IssuingEffect ==
  ASSUME IInv, NEW w \in Workers, Busy(w), NEW t \in Token, Issue(w, t),
         ~At(w, "commit"), ~At(w, "account")
  PROVE  Effect(w)
<1>1. /\ TypeOK /\ work[w] # None /\ issued \in Nat
      /\ tokens' = tokens /\ now' = now /\ issued' = issued + 1
  BY BoundsAssumption DEF IInv, TypeOK, Busy, Issue
<1>2. /\ Only(w) /\ work'[w].step = "info" /\ work'[w].asked = work[w].asked
      /\ work'[w].fresh = issued + 1
  BY <1>1, IssueEffect
<1>3. /\ work'[w] # None /\ \A x : At(w, x)' <=> x = "info"
  BY <1>2, NoneAssumption DEF At, Only
<1>4. Turns(w) /\ IssuedOnce(w)' /\ AtHand(w)'
  BY <1>3 DEF Turns, IssuedOnce, AtHand
<1>5. Carried(w)
  BY <1>1, <1>2, <1>4 DEF Carried
<1> QED
  BY <1>1, <1>4, <1>5 DEF Effect, Rows

LEMMA ServeEffect ==
  ASSUME IInv, NEW w \in Workers, IssuedOnce(w), AtHand(w), Serve(w) \/ Abort(w)
  PROVE  Effect(w)
<1>1. /\ TypeOK /\ RequestInv(w) /\ now \in Nat /\ issued \in Nat
      /\ work[w] # None => work[w] \in Work
  BY BoundsAssumption DEF IInv, TypeOK
<1>2. ASSUME NEW step \in Steps, At(w, step)
      PROVE  Busy(w) /\ \A x : At(w, x) <=> x = step
  BY <1>2 DEF At, Busy
<1>3. CASE GoogleFails(w) \/ GiveUp(w) \/ Abort(w)
  <2>1. Failed(w) /\ \E step \in Steps : At(w, step)
    BY <1>3 DEF GoogleFails, GiveUp, Abort, WantsConnection, Steps
  <2> QED
    BY <1>2, <2>1, LeavingEffect DEF Failed, Ends
<1>4. CASE Exchange(w)
  <2> DEFINE t == [grant |-> issued + 1, expiry |-> now + Lifetime, expiredAt |-> None]
  <2>1. Issue(w, t) /\ Busy(w) /\ ~At(w, "commit") /\ ~At(w, "account")
    BY <1>2, <1>4 DEF Exchange, Steps
  <2>2. t \in Token
    BY <1>1, <2>1, BoundsAssumption, PeriodsAssumption DEF Issue, Token, TypeOK
  <2> QED
    BY <2>1, <2>2, IssuingEffect
<1>5. CASE Get(w)
  <2> DEFINE t == tokens[work[w].asked]
             r == [work[w] EXCEPT !.step = "check", !.old = t]
  <2>1. /\ At(w, "get") /\ Busy(w) /\ work[w] \in Work /\ work[w].asked \in AccessTokens
        /\ work[w].fresh = None /\ ~At(w, "commit") /\ ~At(w, "account")
        /\ tokens' = tokens /\ now' = now /\ issued' = issued
    BY <1>1, <1>2, <1>5 DEF Get, Steps, At, RequestInv, Fields, IssuedOnce
  <2>2. CASE ~Acceptable(t)
    <3>1. Leave(w, "refused")
      BY <1>5, <2>2 DEF Get
    <3> QED
      BY <2>1, <2>2, <3>1, LeavingEffect DEF Ends
  <2>3. CASE Acceptable(t)
    <3>1. t \in Token
      BY <1>1, <2>1, <2>3 DEF Acceptable, TypeOK
    <3>2. /\ r \in Work /\ r.step = "check" /\ r.asked = work[w].asked /\ r.fresh = None
      BY <2>1, <3>1 DEF Work, Steps
    <3>3. work' = [work EXCEPT ![w] = r]
      BY <1>5, <2>3 DEF Get
    <3>4. Only(w) /\ work'[w] = r
      BY <1>1, <3>2, <3>3 DEF Only, TypeOK
    <3> HIDE DEF r
    <3>5. \A x : At(w, x)' <=> x = "check"
      BY <3>2, <3>4, NoneAssumption DEF At
    <3>6. Turns(w) /\ IssuedOnce(w)' /\ AtHand(w)'
      BY <2>1, <3>2, <3>4, <3>5 DEF Turns, IssuedOnce, AtHand
    <3>7. Carried(w)
      BY <1>1, <2>1, <3>2, <3>4, <3>6 DEF Carried
    <3> QED
      BY <2>1, <3>6, <3>7 DEF Effect, Rows
  <2> QED
    BY <2>2, <2>3
<1>6. CASE Keep(w)
  <2>1. /\ At(w, "check") /\ Leave(w, "account")
        /\ tokens' = tokens /\ now' = now /\ issued' = issued
    BY <1>6 DEF Keep
  <2>2. /\ Busy(w) /\ ~At(w, "commit") /\ ~At(w, "account") /\ work[w].fresh = None
        /\ work[w].asked # None
    BY <1>1, <1>2, <2>1, NoneAssumption DEF Steps, IssuedOnce, RequestInv, Fields
  <2> QED
    BY <2>1, <2>2, LeavingEffect DEF Recorded
<1>7. CASE Refresh(w)
  <2> DEFINE t == Renewed(work[w].old)
  <2>1. Issue(w, t) /\ Busy(w) /\ ~At(w, "commit") /\ ~At(w, "account") /\ work[w].old \in Token
    BY <1>1, <1>2, <1>7 DEF Refresh, Steps, RequestInv, Fields
  <2>2. t \in Token
    BY <1>1, <2>1, PeriodsAssumption DEF Token, Renewed
  <2> QED
    BY <2>1, <2>2, IssuingEffect
<1>8. CASE UserInfo(w)
  <2>1. /\ At(w, "info") /\ Busy(w) /\ work[w] \in Work /\ ~At(w, "commit") /\ ~At(w, "account")
        /\ tokens' = tokens /\ now' = now /\ issued' = issued /\ work[w].new \in Token
    BY <1>1, <1>2, <1>8 DEF UserInfo, Steps, At, RequestInv, Fields, Unsaved
  <2>2. CASE GoTo(w, "begin")
    BY <2>1, <2>2, GoingEffect
  <2>3. CASE work[w].asked = None /\ Leave(w, "refused")
    BY <2>1, <2>3, LeavingEffect DEF Ends
  <2>4. CASE /\ work[w].asked = None
             /\ work' = [work EXCEPT ![w].step = "save", ![w].new.expiry = now + Session]
    <3> DEFINE n == [work[w].new EXCEPT !.expiry = now + Session]
               r == [work[w] EXCEPT !.step = "save", !.new = n]
    <3>1. n \in Token
      BY <1>1, <2>1, PeriodsAssumption DEF Token
    <3> HIDE DEF n
    <3>2. /\ r \in Work /\ r.step = "save" /\ r.asked = None /\ r.asked = work[w].asked
          /\ r.fresh = work[w].fresh
      BY <2>1, <2>4, <3>1 DEF Work, Steps
    <3>3. work' = [work EXCEPT ![w] = r]
      BY <2>1, <2>4 DEF n, Work
    <3>4. Only(w) /\ work'[w] = r
      BY <1>1, <3>2, <3>3 DEF Only, TypeOK
    <3> HIDE DEF r
    <3>5. \A x : At(w, x)' <=> x = "save"
      BY <3>2, <3>4, NoneAssumption DEF At
    <3>6. Turns(w) /\ IssuedOnce(w)' /\ AtHand(w)'
      BY <2>1, <3>2, <3>4, <3>5 DEF Turns, IssuedOnce, AtHand
    <3>7. Carried(w)
      BY <1>1, <2>1, <3>2, <3>4, <3>6 DEF Carried
    <3> QED
      BY <2>1, <3>6, <3>7 DEF Effect, Rows
  <2> QED
    BY <1>8, <2>2, <2>3, <2>4 DEF UserInfo
<1>9. CASE Begin(w)
  <2>1. /\ At(w, "begin") /\ GoTo(w, "new")
        /\ tokens' = tokens /\ now' = now /\ issued' = issued
    BY <1>9 DEF Begin
  <2> QED
    BY <1>2, <2>1, GoingEffect DEF Steps
<1>10. ASSUME Unsaved(w), tokens' = Saved(work[w].fresh, work[w].new)
      PROVE  /\ work[w].fresh \in AccessTokens /\ Recording(w, work[w].fresh)
             /\ \A a \in AccessTokens : tokens'[a] = tokens[a] \/ Recording(w, a)
  <2>1. /\ work[w].fresh \in AccessTokens /\ tokens[work[w].fresh] = None
        /\ work[w].new \in Token /\ work[w].new.expiredAt = None
    BY <1>1, <1>10 DEF RequestInv, Fields, NotRecorded
  <2>2. tokens' = [tokens EXCEPT ![work[w].fresh] = work[w].new] /\ work[w].new # None
    BY <1>1, <1>10, <2>1, NoneAssumption DEF Saved, TypeOK
  <2> QED
    BY <1>1, <2>1, <2>2 DEF Recording, TypeOK
<1>11. CASE Save(w)
  <2>1. /\ At(w, "save") /\ Unsaved(w) /\ Leave(w, "account")
        /\ tokens' = Saved(work[w].fresh, work[w].new) /\ now' = now /\ issued' = issued
    BY <1>11 DEF Save, Unsaved
  <2>2. Busy(w) /\ ~At(w, "commit") /\ ~At(w, "account") /\ work[w] # None
    BY <1>2, <2>1 DEF Steps, Busy
  <2>3. /\ Only(w) /\ Same(w) /\ work'[w].step = "account"
    BY <1>1, <2>1, <2>2, LeaveEffect DEF Steps
  <2>4. \A x : At(w, x)' <=> x = "account"
    BY <2>3, NoneAssumption DEF At, Only
  <2>5. /\ Recorded(work[w].fresh)' /\ work'[w].fresh # None
    BY <1>10, <2>1, <2>3, NoneAssumption DEF Recorded, Recording, Same
  <2>6. Turns(w) /\ IssuedOnce(w)' /\ AtHand(w)'
    BY <2>2, <2>4, <2>5 DEF Turns, IssuedOnce, AtHand
  <2>7. Carried(w)
    BY <1>1, <2>1, <2>2, <2>3, <2>6 DEF Carried, Same
  <2> QED
    BY <1>10, <2>1, <2>6, <2>7 DEF Effect, Rows
<1>12. CASE SaveNew(w)
  <2>1. /\ At(w, "new") /\ Unsaved(w) /\ GoTo(w, "old")
        /\ tokens' = Saved(work[w].fresh, work[w].new) /\ now' = now /\ issued' = issued
    BY <1>12 DEF SaveNew, Unsaved
  <2>2. Busy(w) /\ ~At(w, "commit") /\ ~At(w, "account") /\ work[w] # None
    BY <1>2, <2>1 DEF Steps, Busy
  <2>3. Same(w)
    BY <1>1, <2>1, <2>2, GoToEffect DEF Steps
  <2>4. Recorded(work[w].fresh)' /\ work[w].fresh # None
    BY <1>10, <2>1, <2>3, NoneAssumption DEF Recorded, Recording, Same
  <2> QED
    BY <1>10, <2>1, <2>2, <2>4, GoingEffect
<1>13. CASE SaveOld(w)
  <2> DEFINE a == work[w].asked
  <2>1. /\ At(w, "old") /\ GoTo(w, "commit") /\ tokens' = Saved(a, work[w].old)
        /\ now' = now /\ issued' = issued
    BY <1>13 DEF SaveOld
  <2>2. /\ Busy(w) /\ ~At(w, "commit") /\ ~At(w, "account") /\ work[w] # None
    BY <1>2, <2>1 DEF Steps, Busy
  <2>3. Marking(w)
    BY <1>1, <2>1, <2>2 DEF Marking, RequestInv, Fields
  <2>4. /\ a \in AccessTokens /\ tokens[a] # None /\ tokens[a] \in Token
        /\ work[w].fresh # a /\ work[w].fresh \in AccessTokens /\ tokens[work[w].fresh] # None
        /\ work[w].old \in Token
    BY <1>1, <2>1, <2>3 DEF RequestInv, Fields, ReadRecorded, SuccessorRecorded, TypeOK
  <2>5. /\ tokens' = [tokens EXCEPT ![a] = [tokens[a] EXCEPT !.expiredAt = work[w].old.expiredAt]]
    BY <1>1, <2>1, <2>4 DEF Saved, TypeOK
  <2>6. [tokens[a] EXCEPT !.expiredAt = work[w].old.expiredAt] \in Token
    BY <2>4 DEF Token
  <2>7. /\ \A b \in AccessTokens \ {a} : tokens'[b] = tokens[b]
        /\ tokens'[a] # None /\ tokens'[a].expiredAt = work[w].old.expiredAt
    BY <1>1, <2>4, <2>5, <2>6, NoneAssumption DEF Token, TypeOK
  <2>8. Same(w)
    BY <1>1, <2>1, <2>2, GoToEffect DEF Steps
  <2>9. Recorded(work[w].fresh)' /\ work[w].asked # None /\ Fresh(w)
    BY <2>2, <2>3, <2>4, <2>7, <2>8, NoneAssumption DEF Recorded, Same, Marking, Fresh
  <2> QED
    BY <2>1, <2>2, <2>3, <2>4, <2>7, <2>9, GoingEffect
<1>14. CASE Commit(w)
  <2>1. /\ At(w, "commit") /\ Leave(w, "account")
        /\ tokens' = tokens /\ now' = now /\ issued' = issued
    BY <1>14 DEF Commit
  <2> QED
    BY <1>2, <2>1, LeavingEffect DEF Steps, AtHand
<1>15. CASE Account(w)
  <2>1. /\ At(w, "account") /\ Leave(w, "answer")
        /\ tokens' = tokens /\ now' = now /\ issued' = issued
    BY <1>15 DEF Account
  <2> QED
    BY <1>2, <2>1, LeavingEffect DEF Steps, Ends, AtHand
<1> QED
  BY <1>3, <1>4, <1>5, <1>6, <1>7, <1>8, <1>9, <1>11, <1>12, <1>13, <1>14, <1>15 DEF Serve

-----------------------------------------------------------------------------
(* Every step is one of Tokens, or none *)

LEMMA StepOfTokens == TypeOK /\ [SignNext]_signVars => [Next]_vars
<1> SUFFICES ASSUME TypeOK, [SignNext]_signVars PROVE [Next]_vars
  OBVIOUS
<1>1. ASSUME NEW w \in Workers, NEW a, Authenticate(w, a) PROVE Next
  <2>1. a \in AccessTokens
    BY <1>1, BoundsAssumption DEF Authenticate, TypeOK
  <2> QED
    BY <1>1, <2>1 DEF Next
<1>2. ASSUME NEW w \in Workers,
             LogIn(w) \/ Finish(w) \/ Serve(w) \/ Abort(w)
      PROVE  Next
  BY <1>2 DEF Next
<1>3. CASE UNCHANGED signVars \/ Close \/ \E s \in Services : Open(s)
  BY <1>3 DEF signVars, Open, Close
<1>4. CASE Delivered /\ Tick /\ UNCHANGED browser
  BY <1>4 DEF Next
<1>5. ASSUME NEW w \in Workers,
             \/ Validate(w) \/ Consent(w)
             \/ LoginDone(w) \/ LoginFails(w) \/ Validated(w) \/ NotValid(w)
             \/ Discard(w)
             \/ Serve(w) /\ UNCHANGED browser
             \/ Abort(w) /\ UNCHANGED browser
      PROVE  Next
  BY <1>1, <1>2, <1>5 DEF Validate, Consent, LoginDone, LoginFails, Validated, NotValid,
     Discard, Answered
<1>6. ASSUME NEW w \in Workers, NEW s \in Services,
             \/ Call(w, s) \/ Decided(w, s) \/ Unauthorized(w, s) \/ CallFails(w, s)
             \/ TimedOut(w, s)
      PROVE  [Next]_vars
  BY <1>1, <1>2, <1>6 DEF Call, Decided, Unauthorized, CallFails, TimedOut, Answered
<1> QED
  BY <1>3, <1>4, <1>5, <1>6 DEF SignNext

-----------------------------------------------------------------------------
(* Types *)

\* The answer of w has reached its client.
LEMMA AnsweredTypes ==
  ASSUME SignTypeOK, TypeOK, NEW w \in Workers, NEW c, NEW end, Answered(w, c, end)
  PROVE  /\ client' \in [Workers -> Services \cup {Sso, None}]
         /\ client'[w] = None /\ \A v \in Workers \ {w} : client'[v] = client[v]
         /\ work'[w] = None /\ \A v \in Workers \ {w} : Unmoved(v)
         /\ \A v \in Workers : client'[v] # None => work'[v] # None
         /\ \A v \in Workers : client'[v] = Sso => client[v] = Sso
         /\ work[w] # None /\ Answer(w) \in AccessTokens \cup {None}
<1>1. /\ client' = [client EXCEPT ![w] = None]
      /\ work' = [work EXCEPT ![w] = None] /\ work[w] # None
  BY DEF Answered, Waiting, Finish, At
<1>2. /\ client \in [Workers -> Services \cup {Sso, None}] /\ Sso # None
      /\ work \in [Workers -> Work \cup {None}]
  BY ClientsAssumption DEF SignTypeOK, TypeOK
<1>3. Answer(w) \in AccessTokens \cup {None}
  BY <1>1, <1>2 DEF Answer, Work
<1> QED
  BY <1>1, <1>2, <1>3 DEF SignTypeOK, Unmoved

LEMMA SignTypes == TypeOK /\ SignTypeOK /\ (\A w \in Workers : Serve(w) \/ Abort(w) => Only(w))
                     /\ [SignNext]_signVars => SignTypeOK'
<1> SUFFICES ASSUME TypeOK, SignTypeOK, [SignNext]_signVars,
                    \A w \in Workers : Serve(w) \/ Abort(w) => Only(w)
             PROVE  SignTypeOK'
  OBVIOUS
<1> DEFINE Types(st, pg, hd, lo, de) ==
             /\ st \in AccessTokens \cup {None} /\ pg \in Page \cup {None}
             /\ hd \in [Services -> AccessTokens \cup {None}]
             /\ lo \subseteq Services /\ de \subseteq Services
           Served == \A w \in Workers : client[w] # None => work[w] # None
           OnePage == \A v, w \in Workers : client[v] = Sso /\ client[w] = Sso => v = w
           Waits == (page # None /\ page.step = "wait") <=> \E w \in Workers : client[w] = Sso
<1>1. /\ Types(storage, page, held, lost, denied) /\ Served /\ OnePage /\ Waits
      /\ client \in [Workers -> Services \cup {Sso, None}]
      /\ Sso \notin Services /\ None \notin Services /\ Sso # None /\ None \notin Page
      /\ work \in [Workers -> Work \cup {None}] /\ None \notin AccessTokens
      /\ issued \in Nat /\ issued <= MaxTokens
  BY ClientsAssumption, BoundsAssumption, NoneAssumption DEF SignTypeOK, TypeOK
<1>2. ASSUME Types(storage', page', held', lost', denied'), Served', OnePage', Waits',
             client' \in [Workers -> Services \cup {Sso, None}]
      PROVE  SignTypeOK'
  BY <1>2 DEF SignTypeOK
<1>3. ASSUME NEW s \in Services, NEW a
      PROVE  /\ Shown(s, a) \in Page /\ Shown(s, a).step # "wait"
             /\ ToGoogle(s) \in Page /\ ToGoogle(s).step # "wait"
  BY DEF Shown, ToGoogle, Page
<1>4. CASE UNCHANGED signVars
  BY <1>1, <1>4 DEF SignTypeOK, signVars, vars, browser
<1>5. ASSUME NEW s \in Services, Open(s) PROVE SignTypeOK'
  <2>1. /\ page' \in Page /\ page'.step # "wait" /\ client' = client /\ work' = work
        /\ storage' = storage /\ held' = held /\ lost' = lost /\ denied' = denied /\ page = None
    BY <1>3, <1>5 DEF Open, vars
  <2> QED
    BY <1>1, <1>2, <2>1
<1>6. CASE Close
  <2>1. /\ page' = None /\ work' = work /\ page \in Page
        /\ storage' = storage /\ held' = held /\ lost' = lost \cup {page.back} /\ denied' = denied
        /\ client' = [v \in Workers |-> IF client[v] = Sso THEN None ELSE client[v]]
    BY <1>1, <1>6 DEF Close, vars
  <2>2. \A v \in Workers : /\ client'[v] # Sso
                           /\ client'[v] # None => client[v] # None
    BY <1>1, <2>1
  <2>3. /\ Types(storage', page', held', lost', denied')
        /\ client' \in [Workers -> Services \cup {Sso, None}]
    BY <1>1, <2>1 DEF Page
  <2>4. Served' /\ OnePage' /\ Waits'
    BY <1>1, <2>1, <2>2
  <2> QED
    BY <1>2, <2>3, <2>4
<1>7. ASSUME NEW w \in Workers, NEW r \in Work, work[w] = None, work' = [work EXCEPT ![w] = r],
             NEW c \in Services \cup {Sso}, client' = [client EXCEPT ![w] = c]
      PROVE  /\ client' \in [Workers -> Services \cup {Sso, None}] /\ Served'
             /\ client'[w] = c /\ \A v \in Workers \ {w} : client'[v] = client[v]
             /\ client[w] = None
  <2>1. work'[w] = r /\ r # None /\ \A v \in Workers \ {w} : work'[v] = work[v]
    BY <1>1, <1>7, NoneAssumption
  <2>2. /\ client' \in [Workers -> Services \cup {Sso, None}]
        /\ client'[w] = c /\ \A v \in Workers \ {w} : client'[v] = client[v]
    BY <1>1, <1>7
  <2> QED
    BY <1>1, <1>7, <2>1, <2>2
<1>8. ASSUME NEW w \in Workers, Validate(w) \/ Consent(w) PROVE SignTypeOK'
  <2>1. PICK r \in Work : work[w] = None /\ work' = [work EXCEPT ![w] = r]
    <3>1. Blank \in Work
      BY DEF Blank, Work, Steps, TypeOK
    <3>2. CASE Consent(w)
      BY <1>8, <3>1, <3>2 DEF Consent, LogIn, Arrive
    <3>3. CASE Validate(w)
      <4>1. storage \in AccessTokens /\ Arrive(w, [Blank EXCEPT !.step = "get", !.asked = storage])
        BY <1>1, <3>3, BoundsAssumption DEF Validate, Authenticate
      <4>2. [Blank EXCEPT !.step = "get", !.asked = storage] \in Work
        BY <3>1, <4>1 DEF Work, Steps
      <4> QED
        BY <4>1, <4>2 DEF Arrive
    <3> QED
      BY <1>8, <3>2, <3>3
  <2>2. /\ page \in Page /\ page.step # "wait" /\ page' = [page EXCEPT !.step = "wait"]
        /\ client' = [client EXCEPT ![w] = Sso]
        /\ storage' = storage /\ held' = held /\ lost' = lost /\ denied' = denied
    BY <1>1, <1>8 DEF Validate, Consent, Waiting
  <2>3. /\ client' \in [Workers -> Services \cup {Sso, None}] /\ Served'
        /\ client'[w] = Sso /\ \A v \in Workers \ {w} : client'[v] = client[v]
    BY <1>7, <2>1, <2>2
  <2>4. page' \in Page /\ page'.step = "wait"
    BY <2>2 DEF Page
  <2>5. \A v \in Workers : client[v] # Sso
    BY <1>1, <2>2
  <2>6. OnePage' /\ Waits'
    BY <1>1, <2>3, <2>4, <2>5
  <2> QED
    BY <1>1, <1>2, <2>2, <2>3, <2>4, <2>6
<1>9. ASSUME NEW w \in Workers, NEW s \in Services, Call(w, s) PROVE SignTypeOK'
  <2>1. PICK r \in Work : work[w] = None /\ work' = [work EXCEPT ![w] = r]
    <3>1. Blank \in Work
      BY DEF Blank, Work, Steps, TypeOK
    <3>2. /\ held[s] \in AccessTokens
          /\ Arrive(w, [Blank EXCEPT !.step = "get", !.asked = held[s]])
      BY <1>1, <1>9, BoundsAssumption DEF Call, Authenticate
    <3>3. [Blank EXCEPT !.step = "get", !.asked = held[s]] \in Work
      BY <3>1, <3>2 DEF Work, Steps
    <3> QED
      BY <3>2, <3>3 DEF Arrive
  <2>2. /\ client' = [client EXCEPT ![w] = s] /\ page' = page
        /\ storage' = storage /\ held' = held /\ lost' = lost /\ denied' = denied
    BY <1>9 DEF Call, Waiting
  <2>3. /\ client' \in [Workers -> Services \cup {Sso, None}] /\ Served'
        /\ client'[w] = s /\ client[w] = None
        /\ \A v \in Workers \ {w} : client'[v] = client[v]
    BY <1>7, <2>1, <2>2
  <2>4. \A v \in Workers : client'[v] = Sso <=> client[v] = Sso
    BY <1>1, <2>3
  <2>5. OnePage' /\ Waits'
    BY <1>1, <2>2, <2>4
  <2> QED
    BY <1>1, <1>2, <2>2, <2>3, <2>5
<1>10. ASSUME NEW w \in Workers, LoginDone(w) \/ LoginFails(w) \/ Validated(w) \/ NotValid(w)
      PROVE  SignTypeOK'
  <2>1. PICK end : Answered(w, Sso, end)
    BY <1>10 DEF LoginDone, LoginFails, Validated, NotValid
  <2>2. /\ client' \in [Workers -> Services \cup {Sso, None}]
        /\ client'[w] = None /\ \A v \in Workers \ {w} : client'[v] = client[v]
        /\ Served' /\ Answer(w) \in AccessTokens \cup {None}
    BY <2>1, AnsweredTypes
  <2>3. client[w] = Sso /\ page \in Page /\ page.back \in Services
    BY <1>1, <2>1 DEF Answered, Page
  <2>4. \A v \in Workers : client'[v] # Sso
    BY <1>1, <2>2, <2>3
  <2>5. /\ page' = None \/ (page' \in Page /\ page'.step # "wait")
    BY <1>3, <1>10, <2>3 DEF LoginDone, LoginFails, Validated, NotValid
  <2>6. /\ storage' \in {storage, Answer(w)} /\ denied' = denied
        /\ lost' \in {lost, lost \cup {page.back}}
        /\ held' = held \/ held' = [held EXCEPT ![page.back] = Answer(w)]
    BY <1>10 DEF LoginDone, LoginFails, Validated, NotValid
  <2>7. Types(storage', page', held', lost', denied')
    BY <1>1, <2>2, <2>3, <2>5, <2>6
  <2>8. OnePage' /\ Waits'
    BY <1>1, <2>4, <2>5
  <2> QED
    BY <1>2, <2>2, <2>7, <2>8
<1>11. ASSUME NEW w \in Workers, NEW s \in Services,
              Decided(w, s) \/ Unauthorized(w, s) \/ CallFails(w, s)
       PROVE  SignTypeOK'
  <2>1. PICK end : Answered(w, s, end)
    BY <1>11 DEF Decided, Unauthorized, CallFails
  <2>2. /\ client' \in [Workers -> Services \cup {Sso, None}]
        /\ client'[w] = None /\ \A v \in Workers \ {w} : client'[v] = client[v]
        /\ Served' /\ Answer(w) \in AccessTokens \cup {None}
    BY <2>1, AnsweredTypes
  <2>3. \A v \in Workers : client'[v] = Sso <=> client[v] = Sso
    BY <1>1, <2>1, <2>2 DEF Answered
  <2>4. /\ storage' = storage /\ page' = page
        /\ denied' \in {denied, denied \cup {s}} /\ lost' \in {lost, lost \cup {s}}
        /\ \/ held' = held \/ held' = [held EXCEPT ![s] = Answer(w)]
           \/ held' = [held EXCEPT ![s] = None]
    BY <1>11 DEF Decided, Unauthorized, CallFails
  <2>5. Types(storage', page', held', lost', denied')
    BY <1>1, <2>2, <2>4
  <2>6. OnePage' /\ Waits'
    BY <1>1, <2>3, <2>4
  <2> QED
    BY <1>2, <2>2, <2>5, <2>6
<1>12. ASSUME NEW w \in Workers, NEW s \in Services, TimedOut(w, s) PROVE SignTypeOK'
  <2>1. /\ client[w] = s /\ client' = [client EXCEPT ![w] = None] /\ lost' = lost \cup {s}
        /\ work' = work /\ storage' = storage /\ page' = page /\ held' = held
        /\ denied' = denied
    BY <1>12 DEF TimedOut, Waiting, vars
  <2>2. /\ client' \in [Workers -> Services \cup {Sso, None}]
        /\ \A v \in Workers : client'[v] = Sso <=> client[v] = Sso
        /\ \A v \in Workers : client'[v] # None => client[v] # None
    BY <1>1, <2>1
  <2>3. Types(storage', page', held', lost', denied')
    BY <1>1, <2>1
  <2>4. Served' /\ OnePage' /\ Waits'
    BY <1>1, <2>1, <2>2
  <2> QED
    BY <1>2, <2>2, <2>3, <2>4
<1>13. ASSUME NEW w \in Workers, Discard(w) PROVE SignTypeOK'
  <2>1. /\ client[w] = None /\ work' = [work EXCEPT ![w] = None]
        /\ UNCHANGED <<storage, page, held, client, lost, denied>>
    BY <1>13 DEF Discard, Finish, browser
  <2>2. Served'
    BY <1>1, <2>1
  <2> QED
    BY <1>1, <1>2, <2>1, <2>2
<1>14. ASSUME NEW w \in Workers, Serve(w) \/ Abort(w), UNCHANGED browser PROVE SignTypeOK'
  <2>1. Only(w) /\ UNCHANGED <<storage, page, held, client, lost, denied>>
    BY <1>14 DEF browser
  <2>2. Served'
    BY <1>1, <2>1, NoneAssumption DEF Only
  <2> QED
    BY <1>1, <1>2, <2>1, <2>2
<1>15. CASE Tick /\ UNCHANGED browser
  BY <1>1, <1>15 DEF SignTypeOK, Tick, browser
<1> QED
  BY <1>4, <1>5, <1>6, <1>8, <1>9, <1>10, <1>11, <1>12, <1>13, <1>14, <1>15 DEF SignNext

-----------------------------------------------------------------------------
(* Who has which token, step by step *)

\* What is on record stays.
RecordsStay == \A a \in AccessTokens : tokens[a] # None => tokens'[a] # None

AllKnown == Handed /\ \A w \in Workers : Known(w)

\* What KInv says of numbers.
LEMMA Numbers ==
  ASSUME KInv
  PROVE  /\ TypeOK /\ issued \in Nat /\ None \notin AccessTokens /\ None \notin Nat
         /\ \A a \in AccessTokens : tokens[a] # None => a <= issued
         /\ storage \in AccessTokens \cup {None}
         /\ \A s \in Services : held[s] \in AccessTokens \cup {None}
         /\ \A w \in Workers : work[w] # None =>
              /\ work[w] \in Work
              /\ work[w].asked \in AccessTokens \cup {None}
              /\ work[w].fresh \in AccessTokens \cup {None}
BY BoundsAssumption, NoneAssumption
   DEF KInv, IInv, TypeOK, RecordedIssued, SignTypeOK, Work

LEMMA ServeKnown ==
  ASSUME KInv, NEW w \in Workers, Effect(w), UNCHANGED browser
  PROVE  AllKnown'
<1>1. /\ TypeOK /\ issued \in Nat /\ None \notin AccessTokens /\ None \notin Nat
      /\ \A a \in AccessTokens : tokens[a] # None => a <= issued
      /\ storage \in AccessTokens \cup {None}
      /\ \A s \in Services : held[s] \in AccessTokens \cup {None}
      /\ \A v \in Workers : work[v] # None =>
           /\ work[v] \in Work
           /\ work[v].asked \in AccessTokens \cup {None}
           /\ work[v].fresh \in AccessTokens \cup {None}
  BY Numbers
<1>2. /\ storage' = storage /\ held' = held
      /\ work[w] # None /\ work'[w] # None
      /\ \A v \in Workers \ {w} : work'[v] = work[v]
      /\ work'[w].asked = work[w].asked /\ issued' \in {issued, issued + 1}
      /\ \/ work'[w].fresh = work[w].fresh
         \/ issued' = issued + 1 /\ work'[w].fresh = issued + 1
  BY NoneAssumption DEF browser, Effect, Carried, Only, Busy
<1>3. RecordsStay
  BY DEF RecordsStay, Effect, Rows, Recording, Superseding
<1>4. Handed' /\ \A v \in Workers : AskedRecorded(v)'
  BY <1>1, <1>2, <1>3 DEF KInv, Handed, Known, AskedRecorded, Recorded, RecordsStay
<1>5. ASSUME NEW v \in Workers, Fresh(v)', work'[v].fresh = work[v].fresh
      PROVE  FreshUnknown(v)'
  <2> DEFINE f == work[v].fresh
  <2>1. /\ Fresh(v) /\ f \in AccessTokens /\ f <= issued /\ ~Marked(f)
        /\ storage # f /\ \A s \in Services : held[s] # f
        /\ \A u \in Workers : work[u] # None => work[u].asked # f
        /\ \A u \in Workers \ {v} : Fresh(u) => work[u].fresh # f
    BY <1>1, <1>2, <1>5 DEF KInv, Known, FreshUnknown, Fresh
  <2>2. f <= issued' 
    <3>1. f \in Nat
      BY <2>1
    <3> QED
      BY <1>1, <1>2, <2>1, <3>1
  <2>3. ~(f # None /\ tokens'[f] # None /\ tokens'[f].expiredAt # None)
    <3>1. tokens'[f] = tokens[f] \/ Recording(w, f) \/ f = work[w].asked
      BY <2>1 DEF Effect, Rows, Superseding
    <3> QED
      BY <1>2, <2>1, <3>1 DEF Recording, Marked
  <2>4. \A u \in Workers : work'[u] # None => work'[u].asked # f
    BY <1>2, <2>1
  <2>5. \A u \in Workers \ {v} : Fresh(u)' => work'[u].fresh # f
    <3>1. f # issued + 1
      BY <1>1, <2>1
    <3> QED
      BY <1>2, <2>1, <3>1 DEF Fresh
  <2> QED
    BY <1>2, <1>5, <2>1, <2>2, <2>3, <2>4, <2>5 DEF FreshUnknown, Marked
<1>6. ASSUME issued' = issued + 1, work'[w].fresh = issued + 1, Fresh(w)'
      PROVE  FreshUnknown(w)'
  <2> DEFINE f == issued + 1
  <2>1. \A a \in AccessTokens : tokens[a] # None => a # f
    BY <1>1
  <2>2. /\ storage # f /\ \A s \in Services : held[s] # f
        /\ \A u \in Workers : work[u] # None => work[u].asked # f
    <3>1. f # None
      BY <1>1
    <3> QED
      BY <1>1, <2>1, <3>1 DEF KInv, Known, Handed, AskedRecorded, Recorded
  <2>3. \A u \in Workers : Fresh(u) => work[u].fresh # f
    BY <1>1 DEF KInv, Known, FreshUnknown, Fresh
  <2>4. ~(tokens'[f] # None /\ tokens'[f].expiredAt # None)
    <3>1. f \in AccessTokens
      BY <1>1, <1>2, <1>6, BoundsAssumption DEF Effect, Carried, Only, Work, Fresh
    <3>2. tokens'[f] = tokens[f] \/ Recording(w, f) \/ Superseding(w, f)
      BY <3>1 DEF Effect, Rows
    <3> QED
      BY <2>1, <3>1, <3>2 DEF Recording, Superseding
  <2> QED
    BY <1>1, <1>2, <1>6, <2>2, <2>3, <2>4 DEF FreshUnknown, Marked, Fresh
<1>7. \A v \in Workers : FreshUnknown(v)'
  BY <1>2, <1>5, <1>6 DEF FreshUnknown
<1>8. ASSUME NEW v \in Workers PROVE IssuedOnce(v)' /\ AtHand(v)'
  <2>1. CASE v = w
    BY <2>1 DEF Effect, Carried
  <2>2. CASE v # w
    <3>1. IssuedOnce(v) /\ AtHand(v) /\ work'[v] = work[v]
      BY <1>2, <2>2 DEF KInv, Known
    <3> QED
      BY <1>1, <1>3, <3>1 DEF IssuedOnce, AtHand, At, Recorded, RecordsStay
  <2> QED
    BY <2>1, <2>2
<1> QED
  BY <1>4, <1>7, <1>8 DEF AllKnown, Known

\* A request arrives, with no token or one that the browser has.
LEMMA ArriveKnown ==
  ASSUME KInv, NEW w \in Workers, NEW r \in Work, Arrive(w, r),
         r.fresh = None, r.step \in {"code", "get"},
         r.asked = None \/ r.asked = storage \/ \E s \in Services : held[s] = r.asked,
         storage' = storage, held' = held
  PROVE  AllKnown'
<1>1. TypeOK /\ None \notin AccessTokens
  BY Numbers
<1>2. /\ work[w] = None /\ work'[w] = r /\ tokens' = tokens /\ issued' = issued
      /\ \A v \in Workers \ {w} : work'[v] = work[v]
  BY <1>1 DEF Arrive, TypeOK
<1>3. Recorded(r.asked) /\ Handed
  BY DEF KInv, Handed, Recorded
<1>4. Handed' /\ \A v \in Workers : AskedRecorded(v)'
  BY <1>2, <1>3 DEF KInv, Known, Handed, AskedRecorded, Recorded
<1>5. ~Fresh(w)' /\ \A v \in Workers \ {w} : Fresh(v)' <=> Fresh(v)
  BY <1>2 DEF Fresh
<1>6. \A v \in Workers : FreshUnknown(v)'
  <2> SUFFICES ASSUME NEW v \in Workers \ {w}, Fresh(v) PROVE FreshUnknown(v)'
    BY <1>5 DEF FreshUnknown
  <2> DEFINE f == work[v].fresh
  <2>1. /\ f # None /\ f <= issued /\ ~Marked(f)
        /\ storage # f /\ \A s \in Services : held[s] # f
        /\ \A u \in Workers : work[u] # None => work[u].asked # f
        /\ \A u \in Workers \ {v} : Fresh(u) => work[u].fresh # f
    BY DEF KInv, Known, FreshUnknown, Fresh
  <2> QED
    BY <1>2, <1>5, <2>1 DEF FreshUnknown, Marked
<1>7. \A v \in Workers : IssuedOnce(v)' /\ AtHand(v)'
  BY <1>2 DEF KInv, Known, IssuedOnce, AtHand, At, Recorded
<1> QED
  BY <1>4, <1>6, <1>7 DEF AllKnown, Known

\* w is answered, and perhaps the browser keeps the token of the answer.
LEMMA FinishKnown ==
  ASSUME KInv, NEW w \in Workers, Finish(w),
         storage' = storage \/ (At(w, "answer") /\ storage' = Answer(w)),
         \A s \in Services : \/ held'[s] = held[s] \/ held'[s] = None
                             \/ At(w, "answer") /\ held'[s] = Answer(w)
  PROVE  AllKnown'
<1>1. TypeOK /\ None \notin AccessTokens
  BY Numbers
<1>2. /\ work[w] # None /\ work'[w] = None /\ tokens' = tokens /\ issued' = issued
      /\ \A v \in Workers \ {w} : work'[v] = work[v]
  BY <1>1 DEF Finish, At, TypeOK
<1>3. At(w, "answer") => Recorded(Answer(w))
  BY <1>2 DEF KInv, Known, AtHand, AskedRecorded, Answer, Recorded
<1>4. Handed' /\ \A v \in Workers : AskedRecorded(v)'
  BY <1>2, <1>3 DEF KInv, Known, Handed, AskedRecorded, Recorded
<1>5. ~Fresh(w)' /\ \A v \in Workers \ {w} : Fresh(v)' <=> Fresh(v)
  BY <1>2 DEF Fresh
<1>6. \A v \in Workers : FreshUnknown(v)'
  <2> SUFFICES ASSUME NEW v \in Workers \ {w}, Fresh(v) PROVE FreshUnknown(v)'
    BY <1>5 DEF FreshUnknown
  <2> DEFINE f == work[v].fresh
  <2>1. /\ f # None /\ f <= issued /\ ~Marked(f)
        /\ storage # f /\ \A s \in Services : held[s] # f
        /\ \A u \in Workers : work[u] # None => work[u].asked # f
        /\ \A u \in Workers \ {v} : Fresh(u) => work[u].fresh # f
    BY DEF KInv, Known, FreshUnknown, Fresh
  <2>2. Answer(w) # f
    BY <1>2, <2>1 DEF Answer, Fresh
  <2>3. storage' # f /\ \A s \in Services : held'[s] # f
    BY <2>1, <2>2
  <2> QED
    BY <1>2, <1>5, <2>1, <2>3 DEF FreshUnknown, Marked
<1>7. \A v \in Workers : IssuedOnce(v)' /\ AtHand(v)'
  BY <1>2 DEF KInv, Known, IssuedOnce, AtHand, At, Recorded
<1> QED
  BY <1>4, <1>6, <1>7 DEF AllKnown, Known

\* Nothing happens to the tokens.
LEMMA SameKnown ==
  ASSUME KInv, work' = work, tokens' = tokens, issued' = issued, storage' = storage, held' = held
  PROVE  AllKnown'
BY DEF KInv, AllKnown, Handed, Known, FreshUnknown, AskedRecorded, IssuedOnce, AtHand, At,
   Recorded, Marked, Fresh

LEMMA KInit == SignInit => KInv
<1> SUFFICES ASSUME SignInit PROVE KInv
  OBVIOUS
<1>1. IInv /\ \A w \in Workers : work[w] = None
  BY InitInv DEF SignInit, Init
<1>2. SignTypeOK
  BY <1>1, ClientsAssumption DEF SignInit, SignTypeOK
<1> QED
  BY <1>1, <1>2 DEF SignInit, KInv, Handed, Known, FreshUnknown, AskedRecorded, IssuedOnce,
     AtHand, At, Recorded, Fresh

LEMMA KNext == KInv /\ [SignNext]_signVars => KInv'
<1> SUFFICES ASSUME KInv, [SignNext]_signVars PROVE KInv'
  OBVIOUS
<1>1. /\ TypeOK /\ issued \in Nat /\ None \notin AccessTokens
      /\ \A w \in Workers : work[w] # None =>
              work[w].asked \in AccessTokens \cup {None} /\ work[w].fresh \in AccessTokens \cup {None}
      /\ storage \in AccessTokens \cup {None}
      /\ \A s \in Services : held[s] \in AccessTokens \cup {None}
      /\ held \in [Services -> AccessTokens \cup {None}]
  BY Numbers DEF KInv, SignTypeOK
<1>2. ASSUME NEW w \in Workers, Serve(w) \/ Abort(w) PROVE Effect(w)
  BY <1>2, ServeEffect DEF KInv, Known
<1>3. IInv' /\ SignTypeOK'
  <2>1. IInv'
    BY <1>1, StepOfTokens, NextInv DEF KInv
  <2>2. \A w \in Workers : Serve(w) \/ Abort(w) => Only(w)
    BY <1>2 DEF Effect, Carried
  <2> QED
    BY <1>1, <2>1, <2>2, SignTypes DEF KInv
<1>4. CASE \/ UNCHANGED signVars \/ Close \/ (\E s \in Services : Open(s))
           \/ (Tick /\ UNCHANGED browser)
           \/ \E w \in Workers, s \in Services : TimedOut(w, s)
  <2>1. /\ work' = work /\ tokens' = tokens /\ issued' = issued /\ storage' = storage
        /\ held' = held
    BY <1>4 DEF signVars, vars, browser, Close, Open, Tick, TimedOut
  <2> QED
    BY <2>1, <1>3, SameKnown DEF KInv, AllKnown
<1>5. ASSUME NEW w \in Workers, Serve(w) \/ Abort(w), UNCHANGED browser PROVE KInv'
  BY <1>2, <1>3, <1>5, ServeKnown DEF KInv, AllKnown
<1>6. ASSUME NEW w \in Workers, NEW a \in AccessTokens, Authenticate(w, a),
             a = storage \/ \E s \in Services : held[s] = a,
             storage' = storage, held' = held
      PROVE  KInv'
  <2> DEFINE r == [Blank EXCEPT !.step = "get", !.asked = a]
  <2>1. r \in Work /\ r.step = "get" /\ r.asked = a /\ r.fresh = None
    BY <1>1 DEF Blank, Work, Steps, TypeOK
  <2>2. Arrive(w, r)
    BY <1>6 DEF Authenticate
  <2> HIDE DEF r
  <2>3. AllKnown'
    BY <1>6, <2>1, <2>2, ArriveKnown
  <2> QED
    BY <1>3, <2>3 DEF KInv, AllKnown
<1>7. ASSUME NEW w \in Workers, Validate(w) \/ (\E s \in Services : Call(w, s)) PROVE KInv'
  <2>1. PICK a \in AccessTokens : /\ Authenticate(w, a)
                                  /\ a = storage \/ \E s \in Services : held[s] = a
    <3>1. ASSUME NEW a, Authenticate(w, a) PROVE a \in AccessTokens
      BY <1>1, <3>1, BoundsAssumption DEF Authenticate, TypeOK
    <3>2. CASE Validate(w)
      <4>1. Authenticate(w, storage)
        BY <3>2 DEF Validate
      <4> QED
        BY <3>1, <4>1
    <3>3. CASE \E s \in Services : Call(w, s)
      <4>1. PICK s \in Services : Authenticate(w, held[s])
        BY <3>3 DEF Call
      <4> QED
        BY <3>1, <4>1
    <3> QED
      BY <1>7, <3>2, <3>3
  <2>2. storage' = storage /\ held' = held
    BY <1>7 DEF Validate, Call
  <2> QED
    BY <1>6, <2>1, <2>2
<1>8. ASSUME NEW w \in Workers, Consent(w) PROVE KInv'
  <2>1. /\ Blank \in Work /\ Blank.step = "code" /\ Blank.asked = None /\ Blank.fresh = None
    BY <1>1 DEF Blank, Work, Steps, TypeOK
  <2>2. Arrive(w, Blank) /\ storage' = storage /\ held' = held
    BY <1>8 DEF Consent, LogIn
  <2>3. AllKnown'
    BY <2>1, <2>2, ArriveKnown
  <2> QED
    BY <1>3, <2>3 DEF KInv, AllKnown
<1>9. ASSUME NEW w \in Workers, Finish(w),
             storage' = storage \/ (At(w, "answer") /\ storage' = Answer(w)),
             \A s \in Services : \/ held'[s] = held[s] \/ held'[s] = None
                                 \/ At(w, "answer") /\ held'[s] = Answer(w)
      PROVE  KInv'
  BY <1>3, <1>9, FinishKnown DEF KInv, AllKnown
<1>10. ASSUME NEW w \in Workers,
             \/ LoginDone(w) \/ LoginFails(w) \/ Validated(w) \/ NotValid(w) \/ Discard(w)
             \/ \E s \in Services : Decided(w, s) \/ Unauthorized(w, s) \/ CallFails(w, s)
      PROVE  KInv'
  <2>1. Finish(w)
    BY <1>10 DEF LoginDone, LoginFails, Validated, NotValid, Discard, Decided, Unauthorized,
       CallFails, Answered
  <2>2. storage' = storage \/ (At(w, "answer") /\ storage' = Answer(w))
    BY <1>10 DEF LoginDone, LoginFails, Validated, NotValid, Discard, Decided, Unauthorized,
       CallFails, Answered, browser
  <2>3. \/ held' = held
        \/ At(w, "answer") /\ \E s \in Services : held' = [held EXCEPT ![s] = Answer(w)]
        \/ \E s \in Services : held' = [held EXCEPT ![s] = None]
        \/ At(w, "answer") /\ held' = [held EXCEPT ![page.back] = Answer(w)]
    BY <1>10 DEF LoginDone, LoginFails, Validated, NotValid, Discard, Decided, Unauthorized,
       CallFails, Answered, browser
  <2>4. \A s \in Services : \/ held'[s] = held[s] \/ held'[s] = None
                            \/ At(w, "answer") /\ held'[s] = Answer(w)
    BY <1>1, <2>3
  <2> QED
    BY <1>9, <2>1, <2>2, <2>4
<1> QED
  BY <1>4, <1>5, <1>7, <1>8, <1>10 DEF SignNext

LEMMA KInvariance == SignSpec => []KInv
BY KInit, KNext, PTL DEF SignSpec

\* The page and the front-ends wait only for requests that are served, the
\* page, which the browser shows once, for one at most (api/authentication_handlers.go,
\* assets/sso/index.html, pkg/http/middleware.go).
THEOREM SignTypeCorrect == SignSpec => []SignTypeOK
BY KInvariance, PTL DEF KInv

\* What Will.IAM does for the page and the front-ends is what it does for
\* anybody: the behaviours of SignOn are behaviours of Tokens, whose theorems
\* hold of them.
THEOREM SignOnUsesTokens == SignSpec => Spec
<1>1. SignInit => Init
  BY DEF SignInit
<1>2. KInv /\ [SignNext]_signVars => [Next]_vars
  BY StepOfTokens, Numbers
<1> QED
  BY <1>1, <1>2, KInvariance, PTL DEF SignSpec, Spec

-----------------------------------------------------------------------------
(* The session, step by step *)

\* Will.IAM goes on with a request.
LEMMA ServeSucceeded ==
  ASSUME KInv, NEW w \in Workers, Effect(w), NEW a \in AccessTokens \cup {None}, Succeeded(a)
  PROVE  Succeeded(a)'
<1>1. /\ TypeOK /\ issued \in Nat /\ None \notin AccessTokens /\ None \notin Nat /\ now \in Nat
      /\ work[w] # None /\ work[w].since \in Nat /\ RequestInv(w) /\ Busy(w) /\ now' = now
      /\ \A v \in Workers \ {w} : work'[v] = work[v]
  BY Numbers DEF Effect, Carried, Only, Busy, KInv, IInv, TypeOK, Work
<1>2. SUFFICES ASSUME a # None, a \in AccessTokens, tokens'[a] # None, tokens'[a].expiredAt # None
               PROVE  /\ now' <= tokens'[a].expiredAt + MaxFlight
                      /\ \E v \in Workers : Succeeding(v, a)'
  BY DEF Succeeded, Marked
<1>3. CASE tokens'[a] = tokens[a]
  <2>1. PICK u \in Workers : Succeeding(u, a)
    BY <1>2, <1>3 DEF Succeeded, Marked
  <2>2. Succeeding(u, a)'
    <3>1. CASE u # w
      BY <1>1, <1>3, <2>1, <3>1 DEF Succeeding, Fresh, At
    <3>2. CASE u = w
      <4>1. At(w, "commit") \/ At(w, "account")
        BY <1>1, <2>1, <3>2 DEF Succeeding, Busy, Steps, At
      <4>2. Fresh(w)' /\ work'[w].asked = a
        BY <1>1, <2>1, <3>2, NoneAssumption DEF Succeeding, Fresh, Effect, Carried, Only
      <4> QED
        BY <1>3, <2>1, <3>2, <4>1, <4>2 DEF Succeeding, Effect, Turns, At
    <3> QED
      BY <3>1, <3>2
  <2> QED
    BY <1>1, <1>2, <1>3, <2>2 DEF Succeeded, Marked
<1>4. CASE Superseding(w, a)
  <2>1. /\ Marking(w) /\ tokens'[a].expiredAt = work[w].old.expiredAt /\ At(w, "commit")'
        /\ Fresh(w)' /\ work'[w].since = work[w].since /\ work'[w].asked = a
    BY <1>4 DEF Superseding, Effect, Carried
  <2>2. /\ work[w].old.expiredAt \in Nat /\ work[w].since <= work[w].old.expiredAt
        /\ now <= work[w].since + MaxFlight
    BY <1>1, <2>1 DEF RequestInv, MarkInFlight, InFlight
  <2> QED
    BY <1>1, <2>1, <2>2, PeriodsAssumption DEF Succeeding
<1> QED
  BY <1>2, <1>3, <1>4 DEF Effect, Rows, Recording

\* Nobody who is on the way to supersede the token is touched.
LEMMA StillSucceeded ==
  ASSUME NEW a, Succeeded(a), tokens' = tokens, now' = now,
         \A v \in Workers : Succeeding(v, a) => work'[v] = work[v]
  PROVE  Succeeded(a)'
BY DEF Succeeded, Succeeding, Marked, Fresh, At

\* Time passes.
LEMMA TickSucceeded ==
  ASSUME KInv, Tick, Delivered, NEW a \in AccessTokens \cup {None}, Succeeded(a)
  PROVE  Succeeded(a)'
<1>1. /\ now \in Nat /\ now' = now + 1 /\ tokens' = tokens /\ work' = work /\ TypeOK
  BY DEF Tick, KInv, IInv, TypeOK
<1> SUFFICES ASSUME Marked(a)
             PROVE  /\ now' <= tokens[a].expiredAt + MaxFlight
                    /\ \E v \in Workers : Succeeding(v, a)
  BY <1>1 DEF Succeeded, Succeeding, Marked, Fresh, At
<1>2. PICK u \in Workers : Succeeding(u, a)
  BY DEF Succeeded
<1>3. /\ At(u, "commit") \/ At(u, "account")
      /\ work[u].since <= tokens[a].expiredAt
  BY <1>2 DEF Delivered, Succeeding, Ends
<1>4. now < work[u].since + MaxFlight /\ work[u].since \in Nat
  BY <1>1, <1>3 DEF Tick, At, Ends, TypeOK, Work
<1>5. tokens[a].expiredAt \in Nat
  BY <1>1 DEF Marked, TypeOK, Token
<1> QED
  BY <1>1, <1>2, <1>3, <1>4, <1>5, PeriodsAssumption

\* What a call of s knows when Will.IAM goes on with some request.
LEMMA ServeInTime ==
  ASSUME 2 * MaxFlight < Grace, KInv, NEW s \in Services, NEW w \in Workers, Effect(w),
         client' = client, NEW v \in Workers, InTime(s, v), Attended(s, v)
  PROVE  InTime(s, v)'
<1>1. /\ TypeOK /\ None \notin AccessTokens /\ None \notin Nat /\ now \in Nat
      /\ work[w] # None /\ work[w].since \in Nat /\ RequestInv(w) /\ Busy(w) /\ now' = now
      /\ \A u \in Workers \ {w} : work'[u] = work[u]
      /\ RequestInv(v) /\ AskedRecorded(v)
      /\ work[v] # None => /\ work[v].since \in Nat
                           /\ work[v].asked \in AccessTokens \cup {None}
  BY Numbers DEF Effect, Carried, Only, Busy, KInv, Known, IInv, TypeOK, Work
<1> SUFFICES ASSUME client[v] = s
             PROVE  /\ At(v, "get")' /\ Marked(work[v].asked)' =>
                         work'[v].since <= tokens'[work'[v].asked].expiredAt + MaxFlight
                    /\ ~At(v, "refused")'
  BY DEF InTime
<1>2. CASE v = w
  <2>1. ~At(w, "get")'
    BY DEF Effect, Turns
  <2>2. SUFFICES ASSUME At(w, "get"), ~Acceptable(tokens[work[w].asked]) PROVE FALSE
    <3>1. work[w].asked # None
      BY <1>1, <1>2 DEF InTime, Attended, At
    <3> QED
      BY <1>2, <2>1, <2>2, <3>1 DEF Effect, Turns
  <2> DEFINE t == tokens[work[w].asked]
  <2>3. work[w].asked \in AccessTokens /\ t # None
    BY <1>1, <1>2, <2>2 DEF AskedRecorded, Recorded, RequestInv, Fields
  <2>4. t.expiredAt # None /\ t.expiredAt + Grace <= now /\ t.expiredAt \in Nat
    BY <1>1, <2>2, <2>3 DEF Acceptable, Dead, TypeOK, Token
  <2>5. work[w].since <= t.expiredAt + MaxFlight
    BY <1>1, <1>2, <2>2, <2>3, <2>4 DEF InTime, Marked
  <2>6. now <= work[w].since + MaxFlight
    BY <1>1 DEF RequestInv, InFlight
  <2> QED
    BY <1>1, <2>4, <2>5, <2>6, PeriodsAssumption
<1>3. CASE v # w
  <2>1. work'[v] = work[v]
    BY <1>1, <1>3
  <2>2. ~At(v, "refused")'
    BY <2>1 DEF InTime, At
  <2>3. ASSUME At(v, "get"), Marked(work[v].asked)'
        PROVE  work[v].since <= tokens'[work[v].asked].expiredAt + MaxFlight
    <3> DEFINE a == work[v].asked
    <3>1. a \in AccessTokens /\ tokens'[a] # None /\ tokens'[a].expiredAt # None
      BY <1>1, <2>1, <2>3 DEF RequestInv, Fields, Marked
    <3>2. CASE tokens'[a] = tokens[a]
      BY <1>1, <2>3, <3>1, <3>2 DEF InTime, Marked
    <3>3. CASE Superseding(w, a)
      <4>1. /\ Marking(w) /\ tokens'[a].expiredAt = work[w].old.expiredAt
        BY <3>3 DEF Superseding
      <4>2. /\ work[w].old.expiredAt \in Nat /\ work[w].since <= work[w].old.expiredAt
            /\ now <= work[w].since + MaxFlight
        BY <1>1, <4>1 DEF RequestInv, MarkInFlight, InFlight
      <4>3. work[v].since <= now /\ work[v].since \in Nat
        BY <1>1, <2>3 DEF RequestInv, InFlight, Busy, At, Steps
      <4> QED
        BY <1>1, <4>1, <4>2, <4>3, PeriodsAssumption
    <3> QED
      BY <3>1, <3>2, <3>3 DEF Effect, Rows, Recording
  <2> QED
    BY <2>1, <2>2, <2>3 DEF At
<1> QED
  BY <1>2, <1>3

\* w is answered and c waits for it no more.
LEMMA AnsweredSession ==
  ASSUME KInv, NEW s \in Services, SessionInv(s),
         NEW w \in Workers, NEW c, NEW end, Answered(w, c, end),
         page' # None => held'[s] = None,
         \A v \in Workers \ {w} : /\ client[v] = Sso => storage' = storage
                                  /\ client[v] = s => held'[s] # None,
         Succeeded(held[s])', held'[s] = None => Succeeded(storage)'
  PROVE  SessionInv(s)'
<1>1. /\ client'[w] = None /\ \A v \in Workers \ {w} : client'[v] = client[v]
      /\ work'[w] = None /\ \A v \in Workers \ {w} : work'[v] = work[v]
      /\ tokens' = tokens /\ now' = now /\ Sso # None /\ s # None
  BY AnsweredTypes, ClientsAssumption DEF KInv, IInv, Unmoved, Answered, Finish
<1>2. ASSUME NEW v \in Workers PROVE Attended(s, v)' /\ InTime(s, v)'
  BY <1>1 DEF SessionInv, Attended, InTime, At, Marked
<1> QED
  BY <1>2 DEF SessionInv

\* A request has come from c.
LEMMA ArrivedSession ==
  ASSUME KInv, NEW s \in Services, SessionInv(s),
         NEW w \in Workers, NEW r \in Work, Arrive(w, r), r.since = now,
         NEW c \in {Sso, s}, Waiting(w, c), storage' = storage, held' = held,
         page' # None => held[s] = None,
         \/ c = Sso /\ r.asked \in {None, storage}
         \/ c = s /\ r.asked = held[s] /\ held[s] # None /\ r.step = "get"
  PROVE  SessionInv(s)'
<1>1. /\ TypeOK /\ None \notin AccessTokens /\ now \in Nat
      /\ \A a \in AccessTokens : tokens[a] # None => tokens[a].expiredAt \in Nat \cup {None}
      /\ held[s] \in AccessTokens \cup {None} /\ client \in [Workers -> Services \cup {Sso, None}]
      /\ Sso # None /\ s # None /\ Sso # s
  BY Numbers, ClientsAssumption DEF KInv, IInv, SignTypeOK, TypeOK, Token
<1>2. /\ work[w] = None /\ work'[w] = r /\ tokens' = tokens /\ now' = now
      /\ \A v \in Workers \ {w} : work'[v] = work[v] /\ client'[v] = client[v]
      /\ client'[w] = c
  BY <1>1 DEF Arrive, TypeOK, Waiting
<1>3. ASSUME NEW v \in Workers \ {w} PROVE Attended(s, v)' /\ InTime(s, v)'
  BY <1>2 DEF SessionInv, Attended, InTime, At, Marked
<1>4. Attended(s, w)'
  BY <1>1, <1>2 DEF Attended
<1>5. InTime(s, w)'
  <2> SUFFICES ASSUME c = s
               PROVE  /\ Marked(held[s]) => now <= tokens[held[s]].expiredAt + MaxFlight
                      /\ r.step # "refused"
    BY <1>1, <1>2 DEF InTime, At, Marked
  <2> QED
    BY <1>1 DEF SessionInv, Succeeded
<1>6. ASSUME NEW a, Succeeded(a) PROVE Succeeded(a)'
  <2>1. \A v \in Workers : Succeeding(v, a) => work'[v] = work[v]
    BY <1>2 DEF Succeeding, Fresh
  <2> QED
    BY <1>2, <1>6, <2>1, StillSucceeded
<1>7. Succeeded(held[s])' /\ (held'[s] = None => Succeeded(storage)')
  <2>1. Succeeded(held[s]) /\ (held[s] = None => Succeeded(storage))
    BY DEF SessionInv
  <2>2. PICK h, st : h = held[s] /\ st = storage
    OBVIOUS
  <2>3. Succeeded(h)' /\ (held[s] = None => Succeeded(st)')
    BY <1>6, <2>1, <2>2
  <2> QED
    BY <2>2, <2>3 DEF Succeeded, Succeeding, Marked
<1> QED
  BY <1>3, <1>4, <1>5, <1>7 DEF SessionInv

LEMMA SessionStep ==
  ASSUME 2 * MaxFlight < Grace, NEW s \in Services, Services = {s},
         KInv, SessionInv(s), [SignNext]_signVars, Intact(s)'
  PROVE  SessionInv(s)'
<1>1. /\ TypeOK /\ SignTypeOK /\ None \notin AccessTokens /\ Sso # None /\ s # None /\ Sso # s
      /\ storage \in AccessTokens \cup {None}
      /\ held \in [Services -> AccessTokens \cup {None}]
      /\ held[s] \in AccessTokens \cup {None}
      /\ None \notin Page /\ (page # None => page.back = s)
  BY Numbers, ClientsAssumption DEF KInv, SignTypeOK, Page
<1>2. /\ page # None => held[s] = None
      /\ \A w \in Workers : Attended(s, w) /\ InTime(s, w)
      /\ Succeeded(held[s]) /\ (held[s] = None => Succeeded(storage))
  BY DEF SessionInv
<1>3. ASSUME NEW a, held'[s] = a, Succeeded(a)' PROVE Succeeded(held[s])'
  BY <1>3 DEF Succeeded, Succeeding, Marked
<1>4. ASSUME NEW a, storage' = a, Succeeded(a)' PROVE Succeeded(storage)'
  BY <1>4 DEF Succeeded, Succeeding, Marked
<1>5. ASSUME storage' = storage, held' = held,
             \A a \in AccessTokens \cup {None} : Succeeded(a) => Succeeded(a)'
      PROVE  Succeeded(held[s])' /\ (held'[s] = None => Succeeded(storage)')
  <2>1. PICK h, st \in AccessTokens \cup {None} : h = held[s] /\ st = storage
    BY <1>1
  <2>2. Succeeded(h)' /\ (held[s] = None => Succeeded(st)')
    BY <1>2, <1>5, <2>1
  <2>3. held'[s] = h /\ storage' = st
    BY <1>5, <2>1
  <2> QED
    BY <1>3, <1>4, <1>5, <2>2, <2>3
\* Steps that the browser has no part in, or only the page.
<1>6. ASSUME work' = work, tokens' = tokens, storage' = storage, held' = held, client' = client,
             page' # None => held[s] = None,
             \A a \in AccessTokens \cup {None} : Succeeded(a) => Succeeded(a)'
      PROVE  SessionInv(s)'
  <2>1. \A w \in Workers : Attended(s, w)' /\ InTime(s, w)'
    BY <1>2, <1>6 DEF Attended, InTime, At, Marked
  <2> QED
    BY <1>5, <1>6, <2>1 DEF SessionInv
<1>7. CASE UNCHANGED signVars
  BY <1>2, <1>6, <1>7, StillSucceeded DEF signVars, vars, browser
<1>8. ASSUME NEW z \in Services, Open(z) PROVE SessionInv(s)'
  <2>1. /\ work' = work /\ tokens' = tokens /\ now' = now /\ storage' = storage
        /\ held' = held /\ client' = client /\ held[s] = None
    BY <1>8 DEF Open, vars
  <2> QED
    BY <1>6, <2>1, StillSucceeded
<1>9. CASE Delivered /\ Tick /\ UNCHANGED browser
  <2>1. /\ work' = work /\ tokens' = tokens /\ storage' = storage
        /\ held' = held /\ client' = client /\ page' = page
    BY <1>9 DEF Tick, browser
  <2> QED
    BY <1>2, <1>6, <1>9, <2>1, TickSucceeded
<1>10. ~Close /\ \A w \in Workers, z \in Services : ~TimedOut(w, z)
  <2>1. s \notin lost'
    BY DEF Intact
  <2>2. ~Close
    BY <1>1, <2>1 DEF Close
  <2>3. \A w \in Workers : ~TimedOut(w, s)
    BY <2>1 DEF TimedOut
  <2> QED
    BY <2>2, <2>3
<1>11. ASSUME NEW w \in Workers, Serve(w) \/ Abort(w), UNCHANGED browser PROVE SessionInv(s)'
  <2>1. Effect(w) /\ storage' = storage /\ held' = held /\ client' = client /\ page' = page
    BY <1>11, ServeEffect DEF KInv, Known, browser
  <2>2. \A v \in Workers : InTime(s, v)'
    BY <1>2, <2>1, ServeInTime
  <2>3. ASSUME NEW v \in Workers PROVE Attended(s, v)'
    <3>1. /\ work'[v] # None => work[v] # None
          /\ work[v] # None => work'[v].asked = work[v].asked
          /\ work[v] = None => work'[v] = None
      BY <2>1 DEF Effect, Carried, Only, Busy
    <3>2. client[v] # None => work[v] # None
      BY <1>1 DEF SignTypeOK
    <3> QED
      BY <1>1, <1>2, <2>1, <3>1, <3>2 DEF Attended
  <2>4. \A a \in AccessTokens \cup {None} : Succeeded(a) => Succeeded(a)'
    BY <2>1, ServeSucceeded
  <2> QED
    BY <1>2, <1>5, <2>1, <2>2, <2>3, <2>4 DEF SessionInv
\* Requests that come,
<1>12. Blank \in Work /\ Blank.since = now /\ Blank.asked = None
  BY <1>1 DEF Blank, Work, Steps, TypeOK
<1>13. ASSUME NEW a \in AccessTokens, NEW w \in Workers, Authenticate(w, a)
       PROVE  \E r \in Work : Arrive(w, r) /\ r.since = now /\ r.asked = a /\ r.step = "get"
  <2> DEFINE r == [Blank EXCEPT !.step = "get", !.asked = a]
  <2>1. r \in Work /\ r.since = now /\ r.asked = a /\ r.step = "get"
    BY <1>1 DEF Blank, Work, Steps, TypeOK
  <2>2. Arrive(w, r)
    BY <1>13 DEF Authenticate
  <2> QED
    BY <2>1, <2>2
<1>14. ASSUME NEW w \in Workers, Consent(w) PROVE SessionInv(s)'
  <2>1. /\ Arrive(w, Blank) /\ Waiting(w, Sso) /\ storage' = storage /\ held' = held
        /\ held[s] = None
    BY <1>2, <1>14 DEF Consent, LogIn
  <2> QED
    BY <1>12, <2>1, ArrivedSession
<1>15. ASSUME NEW w \in Workers, Validate(w) PROVE SessionInv(s)'
  <2>1. /\ Authenticate(w, storage) /\ Waiting(w, Sso) /\ storage' = storage /\ held' = held
        /\ held[s] = None
    BY <1>2, <1>15 DEF Validate
  <2>2. storage \in AccessTokens
    BY <1>1, <2>1, BoundsAssumption, NoneAssumption DEF Authenticate
  <2>3. PICK r \in Work : Arrive(w, r) /\ r.since = now /\ r.asked = storage
    BY <1>13, <2>1, <2>2
  <2> QED
    BY <2>1, <2>3, ArrivedSession
<1>16. ASSUME NEW w \in Workers, NEW z \in Services, Call(w, z) PROVE SessionInv(s)'
  <2>1. /\ Authenticate(w, held[s]) /\ Waiting(w, s) /\ storage' = storage /\ held' = held
        /\ held[s] # None /\ page' = page
    BY <1>16 DEF Call
  <2>2. held[s] \in AccessTokens
    BY <1>1, <2>1
  <2>3. PICK r \in Work : Arrive(w, r) /\ r.since = now /\ r.asked = held[s] /\ r.step = "get"
    BY <1>13, <2>1, <2>2
  <2> QED
    BY <1>2, <2>1, <2>3, ArrivedSession
\* ... and answers.
<1>17. ASSUME NEW w \in Workers, NEW c, NEW end, Answered(w, c, end)
       PROVE  /\ tokens' = tokens /\ now' = now /\ work[w] # None
              /\ \A v \in Workers \ {w} : work'[v] = work[v]
              /\ \A a : Succeeded(a) /\ ~Succeeding(w, a) => Succeeded(a)'
              /\ \A a : ~Marked(a) => Succeeded(a)'
              /\ Fresh(w) => ~Marked(work[w].fresh) /\ work[w].asked # work[w].fresh
              /\ ~Fresh(w) => Answer(w) = work[w].asked
              /\ Fresh(w) => Answer(w) = work[w].fresh
              /\ ~Fresh(w) => \A a : ~Succeeding(w, a)
  <2>1. /\ tokens' = tokens /\ now' = now /\ work[w] # None
        /\ \A v \in Workers \ {w} : work'[v] = work[v]
    BY <1>17, AnsweredTypes, <1>1 DEF Unmoved, Answered, Finish
  <2>2. ASSUME NEW a, Succeeded(a), ~Succeeding(w, a) PROVE Succeeded(a)'
    <3>1. \A v \in Workers : Succeeding(v, a) => work'[v] = work[v]
      BY <2>1, <2>2
    <3> QED
      BY <2>1, <2>2, <3>1, StillSucceeded
  <2>3. \A a : ~Marked(a) => Succeeded(a)'
    BY <2>1 DEF Succeeded, Marked
  <2>4. Fresh(w) => ~Marked(work[w].fresh) /\ work[w].asked # work[w].fresh
    BY <2>1 DEF KInv, Known, FreshUnknown
  <2> QED
    BY <2>1, <2>2, <2>3, <2>4 DEF Fresh, Answer, Succeeding
<1>18. ASSUME NEW w \in Workers, client[w] = Sso
       PROVE  /\ page # None /\ page.back = s /\ held[s] = None /\ Succeeded(storage)
              /\ \A v \in Workers \ {w} : client[v] # Sso /\ client[v] # s
  <2>1. page # None /\ \A v \in Workers \ {w} : client[v] # Sso
    BY <1>1, <1>18 DEF SignTypeOK
  <2>2. held[s] = None /\ page.back = s /\ Succeeded(storage)
    BY <1>1, <1>2, <2>1
  <2>3. \A v \in Workers : client[v] # s
    BY <1>2, <2>2 DEF Attended
  <2> QED
    BY <2>1, <2>2, <2>3
<1>19. ASSUME NEW w \in Workers, LoginDone(w) PROVE SessionInv(s)'
  <2>1. /\ Answered(w, Sso, "answer") /\ work[w].asked = None /\ storage' = Answer(w)
        /\ held' = held /\ client[w] = Sso /\ At(w, "answer")
    BY <1>19 DEF LoginDone, Answered
  <2>2. Fresh(w)
    <3>1. AtHand(w) /\ work[w] # None
      BY <1>17, <2>1 DEF KInv, Known
    <3> QED
      BY <2>1, <3>1 DEF AtHand, Fresh
  <2>3. Succeeded(storage)'
    <3>1. PICK f : f = work[w].fresh
      OBVIOUS
    <3>2. Succeeded(f)' /\ storage' = f
      BY <1>17, <2>1, <2>2, <3>1
    <3> QED
      BY <1>4, <3>2
  <2>4. Succeeded(held[s])'
    BY <1>18, <2>1 DEF Succeeded, Marked
  <2> QED
    BY <1>18, <2>1, <2>3, <2>4, AnsweredSession
\* The page goes on with no session and the token it has.
<1>20. ASSUME NEW w \in Workers, NEW end, Answered(w, Sso, end), storage' = storage,
              held' = held, ~Succeeding(w, storage)
       PROVE  SessionInv(s)'
  <2>1. client[w] = Sso
    BY <1>20 DEF Answered
  <2>2. Succeeded(storage)'
    <3>1. PICK a : a = storage
      OBVIOUS
    <3>2. Succeeded(a)'
      BY <1>17, <1>18, <1>20, <2>1, <3>1
    <3> QED
      BY <1>4, <1>20, <3>1, <3>2
  <2>3. Succeeded(held[s])'
    BY <1>18, <1>20, <2>1 DEF Succeeded, Marked
  <2> QED
    BY <1>18, <1>20, <2>1, <2>2, <2>3, AnsweredSession
<1>21. ASSUME NEW w \in Workers, LoginFails(w) PROVE SessionInv(s)'
  <2>1. PICK end : Answered(w, Sso, end)
    BY <1>21 DEF LoginFails
  <2>2. work[w].asked = None /\ storage' = storage /\ held' = held
    BY <1>21 DEF LoginFails
  <2>3. CASE storage = None
    <3>1. ~Marked(storage) /\ Succeeded(storage)'
      BY <2>2, <2>3 DEF Marked, Succeeded
    <3>2. Succeeded(held[s])' /\ client[w] = Sso
      BY <1>18, <2>1, <2>2 DEF Succeeded, Marked, Answered
    <3> QED
      BY <1>18, <2>1, <2>2, <3>1, <3>2, AnsweredSession
  <2>4. CASE storage # None
    BY <1>20, <2>1, <2>2, <2>4 DEF Succeeding
  <2> QED
    BY <2>3, <2>4
<1>22. ASSUME NEW w \in Workers, NotValid(w) PROVE SessionInv(s)'
  <2>1. PICK end : Answered(w, Sso, end)
    BY <1>22 DEF NotValid
  <2>2. client[w] = Sso /\ storage' = storage /\ held' = held
    BY <1>22, <2>1 DEF NotValid, Answered
  <2>3. ~Fresh(w)
    BY <1>18, <1>22, <2>2 DEF NotValid, Intact, Fresh
  <2> QED
    BY <1>17, <1>20, <2>1, <2>2, <2>3
<1>23. ASSUME NEW w \in Workers, Validated(w) PROVE SessionInv(s)'
  <2>1. /\ Answered(w, Sso, "answer") /\ work[w].asked # None /\ client[w] = Sso
        /\ storage' = storage /\ page' = None
    BY <1>23 DEF Validated, Answered
  <2>2. /\ held'[s] = Answer(w) /\ work[w].asked = storage
    BY <1>1, <1>2, <1>18, <1>23, <2>1 DEF Validated, Attended
  <2>3. held'[s] # None
    BY <1>17, <2>1, <2>2 DEF Fresh
  <2>4. ~Marked(Answer(w))
    <3>1. CASE Fresh(w)
      BY <1>17, <2>1, <3>1
    <3>2. CASE ~Fresh(w)
      <4>1. ASSUME NEW u \in Workers, Succeeding(u, storage) PROVE FALSE
        <5>1. u # w /\ work[u] # None
          BY <3>2, <4>1 DEF Succeeding, Fresh
        <5>2. client[u] # None /\ client[u] \in {Sso, s, None}
          BY <1>1, <1>2, <5>1 DEF Attended, SignTypeOK
        <5> QED
          BY <1>18, <2>1, <5>1, <5>2
      <4>2. ~Marked(storage)
        BY <1>18, <2>1, <4>1 DEF Succeeded
      <4> QED
        BY <1>17, <2>1, <2>2, <3>2, <4>2
    <3> QED
      BY <3>1, <3>2
  <2>5. Succeeded(held[s])'
    <3>1. PICK a : a = Answer(w)
      OBVIOUS
    <3>2. Succeeded(a)'
      BY <1>17, <2>1, <2>4, <3>1
    <3> QED
      BY <1>3, <2>2, <3>1, <3>2
  <2> QED
    BY <2>1, <2>3, <2>5, AnsweredSession
\* The calls of s are answered.
<1>24. ASSUME NEW w \in Workers, NEW end, Answered(w, s, end), storage' = storage, page' = page,
              \/ held' = held /\ ~Fresh(w)
              \/ Fresh(w) /\ held' = [held EXCEPT ![s] = work[w].fresh]
       PROVE  SessionInv(s)'
  <2>1. held[s] # None /\ page = None
    BY <1>2, <1>24 DEF Attended, Answered
  <2>2. held'[s] # None
    BY <1>1, <1>24, <2>1 DEF Fresh
  <2>3. Succeeded(held[s])'
    <3>1. CASE held' = held /\ ~Fresh(w)
      <4>1. PICK a : a = held[s]
        OBVIOUS
      <4>2. Succeeded(a)' /\ held'[s] = a
        BY <1>2, <1>17, <1>24, <3>1, <4>1
      <4> QED
        BY <1>3, <4>2
    <3>2. CASE Fresh(w) /\ held' = [held EXCEPT ![s] = work[w].fresh]
      <4>1. PICK a : a = work[w].fresh
        OBVIOUS
      <4>2. Succeeded(a)' /\ held'[s] = a
        BY <1>1, <1>17, <1>24, <3>2, <4>1
      <4> QED
        BY <1>3, <4>2
    <3> QED
      BY <1>24, <3>1, <3>2
  <2> QED
    BY <1>24, <2>1, <2>2, <2>3, AnsweredSession
<1>25. ASSUME NEW w \in Workers, NEW z \in Services, Decided(w, z) PROVE SessionInv(s)'
  <2>1. Answered(w, s, "answer") /\ storage' = storage /\ page' = page
    BY <1>25 DEF Decided
  <2>2. PICK decision \in Decisions :
          /\ held' = IF HandsOn(w, decision) THEN [held EXCEPT ![s] = Answer(w)] ELSE held
          /\ denied' = IF decision = "forbidden" /\ Renews(w) THEN denied \cup {s} ELSE denied
    BY <1>25 DEF Decided
  <2>3. Renews(w) <=> Fresh(w)
    BY <1>17, <2>1 DEF Renews
  <2>4. CASE Fresh(w)
    <3>1. decision = "permitted"
      BY <2>2, <2>3, <2>4 DEF Decisions, Intact
    <3>2. held' = [held EXCEPT ![s] = work[w].fresh]
      BY <1>17, <2>1, <2>2, <2>3, <2>4, <3>1 DEF HandsOn
    <3> QED
      BY <1>24, <2>1, <2>4, <3>2
  <2>5. CASE ~Fresh(w)
    <3>1. held' = held
      BY <2>2, <2>3, <2>5 DEF HandsOn
    <3> QED
      BY <1>24, <2>1, <2>5, <3>1
  <2> QED
    BY <2>4, <2>5
<1>26. \A w \in Workers, z \in Services : ~Unauthorized(w, z)
  BY <1>2 DEF Unauthorized, Answered, InTime
<1>27. ASSUME NEW w \in Workers, NEW z \in Services, CallFails(w, z) PROVE SessionInv(s)'
  <2>1. /\ Answered(w, s, "failed") /\ storage' = storage /\ page' = page /\ held' = held
        /\ ~Fresh(w)
    BY <1>27 DEF CallFails, Intact, Fresh
  <2> QED
    BY <1>24, <2>1
<1>28. \A w \in Workers : ~Discard(w)
  BY <1>2 DEF Discard, Finish, Attended, At
<1> QED
  BY <1>7, <1>8, <1>9, <1>10, <1>11, <1>14, <1>15, <1>16, <1>19, <1>21, <1>22, <1>23, <1>25,
     <1>26, <1>27, <1>28 DEF SignNext

\* The token that the only front-end of a browser holds is one that Will.IAM
\* accepts, through any number of refreshes, calls at once, failures and
\* visits to the page, unless an answer that renewed it was lost or was a 403,
\* provided that two requests in a row last less than the grace (middleware
\* ServeHTTP, pkg/http/middleware.go:63, and tokens.Get with its 60 s).
THEOREM SessionsLast ==
  ASSUME 2 * MaxFlight < Grace, NEW s \in Services, Services = {s}
  PROVE  SignSpec => []StaysSignedIn
<1>1. SignInit => SInv(s)
  <2> SUFFICES ASSUME SignInit PROVE KInv /\ SessionInv(s)
    BY DEF SInv
  <2>1. KInv /\ \A w \in Workers : work[w] = None
    BY KInit DEF SignInit, Init
  <2>2. \A w \in Workers : Attended(s, w) /\ InTime(s, w)
    BY <2>1, ClientsAssumption DEF SignInit, Attended, InTime, At
  <2> QED
    BY <2>1, <2>2 DEF SignInit, SessionInv, Succeeded, Marked
<1>2. SInv(s) /\ [SignNext]_signVars => SInv(s)'
  <2> SUFFICES ASSUME SInv(s), [SignNext]_signVars PROVE SInv(s)'
    OBVIOUS
  <2>1. KInv /\ KInv'
    BY KNext DEF SInv
  <2>2. Intact(s)' => Intact(s)
    <3>1. lost \subseteq lost' /\ denied \subseteq denied'
      BY DEF SignNext, signVars, browser, Open, Close, Validate, Consent, LoginDone, LoginFails,
         Validated, NotValid, Call, Decided, Unauthorized, CallFails, TimedOut, Discard
    <3> QED
      BY <3>1 DEF Intact
  <2> QED
    BY <2>1, <2>2, SessionStep DEF SInv
<1>3. SInv(s) => StaysSignedIn
  <2> SUFFICES ASSUME SInv(s), held[s] # None, Intact(s) PROVE Acceptable(tokens[held[s]])
    BY DEF StaysSignedIn, Intact
  <2> DEFINE t == tokens[held[s]]
  <2>1. t # None /\ TypeOK /\ now \in Nat /\ held[s] \in AccessTokens
    BY Numbers DEF SInv, KInv, Handed, Recorded, TypeOK
  <2>2. SUFFICES ASSUME Dead(t) PROVE FALSE
    BY <2>1 DEF Acceptable
  <2>3. t.expiredAt \in Nat /\ t.expiredAt + Grace <= now
    BY <2>1, <2>2 DEF Dead, TypeOK, Token
  <2>4. now <= t.expiredAt + MaxFlight
    BY <2>1, <2>2 DEF SInv, SessionInv, Succeeded, Marked, Dead
  <2> QED
    BY <2>1, <2>3, <2>4, PeriodsAssumption
<1> QED
  BY <1>1, <1>2, <1>3, PTL DEF SignSpec
=============================================================================
