---------------------------- MODULE TokensProofs ----------------------------
(***************************************************************************)
(* Proofs about Tokens, for any number of goroutines, connections and      *)
(* tokens, and any clock.                                                  *)
(***************************************************************************)
EXTENDS Tokens, TLAPS

\* w is between its first step and its end.
Busy(w) == work[w] # None /\ work[w].step \in Steps

\* Google has issued a token for w that is not on record yet.
Unsaved(w) == At(w, "info") \/ At(w, "save") \/ At(w, "begin") \/ At(w, "new")

\* w refreshes the token it came with, and has not superseded it yet.
Marking(w) == /\ work[w] # None /\ work[w].asked # None
              /\ At(w, "info") \/ At(w, "begin") \/ At(w, "new") \/ At(w, "old")

\* w has read a row that it may supersede.
Reading(w) == At(w, "check") /\ work[w].old.expiredAt = None

-----------------------------------------------------------------------------
(* The parts of the inductive invariant that are about one request *)

\* The fields that a step reads are there.
Fields(w) ==
  /\ Unsaved(w) => /\ work[w].fresh \in AccessTokens
                   /\ work[w].new \in Token
                   /\ work[w].new.expiredAt = None
  /\ At(w, "code") => work[w].asked = None
  /\ At(w, "get") => work[w].asked \in AccessTokens
  /\ At(w, "check") \/ Marking(w) => work[w].asked \in AccessTokens /\ work[w].old \in Token
  /\ At(w, "begin") \/ At(w, "new") \/ At(w, "old") => work[w].asked # None
  /\ At(w, "old") => work[w].fresh \in AccessTokens

\* It does not last longer than MaxFlight.
InFlight(w) == Busy(w) => work[w].since <= now /\ now <= work[w].since + MaxFlight

\* The token it was issued is not on record before it saves it.
NotRecorded(w) == Unsaved(w) => work[w].fresh <= issued /\ tokens[work[w].fresh] = None

\* What it read is still on record, for the same grant.
ReadRecorded(w) ==
  At(w, "check") \/ Marking(w) =>
    /\ tokens[work[w].asked] # None
    /\ tokens[work[w].asked].grant = work[w].old.grant

\* Its mark is a moment of its flight.
MarkInFlight(w) ==
  Marking(w) => /\ work[w].old.expiredAt \in Nat
                /\ work[w].since <= work[w].old.expiredAt
                /\ work[w].old.expiredAt <= now

\* The successor of what it will supersede is with it,
SuccessorAtHand(w) ==
  Marking(w) /\ ~At(w, "old") => /\ work[w].new.grant = work[w].old.grant
                                 /\ work[w].new.expiry > work[w].old.expiredAt

\* ... and then on record.
SuccessorRecorded(w) ==
  At(w, "old") => /\ work[w].fresh # work[w].asked
                  /\ tokens[work[w].fresh] # None
                  /\ tokens[work[w].fresh].grant = work[w].old.grant
                  /\ tokens[work[w].fresh].expiry > work[w].old.expiredAt

\* Whoever superseded the token that it will supersede had come, at the
\* earliest, one flight before it did.
RecentlyMarked(w) ==
  Reading(w) \/ Marking(w) =>
    LET t == tokens[work[w].asked] IN
      t # None /\ t.expiredAt # None => work[w].since <= t.expiredAt + MaxFlight

RequestInv(w) == /\ Fields(w) /\ InFlight(w) /\ NotRecorded(w) /\ ReadRecorded(w)
                 /\ MarkInFlight(w) /\ SuccessorAtHand(w) /\ SuccessorRecorded(w)
                 /\ RecentlyMarked(w)

(* ... and those about all *)

\* Only issued tokens are on record.
RecordedIssued == \A a \in AccessTokens : tokens[a] # None => a <= issued

\* A token is issued to one request.
FreshOnce ==
  \A v, w \in Workers : v # w /\ Unsaved(v) /\ Unsaved(w) => work[v].fresh # work[w].fresh

IInv == /\ TypeOK /\ RecordedIssued /\ FreshOnce /\ SupersededHasSuccessor
        /\ \A w \in Workers : RequestInv(w)

-----------------------------------------------------------------------------
(* Types *)

USE DEF AccessTokens, Time

\* A step of w leaves the other requests alone, and w serving one.
Only(w) == /\ work' \in [Workers -> Work \cup {None}]
           /\ \A v \in Workers \ {w} : work'[v] = work[v]
           /\ work'[w] \in Work

\* ... which is the one it was.
Same(w) == /\ work'[w].asked = work[w].asked
           /\ work'[w].fresh = work[w].fresh

\* What the ways to write work do to the request of w, field by field.
LEMMA GoToEffect ==
  ASSUME TypeOK, NEW w \in Workers, work[w] # None, NEW step \in Steps, GoTo(w, step)
  PROVE  /\ Only(w) /\ Same(w)
         /\ work'[w].step = step
         /\ work'[w].old = work[w].old
         /\ work'[w].new = work[w].new
         /\ work'[w].since = work[w].since
<1> DEFINE r == [work[w] EXCEPT !.step = step]
<1>1. work[w] \in Work /\ work \in [Workers -> Work \cup {None}]
  BY DEF TypeOK
<1>2. /\ r \in Work
      /\ r.step = step /\ r.asked = work[w].asked /\ r.fresh = work[w].fresh
      /\ r.old = work[w].old /\ r.new = work[w].new /\ r.since = work[w].since
  BY <1>1 DEF Work
<1>3. work' = [work EXCEPT ![w] = r]
  BY DEF GoTo
<1>4. Only(w) /\ work'[w] = r
  BY <1>1, <1>2, <1>3 DEF Only
<1> QED
  BY <1>2, <1>4 DEF Same

LEMMA LeaveEffect ==
  ASSUME TypeOK, NEW w \in Workers, work[w] # None,
         NEW step \in Steps \cup Ends, Leave(w, step)
  PROVE  /\ Only(w) /\ Same(w)
         /\ work'[w].step = step
         /\ step \in Steps => work'[w].since = work[w].since
<1> DEFINE since == IF step \in Ends THEN 0 ELSE work[w].since
           r == [work[w] EXCEPT !.step = step, !.old = None, !.new = None,
                                !.since = since]
<1>1. since \in Nat /\ (step \in Steps => since = work[w].since)
  <2>1. work[w].since \in Nat
    BY DEF TypeOK, Work
  <2> QED
    BY <2>1 DEF Steps, Ends
<1> HIDE DEF since
<1>2. work[w] \in Work /\ work \in [Workers -> Work \cup {None}]
  BY DEF TypeOK
<1>3. /\ r \in Work
      /\ r.step = step /\ r.asked = work[w].asked /\ r.fresh = work[w].fresh
      /\ step \in Steps => r.since = work[w].since
  BY <1>1, <1>2 DEF Work
<1>4. work' = [work EXCEPT ![w] = r]
  BY DEF Leave, since
<1>5. Only(w) /\ work'[w] = r
  BY <1>2, <1>3, <1>4 DEF Only
<1> QED
  BY <1>3, <1>5 DEF Same

LEMMA ArriveEffect ==
  ASSUME TypeOK, NEW w \in Workers, NEW r \in Work, Arrive(w, r)
  PROVE  Only(w) /\ work'[w] = r
BY DEF TypeOK, Arrive, Only

LEMMA IssueEffect ==
  ASSUME TypeOK, NEW w \in Workers, work[w] # None, NEW t \in Token, Issue(w, t)
  PROVE  /\ Only(w)
         /\ work'[w].step = "info"
         /\ work'[w].asked = work[w].asked
         /\ work'[w].fresh = issued + 1
         /\ work'[w].new = t
         /\ work'[w].since = work[w].since
         /\ work[w].old # None => work'[w].old = Superseded(work[w].old)
<1> DEFINE o == IF work[w].old = None THEN None ELSE Superseded(work[w].old)
           r == [work[w] EXCEPT !.step = "info", !.fresh = issued + 1,
                                !.new = t, !.old = o]
<1>1. /\ work[w] \in Work /\ work \in [Workers -> Work \cup {None}]
      /\ now \in Nat /\ issued + 1 \in AccessTokens
  BY BoundsAssumption DEF TypeOK, Issue
<1>2. o \in Token \cup {None}
  BY <1>1 DEF Superseded, Work, Token
<1>3. /\ r \in Work
      /\ r.step = "info" /\ r.asked = work[w].asked /\ r.fresh = issued + 1
      /\ r.old = o /\ r.new = t /\ r.since = work[w].since
  BY <1>1, <1>2 DEF Work, Steps
<1>4. work' = [work EXCEPT ![w] = r]
  BY DEF Issue
<1>5. Only(w) /\ work'[w] = r
  BY <1>1, <1>3, <1>4 DEF Only
<1> QED
  BY <1>3, <1>5

-----------------------------------------------------------------------------
(* Requests that do not take the step *)

Unmoved(v) == work'[v] = work[v]

\* Rows on record stay, for their grant and with their expiry.
RowsKept == \A a \in AccessTokens : tokens[a] # None =>
              /\ tokens'[a] # None
              /\ tokens'[a].grant = tokens[a].grant
              /\ tokens'[a].expiry = tokens[a].expiry

\* Nothing on record has changed: what w knows still holds.
LEMMA Undisturbed ==
  ASSUME NEW v \in Workers, RequestInv(v), Unmoved(v), TypeOK,
         tokens' = tokens, now' = now, issued' \in Nat, issued <= issued'
  PROVE  RequestInv(v)'
<1>1. issued \in Nat
  BY BoundsAssumption DEF TypeOK
<1>2. /\ \A step : At(v, step)' = At(v, step)
      /\ Marking(v)' = Marking(v) /\ Unsaved(v)' = Unsaved(v)
      /\ Reading(v)' = Reading(v) /\ Busy(v)' = Busy(v)
  BY DEF Unmoved, At, Marking, Unsaved, Reading, Busy
<1>3. Fields(v)' /\ InFlight(v)' /\ ReadRecorded(v)' /\ MarkInFlight(v)'
  BY <1>2 DEF RequestInv, Fields, InFlight, ReadRecorded, MarkInFlight, Unmoved
<1>4. SuccessorAtHand(v)' /\ SuccessorRecorded(v)' /\ RecentlyMarked(v)'
  BY <1>2 DEF RequestInv, SuccessorAtHand, SuccessorRecorded, RecentlyMarked, Unmoved
<1>5. NotRecorded(v)'
  BY <1>1, <1>2 DEF RequestInv, Fields, NotRecorded, Unmoved
<1> QED
  BY <1>3, <1>4, <1>5 DEF RequestInv

\* A save that does not touch what v is about to save, and marks what v is
\* about to supersede only with a recent moment.
LEMMA Saving ==
  ASSUME NEW v \in Workers, RequestInv(v), Unmoved(v), TypeOK, TypeOK',
         RowsKept, now' = now, issued' = issued,
         Unsaved(v) => tokens'[work[v].fresh] = tokens[work[v].fresh],
         Reading(v) \/ Marking(v) =>
           LET t == tokens'[work[v].asked] IN
             t # None /\ t.expiredAt # None => work[v].since <= t.expiredAt + MaxFlight
  PROVE  RequestInv(v)'
<1>1. /\ \A step : At(v, step)' = At(v, step)
      /\ Marking(v)' = Marking(v) /\ Unsaved(v)' = Unsaved(v)
      /\ Reading(v)' = Reading(v) /\ Busy(v)' = Busy(v)
  BY DEF Unmoved, At, Marking, Unsaved, Reading, Busy
<1>2. Fields(v)' /\ InFlight(v)' /\ MarkInFlight(v)' /\ SuccessorAtHand(v)'
  BY <1>1 DEF RequestInv, Fields, InFlight, MarkInFlight, SuccessorAtHand, Unmoved
<1>3. ReadRecorded(v)' /\ SuccessorRecorded(v)'
  BY <1>1 DEF RequestInv, Fields, ReadRecorded, SuccessorRecorded, Unmoved, RowsKept
<1>4. NotRecorded(v)' /\ RecentlyMarked(v)'
  BY <1>1 DEF RequestInv, NotRecorded, RecentlyMarked, Unmoved
<1> QED
  BY <1>2, <1>3, <1>4 DEF RequestInv

\* Time passes, not for longer than the flight of v lasts.
LEMMA Passing ==
  ASSUME NEW v \in Workers, RequestInv(v), TypeOK, Tick
  PROVE  RequestInv(v)'
<1>1. /\ now \in Nat /\ now' = now + 1
      /\ work' = work /\ tokens' = tokens /\ issued' = issued
      /\ Busy(v) => now < work[v].since + MaxFlight /\ work[v].since \in Nat
  BY DEF Tick, TypeOK, Busy, Steps, Ends, Work
<1>2. /\ \A step : At(v, step)' = At(v, step)
      /\ Marking(v)' = Marking(v) /\ Unsaved(v)' = Unsaved(v)
      /\ Reading(v)' = Reading(v) /\ Busy(v)' = Busy(v)
  BY <1>1 DEF At, Marking, Unsaved, Reading, Busy
<1>3. Fields(v)' /\ NotRecorded(v)' /\ ReadRecorded(v)' /\ SuccessorAtHand(v)'
  BY <1>1, <1>2 DEF RequestInv, Fields, NotRecorded, ReadRecorded, SuccessorAtHand
<1>4. SuccessorRecorded(v)' /\ RecentlyMarked(v)'
  BY <1>1, <1>2 DEF RequestInv, SuccessorRecorded, RecentlyMarked
<1>5. InFlight(v)' /\ MarkInFlight(v)'
  BY <1>1, <1>2, PeriodsAssumption DEF RequestInv, InFlight, MarkInFlight
<1> QED
  BY <1>3, <1>4, <1>5 DEF RequestInv

-----------------------------------------------------------------------------
(* Steps that change nothing on record *)

Quiet == tokens' = tokens /\ now' = now /\ issued' = issued

LEMMA QuietStep ==
  ASSUME IInv, NEW w \in Workers, Quiet, logins' \in Nat,
         work' \in [Workers -> Work \cup {None}],
         \A v \in Workers \ {w} : work'[v] = work[v],
         RequestInv(w)',
         Unsaved(w)' => Unsaved(w) /\ work'[w].fresh = work[w].fresh
  PROVE  IInv'
<1>1. TypeOK' /\ RecordedIssued' /\ SupersededHasSuccessor'
  BY DEF IInv, TypeOK, RecordedIssued, SupersededHasSuccessor, Quiet
<1>2. ASSUME NEW v \in Workers PROVE RequestInv(v)'
  <2>1. CASE v = w
    BY <2>1
  <2>2. CASE v # w
    <3>1. issued' \in Nat /\ issued <= issued'
      BY BoundsAssumption DEF IInv, TypeOK, Quiet
    <3> QED
      BY <2>2, <3>1, Undisturbed DEF IInv, Quiet, Unmoved
  <2> QED
    BY <2>1, <2>2
<1>3. FreshOnce'
  <2> SUFFICES ASSUME NEW u \in Workers, NEW v \in Workers, u # v,
                      Unsaved(u)', Unsaved(v)'
               PROVE  work'[u].fresh # work'[v].fresh
    BY DEF FreshOnce
  <2>1. ASSUME NEW x \in Workers, Unsaved(x)'
        PROVE  Unsaved(x) /\ work'[x].fresh = work[x].fresh
    <3>1. x # w => Unsaved(x) /\ work'[x].fresh = work[x].fresh
      BY <2>1 DEF Unsaved, At
    <3> QED
      BY <2>1, <3>1
  <2> QED
    BY <2>1 DEF IInv, FreshOnce
<1> QED
  BY <1>1, <1>2, <1>3 DEF IInv

\* A request that is past its saves, or has none to make.
LEMMA SettledRequest ==
  ASSUME NEW w \in Workers, work'[w] \in Work,
         work'[w].step \in Ends \cup {"account"},
         work'[w].step = "account" => InFlight(w)'
  PROVE  RequestInv(w)' /\ ~Unsaved(w)'
<1>1. /\ ~Unsaved(w)' /\ ~Marking(w)' /\ ~Reading(w)'
      /\ ~At(w, "code")' /\ ~At(w, "get")' /\ ~At(w, "check")' /\ ~At(w, "old")'
      /\ ~At(w, "begin")' /\ ~At(w, "new")'
  BY DEF Unsaved, Marking, Reading, At, Ends
<1>2. InFlight(w)'
  BY DEF InFlight, Busy, Ends, Steps
<1> QED
  BY <1>1, <1>2 DEF RequestInv, Fields, NotRecorded, ReadRecorded, MarkInFlight,
     SuccessorAtHand, SuccessorRecorded, RecentlyMarked

\* Keep, Commit, Account, the refusals and every failure.
LEMMA LeaveStep ==
  ASSUME IInv, NEW w \in Workers, Busy(w), Quiet, logins' = logins,
         NEW step \in Ends \cup {"account"}, Leave(w, step)
  PROVE  IInv'
<1>1. TypeOK /\ work[w] # None /\ step \in Steps \cup Ends /\ logins' \in Nat
  BY DEF IInv, Busy, Steps, TypeOK
<1>2. /\ Only(w) /\ work'[w].step = step
      /\ step \in Steps => work'[w].since = work[w].since
  BY <1>1, LeaveEffect
<1>3. step = "account" => InFlight(w)'
  BY <1>2 DEF IInv, RequestInv, InFlight, Quiet, Steps
<1>4. RequestInv(w)' /\ ~Unsaved(w)'
  BY <1>2, <1>3, SettledRequest DEF Only
<1> QED
  BY <1>1, <1>2, <1>4, QuietStep DEF Only

LEMMA ArriveStep ==
  ASSUME IInv, NEW w \in Workers, logins' \in Nat,
         NEW r \in Work, Arrive(w, r), r.since = now, 
         \/ r.step = "code" /\ r.asked = None
         \/ r.step = "get" /\ r.asked \in AccessTokens
  PROVE  IInv'
<1>1. TypeOK /\ Quiet /\ now \in Nat
  BY DEF IInv, TypeOK, Quiet, Arrive
<1>2. Only(w) /\ work'[w] = r /\ r # None
  BY <1>1, ArriveEffect, NoneAssumption
<1>3. /\ ~Unsaved(w)' /\ ~Marking(w)' /\ ~Reading(w)' /\ ~At(w, "check")' /\ ~At(w, "old")'
      /\ ~At(w, "begin")' /\ ~At(w, "new")'
  BY <1>2 DEF Unsaved, Marking, Reading, At
<1>4. Fields(w)' /\ InFlight(w)'
  BY <1>1, <1>2, <1>3, PeriodsAssumption DEF Fields, InFlight, Quiet, At
<1>5. RequestInv(w)'
  BY <1>3, <1>4 DEF RequestInv, NotRecorded, ReadRecorded, MarkInFlight,
     SuccessorAtHand, SuccessorRecorded, RecentlyMarked
<1> QED
  BY <1>1, <1>2, <1>3, <1>5, QuietStep DEF Only

LEMMA FinishStep ==
  ASSUME IInv, NEW w \in Workers, Finish(w)
  PROVE  IInv'
<1>1. /\ Quiet /\ logins' \in Nat /\ work'[w] = None
      /\ work' \in [Workers -> Work \cup {None}]
      /\ \A v \in Workers \ {w} : work'[v] = work[v]
  BY DEF IInv, TypeOK, Finish, Quiet
<1>2. ~Unsaved(w)' /\ ~Marking(w)' /\ ~Reading(w)' /\ ~Busy(w)' /\ \A step : ~At(w, step)'
  BY <1>1 DEF Unsaved, Marking, Reading, Busy, At
<1>3. RequestInv(w)'
  BY <1>2 DEF RequestInv, Fields, InFlight, NotRecorded, ReadRecorded, MarkInFlight,
     SuccessorAtHand, SuccessorRecorded, RecentlyMarked
<1> QED
  BY <1>1, <1>2, <1>3, QuietStep
LEMMA GetStep ==
  ASSUME IInv, NEW w \in Workers, Get(w)
  PROVE  IInv'
<1> DEFINE t == tokens[work[w].asked]
<1>1. /\ At(w, "get") /\ Busy(w) /\ Quiet /\ logins' = logins
      /\ TypeOK /\ logins' \in Nat /\ work[w] \in Work /\ RequestInv(w)
      /\ work[w].asked \in AccessTokens
  BY DEF Get, At, Busy, Steps, IInv, TypeOK, Quiet, RequestInv, Fields
<1>2. CASE ~Acceptable(t)
  BY <1>1, <1>2, LeaveStep DEF Get, Ends
<1>3. CASE Acceptable(t)
  <2> DEFINE r == [work[w] EXCEPT !.step = "check", !.old = t]
  <2>1. t \in Token
    BY <1>1, <1>3 DEF Acceptable, TypeOK
  <2>2. /\ r \in Work /\ r # None
        /\ r.step = "check" /\ r.old = t /\ r.asked = work[w].asked /\ r.since = work[w].since
    BY <1>1, <2>1, NoneAssumption DEF Work, Steps
  <2>3. work' = [work EXCEPT ![w] = r]
    BY <1>3 DEF Get
  <2>4. Only(w) /\ work'[w] = r
    BY <1>1, <2>2, <2>3 DEF Only, TypeOK
  <2> HIDE DEF r
  <2>5. /\ ~Unsaved(w)' /\ ~Marking(w)' /\ ~At(w, "code")' /\ ~At(w, "get")'
        /\ ~At(w, "begin")' /\ ~At(w, "new")' /\ ~At(w, "old")'
    BY <2>2, <2>4 DEF Unsaved, Marking, At
  <2>6. Fields(w)' /\ InFlight(w)'
    BY <1>1, <2>1, <2>2, <2>4, <2>5
       DEF RequestInv, Fields, InFlight, Busy, Quiet
  <2>7. t # None /\ tokens' = tokens
    BY <1>1, <1>3 DEF Acceptable, Quiet
  <2>8. ReadRecorded(w)' /\ RecentlyMarked(w)'
    BY <2>2, <2>4, <2>5, <2>7 DEF ReadRecorded, RecentlyMarked, Reading
  <2>9. RequestInv(w)'
    BY <2>5, <2>6, <2>8
       DEF RequestInv, NotRecorded, MarkInFlight, SuccessorAtHand, SuccessorRecorded
  <2> QED
    BY <1>1, <2>4, <2>5, <2>9, QuietStep DEF Only
<1> QED
  BY <1>2, <1>3

\* Towards the saves: nothing changes but the step.
LEMMA AdvanceStep ==
  ASSUME IInv, NEW w \in Workers, Quiet, logins' = logins, NEW step \in Steps, GoTo(w, step),
         work[w].asked # None,
         \/ At(w, "info") /\ step = "begin"
         \/ At(w, "begin") /\ step = "new"
  PROVE  IInv'
<1>1. /\ TypeOK /\ work[w] # None /\ logins' \in Nat /\ RequestInv(w)
      /\ Busy(w) /\ Unsaved(w) /\ Marking(w) /\ ~At(w, "old")
  BY DEF IInv, TypeOK, At, Busy, Unsaved, Marking, Steps
<1>2. /\ Only(w) /\ Same(w) /\ work'[w].step = step
      /\ work'[w].old = work[w].old /\ work'[w].new = work[w].new
      /\ work'[w].since = work[w].since
  BY <1>1, GoToEffect
<1>3. /\ ~At(w, "code")' /\ ~At(w, "get")' /\ ~At(w, "check")' /\ ~At(w, "old")'
      /\ ~Reading(w)'
  BY <1>2 DEF At, Reading
<1>4. Fields(w)' /\ InFlight(w)' /\ NotRecorded(w)'
  BY <1>1, <1>2, <1>3 DEF RequestInv, Fields, InFlight, NotRecorded, Quiet, Same
<1>5. ReadRecorded(w)' /\ MarkInFlight(w)' /\ SuccessorAtHand(w)'
  BY <1>1, <1>2 DEF RequestInv, ReadRecorded, MarkInFlight, SuccessorAtHand, Quiet, Same
<1>6. SuccessorRecorded(w)' /\ RecentlyMarked(w)'
  BY <1>1, <1>2, <1>3 DEF RequestInv, SuccessorRecorded, RecentlyMarked, Quiet, Same
<1>7. RequestInv(w)'
  BY <1>4, <1>5, <1>6 DEF RequestInv
<1> QED
  BY <1>1, <1>2, <1>7, QuietStep DEF Only, Same

LEMMA UserInfoStep ==
  ASSUME IInv, NEW w \in Workers, UserInfo(w)
  PROVE  IInv'
<1>1. /\ At(w, "info") /\ Busy(w) /\ Unsaved(w) /\ Quiet /\ logins' = logins
      /\ TypeOK /\ logins' \in Nat /\ work[w] \in Work /\ RequestInv(w)
      /\ now \in Nat /\ work[w].new \in Token /\ work[w].new.expiredAt = None
      /\ work[w].fresh \in AccessTokens
  BY DEF UserInfo, At, Busy, Unsaved, Steps, IInv, TypeOK, Quiet, RequestInv, Fields
<1>2. CASE work[w].asked # None /\ GoTo(w, "begin")
  BY <1>1, <1>2, AdvanceStep DEF Steps
<1>3. CASE Leave(w, "refused")
  BY <1>1, <1>3, LeaveStep DEF Ends
<1>4. CASE /\ work[w].asked = None
           /\ work' = [work EXCEPT ![w].step = "save", ![w].new.expiry = now + Session]
  <2> DEFINE n == [work[w].new EXCEPT !.expiry = now + Session]
             r == [work[w] EXCEPT !.step = "save", !.new = n]
  <2>1. n \in Token /\ n.expiredAt = None
    BY <1>1, PeriodsAssumption DEF Token
  <2> HIDE DEF n
  <2>2. /\ r \in Work /\ r # None /\ r.step = "save" /\ r.new = n
        /\ r.fresh = work[w].fresh /\ r.asked = None /\ r.since = work[w].since
    BY <1>1, <1>4, <2>1, NoneAssumption DEF Work, Steps
  <2>3. work' = [work EXCEPT ![w] = r]
    BY <1>1, <1>4 DEF n
  <2>4. Only(w) /\ work'[w] = r
    BY <1>1, <2>2, <2>3 DEF Only, TypeOK
  <2> HIDE DEF r
  <2>5. /\ ~Marking(w)' /\ ~Reading(w)' /\ ~At(w, "code")' /\ ~At(w, "get")'
        /\ ~At(w, "check")' /\ ~At(w, "begin")' /\ ~At(w, "new")' /\ ~At(w, "old")'
    BY <2>2, <2>4 DEF Marking, Reading, At
  <2>6. Fields(w)' /\ InFlight(w)' /\ NotRecorded(w)'
    BY <1>1, <2>1, <2>2, <2>4, <2>5
       DEF RequestInv, Fields, InFlight, NotRecorded, Busy, Quiet
  <2>7. RequestInv(w)'
    BY <2>5, <2>6 DEF RequestInv, ReadRecorded, MarkInFlight, SuccessorAtHand,
       SuccessorRecorded, RecentlyMarked
  <2> QED
    BY <1>1, <2>2, <2>4, <2>7, QuietStep DEF Only
<1> QED
  BY <1>2, <1>3, <1>4 DEF UserInfo
-----------------------------------------------------------------------------
(* A token is issued *)

LEMMA IssueStep ==
  ASSUME IInv, NEW w \in Workers, work[w] # None, NEW t \in Token, Issue(w, t),
         logins' = logins, t.expiredAt = None,
         Fields(w)', InFlight(w)', ReadRecorded(w)', MarkInFlight(w)',
         SuccessorAtHand(w)', RecentlyMarked(w)'
  PROVE  IInv'
<1>1. /\ TypeOK /\ issued \in Nat /\ issued' = issued + 1 /\ issued + 1 \in AccessTokens
      /\ tokens' = tokens /\ now' = now /\ issued' \in 0 .. MaxTokens
  BY BoundsAssumption DEF IInv, TypeOK, Issue
<1>2. /\ Only(w) /\ work'[w].step = "info" /\ work'[w].fresh = issued + 1
  BY <1>1, IssueEffect
<1>3. TypeOK'
  BY <1>1, <1>2 DEF TypeOK, Only, IInv
<1>4. tokens[issued + 1] = None
  BY <1>1 DEF IInv, RecordedIssued
<1>5. NotRecorded(w)' /\ SuccessorRecorded(w)' /\ RequestInv(w)'
  BY <1>1, <1>2, <1>4 DEF NotRecorded, SuccessorRecorded, RequestInv, At
<1>6. ASSUME NEW v \in Workers, v # w PROVE RequestInv(v)'
  BY <1>1, <1>2, <1>6, Undisturbed DEF IInv, Only, Unmoved
<1>7. RecordedIssued' /\ SupersededHasSuccessor'
  BY <1>1 DEF IInv, RecordedIssued, SupersededHasSuccessor, TypeOK
<1>8. FreshOnce'
  <2>1. ASSUME NEW v \in Workers, v # w, Unsaved(v)'
        PROVE  Unsaved(v) /\ work'[v] = work[v] /\ work[v].fresh <= issued
               /\ work[v].fresh \in AccessTokens
    BY <1>2, <2>1 DEF Only, Unsaved, At, IInv, RequestInv, NotRecorded, Fields
  <2>2. ASSUME NEW v \in Workers, v # w, Unsaved(v)'
        PROVE  work'[v].fresh # work'[w].fresh
    BY <1>1, <1>2, <2>1, <2>2
  <2> QED
    BY <2>1, <2>2 DEF FreshOnce, IInv
<1> QED
  BY <1>3, <1>5, <1>6, <1>7, <1>8 DEF IInv

LEMMA ExchangeStep ==
  ASSUME IInv, NEW w \in Workers, Exchange(w)
  PROVE  IInv'
<1> DEFINE t == [grant |-> issued + 1, expiry |-> now + Lifetime, expiredAt |-> None]
<1>1. /\ At(w, "code") /\ Busy(w) /\ work[w] # None /\ RequestInv(w) /\ Issue(w, t)
      /\ TypeOK /\ work[w].asked = None /\ now \in Nat /\ logins' = logins
      /\ issued + 1 \in AccessTokens
  BY BoundsAssumption
     DEF Exchange, Issue, At, Busy, Steps, IInv, TypeOK, RequestInv, Fields
<1>2. t \in Token /\ t.expiredAt = None
  BY <1>1, PeriodsAssumption DEF Token
<1> HIDE DEF t
<1>3. /\ Only(w) /\ work'[w].step = "info" /\ work'[w].asked = None
      /\ work'[w].fresh = issued + 1 /\ work'[w].new = t /\ work'[w].since = work[w].since
  BY <1>1, <1>2, IssueEffect
<1>4. /\ ~Marking(w)' /\ ~Reading(w)' /\ ~At(w, "code")' /\ ~At(w, "get")' /\ ~At(w, "old")'
      /\ ~At(w, "check")' /\ ~At(w, "begin")' /\ ~At(w, "new")'
  BY <1>3 DEF Marking, Reading, At
<1>5. Fields(w)' /\ InFlight(w)'
  BY <1>1, <1>2, <1>3, <1>4 DEF RequestInv, Fields, InFlight, Issue
<1>6. ReadRecorded(w)' /\ MarkInFlight(w)' /\ SuccessorAtHand(w)' /\ RecentlyMarked(w)'
  BY <1>4 DEF ReadRecorded, MarkInFlight, SuccessorAtHand, RecentlyMarked
<1> QED
  BY <1>1, <1>2, <1>5, <1>6, IssueStep

LEMMA RefreshStep ==
  ASSUME IInv, NEW w \in Workers, Refresh(w)
  PROVE  IInv'
<1> DEFINE o == work[w].old
           t == Renewed(o)
<1>1. /\ At(w, "check") /\ Busy(w) /\ work[w] # None /\ RequestInv(w) /\ Issue(w, t)
      /\ TypeOK /\ work[w].asked \in AccessTokens /\ now \in Nat /\ logins' = logins
      /\ o \in Token /\ o.expiredAt = None /\ tokens' = tokens /\ now' = now
      /\ issued + 1 \in AccessTokens /\ work[w].since \in Nat
  BY BoundsAssumption
     DEF Refresh, Issue, NeedsRefresh, At, Busy, Steps, IInv, TypeOK, RequestInv, Fields, Work
<1>2. /\ t \in Token /\ t.expiredAt = None /\ t.grant = o.grant /\ t.expiry = now + Lifetime
      /\ Superseded(o) \in Token /\ Superseded(o).expiredAt = now
      /\ Superseded(o).grant = o.grant
  BY <1>1, PeriodsAssumption DEF Token, Renewed, Superseded
<1>3. o # None
  BY <1>1, NoneAssumption
<1> HIDE DEF t
<1>4. /\ Only(w) /\ work'[w].step = "info" /\ work'[w].asked = work[w].asked
      /\ work'[w].fresh = issued + 1 /\ work'[w].new = t /\ work'[w].since = work[w].since
      /\ work'[w].old = Superseded(o)
  BY <1>1, <1>2, <1>3, IssueEffect
<1>5. /\ ~Reading(w)' /\ ~At(w, "code")' /\ ~At(w, "get")' /\ ~At(w, "old")'
      /\ ~At(w, "check")' /\ ~At(w, "begin")' /\ ~At(w, "new")'
  BY <1>4 DEF Reading, At
<1>6. Fields(w)' /\ InFlight(w)'
  BY <1>1, <1>2, <1>4, <1>5 DEF RequestInv, Fields, InFlight
<1>7. ReadRecorded(w)' /\ MarkInFlight(w)'
  BY <1>1, <1>2, <1>4 DEF RequestInv, ReadRecorded, InFlight, MarkInFlight
<1>8. SuccessorAtHand(w)'
  BY <1>1, <1>2, <1>4, PeriodsAssumption DEF SuccessorAtHand
<1>9. RecentlyMarked(w)'
  BY <1>1, <1>4 DEF RequestInv, RecentlyMarked, Reading
<1> QED
  BY <1>1, <1>2, <1>6, <1>7, <1>8, <1>9, IssueStep
-----------------------------------------------------------------------------
(* A row is saved *)

\* w saves the token it was issued: a row more, and nothing else.
LEMMA RecordStep ==
  ASSUME IInv, NEW w \in Workers, Unsaved(w), now' = now, issued' = issued, logins' = logins,
         tokens' = Saved(work[w].fresh, work[w].new), Only(w), ~Unsaved(w)',
         RowsKept => RequestInv(w)'
  PROVE  IInv'
<1> DEFINE f == work[w].fresh
<1>1. /\ TypeOK /\ f \in AccessTokens /\ work[w].new \in Token
      /\ work[w].new.expiredAt = None /\ tokens[f] = None /\ f <= issued
  BY DEF IInv, RequestInv, Fields, NotRecorded
<1>2. /\ tokens' = [tokens EXCEPT ![f] = work[w].new]
      /\ tokens'[f] = work[w].new
      /\ \A a \in AccessTokens \ {f} : tokens'[a] = tokens[a]
  BY <1>1 DEF Saved, TypeOK
<1>3. TypeOK' /\ RowsKept
  BY <1>1, <1>2, NoneAssumption DEF TypeOK, Only, RowsKept
<1>4. RecordedIssued'
  BY <1>1, <1>2 DEF IInv, RecordedIssued
<1>5. SupersededHasSuccessor'
  <2> SUFFICES ASSUME NEW a \in AccessTokens, tokens'[a] # None, tokens'[a].expiredAt # None
               PROVE  \E b \in AccessTokens \ {a} :
                        /\ tokens'[b] # None
                        /\ tokens'[b].grant = tokens'[a].grant
                        /\ tokens'[b].expiry > tokens'[a].expiredAt
    BY DEF SupersededHasSuccessor
  <2>1. a # f /\ tokens'[a] = tokens[a]
    BY <1>1, <1>2
  <2>2. PICK b \in AccessTokens \ {a} : /\ tokens[b] # None
                                        /\ tokens[b].grant = tokens[a].grant
                                        /\ tokens[b].expiry > tokens[a].expiredAt
    BY <2>1 DEF IInv, SupersededHasSuccessor
  <2>3. tokens'[b] = tokens[b]
    BY <1>1, <1>2, <2>2
  <2> QED
    BY <2>1, <2>2, <2>3
<1>6. ASSUME NEW v \in Workers, v # w PROVE RequestInv(v)'
  <2>1. RequestInv(v) /\ Unmoved(v)
    BY <1>6 DEF IInv, Only, Unmoved
  <2>2. Unsaved(v) => tokens'[work[v].fresh] = tokens[work[v].fresh]
    BY <1>2, <1>6, <2>1 DEF IInv, FreshOnce, RequestInv, Fields
  <2>3. Reading(v) \/ Marking(v) => tokens'[work[v].asked] = tokens[work[v].asked]
    BY <1>1, <1>2, <2>1 DEF RequestInv, ReadRecorded, Fields, Reading
  <2>4. Reading(v) \/ Marking(v) =>
          LET t == tokens'[work[v].asked] IN
            t # None /\ t.expiredAt # None => work[v].since <= t.expiredAt + MaxFlight
    BY <2>1, <2>3 DEF RequestInv, RecentlyMarked
  <2> QED
    BY <1>1, <1>3, <2>1, <2>2, <2>4, Saving
<1>7. FreshOnce'
  BY DEF IInv, FreshOnce, Only, Unsaved, At
<1> QED
  BY <1>3, <1>4, <1>5, <1>6, <1>7 DEF IInv

LEMMA SaveStep ==
  ASSUME IInv, NEW w \in Workers, Save(w)
  PROVE  IInv'
<1>1. /\ At(w, "save") /\ Busy(w) /\ Unsaved(w) /\ work[w] # None /\ TypeOK
      /\ Leave(w, "account") /\ now' = now /\ issued' = issued /\ logins' = logins
      /\ tokens' = Saved(work[w].fresh, work[w].new) /\ RequestInv(w)
  BY DEF Save, At, Busy, Unsaved, Steps, IInv
<1>2. /\ Only(w) /\ work'[w].step = "account" /\ work'[w].since = work[w].since
  BY <1>1, LeaveEffect DEF Steps
<1>3. InFlight(w)'
  BY <1>1, <1>2 DEF RequestInv, InFlight
<1>4. RequestInv(w)' /\ ~Unsaved(w)'
  BY <1>2, <1>3, SettledRequest DEF Only
<1> QED
  BY <1>1, <1>2, <1>4, RecordStep

LEMMA SaveNewStep ==
  ASSUME IInv, NEW w \in Workers, SaveNew(w)
  PROVE  IInv'
<1>1. /\ At(w, "new") /\ Busy(w) /\ Unsaved(w) /\ work[w] # None /\ TypeOK
      /\ GoTo(w, "old") /\ now' = now /\ issued' = issued /\ logins' = logins
      /\ tokens' = Saved(work[w].fresh, work[w].new) /\ RequestInv(w) /\ ~At(w, "old")
  BY DEF SaveNew, At, Busy, Unsaved, Steps, IInv
<1>2. /\ work[w].asked # None /\ Marking(w) /\ work[w].fresh \in AccessTokens
      /\ work[w].asked \in AccessTokens /\ tokens[work[w].fresh] = None
      /\ work[w].new \in Token
  BY <1>1 DEF RequestInv, Fields, NotRecorded, Marking
<1>3. /\ Only(w) /\ Same(w) /\ work'[w].step = "old" /\ work'[w].old = work[w].old
      /\ work'[w].since = work[w].since
  BY <1>1, GoToEffect DEF Steps
<1>4. /\ ~Unsaved(w)' /\ ~Reading(w)' /\ ~At(w, "code")' /\ ~At(w, "get")'
      /\ ~At(w, "check")' /\ ~At(w, "begin")' /\ ~At(w, "new")' /\ At(w, "old")' /\ Marking(w)'
  BY <1>2, <1>3, NoneAssumption DEF Unsaved, Reading, Marking, At, Only, Same
<1>5. /\ tokens'[work[w].fresh] = work[w].new
      /\ \A a \in AccessTokens \ {work[w].fresh} : tokens'[a] = tokens[a]
  BY <1>1, <1>2 DEF Saved, TypeOK
<1>6. Fields(w)' /\ InFlight(w)' /\ MarkInFlight(w)' /\ NotRecorded(w)' /\ SuccessorAtHand(w)'
  BY <1>1, <1>2, <1>3, <1>4
     DEF RequestInv, Fields, InFlight, MarkInFlight, NotRecorded, SuccessorAtHand, Same
<1>7. /\ tokens[work[w].asked] # None /\ work[w].asked # work[w].fresh
      /\ tokens'[work[w].asked] = tokens[work[w].asked]
  BY <1>1, <1>2, <1>5 DEF RequestInv, ReadRecorded
<1>8. ReadRecorded(w)' /\ RecentlyMarked(w)'
  BY <1>1, <1>2, <1>3, <1>7 DEF RequestInv, ReadRecorded, RecentlyMarked, Same
<1>9. SuccessorRecorded(w)'
  BY <1>1, <1>2, <1>3, <1>5, <1>7, NoneAssumption
     DEF RequestInv, SuccessorAtHand, SuccessorRecorded, Same
<1>10. RequestInv(w)'
  BY <1>6, <1>8, <1>9 DEF RequestInv
<1> QED
  BY <1>1, <1>3, <1>4, <1>10, RecordStep

\* w supersedes the token it came with: a mark, and nothing else.
LEMMA SaveOldStep ==
  ASSUME IInv, NEW w \in Workers, SaveOld(w)
  PROVE  IInv'
<1> DEFINE a == work[w].asked
           mark == work[w].old.expiredAt
<1>1. /\ At(w, "old") /\ Busy(w) /\ ~Unsaved(w) /\ work[w] # None /\ TypeOK
      /\ GoTo(w, "commit") /\ now' = now /\ issued' = issued /\ logins' = logins
      /\ tokens' = Saved(a, work[w].old) /\ RequestInv(w) /\ a # None
  BY DEF SaveOld, At, Busy, Unsaved, Steps, IInv, RequestInv, Fields
<1>2. /\ Marking(w) /\ a \in AccessTokens /\ tokens[a] # None
      /\ mark \in Nat /\ work[w].since <= mark /\ work[w].since \in Nat
      /\ now <= work[w].since + MaxFlight /\ now \in Nat
  BY <1>1 DEF RequestInv, Fields, ReadRecorded, MarkInFlight, InFlight, Marking, TypeOK, Work
<1>3. /\ Only(w) /\ work'[w].step = "commit" /\ work'[w].since = work[w].since
  BY <1>1, GoToEffect DEF Steps
<1>4. /\ tokens' = [tokens EXCEPT ![a] = [tokens[a] EXCEPT !.expiredAt = mark]]
      /\ tokens[a] \in Token
  BY <1>1, <1>2 DEF Saved, TypeOK
<1>5. /\ tokens'[a] \in Token /\ tokens'[a].expiredAt = mark
      /\ tokens'[a].grant = tokens[a].grant /\ tokens'[a].expiry = tokens[a].expiry
      /\ \A b \in AccessTokens \ {a} : tokens'[b] = tokens[b]
  BY <1>1, <1>2, <1>4 DEF Token, TypeOK
<1>6. tokens'[a] # None
  BY <1>5, NoneAssumption
<1>7. TypeOK' /\ RowsKept
  BY <1>1, <1>2, <1>3, <1>4, <1>5, <1>6 DEF TypeOK, Only, RowsKept
<1>8. RecordedIssued'
  BY <1>1, <1>2, <1>5 DEF IInv, RecordedIssued
<1>9. /\ ~Unsaved(w)' /\ ~Marking(w)' /\ ~Reading(w)' /\ ~At(w, "code")' /\ ~At(w, "get")'
      /\ ~At(w, "check")' /\ ~At(w, "begin")' /\ ~At(w, "new")' /\ ~At(w, "old")'
  BY <1>3 DEF Unsaved, Marking, Reading, At
<1>10. InFlight(w)'
  BY <1>1, <1>3 DEF RequestInv, InFlight
<1>11. RequestInv(w)'
  BY <1>9, <1>10 DEF RequestInv, Fields, NotRecorded, ReadRecorded, MarkInFlight,
     SuccessorAtHand, SuccessorRecorded, RecentlyMarked
<1>12. ASSUME NEW v \in Workers, v # w PROVE RequestInv(v)'
  <2>1. RequestInv(v) /\ Unmoved(v)
    BY <1>3, <1>12 DEF IInv, Only, Unmoved
  <2>2. Unsaved(v) => tokens'[work[v].fresh] = tokens[work[v].fresh]
    BY <1>2, <1>5, <2>1 DEF RequestInv, NotRecorded, Fields
  <2>3. ASSUME Reading(v) \/ Marking(v), tokens'[work[v].asked].expiredAt # None,
               tokens'[work[v].asked] # None
        PROVE  work[v].since <= tokens'[work[v].asked].expiredAt + MaxFlight
    <3>1. work[v].since <= now /\ work[v].since \in Nat /\ work[v].asked \in AccessTokens
      BY <1>1, <2>1, <2>3 DEF RequestInv, InFlight, Fields, Reading, Marking, At, Busy,
         Steps, TypeOK, Work
    <3>2. CASE work[v].asked = a
      BY <1>2, <1>5, <3>1, <3>2, PeriodsAssumption
    <3>3. CASE work[v].asked # a
      BY <1>5, <2>1, <2>3, <3>1, <3>3 DEF RequestInv, RecentlyMarked
    <3> QED
      BY <3>2, <3>3
  <2> QED
    BY <1>1, <1>7, <2>1, <2>2, <2>3, Saving
<1>13. FreshOnce'
  BY <1>3, <1>9 DEF IInv, FreshOnce, Only, Unsaved, At
<1>14. SupersededHasSuccessor'
  <2> SUFFICES ASSUME NEW c \in AccessTokens, tokens'[c] # None, tokens'[c].expiredAt # None
               PROVE  \E b \in AccessTokens \ {c} :
                        /\ tokens'[b] # None
                        /\ tokens'[b].grant = tokens'[c].grant
                        /\ tokens'[b].expiry > tokens'[c].expiredAt
    BY DEF SupersededHasSuccessor
  <2>1. CASE c = a
    <3>1. /\ work[w].fresh \in AccessTokens \ {a}
          /\ tokens[work[w].fresh] # None
          /\ tokens[work[w].fresh].grant = tokens[a].grant
          /\ tokens[work[w].fresh].expiry > mark
      BY <1>1, <1>2 DEF RequestInv, Fields, ReadRecorded, SuccessorRecorded
    <3> QED
      BY <1>5, <2>1, <3>1
  <2>2. CASE c # a
    <3>1. PICK b \in AccessTokens \ {c} : /\ tokens[b] # None
                                          /\ tokens[b].grant = tokens[c].grant
                                          /\ tokens[b].expiry > tokens[c].expiredAt
      BY <1>5, <2>2 DEF IInv, SupersededHasSuccessor
    <3> QED
      BY <1>5, <1>7, <2>2, <3>1 DEF RowsKept
  <2> QED
    BY <2>1, <2>2
<1> QED
  BY <1>7, <1>8, <1>11, <1>12, <1>13, <1>14 DEF IInv
-----------------------------------------------------------------------------
(* The theorems *)

LEMMA InitInv == Init => IInv
<1> SUFFICES ASSUME Init PROVE IInv
  OBVIOUS
<1>1. TypeOK /\ \A w \in Workers : work[w] = None
  BY BoundsAssumption DEF Init, TypeOK
<1>2. ASSUME NEW w \in Workers
      PROVE  /\ ~Unsaved(w) /\ ~Marking(w) /\ ~Reading(w) /\ ~Busy(w)
             /\ \A step : ~At(w, step)
  BY <1>1 DEF Unsaved, Marking, Reading, Busy, At
<1>3. \A w \in Workers : RequestInv(w)
  BY <1>2 DEF RequestInv, Fields, InFlight, NotRecorded, ReadRecorded, MarkInFlight,
     SuccessorAtHand, SuccessorRecorded, RecentlyMarked
<1> QED
  BY <1>1, <1>2, <1>3 DEF Init, IInv, RecordedIssued, FreshOnce, SupersededHasSuccessor

LEMMA FailStep ==
  ASSUME IInv, NEW w \in Workers, Failed(w), NEW step \in Steps, At(w, step)
  PROVE  IInv'
BY LeaveStep DEF Failed, Busy, At, Quiet, Ends

LEMMA NextInv == IInv /\ [Next]_vars => IInv'
<1> SUFFICES ASSUME IInv, [Next]_vars PROVE IInv'
  OBVIOUS
<1>1. /\ now \in Nat /\ logins \in Nat /\ issued \in Nat /\ TypeOK
      /\ None \notin Token
  BY BoundsAssumption, NoneAssumption DEF IInv, TypeOK
<1>2. ASSUME NEW w \in Workers, LogIn(w) PROVE IInv'
  <2>1. /\ Blank \in Work /\ Blank.step = "code" /\ Blank.asked = None /\ Blank.since = now
    BY <1>1 DEF Blank, Work, Steps
  <2>2. logins' \in Nat /\ Arrive(w, Blank)
    BY <1>1, <1>2 DEF LogIn
  <2> QED
    BY <2>1, <2>2, ArriveStep
<1>3. ASSUME NEW w \in Workers, NEW a \in AccessTokens, Authenticate(w, a) PROVE IInv'
  <2> DEFINE r == [Blank EXCEPT !.step = "get", !.asked = a]
  <2>1. r \in Work /\ r.step = "get" /\ r.asked = a /\ r.since = now
    BY <1>1 DEF Blank, Work, Steps
  <2>2. logins' \in Nat /\ Arrive(w, r)
    BY <1>1, <1>3 DEF Authenticate
  <2> HIDE DEF r
  <2> QED
    BY <2>1, <2>2, ArriveStep
<1>4. ASSUME NEW w \in Workers, Keep(w) PROVE IInv'
  BY <1>4, LeaveStep DEF Keep, At, Busy, Steps, Quiet
<1>5. ASSUME NEW w \in Workers, Begin(w) PROVE IInv'
  <2>1. /\ At(w, "begin") /\ GoTo(w, "new") /\ Quiet /\ logins' = logins
        /\ "new" \in Steps /\ work[w].asked # None
    BY <1>5 DEF Begin, Quiet, Steps, IInv, RequestInv, Fields
  <2> QED
    BY <2>1, AdvanceStep
<1>6. ASSUME NEW w \in Workers, Commit(w) PROVE IInv'
  BY <1>6, LeaveStep DEF Commit, At, Busy, Steps, Quiet
<1>7. ASSUME NEW w \in Workers, Account(w) PROVE IInv'
  BY <1>7, LeaveStep DEF Account, At, Busy, Steps, Ends, Quiet
<1>8. ASSUME NEW w \in Workers, GoogleFails(w) PROVE IInv'
  BY <1>8, FailStep DEF GoogleFails, Steps
<1>9. ASSUME NEW w \in Workers, GiveUp(w) PROVE IInv'
  BY <1>9, FailStep DEF GiveUp, WantsConnection, Steps
<1>10. ASSUME NEW w \in Workers, Abort(w) PROVE IInv'
  BY <1>10, FailStep DEF Abort
<1>11. CASE Tick
  <2>1. \A w \in Workers : RequestInv(w)'
    BY <1>1, <1>11, Passing DEF IInv
  <2>2. TypeOK' /\ RecordedIssued' /\ FreshOnce' /\ SupersededHasSuccessor'
    BY <1>1, <1>11 DEF IInv, Tick, TypeOK, RecordedIssued, FreshOnce,
       SupersededHasSuccessor, Unsaved, At
  <2> QED
    BY <2>1, <2>2 DEF IInv
<1>12. CASE UNCHANGED vars
  <2>1. \A w \in Workers : RequestInv(w)'
    BY <1>1, <1>12, Undisturbed DEF IInv, vars, Unmoved
  <2>2. TypeOK' /\ RecordedIssued' /\ FreshOnce' /\ SupersededHasSuccessor'
    BY <1>12 DEF IInv, vars, TypeOK, RecordedIssued, FreshOnce,
       SupersededHasSuccessor, Unsaved, At
  <2> QED
    BY <2>1, <2>2 DEF IInv
<1> QED
  BY <1>2, <1>3, <1>4, <1>5, <1>6, <1>7, <1>8, <1>9, <1>10, <1>11, <1>12,
     GetStep, UserInfoStep, ExchangeStep, RefreshStep, SaveStep, SaveNewStep,
     SaveOldStep, FinishStep
     DEF Next, Serve

LEMMA Invariance == Spec => []IInv
BY InitInv, NextInv, PTL DEF Spec

\* The variables keep their types, for any number of goroutines and tokens.
THEOREM TypeCorrect == Spec => []TypeOK
<1>1. IInv => TypeOK
  BY DEF IInv
<1> QED
  BY <1>1, Invariance, PTL

\* A refresh that stops between its two saves, or races another one, never
\* leaves a superseded token without its successor on record.
THEOREM SuccessorsOnRecord == Spec => []SupersededHasSuccessor
<1>1. IInv => SupersededHasSuccessor
  BY DEF IInv
<1> QED
  BY <1>1, Invariance, PTL

\* If requests last less than half the grace, a token whose grace is over is
\* not accepted again.
THEOREM NoRevival == ASSUME 2 * MaxFlight < Grace PROVE Spec => DeadStaysDead
<1>1. IInv /\ [Next]_vars => [\A a \in AccessTokens : Dead(tokens[a]) => Dead(tokens[a])']_vars
  <2> SUFFICES ASSUME IInv, [Next]_vars, NEW a \in AccessTokens, Dead(tokens[a])
               PROVE  Dead(tokens[a])'
    OBVIOUS
  <2>1. /\ TypeOK /\ now \in Nat /\ tokens[a] \in Token
        /\ tokens[a] # None /\ tokens[a].expiredAt \in Nat /\ tokens[a].expiredAt + Grace <= now
    BY DEF IInv, TypeOK, Dead, Token
  <2>2. CASE tokens' = tokens /\ now' \in Nat /\ now <= now'
    BY <2>1, <2>2, PeriodsAssumption DEF Dead
  <2>3. ASSUME NEW w \in Workers, Unsaved(w), tokens' = Saved(work[w].fresh, work[w].new),
               now' = now
        PROVE  Dead(tokens[a])'
    <3>1. work[w].fresh # a /\ work[w].fresh \in AccessTokens
      BY <2>1, <2>3 DEF IInv, RequestInv, NotRecorded, Fields
    <3>2. tokens'[a] = tokens[a]
      BY <2>1, <2>3, <3>1 DEF Saved, TypeOK
    <3> QED
      BY <2>1, <2>3, <3>2 DEF Dead
  <2>4. ASSUME NEW w \in Workers, SaveOld(w) PROVE Dead(tokens[a])'
    <3>1. /\ At(w, "old") /\ Busy(w) /\ RequestInv(w) /\ Marking(w) /\ now' = now
          /\ tokens' = Saved(work[w].asked, work[w].old) /\ work[w].asked \in AccessTokens
          /\ work[w].since \in Nat
      BY <2>1, <2>4 DEF SaveOld, At, Busy, Steps, Marking, IInv, RequestInv, Fields, TypeOK, Work
    <3>2. work[w].asked # a
      <4>1. now <= work[w].since + MaxFlight
        BY <3>1 DEF RequestInv, InFlight
      <4>2. work[w].asked = a => work[w].since <= tokens[a].expiredAt + MaxFlight
        BY <2>1, <3>1 DEF Dead, RequestInv, RecentlyMarked
      <4> QED
        BY <2>1, <3>1, <4>1, <4>2, PeriodsAssumption
    <3>3. tokens'[a] = tokens[a]
      BY <2>1, <3>1, <3>2 DEF Saved, TypeOK
    <3> QED
      BY <2>1, <3>1, <3>3 DEF Dead
  <2>5. ASSUME NEW w \in Workers, Save(w) \/ SaveNew(w) PROVE Dead(tokens[a])'
    BY <2>3, <2>5 DEF Save, SaveNew, Unsaved, At
  <2>6. CASE \/ \E w \in Workers : Save(w) \/ SaveNew(w) \/ SaveOld(w)
             \/ tokens' = tokens /\ now' \in Nat /\ now <= now'
    BY <2>2, <2>4, <2>5, <2>6
  <2>7. \/ \E w \in Workers : Save(w) \/ SaveNew(w) \/ SaveOld(w)
        \/ tokens' = tokens /\ now' \in Nat /\ now <= now'
    <3>1. ASSUME NEW w \in Workers, Serve(w)
          PROVE  Save(w) \/ SaveNew(w) \/ SaveOld(w) \/ (tokens' = tokens /\ now' = now)
      <4>1. Exchange(w) => tokens' = tokens /\ now' = now
        BY DEF Exchange, Issue
      <4>2. Refresh(w) => tokens' = tokens /\ now' = now
        BY DEF Refresh, Issue
      <4>3. Get(w) => tokens' = tokens /\ now' = now
        BY DEF Get
      <4>4. Keep(w) \/ UserInfo(w) \/ Begin(w) \/ Commit(w) => tokens' = tokens /\ now' = now
        BY DEF Keep, UserInfo, Begin, Commit
      <4>5. Account(w) \/ GoogleFails(w) \/ GiveUp(w) => tokens' = tokens /\ now' = now
        BY DEF Account, GoogleFails, GiveUp, Failed
      <4> QED
        BY <3>1, <4>1, <4>2, <4>3, <4>4, <4>5 DEF Serve
    <3>2. ASSUME NEW w \in Workers,
                 LogIn(w) \/ (\E b \in AccessTokens : Authenticate(w, b)) \/ Abort(w) \/ Finish(w)
          PROVE  tokens' = tokens /\ now' = now
      BY <3>2 DEF LogIn, Authenticate, Arrive, Abort, Failed, Finish
    <3>3. Tick \/ UNCHANGED vars => tokens' = tokens /\ now' \in Nat /\ now <= now'
      BY <2>1 DEF Tick, vars
    <3> QED
      BY <2>1, <3>1, <3>2, <3>3 DEF Next
  <2> QED
    BY <2>6, <2>7
<1> QED
  BY <1>1, Invariance, PTL DEF Spec, DeadStaysDead

-----------------------------------------------------------------------------
(* Answers with a new token *)

\* w answers with the token it was issued, which is on record.
Refreshed(w) == /\ work[w] # None /\ work[w].asked # None /\ work[w].fresh # None
                /\ At(w, "old") \/ At(w, "commit") \/ At(w, "account")

\* A request is issued a token at most once, and only a login saves it alone.
IssuedOnce(w) == /\ At(w, "get") \/ At(w, "check") => work[w].fresh = None
                 /\ At(w, "save") => work[w].asked = None

\* The expiry it read is the one on record,
ReadExpiry(w) ==
  At(w, "check") \/ Marking(w) => tokens[work[w].asked].expiry = work[w].old.expiry

\* ... has come when it marks the token,
ExpiredWhenMarked(w) == Marking(w) => work[w].old.expiry <= now

\* ... and the new one has not come before the answer,
FreshLives(w) ==
  Marking(w) /\ ~At(w, "old") => work[w].new.expiry >= work[w].since + Lifetime

\* ... for which nobody can have marked the new token.
FreshCurrent(w) ==
  Refreshed(w) =>
    /\ work[w].fresh \in AccessTokens /\ tokens[work[w].fresh] # None
    /\ tokens[work[w].fresh].expiredAt = None
    /\ tokens[work[w].fresh].expiry >= work[w].since + Lifetime

Renewing(w) == /\ IssuedOnce(w) /\ ReadExpiry(w) /\ ExpiredWhenMarked(w)
               /\ FreshLives(w) /\ FreshCurrent(w)

RInv == IInv /\ \A w \in Workers : Renewing(w)

\* What a step does to the rows: they stay, and only one that has expired is
\* marked.
RowsStill ==
  \A a \in AccessTokens : tokens[a] # None =>
    /\ tokens'[a] # None
    /\ tokens'[a].expiry = tokens[a].expiry
    /\ tokens'[a].expiredAt = tokens[a].expiredAt \/ tokens[a].expiry <= now

\* Those who wait lose nothing by such a step.
LEMMA StillRenewing ==
  ASSUME MaxFlight < Lifetime, IInv, IInv', NEW v \in Workers, Renewing(v), Unmoved(v),
         RowsStill, now <= now'
  PROVE  Renewing(v)'
<1>1. /\ now \in Nat /\ now' \in Nat /\ RequestInv(v) /\ TypeOK
      /\ work[v] # None => work[v].since \in Nat
  BY DEF IInv, TypeOK, Work
<1>2. /\ Marking(v)' <=> Marking(v)
      /\ Refreshed(v)' <=> Refreshed(v)
      /\ \A step \in Steps : At(v, step)' <=> At(v, step)
  BY DEF Unmoved, Marking, Refreshed, At
<1>3. IssuedOnce(v)'
  BY DEF Renewing, IssuedOnce, Unmoved, At
<1>4. ReadExpiry(v)'
  <2> SUFFICES ASSUME At(v, "check") \/ Marking(v)
               PROVE  tokens'[work[v].asked].expiry = work[v].old.expiry
    BY <1>2 DEF ReadExpiry, Unmoved, Steps
  <2>1. work[v].asked \in AccessTokens /\ tokens[work[v].asked] # None
    BY <1>1 DEF RequestInv, Fields, ReadRecorded
  <2> QED
    BY <2>1 DEF RowsStill, Renewing, ReadExpiry
<1>5. ExpiredWhenMarked(v)'
  <2> SUFFICES ASSUME Marking(v) PROVE work[v].old.expiry <= now'
    BY <1>2 DEF ExpiredWhenMarked, Unmoved
  <2>1. work[v].old.expiry <= now /\ work[v].old.expiry \in Nat
    BY <1>1 DEF RequestInv, Fields, Renewing, ExpiredWhenMarked, Token
  <2> QED
    BY <1>1, <2>1
<1>6. FreshLives(v)'
  BY <1>2 DEF Renewing, FreshLives, Unmoved, Steps
<1>7. FreshCurrent(v)'
  <2> SUFFICES ASSUME Refreshed(v)
               PROVE  /\ work[v].fresh \in AccessTokens /\ tokens'[work[v].fresh] # None
                      /\ tokens'[work[v].fresh].expiredAt = None
                      /\ tokens'[work[v].fresh].expiry >= work[v].since + Lifetime
    BY <1>2 DEF FreshCurrent, Unmoved
  <2> DEFINE t == tokens[work[v].fresh]
  <2>1. /\ work[v].fresh \in AccessTokens /\ t # None /\ t.expiredAt = None
        /\ t.expiry >= work[v].since + Lifetime
    BY DEF Renewing, FreshCurrent
  <2>2. t.expiry \in Nat
    BY <1>1, <2>1 DEF TypeOK, Token
  <2>3. now <= work[v].since + MaxFlight /\ work[v].since \in Nat
    BY <1>1 DEF Refreshed, RequestInv, InFlight, Busy, At, Steps
  <2>4. ~ t.expiry <= now
    BY <1>1, <2>1, <2>2, <2>3, PeriodsAssumption
  <2> QED
    BY <2>1, <2>4 DEF RowsStill
<1> QED
  BY <1>3, <1>4, <1>5, <1>6, <1>7 DEF Renewing

\* Nothing to keep for a request that reads, marks and answers nothing.
LEMMA IdleRenewing ==
  ASSUME NEW w \in Workers, ~Refreshed(w)', ~Marking(w)', ~At(w, "check")',
         (At(w, "get") => work[w].fresh = None)', (At(w, "save") => work[w].asked = None)'
  PROVE  Renewing(w)'
BY DEF Renewing, IssuedOnce, ReadExpiry, ExpiredWhenMarked, FreshLives, FreshCurrent

LEMMA LeaveRenewing ==
  ASSUME TypeOK, NEW w \in Workers, work[w] # None, NEW step \in Ends, Leave(w, step)
  PROVE  Renewing(w)'
<1>1. work'[w].step = step
  BY LeaveEffect
<1>2. ~Refreshed(w)' /\ ~Marking(w)' /\ ~At(w, "check")' /\ ~At(w, "get")' /\ ~At(w, "save")'
  BY <1>1 DEF Refreshed, Marking, At, Ends
<1> QED
  BY <1>2, IdleRenewing

\* The rows of what a step leaves alone.
LEMMA QuietRows == ASSUME tokens' = tokens PROVE RowsStill
BY DEF RowsStill

\* Recording a token that is not on record.
LEMMA RecordRows ==
  ASSUME IInv, NEW w \in Workers, Unsaved(w), tokens' = Saved(work[w].fresh, work[w].new)
  PROVE  /\ RowsStill
         /\ tokens'[work[w].fresh] = work[w].new
<1>1. work[w].fresh \in AccessTokens /\ tokens[work[w].fresh] = None /\ TypeOK
  BY DEF IInv, RequestInv, Fields, NotRecorded
<1>2. tokens' = [tokens EXCEPT ![work[w].fresh] = work[w].new]
  BY <1>1 DEF Saved, TypeOK
<1> QED
  BY <1>1, <1>2 DEF RowsStill, TypeOK

\* Marking one that has expired.
LEMMA MarkRows ==
  ASSUME RInv, NEW w \in Workers, At(w, "old"), tokens' = Saved(work[w].asked, work[w].old)
  PROVE  /\ RowsStill
         /\ tokens'[work[w].fresh] = tokens[work[w].fresh]
<1> DEFINE a == work[w].asked
<1>1. /\ Marking(w) /\ RequestInv(w) /\ Renewing(w) /\ TypeOK
  BY DEF RInv, IInv, RequestInv, Fields, Marking, At
<1>2. /\ a \in AccessTokens /\ tokens[a] # None /\ work[w].fresh \in AccessTokens \ {a}
      /\ tokens[a].expiry <= now
  BY <1>1 DEF RequestInv, Fields, ReadRecorded, SuccessorRecorded, Renewing, ReadExpiry,
     ExpiredWhenMarked
<1>3. /\ tokens' = [tokens EXCEPT ![a] = [tokens[a] EXCEPT !.expiredAt = work[w].old.expiredAt]]
      /\ tokens[a] \in Token
  BY <1>1, <1>2 DEF Saved, TypeOK
<1>4. /\ tokens'[a] \in [grant : AccessTokens, expiry : Time, expiredAt : {work[w].old.expiredAt}]
      /\ tokens'[a].expiry = tokens[a].expiry
      /\ \A b \in AccessTokens \ {a} : tokens'[b] = tokens[b]
  BY <1>1, <1>2, <1>3 DEF Token, TypeOK
<1>5. tokens'[a] # None
  <2>1. work[w].old.expiredAt \in Nat
    BY <1>1 DEF RequestInv, MarkInFlight
  <2> QED
    BY <1>4, <2>1, NoneAssumption DEF Token
<1> QED
  BY <1>2, <1>4, <1>5 DEF RowsStill

\* One step of w.
LEMMA RenewingStep ==
  ASSUME RInv, NEW w \in Workers,
         \/ LogIn(w) \/ (\E a \in AccessTokens : Authenticate(w, a))
         \/ Serve(w) \/ Abort(w) \/ Finish(w)
  PROVE  /\ Renewing(w)' /\ RowsStill /\ now' = now
         /\ \A v \in Workers \ {w} : Unmoved(v)
<1> DEFINE Done == /\ Renewing(w)' /\ RowsStill /\ now' = now
                   /\ \A v \in Workers \ {w} : Unmoved(v)
<1>1. /\ IInv /\ TypeOK /\ RequestInv(w) /\ Renewing(w) /\ now \in Nat /\ None \notin Work
      /\ work[w] # None => work[w] \in Work /\ work[w].since \in Nat
  BY NoneAssumption DEF RInv, IInv, TypeOK, Work
<1>2. ASSUME NEW r \in Work, Arrive(w, r), r.fresh = None, r.step \in {"code", "get"}
      PROVE  Done
  <2>1. Only(w) /\ work'[w] = r /\ tokens' = tokens /\ now' = now
    BY <1>1, <1>2, ArriveEffect DEF Arrive
  <2>2. ~Refreshed(w)' /\ ~Marking(w)' /\ ~At(w, "check")' /\ ~At(w, "save")'
    BY <1>2, <2>1 DEF Refreshed, Marking, At
  <2> QED
    BY <1>2, <2>1, <2>2, IdleRenewing, QuietRows DEF Only, Unmoved
<1>3. CASE LogIn(w)
  <2>1. Blank \in Work /\ Blank.step = "code" /\ Blank.fresh = None
    BY <1>1 DEF Blank, Work, Steps
  <2> QED
    BY <1>2, <1>3, <2>1 DEF LogIn
<1>4. ASSUME NEW a \in AccessTokens, Authenticate(w, a) PROVE Done
  <2> DEFINE r == [Blank EXCEPT !.step = "get", !.asked = a]
  <2>1. r \in Work /\ r.step = "get" /\ r.fresh = None
    BY <1>1 DEF Blank, Work, Steps
  <2>2. Arrive(w, r)
    BY <1>4 DEF Authenticate
  <2> HIDE DEF r
  <2> QED
    BY <1>2, <2>1, <2>2
<1>5. CASE Finish(w)
  <2>1. work'[w] = None /\ tokens' = tokens /\ now' = now /\ \A v \in Workers \ {w} : Unmoved(v)
    BY <1>1, <1>5 DEF Finish, TypeOK, Unmoved
  <2>2. ~Refreshed(w)' /\ ~Marking(w)' /\ ~At(w, "check")' /\ ~At(w, "get")' /\ ~At(w, "save")'
    BY <2>1 DEF Refreshed, Marking, At
  <2> QED
    BY <2>1, <2>2, IdleRenewing, QuietRows
<1>6. ASSUME NEW step \in Ends, Leave(w, step), work[w] # None, tokens' = tokens, now' = now
      PROVE  Done
  <2>1. Only(w)
    BY <1>1, <1>6, LeaveEffect
  <2> QED
    BY <1>1, <1>6, <2>1, LeaveRenewing, QuietRows DEF Only, Unmoved
<1>7. CASE GoogleFails(w) \/ GiveUp(w) \/ Abort(w)
  <2>1. Failed(w) /\ work[w] # None
    BY <1>7 DEF GoogleFails, GiveUp, Abort, WantsConnection, At
  <2> QED
    BY <1>6, <2>1 DEF Failed, Ends
<1>8. CASE Account(w)
  BY <1>6, <1>8 DEF Account, Ends, At
<1>9. CASE Exchange(w)
  <2> DEFINE t == [grant |-> issued + 1, expiry |-> now + Lifetime, expiredAt |-> None]
  <2>1. /\ work[w] # None /\ work[w].asked = None /\ Issue(w, t)
        /\ tokens' = tokens /\ now' = now
    BY <1>1, <1>9 DEF Exchange, At, Issue, RequestInv, Fields
  <2>2. t \in Token
    <3>1. issued + 1 \in AccessTokens
      BY <1>1, <2>1, BoundsAssumption DEF Issue, TypeOK
    <3>2. now + Lifetime \in Nat
      BY <1>1, PeriodsAssumption
    <3>3. QED
      BY <3>1, <3>2 DEF Token
  <2> HIDE DEF t
  <2>3. Only(w) /\ work'[w].step = "info" /\ work'[w].asked = None
    BY <1>1, <2>1, <2>2, IssueEffect
  <2>4. ~Refreshed(w)' /\ ~Marking(w)' /\ ~At(w, "check")' /\ ~At(w, "get")' /\ ~At(w, "save")'
    BY <2>3 DEF Refreshed, Marking, At
  <2> QED
    BY <2>1, <2>3, <2>4, IdleRenewing, QuietRows DEF Only, Unmoved
<1>10. CASE Get(w)
  <2> DEFINE t == tokens[work[w].asked]
             r == [work[w] EXCEPT !.step = "check", !.old = t]
  <2>1. At(w, "get") /\ work[w] # None /\ tokens' = tokens /\ now' = now
        /\ work[w].asked \in AccessTokens /\ work[w].fresh = None
    BY <1>1, <1>10 DEF Get, At, RequestInv, Fields, Renewing, IssuedOnce
  <2>2. CASE ~Acceptable(t)
    BY <1>6, <1>10, <2>1, <2>2 DEF Get, Ends
  <2>3. CASE Acceptable(t)
    <3>1. t \in Token
      BY <1>1, <2>1, <2>3 DEF Acceptable, TypeOK
    <3>2. /\ r \in Work /\ r.step = "check" /\ r.old = t
          /\ r.asked = work[w].asked /\ r.fresh = None
      BY <1>1, <2>1, <3>1 DEF Work, Steps
    <3>3. work' = [work EXCEPT ![w] = r]
      BY <1>10, <2>3 DEF Get
    <3>4. Only(w) /\ work'[w] = r
      BY <1>1, <3>2, <3>3 DEF Only, TypeOK
    <3> HIDE DEF r
    <3>5. ~Refreshed(w)' /\ ~Marking(w)' /\ ~At(w, "save")' /\ ~At(w, "get")'
      BY <3>2, <3>4 DEF Refreshed, Marking, At
    <3>6. IssuedOnce(w)' /\ ReadExpiry(w)'
      BY <2>1, <3>2, <3>4, <3>5 DEF IssuedOnce, ReadExpiry
    <3>7. Renewing(w)'
      BY <3>5, <3>6 DEF Renewing, ExpiredWhenMarked, FreshLives, FreshCurrent
    <3> QED
      BY <2>1, <3>4, <3>7, QuietRows DEF Only, Unmoved
  <2> QED
    BY <2>2, <2>3
<1>11. CASE Keep(w)
  <2>1. /\ Leave(w, "account") /\ work[w] # None /\ tokens' = tokens /\ now' = now
        /\ work[w].fresh = None
    BY <1>1, <1>11 DEF Keep, At, Renewing, IssuedOnce
  <2>2. Only(w) /\ work'[w].step = "account" /\ work'[w].fresh = None
    BY <1>1, <2>1, LeaveEffect DEF Same, Steps
  <2>3. ~Refreshed(w)' /\ ~Marking(w)' /\ ~At(w, "check")' /\ ~At(w, "get")' /\ ~At(w, "save")'
    BY <2>2 DEF Refreshed, Marking, At
  <2> QED
    BY <2>1, <2>2, <2>3, IdleRenewing, QuietRows DEF Only, Unmoved
<1>12. CASE Refresh(w)
  <2> DEFINE o == work[w].old
             t == Renewed(o)
  <2>1. /\ At(w, "check") /\ work[w] # None /\ Issue(w, t) /\ o \in Token /\ o.expiry <= now
        /\ tokens' = tokens /\ now' = now /\ work[w].since <= now
        /\ tokens[work[w].asked].expiry = o.expiry
    BY <1>1, <1>12 DEF Refresh, Issue, NeedsRefresh, At, RequestInv, Fields, InFlight, Busy,
       Steps, Renewing, ReadExpiry
  <2>2. /\ t \in Token /\ t.expiry = now + Lifetime /\ Superseded(o).expiry = o.expiry
        /\ o # None /\ t.expiry >= work[w].since + Lifetime
    BY <1>1, <2>1, PeriodsAssumption, NoneAssumption DEF Token, Renewed, Superseded
  <2> HIDE DEF t
  <2>3. /\ Only(w) /\ work'[w].step = "info" /\ work'[w].asked = work[w].asked
        /\ work'[w].new = t /\ work'[w].since = work[w].since
        /\ work'[w].old = Superseded(o)
    BY <1>1, <2>1, <2>2, IssueEffect
  <2>4. ~Refreshed(w)' /\ ~At(w, "check")' /\ ~At(w, "get")' /\ ~At(w, "save")'
    BY <2>3 DEF Refreshed, At
  <2>5. Renewing(w)'
    BY <2>1, <2>2, <2>3, <2>4
       DEF Renewing, IssuedOnce, ReadExpiry, ExpiredWhenMarked, FreshLives, FreshCurrent
  <2> QED
    BY <2>1, <2>3, <2>5, QuietRows DEF Only, Unmoved
<1>13. ASSUME NEW step \in {"begin", "new"}, GoTo(w, step), Marking(w), ~At(w, "old"),
              tokens' = tokens, now' = now
       PROVE  Done
  <2>1. /\ Only(w) /\ Same(w) /\ work'[w].step = step /\ work'[w].old = work[w].old
        /\ work'[w].new = work[w].new /\ work'[w].since = work[w].since
    BY <1>1, <1>13, GoToEffect DEF Steps, Marking
  <2>2. ~Refreshed(w)' /\ ~At(w, "check")' /\ ~At(w, "get")' /\ ~At(w, "save")' /\ ~At(w, "old")'
    BY <2>1 DEF Refreshed, At
  <2>3. Renewing(w)'
    BY <1>1, <1>13, <2>1, <2>2
       DEF Renewing, IssuedOnce, ReadExpiry, ExpiredWhenMarked, FreshLives, FreshCurrent, Same
  <2> QED
    BY <1>13, <2>1, <2>3, QuietRows DEF Only, Unmoved
<1>14. CASE UserInfo(w)
  <2>1. /\ At(w, "info") /\ work[w] # None /\ tokens' = tokens /\ now' = now
    BY <1>14 DEF UserInfo, At
  <2>2. CASE work[w].asked # None /\ GoTo(w, "begin")
    BY <1>13, <2>1, <2>2 DEF Marking, At
  <2>3. CASE Leave(w, "refused")
    BY <1>6, <2>1, <2>3 DEF Ends
  <2>4. CASE /\ work[w].asked = None
             /\ work' = [work EXCEPT ![w].step = "save", ![w].new.expiry = now + Session]
    <3> DEFINE n == [work[w].new EXCEPT !.expiry = now + Session]
               r == [work[w] EXCEPT !.step = "save", !.new = n]
    <3>1. work[w] \in Work /\ n \in Token
      <4>1. work[w] \in Work /\ work[w].new \in Token
        BY <1>1, <2>1 DEF RequestInv, Fields, Unsaved
      <4> QED
        BY <1>1, <4>1, PeriodsAssumption DEF Token
    <3> HIDE DEF n
    <3>2. r \in Work /\ r.step = "save" /\ r.asked = None
      BY <2>4, <3>1 DEF Work, Steps
    <3>3. work' = [work EXCEPT ![w] = r]
      BY <2>4, <3>1 DEF n, Work
    <3>4. work'[w] = r /\ \A v \in Workers \ {w} : work'[v] = work[v]
      BY <1>1, <3>3 DEF TypeOK
    <3> HIDE DEF r
    <3>5. ~Refreshed(w)' /\ ~Marking(w)' /\ ~At(w, "check")' /\ ~At(w, "get")'
      BY <3>2, <3>4 DEF Refreshed, Marking, At
    <3> QED
      BY <2>1, <3>2, <3>4, <3>5, IdleRenewing, QuietRows DEF Unmoved
  <2> QED
    BY <1>14, <2>2, <2>3, <2>4 DEF UserInfo
<1>15. CASE Begin(w)
  <2>1. Marking(w) /\ ~At(w, "old")
    BY <1>1, <1>15 DEF Begin, Marking, At, RequestInv, Fields
  <2> QED
    BY <1>13, <1>15, <2>1 DEF Begin
<1>16. CASE Save(w)
  <2>1. /\ Unsaved(w) /\ work[w] # None /\ work[w].asked = None /\ now' = now
        /\ tokens' = Saved(work[w].fresh, work[w].new) /\ Leave(w, "account")
    BY <1>1, <1>16 DEF Save, Unsaved, At, Renewing, IssuedOnce
  <2>2. Only(w) /\ work'[w].step = "account" /\ work'[w].asked = None
    BY <1>1, <2>1, LeaveEffect DEF Same, Steps
  <2>3. ~Refreshed(w)' /\ ~Marking(w)' /\ ~At(w, "check")' /\ ~At(w, "get")' /\ ~At(w, "save")'
    BY <2>2 DEF Refreshed, Marking, At
  <2>4. RowsStill
    BY <1>1, <2>1, RecordRows
  <2> QED
    BY <2>1, <2>2, <2>3, <2>4, IdleRenewing DEF Only, Unmoved
<1>17. CASE SaveNew(w)
  <2>1. /\ Unsaved(w) /\ Marking(w) /\ ~At(w, "old") /\ work[w] # None /\ now' = now
        /\ tokens' = Saved(work[w].fresh, work[w].new) /\ GoTo(w, "old")
    BY <1>1, <1>17 DEF SaveNew, Unsaved, At, Marking, RequestInv, Fields
  <2>2. /\ Only(w) /\ Same(w) /\ work'[w].step = "old" /\ work'[w].old = work[w].old
        /\ work'[w].since = work[w].since
    BY <1>1, <2>1, GoToEffect DEF Steps
  <2>3. RowsStill /\ tokens'[work[w].fresh] = work[w].new
    BY <1>1, <2>1, RecordRows
  <2>4. /\ work[w].fresh \in AccessTokens /\ work[w].new \in Token /\ work[w].new.expiredAt = None
        /\ work[w].asked \in AccessTokens /\ tokens[work[w].asked] # None
        /\ work[w].new.expiry >= work[w].since + Lifetime
    BY <1>1, <2>1 DEF RequestInv, Fields, ReadRecorded, Renewing, FreshLives
  <2>5. ~At(w, "check")' /\ ~At(w, "get")' /\ ~At(w, "save")' /\ At(w, "old")'
    BY <1>1, <2>2 DEF At, Only
  <2>6. FreshCurrent(w)'
    BY <2>2, <2>3, <2>4, NoneAssumption DEF FreshCurrent, Same
  <2>7. ReadExpiry(w)' /\ ExpiredWhenMarked(w)'
    BY <1>1, <2>1, <2>2, <2>3, <2>4, <2>5
       DEF ReadExpiry, ExpiredWhenMarked, Renewing, RowsStill, Same
  <2>8. Renewing(w)'
    BY <2>5, <2>6, <2>7 DEF Renewing, IssuedOnce, FreshLives
  <2> QED
    BY <2>1, <2>2, <2>3, <2>8 DEF Only, Unmoved
<1>18. CASE SaveOld(w)
  <2>1. /\ At(w, "old") /\ work[w] # None /\ now' = now /\ work[w].asked # None
        /\ tokens' = Saved(work[w].asked, work[w].old) /\ GoTo(w, "commit")
    BY <1>1, <1>18 DEF SaveOld, At, RequestInv, Fields
  <2>2. Only(w) /\ Same(w) /\ work'[w].step = "commit" /\ work'[w].since = work[w].since
    BY <1>1, <2>1, GoToEffect DEF Steps
  <2>3. RowsStill /\ tokens'[work[w].fresh] = tokens[work[w].fresh]
    BY <2>1, MarkRows
  <2>4. /\ work[w].fresh \in AccessTokens /\ tokens[work[w].fresh] # None
        /\ work[w].fresh # None
    BY <1>1, <2>1, NoneAssumption DEF RequestInv, Fields, SuccessorRecorded, Work
  <2>5. ~At(w, "check")' /\ ~At(w, "get")' /\ ~At(w, "save")' /\ ~Marking(w)'
    BY <2>2 DEF At, Marking
  <2>6. Refreshed(w)
    BY <2>1, <2>4 DEF Refreshed
  <2>7. FreshCurrent(w)'
    BY <1>1, <2>2, <2>3, <2>6 DEF FreshCurrent, Renewing, Same
  <2>8. Renewing(w)'
    BY <2>5, <2>7 DEF Renewing, IssuedOnce, ReadExpiry, ExpiredWhenMarked, FreshLives
  <2> QED
    BY <2>1, <2>2, <2>3, <2>8 DEF Only, Unmoved
<1>19. CASE Commit(w)
  <2>1. /\ At(w, "commit") /\ work[w] # None /\ Leave(w, "account") /\ tokens' = tokens /\ now' = now
    BY <1>19 DEF Commit, At
  <2>2. Only(w) /\ Same(w) /\ work'[w].step = "account" /\ work'[w].since = work[w].since
    BY <1>1, <2>1, LeaveEffect DEF Steps
  <2>3. ~At(w, "check")' /\ ~At(w, "get")' /\ ~At(w, "save")' /\ ~Marking(w)'
    BY <2>2 DEF At, Marking
  <2>4. Refreshed(w)' => Refreshed(w)
    BY <2>1, <2>2 DEF Refreshed, Same
  <2>5. FreshCurrent(w)'
    BY <1>1, <2>1, <2>2, <2>4 DEF FreshCurrent, Renewing, Same
  <2>6. Renewing(w)'
    BY <2>3, <2>5 DEF Renewing, IssuedOnce, ReadExpiry, ExpiredWhenMarked, FreshLives
  <2> QED
    BY <2>1, <2>2, <2>6, QuietRows DEF Only, Unmoved
<1> QED
  BY <1>3, <1>4, <1>5, <1>7, <1>8, <1>9, <1>10, <1>11, <1>12, <1>14, <1>15, <1>16, <1>17,
     <1>18, <1>19 DEF Serve

LEMMA RenewalInvariance == ASSUME MaxFlight < Lifetime PROVE Spec => []RInv
<1>1. Init => RInv
  <2> SUFFICES ASSUME Init PROVE RInv
    OBVIOUS
  <2>1. \A w \in Workers : work[w] = None
    BY DEF Init
  <2>2. \A w \in Workers : Renewing(w)
    BY <2>1 DEF Renewing, IssuedOnce, ReadExpiry, ExpiredWhenMarked, FreshLives, FreshCurrent,
       Refreshed, Marking, At
  <2> QED
    BY <2>2, InitInv DEF RInv
<1>2. RInv /\ [Next]_vars => RInv'
  <2> SUFFICES ASSUME RInv, [Next]_vars PROVE RInv'
    OBVIOUS
  <2>1. IInv /\ IInv' /\ now \in Nat
    BY NextInv DEF RInv, IInv, TypeOK
  <2>2. ASSUME NEW w \in Workers,
               \/ LogIn(w) \/ (\E a \in AccessTokens : Authenticate(w, a))
               \/ Serve(w) \/ Abort(w) \/ Finish(w)
        PROVE  \A v \in Workers : Renewing(v)'
    <3>1. /\ Renewing(w)' /\ RowsStill /\ now' = now
          /\ \A v \in Workers \ {w} : Unmoved(v)
      BY <2>2, RenewingStep
    <3>2. ASSUME NEW v \in Workers \ {w} PROVE Renewing(v)'
      <4>1. Renewing(v) /\ Unmoved(v) /\ now <= now'
        BY <2>1, <3>1 DEF RInv
      <4> QED
        BY <2>1, <3>1, <4>1, StillRenewing
    <3> QED
      BY <3>1, <3>2
  <2>3. CASE Tick \/ UNCHANGED vars
    <3>1. tokens' = tokens /\ work' = work /\ now <= now'
      BY <2>1, <2>3 DEF Tick, vars
    <3>2. RowsStill
      BY <3>1, QuietRows
    <3> QED
      BY <2>1, <3>1, <3>2, StillRenewing DEF RInv, Unmoved
  <2> QED
    BY <2>1, <2>2, <2>3 DEF RInv, Next
<1> QED
  BY <1>1, <1>2, PTL DEF Spec

\* Only one step ends in an answer.
LEMMA OnlyAccountAnswers ==
  ASSUME IInv, Next, NEW w \in Workers, ~At(w, "answer"), At(w, "answer")'
  PROVE  Account(w)
<1>1. TypeOK /\ work'[w] # work[w] /\ work'[w] # None /\ work'[w].step = "answer"
  BY DEF IInv, At
<1>2. ~Tick
  BY <1>1 DEF Tick
<1>3. PICK v \in Workers : \/ LogIn(v) \/ (\E a \in AccessTokens : Authenticate(v, a))
                         \/ Serve(v) \/ Abort(v) \/ Finish(v)
  BY <1>2 DEF Next
<1>4. ASSUME NEW u \in Workers, \A x \in Workers \ {u} : Unmoved(x) PROVE u = w
  BY <1>1, <1>4 DEF Unmoved
<1>5. ASSUME NEW step \in Steps \cup Ends, Leave(v, step), work[v] # None
      PROVE  v = w /\ step = "answer"
  <2>1. Only(v) /\ work'[v].step = step
    BY <1>1, <1>5, LeaveEffect
  <2> QED
    BY <1>1, <1>4, <2>1 DEF Only, Unmoved
<1>6. ASSUME NEW step \in {"begin", "new", "old", "commit"}, GoTo(v, step), work[v] # None
      PROVE  FALSE
  <2>1. Only(v) /\ work'[v].step = step
    BY <1>1, <1>6, GoToEffect DEF Steps
  <2> QED
    BY <1>1, <1>4, <2>1 DEF Only, Unmoved
<1>7. ~LogIn(v) /\ ~Finish(v) /\ \A a \in AccessTokens : ~Authenticate(v, a)
  <2>1. work \in [Workers -> Work \cup {None}]
    BY <1>1 DEF TypeOK
  <2>2. ~Finish(v)
    BY <1>1, <2>1 DEF Finish
  <2>3. ASSUME NEW r, r.step # "answer" PROVE ~Arrive(v, r)
    BY <1>1, <2>1, <2>3 DEF Arrive
  <2> QED
    BY <2>2, <2>3 DEF LogIn, Authenticate, Blank
<1>8. ~Exchange(v) /\ ~Refresh(v)
  <2> SUFFICES ASSUME NEW t, Issue(v, t) PROVE FALSE
    BY DEF Exchange, Refresh
  <2>1. work'[v] # work[v] => v = w
    BY <1>1 DEF Issue, TypeOK
  <2>2. work[w] # None => work[w] \in Work
    BY <1>1 DEF TypeOK
  <2> QED
    BY <1>1, <2>1, <2>2 DEF Issue, TypeOK, Work
<1>9. ~(GoogleFails(v) \/ GiveUp(v) \/ Abort(v))
  <2> SUFFICES ASSUME GoogleFails(v) \/ GiveUp(v) \/ Abort(v) PROVE FALSE
    OBVIOUS
  <2>1. Failed(v) /\ work[v] # None
    BY DEF GoogleFails, GiveUp, Abort, WantsConnection, At
  <2> QED
    BY <1>5, <2>1 DEF Failed, Ends
<1>10. ~Get(v)
  <2> SUFFICES ASSUME Get(v) PROVE FALSE
    OBVIOUS
  <2>1. work[v] # None
    BY DEF Get, At
  <2>2. ~Leave(v, "refused")
    BY <1>5, <2>1 DEF Ends
  <2> DEFINE r == [work[v] EXCEPT !.step = "check", !.old = tokens[work[v].asked]]
  <2>3. work' = [work EXCEPT ![v] = r]
    BY <2>2 DEF Get
  <2>4. r.step = "check"
    BY <1>1, <2>1 DEF TypeOK, Work
  <2> HIDE DEF r
  <2> QED
    BY <1>1, <2>3, <2>4 DEF TypeOK
<1>11. ~Keep(v) /\ ~Save(v) /\ ~Commit(v)
  BY <1>5 DEF Keep, Save, Commit, At, Steps
<1>12. ~Begin(v) /\ ~SaveNew(v) /\ ~SaveOld(v)
  BY <1>6 DEF Begin, SaveNew, SaveOld, At
<1>13. ~UserInfo(v)
  <2> SUFFICES ASSUME UserInfo(v) PROVE FALSE
    OBVIOUS
  <2>1. work[v] # None /\ work[v] \in Work
    BY <1>1 DEF UserInfo, At, TypeOK
  <2>2. ~Leave(v, "refused") /\ ~GoTo(v, "begin")
    BY <1>5, <1>6, <2>1 DEF Ends
  <2>3. work' = [work EXCEPT ![v].step = "save", ![v].new.expiry = now + Session]
    BY <2>2 DEF UserInfo
  <2> QED
    BY <1>1, <2>1, <2>3 DEF TypeOK, Work
<1> QED
  BY <1>3, <1>5, <1>7, <1>8, <1>9, <1>10, <1>11, <1>12, <1>13 DEF Serve, Account, At, Ends

\* If requests last less than an access token lives, the token a request is
\* answered with instead of its own is on record, lives and has no successor:
\* whoever else refreshes the old one, or authenticates with the new one before
\* it is answered, cannot mark it in time (maybeRefresh, oauth2/google.go:220).
THEOREM RenewalsAreCurrent == ASSUME MaxFlight < Lifetime PROVE Spec => RenewedIsCurrent
<1>1. RInv /\ [Next]_vars =>
        [\A w \in Workers :
           ~At(w, "answer") /\ At(w, "answer")' /\ work[w].asked \notin {None, Answer(w)'} =>
             LET t == tokens[Answer(w)'] IN
               t # None /\ t.expiredAt = None /\ t.expiry > now]_vars
  <2> SUFFICES ASSUME RInv, Next, NEW w \in Workers, ~At(w, "answer"), At(w, "answer")',
                      work[w].asked \notin {None, Answer(w)'}
               PROVE  LET t == tokens[Answer(w)'] IN
                        t # None /\ t.expiredAt = None /\ t.expiry > now
    BY DEF Next
  <2>1. IInv /\ TypeOK /\ now \in Nat /\ RequestInv(w) /\ FreshCurrent(w)
    BY DEF RInv, IInv, TypeOK, Renewing
  <2>2. /\ Account(w) /\ At(w, "account") /\ work[w] # None /\ Leave(w, "answer")
    BY <2>1, OnlyAccountAnswers DEF Account, At
  <2>3. Same(w)
    BY <2>1, <2>2, LeaveEffect DEF Ends
  <2>4. Answer(w)' = work[w].fresh /\ Refreshed(w)
    BY <2>2, <2>3 DEF Answer, Same, Refreshed
  <2> DEFINE t == tokens[work[w].fresh]
  <2>5. /\ t # None /\ t.expiredAt = None /\ t.expiry >= work[w].since + Lifetime
        /\ work[w].fresh \in AccessTokens
    BY <2>1, <2>4 DEF FreshCurrent
  <2>6. t.expiry \in Nat
    BY <2>1, <2>5 DEF TypeOK, Token
  <2>7. now <= work[w].since + MaxFlight /\ work[w].since \in Nat
    BY <2>1, <2>2 DEF RequestInv, InFlight, Busy, At, Steps, TypeOK, Work
  <2>8. t.expiry > now
    BY <2>1, <2>5, <2>6, <2>7, PeriodsAssumption
  <2> QED
    BY <2>4, <2>5, <2>8
<1> QED
  BY <1>1, RenewalInvariance, PTL DEF Spec, RenewedIsCurrent
=============================================================================
