------------------------------- MODULE Tokens -------------------------------
(***************************************************************************)
(* The OAuth2 tokens of Will.IAM: what Google issued, the table in which   *)
(* Will.IAM keeps it, and the requests that log in with a code or          *)
(* authenticate with an access token, refreshing it when it has expired.   *)
(*                                                                         *)
(* A refresh is a chain of separate steps: read the row, ask Google twice, *)
(* open a transaction, save the new row and then the old one.  The saves   *)
(* use the outer repository, so each takes a connection of its own and     *)
(* commits by itself while the transaction holds an idle one.  Requests    *)
(* interleave between any two steps, and time passes.                      *)
(*                                                                         *)
(* The clock is that of the processes and of the database alike.  Access   *)
(* tokens are numbered in the order Google issues them; a refresh token is *)
(* named after the access token it came with, its grant.                   *)
(***************************************************************************)
EXTENDS Naturals, FiniteSets

CONSTANTS Workers,    \* goroutines serving requests
          None,       \* absent value (NULL, the zero time)
          Lifetime,   \* how long Google lets an access token live
          Session,    \* ... and Will.IAM the one of a login (14 days)
          Grace,      \* how long a superseded token is still accepted (60 s)
          PoolSize,   \* connections to the database
          MaxFlight,  \* the longest a request takes
          MaxTokens,  \* bound: access tokens Google issues
          MaxLogins,  \* bound: logins
          MaxTime     \* bound: the clock

VARIABLES now,        \* the clock
          logins,     \* logins so far
          issued,     \* how many access tokens Google has issued
          tokens,     \* table tokens, by access token
          work        \* the request each goroutine serves

vars == <<now, logins, issued, tokens, work>>

AccessTokens == 1 .. MaxTokens
Time == Nat

Token == [grant : AccessTokens, expiry : Time, expiredAt : Time \cup {None}]

Steps == {"code", "get", "check", "info", "save", "begin", "new", "old", "commit",
          "account"}
Ends  == {"answer", "refused", "failed"}

\* A request: the access token it came with (None: it came with a code), the
\* one Google issued for it, the rows to save, and when it came.
Work == [step : Steps \cup Ends, asked : AccessTokens \cup {None},
         fresh : AccessTokens \cup {None}, old : Token \cup {None},
         new : Token \cup {None}, since : Time]

ASSUME PeriodsAssumption ==
  /\ Lifetime \in Nat \ {0} /\ Session \in Nat \ {0}
  /\ Grace \in Nat /\ MaxFlight \in Nat
ASSUME BoundsAssumption == {PoolSize, MaxTokens, MaxLogins, MaxTime} \subseteq Nat
ASSUME NoneAssumption == None \notin Nat \cup Token \cup Work

-----------------------------------------------------------------------------
(* The rows *)

\* Superseded, and its grace is over.
Dead(t) == t # None /\ t.expiredAt # None /\ t.expiredAt + Grace <= now

\* tokens.Get: the row is found.
Acceptable(t) == t # None /\ ~Dead(t)

\* Fault: a superseded token past its expiry is refreshed once more.
ExpiredOnly(t) == t.expiry <= now

\* maybeRefresh: past its expiry and not superseded.
NeedsRefresh(t) == t.expiry <= now /\ t.expiredAt = None

\* Faults: the refresh token is that of the response, which has none; the old
\* row is not a clone, so the new one is marked; the expiry is left as it was.
RenewedWithoutGrant(t) == [t EXCEPT !.expiry = now + Lifetime, !.grant = None]
RenewedAliased(t)      == [t EXCEPT !.expiry = now + Lifetime, !.expiredAt = now]
RenewedUnextended(t)   == t

\* The new row of a refresh: t with the issued access token and its expiry.
Renewed(t) == [t EXCEPT !.expiry = now + Lifetime]

\* The old one: a clone of t from before, marked.
Superseded(t) == [t EXCEPT !.expiredAt = now]

\* tokens.Save: a row that is there keeps all but its mark.
Saved(a, t) ==
  [tokens EXCEPT ![a] = IF @ = None THEN t ELSE [@ EXCEPT !.expiredAt = t.expiredAt]]

-----------------------------------------------------------------------------
(* Connections *)

At(w, step) == work[w] # None /\ work[w].step = step

\* Transactions open: each keeps its connection to the end.
Holding == {w \in Workers : At(w, "new") \/ At(w, "old") \/ At(w, "commit")}

FreeConnection == Cardinality(Holding) < PoolSize

\* The next step of w needs a connection from the pool.
WantsConnection(w) ==
  \E step \in {"get", "save", "begin", "new", "old", "account"} : At(w, step)

-----------------------------------------------------------------------------
(* Requests *)

Arrive(w, request) == /\ work[w] = None
                      /\ work' = [work EXCEPT ![w] = request]
                      /\ UNCHANGED <<now, issued, tokens>>

Blank == [step |-> "code", asked |-> None, fresh |-> None, old |-> None,
          new |-> None, since |-> now]

\* ExchangeCode for a code, Authenticate for an access token.
LogIn(w) == /\ logins < MaxLogins
            /\ logins' = logins + 1
            /\ Arrive(w, Blank)
Authenticate(w, a) == /\ a \in 1 .. issued
                      /\ UNCHANGED logins
                      /\ Arrive(w, [Blank EXCEPT !.step = "get", !.asked = a])

GoTo(w, step) == work' = [work EXCEPT ![w].step = step]

\* What w read and wrote is of no more use; at its end, when it came is not.
Leave(w, step) ==
  work' = [work EXCEPT ![w].step = step, ![w].old = None, ![w].new = None,
                       ![w].since = IF step \in Ends THEN 0 ELSE @]

\* Google issues an access token for w, which will save it as row new.
Issue(w, new) ==
  /\ issued < MaxTokens
  /\ issued' = issued + 1
  /\ work' = [work EXCEPT ![w].step = "info", ![w].fresh = issued + 1,
                          ![w].new = new,
                          ![w].old = IF @ = None THEN None ELSE Superseded(@)]
  /\ UNCHANGED <<now, logins, tokens>>

\* tokenFromCode.
Exchange(w) ==
  /\ At(w, "code")
  /\ Issue(w, [grant |-> issued + 1, expiry |-> now + Lifetime, expiredAt |-> None])

\* tokens.Get.
Get(w) ==
  /\ At(w, "get")
  /\ FreeConnection
  /\ LET t == tokens[work[w].asked] IN
       IF Acceptable(t)
         THEN work' = [work EXCEPT ![w].step = "check", ![w].old = t]
         ELSE Leave(w, "refused")
  /\ UNCHANGED <<now, logins, issued, tokens>>

\* maybeRefresh: nothing to do,
Keep(w) ==
  /\ At(w, "check")
  /\ ~NeedsRefresh(work[w].old)
  /\ Leave(w, "account")
  /\ UNCHANGED <<now, logins, issued, tokens>>

\* ... or the refresh token is traded for a new access token.
Refresh(w) ==
  /\ At(w, "check")
  /\ NeedsRefresh(work[w].old)
  /\ Issue(w, Renewed(work[w].old))

\* getUserInfo: for a login the domain is checked and the expiry is extended.
UserInfo(w) ==
  /\ At(w, "info")
  /\ \/ /\ work[w].asked # None
        /\ GoTo(w, "begin")
     \/ /\ work[w].asked = None
        /\ work' = [work EXCEPT ![w].step = "save", ![w].new.expiry = now + Session]
     \/ /\ work[w].asked = None
        /\ Leave(w, "refused")
  /\ UNCHANGED <<now, logins, issued, tokens>>

\* The save of a login.
Save(w) ==
  /\ At(w, "save")
  /\ FreeConnection
  /\ tokens' = Saved(work[w].fresh, work[w].new)
  /\ Leave(w, "account")
  /\ UNCHANGED <<now, logins, issued>>

\* The transaction of a refresh, and the two saves beside it.
Begin(w) ==
  /\ At(w, "begin")
  /\ FreeConnection
  /\ GoTo(w, "new")
  /\ UNCHANGED <<now, logins, issued, tokens>>

SaveNew(w) ==
  /\ At(w, "new")
  /\ FreeConnection
  /\ tokens' = Saved(work[w].fresh, work[w].new)
  /\ GoTo(w, "old")
  /\ UNCHANGED <<now, logins, issued>>

SaveOld(w) ==
  /\ At(w, "old")
  /\ FreeConnection
  /\ tokens' = Saved(work[w].asked, work[w].old)
  /\ GoTo(w, "commit")
  /\ UNCHANGED <<now, logins, issued>>

Commit(w) ==
  /\ At(w, "commit")
  /\ Leave(w, "account")
  /\ UNCHANGED <<now, logins, issued, tokens>>

\* The account of the address is found or created (module AccessControl); a
\* login takes no notice when it cannot be looked up.
Account(w) ==
  /\ At(w, "account")
  /\ FreeConnection \/ work[w].asked = None
  /\ Leave(w, "answer")
  /\ UNCHANGED <<now, logins, issued, tokens>>

-----------------------------------------------------------------------------
(* Failures: the request ends, its transaction is rolled back *)

Failed(w) == Leave(w, "failed") /\ UNCHANGED <<now, logins, issued, tokens>>

\* Google is unreachable, or refuses the code or the refresh token.
GoogleFails(w) ==
  /\ \/ At(w, "code") \/ At(w, "info")
     \/ At(w, "check") /\ NeedsRefresh(work[w].old)
  /\ Failed(w)

\* Fault: a request waits for a connection as long as it takes.
NeverGiveUp(w) == FALSE

\* The pool has had no connection for PoolTimeout.
GiveUp(w) ==
  /\ WantsConnection(w)
  /\ ~FreeConnection
  /\ Failed(w)

\* The database fails, or the process dies.
Abort(w) ==
  /\ \E step \in Steps : At(w, step)
  /\ Failed(w)

-----------------------------------------------------------------------------

\* What the request is answered with: the token asked with, or its successor.
Answer(w) == IF work[w].fresh = None THEN work[w].asked ELSE work[w].fresh

\* The response is on its way.
Finish(w) ==
  /\ \E end \in Ends : At(w, end)
  /\ work' = [work EXCEPT ![w] = None]
  /\ UNCHANGED <<now, logins, issued, tokens>>

Tick ==
  /\ now < MaxTime
  /\ \A w \in Workers :
       work[w] # None /\ work[w].step \notin Ends => now < work[w].since + MaxFlight
  /\ now' = now + 1
  /\ UNCHANGED <<logins, issued, tokens, work>>

Init == /\ now = 0
        /\ logins = 0
        /\ issued = 0
        /\ tokens = [a \in AccessTokens |-> None]
        /\ work = [w \in Workers |-> None]

\* What the program and the services it calls do for w.
Serve(w) == \/ Exchange(w) \/ Get(w) \/ Keep(w) \/ Refresh(w) \/ UserInfo(w)
            \/ Save(w) \/ Begin(w) \/ SaveNew(w) \/ SaveOld(w) \/ Commit(w)
            \/ Account(w) \/ GoogleFails(w) \/ GiveUp(w)

Next == \/ \E w \in Workers : \/ LogIn(w)
                              \/ \E a \in AccessTokens : Authenticate(w, a)
                              \/ Serve(w) \/ Abort(w) \/ Finish(w)
        \/ Tick

Spec == Init /\ [][Next]_vars

\* A goroutine goes on as soon as it can; Google answers, if only to refuse.
FairSpec == Spec /\ \A w \in Workers : WF_vars(Serve(w) \/ Finish(w))

-----------------------------------------------------------------------------
(* Properties *)

\* The variables have their types.
TypeOK == /\ now \in Time
          /\ logins \in Nat
          /\ issued \in 0 .. MaxTokens
          /\ tokens \in [AccessTokens -> Token \cup {None}]
          /\ work \in [Workers -> Work \cup {None}]

\* A token is superseded only when its successor is on record: another row of
\* the same grant that expires after the moment it was superseded.  The saves
\* of a refresh are two transactions, several requests may refresh the same
\* token at once, and each may stop half-way.
SupersededHasSuccessor ==
  \A a \in AccessTokens :
    tokens[a] # None /\ tokens[a].expiredAt # None =>
      \E b \in AccessTokens \ {a} :
        /\ tokens[b] # None
        /\ tokens[b].grant = tokens[a].grant
        /\ tokens[b].expiry > tokens[a].expiredAt

\* A token that a request is answered with instead of its own is current when
\* the answer is made: on record, not expired, and not superseded meanwhile.
RenewedIsCurrent ==
  [][\A w \in Workers :
       ~At(w, "answer") /\ At(w, "answer")' /\ work[w].asked \notin {None, Answer(w)'} =>
         LET t == tokens[Answer(w)'] IN
           t # None /\ t.expiredAt = None /\ t.expiry > now]_vars

\* A token whose grace is over is never accepted again, whatever the requests
\* that read it before still write.  It takes requests that last less than
\* half the grace: one that read the row before it was superseded marks it
\* again, with its own time.
DeadStaysDead == [][\A a \in AccessTokens : Dead(tokens[a]) => Dead(tokens[a])']_vars

\* Every request ends, though refreshes holding every connection of the pool
\* all wait for one more.
RequestsEnd == \A w \in Workers : work[w] # None ~> work[w] = None
=============================================================================
