------------------------------- MODULE SignOn -------------------------------
(***************************************************************************)
(* Single sign-on: one user's browser, the services whose front-ends send  *)
(* it to /sso for a token, and the middleware by which those services ask  *)
(* Will.IAM whether a call is permitted.  Will.IAM serves all of these     *)
(* requests as module Tokens says; this module says who makes them, what   *)
(* becomes of the answers, and who ends up with which token.               *)
(*                                                                         *)
(* A refresh replaces the access token, and the new one reaches the browser*)
(* only in the answer to the request that caused it: the redirect of       *)
(* /sso/auth/valid, or the x-access-token header the middleware hands on.  *)
(*                                                                         *)
(* The front-ends are outside the repository: one keeps the token it was   *)
(* last given, drops it when it is refused (401), and goes to /sso when it *)
(* has none.  The clock's unit is longer than an answer takes to arrive.   *)
(***************************************************************************)
EXTENDS Tokens

CONSTANTS Services,   \* services with a front-end in the browser
          Sso         \* the page /sso, as a client of Will.IAM

VARIABLES storage,    \* accessToken in localStorage of the page /sso
          page,       \* the visit to /sso
          held,       \* the token each front-end holds
          client,     \* who waits for the answer of each goroutine
          lost,       \* front-ends that once did not get an answer in full
          denied      \* front-ends that once were told 403 by a renewing call

browser == <<storage, page, held, client, lost, denied>>
signVars == <<vars, browser>>

\* The page is about to have the stored token validated, waits for Will.IAM, or
\* is at Google, whose consent takes the user's click; then it returns to back.
Page == [back : Services, step : {"validate", "wait", "consent"}]

ASSUME ClientsAssumption == Sso \notin Services /\ None \notin Services \cup {Sso} \cup Page

-----------------------------------------------------------------------------
(* The page /sso *)

\* GET /sso/auth/do sends the user to Google, the referer as state.
ToGoogle(s) == [back |-> s, step |-> "consent"]

\* The page has the token of localStorage validated, if there is one.
Shown(s, token) ==
  IF token = None THEN ToGoogle(s) ELSE [back |-> s, step |-> "validate"]

Open(s) == /\ page = None
           /\ held[s] = None
           /\ page' = Shown(s, storage)
           /\ UNCHANGED <<vars, storage, held, client, lost, denied>>

Waiting(w, c) == client' = [client EXCEPT ![w] = c]

\* GET /sso/auth/valid with the stored token.
Validate(w) == /\ page # None /\ page.step = "validate"
               /\ Authenticate(w, storage)
               /\ page' = [page EXCEPT !.step = "wait"]
               /\ Waiting(w, Sso)
               /\ UNCHANGED <<storage, held, lost, denied>>

\* The user consents, and Google calls GET /sso/auth/done with a code.
Consent(w) == /\ page # None /\ page.step = "consent"
              /\ LogIn(w)
              /\ page' = [page EXCEPT !.step = "wait"]
              /\ Waiting(w, Sso)
              /\ UNCHANGED <<storage, held, lost, denied>>

\* The answer of w reaches c, which waits for it no more.
Answered(w, c, end) == /\ client[w] = c
                       /\ At(w, end)
                       /\ Finish(w)
                       /\ Waiting(w, None)

\* Redirect to /sso?accessToken=, where the page stores the token.
LoginDone(w) == /\ Answered(w, Sso, "answer")
                /\ work[w].asked = None
                /\ storage' = Answer(w)
                /\ page' = Shown(page.back, Answer(w))
                /\ UNCHANGED <<held, lost, denied>>

\* ... or an error page.
LoginFails(w) == /\ Answered(w, Sso, "refused") \/ Answered(w, Sso, "failed")
                 /\ work[w].asked = None
                 /\ page' = None
                 /\ UNCHANGED <<storage, held, lost, denied>>

\* Redirect to the front-end with the token, renewed or not; the storage keeps
\* the one the page was opened with.
Validated(w) == /\ Answered(w, Sso, "answer")
                /\ work[w].asked # None
                /\ held' = [held EXCEPT ![page.back] = Answer(w)]
                /\ page' = None
                /\ UNCHANGED <<storage, lost, denied>>

\* Redirect to /sso/auth/do, and from there to Google.
NotValid(w) == /\ Answered(w, Sso, "refused") \/ Answered(w, Sso, "failed")
               /\ work[w].asked # None
               /\ page' = ToGoogle(page.back)
               /\ lost' = IF work[w].fresh = None THEN lost ELSE lost \cup {page.back}
               /\ UNCHANGED <<storage, held, denied>>

\* Fault: the request of a closed page may still redirect the browser.
ClosedOnly == /\ page # None
              /\ page' = None
              /\ lost' = lost \cup {page.back}
              /\ UNCHANGED <<vars, storage, held, client, denied>>

\* The user closes the page; what Will.IAM still answers is lost.
Close == /\ page # None
         /\ page' = None
         /\ client' = [w \in Workers |-> IF client[w] = Sso THEN None ELSE client[w]]
         /\ lost' = lost \cup {page.back}
         /\ UNCHANGED <<vars, storage, held, denied>>

-----------------------------------------------------------------------------
(* The middleware of a service: GET /permissions/has *)

Call(w, s) == /\ held[s] # None
              /\ Authenticate(w, held[s])
              /\ Waiting(w, s)
              /\ UNCHANGED <<storage, page, held, lost, denied>>

\* Fault: the middleware hands no header on.
NeverRenews(w) == FALSE

\* handleOAuth2TokenAuth: the answer has an x-access-token header.
Renews(w) == Answer(w) # work[w].asked

\* permissionsHasHandler: 200, or 403 (and 422, which is treated alike).
Decisions == {"permitted", "forbidden"}

\* The middleware hands the header on, unless it returns before.
HandsOn(w, decision) == decision = "permitted" /\ Renews(w)

Decided(w, s) ==
  /\ Answered(w, s, "answer")
  /\ \E decision \in Decisions :
       /\ held' = IF HandsOn(w, decision) THEN [held EXCEPT ![s] = Answer(w)] ELSE held
       /\ denied' = IF decision = "forbidden" /\ Renews(w) THEN denied \cup {s} ELSE denied
  /\ UNCHANGED <<storage, page, lost>>

\* 401.
Unauthorized(w, s) ==
  /\ Answered(w, s, "refused")
  /\ held' = IF held[s] = work[w].asked THEN [held EXCEPT ![s] = None] ELSE held
  /\ UNCHANGED <<storage, page, lost, denied>>

\* 500, perhaps after a refresh.
CallFails(w, s) ==
  /\ Answered(w, s, "failed")
  /\ lost' = IF work[w].fresh = None THEN lost ELSE lost \cup {s}
  /\ UNCHANGED <<storage, page, held, denied>>

\* The HTTP client of the middleware waits for Timeout only; Will.IAM goes on.
TimedOut(w, s) ==
  /\ client[w] = s
  /\ Waiting(w, None)
  /\ lost' = lost \cup {s}
  /\ UNCHANGED <<vars, storage, page, held, denied>>

Discard(w) == /\ client[w] = None
              /\ Finish(w)
              /\ UNCHANGED browser

-----------------------------------------------------------------------------

\* No answer is on its way.
Delivered == \A w \in Workers, end \in Ends : ~At(w, end)

SignInit == /\ Init
            /\ storage = None
            /\ page = None
            /\ held = [s \in Services |-> None]
            /\ client = [w \in Workers |-> None]
            /\ lost = {}
            /\ denied = {}

SignNext ==
  \/ \E s \in Services : Open(s)
  \/ Close
  \/ \E w \in Workers :
       \/ Validate(w) \/ Consent(w)
       \/ LoginDone(w) \/ LoginFails(w) \/ Validated(w) \/ NotValid(w)
       \/ \E s \in Services : \/ Call(w, s)
                              \/ Decided(w, s)
                              \/ Unauthorized(w, s) \/ CallFails(w, s)
                              \/ TimedOut(w, s)
       \/ Discard(w)
       \/ Serve(w) /\ UNCHANGED browser
       \/ Abort(w) /\ UNCHANGED browser
  \/ Delivered /\ Tick /\ UNCHANGED browser

SignSpec == SignInit /\ [][SignNext]_signVars

-----------------------------------------------------------------------------
(* Properties *)

\* The variables have their types; a client waits only for a request that is
\* served, and the page for one request when it waits.
SignTypeOK ==
  /\ storage \in AccessTokens \cup {None}
  /\ page \in Page \cup {None}
  /\ held \in [Services -> AccessTokens \cup {None}]
  /\ client \in [Workers -> Services \cup {Sso, None}]
  /\ lost \subseteq Services /\ denied \subseteq Services
  /\ \A w \in Workers : client[w] # None => work[w] # None
  /\ \A v, w \in Workers : client[v] = Sso /\ client[w] = Sso => v = w
  /\ (page # None /\ page.step = "wait") <=> \E w \in Workers : client[w] = Sso

\* The only front-end of a browser stays signed in: the token it holds is one
\* that Will.IAM accepts, through any number of refreshes and of calls at once,
\* unless an answer that renewed it was lost, or was a 403.
StaysSignedIn ==
  \A s \in Services : held[s] # None /\ s \notin lost \cup denied => Acceptable(tokens[held[s]])

\* What the comment of ServeHTTP promises ("sets on writer the returned token"):
\* nothing but a lost answer costs the front-end its session.
ReturnedTokenIsSet ==
  \A s \in Services : held[s] # None /\ s \notin lost => Acceptable(tokens[held[s]])

\* What the README promises ("server has token in localStorage, redirects back
\* with stored token. No buttonclicks"): a user whose browser got every answer
\* is asked for consent again only when no token of the stored grant is live.
NoButtonclicks ==
  [][\A w \in Workers :
       NotValid(w) /\ At(w, "refused") /\ lost \cup denied = {} =>
         ~ \E b \in AccessTokens :
             /\ tokens[b] # None
             /\ tokens[b].grant = tokens[storage].grant
             /\ tokens[b].expiredAt = None]_signVars
=============================================================================
