# A TLA+ model of Will.IAM

Will.IAM keeps who may do what: service accounts, roles, the permissions of
roles, the services the permissions are about, requests for permissions and the
tokens of people who logged in with Google. This directory holds TLA+ modules
that model it, TLC configurations that check them on small instances, and
TLAPS proofs of the main theorems for all instances.

    tlc -config MCAccessControl.cfg MCAccessControl.tla
    tlapm AccessControlProofs.tla

`PROJECT.json` lists the runs, the lines of source each definition stands for,
the faults each property was seen to catch, the hazards and the findings.

## The system

An HTTP API (`api/`) over use cases (`usecases/`) over repositories
(`repositories/`), which send SQL to one PostgreSQL database at its default
isolation, READ COMMITTED. Every request is served by a goroutine of its own;
several processes may run behind a balancer. All shared state is in the
database: nothing is locked between two statements of one request unless they
are in one transaction (`WithPGTx`), and then only by what the statements write.

| Part | State | Operations | What makes it correct |
|---|---|---|---|
| permission algebra (`models/permission.go`, SQL of `HasPermission`) | none | `Contains`, `PermissionMatches`, `IsPresent`, `HasPermission` | the two evaluators agree; containment is inclusion of resources; handing out never adds rights |
| service accounts | `service_accounts` | create or update with nested roles and permissions, first login, picture write-back | one account per address; always bound to its base role; owner checks before every write |
| roles and bindings | `roles`, `role_bindings` | create, update, create permission | rows and bindings replaced as a whole; rights conserved |
| permissions | `permissions` | delete, attribute, attribute to e-mails | only owners give, lend or take |
| services | `services` | create, update | founders own the permission name |
| middleware | none | authentication, route guard | the guard is asked before the handler |
| permission requests | `permissions_requests` | create, grant, deny, list | one open request per permission; decided once, by an owner; granted with the row |
| transactions (`WithPGTx`) | connection | begin, commit, rollback | always ended |
| OAuth2 tokens (`oauth2/google.go`) | `tokens` | exchange, authenticate, refresh | a client is not locked out by a refresh, nor kept in after expiry |
| single sign-on (`api/authentication_handlers.go`, `assets/sso`) | the browser's `localStorage` | open, log in, validate, return | a signed-in user is not asked again |
| client middleware (`pkg/http`) | one HTTP client | ask `/permissions/has`, pass on the refreshed token | the caller gets the refreshed token |
| `/am`, pagination | none | reads | lists what the caller may be granted |

The hard parts: checks and the writes they allow are separate steps (a
permission may be revoked between them); rows are read in one statement and
written back in another; two requests look for the same missing thing and both
create it; two tables are written for one decision; permissions are evaluated
by two programs in two languages; a refresh replaces the token a client sent,
over two transactions, while other requests with the same token are under way
and the answer that carries the new one may never arrive.

## The modules

| Module | Models |
|---|---|
| `Permission` | permissions, hierarchies, the SQL and the Go evaluator, the owner's version of a permission |
| `MCPermission` | all pairs of permissions up to a depth; chains of hand-outs |
| `PermissionProofs` | lemmas on the operators of `Permission`, for all depths and alphabets |
| `AMListing` | the access manager's listing: what may follow a prefix, and what of it the account has |
| `RequestList` | which open permission requests an account is shown: a third evaluator |
| `HandOutProofs` | that it agrees with the one that decides; chains of hand-outs of any length, and the evaluators and the listing on what they reach |
| `AccessControl` | accounts, roles, bindings, rows, services; every request that changes them, in steps |
| `AccountLists` | lists of accounts and their pages, the holders of a permission |
| `MCAccessControl` | a small organisation and the requests its people send |
| `AccessControlProofs` | type correctness and conservation of rights |
| `AccountsProofs` | unique addresses, base roles, founders, who is bound to which right, lists and pages |
| `Registry` | abstract: what an administrator may rely on when several requests change roles, accounts and services |
| `Updates` | those requests as transactions, statement by statement, and the locks they wait for |
| `MCUpdates` | two people, their base roles, a team, a service and ten requests |
| `UpdatesProofs` | types, the refinement of `Registry`, what a deadlock takes |
| `RequestDesk` | abstract: what the permission-request desk promises |
| `PermissionsRequests` | the desk's transactions, statement by statement |
| `MCPermissionsRequests` | one permission, a requester, two moderators |
| `PermissionsRequestsProofs` | types, one open request, atomic grants, the refinement of `RequestDesk` |
| `Tokens` | the token table, login, authentication and refresh in steps, the pool of connections, time |
| `MCTokens` | two goroutines, two connections, three tokens |
| `TokensProofs` | types, successors on record, no revival, renewals are current |
| `SignOn` | a browser, the page `/sso`, front-ends and the client middleware, on top of `Tokens` |
| `MCSignOn` | one front-end, or two that share the page |
| `SignOnProofs` | types, `Tokens` holds of sign-on, the session lasts |

`PermissionsRequests` implements `RequestDesk` and `Updates` implements
`Registry`, each through a refinement mapping checked as a property and proved; `AMListing`
and `RequestList` extend `Permission`, `AccountLists` extends `AccessControl`;
`SignOn` extends `Tokens` and
joins its actions with those of the clients; `AccessControl`,
`RequestDesk` and `PermissionsRequests` extend `Permission`; the proof modules
extend what they prove about.

### Permission

A permission string is split on `::`, and so is the hierarchy at its end; a
hierarchy is the sequence of its parts. The loops of `Contains` and
`PermissionMatches` are written as quantifiers over positions. `SqlGrants` is
one row of the `WHERE` clause of `ServiceAccounts.HasPermission`, `GoGrants`
one iteration of `Permission.IsPresent`. `Denotes` is the reference definition:
the resources a hierarchy stands for, as the README describes complete and open
hierarchies.

### AccessControl

`accounts`, `roles`, `bindings`, `rows`, `services` are the tables, `job[w]`
what goroutine `w` is doing. `Arrive` takes a request past authentication and
the guard of its route; `CheckRoles`, `CheckPerms`, `CheckOwner` are the
handlers' checks, each its own read of the database; the other actions are the
use cases, one per transaction. `Fail` ends a request with no effect at any
step: a refused check, a violated constraint, a lost connection, a dead
process. Constraints (unique names and addresses, foreign keys) are guards of
the transactions that would violate them.

A login is modelled from the moment the identity provider has vouched for an
address: find the account, create it if it is missing, or write back the row
with the new picture.

What is abstracted: permission aliases, role names, key pairs and the text of
responses; a body's lists are sets; ids that do not exist in a path are
represented by ids not created yet. Levels in bodies are RO or RL, as
`BuildPermission` demands. Service updates are in `Updates`.

### AccountLists, RequestList, AMListing

What the API shows, each from a query or a program of its own, next to what
decides. `AccountLists` has the pages of accounts (`Offset`, `Page`) and the query
that goes from a permission to the accounts that have it (`Holders`).
`RequestList` has the query behind the list of open requests, with its `LIKE`:
an owner of the complete hierarchy `x::y` is shown requests for `x::y::z`, which
the desk does not let him decide; the other way round nobody misses a request
he can decide, unless the row that lets him has a wildcard before its end.
`AMListing` is the completion of permissions: `ListPermissions` and its parts
make the entries of a prefix, `MaybeAddStarPermissions` puts the wildcard in
front, `List` asks for the two flags of every complete entry in one list
(`Questions`, the first loop of `am.List`) and gives them back by position
(`Flagged`, the second). `Kept` is the loop by which the lists are filtered.
`ServiceAM` is what a service answers to its own `GET /am`, which is external:
`Answer` says in which form, without which the flags would mean little (a
service that flags an entry which is not complete has its flag passed on). A prefix is a
sequence of parts, and what is typed of the last part is nothing or all of it;
the code completes partial names too. `Guards` are the permissions the routes of
`App.GetRouter` demand: of everything, of a role, of an account, of a service.
The listing offers the permission for everything under each of their actions,
and single hierarchies under the actions on roles only (`am.go:205-210`): who
may edit one account, and no other, is told of no permission that says so.
`ListingLeadsToGuards` claims no more than that.

### Updates

`rows` are the committed rows of `permissions` and `role_bindings`, `records`
the committed columns of accounts, roles and services, `tx[w]` the transaction
of goroutine `w`. A request is a program (`Program`): the sequence of
statements its use case sends, in the order of its loops. `insert` is `INSERT`
with or without `ON CONFLICT DO NOTHING`, `delete` the `DROP`s by role or
account, `save` the `UPDATE` of one record, which for accounts and services
writes every column, those the request does not change as they were read
(`Saved`); `skip` is the `continue` that passes over the base role in an
account's list (`Pass`). A statement has two halves, since PostgreSQL may make it wait twice:
`EnterKey` (the unique index) and `CheckReferences` (the key-share locks of the
foreign keys), `Pick` (what the statement sees) and `Remove` (the row locks),
`TakeRecord` (the row lock) and `EnterKeys` (the unique indexes of names and
addresses). `WaitsFor` says who waits for whom and is the one place that models
the database. A circle of waiting transactions (`Circle`) is broken by ending
one of them (`Victim`); `Abort` ends any at any time.

`DeadlocksAreProvoked` says what it takes to be broken off so: in every circle
somebody renames an account or a role, lists permissions, roles or accounts in
another order than the rest, or has deleted rows (which another of the circle is
putting back), or a role update meets an account update, which write
`permissions` and `role_bindings` in opposite orders.

`Registry` is the abstract program: a request comes, and takes effect as a whole
or leaves. `since` is a history variable for it: what overlapping requests put
in the way of a request, what they took away, and the values its record had
meanwhile. Only the abstract program reads it. What `Registry` allows is what
the code does and no more: two updates of one role at once may leave the union
of their lists (each deletes only what it sees), a column that a request does
not mention may fall back to a value it had while the request ran.

Two simplifications: the removal of the picked rows is one step although
PostgreSQL locks them one by one, and so is the check of the two references of
a binding. Permissions, accounts and roles in the lists of one request are
distinct unless the request says otherwise; ids are those of existing records.

### PermissionsRequests

`requests` and `rows` are the committed tables; `tx[w]` is the transaction of
goroutine `w` with what it has written and not committed. A statement sees the
committed tables as of its start. `WaitsFor` says for which
transactions PostgreSQL makes a statement wait: an `UPDATE` for another
transaction that updated the row (`Wrote`), an `INSERT .. ON CONFLICT` for one
that is inserting the same key or giving it up (`HasKey`, or the row of a
permission). A statement is executed when it waits for nobody (`Free`). This is the model of an
external program and is stated in one place. Nothing here breaks circles of
waiting transactions (`Circle`), since there are none: `NoCircles`. `Abort` can end a transaction at any
point. `GiveRow` and `TakeRow` are the other routes of the API.

`since` is a history variable: who owned the permission, and whether the
requester had it, at some moment since the request was opened. Only the
abstract desk and the properties read it.

### Tokens

`tokens` is the table, by access token; `work[w]` the request goroutine `w`
serves: the token it came with (`asked`; none for a login), the one Google
issued for it (`fresh`), and the rows it is going to save. `Exchange`,
`UserInfo`, `Save` are `ExchangeCode`; `Get`, `Keep` or `Refresh`, `UserInfo`,
`Begin`, `SaveNew`, `SaveOld`, `Commit` are `Authenticate` with `maybeRefresh`;
`Account` is what the use case adds. The closure that `maybeRefresh` passes to
`WithPGTx` saves through `g.repo`, not through the `repo` it is given, so both
saves are outside the transaction: each needs a connection (`FreeConnection`)
while the transaction keeps its own, and each is committed at once.
`GoogleFails`, `GiveUp` (the pool's timeout) and `Abort` (the database fails,
the process dies) end a request at any step.

Time is an integer clock shared by processes and database; the code compares
`time.Now()` of a process with `now()` of the database. `MaxFlight` bounds how
long a request takes. The code has no such bound for calls to Google; what
depends on it says so. Google is external: it issues tokens that live
`Lifetime`, or fails. A row is named by its access token, and the refresh token
by the access token it first came with (`grant`). The response to a refresh
carries no refresh token, and the code keeps the old one. E-mail addresses and
the fourteen days a login is given although Google's token lives an hour are
kept as `grant` and `Session`.

### SignOn

`storage` is `localStorage` of the page, `page` the visit to it, `held[s]` the
token the front-end of service `s` holds, `client[w]` who waits for the answer
of goroutine `w`. The page's script is `Shown`; `Validate` and `Consent` send
the browser's requests, `LoginDone`, `Validated` and `NotValid` are the
redirects of the handlers. `Call`, `Decided`, `Unauthorized` and `CallFails` are
the middleware around `/permissions/has`, whose verdict is nondeterministic
(`Permission` has it), and `TimedOut` its HTTP client. The middleware is enabled.
How a front-end treats its token is not in the repository: it is assumed to
keep the one it was last given and to go to `/sso` when it has none or was
refused (401). An answer arrives before the clock's next tick or is lost.

## What is checked

| Run | Shows | Bounds | Size |
|---|---|---|---|
| `permission` | `EvaluatorsAgree`, `SqlIsStricter`, `ContainsIsInclusion`, `ChainsConserveRights`, `RequestsReachDeciders`, `ListingTellsRights`, `ListingLeadsToGuards` | hierarchies of 1-3 parts over two names and the wildcard; services and actions only as wildcards, since the evaluators compare them alike; listings of 2 roles and 1 service, guards of 2 roles, 1 account and 1 service; an account with two rows | 80 thousand states |
| `permission_matches` | a counterexample to `MatchesAreComplete` | the same | |
| `access` | `TypeOK`, `RightsConserved`, `CheckedConserved`, `OneAccountPerAddress`, `BaseBindingKept`, `FoundersOwnTheirService`, `ListedAreLetThrough`, `BindingsConserved` | 2 goroutines, 3 requests, 4 accounts, 5 roles; pages of 1 and 2 | 1.4 million states |
| `base_role` | a counterexample to `BaseBindingKept` when a base role is updated as a role | 1 goroutine | |
| `address` | a counterexample to `AddressKeepsAccount` | 1 goroutine | |
| `requests` | `TypeOK`, `OneOpenRequest`, `NoCircles`, `GrantIsAtomic`, `DeskSpec`: the refinement, and `TxEnds`: every transaction ends | 2 goroutines, 4 transactions, 2 requests, 2 changes by other routes | 120 thousand states |
| `requests_decided_twice` | a counterexample to `DecidedOnce` | 2 goroutines | |
| `updates` | `TypeOK`, `BookSpec`: the refinement of `Registry`, `TxEnds`, `DeadlocksAreProvoked` | 2 goroutines, 3 requests out of 10, 2 accounts, 3 roles, 2 permissions, 1 service | 80 thousand states |
| `tokens` | `TypeOK`, `SupersededHasSuccessor`, `RenewedIsCurrent`, `DeadStaysDead`, `RequestsEnd` | 2 goroutines, pool of 2, 3 tokens, 1 login; lifetime 2, session 1, grace 3, flight 1, clock to 4 | 200 thousand states |
| `sign_on` | `SignTypeOK`, `StaysSignedIn` | 2 goroutines (symmetric), 1 front-end, 2 logins, the same periods, no shortage of connections | 1.2 million states |
| `renewal_dropped` | a counterexample to `ReturnedTokenIsSet` | 1 goroutine | |
| `consent_again` | a counterexample to `NoButtonclicks` | 1 goroutine, 2 front-ends | |

Why the bounds are enough. The hazards of `AccessControl` need a check, a
change by somebody else and the write: two goroutines; and a third request sent
after them to build on what they left (a second hand-out in a chain, a login
after an update). The instance has an owner of everything in a branch, an owner
of one leaf and a role both can reach, so that owner checks accept some of the
requests and refuse others; the roles an account is created or updated with are
among them, and what they give changes between the check and the write. In
`access`, roles are updated only where the role
list shows them, which hides base roles; `base_role` lifts that and shows what
happens. Accounts are updated with the address they have. In `requests`, four
transactions allow a creation, two racing decisions and a re-creation or a
third decision; the two changes let a moderator gain and lose ownership, and
the requester's row appear or vanish under a grant. In `updates`, every pair of
the ten requests can overlap, statement by statement, and a third one follows
on what they left; among them are two updates of one role with different lists,
one of them a rename, two account updates that compete for a name, an
attribution that meets the rows of the others, and two partial updates of one
service. Two transactions reach most kinds of deadlock: lists in opposite
orders, two updates of a role of which one renames it, a role update with a
renaming update of an account it binds, an attribution that puts back a row a
role update has deleted while that update waits for another row of the
attribution. A circle in which nobody renames or deletes anything and all lists
are in one order takes three goroutines, a role update, an account update and
an attribution; the run has two, and the theorem `DeadlocksHaveReasons` covers
any number.
`ListedAreLetThrough` looks at the states in which no request is under way:
every content of the tables is met there, since any request may fail. In `tokens`, two refreshes
of one token need three tokens and two goroutines, and with a pool of two they
exhaust it; a token can be issued, refreshed, superseded, marked again by the
slower request and dead by 4. `DeadStaysDead` fails when `MaxFlight` is 2 with
the same grace (twice the flight must stay below the grace), `RenewedIsCurrent`
when a token lives no longer than a request. The session is shorter than the
lifetime so that more refreshes fit the clock; nothing in the code compares the
two. `StaysSignedIn` is about a browser with one front-end: with two, the
renewal of one leaves the other with the superseded token.

`CHECK_DEADLOCK` is off in the runs that stop when the bounded number of
requests is used up, or the clock; blocked transactions and requests are what `TxEnds` and
`RequestsEnd` are about.

### Fairness

`requests` and `updates` assume weak fairness of every worker's next
statement, and `updates` that the database breaks every circle of transactions
that wait for each other, as PostgreSQL does after `deadlock_timeout`. A
goroutine in a transaction is not waiting for anything but the database, and the
database answers every statement whose locks are free.
`tokens` assumes that a goroutine goes on when it can, which includes giving up
on the pool after its timeout, and that Google answers, if only with an error.
Nothing is assumed about clients sending requests, nor about aborts or the
clock.

## What is proved

Every theorem is for all values of the constants that satisfy the named
assumptions of the modules: any number of goroutines, requests, accounts, roles,
permissions and tokens, any bounds on calls and on the clock. The assumptions
are what the routes and `Validate` methods let through (`RequestsAssumption`,
`UpdatesAssumption` with `WellFormed`), that ids of roles, accounts and services can be
parts of a hierarchy (`ListsAssumption` of `AMListing`), the form of services' own answers
(`ServiceAMAssumption`), what the schema guarantees of the tables
a behaviour starts with (`InitAssumption`, `IndexesAssumption`, the unique names
in `UpdatesAssumption`), and that values which stand for different things differ
(`StarAssumption`, `NoneAssumption`, `ClientsAssumption`). TLC evaluates them in
the runs.

| Theorem | States | Hypotheses |
|---|---|---|
| `PermissionProofs`: `ContainsTransitive`, `OwnershipTransitive`, `SqlStricter`, `EvaluatorsAgreeWhenWellFormed`, `ContainsInclusion` | facts about the operators, at any depth | `ContainsInclusion`: there is a segment |
| `HandOutProofs`: `NoChainCreatesRights`, `HandlersAgree`, `SqlStaysStricter`, `RequestsAreFound`, `ContainingIsIncluding` | `ChainsConserveRights`, `EvaluatorsAgree`, `SqlIsStricter`, `RequestsReachDeciders`, `ContainsIsInclusion` | the last: there is a segment |
| `HandOutProofs`: `ListTellsRights` | the flags of a listing are the routes' answers, for every prefix, set of rows and list of services and roles | rows written with wildcards last; services answer as `Answer` says |
| `HandOutProofs`: `ListingsTellRights`, `GuardsAreLedTo` | `ListingTellsRights`, `ListingLeadsToGuards` | |
| `AccessControlProofs`: `TypeCorrect`, `RightsAreConserved` | `TypeOK`, `RightsConserved` | |
| `AccountsProofs`: `ChecksAreConserved`, `BindingsAreConserved`, `AddressesAreUnique` | `CheckedConserved`, `BindingsConserved`, `OneAccountPerAddress` | |
| `AccountsProofs`: `BaseBindingsStay`, `FoundersOwnTheirServices` | `BaseBindingKept`, `FoundersOwnTheirService` | base roles bound at the start and never updated as roles |
| `AccountsProofs`: `ListedPassGuards` | `ListedAreLetThrough` | the table starts finite |
| `PermissionsRequestsProofs`: `TypeCorrect`, `OneOpenAtATime`, `DeskNeverDeadlocks`, `GrantsAreAtomic`, `ImplementsDesk` | `TypeOK`, `OneOpenRequest`, `NoCircles`, `GrantIsAtomic`, `DeskSpec` | |
| `UpdatesProofs`: `TypeCorrect`, `ImplementsRegistry`, `DeadlocksHaveReasons` | `TypeOK`, `BookSpec`, `DeadlocksAreProvoked` | |
| `TokensProofs`: `TypeCorrect`, `SuccessorsOnRecord`, `NoRevival`, `RenewalsAreCurrent` | `TypeOK`, `SupersededHasSuccessor`, `DeadStaysDead`, `RenewedIsCurrent` | `NoRevival`: `2 * MaxFlight < Grace`; `RenewalsAreCurrent`: `MaxFlight < Lifetime` |
| `SignOnProofs`: `SignTypeCorrect`, `SignOnUsesTokens`, `SessionsLast` | `SignTypeOK`, `Tokens!Spec`, `StaysSignedIn` | `SessionsLast`: one front-end, `2 * MaxFlight < Grace` |

### Permissions

`Contains` is transitive, so whoever may hand out p may hand out what p's owner
may (`OwnershipTransitive`); by induction over the steps of `MCPermission` no
chain of hand-outs exceeds its origin. That SQL and Go agree rests on what a
prefix with a wildcard looks like; `ContainsInclusion` needs, for two
hierarchies that differ, a resource that tells them apart, and so one segment
and a depth greater than theirs. `RequestsReachTheirDeciders`: what SQL grants
the Go evaluator contains (`MatchesContain`); a contained hierarchy written with
its wildcard last is one `LIKE` matches; and what `LIKE` matches beyond that has
no wildcard to match with, so it is the beginning of the asked one.

The listing is made of two loops over a sequence, written as recursive functions
on positions. The library's induction takes the induced predicate as an
operator, which the provers here cannot instantiate; `NatSets` does the same for
a *set* of naturals, from the well-foundedness of `<` on them, and so a loop's
values exist (`LoopRuns`) and are determined (`LoopOnce`). With that,
`KeptRange`: what a filter keeps is what it was to keep; and `QuestionsDealt`:
after the first loop the k-th place noted is a complete entry, no other is
missing, and its two permissions stand at 2k - 1 and 2k. So the flags come back
to where they belong (`FlagsComeBack`), whatever stands between complete
entries, the wildcard put in front included. It remains that every complete
entry is one `BuildPermission` accepts, with its wildcard last (`Sound`,
`PermissionsFit`, `StarFits`), so that the evaluator behind the list (Go) and
the one behind the routes (SQL) agree about it (`GrantsAgree`, `AnswersAgree`,
from `EvaluatorsAgreeWhenWellFormed`). `GuardsAreLedTo` adds the
entries on the way to a route's permission: Will.IAM among the services, the
action among the actions, the wildcard put in front of what follows; for a role
its own entry too. That the permission for everything lets pass for each single
thing (`AllLetsPass`) is the query's doing: the bare wildcard is among the
matches of every hierarchy.

### Accounts, roles and rights

`RightsConserved` (every row was there at the start or lies within a right some
owner started with or founded with a service) is not inductive: a transaction
writes what an earlier step checked, and the rows the check read may be gone.
The strengthening is `CheckedConserved`: the permissions of every request past
its checks already lie within such a right. A check passes when the caller has a
row that grants the owner's version, which is an owner row; by induction that
row lies within a right; `OwnershipTransitive` carries the checked permission
into it. Services only add rights, so nothing checked is lost. The proof has one
step per action.

`BindingsConserved` (nobody is bound through a role to a right nobody owned,
unless he was from the start) needs the same for the roles of an account's body:
`RolesConserved` says that what they give lies within such rights from the check
on. The check makes it so (`RolesCheckBacks`); rows added to the roles before
they are bound are backed themselves (`AddedIsBacked`), whoever adds them; and a
role that is new has no rows yet (`NewRoleIsBare`). The rows the instance starts
with need not be backed: the team's role carries a loan nobody owns, so that a
binding to it must be refused. It is not claimed that
the caller owns what he binds others to: between his check and his write a role
may be given what another owns, and the account gets it.

`AddressesAreUnique` rests on one lemma, `AccountWritten`: a transaction writes
one account at most, after the indexes found its name and address free. Names
come along, since the pages of accounts are ordered by name and `ListedPassGuards`
needs that to cut them without a repetition.

`BaseBindingsStay` and `FoundersOwnTheirServices` hold under
`BaseBoundAtStart`, and as long as no step is the update of a base role as a role
(`RoleUpdatesSpareBases`). The role list hides base roles
(`repositories/roles.go:110`), so that a client must take the id from elsewhere;
the run `base_role` shows what happens when it does, so the hypothesis cannot be
dropped. A founder's rows reach him through the binding to his base role,
therefore the same hypothesis.

### Permission requests

The inductive invariant has, besides `TypeOK` and `OneOpenRequest`: a creation
that has inserted its request holds an id nobody has, and none like it is open
(`CreationOK`); two such insertions differ (`Distinct`: what waiting for the
index entry is for); a decision past its check is by somebody who owned the
permission after the request was opened (`ModeratorOK`); a grant inserts the row
of its request or found it there meanwhile (`RowOK`); and the history covers the
present (`SinceOK`). `ImplementsDesk` maps each commit to one action of
`RequestDesk` (create, grant, deny, a change by another route) and every other
step to a stutter.

`DeskNeverDeadlocks`: a transaction before its commit is the only kind that
waits (`CommitsGoOn`). Whoever waits for a request's row or index entry waits for a
transaction that has only its commit left (`RequestRowWaits`); whoever waits for a
permission's row waits for a grant that has inserted it and has only the update
of its request left (`PermissionRowWaits`, which needs the invariant: a row in a
transaction is there after the insert only). In a circle the one waited for waits
too, so it is no commit; so both it and the one waiting for it are grants about to
insert, and a grant that has a row is past its insert. The order in which a grant writes,
first the permission, then the request, is what this rests on, and that reading
the request locks nothing.

### Updates

Requests are programs, so the proof has two parts. The first is about the
programs: what each of the seven is made of, statement by statement (`Programs`):
it inserts what its request lists, deletes what it replaces and no row after
inserting it, saves at most once and at its beginning or end, and inserts
in rising order when its lists rise. The second is about transactions, and does not look
into programs any more: what the statements so far have inserted and deleted is
in the transaction or in its history (`OwnOK`: a listed row that is not there was
taken by somebody else meanwhile, a replaced row that is still there was put
there meanwhile), no row is deleted by two (`Apart`), the record is as it was
read or in the history. At the end of the program this is what
`Registry!Apply` allows (`OwnEnds`), and `ImplementsRegistry` follows.

`DeadlocksHaveReasons` needs that names and addresses stay unique, also against
those entered and not committed (`KeysOK`). Without renames and deletions, whoever
waits does so for a row that is being inserted or a record that is being saved
(`CalmWaits`), in a circle only the former (`CalmCircle`). Each transaction of the
circle then waits to insert a row that another one inserted before the row that
one is waiting for, and rows are inserted in one order: the awaited rows would
rise around the circle. That is impossible (`NoEndlessRise`), since a circle is
finite: only finitely many requests are under way (`CountOK`). An earlier form of
the property named only renames and lists out of order; the proof did not go
through at the deletions, where an attribution puts back a row that a role
update has deleted and not committed while the update waits for another row of
the attribution. The property now says so.

### Tokens and sign-on

The invariant adds to the properties what a request under way knows: the row it
read is still the one on record but for its mark; the row it is going to save
has an access token nobody else saves and nobody has yet; and, once the new row
is saved, that row is the successor the old one is about to be marked with. For
`NoRevival` the part that matters is `RecentlyMarked`: if the token a request is
going to mark is already marked, the mark is no older than the request's start
less one flight, since whoever marked it saved the mark after this request read
the row without one, and the mark is a moment of that request's own flight. So
the mark is less than two flights old, within the grace, and the token is not
dead. `RenewalsAreCurrent` adds that only expired tokens are marked, so that the
new one, issued during the request, is neither (`Renewing`); a token that lives
no longer than a request may have expired when the answer is sent.

`SignOnUsesTokens`: the browser's steps are steps of `Tokens` or leave it alone.
What the clients add is who has which token (`Known`): nobody has the token a
request was issued before the request is answered, so nobody supersedes it.
`SessionsLast` has, while no answer was lost or a 403, `SessionInv`: a held token
that is marked was marked less than a flight ago by a request whose answer is
still to come (`Succeeded`), and a call is sent within a flight of the mark
(`InTime`), so its own flight ends within the grace. Twice the flight below the
grace is 30 seconds in the code; the middleware's timeout is half a second, and
nothing bounds the calls to Google (see the hazards). With two front-ends the
property is false.

### Only model-checked

Every safety property and action property of the passing runs, and both
refinements, are proved. What is left to TLC:

* `TxEnds` (twice) and `RequestsEnd`: liveness under fairness.
* the counterexamples, which are single behaviours.

## What the counterexamples show

* `permission_matches`: for a hierarchy with a wildcard in the middle,
  `PermissionMatches` stops before listing the prefix in front of it.
  `x::*` contains `x::*::x` in Go and not in SQL.
* `base_role`: `PUT /roles/{baseRoleId}` unbinds the account from its own base
  role unless the body lists it.
* `address`: `UpdateWithNested` sets the address to the name.
* `requests_decided_twice`: the state of a request is read and written by
  different statements, so two decisions may both succeed; the model also
  reaches a request that is denied whose permission was given.
* `renewal_dropped`: the middleware returns on a 403 before it hands the
  renewed token on; the front-end is refused a minute later.
* `consent_again`: the page `/sso` keeps a token that has been superseded, so
  the next front-end sends the user to Google although the session is alive.

## Not modelled

The bodies of single accounts and roles, as they are shown and as they are sent.
They do not mirror each other: an account is shown with its `roles` and updated
with `rolesIds` (`usecases/service_accounts.go:77-78`, `149`, `198-204`), a role is
shown with its `serviceAccounts` and updated with `serviceAccountsIds`
(`usecases/roles.go:74`, `189-195`). A body sent back as it was shown drops the
bindings, of an account all but the one to its base role, so a client has to translate; the requests here are what it sends.

The search of accounts and roles by a term, the pages of the list of open
requests (ordered by columns that several requests share, so that the code
itself does not say which page a request is on), key-pair authentication (a
lookup), the parsing of page numbers and the JSON of answers: they change
nothing. Configuration, commands, logging, the health check and the development
and mock providers are wiring and I/O. The client a constructor of the
middleware creates on first use is a data race at start-up, before the first
request.

## Plan

1. Done: all the modules above; all safety and action properties of the passing
   runs and both refinements proved.
2. Open: the statements of a service's creation, whose failures the use case
   ignores, together with the answer the handler gives; the pages of the list of open requests, once the code
   orders them by something unique.
