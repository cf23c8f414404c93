# Verification of the Al Ansari booking system

TLA+ models of the booking platform in this repository (an Express and Prisma
API over PostgreSQL in `src/apps/api`, with a React client in `src/apps/web`),
the TLC configurations that check them on small instances, and the TLAPS proofs
that hold for every instance. `PROJECT.json` lists components, runs, mutants,
findings, hazards, theorems and the source lines each definition stands for.

## The system

The API is one Node process. Every request is an async handler, so handlers
interleave at each `await`; state lives in PostgreSQL. What a handler does in
one Prisma `$transaction` commits together; what it does in separate statements
does not. Only `createBooking` and `updateBooking` ask for `Serializable`, all
other transactions run at READ COMMITTED.

| Component | Code (`src/apps/api/src/modules/...`) | State | Operations | What makes it hard |
|---|---|---|---|---|
| Bookings | `bookings/booking.service.ts` | Booking rows, their overnight stays, audit entries | create, update, status, cancel, get, list | two-phase handlers: a read outside the transaction decides a write inside it; serialization failures; constraints as last guard |
| Status rules | `bookings/booking-status-transition.service.ts` | none | two assertions | role-dependent tables |
| Availability | `availability/availability.service.ts` | none | window, conflicts, alternatives | half-open intervals, buffers, snapshot vs committed rows |
| Overnight stays | `writeOvernightStay` | OvernightStay rows | delete and rewrite | override rights, defaults taken from driver or settings |
| Settings | `settings/settings.service.ts` | three SystemSetting rows | read, update | a change applies to windows computed later only |
| Vehicles, drivers, customers | `vehicles`, `drivers`, `customers` | their rows | create, update, status, soft delete | read, blind write by id, then an audit entry outside any transaction |
| Users | `users/user.service.ts` | User rows | create, update, activate, reset password | last-Admin rule counted outside a transaction; three separate statements |
| Sessions | `auth/auth.service.ts`, `auth.middleware.ts` | AuthSession rows, browser cookies | login, refresh, logout, change password | rotation of refresh tokens against revocation |
| Audit log | `audit/audit.service.ts` | AuditLog rows | append | inside or after the transaction it reports |
| Dashboard, reports | `dashboard`, `reports` | none | aggregates, exports | reads several tables without a snapshot; export audit afterwards |
| HTTP layer | `app.ts`, `middleware`, `server.ts`, `lib` | rate-limit counters, metrics, sockets | filters, shutdown | forced exit against requests in flight |
| Web client | `src/apps/web/src/lib/api.ts`, `AuthProvider.tsx`, route guards | cookies, who is signed in | request, refresh and retry, sign in, sign out | concurrent 401s against a rotating token; answers that are lost |
| Web pages | `src/apps/web/src/pages`, `features/bookings` | filters, page, dialog, timers, the answer on the screen | load, filter, turn pages, check availability, save, preview, export | answers out of order, data that changed since, dialogs closed while they save |
| Web mocks, seed and validation scripts | `src/apps/web/src/mocks`, `src/apps/api/prisma/*.ts` | demo data | none at run time | not modelled |

Handlers meet only in the database. The booking service reads vehicles,
drivers, customers and settings, which their own services change; every
service appends to the audit log; every request first passes the authentication
middleware, which reads the user row that the user service changes.

What makes each part correct:

- **Bookings**: no vehicle or driver is on two active trips at once; status
  moves follow the role tables; cancelled bookings stay off the road and
  completed ones are read-only for Staff; windows and overnight stays fit the
  trip type; the audit log tells the history; every request is answered.
- **Users and sessions**: an active Admin always remains; a password change, a
  reset, a deactivation or a logout ends the sessions it is meant to end, and a
  session that outlives one of them was opened by a request that overlapped it.
- **Fleet**: a soft-deleted row stays inactive; each change has its audit entry.
- **Queries**: the timeline, the availability check, the alternatives, the
  dashboard and the reports are separate queries over the same rows, each with
  its own row limit; up to these limits they must tell the same story.
- **HTTP server**: a graceful exit answers everybody who waits; a shutdown ends.
- **Web client**: a user stays signed in until something ends the session; a
  request that meets an expired access token is retried once after one refresh,
  with the CSRF token of that moment, and ends.
- **Web pages**: what a screen shows, once it is quiet, is the answer to the
  controls beside it.

## Modules

| Module | Models | Correspondence |
|---|---|---|
| `StatusTransitions` | the transition tables and the two assertions | operators with the source's names |
| `Availability` | windows, overlap, conflicts | operators over a set of rows |
| `OvernightStays` | `writeOvernightStay` | `StayAnswer` is the sequence of checks, `StaysAfterWrite` the rows it leaves |
| `Bookings` | the booking service, PostgreSQL below it, the other services as its environment | state machine, below |
| `Reservations` | what the booking service promises: a calendar of holds | abstract specification |
| `MCBookings` | inputs for TLC | one family of request bodies per question |
| `BookingsProofs` | theorems about `Bookings` | TLAPS |
| `BookingRulesProofs` | the documented booking rules, as theorems about `Bookings` | TLAPS |
| `Accounts` | the user service, the authentication service and its middleware | state machine, below |
| `SignIns` | what refresh-token rotation promises | abstract specification |
| `MCAccounts` | users at the start, symmetry and a view for TLC | small instances |
| `AccountsProofs` | theorems about `Accounts` | TLAPS |
| `SessionRulesProofs` | what sessions and the audit log promise when requests meet and fail, as theorems about `Accounts` | TLAPS |
| `Fleet` | vehicle, driver, customer and settings services | state machine; every step refines the fleet steps of `Bookings` |
| `MCFleet` | settings as seeded and as sent | small instances |
| `FleetProofs` | theorems about `Fleet`, and that it refines the environment of `Bookings` | TLAPS |
| `HttpPipeline` | the order of the middleware in `app.ts` and the routers | operators, used by the two modules below |
| `HttpServerProofs` | theorems about `HttpServer` | TLAPS |
| `HttpServer` | `server.ts`, `metrics.ts`, the rate limiter, requests in flight | state machine |
| `WebClient` | `api.ts`, `AuthProvider.tsx`, cookies, the session rows behind them | state machine |
| `WebClientProofs` | theorems about `WebClient` | TLAPS |
| `Queries` | lists, timeline, availability, dashboard and reports as queries | operators over a set of rows |
| `Desk` | one screen of the web application before the database | state machine, EXTENDS `Queries` |
| `MCDesk` | the calendars and screens TLC starts from | small instances |
| `DeskProofs` | theorems about `Desk` and the operators of `Queries` | TLAPS |

### Bookings

`bookings`, `overnightStays` and `auditLog` are the tables, grouped by booking.
`vehicles`, `drivers`, `activeCustomers` and `settings` are what the handler
reads of the other services. `handlers[h]` is a request in progress: `idle`
with its last answer, or a stage with the local variables it holds there.

| Action | Code |
|---|---|
| `RefuseCreate`, `BeginCreate` | validation and the snapshot reads of `createBooking` |
| `GetBooking` | `getBooking` |
| `ReadForUpdate`, `ReadForStatus`, `ReadForCancel` | `getBooking` and the checks each operation makes before its transaction |
| `BeginUpdate` | the snapshot reads of `updateBooking` |
| `CommitWrite`, `RefuseWrite`, `SerializationFailure` | the writes and commit of the two Serializable transactions, or the way they fail |
| `UpdateStatus`, `CancelBooking` | the READ COMMITTED transactions |
| `Abort` | PostgreSQL cancels, Prisma times out, the server dies |
| `WriteVehicle`, `WriteDriver`, `DeleteCustomer`, `UpdateSettings` | the statements of the other services |

Transactions. A Serializable transaction reads in one snapshot (taken by
`BeginCreate` or `BeginUpdate`) and becomes visible in one step. PostgreSQL
refuses it when the row it updates was committed by another after the snapshot
(`RowChanged`, found through `xmin`, the commit number that wrote a row).
PostgreSQL may also cancel it for a dangerous pattern of reads and writes; when
is not modelled, `Abort` allows it at any time, so no property leans on it.
Constraints are checked against committed rows at the write. A READ COMMITTED
transaction of one update and one insert is one step: its row lock is held to
its commit.

Data. Instants and buffers are integers, money is a natural number, a text is a
set of remarks (enough to see whether a note is lost), destinations and names
are left out. A booking row has no `deletedAt`, because no code sets it.

Errors that reach the error handler are "500". An overlap the constraint
reports is "409" or "500", since `isDatabaseOverlapConstraintError` recognises
one error code only and Prisma may report the failure in another form.

### Accounts

`users` and `sessions` are the User and AuthSession tables; a session is named
by its refresh token. `signedAccess` has the users for whom an unexpired access
token exists: the middleware reads role and status from the database, so who a
token names is all it contributes. `told` is what the USER_ audit entries last
say of each user, `authLog` the newest AUTH_ or password entry.

What is history, which the code does not keep and no guard reads: the first
token of a session's sign-in, the password verified for it, and `overtaken`
(`Overtake`): the login or the refresh that opened it, or one before it in the
sign-in, was under way while a new password or a deactivation of its user was.
`leftIn` has the users whose deactivation failed before it ended their sessions,
`misreported` those of whom an audit entry was lost to a failure, or written
while another was still to come, until an entry tells the whole row again.

| Action | Code |
|---|---|
| `Authorize` | `requireAuthentication`, `requireRole`; a refusal changes nothing |
| `FailLogin`, `BeginLogin`, `FinishLogin` | `login`: the read and the password check, then the transaction |
| `FailRefresh`, `BeginRefresh`, `FinishRefresh` | `refreshSession`: the read of the session, then the transaction that rotates it |
| `Logout`, `AuditLogout` | `logout`, two statements |
| `CheckOwnPassword` | `changePassword`: read and check |
| `StorePassword`, `CommitPassword` | the transaction of `changePassword` and `resetPassword`: the new password and the sessions it sees, then their end, the entry and the commit |
| `LoadUser`, `CountAdmins`, `WriteRole`, `WriteActive`, `RevokeSessions`, `AuditUser` | the statements of `updateUser` and `updateUserStatus`, one step each |
| `CreateUser` | the insert of `createUser` |
| `Refuse` | the answers 400, 404, 409 and 500 that change nothing |
| `Abort` | a statement fails or the process stops between two |
| `ExpireSession`, `ExpireAccess` | `REFRESH_TOKEN_TTL_DAYS`, `ACCESS_TOKEN_TTL_MINUTES` |

The transactions run at READ COMMITTED. Those of a login and of a refresh are
one step each: the rows they write are locked to their commit, and neither reads
again what it has not locked. That of a new password is two. It first locks the
user's row (`Locked`: a login, another new password and every write of that row
wait), and its `updateMany` finds the sessions of the moment it starts; while it
waits for the row of one of them that a refresh is rotating, the refresh commits
a successor it does not see. `StorePassword` takes the sessions seen,
`CommitPassword` ends these and no others.

Left out: names and e-mail addresses (a unique address is its user; the 409 of
an address in use is part of `Refuse`), `lastLoginAt`, cookies, the CSRF token,
the login rate limiter, and failed attempts that concern no known user.

### Fleet

`rows` holds the Vehicle, Driver and Customer tables in one function; the field
`key` of a row is what its service compares or hands on (plate number,
overnight rate, phone number). None of the three services opens a transaction,
so the read, the write and the audit entry of an operation are three steps, and
two requests run at once. `told` is what the audit log last says of a row.
Two sets of ids are history. `outrun` has the rows that were deleted while a
status change of the same row had read it and not written. `misreported` has the
rows with a lost entry (a request about the row ended between its write and its
entry), or with two writes before either entry, until a create or update tells
the row again. Requests about other rows put a row in neither.

| Action | Code |
|---|---|
| `CreateVehicle`, `CreateDriver`, `MatchNewCustomer` + `CreateCustomer` | the inserts; a customer is first looked up by phone |
| `LoadVehicle`, `LoadDriver`, `LoadCustomer` | the read with `deletedAt: null` |
| `UpdateVehicle`, `UpdateVehicleStatus`, `SoftDeleteVehicle` and the same for drivers; `MatchCustomer`, `UpdateCustomer`, `DeleteCustomer` | the write by id |
| `Audit` | `recordAuditLog` after it |
| `RefusePlate` | the unique plate number, 409 |
| `BeginSettings`, `ReadZone`, `UpdateSettings` | the reads of `updateOvernightSettings`; its upserts, entry and commit |
| `Read`, `Abort` | what changes nothing; a statement that fails |

### HttpServer

One process. `Arrive` runs the middleware of `app.ts` in the order
`HttpPipeline` gives (limit, CSRF token, router, access token, role, path, body),
and leaves a handler waiting or answered. Six routers authenticate before they
look for the path, so an unknown path below one of them is answered 401 or 403
first; the other routers, and paths no router takes, answer 404 to anybody. A
closing server takes requests over connections that are still open, until
`Close` finds none. `Finish` is the handler's answer (401 and 403 included: login,
refresh and the reports give them), `ClientGone` a client that leaves. `Shutdown`, `Close`, `Disconnected`, `ForceExit` and
`ListenFails` are the callbacks of `server.ts`; a second signal arms a second
timer, and its `close()` fails with exit code 1.

### WebClient

One tab. `jar` is the cookie jar, `sessions` the rows behind it, `calls[c]` a
call of `apiRequest`, which sends its request, may refresh once and retries
once. `Start` is the call, the `Serve...` actions and `Rotate` the handlers
(the refresh in two steps, as in `Accounts`), the `Deliver...` actions what the
promise does with the answer, cookies included; `Lose` is a rejected `fetch`.
`kept` is history: the user signed in, and nothing has happened since that may
end the session or send the user to the login page (a sign-out, a new password,
an end elsewhere, a refresh that is lost or answered badly, two refreshes at
once, or a `GET /auth/me` that is itself lost or answered 429 or 500: after a
reload `reloadUser` takes any failure for a signed-out user, so that the tab is
signed out although its session lives, `AuthProvider.tsx:14-16`).

### Queries and Desk

`Queries` has the Prisma queries of the lists, the availability check, the
dashboard and the reports as operators over a set of booking rows. An order the
database leaves open (rows with equal keys) is a set of sequences. What a
statement with `take` returns is a set of answers (`First(rows, rank, limit)`):
as many rows as the limit lets it, and those left out do not come before those
taken. `Limits` names the limits of the source:

| Limit | Value | Code |
|---|---|---|
| `dispatch`, `alerts` | 12, 8 | `dashboard.service.ts:120-150` |
| `bars`, `timelineVehicles` | 500, 60 | `dashboard.service.ts:213-232` |
| `alternatives` | 10 | `availability.service.ts:175,200` |
| `reportRows`, `reportVehicles` | 5000, 500 | `report.service.ts:231,246,254` |
| `preview` | 100 | `report.controller.ts:53` |

`Desk` is one screen before the database. Its `screen` is fixed by `Init`:

| Screen | Code | User's actions |
|---|---|---|
| `list` | `BookingsPage.tsx` | `ChangeFilter`, `TurnPage`, `TypeVoucher`, `AskAction`, `Confirm`, `Dismiss`, `PressReload` |
| `fleet` | `VehiclesPage.tsx`; the pages of drivers and customers share its shape | `ChangeFilter`, `TurnPage`, `SaveVehicle` |
| `form` | the dialog of `BookingsPage.tsx` | `OpenForm`, `ChangeTrip`, `ChooseResource`, `TakeAlternative`, `CloseForm`, `Submit` |
| `dashboard` | `DashboardPage.tsx` | `ChangeDashboard`, `PressReload` |
| `reports` | `ReportsPage.tsx` | `ChangeReportType`, `ChangeReportFilters`, `PressPreview`, `AskExport` |
| `closed` | none | none: the state in which the queries are compared |

`TimerFires` is a debounced effect. `Serve` executes one statement of a
handler's `Promise.all`, in any order; `Deliver` and `Fail` bring its answer,
also out of order. A save is `sent`, served by `ServeSubmit`, `ServeStatus` or
`ServeVehicle`, and brought back by `DeliverBooked`, `DeliverSaved`,
`DeliverConflict` or `DeliverRefused`. An export is `sent`, `generated`, and
then refused (below). `Elsewhere` are commits of other users; for this screen
the booking service is the calendar that `Bookings` is proved to implement.

Simplified: of the four reads of `checkBookingConflicts` the two of the
conflicts are one statement, and so are the two of the alternatives; the list
asks one question at a time and the fleet page saves one row at a time; the
dialog is filled from a given set of inputs (`FormAsks`).

## Runs

| Run | Question | Instance |
|---|---|---|
| `overlap` | is any vehicle or driver double-booked, and is the service a calendar of holds? | 2 bookings, 2 concurrent requests, 2 vehicles, 2 drivers, trips that touch and overlap, 4 commits |
| `stale_reads` | which booking rules survive that a request decides on a row another one has changed since, and what exactly gives way? | 1 booking, 2 requests at once of any operation, both roles, all statuses and trip types, fleet changes between any two steps, 3 commits |
| `races` | is every request answered, and is every override an Admin's? | 2 requests on 1 booking, fairness, 3 commits |
| `accounts` | are deactivated users signed out, and does the audit log tell the users? | 2 requests at once, `Abort` anywhere, 2 users (one of them created on the way), 2 tokens; logins, refreshes, creations, role changes and deactivations |
| `account_races` | do sessions follow passwords, is rotation what `SignIns` says, and does a signed-out user stay out? | 2 requests at once, `Abort` anywhere, 2 users, 3 tokens, 2 passwords; logins, refreshes, logouts, new passwords and activations |
| `fleet_changes` | do deletions last, does the audit log tell rows and settings, and does `Bookings` know its surroundings? | 2 requests at once, each step an await, `Abort` anywhere, 2 vehicles, 1 driver, 2 customers, 5 requests, settings seeded under the older name |
| `http_server` | does a graceful exit answer everybody, and does a shutdown end? | 3 requests, also over kept-alive connections of a closing server, a limit of 2, 2 signals |
| `web_client` | does a user stay signed in, does every call end? | 2 calls at once, 3 refresh tokens, outages, sessions ended elsewhere |
| `desk` | do the queries agree, do answers add up, does a screen settle on its controls, and is every commit under it one the calendar of `Reservations` allows? | every calendar of up to 2 bookings on 2 vehicles and 2 drivers over 5 units of time, with row limits of 1 and 2 that the tables exceed; per screen 2 requests at once and 2 or 3 in all, 1 commit, which may add a third booking |
| `cancelled_resumes`, `last_admins`, `report_preview` | violations, below | |

Two requests are enough for every race in the database: a handler holds at most
one stale row, so an anomaly needs the stale handler and the commits that
outdate it, and one other handler makes those one after another. Two bookings
are enough for overlap, which is a relation between two rows. `MaxCommits`
bounds the commits to the Booking table: 4 in `overlap` allow two creates and
two changes, 3 in the others a create and two changes. Symmetry over bookings
and requests is used in the runs without liveness.

Each of the six rules that a stale read or a failure can break is stated with
the step, row or session that may break it as its exception, and no wider: the
runs let two requests meet and, where requests can fail half way, fail. The
exceptions of `stale_reads` are that the column a request read before its
transaction differs from the row it writes; those of `accounts` and
`fleet_changes` are the history variables above.

The set of tokens is the bound of `Accounts` and `WebClient`: each login and
refresh uses one up. Three allow a login and two rotations of it, or two
sign-ins and a rotation, which is what one stale refresh against one other
session change needs; two are enough to leave a session behind a deactivation.
The runs of `Accounts` identify states that differ only in logs and history
that the invariants of the run do not mention (`VIEW WithoutLogs`,
`WithoutAuthLog`): no guard reads them, and TLC evaluates action properties on
each step before it identifies the state reached. In `WebClient` a server
without unused tokens answers a refresh with an error, so calls still end.

The limits of `desk` (`SmallLimits`) are exceeded by one row: two bookings of a
day against a dispatch list of one, two vehicles against a timeline, a report
and a list of alternatives of one, three bookings against two bars and two rows
of a report. `report_preview` has the limits of the source and does not reach
them, so that no row of its counterexample is missing for that reason.

`Desk` needs one commit to make an answer stale and two requests to make answers
cross; the fleet list has a third, for the load after a save that another
load has overtaken. A closed screen
at its bound of commits and a screen at its bound of requests have no step left,
which is why `desk` and `report_preview` set `CHECK_DEADLOCK FALSE`. In every
other run deadlock is checked.

Each property of a passing run has a mutant in `PROJECT.json`: a definition of
the model changed as a bug would change the code, under which TLC must find the
property violated.

### What the code does otherwise

Three runs end in a violation. Each shows a sentence of the docs that the code
does not keep (the findings in `PROJECT.json` quote the sentence):

| Run | What happens |
|---|---|
| `cancelled_resumes` | A reads CONFIRMED; B cancels; A's move to IN_PROGRESS is written: the transaction is READ COMMITTED and nothing checks the row again |
| `last_admins` | A and B each deactivate the other; both count two Admins; both write |
| `report_preview` | the unticked box is sent as `overnightOnly=false`, which `z.coerce.boolean` reads as true: the preview has overnight trips only |

The models also show, without a run of their own:

- An update that read a CITY booking while another made it OVERNIGHT deletes
  the other's stay and stores a window without buffers (`BeginUpdate`,
  `CommitWrite`). The transaction is Serializable, but the stale read came
  before its snapshot. For the same reason Staff may finish a write to a
  booking completed meanwhile, an update may leave a booking on a vehicle
  it never checked, and two status changes may leave an audit log whose second
  entry starts from a status the booking no longer had. `StayFitsTrip`,
  `AssignmentsAssignable`, `StatusMovesAsDocumented` and `AuditChains` have
  these, and nothing else, as their exceptions.
- A status change that meets the exclusion constraint is answered 500: only
  create and update translate the error.
- `updateUser` may demote the last active Admin; it counts nobody.
- A refresh that read the session before `logout` revoked it creates a
  successor; a logout whose access token has expired is refused with 401, is
  not retried, and leaves the session alive while the page shows the sign-in
  form. Two refreshes that read one session leave a sign-in with two valid
  tokens, and a login or refresh that overlaps a new password or a deactivation
  leaves a session behind (`overtaken`).
- A deactivation that fails between its statements leaves the user inactive and
  signed in (`leftIn`). The user and fleet services write their audit entry in a
  statement of its own, so a failure loses it and two requests may cross theirs
  (`misreported`). A status change that read a vehicle before it was deleted
  gives the deleted row another status (`outrun`).
- Beyond their limits the answers stop adding up: the card counts all of today's
  trips and the list below it ends after twelve, a free vehicle beyond the tenth
  is no alternative, a booking beyond the limits of the timeline is drawn
  nowhere, and the reports count different rows.
- A reload whose `GET /auth/me` is lost, rate-limited or answered 500 shows the
  login page to a user whose session lives.
- An answer that arrives late replaces a newer one on every screen (`stray` in
  `Desk`), and the load after a save uses the filter of the moment the save
  began.
- Every export ends in 500: the audit entry that precedes `res.send` has the
  type of the report as its `entityId`, which the schema makes a uuid
  (`schema.prisma:245`). `RefuseExport` is therefore the only way on from
  `generated`, while `docs/uat-checklist.md:46` expects the file.

## Fairness

`Bookings.FairSpec` has weak fairness of `Progress(h)` for each request: the
next statement of a request that waits for one is executed or fails. PostgreSQL
answers a statement (locks are released at commit, deadlocks are broken, Prisma
bounds a transaction by a timeout) and Node runs the continuation of a settled
promise. Requests need not arrive, the fleet need not change and nothing needs
to be aborted.

`HttpServer.Spec` has weak fairness of `ForceExit` and `Close`: Node runs a
timer that has passed, and the `close` listener once no connection is left.
Handlers get none, so `ShutdownEnds` holds although one may wait for ever.

`WebClient.Spec` has weak fairness of `Serve(c)`, `Deliver(c)` and `Mount`: the
server answers (which is what `EveryRequestAnswered` shows of a handler), the
browser hands the answer on, and the effect of `AuthProvider` runs. Nothing is
assumed of the user, of expiry or of losses.

## Proofs

`BookingsProofs` proves, for every set of bookings, vehicles, drivers,
customers, requests and inputs that `BookingsAssumption` allows (inputs of the
types the schemas enforce, at least one settings value, and values for "no
booking" and "absent" that are neither a row nor a status):

- `TypeCorrect`: `Spec => []TypeOK`.
- `BookingInvariant`: `Spec => []BookingInv`.
- `NoDoubleBooking`: `Spec => []TripsDisjoint`.
- `AuditIsCurrent`: `Spec => []AuditTellsStatus`.
- `ServiceIsCalendar`: `Spec => ImplementsCalendar`, the refinement of
  `Reservations`.

The inductive invariant is `IInv == TypeOK /\ BookingInv`. `TripsDisjoint`
alone is not inductive: the constraints compare availability windows, not trips,
so a step preserves it only if every window covers its trip, for committed rows
and for the row each open transaction is about to write. `HandlersOnExisting`
is needed for types: a status handler rewrites the row of a booking it read, so
that row must still exist. Every step that writes is shown to have one form
(`Committed`: one row, guarded by the exclusion constraints), from which the
invariant, the audit property and the refinement follow without looking at the
operations again. The proof of `NoDoubleBooking` uses the exclusion constraints
and not the serializable isolation, which is also where the code's guarantee
comes from.

`BookingRulesProofs` proves the rules of `docs/business-rules.md`:

- `OverridesByAdminAlways`: `Spec => []OverridesByAdmin`, for any number of
  requests at once.
- `StayFitsTripAlways`, `StatusMovesAlways`, `AssignmentsAssignableAlways` and
  `AuditChainsAlways`: the properties of `stale_reads`, for any number of
  requests at once, each with the stale column that it excepts.

An override is an Admin's because the role is checked on the row the transaction
is about to write (`Entitled`). The other rules rest on what a handler knows
whatever the others commit (`Ready`). A status request goes on with a move that
was allowed from the status it read (`Informed`). A create or update that
PostgreSQL will still let commit (its row has not changed since the snapshot)
writes a row that obeys the rules but in a column that it leaves alone and had
read with another value (`Obedient`); if the row has changed since the snapshot
the write is refused, and nothing need be known. That is where the serializable
isolation is used: without it a commit between snapshot and write would make
more exceptions. Every step that writes is then shown to have one form (`Wrote`),
of which the properties of rows follow. `AuditChains` is about
logs of any length: it relates two entries with no status between them
(`NextStatus`), so a log that grows at its end (`Chained`) is compared with
itself at one point only, the old status of the new entry, which is the one the
request has read; if that is still the booking's, the entry continues the log,
and no induction over the log is needed.

`AccountsProofs` proves, for every set of users, tokens, passwords, requests
and initial users that `AccountsAssumption` allows, with and without failures:

- `AccountsTypeCorrect`: `Spec => []TypeOK`.
- `RotationKeepsOwnerAlways`: `Spec => []RotationKeepsOwner`.
- `SignedOutStaysOutAlways`: `Spec => SignedOutStaysOut`.

The inductive invariant is `IInv == TypeOK /\ RotationKeepsOwner /\
RequestsKnown`. The last part says that a request speaks of users who exist and
of a token issued to its subject; rows and sessions are never removed, so it
survives the steps of other requests, and without it a stale refresh could
rotate a session of somebody else. The action property follows from the
invariant by a case split on the step: the sessions of a user grow only by
`FinishLogin` and `FinishRefresh`, whose requests were pending before.

`SessionRulesProofs` proves, for any sets of users, tokens and passwords and any
number of requests at once, failing or not:

- `SessionsKnowPasswordAlways`: `Spec => []SessionsKnowPassword`.
- `DeactivatedSignedOutAlways`: `Spec => []DeactivatedSignedOut`.
- `AuditTellsUsersAlways`: `Spec => []AuditTellsUsers`.
- `SessionsAreSignIns`: `Spec => ImplementsSignIns`, the refinement of `SignIns`.

The invariant of the sessions (`SessionsInv`) says of a login or refresh that
nobody has overtaken that what it read is still so (`Fresh`), of a new password
under way that the sessions it did not see are overtaken (`Unseen`) and that it
is the only one of its user (`OneChanges`, the row lock), and of a user that is
neither being deactivated nor left in that no session survived (`InactiveOut`).
That of the entries (`Told`) says that of a user not misreported at most one
request has an entry to come, and that this entry will be right. The refinement
needs less: an abstract sign-in may have two valid tokens once two refreshes
have presented one, and each concrete step ends, rotates or opens as `SignIns`
allows.

`FleetProofs` proves, for every set of rows, inputs and requests that
`FleetAssumption` allows, with requests interleaving and failing freely:

- `FleetTypeCorrect`: `Spec => []TypeOK`.
- `DeletedStaysInactiveAlways`: `Spec => []DeletedStaysInactive`.
- `AuditTellsRowsAlways`: `Spec => []AuditTellsRows`.
- `AuditTellsSettingsAlways`: `Spec => []AuditTellsSettings`.

No transaction holds a read and its write together, so the invariant has to say
what an unfinished request still knows. `RequestsSound` says that each stage has
the local variables it needs and that the row it will write exists.
`OutrunKnown` says that a deleted row with a status change still to be written
is in `outrun`: nobody else can bring a status back, since the other writes leave
a deleted row's status alone. `AuditSoFar` says that the log of a row not
misreported is current, or that exactly one request has still to enter its write
and that this entry will make it current. As in `BookingsProofs`, the operations
are first shown to have one of a few forms (`StepForms`), and the invariant is
shown of the forms.

It also proves `FleetIsBookingEnvironment`
(`Spec => ImplementsBookingEnvironment`): every statement of these services is a
step that `Bookings` allows its environment, or one that it does not see. It
needs two more facts. A driver's update carries a rate (part of
`RequestsSound`), and a customer about to be inserted has an id that no row and
no other request has (`CreatesNew`), for an insert over a deleted row would bring
it back, which no step of `Bookings` does. With this theorem, what
`BookingsProofs` shows for an environment that writes vehicles and drivers at
any time covers the services that really write them, each read, write and audit
entry a step of its own.

`HttpServerProofs` proves, for every set of requests, limit and number of
signals, `ServerTypeCorrect` (`Spec => []TypeOK`) and `GracefulExit`
(`Spec => []GracefulExitAnswersAll`). The invariant adds that handlers are cut
by the exit only (`CutByExit`) and that nobody waits while the database is being
disconnected (`NobodyWaits`): no request arrives once the last connection has closed,
and a client that has left does not come back. That the pipeline answers with a known
status, whatever is wrong with a request, is a lemma.

`WebClientProofs` proves, for any number of calls of `apiRequest` at once and
any number of tokens, with answers lost, refused and delivered in any order:

- `WebClientTypeCorrect`: `Spec => []TypeOK`.
- `KeptSessionLivesAlways`: `Spec => []KeptSessionLives`.
- `CsrfTokenFitsAlways`: `Spec => []CsrfTokenFits`.
- `StaysSignedInAlways`: `Spec => StaysSignedIn`.

The argument is where the live refresh token is (`Held`): in the jar, and then
a refresh under way carries it; or in the one answer that brings a new one, and
then nobody else refreshes. `Kept` adds that no call of a kept session is about
to end it (`Served`): its refresh is granted, and its retry carries a fresh
access cookie. `Screens` says which calls exist while nobody is signed in, since
a sign-in or the first `GET /auth/me` may only meet the others' end.

`DeskProofs` proves, for every set of bookings, vehicles, drivers and requests,
every table the screen may open on and every set of inputs that
`DeskAssumption` allows:

- `DeskTypes`: `Spec => []TypeOK`.
- `FollowsControls`: `Spec => []ScreenFollowsControls`.
- `UntornAnswers`: `Spec => []UntornAnswersAddUp`.
- `TimelineConflicts`, `AlternativesCanBeBooked` and `ReportsAlwaysAgree`: the
  three invariants on the queries.
- `ScreenKeepsToCalendar`: `Spec => KeepsToCalendar`.

The row limits are any natural numbers above zero (`LimitsAssumption`), so what is
proved holds of the source's values. `DeskAssumption` says that the tables are
finite and typed, that each stored
window covers its trip (which `BookingsProofs` shows of every committed row),
that `None` and `Any` are values apart, and that the controls are closed under
what the pages do with them: page 1, the next page as far as the count reaches,
another report with the same filters. It bounds neither the number of requests
under way nor the size of a table.

The three invariants are `TypeInv`, `FollowInv` and `UntornIsCurrent`.

- `TypeInv` types the variables, and says that what a list shows, asks about or
  saves exists: a booking is cancelled, never removed. With it a status change
  served after others committed still finds its row.
- `FollowInv` is about order. `ScreenFollowsControls` speaks of a quiet screen;
  to reach it, `Ordered` says that of two requests under way one was sent first,
  and `NewestIsCurrent` that the newest, unless it is late or a timer is due, is
  for the controls. `SaveIsCurrent` says the same of the save under way, whose
  answer sends a request with the controls it captured. Each step has one of
  five forms (it touches no request, edits the controls, sends, ends a request,
  or shows a conflict), and the forms keep the order.
- `UntornIsCurrent` says that each statement a request has executed answered
  what the tables say now, unless somebody has committed since its first one.
  That an untorn page is as long as its total demands is then a fact about pages
  of a sequence (`PageIsFull`), and that a list with a limit is full or complete
  one about `First` (`FirstTakes`, `PartTaken`).

The reports need sums over sets. What a fold does to a larger set cannot be had
by induction here; `SumsAreOne` takes a smallest set on which two sums differ
(the natural numbers are well-founded) and removes one element from it.

`KeepsToCalendar` closes the circle with `Bookings`. `ServiceIsCalendar` shows
that what the booking service commits is a step of `Reservations`;
`ScreenKeepsToCalendar` shows that `Desk` assumes no more of the commits of
others, and that a save of its own, however old the check that unlocked its
button, adds no more: the handler checks again (`ConflictKinds` in
`ServeSubmit`), and a reopened or moved booking meets the same calendar.

Every invariant and every action property that a passing run checks is thus a
theorem. Only model-checked: liveness (`EveryRequestAnswered`, `EveryCallEnds`,
`ShutdownEnds`; fairness is out of the prover's reach), and the three violations,
which are counterexamples.

## Not modelled

- The mocks of the web client, the seed and the validation script, the shared
  types: none of them runs beside the system.
- Names, addresses, notes and labels, the wording of messages, formatting,
  Excel and PDF layout, rendering and styles.
- The staff, settings and password pages: forms over operations that `Accounts`
  and `Fleet` have, without a shape that `Desk` does not show. The dialogs of
  the fleet pages that create and edit rows.
- Money is a natural number: rounding to two decimals is left out. Instants are
  integers, so daylight saving and the parsing of dates are left out.
- Cookie attributes, hashing, the signing of tokens, CORS, helmet headers and
  compression; the login rate limiter (the general one is in `HttpServer`).
- PostgreSQL's cancellations for dangerous patterns between serializable
  transactions are allowed at any time (`Abort`) and never relied on.
- Expenses and notifications have tables and no code that writes them.

## What is left

The booking services, accounts, fleet, HTTP server, web client and screens are
modelled, checked and, where listed above, proved. Worth adding next:

1. The staff and settings pages on the shape of `Desk`, with the permissions of
   each route.
2. The columns by which the dashboard and the reports filter besides status, trip
   type and vehicle status, on larger calendars.
