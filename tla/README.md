# A verification of the parking management system

This directory models the FastAPI backend in `backend/app` and the React client
in `frontend/src` (the paths below are relative to the repository) in TLA+:
modules that TLC checks on small instances, and proofs of their main properties
that TLAPS checks for every instance.  It has five models: the parking desk
over its slots and reservations, call by call (`ParkingSystem`); the sessions of
the client over the `/auth` endpoints (`SessionSystem`); the entry and exit
screens over the desk (`DeskScreens`); the rate master with its dialog
(`RateMaster`); and a company's setup, staff, roles and facilities
(`Administration`).

The backend is multi-tenant; every document carries a `company_id` and every
query filters on it, so the models describe one company. The server is
`asyncio` with Motor: **no handler uses a MongoDB transaction**. One database
call is atomic, and between two awaited calls of a handler any other handler may
run, in the same process or in another worker. That one fact is where nearly
all of the difficulty of this code lies, and it decides the grain of the
models: one action per database call that writes, or whose answer is used
later.

The client is single-page JavaScript: a reaction to an event runs to its end,
with the microtasks it queues, and between two reactions anything may happen:
another answer, a timeout, a keystroke, a page that unmounts. A client model has
one action per such reaction. Tabs of one browser share `localStorage` and
nothing else.

## The system

| Part | State | Operations | What must hold |
| --- | --- | --- | --- |
| Entry and exit desk (`application/parking/service.py`) | `vehicle_entries`, `vehicle_exits`, `payments`, `vehicle_images`, `parking_counters` | `create_entry`, `create_exit`, lookups, receipts, logs | a vehicle is inside at most once; an entry is settled once, with the payment that belongs to it; whatever a refused request took is given back |
| Slots and reservations (`application/advanced/service.py`) | `parking_slots`, `reserved_slots` | `create_slot`, `update_slot`, `create_reservation`, `update_reservation`, `_sync_slot_reservation_status` | no two vehicles in one slot; no two active reservations of one slot at one time; a slot's status agrees with its reservations |
| Monthly passes (`application/advanced/service.py`) | `monthly_passes`, a counter | `create_pass`, `update_pass` | a pass never ends before it starts; numbers are unique |
| Tariff and rate master (`parking/service.py` 423-459, `application/rates/service.py`) | `parking_rates` | slab validation, create/update/deactivate, `_calculation_for_entry` | every stay has exactly one slab; the advance and the payment add up to the total |
| Entry and exit screens (`pages/VehicleEntryPage.tsx`, `pages/VehicleExitPage.tsx`, `features/parking`) | forms, selections, proposals, receipts, the camera | type, search, retrieve, recalculate, save, exit, scan, open a receipt | a stay is charged by its own tariff whatever the page showed; what is shown is what was last asked for; buttons come back; the camera goes off |
| Rate dialog (`features/rates/ParkingRateFormDialog.tsx`) | rows, mode, the rate it edits | add, remove and retype rows, switch modes, submit | the rows it lets through begin at zero, adjoin and ascend; a stored rate can be opened and saved as it is |
| Sessions (`application/auth/service.py`, `core/security.py`) | `users`, `auth_sessions`, `password_reset_tokens` | register, login, refresh, password reset | a refresh token buys one successor; a reset token one password |
| The client's session (`services/apiClient.ts`, `tokenStorage.ts`, `features/auth`) | tokens in `localStorage` or `sessionStorage`, `refreshPromise`, the profile | sign in and out, call, renew, reload | requests that expire together share one refresh; renewal throws nobody out while the refresh token lasts |
| Initial setup (`application/setup/service.py`, `pages/InitialSetupPages.tsx`) | `platform_setup`, the wizard's stored session | `create_initial_company`, `create_initial_employee`, the wizard | one first company, one first administrator; setup that says it is complete is |
| Employees, roles (`application/employees`, `application/roles` and their pages) | `employees`, `users`, `roles` | create, update, deactivate, delete | employee and account agree; an assigned role is not deleted; who left stays out |
| Navigation (`AppLayout.tsx`, `router.tsx`, the route guards) | none: three tables | show a menu entry, admit to a page, serve its calls | what the menu shows opens, and what opens is served |
| Companies, branches, locations (`application/companies`) | three collections | create, update, deactivate | no active location in an inactive branch |
| Backup (`application/system/service.py`) | all collections | `export`, `restore` | a restored tenant is one that existed |
| Settings, reports, dashboard, audit, HTTP layer, translations | single documents, or none | reads, appends | not modelled, see below |

How they interact: the desk and the slot administration share `parking_slots` and
`reserved_slots`. An entry of a vehicle with a current reservation occupies the
reserved slot and then claims the reservation; an exit completes the reservation
and then frees the slot; a reservation request ends by synchronising the slot's
status with its reservations. The desk copies the tariff into the entry, so a
later change of rates does not touch an open entry, and reads the operator's
posting from `employees`. Sessions and roles stand in front of every call:
`get_current_principal` decodes the access token and reads the account, the role
and its permissions, alive, each time; it does not read the session. On the
client, `apiClient` puts the token in front of every request and turns a 401
into one shared refresh. The wizard writes the users and employees that the
employee page later edits; the rate master writes the tariff that the desk
copies.

The hard behaviours are: two handlers between whose calls a third one writes
(every check-then-act below); a handler that dies between two writes; the
rollbacks that undo several writes in several calls; answers read early and
written late; answers that reach a page in another order than they were asked
for, or after it was left. `PROJECT.json` lists each of them at its line under
`hazards`.

## Modules

| Module | Models | Proofs |
| --- | --- | --- |
| `ParkingStore` | the shared collections (`slot`, `resv`), the clock | |
| `ParkingOperations` | `create_entry` and `create_exit`, call by call, over the store | |
| `SlotReservations` | slots and reservations, call by call, over the store | |
| `ParkingVisits` | what the desk promises, abstractly: vehicles come in, and leave under a settlement of their own | |
| `ParkingSystem` | composes the two services over the store; states the properties | |
| `MCParkingSystem` | values for TLC | |
| `ParkingSettlement` | | types, settling and the books, the desk implements `ParkingVisits` |
| `ParkingSlots` | | holders keep their slots, no slot leaks, claims |
| `AuthSessions` | `application/auth/service.py`, call by call | |
| `BrowserSession` | the client's tokens, requests and shared refresh, over `AuthSessions` | |
| `SessionSystem`, `MCSessions` | compose them; the properties; values for TLC | |
| `SessionProofs` | | types, and the five properties |
| `Tariff` | slab validation, the choice of a slab, duration, money | |
| `TariffProofs` | | one slab for every stay, the minutes it is counted as |
| `DeskServer` | the desk as its screens use it, one action per call | |
| `DeskTab` | calls of a page, the membership lookup, the receipt dialog | |
| `EntryScreen`, `ExitScreen` | the two pages, with the camera dialog | |
| `DeskScreens`, `MCDeskScreens` | compose them; the properties; values for TLC | |
| `DeskScreenProofs` | | types, prices, the pages, the till implements `ParkingVisits` |
| `RateForm` | the rows of the rate dialog: pure operators | |
| `RateMaster`, `MCRateMaster` | the dialog, the rate endpoints, other clients | |
| `RateMasterProofs` | | types, what the form sends and what can be opened, every stay once |
| `Directory` | users, employees, roles, the check in front of every call | |
| `InitialSetup` | `application/setup/service.py`, call by call | |
| `EmployeeAccounts` | employee and role services, call by call | |
| `Facilities` | branches and locations, call by call | |
| `Navigation` | menu, routes and endpoints as tables | |
| `Administration`, `MCAdministration` | compose these five under the wizard and the pages; the properties; values for TLC | |
| `SetupProofs` | | setup, orphans, pages |
| `AdministrationProofs` | | types, accounts, roles, locations |

### The parking core

How the state corresponds to the code. A document is named by the request that
inserts it, which is faithful because the code draws a fresh `ObjectId` per
request: `entry[e]`, `exits[x]` and `payments` (a payment is named by the exit
in its `idempotency_key`) belong to requests `e` and `x`. `inPc`, `outPc` and
`admPc` say at which call a request stands, and `inJob`, `outJob` and `admJob`
hold the local variables that later calls use. An early refusal, which changes
nothing, is the guard of the action that begins the request; a later one is a
branch. A unique index is a condition in the action that inserts:
`DuplicateEntry` is `uq_open_entry_vehicle` and `uq_entry_token_number`,
`DuplicateExit` is `uq_exit_entry`.

`create_entry`: `BeginEntry` (the check for an open entry of the vehicle or the
tag), `TakeNumber` (the day's counter), `FindReservation`, `OccupySlot`,
`ClaimReservation`, `UndoOccupy`, `SavePhoto`, `InsertEntry`, and the rollback
`ReleaseReservation`, `ReleaseSlot`, `DeletePhoto`. `create_exit`: `BeginExit`,
`InsertPayment`, `InsertExit`, `DeletePayment`, `CloseEntry`,
`CompleteReservation`, `FreeSlot`. `create_reservation`: `BeginCreate`,
`CheckOverlap`, `InsertReservation`, then the sync `SyncSlot`,
`SyncReservations`, `SyncWrite`, which `update_reservation` (`BeginUpdate`,
`RecheckOverlap`, `WriteReservation`) ends with too. `DropEntry`, `DropExit` and
`DropAdmin` are a request that dies: the process stops, or a call raises
something the handler does not catch. They exist only when `MayFail` is true.

What is abstracted:

- Money. `BeginExit` chooses whether there is anything left to pay; the code
  goes on only if the amount offered is exactly the balance. The arithmetic is
  `Tariff`'s, and `DeskScreens` checks what a settlement costs.
- Names, telephone numbers, photographs, receipts. A vehicle number and a tag
  (RFID or QR) are values that can be equal or not.
- Time is a small counter that the requests read. One counter stands for the
  entry numbers of a day, the date being part of the number.
- The undoing at `service.py` 545-549 is one step: it is proved never to be
  taken (`ThmCloseNeverRefused`), so its grain does not matter.
- Reads that later steps do not use (settings, the rate, the company) are part
  of the action that begins the request. In particular the operator's posting
  is read at line 281 and used at line 108 only, so it is an input of the request.

### Sessions

A session is named by the call that issued it and a reset token by the call that
offered it, since the code draws a fresh uuid4 for each; `session[s].from` is
the session it succeeds, which is the claim the refresh presented. `call[c]` is
where the handler of an HTTP call stands: `FindSession`, `Rotate` and
`IssueTokens` are the three database calls of `refresh`, `Redeem`, `SetPassword`
and `RevokeSessions` those of `reset_password`, and so on. `expired` has the
tokens that are past their lifetime, by kind: an access token (`ExpireAccess`)
is refused by every endpoint and read as nobody's by a page that loads, a
refresh token (`ExpireRefresh`) by `FindSession`, a reset token (`ExpireReset`)
by `Redeem`. A handler that stops is one that takes no further step. In the
browser, `local` and `own[t]` are `localStorage` and a tab's `sessionStorage`,
reduced to the pair of tokens and to whether the company's id is there,
`promise[t]` is `refreshPromise`, and `request[r]` an axios request: its access
token is the one the interceptor read when it was sent. `Unauthorized` leads to
`Expelled` (no refresh token is stored), `Refresh` or `JoinRefresh`; the end of
the refresh is `Refreshed`, which stores the tokens and sends again whatever
waited, or `RefreshFailed`, which rejects whatever waited and signs out. Because
the promise chain has no other turn in between, the callbacks of all waiters are
one action.

Abstracted: hashing and signing are what they promise; the names a registration
competes for are the account; an access token and the refresh token issued with
it are one pair. The `exp` claim of a token and the `expires_at` of its
document, if it has one, pass in one step, since they are set together; a
refresh token does so after the access token it came with, as the limits of the
settings have it (`core/config.py` 28-30), and only while its session is active,
because a rotated or revoked one is refused either way; likewise a used reset
token. `GET /auth/me` is one of the API requests. The branch of the interceptor
for an inactive company (`apiClient.ts` 32-41) is unreachable, because
`companies/service.py` 81-83 refuses to deactivate the company a deployment runs
for.

### Entry and exit screens

`DeskServer` serves each call in one step. That is what `ImplementsVisits`
justifies: whatever handlers do between their calls, entries and exits appear as
if admitted and settled at once. `ServesVisits` is the other half: `DeskServer`
implements the same `ParkingVisits`, so the pages are checked against a server
that promises what the database-level desk was shown to keep. A call of a page
is `call[c]`, of an operation and about a vehicle or an entry; the server acts
on it (`CreateEntry`, `CreateExit`, or a refusal), and the page hears of it
later, or never, when it was left (`Abandoned`). A read is answered with what is
true when the answer arrives, or with what the page saw earlier: `Listed` may be
of any age. A call that times out reaches the page as a failure and may be
served afterwards. `ExitScreen` follows `VehicleExitPage.tsx`: `Retrieve`, then
`Found` with a proposal or `RetrieveFailed` into the list for recovery,
`Select`, `Recalculate`, `Pay`, `ExitVehicle`. `EntryScreen` follows
`VehicleEntryPage.tsx` and `CameraScannerDialog.tsx`, where a permission may be
granted after the dialog was closed (`LatePermission`).

Abstracted: a closed entry keeps its settlement and nothing else; two lookups of
one vehicle are not told apart; searches are by plate; whether a saved entry
opens its receipt is a free choice, because it is a setting; a permission that
is pending when the page unmounts is dropped; the photograph's encoding, the
logs' filters and the layout of receipts are left out.

### Rates

`form` is the dialog (mode, rows, and the rate it edits), `rate` the collection,
`save` the one call the dialog waits for. `RateForm` has the dialog's helpers
under their own names. `Receive` is any other client, including one that sends
lists this dialog would never build (`Foreign`), which the server validates as
it does all others. `Acceptable` is that validation: as many rows as a request
may have (`MaxSlabs`, 50 in `api/v1/routes/rates.py` 34 and 50), an amount and a
GST that are numbers in each (lines 28 and 29), and `validate_duration_slabs`.
A boundary is a number of minutes; an amount and a GST are only whether they are
filled in, and they can be emptied again. The hourly grid has one field for the
GST of all rows (`ApplyGstToAll`), and alone among the fields it is not required
by the browser. Left out are an amount of more digits than the server takes,
which the browser does not refuse, and boundaries beyond a year, which both do.

### Setup, staff and facilities

`setup` is the singleton document of `platform_setup` and its state the code's;
`user[u]` and `employee[u]` are the documents an identity may have in the two
collections, and `user[u].by` says who inserted the account. `call[t]` is the one
call a tab has under way, with the step its handler is at: `ClaimSetup`,
`InsertCompany` and `AwardToken` are the database calls of
`create_initial_company`, `ClaimAdmin` to `FinishSetup` those of
`create_initial_employee`, with `UndoAdmin` and `ReleaseAdmin` for its
compensations; `InsertUser`, `InsertEmployee` and `UndoUser` those of
`EmployeeService.create`. `Stopped` is a handler that stops anywhere. `split`
collects the users, roles and branches whose two writes were separated: by a
stop, by a refusal between them, or by an overlapping call on the same
document. Several properties exempt them, because the code has no transaction
there and nothing repairs the difference but the next update.
`known` is the status the `PublicCompanyProvider` holds in a tab and
`Redirected` what the pages make of it.

`Navigation` puts side by side what the source keeps in three places: the menu of
`AppLayout.tsx`, the guards of `router.tsx`, and the permissions of the endpoints
each page calls when it opens.

Abstracted: there is one company; particulars of companies, branches, locations
and employees that nothing else reads are left out, and so are partial updates of
an employee, which the client never sends; the profile a page consults is the
account's own (an older one only keeps from calling); a tab makes one call at a
time; a call to the database that fails has not written. The check in front of a
call goes with the first read of its handler.

## Properties and runs

| Run | Instance | Checks |
| --- | --- | --- |
| `Desk` | 2 entries, 3 exits, 2 vehicles, 1 tag, requests may die | `ClosedHasItsExit`, `CloseNeverRefused`, `SettledForGood`, `ImplementsVisits` |
| `SlotClaims` | 2 entries, 1 exit, 2 reservation requests, 2 vehicles, 1 slot | `TypeOK`, `OccupiedIsHeld`, `ClaimIsOurs` |
| `SlotClaimsFailing` | as above with 1 vehicle, reservations reactivated, requests may die | `HolderKeepsSlot` |
| `Progress` | 1 entry, 2 exits, 2 reservation requests, fairness | `LedgerAgrees`, `ExitMeansClosed`, `OfferSettles`, `RefusalFreesSlot` |
| `Crash` | 1 entry, 1 exit, requests may die | finds `ExitMeansClosed` violated |
| `DoubleBooking` | 2 reservation requests | finds `NoOverlap` violated |
| `StaleSync` | 2 reservation requests | finds `QuietSlotReflects` violated |
| `SlotScreen` | 1 entry, 1 reservation, a slot screen that may do anything | finds `HolderKeepsSlot` violated |
| `Sessions` | 2 tabs, 2 requests, 3 calls to `/auth`, 1 account, 2 page loads (3,389,866 states) | `TypeOK`, `RotatedOnce`, `RedeemedOnce`, `PresentedOnce`, `WaitersAreServed`, `StaysSignedIn` |
| `DeskScreens` | 2 vehicles, 2 entries, 2 calls, 2 tariffs, 2 moments (1,855,792 states) | `TypeOK`, `SettledAtItsPrice`, `MembershipSettles`, `ReceiptIsLatest`, `BusyHasCause`, `CameraOffWhenClosed`, `ServesVisits` |
| `RateMaster` | 1 rate, up to 3 rows of which the server takes 2, an hour of 2 minutes, 6 foreign lists (2,234,748 states) | `TypeOK`, `FormAccepted`, `Editable`, `EveryStayOnce` |
| `Administration` | 2 tabs, 2 users, 1 role besides the administrators', 1 branch, 1 location (1,613,326 states) | `TypeOK`, `SetUpOnce`, `CompleteHasAdministrator`, `SessionHonoured`, `NoOrphans`, `AccountFollowsEmployee`, `LeftForGood`, `RoleInUse`, `LocationsCloseWithBranch`, `PagesServed` |

### The parking core

`ImplementsVisits` is the desk's contract: with open entries as the vehicles
inside, closed ones as those that left and the exit an entry names as its
settlement, every step of the database-level model is a step of `ParkingVisits`
or changes nothing there. It holds whatever dies, because the unique indexes
carry it, not the checks before them. `SettledForGood` adds that a closed
entry, its exit and its payment are never written again, which is what the
rollbacks of a losing till could break. `ClosedHasItsExit` and
`CloseNeverRefused` explain why: the exit is stored first, and only the request
that stored it reaches the closing.

`LedgerAgrees` (payments on file are those the stored exits ask for) and
`ExitMeansClosed` hold only if no request dies, and are checked and proved under
`MayFail = FALSE`. Run `Crash` shows why: an exit stored for an entry that stays
open keeps the vehicle inside for ever, since `uq_exit_entry` refuses every
later attempt. The documentation asks for a transaction there
(`backend/docs/mongodb-schema.md` 300-303).

`HolderKeepsSlot` says that from the moment a request occupies a slot until it
gives it back, or the entry's exit frees it, the slot is occupied in that
entry's name. No two vehicles are then ever parked in one slot, double booking
or not: the conditional update at `parking/service.py` 110 is what decides. It
relies on one thing the code does not enforce: that the people at the slot
screen leave occupied slots alone (`AdminOverride = FALSE`). `SlotScreen` shows
the violation without it; the guard in `UpdateSlot` stands for that assumption
and not for code. `OccupiedIsHeld` is the converse, no slot leaks, when no
request dies: it covers the three rollbacks of `create_entry`. `ClaimIsOurs`
ties a parked vehicle's entry to its reservation.

`DoubleBooking` and `StaleSync` are the two races of the reservation service:
its overlap check and its insertion are two calls with no index behind them, and
its sync may write an answer that a later sync has overtaken.

### Sessions

`RotatedOnce` says that sessions form chains: a refresh token buys one
successor, and none once a password reset has revoked it. It is the conditional
`update_one` at `auth/service.py` 184 that decides. `RedeemedOnce` is the same
for reset tokens (line 236). `PresentedOnce` is the client's half: a page sends
a given refresh token once, because waiting requests share one refresh and
because what was presented is replaced or removed before the promise is dropped.
If it did not, the server would refuse the second presentation and the client
would sign the user out. `WaitersAreServed` says that requests wait exactly
while their page has a refresh under way, and `StaysSignedIn` that nobody is
thrown out by the renewal, as long as there is one page, no reset, no disabled
account and no lost answer, the stored refresh token has not expired, and the
refresh under way, if any, presents the token that is stored.

These exceptions are real, and the model has them: a page that is left alone for
longer than its refresh token lasts (7 days, or 30 with "remember me") is thrown
out by its next renewal (`auth/service.py` 171-180); two tabs that share
`localStorage` present one token, and the loser clears it for both; a sign-out
while a refresh is under way is undone when the tokens arrive and are stored; so
is a sign-in of somebody else; a refresh that was under way when the user signed
out and that is refused after somebody has signed in signs that user out
(`apiClient.ts` 57-60 relates the refusal to no session); a reload while a
refresh is under way loses the rotated token; a page reloaded with an expired
access token shows nobody signed in although the refresh token is valid
(`AuthContext.tsx` 12-18); a form of the sign-in page that is answered 401 while
a refresh token is stored refreshes and sends itself again; a refresh that
issues its tokens after a password reset has revoked the sessions leaves one
alive; and two requests for a reset leave two valid tokens. No document promises
otherwise, so they are listed as hazards and not as findings.

### Entry and exit screens

`SettledAtItsPrice` is what the desk is for: an exit charges what the tariff the
vehicle was admitted under says of its stay, to the rounding of the tax, all of
it collected and none twice, whatever balance the page showed, whatever was
typed, whenever the rate was changed, and although another till may settle
first. `ServesVisits` is the contract of `ParkingVisits` again. The others say
what a page shows once the answers are in: `MembershipSettles` (the pass of the
vehicle that is typed or retrieved), `ReceiptIsLatest` (the receipt last asked
for), `BusyHasCause` (a disabled button has a call that will enable it, and a
form is sent once at a time) and `CameraOffWhenClosed`.

Known weaknesses that no property states, as the code does not prevent them: two
retrievals in a row can show one vehicle with the amount of another; a
calculation that fails after the lookup hides the recovery list; a scan that
ends after the dialog was reopened closes the new one; a successful exit clears
whatever is on screen by then; a log shows whichever page of entries was
answered last. Both pages read `GET /settings/software`, which only
administrators may (`api/v1/routes/settings.py` 57-62): an operator's page
silently keeps the defaults.

### Rates

`FormAccepted` relates the browser's validation to the server's: whatever rows
were added, removed, retyped and switched between hourly and custom modes, what
can be submitted is a tariff to `validate_duration_slabs`, with every amount,
and with the GST of all rows or of none. It does not say that the server takes
the form, which would be false: the dialog prevents neither more rows than the
server's 50 (`api/v1/routes/rates.py` 34, 50) nor the empty GST of the hourly
grid (line 29 there), and both are refused in `Refuse`. `Editable` is the other
direction: any rate on file opens as rows that can be submitted, that are saved
as what they were, and that the server takes. `EveryStayOnce` is the meaning of
both: a stay fits one slab, and none only if the last slab has an end that the
stay reached, which the server permits; such a vehicle cannot leave, as the
calculation is refused.

Not stated, since the code does not provide it: removing the last row leaves the
one before it closed; a dialog closed while it saves is not told apart from the
next one, which a late success closes; two administrators who save the whole
rate overwrite each other.

### Setup, staff and facilities

`SetUpOnce`, `CompleteHasAdministrator` and `SessionHonoured` are the wizard's
contract: one company and one administrator, whoever tries and whatever stops; a
setup that says it is complete has left an administrator with an employee; and a
browser's stored session is the one setup waits for. `NoOrphans`: a refused
employee leaves no account. `AccountFollowsEmployee`: who may log in, in which
role and by which name is what the employee says. `LeftForGood`: a deactivated
employee is not changed again and the account stays disabled. `RoleInUse` and
`LocationsCloseWithBranch` keep references alive. These four do not hold of what
is in `split`. That exempts calls that stop half-way, and the races and the
partial failure that `PROJECT.json` lists at `employees/service.py` 213, `roles/service.py` 164 and
`companies/service.py` 147, for which no property can hold: an update that found
an employee (`employees/service.py` 179) before a deactivation writes after it
(213-215), and the employee or the account is back; an update refused between
its two writes leaves them apart; a role is assigned while it is deleted, a
location created while its branch closes. `LeftForGood` has a second part
without that exception: while no call on an inactive employee is under way,
neither document changes, so that nothing but such an overlap brings anybody
back. `PagesServed` compares the three tables of `Navigation`: a page that the
menu shows opens, and the server answers what it asks, for every role.

`backend/docs/role-management.md` 17 says that system templates cannot be edited.
The code refuses to delete them and lets them be edited (`roles/service.py`), and
so does `UpdateRole`; no property depends on it.

Known weaknesses that no property states: after the wizard's last step the
provider keeps the old status, so the sign-in page sends back to the wizard until
the page is reloaded; a lost answer to the creation of the company loses the
token, and a crash in `creating_company` or `creating_admin` leaves setup stuck;
a registration while setup waits for its administrator blocks it; the last
administrator can deactivate himself; an inactive employee keeps the e-mail
address; a location created while its branch closes is stranded; a form opened
earlier overwrites what was saved since.

### Bounds, fairness, mutants

**Bounds of the parking core.** Every property speaks of at most two requests of
a kind that compete for one vehicle, slot, entry or reservation, and of a third
that sees the result; the instances have these. One slot is enough because no
action reads or writes two. Two reservation requests give one reservation that
changes or two that compete. `MaxTime = 1` lets the reservation's window end
during any request. Slots `here` with operators posted nowhere or `elsewhere`
exercise the refusal at line 109. The requests, entries, exits, vehicles and
reservations are symmetric, and symmetry is used except where liveness is
checked. Requests are finite in number, so the system may stop: deadlock is not
checked.

**Bounds of the other models.** `Sessions`: three calls allow a sign-in and two
refreshes that compete, a sign-in with a reset, or a refresh with a form that is
sent again; two requests allow one to wait while the other joins or starts anew;
two loads give two pages in two tabs or a reload. A behaviour ends when the
calls are used up. `DeskScreens`: two calls race each other; two vehicles are
the one on screen and the one answered late; two moments, on clock ticks of half
a minute, let a stay move from one slab to the next and be rounded up; the two
tariffs differ in price and slabs. `Overlay = FALSE` opens the camera dialog
only while the page waits for no answer: the dialog covers the form, and its
state touches nothing that an answer reads. `RateMaster`: with an hour of 2
minutes and a grid of 2 rows, a boundary can lie inside an hour, on it and
beyond the grid; the third row shows that rows are rebased in chains, and is the
one too many for the server; boundaries are typed from `Ends`. Its run checks
deadlock. `Administration`: one call per tab, two tabs, so two calls overlap in
every way; two users are the administrator and one employee, or two employees who
compete for a number.
`Together = FALSE` separates the phases: staff and facilities change only after
the wizard has ended in both tabs, and one behaviour changes one of the two.
They share no document but the accounts of those who may call, and the theorems
hold for either value. Symmetry is used for tabs, users, calls, requests and
vehicles; no liveness is checked there.

**Fairness.** Only run `Progress` assumes any. `FairSpec` assumes weak fairness
of each request's own steps: the event loop resumes every handler whose database
call was answered, and in the runs that use it no call fails. Nothing is assumed
of requests beginning or of the clock. Under it a till that offers the exact
balance gets the entry closed, by itself or by its rival (`OfferSettles`), and a
slot taken for an entry that is refused is given back (`RefusalFreesSlot`).

**Mutants.** Next to some actions stands a variant marked "Mutant": the same
operation with a plausible mistake (an index missing, a rollback forgotten, a
guard dropped). No specification uses them; `PROJECT.json` says which property
each one breaks.

## Proofs

All proofs are for any finite or infinite sets of requests, vehicles, tabs, users
and the other constants, under the assumptions named in the modules
(`StoreAssumption`, `OperationsAssumption`, `AuthAssumption`,
`DirectoryAssumption` and so on), which say that `None` is no value of the other
sets, and that windows, payloads and forms are well formed. Those about data are
what the code's own validation lets through: a tariff the server makes active
is a list of slabs with a beginning and an amount of at least zero, with an end
or none (`DurationSlabPayload`, `api/v1/routes/rates.py` 25-29), that
`validate_duration_slabs` accepts; a form has a name, because the payloads
ask for a minimal length.

The parking core:

- `ThmTypeOK`: types, by one lemma per service.
- `ThmSettleInv`: the invariant behind settling. `ClosedHasItsExit` is not
  inductive: closing could name an exit that is undone later. `SettleInv` adds
  that an exit exists exactly from its insertion on and for its own entry
  (`ExitFollowsInsert`), that there is one per entry (`OneExitPerEntry`, the
  index), and that the request a closed entry names is past closing
  (`CloserIsPast`), hence can undo nothing. `ThmClosedHasItsExit` and
  `ThmCloseNeverRefused` follow. No assumption on failures.
- `ThmLedgerAgrees`, `ThmExitMeansClosed`: by `BooksInv`, what the books owe at
  each step of an exit request, under `~MayFail`.
- `ThmImplementsVisits`: the refinement. `EntryStep` shows that a step inserts
  one entry, closes one, or leaves entries alone; `InsertAdmits` and
  `CloseSettles` map the first two.
- `ThmHolderKeepsSlot`: under `~AdminOverride`, with any failures. The
  strengthening says that a request has no slot before it looked for a
  reservation and that past closing an entry is closed; that nobody else is
  about to free the slot of an exit in progress is `OneExitPerEntry` again.

- `ThmSettledForGood`: the same invariant, step by step. That a closed entry's
  exit is not undone is `CloserIsPast`; that its payment is not is that a
  payment is only deleted by the request that stored it, before its exit.
- `ThmOccupiedIsHeld`: under `~AdminOverride` and `~MayFail`, by `LeakInv`: a slot
  in an entry's name is occupied, and somebody who is still at work or still parked
  holds it. Each step of a rollback is looked at for what it has yet to give back.
- `ThmClaimIsOurs`: under `~AdminOverride`, with any failures, by `ClaimInv`. A
  second request cannot claim the reservation because the first one still holds
  the slot: `ClaimedByOne` is `HolderKeepsSlot` used.

The sessions (`SessionProofs`), for any number of tabs, calls and loads:

- `ThmTypeOK`, with `CallInv` and `RequestInv`: what kind of call stands where,
  and that a waiting form can be sent again.
- `ThmRotatedOnce`. The property speaks of issued sessions only and is not
  inductive: two refreshes could both be about to issue. `RotInv` adds the
  refreshes under way: one that has found its session works for that session's
  account, one past the rotation finds it rotated, and no two of those present
  one token. The step that needs it is `Rotate`, which finds an active session,
  hence one that nobody has rotated.
- `ThmRedeemedOnce`: by `RedInv`, likewise; a token that was redeemed reads used.
- `ThmWaitersAreServed`: inductive together with the types.
- `ThmPresentedOnce`. The strengthening is about time: a stored pair of tokens is
  *settled* (`StoreInv`), that is, its call was granted and nobody waits for that
  answer any more, and so is every token that a refresh presents; hence tokens
  that arrive now were never presented. `PendInv` says that a call is waited for
  in one place, `PageInv` numbers the pages, and `PresInv` that a page that still
  finds stored what it presented has that refresh under way.

- `ThmStaysSignedIn`, by `StayInv`, which adds to the invariants above where
  things come from: a session belongs to an account that exists (`UserInv`); a
  refresh was sent by a page, and a session that was rotated was rotated by one
  (`OriginInv`). While nothing disturbs (`Calm`: one page, no account disabled,
  no session revoked), `CalmInv` says that whoever is signed in has tokens and a
  company stored, and that a refresh is answered 401 only if its token has
  expired. The step that needs it is the server's look at the session
  (`Unspent`): if it had been rotated, some refresh presented the token before;
  with one page that is this refresh itself (`ThmPresentedOnce`), which has not
  got that far.

  The proof did not go through for the property as it first stood, without the
  last conjunct of `Undisturbed`, and the property was false: with five calls
  instead of three TLC finds a sign-out while a refresh is under way, the
  late tokens stored without a company, a wrong password answered 401 whose
  refresh ends in a conflict, and a second form that signs in before that
  conflict is answered. It is listed with the real exceptions above.

Tariffs (`TariffProofs`), for slabs of any number and length and any resolution of
the clock: `ThmFitsOnce`: in a list that `validate_duration_slabs` accepts, a stay
of any number of minutes fits exactly one slab, unless the last one has an end that
the stay reached. That adjoining slabs climb is a statement about every
number of slabs, which the provers cannot reach by induction. `LeastNatural`, that
a set of naturals that is not empty has a least member, stands in its place: it
follows from the well-foundedness of the order, and the least slab that breaks the
claim has a predecessor that does not (`SlabsClimb`, `OneSlab`, `SomeSlab`,
`NoSlab`). `MinutesStarted` says which minutes a stay is counted as.

Rates (`RateMasterProofs`): `ThmFormAccepted` and `ThmEditable`, by `MasterInv`.
`FormInv` says what the rows satisfy *before* validation: in every mode each
starts where the one before it ends, where an end cannot be typed they ascend,
and in the hourly grid all have a GST or none has (`OneGst`). The helpers that
add, remove and rebase rows keep it, for any number of rows. `ThmTypeOK` follows
from it, and `ThmEveryStayOnce` from it with `ThmFitsOnce`: the rates on file
are what the server took, hence tariffs, and so each of them has one slab for
every stay.

Entry and exit screens (`DeskScreenProofs`), for any vehicles, entries, calls,
tariffs and moments, by `ScreenInv`. Its parts are about one thing each:
`VisitInv` (an open entry has a tariff that was active and began before now),
`CallInv` (what a call is about exists, and an answer is waited for by the page
that asked), `BusyInv` (a page waits exactly while it has a call that ends its
waiting), `PageInv`, `ReceiptInv` (one receipt is asked for at a time, and the
dialog keeps the form from being submitted) and `CameraInv`. A step of a page is
split by what it does to the calls, whatever page takes it (`SentCallsInv`,
`EndedCallsInv`, `MovedCalls`), and by what it does to the page.

- `ThmTypeOK`, `ThmMembershipSettles`, `ThmReceiptIsLatest`, `ThmBusyHasCause` and
  `ThmCameraOffWhenClosed` follow from it.
- `ThmSettledAtItsPrice`: a step that closes an entry is `Close`
  (`CloseIsRight`); by `ChargedBySlab` the slab it charges fits the minutes
  started, by `BalanceCompletes` advance and payment make the total, and by
  `TaxRounded` the total is the price to the rounding of the tax.
- `ThmServesVisits`: the refinement. `EntriesStep` shows that a step admits a
  vehicle that is not inside, ends one visit, or leaves the entries alone.

Administration (`SetupProofs`, `AdministrationProofs`), for either value of
`Together`:

- `ThmSetUpOnce`, `ThmCompleteHasAdministrator`, `ThmSessionHonoured`: by
  `CompanyInv`, `SessionInv` and `AdminInv`, which say what the singleton's state
  means: who has claimed it, that a call past a claim is the only one, and which
  documents exist by then.
- `ThmNoOrphans`: by `StaffInv`, on what a creation has inserted at each step.
- `ThmPagesServed`: by the tables, for any set of permissions.
- `ThmAccountFollowsEmployee`, `ThmLeftForGood`: an update or deactivation works
  on an employee that is not inactive and alone, or the user is in `split`. The
  second part of `ThmLeftForGood` takes less (`StepWrites`): only a call under way
  writes, and one that begins has found the employee not inactive.
- `ThmRoleInUse`, `ThmLocationsCloseWithBranch`: `RoleInv` and `FacilityInv`
  relate a deletion or a sweep under way to the documents that still refer to what
  goes.
- `ThmTypeOK`: by `PeopleInv` and `PlaceInv`, which know of each call under way
  which form it carries and which documents its next write can meet.

Every invariant and action property of the passing runs is so stated by a theorem.
Only model-checked are the two liveness properties, `OfferSettles` and
`RefusalFreesSlot`, since fairness and `ENABLED` are out of the prover's reach, and
what the four runs that look for a violation show.

## Not modelled

- Settings: single documents that are read and overwritten. Where a screen
  depends on one, the model makes it a free choice.
- Reports and dashboard: aggregations inside MongoDB that change nothing.
- The audit log: one append per request, after its response.
- The HTTP layer: routing, validation and error formatting.
- Monthly passes: `update_pass` is one conditional write, `create_pass` one
  insertion under a counter; the desk's lookup of a pass is in `DeskTab`.
- Tenant backup and restore: a restore upserts document by document while the
  desk works, and leaves the counters as they are. Its composition with the desk
  is planned below.
- In the client: wording and translation, themes, layout, charts, receipts as
  images and codes, the filters and pages of lists, and the particulars of forms
  that no other component reads.

## Plan

What a next step would add, in this order:

1. `TenantBackup` over the parking core: which of its invariants survive a
   restore that runs while the desk works.
2. Windows that move in `SlotReservations` (an update that inverts one), the tags
   of open entries, and slot statuses after an exit.
3. Liveness of the client: a request that waits is answered or rejected, under
   weak fairness of answers and timeouts.
