# Nereo: a verification companion

TLA+ models of Nereo's backend and front end, with the TLC runs that check them on
small instances and TLAPS proofs that hold for every instance. Paths below are relative
to `src/`; `frontend` is `nereo-frontend/src`, `backend` is `nereo-backend/internal`.

## The system

Nereo is a subscription business for car washes: a Go API over PostgreSQL and
Redis (`nereo-backend`), a Next.js front end (`nereo-frontend`) and an ML stub
(`nereo-ml`). Mercado Pago (MP) collects the money and notifies by webhook.

| Part | State | Operations | Hard because |
|---|---|---|---|
| Webhook processing (`backend/payment`) | tables `payment_events`, `subscriptions` | check, fetch, look up, record, update, one goroutine per notification | five calls and no transaction; duplicates, reordering, crash in between |
| past_due cron (`payment/cron.go`) | the ids it listed | list, then cancel one by one | the list ages while it is worked off |
| Manual payments (`payment/handler.go`) | the two tables | record a payment, then renew | two statements, a person retries |
| Subscriptions, plans (`backend/membership`) | `subscriptions`, `membership_plans` | create, cancel; create, update, deactivate | what was read is old when it is written |
| Checkout and MP client (`payment/handler.go`, `mercadopago.go`) | none of its own, MP's objects | create preference or preapproval, with retries | a POST whose answer was lost is repeated |
| Tenants (`backend/tenant`, `app/(auth)/registro`) | `tenants`, `users`, the connection pool, a form | registration | the tenant is inserted outside the transaction, on a second connection |
| Sessions (`backend/auth`) | `refresh:<user>` in Redis | login, refresh, logout | get, query, set without atomicity |
| Realtime channel (`hooks/use-realtime-channel.ts`) | event source, timers, status | connect, open, error, timeout, unmount, poll | timers outlive what they were set for |
| Kanban board (`components/operario/kanban`) | query cache, drag | buttons, drags, server events, refetches | overlapping optimistic requests and rollbacks |
| Problem modal (`problem-modal.tsx`) | one modal for all cards | open, type, dismiss, submit | it outlives the card it was opened for |
| Check-in (`operario/checkin`, `qr-scanner.tsx`) | result on screen, camera | scan, verify, register | answers arrive late; start and stop overlap |
| Subscriber cache (`hooks/use-subscriber-mutations.ts`) | query cache, snapshots, dialog | renew, pause, cancel, create | two queries, overlapping mutations |
| Subscriber table (`app/(admin)/suscriptores`) | filters, search, order, page, ticks | each of them | row keys are positions |
| Subscriber dialog (`new-subscriber-modal.tsx`) | step, saved step, values | steps, submit, close, reload | three lifetimes of state |
| Browser session (`hooks/use-auth.ts`, `middleware.ts`, `lib/api.ts`) | cookies, pages | navigate, login, logout, expiry | the page read the cookie of an earlier moment |
| Password reset (`app/(auth)`) | forms, links | ask, follow, change | calls outlive pages, answers are lost |
| Dashboard (`app/(admin)/page.tsx`) | a query per widget and period | select a period, poll | answers arrive out of order |
| Landing hero (`frame-sequence.tsx`, `landing/page.tsx`) | images, canvas, scroll | load, scroll, draw, resize | preloading runs twice, draws wait for a frame |
| High contrast (`use-high-contrast.ts`) | class, preference, button | mount, toggle, reload | three copies in several tabs |
| Phone and amount fields (`components/shared`) | text and value | type, focus, leave | formats are guessed |

Interactions. Handlers, goroutines and the cron share nothing but the database, and
each statement runs by itself: no handler below `payment/` or `membership/` opens a
transaction, so the single SQL statement is the unit of atomicity and the step of the
models. MP is called by the backend and calls it back; the backend answers a webhook
before it processes it. The front end calls the API and hears of changes by server-sent
events; its hooks share one query cache, its tabs cookies and local storage. In the
browser a step is what runs between two turns of the event loop.

What would make each part correct: a payment is recorded and applied once, and
applied if it was recorded; a subscription changes only for a recorded reason; the
cron cancels what is overdue; what is charged was offered; a registered owner has a
tenant, and registrations do not wait for each other in a circle; a device is refused
only for a reason; one event source is open per screen, and the badge does not lie; a
cache settles on what the server has; a car shown once is washed once, however late the
answers are; a form sends what was typed; every spinner ends.

## Modules

| Module | Models | Actions and state, and the code |
|---|---|---|
| `Billing` | webhooks, cron, manual payments, subscriptions | see below |
| `PaymentLedger` | the abstract promise of `Billing` | a payment enters a ledger once, and moves its subscription at most once, after it entered |
| `Plans` | `membership/service.go` 40-160, `repository.go` | `Handle(q)` runs an update (read and merge, write) or a sale (read, insert, record) a statement at a time; `offered` is a history of what each plan cost while active |
| `Checkout` (extends `Plans`) | `payment/handler.go` 30-145, `mercadopago.go` `doRequest` | `GetPlanWithTenant`, `Post`, `Receive`, `TimeOut` per attempt; `Carry` and `Drop` are MP and the network, a post may be carried out after it was given up |
| `PaymentLinks` | the abstract promise of `Checkout` | all that is made for a call is one deal its plan had on offer; the call is told once, of that deal or a refusal |
| `Onboarding` | `registro/page.tsx`, `tenant/service.go`, the pool | form actions per person, `Begin`, `InsertTenant`, `InsertOwner`, `Commit`, `Fail` per request; `free` counts the pool's connections |
| `Sessions` | `auth/handler.go`, `jwt.go` | `Login`/`Refresh`/`Logout` start a run, `Check`, `CheckUser`, `Generate`, `Store`, `Delete` are its statements; any of them may `Fail`, and what Redis or the database does not answer while a token is checked is a 401 (`Refuse`, with `outside` set); a token is told by the second it was issued in |
| `RealtimeChannel` | `use-realtime-channel.ts` and its two callers | the source's readyState, the remembered timer, forgotten timers and retries as counters; `OnOpen`, `OnError`, `RetryFires`, `TimerFires`, `OrphanFires`, `OnMessage`, `Poll` |
| `KanbanBoard` | `kanban-board.tsx`, `kanban-card.tsx`, `kanban-column.tsx` | `Press` and `DragEnd` call `Mutate` (`onMutate`), `Apply`/`Refuse` are the server, `Succeed`/`Fail` the callbacks with the refetch, `DragOver` writes the cache |
| `ProblemReport` | `problem-modal.tsx` | `notes` is the set of cards the text was written about; `left`, the cards it was abandoned at, is a history |
| `CheckIn` | `operario/checkin/page.tsx`, `plate-search.tsx`, `check-in-result.tsx` | two calls with their answers, which may come on any screen; `tapped` and `retaps`, the further taps of one screen's button, are histories |
| `QRScanner` | `qr-scanner.tsx` | one state per Html5Qrcode object; `scannerRef` and the button apart from it; `hasty`, the objects whose start was cut into, is a history |
| `SubscriberCache` | `use-subscriber-mutations.ts`, `suscriptores/[id]/page.tsx` | list and detail with their fetches, mark and snapshots; `Confirm`, `Create`, `Apply`, `Succeed`, `Fail`; `clouded` is a history |
| `SubscriberTable` | `suscriptores/page.tsx` and its columns, filters, bulk actions | row keys are positions in the filtered data; `ticked` and `opened` are histories of who was meant |
| `SubscriberWizard` | `new-subscriber-modal.tsx`, `multi-step-form.tsx` | `step`, `saved` and `values` with their three lifetimes; `made` and `lost` count, for one form, subscribers made and answers lost |
| `BrowserSession` | `use-auth.ts`, `middleware.ts`, `api.ts`, `login/page.tsx` | a load is two steps, the middleware's answer and the mount; `changed`, a login answered under the page, is a history |
| `PasswordReset` | `forgot-password`, `reset-password` | server and mail are external: a link is good once |
| `LandingHero` | `frame-sequence.tsx`, `HeroSection` | `imagesRef`, `due`, `raf` (waiting draws with the `loaded` of their render), `canvas`; `undrawn` and `rewound` are histories |
| `Dashboard` | `(admin)/page.tsx`, `revenue-chart.tsx` | a query per widget and per period |
| `HighContrast` | `use-high-contrast.ts`, `operario-header.tsx` | per tab the class and the button, one preference |
| `PhoneInput`, `CurrencyInput` | the two fields | the conversions as operators: blocks of digits, thousandths |
| `BillingClaims` | `Billing` with a history variable | three statements of the repository about billing |
| `MC*` | the harnesses of the runs | see Runs |
| `*_proofs` | theorems | see Proofs |

`PROJECT.json` maps every definition to its lines.

### Billing and the code

Variables: `subscriptions` and `events` are the tables, reduced to the columns that
decide something. `hook[w]` is the goroutine of notification `w`: `pc` is the call it
makes next, the other fields its local variables. `req[r]` is a handler run of the
staff's. `cron` is what a sweep has left of its list. `mp` is MP's own record of the
payments. `now` counts days; `faults` counts failed calls and crashes.

| Actions | Code |
|---|---|
| `HandleWebhook` | `handler.go` 150-189: 200 is answered, the goroutine starts |
| `CheckIdempotency`, `CheckError` | 194-199; the query's error is thrown away, so a failure reads as "not processed" |
| `FetchPayment`, `LookupTenant` | 201-220; a reference that is no uuid, or no row's id, ends the run ("dropped") |
| `RecordPayment` | 222-242 and `CreatePaymentEvent`: the unique constraint decides, a conflict ends the run |
| `UpdateStatus` | 244-258: active or past_due, whatever the status was, `updated_at` = now |
| `WebhookError` | an error of any call after the first, or the end of the 30 s |
| `StartCreateSubscription`, `InsertSubscription`, `RecordActivation` | `membership/service.go` 110-159; the time is read before the insert |
| `StartManualPayment`, `RecordManualPayment`, `RenewSubscription` | `RegisterManualPayment` and `RenewManual`, `handler.go` 273-398, which have the same steps |
| `RequestError` | any of their error returns |
| `CancelSubscription` | `membership/repository.go` 213-223, one statement |
| `CronList`, `CronCancel`, `CronError` | `cron.go` 28-51; an error skips the row |
| `Crash` | the process ends: runs and lists are gone, tables stay (`cmd/api/main.go` 130-144 waits for no goroutine) |
| `CreateMPPayment`, `UpdateMPPayment`, `Tick` | the environment |

Abstractions. Tenant filters and ids other than a row's own are left out: every
statement modelled names one row. A request that fails before its first write changes
nothing and is no action. An error whose statement was committed all the same (the
answer was lost) leaves the tables as the statement followed by a failure does, so it is
not an action of its own. `paused` is a status no code sets; `washes_used` is only ever set
to 0; amounts decide nothing here. MP's statuses fall into four classes, by what the
`switch` at 245-258 does with them and whether they can still change. A handler run
inserts at most one event, so the run's identity serves as the row's. MP puts into
`external_reference` either a subscription's id, as `roadmap-backend.md` 2.2 and 2.3
describe, or a reference no row has (`None`), as the checkouts of `handler.go` 49 and
112 do today. One backend process is assumed, as the cron is (its sweeps never
overlap).

### Abstractions elsewhere

Names, amounts and texts are model values or small sets; a request that fails before
its first write is no action where nothing depends on it. The query client is modelled
by what it does for these screens: one fetch per query, `cancelQueries` drops it,
`invalidateQueries` marks the data and refetches what is on the screen. The endpoints
of bookings, analytics, verification and password reset are not in this repository:
they answer, refuse, or lose their answer, and are marked external where they have a
definition. A history variable records what a property speaks of and the code does not
keep; no guard reads one.

The screens have flaws that a person meets only in certain orders of steps. Where a
property does not hold because of one, the models still contain every such order; a
history variable records that it happened, and the property excepts what it touched and
nothing else:

| Exception | Set by | What goes wrong in the code |
|---|---|---|
| `hasty` (`QRScanner`) | the scanner is left or its button pressed while a camera starts; a start while another camera stops | `stop` throws during a start, the reference is dropped and the camera stays on (`qr-scanner.tsx` 52) |
| `left` (`ProblemReport`) | the modal is dismissed with text in it | the text outlives the dismissal and meets the next card (`problem-modal.tsx` 23) |
| `retaps` (`CheckIn`) | the button of a screen is tapped again before a success clears it | nothing disables it while the call runs, and a call that failed may have been carried out (`checkin/page.tsx` 109) |
| `lost` (`SubscriberWizard`) | the subscriber was created, the answer lost | the creation is said to have failed and the dialog stays filled in (`new-subscriber-modal.tsx` 83) |
| `clouded` (`SubscriberCache`) | a call of a subscriber beside another one of the same or beside its load, or a lost answer | a rollback brings back what another call showed, and nothing refetches the detail (`use-subscriber-mutations.ts` 80) |
| `changed` (`BrowserSession`) | a login is answered, in any tab, after a page was mounted | the cookie changes under the page (`use-auth.ts` 55) |
| `undrawn`, `rewound` (`LandingHero`) | the frame to draw is not loaded; the first frame comes, or the loading ends, after the visitor scrolled | the second loading replaces images that are there (`frame-sequence.tsx` 103), `drawFrame(0)` rewinds (96) |
| `outside` (`Sessions`) | a refusal for an error of Redis or of the database, or for an inactive user | each is answered 401, a Redis error as "revoked or expired" (`auth/handler.go` 114, 124) |

Other conditions are constants, named for what they assume:

| Constant | Meaning | Why the property needs it |
|---|---|---|
| `Stays` (`SubscriberCache`) | the owner stays on the page while a call is under way | a refetch begun before the call settles takes the list's mark away; `BadgeSettles` does not need it |
| `Still` (`SubscriberTable`) | data and filters change only with nothing ticked | keys are positions |
| `Polling`, `Polled` (`Dashboard`) | the channel has fallen back; the queries given an interval | the projections have no interval |
| `Clears` (`CurrencyInput`) | the form may empty the field | the field's own text comes back |

Bounds: `MaxTime` (days in `Billing`, seconds in `Sessions`), `MaxFaults`, `MaxDrags`,
`MaxForeign`, `MaxFailures`, `MaxReports`, `MaxShown`, `MaxLost`, `MaxChanges`, `MaxTimers`
and `MaxJobs` cap what would be repeated without end; each is a guard of the action it caps.
`MaxConns` and `MaxRetries` are values of the code (25 and 3).

## Runs

Parts that share no state are checked together in one harness: its `Init` chooses a
part, the other parts' variables stand still, and TLC explores the sum of the parts'
states and not their product. A harness extends the module whose theorems state its
properties and instantiates the others, and names what it checks of them: a property of
a part is stated as `part = "..." => ...`, and one name may stand for the properties of
one part. A part's smaller constants are fixed there with `INSTANCE ... WITH`.

| Run | States | Bounds | Shows |
|---|---|---|---|
| `billing` | 639,905 | 1 subscription, 2 payments, 2 notifications, 2 requests (three of the four runs started, `Few`), grace 0, 2 days, 1 fault | `OneEventPerPayment`, `AppliedOnce`, `PastDueHasRejection`, `SweepListFresh`, `RenewalPaid`, `ReactivationPaid`; `Billing` implements `PaymentLedger` (`LedgerSpec`) |
| `backend` | 2,491,994 | plans: 1 plan, 3 requests, 2 prices, 2 intervals; checkout: 2 calls, 1 retry, 1 request; registration: 2 persons, 3 requests, 2 connections; sessions: 2 devices, 6 seconds | `ChargedAsOffered`, `DeactivatedStaysSo`; `MadeAsOffered`, `CreatedIsMade`; `RegisteredHasOwner`, `StuckOnlyWhenFull`; `RefusedForAReason` |
| `operario` | 469,893 | 2 bookings, 2 requests, 1 foreign move, 1 failed fetch; 2 cards, 3 reports; 2 cars, 2 calls of each kind, shown twice; 3 tabs | `SettledAgrees` (board); `AboutItsBooking`; `OneWashPerScreen`; `ButtonSaysTheme` |
| `subscribers` | 3,013,120 | 2 subscribers, 2 calls | `ListSettles` and `BadgeSettles` under calls that overlap each other and the loads, fail, or lose their answers |
| `pages` | 685,498 | 1 tab; 3 addresses, 3 passwords, 2 links; 3 frames, seven places of the scroll, 2 waiting draws; 3 periods; 3 rows on 2 pages; 2 submissions, 2 answers lost; 1 digit slipped; 4 whole parts with 2 decimals | `UserIsLoggedIn`; `ChangedIsStored`; `HeroInStep` (`FollowsScroll`, `ActiveIsReadable`); `ChartIsOfPeriod`; `TableIsTrue` (`KeysFollowRows`, `PageExists`); `FormIsSent` (`FormWaits`, `AgainOnlyIfLost`); `FieldsAreMeant` (`ValidIsMeant`, `Understood`, `BlurSettles`, `ShownIsValue`) |
| `backend_progress` | 55,511 | one of each, 2 retries, 1 fault, 3 days; 2 persons, 2 requests, 3 connections | `NotificationHandled`, `OverdueEnds`; `Checkout` implements `PaymentLinks` (`LinksSpec`); `AnswersCome` (`CallsEnd`, `RequestsEnd`) |
| `progress` | 88,755 | 4 and 2 timers; 1 booking, 1 request, 1 drag, 1 foreign move; 3 cameras; 2 cards; 1 tab; 2 submissions, no answer lost; 2 periods; 2 frames | `OneSource`, `ChannelConnects` (`ConnectedOrPolling` of the dashboard, `StatusSettles` of the board), `BoardHearsEvents` (`EventRefreshes`); `Converges`; `CameraObeys` (`OneCamera`, `ButtonIsTrue` and what makes them inductive); `WaitsEnd` (`CameraReleased`, `LoadsEnd`, `LoadingEnds`, both `SpinnerEnds`); `WidgetsCatchUp` (`FallbackRefreshes`, `PollingCatchesUp`) |

`TypeOK` is an invariant of the run `billing`; the other modules' types are conjuncts of the
properties that use them or of the invariants that are proved.

Why the bounds are enough. Each is the smallest at which its hazard happens. Two
notifications race for one payment or overtake each other with two; a sweep needs a
rejection, a day, a list and a write of the row between list and cancellation; a renewal
races with one other writer, so three runs at a time suffice. A plan's update is lost to,
or sold around, by one other request; a POST is given up and repeated with one retry. With
two connections, two registrations hold them and a third waits. Two overlapping mutations
hold each other's optimistic value; two answers arrive in the wrong order. A lost answer
of the dialog's and the second try it leads to take two submissions; a wash too many takes
two taps. Symmetry is used where identities are interchangeable and no liveness is
checked. Deadlock is not checked, because users and environment may stop: calls, days and
submissions are finite in number.

### Fairness

Nothing is owed by people, by MP or by faults; what is fair is what the runtime promises.

- `Billing`: a started goroutine or handler takes its next step (each call returns or
  times out), the ticker fires (`cron.go` 20), time passes. `Checkout`: a handler goes on
  (15 s per attempt, `mercadopago.go`); `CallsEnd` owes nothing to MP. `Onboarding`: a
  request proceeds when the pool has a connection for it.
- `RealtimeChannel`: timers fire and, where a query has an interval, the query client
  polls; the board has none, and all that is claimed of it is that its status settles. The
  server may hang for ever. `KanbanBoard`, `ProblemReport`, `SubscriberWizard`: a call is
  answered or given up by the browser, an event on the wire arrives. `QRScanner`: the
  library's promises settle. `BrowserSession`: a request for a page is answered, the page
  mounts.
- `Dashboard`: the interval fires, and an endpoint asked again and again answers
  (strong fairness of `Serve`, since each failure disables it until the next poll).
  `LandingHero`: each image loads and the browser draws; there is no `onerror`, so
  its `SpinnerEnds` needs it.

Weak fairness suffices elsewhere: a step once possible stays possible until it, or one
that answers the property, is taken.

## Disagreements

Five statements of the repository are refuted by a run of their own; `PROJECT.json`
quotes them.

| Run | What TLC finds |
|---|---|
| `claim_processed` | recorded, crash before the update; notified again and skipped as processed |
| `claim_approval` | notified as pending and recorded; notified as approved and skipped |
| `claim_cron_past_due_only` | listed, renewed, then cancelled while active |
| `claim_tenant_has_owner` | the owner's insert fails, the tenant stays: it is not part of the transaction |
| `claim_drop_reaches_server` | dragging over a column has written the cache, so the drop finds the card in its column and sends nothing |

Further ones met while modelling, which the models contain and no run states:

- Billing. A cancelled subscription is revived by a late approval (`payment/handler.go`
  247), though the dialog says it cannot be undone (`suscriptores/[id]/page.tsx` 64). The
  cron's seven days are counted from `updated_at`, which each further rejection moves
  (`payment/repository.go` 115). An activation by hand can be left without its payment
  (`membership/service.go` 152), a recorded payment without its renewal
  (`payment/handler.go` 324). The checkouts' references name no subscription (49), so
  their notifications end "dropped".
- Plans and checkout. A plan deactivated after it was read is still sold
  (`membership/service.go` 116); of two updates one sets back what the other wrote (95).
  The idempotency key ends in the time of the attempt (`mercadopago.go` 235): a repeated
  post makes a second preference.
- Sessions. Tokens issued in one second are the same text (`jwt.go` 63); a refresh that
  compared before a logout sets the key after it (`auth/handler.go` 136); a login on a
  second device ends the first one's refresh token (92). An error of Redis is answered as
  a token "revoked or expired" (114), one of the database as an account "disabled" (124), so a
  device whose token is good is sent to its login.
- Registration. A second try meets the tenant of the first and is told that others use
  its slug (`registro/page.tsx` 42).
- Channel. A connection timeout schedules no retry (`use-realtime-channel.ts` 52); a
  reconnection refetches nothing (63). The hook "falls back to polling at 15s"
  (`use-bookings-realtime.ts` 32), but the board takes only its status (`kanban-board.tsx`
  34-44) and shows what it had until an event comes; the dashboard's event handler
  invalidates keys with the tenant where its queries have the branch
  (`use-analytics-realtime.ts` 65).
- Board and check-in. The first of two overlapping requests to settle puts the second
  one's card back (`kanban-board.tsx` 102), and the two may reach the server in the other
  order (177). A plate picked from the list counts as an active membership
  (`checkin/page.tsx` 97); the answer of a verification is shown on whatever screen is there
  when it comes (43), a second tap registers a second wash (109). A camera that was left
  while it started stays on (`qr-scanner.tsx` 52).
- Subscribers. The second of two overlapping rollbacks restores the first one's
  optimistic status (`use-subscriber-mutations.ts` 80); a load of the detail under way
  overwrites it (72). Bulk actions reach positions, not subscribers, once rows come or go
  (`suscriptores/page.tsx` 94). The dialog's steps are not validated
  (`new-subscriber-modal.tsx` 49), a subscriber whose answer was lost is said not to have
  been created and is created again when the form is sent again (83), and a submission that ends clears another form's step
  (`multi-step-form.tsx` 83).
- Browser session. `login` reads a user the backend's answer does not have (`use-auth.ts`
  79); owners are sent to `/admin`, where there is no page: the group `(admin)` is at `/`,
  as `app/page.tsx` is (80). Wrong credentials are told twice (`api.ts` 64), a 401 always
  as an expired session (52); "remember me" is read by nothing (`login/page.tsx` 30). A
  login that is answered after its page was left changes the user under another page
  (`use-auth.ts` 55).
- Password reset. Every failure to ask for a link is told as success
  (`forgot-password/page.tsx` 39); a used link opens the form (`reset-password/page.tsx`
  34); a change whose answer was lost is told as an expired link (66).
- Other pages. After a resize the canvas keeps its former pixels and its first frame may
  stay blank (`frame-sequence.tsx` 108, 114), a late image draws frame 0 (96), and the
  second loading replaces images that were there (103); the page's `activeSlide` is set
  and read nowhere (`landing/page.tsx` 90). A failed query reads as "nobody at risk"
  (`(admin)/page.tsx` 91), the projections are not polled (101). High contrast stays on
  outside the operator's pages (`use-high-contrast.ts` 19) and survives another tab's
  switch (17). A number written as 15 and eight digits keeps its 15 behind +5491, though
  the comment says it is stripped, and is refused as one of fourteen digits
  (`phone-input.tsx` 33-35). The amount is not shown raw on focus (`currency-input.tsx`
  64).

## Proofs

A theorem holds for every value of the constants under the assumptions the module names
(`PartsAssumption` is the conjunction of the parts'), and under the conditions that its
harness fixes (`Still`, `Polling`, `Clears`) or its statement names (`Stays`, `OneSlip`,
`TwoDecimals`). What the table of exceptions lists is in the properties, not in these
conditions: no step of it is forbidden. Each property
of a passing run that is an invariant, an action property or a refinement is stated by a
theorem; what is left to TLC is liveness.

| Module | About | Theorems |
|---|---|---|
| `Billing_proofs` | `Billing` | `LedgerRefinement` (`Spec => LedgerSpec`); `InductiveInvariant`, `TypeCorrect`, `RecordedOnce`, `AppliedAtMostOnce`, `RecordedDecisionsApplied`, `PastDueIsEarned`, `SweepListStaysFresh`, `RenewalsPaid`, `ReactivationsPaid` |
| `Checkout_proofs` | `Plans`, `Checkout` | `PlansTypeCorrect`, `ChargedAsOfferedHolds`, `DeactivatedStaysSoHolds`; `MadeAsOfferedHolds`, `CreatedIsMadeHolds`; `LinksRefinement` (`CheckoutSpec => LinksSpec`) |
| `Backend_proofs` | `Onboarding`, `Sessions` in `MCBackend` | `PartsInvariant`, `RegisteredAreOwners`, `NoConnectionLeaks`, `RefusalsHaveReasons` |
| `Operario_proofs` | `KanbanBoard`; `MCOperario` | `BoardInvariant`, `BoardSettles`; `PartsInvariant`, `BoardSettlesAmongScreens`, `ReportsAboutTheirCards`, `NoSecondWash`, `HeaderTellsTheme` |
| `Subscribers_proofs` | `SubscriberCache`; `MCSubscribers` | `InductiveInvariant`, `ListIsRight`, which assume `Stays`; `BadgesAreRight`, which does not |
| `Progress_proofs` | `RealtimeChannel`, `QRScanner`; `MCProgress` | `ChannelInvariant`, `OneSourceAlways`, `LiveBadge`, `Silent`; `CameraInvariant`, `NoCameraEscapes`, `ButtonTellsTheTruth`; `PartsInvariant`, `OneSourceOnBothScreens`, `CameraObeysAlways`, `EventsAreHeard` |
| `PagesData_proofs` | `SubscriberTable`, `PhoneInput`, `CurrencyInput` in `MCPages` | what their operators return, and that their `IInv`s are inductive; used by `Pages_proofs` |
| `Pages_proofs` | `MCPages` | `PartsInvariant`, `PagesNameTheUser`, `ChangesAreStored`, `HeroFollows`, `ChartsAreOfTheirPeriod`, `FormsAreSentOnce`, `TicksFollowRows`, `FieldsAreRead` (assumes `OneSlip` and `TwoDecimals`) |

The argument is the same everywhere. A module states, below the property, an `IInv` that is
inductive; TLC has checked it before it was proved. Each action, or each group of actions
that disturb the same conjuncts, has a lemma that it preserves `IInv`. A harness's
`PartsIInv` says of each part that its `IInv` holds in the runs of that part; `PartsStep`
needs only that the other parts' variables stand still. An action property, such as
`EventsAreHeard`, is proved of one step from the invariant.

Why `Billing`'s `IInv` is needed. `OneEventPerPayment` is inductive by itself, because the
insert checks for a conflict. `AppliedOnce` is not: it needs to know that a run past its
insert owns a row (`EventsMatchRuns`), that the row still says what the run is about to
do, and that the run's payment is a real id, not NULL (`RunsWellFormed`); then two runs on
one payment own the same row and are one run. `PastDueHasRejection` needs the same row to
be found at the update. `SweepListFresh` needs the clock never to be behind the list. Each
action has a lemma that it preserves `IInv`, with one step per conjunct it can disturb; the
steps that only move a run share `RunOnlyIInv` and `RequestOnlyIInv`, the writes of a row
`UpdateRow` and `RowWritten`. The action properties follow from `RowWriters`, which says
which actions write an existing row, and from the row the writing run owns. The refinement
maps a payment's entry to its row and the place of the run that wrote it (`LedgerEntry`, a
CHOOSE that `OneEventPerPayment` makes unique); an insert is `Record`, an update `Settle`,
an error or a crash `Abandon`, a write by staff or cron `Move`, everything else a stutter.

The others:

- `Plans`: what a run has read is in `offered`, which only grows, so the price it records
  was offered (`Sold`, `Inserted`); only the run that reads or inserts can disturb them.
- `Checkout`: each step is one of `Plans` or leaves its variables, so its invariant is
  reused; `CallsOffered`, `SentForCall` and `AnsweredIsMade` carry the price from the call
  to the post and to what MP made, whatever attempts were lost. That it implements
  `PaymentLinks` takes `LinksAgree`: all that was posted or made for a call, by any of its
  attempts, is for one deal, which is the call's own as long as it has one. The mapping
  shows the set of deals made for a call, which is then one: the first post carried out is
  `Make`, the others stutter, and nothing is posted for a call that has not read its plan.
- `Onboarding`: the form a person waits with is the one its request was made of
  (`CallIsOurs`), a request past its insert has its row (`RowsAreMade`), and the free
  connections with the held ones are all of them (`Counted`), by cardinalities for a pool
  of any size; so if nobody can go on, each connection is held by one who waits.
- `Sessions`: the key last written for a device holds the token it has, or will be
  answered, and at least as long as that token is good; so what refuses a device whose key
  is its own is the token's age or something `outside` it.
- `RealtimeChannel`: `IInv` adds that before the mount nothing is pending, that without a
  source nothing is pending either, and that an open source is not polled beside; so a
  retry, which only an error schedules, never replaces a live source.
- `KanbanBoard`: `AnswerFresh` adds that an answer about to be shown is what the server has
  now, unless a request or an event that will refetch is under way.
- `ProblemReport`: text about another card than the one the modal is open for was left
  there; the call under way keeps that of the moment it was made.
- `CheckIn`: showings and further taps pay for the washes, for the calls that may become
  washes (counted by cardinality, for any number of calls) and for the tap the screen
  still offers.
- `HighContrast`: a document no header has been in has no class for the next one to find.
- `QRScanner`: while a camera stops, and once the component is unmounted, only `hasty`
  cameras start or run.
- `SubscriberCache`: the mark vouches for the list as long as no fetch of older data is
  left that could take it away: on other pages there is none while a call is under way. A
  badge that is not `clouded` is right, or its load has the right answer, except while the
  one call of its subscriber is under way; that call has no load beside it and keeps what
  will be right if it fails (`DetailIInv`).
- `BrowserSession`: the payload a page was mounted with is the cookies' until they change,
  and a login is all that changes it under a page, in any number of tabs.
- `PasswordReset`: what the reset page has sent is what its inputs hold (`CallIsOfPage`).
  Calls that were left behind carry links that were mailed (`LinksAreOld`), so none reaches
  the server once an answer is believed: the link that was good is used up, and one that is
  new is in no such call.
- `LandingHero`: what was noted last is drawn unless it was not loaded (`undrawn`), and what
  was noted last, or waits last, is the scroll's frame unless loading rewound it
  (`LastIsDrawn`). That the frame is the nearest one is arithmetic.
- `SubscriberTable`: `InOrder` gives each row the place of its rank. Distinct keys have
  distinct ranks below the number of rows, so by pigeonhole each rank is some row's
  (`FS_Bijection` with `FS_Image`), and filtering, searching and sorting neither lose a row
  nor show one twice. The query holds each subscriber once, so a position names one of
  them, and ticks are counted by who was ticked.
- `PhoneInput`: each way of writing has one of seven forms, of two to five blocks; which
  rule takes it follows from its prefix and its length, and the number a rule makes is
  taken by the first rule, or by none, when the field is left again.
- `CurrencyInput`: an amount is a number of centavos; `FormatARS` and `ParseARS` are
  inverse on those by division with remainder.
- `Dashboard`: every query of a period asks for that period. `SubscriberWizard`: there is
  one submission of the form that is there, and before it as many subscribers were
  made as answers were lost (`OneSubmission`).

`OneSlip` says that at most one digit is missing or too many, and `TwoDecimals` that no
amount has a third: with two digits missing after 54 the rest passes for a local number, and
a third decimal is lost on blur, so `FieldsAreMeant` is false without them; the run has the
same bounds.

`Length` of a number and `Number` of its decimals are recursive functions. What they return
is proved by the least counterexample: if their definition had no solution up to some index
there would be a least such index (`WFMin` on the naturals), and its predecessor gives it a
value. That replaces the library's induction rule, which takes an operator as parameter.

Model-checked only:

- Liveness: the prover treats neither fairness nor `ENABLED`.
- The refuted statements.

Proved and in no run of its own: the `IInv`s, `DecisionApplied` (a recorded decision is
applied unless its run failed), `LiveBadgeIsTrue`, `SilentAfterGone`.

## Not modelled

- `use-branch.ts` (one selection per component, nothing shares it), `usePWAInstall`, the
  unused `data-table.tsx` and testimonial carousel, the error logger.
- Static pages, layouts, charts and UI primitives: they render what other parts hold.
- HTTP middleware, configuration, migrations, database and Redis clients, response
  helpers: stateless filters, start-up or pure I/O. The schema's constraints are part of
  the models that rely on them.
- `ValidateSubscription` writes nothing, and no code counts washes. Tenant settings are one
  statement per request. `processPreapprovalWebhook` only logs. Signatures are pure.
- Amounts as floats (`payment/handler.go` 231 truncates) and the CSV's text: numbers and
  strings that no other state depends on.
- The ML service: a health endpoint.
