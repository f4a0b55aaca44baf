# Verification of the restaurant ordering system

TLA+ specifications of the ordering, payment and status code of this repository, the TLC
configurations that check them on small instances, and proofs checked by TLAPS for every
value of the parameters. Paths below are relative to the root of the repository.

- [The system](#the-system)
- [Plan](#plan)
- [Modules and the code](#modules-and-the-code)
- [Runs](#runs)
- [Fairness](#fairness)
- [Proofs](#proofs)
- [Disagreements between code and documentation](#disagreements-between-code-and-documentation)
- [Observations](#observations)
- [Limits](#limits)

## The system

A restaurant's ordering site: a FastAPI backend (`backend/app`) over PostgreSQL, a React
frontend (`frontend/src`), and Stripe's hosted Checkout. Customers, guests or signed in,
create orders and pay them on a page of Stripe; Stripe confirms the outcome by signed
webhooks; administrators move orders through fulfilment; the customer's status page polls.

| Component | State it keeps | Operations | Hard behaviour | What makes it correct |
|---|---|---|---|---|
| Stripe checkout orchestration (`payments/checkout.py`, `stripe_checkout.py`, `router.py`) | `payments` rows (status, key, stored session), the request's position | create, replay, retry an attempt; store the answer; resolve a rejection | two transactions around a call to Stripe made without a lock; lost answers; concurrent requests; clock read before the lock | an order is charged at most once; one blocking attempt; one session per attempt; stored sessions are never replaced |
| Webhook processing (`payments/webhook.py`, `stripe_webhook.py`) | `stripe_events` receipts, payment status | process one verified event | late, reordered, repeated events; events before the answer is stored | the first terminal state wins; receipts explain the rows; money that was taken is recorded |
| Order fulfilment (`orders/admin_service.py`, `statuses.py`) | order status, history rows | transition | races with checkout and webhook | only paid orders are fulfilled; a cancelled order is never charged; history is a path of the graph |
| Order creation, quoting, access (`orders/creation.py`, `quoting.py`, `access.py`) | orders, item snapshots | create, quote, read | menu rows change meanwhile | snapshots agree with rows that were locked |
| Demo checkout (`payments/demo_checkout.py`) | payments of provider `demo` | pay at once | two requests with one key | idempotent, never beside a Stripe payment |
| Rate limiting (`core/rate_limit.py`) | counters per client in a process | count, evict | threads with stale clock readings, full table | at most the limit per window, bounded table |
| Users and authentication (`auth/`) | users, roles | register, log in, change role, demo sessions, bootstrap | a role changes during a request of its owner; two administrators decide on one list | a role is changed only as it was confirmed; only commands make super administrators |
| Menu administration (`menu/admin_service.py`) | categories, items | create, edit, archive | races with ordering; waits in the unique indexes of names | an order never contains an unavailable item; only edits that trade names or places block one another |
| Migration runner, seed, portfolio deployment (`database/migration_runner.py`, `seed/`, `portfolio_deployment.py`) | schema version, advisory lock, seed rows | migrate, seed, reset | concurrent starts, a crash between steps | one runner at a time, restartable |
| Analytics, reports, demo data | none | read-only SQL, CSV, generation | - | results; left to tests |
| Browser: authentication (`features/auth`) | token, phase, generations, storage | sign in, validate, refresh, log out | superseded requests, late 401 | a token that was logged out never comes back; an old 401 never ends a newer session |
| Browser: cart and checkout (`features/cart`, `features/checkout`) | cart, order access, attempt key in storage | quote, submit, start checkout, return | timeouts after which the outcome is unknown, reload, full storage | a retry reuses its key; the token of an order is not lost |
| Browser: order status polling (`features/order-status`) | closure of an effect, timer, request | poll, retry, pause, stop | late answers of abandoned requests, hidden page, 401 | one request at a time; never asleep; shows its own order, which never goes back |
| Browser: administration pages | lists, drafts, requests in flight | list, edit, confirm | late answers, conflicts (409) | what is shown is what the server has |

How they interact: the browser calls the API over HTTP and may lose any answer. Checkout,
webhook, fulfilment and demo checkout share the rows of an order and serialise on its
`FOR UPDATE` lock; they never call one another. Checkout calls Stripe between two of its
transactions; Stripe calls the webhook. The customer reaches a payable page only through a
URL that checkout returned.

`PROJECT.json` lists every component with its status, and the hazards of the code at the
line where they bite, each with the properties that cover it.

## Plan

The order is by importance: money first, then what customers see, then what operates it.

| | Module | Composes / implements | State |
|---|---|---|---|
| 1 | `OrderGraph`, `Checkout` (checkout requests, Stripe, webhook, fulfilment) | implements `PaidOrder` through `CheckoutRefinement` | done, proved |
| 2 | `OrderStatusPolling` | uses `OrderGraph` | done, proved |
| 3 | `CustomerCheckout` (checkout page, stored attempt, both payment providers as the browser sees them, demo checkout) | its service keeps what is proved of `Checkout`: one row per key, terminal rows stay | done, proved |
| 4 | `AuthSession`: AuthContext, its storage, the pages that use it | late answers and 401s against session generations | done, proved |
| 5 | `CartOrdering`: the cart, its quotes and the submission | with `AuthSession` in `MCShop`; precedes `CustomerCheckout` | done, proved |
| 6 | `AdminMenu`, `AdminUsers`, `AdminOrderDetail`, `ReadPages` over `AdminApi`: the pages behind the sign-in with the services they call | `MCConsole` | done, proved |
| 7 | `OrderCreation` (row locks of an order against menu edits), `RateLimiter`, `RequestHandling` (event loop, threads, pool, the order's row), `Deployment` (migration, seed, administrators) | `MCService` | done, proved but for `EveryCallEnds` |

Every invariant and every action property that a passing run checks is also a theorem. What is
still worth stating and proving: that the rows `OrderCreation` commits and the cart that
`CartOrdering` sends implement one abstract order (their versions of a line differ, so this
needs a module above both), and that `CustomerCheckout`'s service is an abstraction of
`Checkout` and not only shares its properties.

## Modules and the code

### OrderGraph

The fulfilment statuses and edges of `backend/app/orders/statuses.py`.

### Checkout

One module for four components, because its properties are about what they do together.

| Variable | Code |
|---|---|
| `orders` | `orders.status` and the `order_status_history` rows in sequence |
| `payments` | `payments`: status, order, idempotency key, `stripe_checkout_session_id` |
| `sessions`, `emitted` | Stripe: Checkout Sessions, and the events it emitted about them |
| `disclosed` | the sessions whose URL was in an answer to a customer |
| `requests` | where each checkout request is in `checkout_order` |
| `receipts` | `stripe_events.processing_result` |
| `age` | time since a payment or session was created, or since a request read the clock |

Every transaction of the code locks the order's row and then its payment rows before it
reads what it decides on, so **a transaction is one action**. Between two transactions of a
request nothing is locked and every other action may happen.

| Action | Code |
|---|---|
| `CreateOrder` | `orders/creation.py` `create_order` (the rows it leaves) |
| `Arrive` | `payments/router.py` up to the lock; the clock is read here |
| `Replay`, `Retry`, `CreateAttempt`, `Refuse` | first transaction of `checkout_order`: stored session, incomplete attempt, new attempt, every error |
| `ProviderReplays`, `ProviderCreates`, `ProviderRejects`, `Lose` | `StripeCheckoutClient.create_checkout_session`: Stripe remembers the key, creates a session, rejects definitively, or the outcome is unknown. `Lose` is also a failed transaction or the death of the process at any point of a request |
| `PersistSuccess`, `DiscardAnswer` | `_persist_provider_success` |
| `FailAttempt`, `ReturnStored`, `ReportRejection` | `_resolve_definitive_failure` |
| `Pay`, `PayLater`, `AsyncSucceeds`, `AsyncFails`, `ExpireSession` | Stripe (external): a disclosed session is paid before it expires, at once or by an asynchronous method |
| `ProcessEvent`, `ProcessForeignEvent` | `process_verified_stripe_event` on an event that correlates with a payment, or with none |
| `TransitionOrderStatus` | `transition_order_status` |
| `Tick` | the clocks |

An event stays deliverable after it was emitted, so deliveries are late, in any order and
repeated; a repeated one that has a receipt changes nothing and needs no action.

Stripe's part is what the code relies on: a key that is remembered gives the same session
again; a session is paid only through its URL; it expires after `SessionLife`. Nothing else
is assumed; in particular `KeyRetention` may be 0.

`PaidOrder` is the promise to the outside: an order is charged at most once and only while
it is open; money that was taken is recorded; only a recorded order is fulfilled; only an
uncharged one is cancelled. `CheckoutRefinement` maps `Checkout` to it: the phase of an order
is its status, its money is what the sessions of all its attempts took, and it is recorded
if it has a succeeded payment. `CheckoutInvariant` holds the inductive invariant.

### OrderStatusPolling

`features/order-status/useOrderStatusPolling.ts` and the part of `OrderStatusPage.tsx` that
decides when it polls and with which credentials.

| Variable | Code |
|---|---|
| `server` | `orders.status` in the database |
| `available` | `environmentIsAvailable()` |
| `auth`, `rejected`, `order` | the phase and session of `AuthContext`, `rejectedSession`, the route's parameter |
| `run` | the dependencies for which the effect runs |
| `stopped`, `suspended`, `inFlight`, `timer` | variables of the effect's closure |
| `flights` | its requests and those of earlier runs; `live` is that run's `active` |
| `shown` | the hook's state: data, error, and the spinner (`isLoading`, `isRefreshing`) |

A task of the browser with the microtasks it queues is one action: `Rerun` is the cleanup of
the old effect, the new effect and its queued microtask; `ReceiveStatus` and the `Fail...`
actions are the promise's `then` or `catch` with its `finally`. A change of inputs
(`Navigate`, `LogOut`, `ResolveSession`) and the effect that reacts to it are two actions,
because answers may arrive between them. So `ShowsItsOrder` speaks of the order that the
effect polls: in the moment between a change of route and the effect, the page may still
render what it had.

### CustomerCheckout

`features/checkout/CheckoutPage.tsx` for one order, in any number of tabs, and the service it
calls.

| Variable | Code |
|---|---|
| `page` | the state of `CheckoutPageForOrder`: mounted, `attempt`, `feedback`, `authenticatedFailure` |
| `stored` | the tab's `sessionStorage` entry of `checkoutAttemptStorage.ts` |
| `identity` | `phase` of `AuthContext`: none, being validated, customer |
| `cart` | whether the tab's cart holds items |
| `requests` | checkout requests: position at the service, key, credentials, answer; `listening` is that the page which sent it is still mounted (`mountedRef`, the abort on unmount) |
| `provider`, `status`, `payable`, `visited` | the deployment's provider, the row of each key, whether the order is `created`, and the hosted pages the browser was sent to |

| Action | Code |
|---|---|
| `Open`, `Load`, `Leave` | mount with `resolveInitialAttempt`; a load of the document with a stored session, which is validated first; unmount |
| `StartCheckout`, `StartNewAttempt`, `RetryRedirect`, `WaitRateLimit` | `startCheckout` until its await, `startNewAttempt`, `retryRedirect`, the clock of a rate limit |
| `ReceiveError`, `ReceiveUnauthorized`, `ReceivePending`, `ReceiveTerminal` | `startCheckout` after its await, with `mapCheckoutError` |
| `RejectSummary` | the 401 of the order summary |
| `SignIn`, `ResolveSession`, `FillCart` | what the rest of the application does to this page |
| `RejectToken`, `Limit`, `Serve`, `ProviderAnswers`, `ProviderRejects`, `ServeDemo` | `create_checkout_session_endpoint`: an expired token, the rate limiter, the two transactions of `checkout_order`, the one of `checkout_demo_order` |
| `Confirm`, `LeaveCreated` | webhooks and administrators |
| `Lose` | every answer that says nothing: network, time-out, 404, 422, 503, an invalid response |

The service is `Checkout` with what a browser cannot tell apart left out: sessions, receipts,
clocks. Where `Checkout` lets time decide (an attempt too old to be retried or replayed is
answered 503), `Lose` may happen. An attempt is known by its key. A session token may have
expired whenever the service looks at it; an owner needs no guest token, except in demo mode,
where only the guest token counts. A storage may refuse to save (`Fragile`), and the browser
may be unable to draw a key (the model: when all `Keys` are used).

### AuthSession

`features/auth`: `AuthContext.tsx`, `authStorage.ts`, the login and registration pages, the
route guards, and the requests of protected pages as far as their answers touch the session.

| Variable | Code |
|---|---|
| `service` | roles of accounts, expired tokens; also the bounds on what may still happen |
| `store` | `sessionStorage`: the token, the demo marker, the token of an older version of the site; whether storage works |
| `auth` | the provider's state (`phase`, `currentUser`, session) and refs: request generation, session generation |
| `asked` | requests of the provider in progress, superseded ones included |
| `tab` | the page, the destination after sign-in, the control that waits for an outcome |
| `calls` | requests of protected pages whose answers will be heard, with the token and generation they captured |
| `ended` | history: each session that was ended, with the one whose doing it was |

| Action | Code |
|---|---|
| `Visit`, `Redirect`, `ReloadTab` | routes, guards, `loadInitialSession` |
| `SignIn`, `SignedIn`, `SignInFails`, `CountdownEnds` | `login`, `register`, `startDemoSession` until their await and after it |
| `Validated`, `Rejected`, `CheckFails`, `Overtaken` | `validateToken` after its await |
| `RetrySession`, `Logout` | the buttons |
| `StartCall`, `CallAnswered`, `CallUnauthorized`, `CallForbidden`, `CallNotFound` | `getAuthenticatedSession`, `invalidateSessionIfCurrent`, `refreshCurrentUser` as pages use them |
| `Expire`, `ChangeRole` | the service |

A token is its account and the second it was issued in, because two logins within one second
are answered with the same token; sessions are told apart by the login they came from, which
is history that the code does not have. `RetiredSessionsStayOut` and `SessionsEndByTheirOwn`
are about that difference.

### CartOrdering

`features/cart`: the cart, its storage, `CartPage.tsx`.

| Variable | Code |
|---|---|
| `cart` | `CartContext`'s lines, and whether `sessionStorage` keeps them |
| `shopper` | the session, as the page sees it |
| `page` | the page shown; of the cart page the debounce, the quote, `orderState`, the table |
| `asks` | quote requests that will be heard |
| `runs` | executions of `submitOrder`: what they captured, and what the refs of their page last held |
| `sent` | history: the order requests and their results |

| Action | Code |
|---|---|
| `Browse`, `Reload`, `AddItem`, `ChangeLine`, `ChooseTable` | navigation, loads of the document, `CartContext`, the form |
| `DebounceEnds`, `QuoteAnswered`, `RetryQuote` | the quote effect |
| `SubmitOrder` | `submitOrder` until its first await; `deliberate` is the button below the warning of an unknown result |
| `FreshQuoteFails`, `FreshQuoteStops`, `SendOrder` | after the quote: failed, changed cart or session, order request sent |
| `OrderCreated`, `OrderRefused`, `OrderUnauthorized`, `OrderUnknown`, `RetryNavigation` | after the order request |
| `ShopperSignsIn`, `SessionResolves`, `SessionEnds`, `ShopperSignsOut` | `AuthSession`, seen from here |

`submitOrder` has no check that its page is still mounted, so a run goes on with what it
captured when its page has been left: `Frozen` keeps what the refs of that page held.

### AdminMenu, AdminUsers, AdminOrderDetail, ReadPages

The pages behind the sign-in, each with the endpoints it calls; `AdminApi` has what they share
(the outcomes of a request). All have the same shape: a request is asked, served (for a list
in two statements, total and rows, between which others commit), and answered, lost or
refused; the page reacts; on a 403 it awaits `refreshCurrentUser` before it goes on. `MCConsole`
looks at one of them in each behaviour (`looked`), since a tab shows one page at a time.

| Module | Code | Variables |
|---|---|---|
| `AdminMenu` | `AdminMenuPage.tsx`, `CategoryForm.tsx`, `MenuItemForm.tsx`; `menu/admin_service.py` | `section`; `rows` of the service; `page` (list, lock, notice); `load` (list request); `editor` (form: base, draft, touched fields); `choices` (category options of the item form, and the form that waits for them); `save` (submission); `stray` (PATCHes that nobody waits for); `left` (bounds) |
| `AdminUsers` | `AdminUsersPage.tsx`; `auth/user_service.py` | `accounts` (roles); `users` (page, confirmation, gate); `fetch` (list request); `change` (role change); `adrift` (changes that nobody waits for); `budget` (bounds) |
| `AdminOrderDetail` | `AdminOrderDetailPage.tsx`; `orders/admin_service.py` | `order` (status, attempts); `detail` (page); `reading` (detail request); `doubts` (403s whose session check is not back); `patches` (handlers of confirmed actions) |
| `ReadPages` | `AdminOrdersPage.tsx`, `AdminHomePage.tsx`, `AdminAnalyticsPage.tsx`, exports, `AccountPage`, `AccountOrderPage` | `sales` (the service's data, as a count); `view` (page: filters, sections, errors, generation); `batches` (loads in progress) |

The menu page keeps both its sections mounted; one is modelled in full, the other by what it
does to the item form's category choices. `editor.touched` is history: the fields the
administrator changed by hand, against which `PatchIsDeliberate` holds the fields that are
sent. Choices that have been asked for open their form when they come, whatever the category section
has done to the options meanwhile. `users.owed` is the same for `GateNeedsFreshList`: an uncertain change since which no list
was read.

`ReadPages` abstracts data to the moment it was read (`at`) and what it was asked for
(`context`, `from`), which is what the pages must not confuse.

### OrderCreation

`create_order` with the locks of its SELECT, against `update_admin_menu_item` and
`update_admin_category` with their row lock and the unique index of names.

| Variable | Code |
|---|---|
| `menu` | committed rows of `menu_items` and `categories`: normalized name, category, whether it is offered; `version` stands for the other fields that an order copies |
| `creating` | each buyer's transaction: the join of its snapshot, the rows still to lock, locks held, lines read |
| `editing` | each editor's transaction: the row, the name and category it sets, if any, and its phase: waiting for its row, holding it, updating (in the index of names), entered there |

`LockItem` and `LockCategory` are PostgreSQL's `LockRows` under READ COMMITTED: the join is
evaluated on the statement's snapshot, rows are locked in the order of their ids, a row that
changed is read again and dropped if the join no longer holds for it. `LockForUpdate` is an editor's SELECT ... FOR UPDATE. Its flush is three steps, since it may wait
twice: `FlushUpdate` writes the row; `EnterName` enters its key in the unique index, which waits
for every transaction that has written the same key or given it up (`BlocksName`), for the code
looks no name up before; `SaveEdit` is the check of the foreign key, for a moved item a key lock of
the new category, and the commit. A name that is taken ends in `AbandonEdit`, as does a circle of
waits that PostgreSQL breaks. `Blocks` says who waits for whom.

### RateLimiter

One bucket of `core/rate_limit.py`: `clock`, each thread's `reading` of it before the lock,
`window`, and as history the sequence `admitted` of the ticks at which attempts were allowed.
`ReadClock` and `Check` are the two halves of `check`.

### RequestHandling

One server process: where each `call` is (arrived, waiting for a connection, connected, holding
the order's row, returned, responded, closed), which call occupies the event `loop`, which
holds the `row`. `receive_stripe_webhook` is the one asynchronous endpoint that uses the
database, and does so on the loop; all others run in threads. A session that only read keeps
its connection until the dependency's exit, which runs after the response, which needs the
loop: that is how the loop may wait for a connection that waits for the loop, until the
pool's timeout (`PoolTimeout`).

### Deployment

The operators' commands: `database/migration_runner.py`, `seed/deployment.py`,
`portfolio_deployment.py` with `auth/demo_admin.py`, `auth/bootstrap.py`.

| Variable | Code |
|---|---|
| `database` | committed facts: revision, the portfolio's rows, the demo administrator's row, the number of super administrators |
| `advisory` | the holder of each advisory lock |
| `command` | each operator's command, its stage, and what its transaction read |

`AcquireLock` tries once (migration, seed) or waits (the others); `CommitPreflight` is the commit
that a session's lock must survive; `ReadRows`, `WriteRows`, `Commit` are a transaction under
its lock; `Crash` may happen anywhere. `RegisterReserved` is a customer who registers with the
demo administrator's address.

`MCService` looks at one of these four in each behaviour (`topic`): they share no state in the
code, except that orders, calls and commands meet in the database's rows, which is what
`Checkout` and `OrderCreation` are about.

## Runs

| Run | Instance | Shows |
|---|---|---|
| `attempts` (`MCCheckout.cfg`) | 1 order, 2 attempts, 2 keys, 2 requests, 2 sessions, 1 foreign event; retry limit 1, key retention 1, session life 1, slack 1 | the inductive invariant, the safety properties of `Checkout`, the refinement of `PaidOrder` |
| `eventually` (`MCLive.cfg`) | 1 order, 2 attempts, 2 keys, 1 request, 2 sessions, key retention 2, with fairness | every attempt with a session becomes terminal; `PaidOrder` with its liveness |
| `rejection` (`MCRejection.cfg`) | 1 order, 2 attempts, 2 keys, 2 requests, 2 sessions | a violation, see below |
| `polling` (`MCPolling.cfg`) | 2 orders (1 with a guest token), 2 sessions, 2 requests | the hook's inductive invariant and its step properties |
| `polling_live` (`MCPollingLive.cfg`) | 1 order, 1 session, 2 requests, with fairness | a page that is watched becomes current |
| `customer` (`MCCustomer.cfg`) | 2 tabs with the guest token, one where a customer may sign in, one whose storage may refuse; 2 keys, 2 requests, both providers | the safety properties of the checkout page |
| `customer_live` (`MCCustomerLive.cfg`) | 1 tab that is both, 2 keys, 1 request, both providers, with fairness | an attempt that failed, or expired at the demo provider, is replaced |
| `customer_expired` (`MCCustomerExpired.cfg`) | 1 tab of a guest, 2 keys, 1 request, both providers, with fairness | a violation, see below |
| `shop` (`MCShop.cfg`) | cart: 2 items, quantity 2, 1 line, 2 visits, 2 presses, 1 session; authentication: 2 accounts (one the shared demo), 1 second, 2 logins, 3 requests of the provider, 1 of a page, 1 reload | a visit sends one order at a time; quotes follow the cart; sessions end by their own and stay out |
| `ordering_stale` (`MCShopStale.cfg`) | as `shop` | a violation, see below |
| `console` (`MCConsole.cfg`) | menu: 2 fields of 2 values, 1 typed into in one form, 2 rows, pages of 1, 1 save, 1 change elsewhere; users: 3 accounts, pages of 2, 2 changes, 1 elsewhere; order: 2 actions, 1 payment; reads: 2 contexts, 2 sections, 3 loads, 2 orders | what is saved is what was confirmed; what is shown is what it says |
| `service` (`MCService.cfg`) | rows: 2 items in 2 categories, 2 names, 1 buyer, 2 editors, 1 saved edit; limiter: 3 threads, limit 1, window 3, delay 1, 7 ticks; process: 3 calls, pool of 2; commands: 2 operators, 2 revisions | see the properties below |

What the properties of `console` and `service` say: a menu notice is true of the save it is
about, and the actions offered on an order are the ones the service accepts
(`PagesTellTheTruth`); a PATCH sends only what the administrator changed
(`PatchIsDeliberate`); a role or status change that is made goes from what was on display to
what was confirmed (`RoleChangesAsConfirmed`, `StatusChangesAsConfirmed`); after an uncertain
role change the list is read before the next (`GateNeedsFreshList`); figures belong to the
filters shown with them and never get older (`FiguresMatchTheirContext`, `NoOlderFigures`). An
order is a picture of the menu at one moment although its rows are locked one by one
(`SnapshotsAreCurrent`), and only edits that trade names or places wait for one another in a
circle, never a buyer (`CirclesAreTrades`); stale clock readings let through at most two
windows' attempts in a window's length less the delay, and three in a whole one
(`BurstBounded`); every call ends although the webhook may stop the loop (`EveryCallEnds`);
commands take turns, report only conflicts that exist, and leave no lock behind
(`OperatorsTakeTurns`).

Why the bounds suffice. Two requests, attempts and sessions are what every conflict in
`Checkout` is between: a retry and its predecessor, a lost answer and its replacement, an
expired attempt and its successor. In `attempts` key retention equals the retry limit although
a request's clock reading may be one unit old: Stripe forgets some keys that a retry still
uses and remembers others, so what is checked there does not depend on the margin of 23
hours, an hour, and 24. `eventually` has the margin. In `polling` two requests let the answer
of an abandoned request meet the one that is awaited; more would only be more abandoned ones.
In `customer` two requests are an abandoned one and the awaited one, or those of two tabs with
different keys, and two keys an attempt and its successor. With `customer_live`'s two keys the
second attempt cannot be replaced again, which the property excepts (`Replaced`).

In `shop` two visits are the one that was left with its run and the next one; three requests
of the provider are a validation, the sign-in that supersedes it and the check that follows;
two logins in one second give two sessions one token. One line of the cart is its limit, which
two items exceed. In `console` one change elsewhere is enough to make what is shown stale, and
one that is repeated would find the same; two rows on pages of one give an offset, a page that
became empty and a total that disagrees with it. A form in which one field was typed into has
one that was and one that was not, which is what `PatchIsDeliberate` tells apart. Two role
changes are one that is uncertain and the next; three loads are one that is superseded, its
successor and a retry of it. In `service` one buyer suffices because buyers only share locks;
two editors are one that waits and one that is waited for, they may form a circle with the
buyer, and with two names they can trade; the items begin with one name in two categories, so
they can also trade places. Three threads and two windows and a bit let every stale reading
meet a newer window. Three calls on two connections are one on the loop, one that holds a
connection until it is answered, and one that holds the other or the row. Two operators are
what every lock is between.

Deadlock is checked in every run but `console` and `service`, where behaviours end when their
bounds are used up (saves, changes, loads; ticks, edits); what must not get stuck there is
stated instead: a page that waits has a request in progress (`ConsoleTypeOK`),
`EveryCallEnds`; circles of waits are `CirclesAreTrades`.

Symmetry is used in runs without liveness, over rows, keys, threads, sessions, requests,
fields, contexts and items, none of which the modules distinguish (orders of `polling` are
distinguished by their tokens and are left out).

Every property has a mutant, listed in `PROJECT.json`: a plausible defect of the code under
which TLC finds the property violated.

## Fairness

`Checkout`: a request that was accepted is worked on until it ends (the server runs it, or
loses it: `Lose` is one of the ends); Stripe expires open sessions, settles asynchronous
payments, and delivers an event again until it is acknowledged; time passes. No customer
has to pay, no client has to retry, no administrator has to act. `Tick` waits for requests
older than `Slack`, which is the assumption that a call to Stripe has a timeout; with
`Slack >= 1` (the run has 1) time is not blocked by an endless arrival of requests, whose
work is fair itself.

`OrderStatusPolling`: the browser runs effects, event handlers, timers, and every request
ends within its timeout (weak fairness). A request that is sent again and again reaches the
server some time and is then answered some time (strong fairness of `Serve` and
`ReceiveStatus`); without it a network that is down for ever is a legal behaviour.
`EventuallyCurrent` only speaks of pages that remain enabled, visible and online and have
no permanent error.

`CustomerCheckout`: what is shown is that the page never traps a customer who does what it
offers, so the customer's patience is assumed and named: `Patience` (a page that waits for an
answer is not left), and fairness of opening it, of pressing the buttons it offers (strong,
because answers take them away again), of waiting for a rate limit, and of reloading a page
that offers nothing (`OffersNothing`). The service and the network do not fail for ever
(strong fairness of `Serve`, `ServeDemo`, of the provider's answers, and of the arrival of the
answers that matter); sessions are validated some time. Nobody has to pay, sign in, or
cancel the order.

`RequestHandling` (`EveryCallEnds`): a call that can go on again and again does (strong fairness
of `Serve` for each call). The event loop runs its callbacks in order, PostgreSQL queues those
that wait for a row, threads are scheduled, and a wait for a connection ends with one or with
the pool's timeout. Nothing makes a call arrive.

## Proofs

| Module | Proves about |
|---|---|
| `CheckoutSafetyProofs` | types, inductive invariant and state properties of `Checkout` |
| `CheckoutPromiseProofs` | its step properties and its refinement of `PaidOrder` |
| `OrderStatusPollingProofs`, `CustomerCheckoutProofs`, `AuthSessionProofs` | the modules they are named for |
| `ShopProofs` | `CartOrdering`, and `MCShop` with `AuthSession` beside it |
| `ServiceProofs` | `RateLimiter`, `OrderCreation`, `RequestHandling`, `Deployment`, and `MCService` |
| `ConsoleProofs` | `AdminOrderDetail`, `AdminUsers`, `AdminMenu`, `ReadPages`, and `MCConsole` |

Each follows one argument: an inductive invariant, that it holds initially, that every action
keeps it (one lemma or step for an action, and under it one step for each conjunct it can
disturb), and the property from it. TLC checked each invariant on the run's instance before it
was proved; where several actions change a record in the same way, a lemma says once what such
a step keeps (`BuyerStep`, `CallStep`, `OperatorStep`).

Some properties are proved and not listed in a run, because the inductive invariant that a run
checks implies them, or because they were checked before they were proved and the run's time
is better spent: `OneBlockingAttempt`, `TerminalMatchesProvider`, `TerminalIsFinal`,
`DisclosesOwnSessions`, `SessionIsWriteOnce`, `OneSessionPerAttempt`, `ReceiptsExplainStatus`,
`HistoryFollowsGraph`; the four state properties and the types of `OrderStatusPolling`; the types
and `OneRequestPerPage` of `CustomerCheckout`. The types and properties of the parts that `MCShop`,
`MCConsole` and `MCService` compose are proved of the parts and then of the composition
(`ShopIsBoth`, `ConsoleIsAll`, `ServiceIsAll`: a behaviour of the whole is one of each part).

**Checkout.** None of the safety properties is inductive: that an order is not charged twice
depends on which sessions are disclosed, that on what is stored, that on what requests
hold. `Consistent` (`CheckoutInvariant`) is: rows are whole; every session belongs to an
attempt and is stored by no other; a request past its first transaction works on an
attempt of its own order; what was disclosed is stored, and only what was disclosed was
paid; emitted events are true of their session; the row of a charged or chargeable session
is still blocking; a succeeded row is backed by a paid session; one blocking attempt per
order; orders wait for their payments. From it follow `OneBlockingAttempt`,
`NoDoubleCharge`, `CancelledIsNeverCharged`, `FulfilledIsPaid`, `TerminalMatchesProvider`,
with no assumption about time: **no double charge depends on how long Stripe remembers a
key**. The central argument is that a URL is disclosed only after its session was stored in a
pending row, a stored session is never replaced, and a row leaves "pending" only by an
event about its stored session, or by a rejection while it has none.

`OneSessionPerAttempt` needs time: `CallsAreTimely` says that a session is no older than its
attempt and that a request in progress was within the retry limit when it read the clock;
with the assumption `RetryMargin` (retry limit + slack <= key retention: 23 h against 24 h)
Stripe still knows the key. The theorem states that assumption.

`ReceiptsExplainStatus` and `HistoryFollowsGraph` have their own inductive strengthening in
`CheckoutPromiseProofs`. `ImplementsPaidOrderSafelyAlways` is the refinement: every step maps
to a step of `PaidOrder` or to a stutter.

Assumptions: `DistinctConstants`, `ForeignDistinct` (the kinds of identifier do not
overlap), `TimeConstants` (limits are natural numbers). Nothing is assumed finite.

**OrderStatusPolling.** `Coherent` adds to the four invariants that a request that may still
act is the run's, that the closure's variables exclude one another, that a run that is
enabled has an order and, after a rejection, a session, and that every status read is one
the order has left behind or still has, the awaited one no older than the one shown. The
latter gives `StatusNeverRegresses`. Assumption: `PollingConstants` (identifiers are
distinct from the markers).

**CustomerCheckout.** `IInv` is `TypeOK`, `Agreement`, `FeedbackIsTrue` and
`OneRequestPerPage`. What a page says is true because the answer it heard was, and an answer
is still true when it is heard because it speaks of a state that its row never leaves:
`Agreement` says so of every answer in flight, ties a request that is listened to to the
present attempt of an open page, and lets page and storage differ only after the stored
attempt ended. The steps are grouped (`ServiceOutcome`, `EnvironmentOutcome`,
`ReceiveOutcome`) by what they leave alone. The three step properties follow from
`IInv`. Assumption: `NoneIsNoKey`; the other assumptions of the module only say what its
constants are. No set is assumed finite.

**AuthSession.** `IInv` adds to `SessionTypeOK`, `SessionAgrees` and the properties: the storage
keeps what the state has, phase by phase (`OneStory`); every request carries a number up to the
latest, the latest has the token and login of the state if it is a validation, and a
superseded one is never heard again (`RequestsMatch`); the token and session generation a
call captured identify its login as long as they are the provider's (`CallsMatch`); what was
ended is older than what is (`EndedIsPast`). That a late 401 never ends a newer session with the
same token rests on the generation alone, which `clearToken` and every sign-in increase;
that a superseded answer never restores a session rests on the request number. Assumption:
`SessionBounds` (identifiers are distinct, bounds are natural numbers); nothing is assumed of
how large they are.

**CartOrdering** (`ShopProofs`). `OrderingInv` is the types, `QuoteFollowsTheCart` and `RunsInv`. That a
visit has one run is not inductive: it rests on `orderState`, which is state of the page, while
runs outlive their page. `PageKnows` ties the two together as long as the page is mounted
(`refreshing-quote` and `creating` are exactly a run of this visit in that step; an order that
was rejected shows as `session-expired`); `LatestOnly` says that only the latest order of a visit
can be unanswered or rejected, and `RunsOfVisits` that a run waits for an order of its own
visit. The types include that the reducer keeps a cart a cart: one line for an item, within the
limits. Assumption: `OrderingBounds` (limits are positive); nothing is assumed finite.

**RateLimiter.** `LimiterInv` adds to the types and `BurstBounded` that a reading is at most
`Delay` old, that `admitted` is ordered, and `WindowsApart`: the window began at most `Delay`
before its first attempt was allowed, and attempts `Limit` and `2 * Limit` before that one are a
window's length, or two, less the delay, before it began. So the bound is about positions in a
sequence and needs no sum. Assumption: `Limits`, of which `Delay < Window` is what the bound
depends on: a thread is not held up between its reading and the lock for a whole window.

**OrderCreation.** `RowsInv` adds to the types that a line that was read is of rows that the
transaction holds and is still what they say (`Pictured`), and that a row is not held by a
reader and for update at once (`Excluded`); `SnapshotsAreCurrent` follows. For `CirclesAreTrades` it
adds `EditorsApart`: two editors never hold one row. Take a set of transactions that each wait
for another of the set, and in it the editors that hold a row (`CircleTrades`). An editor of a
category has no foreign key to wait for, so it waits in the index of names, for an editor of another
category. If there are such editors they trade names. If there are none, nobody's foreign key is
held up, so every editor that holds an item waits in the index for one that gives the key up; and
there is such an editor, because buyers wait only for editors that hold a row, and editors that do
not hold theirs only for those and for buyers. So the edits that trade wait only for one another,
and a least circle has no buyer in it.
Assumption: `MenuRows` (ids of items are numbers, because rows are locked in their order; kinds
of identifier are apart). Nothing is assumed finite.

**RequestHandling.** Its types are inductive and say what matters for safety: never more
connections than the pool has, the row's holder is the call that is "locked", the loop's call
has not returned. Assumption: `Pool` (the calls are finite, since their connections are
counted).

**Deployment.** `DeploymentInv` adds that a command past its lock holds it (`Turn`, `Taken`) and that
what it read under the lock is still so (`Sound`), except for a registration with the reserved
address, which takes no lock. `OperatorsTakeTurns` follows. Assumption: `Releases`.

**The pages behind the sign-in** (`ConsoleProofs`). `OrderPageInv`: one detail request is awaited
at most, itself or the session check after its 403, and what is to be confirmed is an edge of
`OrderGraph` from the status shown, so what is offered is accepted. `UsersInv`: lists and moves are of
accounts that exist and name the one role for the other, a list and a change are not asked for
at once, and while a change may have been made unseen (`owed`) the gate is closed or there is
nothing to choose from: a page that is opened again after a change was left under way has no
gate, but no list either.
`MenuInv`: a notice follows its submission, and a form over one reading of its row differs from
it only where it was typed into. `ReadInv`: loads have origins apart; the page's own loads ask for
sections that show as loading, and no two for the same; an answer has the context of its load, is
not from the future, and is no older than what is shown. A superseded load may still be in
flight with older figures, which is why the invariant speaks of the page's own loads only.
Assumptions: `OrderBounds`, `UserBounds`, `MenuBounds` (limits are numbers, page limits positive,
a field has a value); nothing is assumed finite.

**Only model-checked:** the liveness properties (`SessionResolvesAttempt`, the liveness of
`ImplementsPaidOrder`, `EventuallyCurrent`, `ReplacesEndedAttempt`, `EveryCallEnds`), since fairness is
beyond the prover, and the three violations, which are found and not proved.

## Disagreements between code and documentation

`payments/stripe_checkout.py:23` describes its definitive errors as failures "known to occur
before session creation", and `docs/DECISIONS.md:705-706` says the same of request and
authentication rejections; `_resolve_definitive_failure` therefore marks the attempt failed.
The run `rejection` (`RejectionPrecedesCreation`) shows a first call that created a session
and lost the answer, a retry with the same key that is rejected (for instance because the
credentials were rotated in between), and the attempt failed while its session is open. It is
harmless for the customer's money, which the other properties show: the URL of that session
was never returned, so nobody can pay it, and its expiry is recorded for reconciliation.

`docs/PROJECT_CONTEXT.md:371-372` (and `docs/DECISIONS.md:260-261`): "After `failed` or
`expired`, the user may cancel the order or create a new payment attempt." The API allows it;
the checkout page does not for an attempt that expired at Stripe. It maps every 409, "Payment
attempt expired" included, to a retry of the same attempt (`CheckoutPage.tsx:140`) and offers a
new one only after a 502 or a terminal demo outcome, as D-060 lists them. The key stays in the
tab's storage, so reloading repeats it. The run `customer_expired` (`ReplacesExpiredAttempt`) ends
in that loop; `customer_live` shows that on its instance every other ended attempt is replaced.

`CartPage.test.tsx:706` is called "does not create from a stale pre-submit quote after the cart
changes", and the page has a message for it (`CartPage.tsx:534`). The comparison
(`CartPage.tsx:531`) reads a ref that only the mounted page updates, and every control of that
page which changes the cart is disabled during a submission. The run `ordering_stale`
(`OrdersTheCart`) leaves the page while prices are confirmed, adds an item on the menu page, and
the items of before are ordered.

## Observations

What the models showed besides. None is a property; each is a behaviour of the models as they
are, translated from the code.

Browser:

- A menu PATCH may send a field the administrator did not touch: when a list that comes back
  while a form is open has a newer row, the form is opened again over its draft
  (`AdminMenuPage.tsx:1152`, `CategoryForm.tsx:126-133`), and what others changed looks like a
  change of this form (`README.md:1147`: "PATCH sends changed fields only").
  `PatchIsDeliberate` excepts it (`mixed`).
- After an uncertain save the form is locked until a list is read, but an older load that is
  still in flight releases the lock as well. An older load may also replace the list that the
  notice "saved and refreshed" is about.
- A save refreshes the offset of the time of its submission; a form that is opened while a
  save is in progress is closed by its completion.
- Three clicks on Edit while category choices are loading: the rejection of the request that the
  second click aborted clears `optionsControllerRef` (`AdminMenuPage.tsx:875-886`), so the third click
  aborts nothing, and the second's answer may open its form over the third's.
- Two PATCHes of one order's status may be in flight after a 403, because the handler's `finally`
  runs after it awaited `refreshCurrentUser` (`AdminOrderDetailPage.tsx:755-800`).
- A 403 refreshes the session of now, not the one whose request was refused; the late 403 or 404
  of a save of a page that was left, with no session, clears it and aborts a login in flight.
- After an order request whose result is unknown, a deliberate retry whose fresh quote fails shows
  an ordinary error; the next press is then not warned that an order may exist, although
  `docs/DECISIONS.md:990-991` has a retry "only with an explicit duplicate-order warning".
- An order request answered 5xx counts as refused. Leaving the cart page and coming back allows a
  second run beside the first; a run whose page was left uses the session of now.

Service:

- The event loop stands still for up to the pool's timeout when sessions that only read, and are
  not answered yet, hold every connection and a webhook waits for one on the loop.
- An item that is moved to another category while an order waits for its row drops out of the
  join; the order is refused with 404 although the item may be ordered.
- Stale clock readings admit up to three windows' attempts within one window's length; buckets
  of a limiter are never removed.
- The menu seed locks categories before items, an order items before categories; PostgreSQL
  would break such a circle.
- Two renames that swap names, or two moves that swap items of one name, wait in the unique index for
  each other: PostgreSQL aborts one, whose administrator reads of an error although the same renames
  one after another would have failed as conflicts (409). `CirclesAreTrades` says that no other edits
  and no order can be caught so.
- A registration with the demo administrator's address makes every later provision conflict, as
  does a deactivation; a registration may answer 503 after its account was created.

## Limits

- The sets of attempts, sessions and requests are fixed: a run explores as many attempts,
  not histories of any length. The proofs hold for sets of any size, infinite ones included.
- The transactions of `Checkout` are atomic. The code's lock order justifies it (the order's row
  first, at every call site); `RequestHandling` has that row as their one lock. That no call
  site deviates is not checked (`payments/webhook.py:57`).
- An attempt whose every call failed ambiguously has no session that an event could
  resolve; after the retry limit it stays pending and blocks the order until it is
  reconciled by hand. The code is designed so; `SessionResolvesAttempt` is stated for attempts
  for which Stripe created a session.
- That `saveOrderAccess` failed is ignored by `CartPage.tsx`: the guest's token is then lost with
  the page. No property says so, since nothing in the code promises otherwise.
- Amounts, currency, URLs, texts, ownership and origin checks are abstracted: a request that
  fails one of those ends like any other refusal, and an event whose facts do not match is a
  foreign one.
- Clocks: Stripe's, the database's and the servers' are one. The hour between retry limit
  and key retention is what skew and latency may use up (`Slack`).
- `RequestHandling` lets a call wait for a connection once. In the code authentication and checkout may
  end a transaction and begin another, so a call can wait a second time.
- `OrderCreation` has PATCHes, not creations of rows, which wait in the same index; a creation holds
  no row that another transaction waits for but its own name. An edit begins only while the bound
  allows one to be saved.
- `AdminMenu` has one form that waits for category choices: the race of three clicks in
  [Observations](#observations) is left out.
- Delays of polling are not measured; back-off only changes when a timer fires.
- `CustomerCheckout` knows loads of a page, not its return from the back-forward cache; two
  orders in one tab have separate pages and storage entries and meet only in the cart.
- `MCShop`, `MCConsole` and `MCService` put parts beside one another that do not interact in the
  code or whose interaction is in another module; they are composed to share a run.
- Not modelled: the SQL of analytics and reports and the generation of demo data (no state or no
  concurrency; tests compare their results); settings, middleware and the schema's migrations
  (evaluated once, or data); the local seed (the portfolio's seed without a lock); read-only
  inspections and verifications; public menu reads, landing page and presentation; the
  end-to-end harness.
