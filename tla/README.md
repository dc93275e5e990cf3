# Verification of the commerce API

TLA+ modules, TLC configurations and TLAPS proofs for the Go API in `src/`: a multi-tenant shop
back office and storefront on Postgres, with a Redis-stream worker, Midtrans for payments and
Biteship for shipping. Every definition is translated from the Go code and its SQL; the business
rules (`src/contracts/02-business-rules.md`, cited as BR-nnn) are used only as the other side of
a comparison. `PROJECT.json` maps each definition to its lines.

## 1. The system

One API process (any number of replicas) and one worker process (any number) share a Postgres
database and a Redis. A request runs one or a few transactions at READ COMMITTED
(`internal/db/tx.go`); most handlers take the row lock of what they change first (`SELECT ...
FOR UPDATE`), and compare an `If-Match` version after that. Every query runs under row level
security for one shop, so every module below is about one shop.

| Component | State | Operations | Talks to | What is hard | What makes it correct |
|---|---|---|---|---|---|
| orders (`internal/orders`: create, transition, update, refund) | `orders`, `audit_log`, versions operators hold | manual order, status moves, edit while pending, refund, purge redaction | carts (insert), payments (settlement), the purge job | staff, shoppers, Midtrans and a purge on one row; stale `If-Match` | the status graph; money in before work; no lost update; one audit row per move; at most one refund, of money that came |
| payments (`payments.go`, `notify.go`, link half of `checkout.go`) | `payments`, Midtrans' own transactions | open a link after checkout, pay again, webhook with a status call | Midtrans, orders | a call to Midtrans under a row lock and one under none; repeated, late and reordered notifications; rollback after the call | one pending attempt; paid means settled for the order's total; attempt and order move together; a settlement is recorded in the end |
| carts and checkout (`internal/carts`, `checkout.go`) | `carts`, `cart_items`, the row lock | create, get and claim, set item, expire, sweep, check out | Biteship (quote under the lock), catalog (what is sellable), orders | double taps, edits during a quote, claims without a lock, lost answers | one order per cart, holding what the cart holds; a cart is not taken from its owner; everyone is answered |
| background jobs (`internal/jobs`, `internal/queue`) | `jobs`, the stream's pending entries, what workers hold | create, enqueue, deliver, take over, start, batch, finish, fail, acknowledge | import, export, derivatives, purge handlers | crashes between any two commands, take-over of a live worker, failure of the failure's own write | nothing imported twice or lost, outcomes final, every delivered job ends |
| staff sessions (`internal/auth`) | users, refresh tokens linked by `rotated_from` | login, accept, Google, rotate, reuse, logout, reset | team (disable) | rotation in three steps, two of them transactions; a disable or reset in between | a session is continued in one place, ends for good, and ends when its user is signed out |
| team (`internal/team`) | users, roles, invitations | signup, invite, change role, disable | auth | decisions by a row and a count read without a lock | at least one active owner, unless Updates race |
| customers (`internal/customers`, the account's half of `orders/purge.go`) | accounts, Google logins, sessions, reset links | register, login, Google, refresh, logout, reset, purge | orders (purge) | a sign-in, statement by statement, against a reset or a purge; first Google sign-ins racing; one remembered predecessor of a token | a reset and a purge end every session; a login leads to one account; a link works once |
| variants (`variants.go`, `matrix.go`, `bulk.go`) | variants of a product, its option names | create, edit, archive, save the grid | carts, import | the grid works row by row over what it read at first, while single variants change | live variants fit the options; a failing row fails alone; no lost edit |
| categories (`categories.go` and triggers) | a tree with materialised paths | create, rename, relabel, move, delete | products | a rewrite of paths below; archived rows that keep theirs | a path is the parent's and one segment; nothing live below what is deleted |
| products' references (`products.go`, `brands.go`) | the brand and categories of each product | save a form, delete a brand or a category | - | a check without a lock, a write later, a deletion in between | what a deletion takes off is not put back |
| media (`media.go`, `internal/images`) | rows, objects in the bucket | upload, confirm, delete, make derivatives | jobs, S3 | no transaction spans rows and bucket; a key may come back | a row's objects are there; a deletion leaves nothing |
| import (`import.go`) | products, variants, the map of titles | a row: update, create, refuse, fail | jobs | savepoints take back what a map still knows | a failing row leaves nothing and harms no other |
| blog (`internal/blog`) | posts: published, dated, featured | create, edit, delete, feature | - | one post of a shop is featured, and saves read without a lock | marking a post takes the flag from the one that had it |
| email (`internal/email`, `orders/mail.go`) | a stream of envelopes, what Resend has seen | enqueue after a commit, deliver, take over, send, retry, drop | Redis, Resend | take-over of a worker still sending, lost answers, refusals for ever | a change is told of once; no envelope stays |
| keys and slugs (`storefront/keys.go`, `team/api_keys.go`) | each process' cache | resolve, move, revoke | Postgres | a query's answer stored after the row moved on | what was revoked stops working within the cache's time |
| rate limits (`internal/ratelimit`, `queue/redis.go`) | a window in Redis, one per process for outages | check | Redis | replicas' clocks differ; Redis stops answering, or answers nobody | limits hold in every window, refusals are deserved |
| secrets, HTTP layers | - | decode, route, encrypt | all of the above | - | - |
| programs, migrations, seeds, deployment | - | - | - | - | - |

The hazards these parts are exposed to are listed one by one, at their lines, under "hazards" in
`PROJECT.json`, with the properties that cover them, or why none does.

## 2. Modules

| Module | Models |
|---|---|
| `OrderLifecycle` | abstract: what BR-070 and BR-075 promise about an order, as a stage |
| `Orders` | the orders table, its audit rows and operators' stale copies; one action per handler |
| `Payments` | extends `Orders` with the payments table, the calls under way, Midtrans |
| `CartDecides` | abstract: a cart becomes one order and every answered tap learns which |
| `CartCheckout` | carts, the row lock across the Biteship call, taps, claims, sweep |
| `JobQueue` | the jobs row, the stream's entry about it, workers and their crashes |
| `Sessions` | abstract: a session is open until it ends, and never again |
| `Staff` | users and refresh tokens of a shop; sign-in, refresh and Update as the steps they run in |
| `Accounts` | customers, Google logins, sessions and reset links; sign-ins as the statements they run |
| `KeyCache` | one key or slug, the cache of each process, requests that overlap |
| `RateLimits` | the script's sliding window under several clocks, the windows of processes without Redis |
| `Mails` | envelopes, the stream, mail workers and Resend |
| `Variants` | one product's variants: single edits against a grid that is saved row by row |
| `Categories` | the tree and its paths, as the handlers and triggers keep them |
| `ProductRefs` | what products refer to, against deletions |
| `Media` | the rows and objects of one image key |
| `Import` | the rows of one batch, each under its savepoint |
| `Blog` | posts, and saves that pass the featured flag on |
| `MC*` | small instances for TLC; `MCShop`, `MCCartsAndJobs` and `MCCatalog` hold several modules each |
| `*Proofs` | theorems: one module each for `Orders`, `Payments`, `CartCheckout`, `JobQueue`, `Staff`, `Accounts`; `EdgesProofs` for `KeyCache`, `Mails` and `RateLimits`; `CatalogProofs` for `Variants`, `Categories`, `ProductRefs`, `Media`, `Import` and `Blog` |

### Orders
A transaction that takes `LockOrder` before it reads is one action: `Place` (`create.go`,
`checkout.go`), `Transition`, `UpdatePending`, `Refund`, `Redact` (the purge's UPDATE over all
of a customer's orders). A request the code refuses, and a move to the status an order already
has, change nothing and are stuttering steps. `copy` is the row as an operator last read it:
`UpdatePending` compares its *version only*, as the handler does, and `NoLostUpdate` says that
this is enough, which needs every writer, the purge included, to move the version on. A row
keeps the names of the timestamps that are set, the amounts that enter the total, and whether
the shopper's personal data is still there; order lines, names and addresses are data.

### Payments
What outlives a statement is state. `asking` is pay-again between `LockOrder` and its commit,
waiting for Midtrans with the order's row locked; every other handler of that order waits
(`OrderSteps`, `Apply` test it). `snap` is checkout's request for its link, made after the
commit and under no lock, whose `SetPaymentLink` is a transaction of its own. `hooks` are
notification handlers between `GetStatus` and the row lock: several hold answers of different
ages. Midtrans is modelled from how the code uses it: an id is opened once, a shopper with a
link may choose a bank and pay, notifications repeat until one is answered 200, and a call that
fails for the caller may or may not have reached it. The module EXTENDS `Orders` and its steps
on the order are that module's actions, so `ImplementsOrders` states that payments do nothing to
an order that an order handler would not.

### CartCheckout
`Quote` is `Checkout` from `LockCart` to the call to Biteship, `Place` and `Fail` its ends;
`lock` is held in between and `SetItem`, `Sweep`, `GetClaim`, other taps wait for it. `Get`
reads without a lock and claims afterwards, and is two actions. `Place` may lose its answer
(`heard`), after which the shopper taps again. READ COMMITTED makes an UPDATE or DELETE that
waited test its WHERE again, which is why `Sweep` and `GetClaim` test the row as it is when they
run.

### JobQueue
`messages[j].at` follows one stream entry: a committed job whose XADD is `unsent`, perhaps
`lost`, then `new`, `pending`, `acked`. `Read` and `Reclaim` deliver all there is (a worker asks
for ten, the instance has fewer). `hand` is the slice `Run` loops over, so a message read and
not yet begun can go idle and be taken over. The handler is the product import: batches, each
with its checkpoint in its transaction; the other handlers are one batch. Idle time runs from
the delivery (`GoIdle`). `Slow` says whether a message may go idle (60 s, `ClaimIdle`) while it
is being handled; if not, one that waits behind others in the hand still may, and a job is run
twice all the same. So two history variables say what the code's claims are subject to. `shared`
has the jobs that were delivered to a worker while another one, alive, still had them in hand;
`unrecorded` those given up by a `FailJob` that failed, which `GiveUp` may at any time.
`AppliedOnce` and `AckedHasOutcome` are the claims as they are written, and do not hold;
`AppliedOnceUnlessShared` and `AckedUnlessUnrecorded` are what does, and `JobsEnd` too leaves
out what is in `unrecorded`. `DoneIsWhole` leaves out nothing.

### Staff
Every way of signing in (`Login`, `AcceptInvite`, `GoogleSignIn`, `ResetPassword`, `Refresh`)
ends in `issue`, a transaction of its own that inserts a refresh token without a look at the
user's status. `req[r].at = "issuing"` is the time from the read that entitles to a session
until that insert, and anything may happen in it. `Refresh` is a lookup in no transaction, then
either `Rotate`, whose UPDATE tests that the token is still live, or `Reuse`, which asks for a
successor; then `Issue`. `Update` of a user is `UpdateRead` (GetUser), `UpdateCount`
(OtherActiveOwners, only if an owner would be lost) and `UpdateWrite`, and nothing is locked in
between, nor do two Updates exclude each other. So the last two owners may be demoted at once
(`OwnerRemains`, BR-027 as it is written, does not hold), and `raced` notes the Updates about to
write since whose decision an active owner was taken away (of a shop that has none left, all).
`LastOwnerStays` says that nothing but the write of one of those loses the last owner; any other
Update is held to the rule. Transactions whose UPDATE tests again what was read are one action.
The session a token belongs to is its `chain`, the first token behind `rotated_from`; `cred`
remembers the password it was opened under. `late` is a history variable: the sessions that were
being issued when their user was last signed out everywhere, which RevokeAllUserTokens cannot
see. `SignedOutStays` is exact: those and no others may outlive a disable or a reset. An expired
token is one nobody presents; links count by what their acceptance tests (status `invited`, the
hash they were minted against). admin, ops and viewer are one role, and a caller's role is
arbitrary, since it comes from an access token of up to 15 minutes ago.

### Accounts
`Login` and `GoogleSignIn` are transactions that lock nothing they read, and READ COMMITTED lets
each statement see more than the last: every SELECT (`Login`, `Look`, `ByEmail`) is an action,
and `req` is what the request has seen. The INSERTs that end it (`SignIn`, `Link`, `Create`) are
one action with the commit, since a unique key or a foreign key makes each wait for whoever is
in its way: an INSERT that refers to a customer takes the row's KEY SHARE lock, which waits for
the FOR UPDATE of `LockCustomer` and `PurgeCustomer` and then goes through, because a purge
keeps the row. That is why a session or a login can be inserted for a customer who was signed
out or erased since it was read, and `late` remembers which; as in `Staff`, the properties are
exact about them. `epoch` counts the times a customer was signed out everywhere and stands for
the hash set then, 0 being NULL; a link is a customer and the hash it was minted against.
Revoked, expired and deleted sessions are all free rows. `pass` is the loop `for range 2`.
`Purge` and the `Redact` of `Orders` are the two halves of one transaction: they meet on nothing
but the customer's row, so they are checked apart.

### KeyCache, RateLimits, Mails
Time is the age of things, up to what the properties tell apart, so no clock runs away. In
`KeyCache` a miss is three steps, the cache looked at, the query, the store, and the mutex is
held only inside the first and the last; an older answer may therefore be stored over a newer
one. A query takes at most `Slow` ticks and an entry is good for `TTL`: `StaleForTTL` says that
together they bound how long a revoked key works. In `RateLimits` a hit carries, beside its age,
the clock of the process that counted it (`ahead`), since ZADD's score is the caller's time; a
sorted set is a set of such members, which PEXPIRE deletes when no script ran on it for a window
(`idle`); `FallBack` is a Redis that does not answer, having run the script or not. `LimitsHold`
counts what really happened (`counted`, sets of hits too), by true age. In `Mails` the envelope
is enqueued after the commit, or never; every Redis command, the render and the call to Resend
are steps, and a worker may die between any two. `Send` puts the key in Resend's memory whether
or not the answer is heard.

### Variants
`grid` is `SaveMatrix`: `snapshot` is what it read of the variants, `work` what it has written
and nobody else can see or touch until it commits, `failed` the rows whose savepoint was rolled
back. It holds the product's row throughout, so nothing changes the option names but itself.
Single edits (`edits`) read and write in two steps, and the write tests the version; what is
kept of a version is whether it has moved since it was read. `CreateReads` locks nothing, so a
variant read against the old options may be inserted after the grid (`late`).

### Categories, ProductRefs
Writes of the tree take an advisory lock, so each is one action: the check, the row, and the
trigger that rewrites every path below. What names become as segments is a table (`Segment`)
which two names meet in on purpose. In `ProductRefs` a form checks what it sends, writes at the
version it read, and commits, in three steps; a deletion waits for the rows it finds as READ
COMMITTED does, and misses a link that is being deleted and made anew (`Relinking`).

### Media, Import
`Media` follows one key, which is the hash of the content: the same image uploaded again meets
what is left of the deleted one. Confirmation, deletion and the derivatives job each reach the
bucket outside their transactions, object by object, and each may fail between two objects.
`slipped` and `crossed` are history variables that say exactly when the bucket may disagree with
the rows. `Import` is one batch in one transaction; `JobQueue` already has the batches and their
repetition. A product's id is the row that made it.

### Blog
`UpdatePost` reads a post, takes the flag from whichever post the shop features
(`ClearBlogFeatured`, which waits for rows it finds locked) and writes every column of its own
back, in a transaction that locks nothing first; those are `SaveReads`, `SaveClears` and
`SaveCommits`. What the unique index refuses ends in `SaveFails`.

## 3. Runs

| Run | Instance | Shows |
|---|---|---|
| `shop` | one part at a time, below; 442,787 states | audit replay, CHECKs, money before work, no lost update, `OrderLifecycle`; a revoked key stops in time, limits hold in every window, a change is told of once, every envelope is done with |
| `payments_race` | 1 order, 2 attempts, 2 handlers at once, operators pay or cancel | attempts numbered and one pending; paid is final; order and attempt together; `Orders` implemented |
| `payments_live` | 1 order, 2 totals, 2 attempts, 1 handler | paid only in full while the total is edited; a settlement is recorded in the end |
| `carts_and_jobs` | one part at a time, below; 208,336 states | the order is the cart, the lock suffices, the owner stays, `CartDecides`, every tap is answered; done is whole though two workers run one job, nothing is applied twice unless `shared` or acknowledged without an outcome unless `unrecorded`, every delivered job ends or is `unrecorded` |
| `staff` | 2 users, 2 tokens, 2 requests, 2 Updates, 1 password each, below | one live token per session, signed out stays signed out unless `late`, the last owner is lost only to an Update that is in `raced`, `Sessions` |
| `accounts` | 2 customers, 2 addresses, 2 Google accounts, 2 requests, 1 session at a time, 2 epochs | everyone there can sign in, signed out and erased means so, links are spent |
| `catalog` | one part at a time, below; 1,843,201 states | live variants fit, a grid is saved whole and loses no edit, paths agree, what was taken off stays off, the bucket agrees, the featured flag agrees |
| `applied_twice`, `acked_without_outcome` | 2 jobs, 2 workers, 2 batches, 2 deliveries, `Slow` false | one finding each, section 6 |
| `no_owner_left` | that of `staff` | a finding, section 6 |
| `two_payable_links`, `good_rows_land` | those of `payments_race` and of `catalog` | one finding each, section 6 |

`MCShop` (`Orders`, `KeyCache`, `RateLimits`, `Mails`), `MCCartsAndJobs` and `MCCatalog`
instantiate several modules that share no variable. A behaviour is about one of them, chosen at
the start (`about`), and the others rest in one fixed initial state: nothing that could be said
of two of them together is lost, and the number of states is the sum of theirs and not the
product. `MCStaff` uses `about` for a bound: a behaviour is either about the sessions, with one
Update at a time, or about the team, with two Updates at once and no token issued. Nobody's role
or status depends on a token, so the second half has every race of two Updates; the theorems
about `Staff` have both at once, for any number.

Why these bounds are enough. Orders share nothing but a purge, carts nothing but the catalog,
jobs nothing but a worker's hand; one of each, or two where they share, meets every interaction.
In `shop`: 1 order, 2 shipping amounts, versions to 4, all moves. In `carts_and_jobs`: 1 cart, 2
variants, 2 customers and 2 taps; 1 job, 2 workers, 2 batches and 2 deliveries, `Slow` true, so
the job can be taken over before it is begun, between any two of its steps and after its last
delivery. A job that waits behind another one is in `applied_twice`, whose two jobs one worker
reads together, and in the theorems. Two attempts give a stale one and a live one; two handlers
hold an old and a new answer; two customers give an owner and a stranger; two taps a winner and
one that waits and gets its order; two batches give one before and one after a crash; two
deliveries a retry and the last one. Two staff requests are a winner and a loser over one token;
two tokens one that is presented and one that replaces it, or two sessions; two users an owner
and another, of whom one signs the other out or both are owners whom two Updates demote;
`MaxHash` 1 is no password and one, enough for a reset to change it. (The theorems about `Staff`
have no such bounds.) Two customer requests are a winner and a loser over an address or a Google
account, or a sign-in and what overtakes it; two epochs a reset of a password that was NULL and
the purge after it, or two resets. One session at a time is enough for `SignedOutStays`, which
is about one; more of them are in the theorems. In `shop`, 2 requests of 1 replica make an older
answer overtake a newer one in its cache (a second replica shares nothing with it); a TTL of 2
and a query of 1 tick differ; 2 processes with clocks 1 tick apart, a window of 2 and a limit of
2 give a window in which both counted, a limit that is neither reached nor passed by one hit,
and an outage that straddles two local windows; 2 mails, 2 workers and 2 deliveries give a mail
waiting behind another in one hand while it is taken over, a retry and the last one. In
`catalog`: 2 variants, 3 combinations of 1 or 2 options and 1 SKU, so that a rename of the
options and a row that wants another's SKU happen; 3 grids and 1 editor; 3 categories, so that
something below something moves, and 2 names whose segments collide; 2 products, 2 forms, 1
brand, 1 category, so a form is overtaken by a deletion and by another form; 2 rows of one image
key, 2 sizes, 2 runs of the job and 1 confirmation; 2 batches of 4 rows, of one title, of two
and of none, in which SKUs and options meet twice; 2 posts and 2 saves.

`MaxVersion` stops only reading, editing and purging, never a status move; `MaxAttempts` and
`MaxHooks` bound pay-again and concurrent handlers. Deadlock is not checked because a shop may
rest: everything may be shipped, checked out or done, and nothing be asked of it.

Each property has a mutant in `PROJECT.json`: the module holds, marked "Mutation", the change a
plausible bug would make (a dropped version bump, a checkpoint committed before its rows, a row
read without FOR UPDATE), under which TLC finds that property violated.

### Fairness
- `FairPaySpec`: Midtrans repeats a notification until it is answered, so it is received (strong
  fairness, since `MaxHooks`, a bound of the model, may turn it away); handlers end and get the
  row lock in the end; a Midtrans call has a deadline, so pay-again lets go of it; crashes stop
  some day. Nothing is assumed of shoppers and operators.
- `Fair` of `CartCheckout`, in `carts_and_jobs`: a Biteship call has a deadline; Postgres serves
  waiters of a row in turn, so one that waits again and again is served.
- `JobFair`, in `carts_and_jobs`: workers loop and handlers return, time passes (`GoIdle`), and
  processes and the database stop failing some day. Without the last, five crashes in the same
  handler do not fail the job, because a delivery that crashed is counted but never judged. A
  `Retry` of the only message in hand is a step that `Die` takes too, so it also happens
  finitely often under that assumption; nothing is lost by it, since each retry uses up a
  delivery.
- `MailFair`, in `shop`: workers loop and start again, a call to Resend has a deadline, an idle
  envelope is noticed in the end, and Redis and the processes stop breaking some day. Resend may
  refuse for ever; then the envelope is dropped after its deliveries. Resend remembers an
  idempotency key for a day, here for ever: an envelope is done with in `MaxDeliveries` times
  `ClaimIdle`, minutes.

## 4. Proofs

All proofs are for every number of orders, attempts, carts, taps, jobs, workers and so on. The
assumptions are the named ASSUMEs of the modules, which every run evaluates. Type invariants and
a few properties (`SettledTerms`, `OutcomeIsFinal`, `DoneHasResult`, `LoginKeeps`,
`LoserFindsWinner`, `NoEmptyProducts`, `NoneSkipped`, `OthersStay`) are theorems only: a proof
for every value leaves nothing for a run to add.

`OrdersProofs`. `TypeCorrect`; `ChecksAlwaysHold` and `NeverWorkUnpaid`, from `Sound`, which
says how a row's stamps and courier fit its status; `AuditAlwaysReplays`, which is inductive
with `Sound`; `NoUpdateIsLost`, from `CopyIsPast`: an operator's copy is the row itself or has a
smaller version; `TermsStaySettled`; and `HandlersKeepLifecycle`, the refinement of
`OrderLifecycle`, where a step on one order is one step of its stage and a purge of several is a
stutter.

`PaymentsProofs`. `PaymentsKeepOrders` first: each step is a step of `Orders` or leaves it
alone, so what is proved of `Orders` holds here. `OnePendingAlways` is inductive with
`NoneBefore` (an unplaced order has no attempts) and `HooksKnown` (an answer is about an attempt
that exists). `PaidStaysFinal` follows from `Outcome` alone. `AlwaysPaidInFull`,
`AlwaysPaidTogether` and `AfterCancelAlwaysTold` need `Heard`: a handler that holds "settlement"
heard it of a settled transaction, and settled stays settled. The total cannot change under a
paid attempt because the order has left pending.

`CartCheckoutProofs`. The inductive invariant `Held` is `LockSuffices`, `OrderIsCart` and that a
request which is quoting holds its cart's lock. `LockAlwaysSuffices`, `OrderAlwaysIsCart`,
`OwnerAlwaysStays` and the refinement `CheckoutDecidesOnce` follow.

`JobQueueProofs`. `DoneAlwaysWhole` and `OutcomeAlwaysFinal` hold whatever overlaps: `Whole`
says that the counts of the row and of each worker never exceed what is in the shop.
`AckedAlwaysUnlessUnrecorded` needs `Decided`: what a worker runs has started, and what it
acknowledges has ended or is `unrecorded`. `AlwaysAppliedOnce` and `DoneAlwaysHasResult` are
about the jobs that are not `shared`: such a job is in one hand at most (`Alone`), a worker's
count is its row's (`InStep`) and the row's count is exact (`Exact`). Nothing is assumed of time
or of `FailJob`, as both histories only grow (`HistoryGrows`). Section 6 says what becomes of
the other jobs.

`StaffProofs`. `Ids` says what names what (a chain begins with a used token of the same user, no
two requests are to issue one token); `Kinds` reduces every step to five ways of changing tokens
and requests. `OneLiveAlways` needs that a chain with a live token is not being issued as well,
and in one place only (`One`). `SignedOutAlways` holds requests that are issuing to the same
rule as live tokens (`Entitled`), because `Issue` tests nothing. `LastOwnerAlwaysStays` is for
any number of Updates at once. Its invariant `Counted` is that an Update about to write that is
not in `raced` (`NotOvertaken`) either takes no owner away or has another active owner beside
its user. `SessionsNeverRevive` is the refinement of `Sessions`.

`AccountsProofs`. One invariant, `TypeOK` with `Found` (whatever names a customer names one that
was made, and a sign-in about to link found its customer there unless that was signed out
since), carries all. What a step may do to one row of a table is a lemma for each table.
`SignedOutAlways` needs `EpochMoves`, that a customer's row changes only together with the end
of its sessions; `LoginsAlwaysErased` the half of `Found` about linking; `LinksAlwaysSpent` that
a hash set is newer than every link minted; `LoserAlwaysFinds` `Retried`: a second pass starts
from a login that exists, and only a purge removes one.

`EdgesProofs`. `RevokedStopsWorking` from `AgesTell`: whatever a cache or a request holds, the
database still said at most its age ago, give or take `Slow` for the cache. `AlwaysToldOnce`
from `SentOnce`: a mail is received once at most, and only after Resend was given its key, which
is one per mail. `NoMailSkipped` from `AcksSettled`: whoever is about to acknowledge an envelope
has one whose mail was received, is wanted by nobody, or has no delivery left, and none of the
three is ever undone, so it is still so when the XACK arrives, also from a worker that was taken
over. `LimitsAlwaysHold` from `LogFits` and `LocalFits`: Redis still has as a member every hit
it counted that no replica's clock may have pruned, however far the clocks differ; a process has
counted in its open window every hit of that age and fewer than `Limit` in any one before it,
hence less than twice the limit in a trailing window. Hits are sets and never numbers that are
summed, so the proof needs only the cardinality of subsets and of one element more.

`CatalogProofs`. `TakenOffStays` from `ShedStays`: a form that still holds what a deletion took
off has been noted as `moved`, and its UPDATE will refuse; a form that had written already made
the deletion wait or was missed by it. `LiveAlwaysFit`, `GridAlwaysSaved` and `NoEditIsLost`
from `GridKnows` (what the grid has written and what it has left alone, row by row, and that
whoever changed a row it read is in `moved`) and `EditsKnow` (an edit that was not told has read
the row as it is). `BucketAlwaysAgrees` from four parts: `NoneLost` (unless something failed,
each derivative has somebody who knows of it), `InTurn` (rows of a key come one after another),
`MakersKnow` (only rows that are gone are cleaned up after) and `Quiet` (around an image
confirmed in quiet nobody deletes). `NeverEmptyProducts` is inductive by itself.
`FlagAlwaysAgrees` from `PostsKnow`, what the table's CHECKs and index keep, and `SaveKnows`: a
save that was not overtaken (`since`) still sees who is featured. `TreeAlwaysAgrees` is
inductive with the type, which says that parents are rows and paths sequences of segments. Its
main lemma is `Ancestors`: whatever a path begins with is the path of a row itself. An induction
over the tree would say so; here it is the row with the shortest path among those that begin so
(`WFMin`), whose parent would have a shorter one. The trigger keeps paths distinct since
replacing one prefix by another is injective (`Rebases`), and a moved subtree meets no other
one, whose root would then, by `Ancestors`, have the path that `Taken` refuses.
`OthersAlwaysStay` says what else a move of a subtree does: nothing.

Every safety and action property a passing run checks is a theorem. Only model-checked: the
liveness properties (`SettledIsRecorded`, `TapsAnswered`, `JobsEnd`, `MailsEnd`), since the
prover has no fairness or ENABLED. The violated claims (`OnePayableLink`, `GoodRowsLand`,
`AppliedOnce`, `AckedHasOutcome`, `OwnerRemains`) are refuted by TLC.

## 5. Not modelled

Crypto, parsing, templates, JSON, seeds, shell scripts and SQL that only reads. Tenancy is one
shop per module. Read-only endpoints are stuttering steps.

How much of the code that is: `internal/http/gen.go` and `internal/storefront/gen.go` are
generated from the API description (17,900 lines) and `internal/db/sqlcgen` from the SQL; they
move data between Go types and hold no decision. With the HTTP handlers that call one service
each, list queries and seeds they are most of the repository's 45,000 lines. What changes state
and is worth interleaving is in the services, and the map names its lines there.

### Plan
1. Done: `OrderLifecycle`, `Orders`, `Payments` and their proofs.
2. Done: `CartDecides`, `CartCheckout` and proofs.
3. Done: `JobQueue` and proofs.
4. Done: `Sessions`, `Staff` (sessions and team) and proofs.
5. Done: `Accounts` and proofs.
6. Done: `Variants`, `ProductRefs`, `Categories`, `Media`, `Import`, `Blog` and proofs.
7. Done: `KeyCache`, `RateLimits`, `Mails` and proofs.

Left, and why:
- The tenant setting of a transaction and row level security: one statement at the start of each
  transaction, which Postgres then enforces; there is nothing that steps interleave on.
- What a purge finds by email, against a guest checkout that commits while it runs: nothing in
  the code prevents the order from keeping the shopper's data, so there is no property to check
  (section 6).
- A job whose process dies before XADD: the comment at `jobs.go:63` accepts it, `JobQueue` has
  it (`lost`), and `JobsEnd` speaks of the jobs that reached the stream.
- Publishing, slugs, prices and attributes of products, brand names, positions of images,
  categories and linked products of posts: columns of one row, kept by one statement and a
  unique index or a CHECK.
- Platform admins (read-only), storefront settings (one row, last save wins), the quote cache of
  the Biteship client.

## 6. Findings

Where the code and what is written about it part, first those that a run shows:
- `two_payable_links`: checkout's late link and pay-again's link can both be payable (BR-123).
- `good_rows_land`: when the first variant of a new title fails to insert, its savepoint takes
  the product back, the map of `importBatch` keeps its id, and every later row of the title in
  the batch fails too ("any other row joins the product its title names in this file").
- `applied_twice`: "a row is never applied twice" (API spec line 1115, BR-060). A message that
  waits behind others in a worker's hand goes idle after 60 s, another worker takes it over, and
  both import it from the same checkpoint; a single import of more than 60 s does the same.
  `AppliedOnceUnlessShared` holds.
- `acked_without_outcome`: "it acknowledges only once the row records an outcome"
  (`jobs.go:130`). `fail` only logs that `FailJob` failed, the message is acknowledged and the
  job stays running. `AckedUnlessUnrecorded` holds.
- `no_owner_left`: two Updates at once demote or disable the last two owners (BR-027), since
  each counts the other's without a lock. `LastOwnerStays` holds.

Others have no run of their own:
- The loser of two first Google sign-ins is answered an internal error: it fails on the address,
  and only a failure on the login is tried again (comment in `google.go`).
- A settlement of an order cancelled unpaid is only in the audit log, not in the "refund owed"
  view (BR-075), and cannot be refunded. `AfterCancelTold` holds.
- A user disabled while a request of theirs is between the read that entitles it and `issue`
  keeps a live refresh token, which can be refreshed for as long as it is used (BR-027). Those
  are the sessions in `late`.
- In the same way a customer's session survives a reset or a purge (BR-094, BR-097), and a
  Google login is linked to an account that a purge has just erased: the sessions and logins in
  `late`.
- "Presenting an already-rotated refresh token revokes the whole session" (BR-093) is so for the
  last token rotated away; an older one is found nowhere (`Reuse` has no other case).
- "A link verifies against exactly one hash, so it sets a password exactly once" (`reset.go`): a
  link minted for a customer without a password verifies again after a purge, when the hash is
  NULL again, and sets a password on the erased account. `SpentLinks` holds while the account is
  there.
- A purged customer's access token is good for 15 minutes more, and `UpdateMe` with it writes a
  name back (BR-097 "anonymises the `customers` row").
- A pay-again rolled back after Midtrans answered asks for the same id again, which the comment
  at `payments.go:126` excludes ("is never offered twice"). `OnePending` holds all the same.
- A signed-in checkout does not claim a guest's cart, as BR-095 says a request with both does.

- `RecordNotification` keeps whichever Get Status answer gets the row lock last, so
  `transaction_status`, which nothing reads back, may go from settlement to pending (the attempt
  may not: `PaidIsFinal`).
- When two workers have a job in hand (`shared`), the late checkpoint of one replaces the result
  that the other one finished the job with, because `CheckpointJob` tests no state.
- A variant created against the old options while a grid changes them is inserted after it and
  stays live though it does not fit (BR-040): the ids in `late`.
- A PATCH of a variant and the grid accept a zero price on an active product: BR-038 gates only
  the way there, and says why, "a shopper must never see a zero price".
- A product whose categories are being sent anew, at the moment one of them is deleted, keeps it
  (BR-012): `ClearCategory` waits for a link that is then gone and cannot see its successor.
- `DeleteMedia` deletes the objects after its commit, "unless another row still uses the key",
  tested before: the same image uploaded and confirmed again meanwhile loses its original. Those
  rows are in `crossed`.
- A save of a post that was read before the post was deleted writes the featured flag back onto
  it (BR-131, API spec line 1838 "is_featured cleared"): `revived`.
- A save of any field of the featured post, read before another one was featured, is answered
  500 by `blog_posts_one_featured`, though "the last save wins" (`blog.sql.go`).
- A guest checkout that commits while the purge of that shopper runs keeps its personal data
  (`purge.go:42`).
