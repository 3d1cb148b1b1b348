# MoneyLog backend: a TLA+ model

TLA+ modules, TLC configurations and TLAPS proofs for the MoneyLog backend, a
FastAPI / SQLAlchemy (async) / PostgreSQL service for household accounting. The
source is the reference: each definition is translated from it, and
`PROJECT.json` ("map") names the lines. Paths below are relative to `src/`.

    tlc -workers 2 -config MCTransfersConcurrent.cfg MCTransfers    # any of the runs below
    tlapm TransfersProofs.tla          # or any other ...Proofs module, or Lemmas

## 1. How the system runs

There is one process with an event loop, and one PostgreSQL database. Every HTTP
request gets its own `AsyncSession` (`app/core/database.py`, `get_db`).
`get_current_user` (`app/core/dependencies.py`) loads the caller's row in that
session; the endpoint calls a service; the service calls repositories, which run
one statement each; the endpoint then awaits `db.commit()`. Any exception, or a
lost connection, ends the session without commit and the database rolls it back.

What makes this hard:

- **Every await is a switch.** Between two statements of a request any other
  request may run and commit. A service reads rows, decides in Python and writes
  later; nothing takes `SELECT ... FOR UPDATE`, and no row carries a version.
- **READ COMMITTED.** A statement sees what is committed when it starts. An
  `UPDATE` or `DELETE` locks its row until the session ends; a second writer
  waits and then works on the new version of the row. What a session has written
  is visible to itself only, until the commit. PostgreSQL breaks a deadlock by
  failing one of its statements.
- **The identity map.** A row a session has loaded is not read again, so
  `current_user.family_group_id` is as old as the request.
- **Few constraints.** There are no foreign keys in the database. Only
  `users.email`, `family_groups.invite_code` and the public ids are unique;
  everything else that "cannot exist twice" rests on a lookup before an insert.
- **`scalar_one` and `scalar_one_or_none`.** `UPDATE ... RETURNING` raises when the row
  has gone, and a lookup raises when it finds two rows. Both are error paths the
  models keep.

## 2. Inventory

The state is the component's table(s); "hard" is what a test hardly reaches.
`PROJECT.json` ("hazards") lists each hazard at its line.

| component | state | operations | interacts with | hard | correct when |
|---|---|---|---|---|---|
| transfers | `transfers`, `assets.balance` | create, update, delete, list, detail | assets (balances), users (family) | balances computed from rows read earlier; two row locks per request; assets deleted under a transfer | balances are what the committed transfers add up to; requests end |
| assets | `assets`, `users.default_asset_id` | create, update, delete, default, reorder, seed | transfers, transactions, family groups | deletion while referenced; default asset of a deleted asset; places computed from a list as read | the default is the user's own or shared; places are distinct |
| family groups | `family_groups`, `users.family_group_id`, `role_in_group` | create, join, remove, leave, regenerate code, dissolve, expiry | every permission check | membership decided on a row loaded at the start; dissolve against join | one OWNER per group, no member of a group that is gone, lapsed codes admit nobody |
| subscriptions | `subscriptions` | create, update, delete, next billing date, summary | batches | end of month, leap years | next date is a billing day |
| subscription batches | `transactions` (SUBSCRIPTION_AUTO), `notifications` | process, notify | subscriptions, transactions | missed days, repeated and overlapping calls, failure of one row, midnight | every payment charged once and announced once |
| transactions | `transactions`, `car_expense_details`, `ceremony_events` | create, update, delete, list | ceremony persons, goals, batches, receipts, chat | partial updates over outdated rows; totals kept in another table; rows locked in two orders | amount paid = amount − discount; one event per transaction |
| ceremony persons | `ceremony_persons` | get_or_create, update_totals, search | transactions | doubled rows, totals left behind | totals are those of the events |
| request sessions | a session, its locks | begin, commit, rollback | all | the above | a request leaves all of its changes or none |
| accounts, e-mail verification | `users`, `email_verifications` | register, login, verify, resend, refresh, change password, deactivate | family groups, categories (seeded) | attempts counted in a request that does not commit; codes replaced by concurrent requests; two registrations of an address | the newest code counts; what commits was asked for with the password in force |
| OAuth login | `users` | callback | accounts, providers | two first logins of one person; a profile that hides its address | one user per address |
| goals | `goals` | create, update, delete, detail (which marks completion and expiry) | – | a status written in a read; a status tested on a row another request has changed | status agrees with amount and end date |
| receipt scans | `receipt_scans` | scan, confirm, list | transactions, object store, language model | confirmation repeated or concurrent; upload without row | one transaction per scan |
| AI chat | `ai_chat_sessions`, `ai_chat_messages` | create, delete, send, confirm | transactions, language model | the same confirmation twice; the model failing between two messages; a session deleted while the model is asked | one transaction per confirmed message; no message without its session |
| chat partitions | monthly partitions of `ai_chat_*` | cron script, inserts | AI chat | a run late or missed: rows in the DEFAULT partition keep their month's own from being created | every row is in the partition of its month |
| settlement | none (computed) | usage, settle | transactions, family groups | rounding, who pays whom, expenses of members who have left | the transfers proposed clear every balance |
| card billing cycles | `billing_discounts`, `assets.payment_day`, `billing_start_day` | configure, current cycle, discounts, summary | assets, transactions, family groups | month ends, cycles crossing the year, discounts filed under any days, settings that change under them | periods tile the calendar; each transaction is billed once |
| rate limiter | per-process table of time stamps | check | registration, login, verification | windows at their edge, pruning while counting | at most *n* calls in every window |
| categories | `category_configs` | seed, create, update, delete, reorder | registration, transactions | places computed from a list as read | places distinct in a section; the defaults stay |
| budgets | `budgets` | create, update, delete, performance | transactions | computed by two services with queries of their own | both say the same |
| notifications API, feedbacks | `notifications`, `ai_feedbacks` | list, mark read | batches | – | – |
| statistics, export | none | weekly, monthly, yearly, family views; export | transactions, budgets | the same sums taken by many queries, over ranges of dates computed separately | breakdowns add up to totals; views agree |
| AI analysis | none | monthly analysis, savings tips | transactions, budgets, language model | a third computation of the same figures | what the model is told is what the statistics say |
| uploads | object store | put, delete | receipts | – | – |
| configuration, tokens, errors, health | none | – | all | – | – |

## 3. What is modelled

One conventional reading holds in the modules about concurrent requests. A request `r` is at the statement `pc[r]`; `call[r]` holds its
arguments and what it has read (in `Transfers` what it has read is `seen[r]`, in `Accounts` and
`Goals` a field `seen` of the call). A
`Begin...` action is the arrival of the request with `get_current_user`; each
statement of the service is an action of its own; a write takes the row's lock when
its statement runs, and its effect is applied by the `Commit...` action, which is
when others can see it. `Refuse` is every error path of the code; `Crash` may end a
request anywhere before its commit. Ids are UUIDs: drawn once, never reused.

Applying a write at the commit instead of at the statement is sound because
nobody else sees it earlier, the row stays locked in between, and no service reads a
row back that it has written, apart from the batch, whose module keeps its own
uncommitted rows (`made`). `Confirmations`, `Accounts`, `Goals` and `Catalogue` go one step
further and take the last writes of a request together with its commit: nothing is awaited
from outside between them, a row that is locked makes the request wait for the holder's
commit whether it is met by the write or by the joint step, and what the write finds
is then the committed row. Their histories (`overlapped`: pairs of requests that have been in
flight together) name who may have overtaken whom.

### Transfers (`Transfers`, `TransfersLedger`, `AtomicLedger`, `TransfersInvariant`, `TransfersProofs`)

`Transfers` is `app/services/transfer_service.py` statement by statement, with the
operations of `app/services/asset_service.py` on the same rows: create an asset, set
a balance by hand, delete an asset. `asset`, `transfer` and `group` are the committed
rows, `lock` the row locks. The three `...Balances` operators are the arithmetic of
create, update and delete; `MayTransfer`, `SameFamily` and `Permitted` the checks;
`Deadlocked` a cycle of waits.

`TransfersLedger` adds history variables that no action reads: `expected` (what each
balance would be had every committed request run alone at its commit), `stale` (the
rows a request has read that somebody has changed since) and `raced` (the assets
written by a commit computed from such a row). The properties are stated over them.

`AtomicLedger` is what `docs/API.md` promises: each request is one indivisible change.
`TransfersLedger!Ledger` instantiates it with the refinement mapping: `LedgerBalance` reads
a `NULL` balance as 0 and a missing asset as `Null`, `LedgerRows` are the rows without their user
and group. `LedgerAssumption` says that `Null` is none of these.

### Family groups (`FamilyGroups`, `FamilyGroupsInvariant`, `FamilyGroupsProofs`)

`member` and `groups` are the two tables. A group's `INSERT` and a user's `UPDATE`
become visible at one commit. `clear_family_group_for_all` is one statement over
several rows: `Snapshot` fixes which rows it visits, `ClearRow` locks them one by one
and looks at their latest version, as PostgreSQL does. `Expire` is the passing of the
seven days of an invite code.

### Subscriptions and batches (`BillingDates`, `SubscriptionBatch` and their `...Invariant`, `...Proofs`)

`BillingDates` is the arithmetic of `calculate_next_billing_date` and
`_is_billing_day` over real calendar dates, without recursion. `SubscriptionBatch` is
the two batches over committed `charges` and `notices`: a batch loads the active
subscriptions, then checks and inserts row by row, and commits at the end. A batch may
fail at any row, overlap another, be repeated on the day or miss a day, and
run across midnight; users create, edit, pause and delete subscriptions and delete
charges meanwhile.

### Transactions and people (`CeremonyLedger`, `CeremonyInvariant`, `CeremonyProofs`)

`tx`, `events` and `person` are the three tables of
`app/services/transaction_service.py` that move together. The totals of a person are
moved by the database (`total + delta`), so they are applied to the row as it is at
the commit; the lookup before it is a statement of its own. `mixed` and `off` are
history: which transactions were edited on the strength of an outdated row, and whose
totals a request has set off: an edit that changes what an event counts for, a delete by another
member of the family, and a delete that no longer finds the transaction as it has read it, or whose event
was changed between its reads (see `OffByDelete`, and section 5).

A delete locks the event before the transaction and an update the transaction before the
event: `OnlyEditsMeetDeletes` says that this is the only deadlock. `EventsFollowTransactions` says that a
transaction never gets a second event, and leaves its own behind only when a request
in flight with the delete has added it.

### From the model's answer to a transaction (`Confirmations`, `ConfirmationsInvariant`, `ConfirmationsProofs`)

`app/services/receipt_service.py` and `app/services/ai_chat_service.py` do the same thing in
two ways, so one module has both. `BeginScan` and `Snapshot` start a call to the language
model with the database session open; `Hear` is its answer, an error, or botocore's read
timeout; `ReadScan`, `ReadMessage` and `ReadSession` are the tests of a confirmation and
`CommitConfirm...` what it inserts and writes into the row. Meanwhile sessions are dropped and
transactions deleted. `origin` is history: the row a transaction has been made from.

What is modelled is the service, as its tests call it. The endpoint that confirms a message
(`app/api/ai_chat.py:187`) declares a UUID where `models/chat_message.py:37` has an integer key.

The invariants say exactly when things go wrong: a second transaction comes only of two confirmations
in flight together (`ConfirmedOnceUnlessRaced`), a message without its session only of an
answer that came while the session was being deleted (`OrphansOnlyByLateAnswers`).

### A user's own data (`Accounts`, `Goals`, `Catalogue`, `RateLimiter`, their `...Invariant`, `UserData`, `UserDataProofs`)

`Accounts` is `auth_service.py` and `oauth_service.py` over the row of an address and the codes
mailed to it. Requests are numbered in the order in which their transactions begin, which is
that of `created_at`. A refused verification has counted the attempt, but its endpoint does not commit
after an exception: `attempts` is never more than 0 on a valid code, and `VerifiedByNewestCode`
says so. A profile that hides its address is looked up by an address that is not stored, so it is let in once
and then meets the unique index (`ServerErrorsExplained`).

`Goals` is `goal_service.py`. An update writes the fields it was sent and completes the goal if the
object in its session, partly as read before, has reached the target. Reading the details of
an expired goal sets `FAILED` in an endpoint that does not commit: `TypeOK` has no stored `FAILED`.

`Catalogue` is the two ordered lists of a user, assets (`asset_service.py`) and categories
(`category_service.py`). `NextPlace` is where a new row goes, computed from what was read;
`moved` and `disturbed` are history: rows a reorder has placed, and users whose list has got
shorter or who have left a group. A new asset gets the family group its client sends, which nothing compares with
the kind of the asset or with the group of the caller, and only a shared one without it the caller's. A list thus
may hold personal assets of others and shared ones made by people outside the group, and `Permitted`
(`_check_permission`) need not let a user change what is in the list.

`RateLimiter` is `app/core/rate_limit.py`; its calls do not await, so each is one step. A list of
times is a set of numbered admissions, since nothing looks at its order. `admitted`
keeps all of them, and the limit is stated of all windows of it.

`UserData` puts the four side by side: `part`, chosen in the first state, is the module
that moves. `MCAccounts` is its instance.

### What is computed from dates and books (`BillingDates`, `BillingCycles`, `CardBilling`, `Household`, `Partitions`, `Books`, `BooksProofs`)

`BillingCycles` has the calendar of `billing_cycle_utils.py` (the cycle of a date, its payment date).
`CardBilling` has one card, personal or shared, with changing settings, transactions and discounts. A discount
is filed under whatever two days the client sends, also for a card that has no setting yet. Nothing compares them
with a cycle, and a cycle counts the discounts filed under exactly its own first and last day, by the setting the card has when
asked: one filed under other days is in no summary, silently, and so is one whose cycle a change of the start day has
done away with. `AreCycle` is that condition. The summary of a shared card is the caller's own usage less
everybody's discounts. `BillsAddUp` states all of it.

`Household` has the transactions and budgets of users who join and leave one group, and on
them the views of `stats_service.py`, `budget_service.py`, `export_service.py`, `settlement_service.py` and
`ai_analysis_service.py` (`Trends` and `OverBudget`, the figures the language model is told of), written as sums of sets. `Pay` is one round of the loop of `calculate_settlement_transfers`:
the first member who still owes something pays the first who is still owed something, which is what the
two indices of the code point at. `Transfers(diff)` repeats it until one list is at its end.
A transaction whose discount is larger than its amount has an amount paid below 0, so totals may have either sign.
Shares by ratio take `int()` of a product of floats: they are rounded towards 0, and a whole number may come out one
closer to 0, so `low` ranges over the shares that do. Any integers are accepted as a ratio, negative ones included,
as long as their sum is not 0 (division by zero: the request ends). Expenses of somebody who has left stay in the
total of the group but are nobody's share paid: the settlement leaves exactly these, owed or due.

In both modules a request is one step: it writes one row, and what it has read only decides
whether it may. The id of a deleted row may be drawn again: nothing else refers to rows here, so that
books which are the same but for ids already used are one state. A view is taken of one state, although its queries are statements of their own.

`Partitions` is `scripts/create_monthly_partitions.py`, run by cron, on tables made by
`scripts/create_tables.sql`. PostgreSQL refuses a partition for which `DEFAULT` already has rows, so a run that comes
after the first row of a month without partition fails, for both tables, until
the row is gone. The clocks of the program and the database are taken to agree on the month.

`Books` puts these and walks through the dates of `BillingDates` and `BillingCycles` side by side, as
`UserData` does; `MCBooks` is its instance. `YearlyTotal`
(`BillingDates`) is the yearly cost in the summary of subscriptions; a weekly one counts four
weeks a month, and `DatesAgree` bounds by how much a year charges more.

## 4. The runs

Bounds are named in the configurations and in the instance modules `MC...`: `MaxRequests`,
`MaxBatches`, `MaxEdits`, `Ids`, `MaxTime`, `LastOrdinal`, `Months`, and the sizes of the sets. Deadlock is not checked: every behaviour
ends when the bound on its requests is reached, and the system rests when nobody calls it.

| run | asks | bounds, and why they are enough |
|---|---|---|
| `transfers_concurrent` | Do balances go wrong only through outdated rows (`ExactUnlessRaced`)? Which requests can deadlock (`OnlyCrossedTransfersDeadlock`)? Does a transfer whose asset is gone stay (`OrphansAreFrozen`)? Does every request end (`RequestsEnd`)? | One user, two assets, two transfers, two requests at a time, three in all. Every race here is between two commits over one asset, and the third request prepares the rows they race for; two assets in opposite directions give the deadlock. The safety properties are proved for every size. No symmetry, because liveness is checked. |
| `transfers_serial` | Does the API implement `AtomicLedger` (`ImplementsAtomicLedger`), and is the family tag right (`FamilyTransfersAreTagged`), when requests do not overlap? | Two users in and out of one group, one personal and one shared asset, three requests or membership changes: create, change and delete of the same transfer. |
| `transfers_drift` (violation) | Does a delete always restore the balances, as `docs/API.md` says? | As the first run. |
| `family` | Does an `OWNER` always lead the group they founded (`OwnersLead`)? Who can be left in a group that is gone (`StrandedOnlyByLateJoins`)? Do lapsed codes admit anybody (`LapsedCodesAdmitNobody`)? | Two users, two groups, three codes, two requests at a time, four in all: found, join, regenerate and dissolve, with the last two overlapping. |
| `family_doubled` (violation) | Is a user refused who is already in a group? | Two requests of one user. |
| `books` | Is the next billing date the first date the batch recognises, and the yearly cost what a year charges (`DatesAgree`)? Do billing cycles tile the calendar (`CyclesTile`), and do bills count everything once (`BillsAddUp`)? Do the views agree (`ViewsAgree`) and settlements pay what is owed (`SettlementBalances`)? Do partitions keep up (`PartitionsKeepUp`)? | Subscriptions and settings of a card with days from 1 to 31, from every day of fifteen months around 29 February: every month length, both kinds of year, and the turn of the year. One card of two users, start days 1 and 31 (31 has no date in February), three dates around the leap day, amounts of −1 and 3, discounts of 1 and 3, filed under a cycle of either start day, under days out of order or under a cycle and a day, two rows: a discount and the transaction it meets, or two of either. Three users, three rows (transactions or budgets) from both sides of a turn of the year, one of them a refund of 3 (which makes totals of either sign), with every order of members and ratios of up to three, one with a negative part: two debtors or two creditors, and a third who leaves. Settlements do not read budgets and are evaluated where there are none. Two tables, nine months, two months ahead (the script looks three ahead unless told otherwise; `PartitionsAlwaysKeepUp` is for any number): a run may be missed three times. |
| `confirmations` | Is a row confirmed twice only by a race (`ConfirmedOnceUnlessRaced`), and does it name what was made of it (`RowsNameTheirOwn`)? When is a message left without session (`OrphansOnlyByLateAnswers`)? Does every request end (`RequestsEnd`)? | One user, three requests at a time, four in all: two requests make a row, the others confirm it or drop its session while it is confirmed. With one user the refusals for want of ownership do not occur. No symmetry, because liveness is checked. |
| `accounts` | Which registrations and logins end in an error of the server (`ServerErrorsExplained`)? Which code verifies (`VerifiedByNewestCode`)? With which password is something done (`CredentialsInForce`)? Does the limit hold in every window (`LimitHolds`)? When is a goal completed (`CompletedWhenReached`)? Do lists keep their order (`ListsInOrder`)? | One address, two passwords, one attempt (so that a second is one too many), three requests at a time, four in all: register, resend, and two that verify. One client, two calls in windows of 3, eight ticks: more than two windows. Amounts 0 to 2, a goal whose update meets two others. Two users, of which one was registered with defaults, one group, which any asset, personal or shared, may be sent with by either user, or be sent without, one section, two requests at a time, three in all: two inserts that race, or an insert after a delete or a move. |
| `subscription_batch` | Is anything charged or announced twice (`ChargedOnce`, `AnnouncedOnce`) without overlapping calls? Does a call make up for the day before (`CatchesUp`)? | Two subscriptions and names, three calls of which two overlap, two edits, from 27 February to 1 March, where monthly plans meet the end of the month. |
| `subscription_notices` (violation) | Is every payment announced? | One weekly subscription announced seven days ahead. |
| `ceremony` | Do a person's totals follow the events (`PeopleAddUp`), when is a person doubled (`TwinsOnlyByRace`) and what then (`TwinsAreFrozen`)? Which requests can deadlock (`OnlyEditsMeetDeletes`)? Is the amount paid right (`NetAmounts`)? Can a transaction get a second event, or leave its own behind (`EventsFollowTransactions`)? | Two members of one family, one name, two requests at a time, four in all: two creates that race, and an edit and a delete of what they made. |
| `ceremony_totals` (violation) | Are the totals those of the events? | One request at a time. |

Symmetry is used over requests (and users) where only safety is checked and the
constants are interchangeable.

**Fairness.** Two specifications state any. `LFairSpec`: weak fairness of `Proceed(r)`, the step of a
request whose statement can return. The event loop runs a task whose await has
completed; PostgreSQL grants a lock that is free and aborts a deadlocked statement,
which makes the requests that wait for it enabled again. Nothing is assumed of clients,
of `Arrive` or of `Crash`. Weak fairness is enough: a request is disabled only while it
waits for a row, whose holder never waits for it except in a cycle, and a cycle enables
`DeadlockAbort`. `Confirmations!Spec`: weak fairness of `Execute(r)`, for the same reason, and of `Hear(r)`,
because the client of the model (`app/services/bedrock_client.py`) has a read timeout,
after which botocore raises; without it (the mutant of `RequestsEnd`) a silent model
holds the request, and its database session, for ever.

**Mutants.** Each property has an operator next to the definition it mutates, marked
"Mutant:" in its comment, that a plausible bug in the code would give; with it the
property fails.

### Findings

1. `transfers_drift`: `TransferService` writes balances computed in Python from rows it
   read without a lock. A commit in between is overwritten, so `DELETE` does not
   restore the balances (`app/services/transfer_service.py:316`, `docs/API.md:1037`).
2. `family_doubled`: two overlapping requests of one user both pass the membership check
   (`app/services/family_group_service.py:59`); the second replaces a membership already committed.
3. `subscription_notices`: with a notice period longer than the cycle, the notice of one
   payment hides the next (`app/services/subscription_batch_service.py:230`).
4. `ceremony_totals`: an edit of an EVENT transaction leaves the person's totals as they
   were (`app/services/transaction_service.py:243`).

## 5. What is proved

tlapm checks these for every value of the constants and every bound on requests, calls
and edits. The inductive invariants of concurrent requests are modules of their own
(`...Invariant`), so that TLC can check them as well; all hold on the instances of section 4.

| module | theorem | states |
|---|---|---|
| `TransfersProofs` | `TypeCorrect` | `LSpec => []TypeOK` |
| | `BalancesExactUnlessRaced` | `LSpec => []ExactUnlessRaced` |
| | `CrossedTransfersOnly` | `LSpec => []OnlyCrossedTransfersDeadlock` |
| | `OrphansStay` | `LSpec => OrphansAreFrozen` |
| | `TransfersAreTagged` | `LSpec => []FamilyTransfersAreTagged`, for any number of requests at a time |
| | `RequestsAreAtomic` | `LSpec => ImplementsAtomicLedger`, if requests do not overlap |
| `FamilyGroupsProofs` | `TypeCorrect` | `Spec => []TypeOK` |
| | `OwnersAlwaysLead` | `Spec => []OwnersLead` |
| | `OnlyLateJoinsStrand` | `Spec => []StrandedOnlyByLateJoins` |
| | `LapsedCodesStayOut` | `Spec => LapsedCodesAdmitNobody` |
| `SubscriptionBatchProofs` | `TypeCorrect` | `Spec => []TypeOK` |
| | `ServicesAreChargedOnce` | `Spec => []ChargedOnce` |
| | `PaymentsAreAnnouncedOnce` | `Spec => []AnnouncedOnce` |
| | `BatchesCatchUp` | `Spec => CatchesUp` |
| `CeremonyProofs` | `TypeCorrect` | `Spec => []TypeOK` |
| | `TwinsNeedARace` | `Spec => []TwinsOnlyByRace` |
| | `AmountsAreNet` | `Spec => []NetAmounts` |
| | `DeadlocksArePairs` | `Spec => []OnlyEditsMeetDeletes` |
| | `TwinsStayFrozen` | `Spec => TwinsAreFrozen` |
| | `EventsFollow` | `Spec => EventsFollowTransactions` |
| | `TotalsAddUp` | `Spec => []PeopleAddUp` |
| `ConfirmationsProofs` | `TypeCorrect` | `Spec => []TypeOK` |
| | `ConfirmationsAreApart` | `Spec => []ConfirmedOnceUnlessRaced` |
| | `RowsNameWhatTheyMade` | `Spec => []RowsNameTheirOwn` |
| | `OrphansNeedALateAnswer` | `Spec => []OrphansOnlyByLateAnswers` |
| `UserDataProofs` | `TypesAreCorrect` | `PartSpec => []TypesOK` |
| | `ServerErrorsAreExplained` | `PartSpec => []ServerErrorsExplained` |
| | `NewestCodeVerifies` | `PartSpec => []VerifiedByNewestCode` |
| | `CredentialsWereInForce` | `PartSpec => []CredentialsInForce` |
| | `ClosedWhenReached` | `PartSpec => []CompletedWhenReached` |
| | `LimitAlwaysHolds` | `PartSpec => []LimitHolds` |
| | `ListsAreInOrder` | `PartSpec => []ListsInOrder` |
| `Lemmas` | `MidnightsAreDays` | tomorrow is one ordinal later, and its yesterday is today |
| `BooksProofs` | `NextIsFirst` | `NextIsFirstBillingDay(s, ref)` for every schedule and calendar day |
| | `CyclesTileAlways` | `CyclesTileAt(c, d)` for every setting and calendar day from year 2 on |
| | `DatesAlwaysAgree` | `Spec => []DatesAgree` |
| | `CyclesAlwaysTile` | `Spec => []CyclesTile` |
| | `BillsAlwaysAddUp` | `Spec => []BillsAddUp` |
| | `PartitionsAlwaysKeepUp` | `Spec => []PartitionsKeepUp` |
| | `ViewsAlwaysAgree` | `Spec => []ViewsAgree` |
| | `SettlementsAlwaysBalance` | `Spec => []SettlementBalances` |

All safety invariants and action properties of the passing runs are among them. What several of them
need is in `Lemmas`: the calendar, sums and finite sets.

### Transfers

The assumption is `ConstantsAssumption` of `Transfers`: amounts are positive and fees
are not negative (the request schemas), assets have an owner among the users, ids of the two
tables are different, and `Null` is none of the values. TLC evaluates it in each run.

`ExactUnlessRaced` is not inductive. A commit keeps a balance exact only if what
the request computed it from is still true, so the invariant has to speak of every
request in flight. `IInv` (`TransfersInvariant`) is a conjunction:

- `TypeOK`;
- `Shapes`: the arguments of a request fit its operation and its statement;
- `Identities`: an id not drawn yet has no row, and the row of a create in flight is
  nobody else's, so the commit of a create does not overwrite anything;
- `RowsRead`: a transfer keeps its two assets for life, so the row a request has read
  still names the assets it goes on to write;
- `LockDiscipline`: whoever is past a write holds that row's lock and the row exists,
  so no two requests have written one asset, and an asset cannot vanish under a commit;
- `Fresh`: what a request remembers of a row that is not `stale` is what the database holds;
- `ExactUnlessRaced` itself.

The lemmas summarise the steps first (`ArriveIsArrival`, `Moves`, `LockChanges`,
`RowChanges`, `ChangesAreNoticed`); each conjunct has a lemma `...Step` that it is
preserved, and `Invariance` joins them. `OnlyCrossedTransfersDeadlock` follows from
`LockDiscipline`: a source is locked before a target, so a cycle of waits has only
requests at `writeTo`. `OrphansAreFrozen` follows from `Identities`, `RowsRead` and
`LockDiscipline`: a request that could change the row would have read or locked an asset
that is gone.

`FamilyTransfersAreTagged` needs `Authorised`: a create past its checks had the right to transfer, and
neither the owner of an asset nor whether it is shared ever changes. `ImplementsAtomicLedger` is
a refinement of an interleaving by single steps: each commit is one operation of `AtomicLedger`, every
other step a stutter. A commit computes from rows it has read, so the mapped step is that operation only
if they are still true: `UpToDate` (no request has a stale row) is inductive under
`OneAtATime`, which the theorem has as its hypothesis and `MCTransfersSerial.cfg` satisfies; `Sent` keeps the amounts
those of a client. With two requests at a time the implication is false (`transfers_drift`).

### Family groups

The assumption is `FamilyAssumption`: users are not groups, and no value is
`Null`. `OwnersLead` relates two tables that no lock relates, so `IInv`
(`FamilyGroupsInvariant`) says what the requests in flight know:

- `Shapes` and `Identities`, as for transfers: nothing refers to an id that is not used, and
  nothing but its create to a group that is being created;
- `LockDiscipline`: a group written by a regenerate exists until the commit, one written by a
  dissolve is locked by it;
- `DissolvesReach`: a dissolve has cleared, or has still to visit, every member of
  its group except those whose join overlapped it (`late`); with empty `rows` at the
  commit this is `StrandedOnlyByLateJoins` for the new state;
- `OwnersInTime`: founders are never `late`, so a dissolve clears them;
- `LapsesLast`: what has lapsed stays lapsed, and a join past its lookup holds a code that
  had not lapsed when it began; this is `LapsedCodesAdmitNobody`.

### Subscription batches

The assumption is `BatchAssumption`: plans and targets are dates and schedules, the first day is
not in year 1 (which has no yesterday before it). The theorems are not inductive, because a call
inserts rows that others see only at its commit. `BInv` (`SubscriptionBatchInvariant`) adds

- `Numbers`: calls in flight have different numbers and are in `overlapped` pairwise;
- `Work`: what a call inserts carries its number;
- `ChargesApart` and `NoticesApart`: what a call has inserted does not double anything
  committed, unless the calls overlapped, nor anything it has inserted itself;
- `Periods`: a notice was written within `notify_before_days` of its payment and not in
  the future, so the period that `exists_for_subscription_period` looks at contains it.
  This is where the ordinals come in: midnight moves `today` while a call is under way.

`CatchesUp` follows from `NothingMissed`: whatever a call without target date has loaded and found due,
yesterday or on its day, is still to be done, or is charged (`Settled`), or a user has deleted the charge
since (`removed`).

### Transactions and people

The assumption is `CeremonyAssumption`: what clients send has its type, and an EVENT comes with
an event. `LInv` (`CeremonyInvariant`) has

- `Shapes`, `Numbers`, `Unborn`: a request is at a statement that fits what it has read; those in
  flight together are in `overlapped`; no row bears or names the number of a request that has not ended;
- `Locks`: no row is locked twice, and rows are locked in the order of the statement a request is at:
  people before an event, a delete's event before the transaction, an update's after it. A cycle of waits can
  then only be an update that holds a transaction and a delete that holds its event: `OnlyEditsMeetDeletes`;
- `Targets`: an update that has locked its transaction finds it there;
- `OneEvent`, `Gone`, `NoneYet`, `LeftBehind`: the events of a transaction and what requests have read of
  them. `OneEvent` is kept because an update that adds one holds the transaction;
- `Looking`: a person a request has found is there, and one that it will insert has no rows but of
  requests in flight with it: `TwinsOnlyByRace`.

`TotalsInv` is on top: the events are finitely many, and `ReadOf`, what a delete knows of the event it takes
off the totals. Totals are sums over sets that change by one row or event, so the proof
needs what `SumFunctionOnSet` does when an element is added, removed or changed (`Lemmas`). That function
is defined through `CHOOSE` and a recursive function; `SumsExist` shows that one exists for each finite
set, by `FS_Induction` over a set of subsets instead of an operator, and that its value does not depend on the order in
which elements are chosen.

This proof failed at first, for a reason: `PeopleAddUp` was false beyond the bounds of the run. A delete
reads its transaction, then the event. If one edit makes the transaction something else than an EVENT and
renames the event in between, and another turns it back, the row the delete finds at its commit is the one it has read,
and the totals of the wrong person are reduced; TLC finds this with five requests. `OffByDelete` now counts
a delete whose event has been changed as one on the strength of outdated rows.

### Receipt scans and chat

The assumption is `ConfirmationsAssumption` (`Null` is no value). `CInv` (`ConfirmationsInvariant`) has
`Shapes`, `Numbers` and `Unborn` as above, and

- `Kinds`: a number is that of a scan or that of a message, even after the message is gone;
- `Admitted`: what a confirmation has found is what the row still says, except for its transaction;
- `MadeSince`: a transaction made from the row since a confirmation found it without one, was made by
  a request in flight with it: with this, its commit keeps `ConfirmedOnceUnlessRaced`;
- `Unseen`: messages that the delete of a session has not seen are answers, or were confirmed, by
  requests in flight with it;
- `SendsVanished`, `ConfirmsVanished`: a session that is gone although a request in flight has found
  it was deleted by one that overlapped it. These give `OrphansOnlyByLateAnswers`.

### A user's own data

`PartSpec` moves one part at a time, so each proof is about one module and the others stutter. The assumptions are those of
the modules: limits are natural numbers, edits have their type, `Null` is no value, those registered are
finitely many.

- `Accounts` (`AInv`). `Numbers`: a request overlaps each one that begins before its end. `Found`,
  `MadeSince`: an account that was found is still there and of its kind, one that was not has been made by a request in
  flight with this one (`ServerErrorsExplained`). `Credentials` is `CredentialsInForce` for a request
  before its commit. For codes: `CodesFit` (a valid code has no attempt on record), `Holds`, `Spared` (what
  a resend has not seen was committed after what it has seen), `Superseded` (of two codes, the older valid and the newer
  not: the requests overlapped) and `Newest` (`VerifiedByNewestCode` before the commit).
- `Goals` (`IInv`). `ClosedForGood`: a goal is completed exactly from the commit named in `closedBy`; with
  `Shapes` (an update has read an open goal) and `InFlightTogether`, another update of it has overlapped that commit.
- `RateLimiter` (`Remembered`). The list kept for a client is part of its admissions and has all
  that are inside the window. A window that ends now has then at most as many as the list, and an older one does not
  change: an admission bears the time of the clock.
- `Catalogue` (`CInv`). A place is found by one statement and written by a commit, so `AssetsBehind` and
  `CategoriesBehind` follow it: it lies behind all rows that were there when the request began, and it is no more than the
  length of the list, which is what the next one counts from. `GroupKept` says that the list counted is the user's
  own as long as it is not `disturbed`. The steps are summarised by what they leave alone (`RequestsStay`,
  `AssetsStay`, `CategoriesStay`, `ListsGrow`).

### Dates, cards, books and partitions

`Date` is every record of a year, a month and a day, `CalendarDay` the ones that exist. The assumptions are `WalkAssumption`
(schedules, settings and days are such, and a walk does not begin in year 1), `CardAssumption`
(rows and dates are finitely many, days of the month and amounts have their type, a discount is not below 0 but an
amount may be, and the dates of transactions and the first days that discounts are filed under lie after year 1), `BookAssumption` (rows are
finitely many; what is recorded has a calendar date after year 1, an integer amount, a category and an area),
`RatioAssumption` (a ratio is a list of integers whose sum is not 0) and `PartitionsAssumption`.

- **Billing dates**: `PlusFields` (adding days stays in the month or enters the
  next), `LeapDaysGrow` (the leap-day count moves by one exactly in leap years), and
  `OrdinalOfPlus` (the ordinal of a date `k` days later is `k` more) give
  the weekdays of the weekly schedules; monthly and yearly ones compare fields. The days of a year are counted by
  their ordinals, of which there are 365 or 366: a monthly schedule meets 12 of them, a yearly one 1, a weekly
  one 52 or 53, whatever the price. `WalkInv` is all the induction there is: a walk stays on the calendar.
- **Billing cycles**: months are numbered (`MonthNo`), and a date lies in the cycle of one number
  (`LiesSomewhere`, `CycleIsWhereItLies`); that of the next number starts where it ends (`CycleEnds`).
  A payment date is the first due date from a day on (`PaymentIsFirst`), which orders them.
- **Bills**: `CardInv` says what rows may be; of the days of a discount it only says that the first is a
  date. Two dates that share a transaction or a discount are shown one cycle (`OneCycle`, `BilledOnce`, `CountedOnce`). Each transaction
  is in the cycle of its own date. The cycle shown for a date has the days `AreCycle` asks for (`CyclesAreWhole`), and two days that
  are as it asks are the cycle shown for the first (`WholeIsShown`): the discounts of `FiledNow`, whose days are a cycle
  by the present setting, are each in some bill (`CountedSomewhere`), and no others are in any (`CountedAreKept`). The bills
  thus cut the transactions, and these discounts, into parts, and a sum over parts is the sum over all (`SumOfParts`).
- **Books**: `BookInv` says what rows may be, and that the members are finitely many; that is inductive, and the views
  are functions of one state, so that `ViewsAgree` follows from it. A view adds up amounts over a set
  of transactions. The proof names these sets (`Spent`, `Shared`, `Kept`, and what the week and the year select), shows that
  each query selects one of them although its dates are computed by code of its own (`InTheMonth`, `MonthBefore`,
  `InTheYear`, `DaysOfWeek`), and then only compares sums: over the values of a field (`BreakdownAddsUp`, from
  `SumByKey` of `Lemmas`), over the months of a year (`YearAddsUp`), the days of a week (`WeekAddsUp`), the
  members (`MembersAddUp`) and the categories of budgets (`BudgetsCountOnce`). `MinusThenPlus` is what the weekly view
  rests on: going back to Monday and forth again ends on the same day, also across the end of a month or year.
- **Settlements**: `Settlement` is shown for any number of members, any amounts and any ratio. That equal shares
  add up is an induction over the members. Of shares by ratio only the last is not rounded, and it gets
  what is left of the total, so that they add up by the sum of two functions which differ at one place (`SumsDifferBy`);
  that they bear the sign of the total needs that each lies between 0 and its exact part (`ShareBounds`), and that the
  sum of the exact parts is the total (`SumOfProducts`). The transfers are a walk, and `Walking` is its invariant: what is left of
  a difference lies between it and 0 and is just what the payments made so far leave of it, the differences keep
  their sum, and payments made and accounts still open are together no more than the members. The last part is needed for the
  bound on the transfers, and to know that the walk is finished after as many rounds as members: each payment closes an account, and the
  last one closes two (`AfterPayment`, `PayOnce`). At the end nobody owes or nobody is owed (`Finished`).
- **Partitions**: `ChatInv`: stray rows are of a month that is over or the present one, and no run that has
  succeeded was to prepare their partition (`Strays`, `InStep`). For any number of months ahead, the months of a run
  are numbered as above.

### Only model-checked

- `RequestsEnd` of `Transfers` and of `Confirmations`: liveness under fairness is out of the prover's reach.

Every other property of a passing run has a theorem above. Functions that the model defines recursively (the walk of a
settlement, the months of a run, sums) are no `RECURSIVE` operators: one lemma shows that the function exists, another is an
induction over its domain, with a set of numbers in place of a predicate (`SetOfNaturals`). That a real
product of floats falls short of a whole number by no more than `low` allows is not proved: it holds while totals are far
below 2^53.

## 6. What is left out, and why

- **Transfers**: lists and details only read. Dates, descriptions and the paging of
  lists do not meet a balance. Balances are unbounded integers here: PostgreSQL raises
  where an `INTEGER` overflows, which is one of the failures `Crash` stands for.
- **Assets**: names and the activity flag. What a user is seeded with is the first state of
  `Catalogue`, whose lists do not share rows with `Transfers`: balances and places do not meet.
- **Subscriptions**: permissions and marking notices as read.
  `start_date` and `end_date` matter to the batch only where its code looks at them.
  A `PUT /transactions/{id}` that makes a charge look like another is left out.
- **Transactions**: details of CAR transactions (one row that goes with its transaction), and the
  pages of lists: a page is a range of rows ordered by date, whose ties PostgreSQL may
  order differently from page to page. Family membership does not
  change in `CeremonyLedger`; its changes are `FamilyGroups`' subject.
- **Accounts**: the profile, and the refresh of tokens, which writes nothing. Two codes do not happen
  to have the same digits. Signing and hashing are taken to do what they promise.
- **Confirmations**: what the model extracts is reduced to whether it is complete.
- **Statistics, settlement**: percentages, rounded for display; the summary of ceremonies; formats
  of files. Views are of one state (section 3).
- **Rate limiter**: lists of idle clients are never removed; several processes would have a limiter each.
- **Partitions**: the conversion of existing tables by the migration, done once with the program stopped.
- **Not to be modelled**: the notifications API and AI feedbacks (single-row writes), the prompts
  of AI analysis and uploads (I/O with services outside, no state of their own), configuration, tokens, error
  mapping and health (stateless).

## 7. Plan

Order: what moves money or membership first, then what may happen twice, then pure
algorithms.

1. *(done)* `Transfers` with its abstract ledger and proofs; `FamilyGroups`;
   `BillingDates` and `SubscriptionBatch`; `CeremonyLedger`.
2. *(done)* `Confirmations`: what turns something pending into a transaction by read, check and
   write, with a model call in between.
3. *(done)* `Accounts`, `Goals`, `Catalogue`: a user's own rows under concurrent requests.
4. *(done)* Pure computations and their books: `RateLimiter`, `CardBilling`, `Household`, `Partitions`.
5. *(done)* Proofs about these.

Composition: `CeremonyLedger` and `SubscriptionBatch` share the transactions table
through the charges; `Transfers` and `FamilyGroups` share `users.family_group_id`, which
`Transfers` moves freely (`ChangeFamily`).

No invariant of a run is left without a theorem. What could be added is in section 6: the parts of the
API that only read, and the conversion of the chat tables by the migration.
