# Booking engine: verification project

The booking engine reserves meeting rooms. A Go server keeps rooms, users, bookings and
waitlists in PostgreSQL, lists of free rooms in Redis, and tells a second process, the
notifier, through a Kafka topic what happens to bookings. This directory holds TLA+ models
of the parts where order, concurrency and failure matter, the TLC configurations that check
them on small instances, and proofs of the main results for instances of every size.

## 1. Inventory

| Component | State | Operations | Interacts with |
|---|---|---|---|
| **Reservation store** `repository/booking.go`, `waitlist.go`, `repository.go` | tables `bookings`, `waitlist_entries` | CreateChecked, CancelAndOfferWaitlist, Approve, RejectAndOfferWaitlist, ListPendingApprovals (a sweep), Waitlist.Create, ConfirmAndBook, ExpireAndOfferNext, DeleteAndOfferNext; each a serializable transaction, all but CreateChecked repeated up to ten times | called by the two services |
| **Booking service** `service/booking.go` | none of its own; a request holds the row it read | Create, Cancel, ForceCancel, Approve, Reject, ListPendingApprovals; GetAvailableRooms, weekly report | store, rooms, cache, publisher |
| **Waitlist service** `service/waitlist.go` | as above | Join, Confirm, Leave, ListByRoom | store, rooms, cache, publisher |
| **Rooms** `service/room.go`, `repository/room.go` | table `rooms` | Create, Update (read, change, write back), Delete (check, then delete), searches, availability, statistics | store (foreign keys, capacity, status) |
| **Room cache** `cache/redis.go` | Redis keys `rooms:available:*` with a TTL | get, set, invalidate everything | booking and waitlist services |
| **Event publisher** `events/kafka.go` | topic `booking.events` | Publish, after the commit, best effort | services; the notifier reads |
| **Notifier** `notifications/consumer.go`, `dispatcher.go`, `cmd/notifier` | committed offset, `processed_events`, `notification_dead_letter` | fetch, look up, plan, deliver with retries, file a dead letter, mark, commit | topic, users, bookings |
| **Handlers, auth, users, tracing, wiring** | none that matters | decode, authorise, render | everything above |

What makes each component correct:

- *Store*: no two bookings that hold a slot of a room overlap; a freed slot goes to the queue in the
  same transaction, once, to the right entry; positions order the queue; a booking or entry only
  moves forward through its statuses.
- *Services*: a check on a row read earlier never lets a wrong transition through; each transition
  has one author, who reports it once; time limits are judged the same way on every path.
- *Notifier*: no notification vanishes silently; a processed event is not sent twice; one bad message
  does not block the rest.
- *Rooms*: no row outlives its room; a change of a room is undone only by a change that was made at the
  same time; a booking follows the rules of its room.
- *Listings*: the queries that look at one fact from different sides agree; a report shows each booking once.
- *Cache*: a list of free rooms is not older than the code promises.

What is hard here: a request reads, checks and only later commits, while others commit and time passes;
expiry of offers and approvals is lazy (no worker runs); one sweep frees several slots at once; positions
and offers are made again and again; transactions work on snapshots, pass over locked rows and are repeated;
a room changes under a request that has read it; events leave after the commit, from concurrent requests, or never;
the notifier is restarted, interrupted and rebalanced between any two of its steps. `PROJECT.json` lists
each of these under `hazards`, at its line, with the properties that cover it.

## 2. Modules

```
SlotLedger                 what the engine promises: an abstract ledger of slots
   ^ refinement (LedgerSpec)
Reservations               the store: tables and transactions          Reservations_proofs
   ^ refinement (StoreSpec)    ^ the same, statement by statement
   |                       Transactions                                 Transactions_proofs
   +-- BookingService      both services: concurrent requests, events  BookingService_proofs
   +-- Listings            queries and reports over the tables          Listings_proofs
          RoomService      rooms that change under their bookings      RoomService_proofs
Notifier                   consumer and dispatcher                      Notifier_proofs
RoomCache                  lists of free rooms in Redis                 RoomCache_proofs
MC*                        instances for TLC
```

### SlotLedger
`held` maps the reservations that hold a slot to it, `released` remembers those that did. `Reserve`
takes a free slot under a fresh identity, `Release` gives any number of them up. Nothing else happens.

### Reservations
`bookings` and `waitlist` are the two tables, as functions from the ids in use to rows; `now` is the
clock. One action per repository method; the method's whole transaction is one step. `OfferNextSlot` is
`offerNextSlot`, which four transactions call on the slot they free. `ListPendingApprovals` is the sweep: it
rejects every overdue booking in the order of age (`SweepOrders`; ties in any order, as in SQL) and makes
an offer for each from what the ones before left (`SweepOffers`). A method that rolls back or updates no row
is a disabled action; its answer appears in `BookingService`.

Abstractions: a user, a room, an id is a model value; an interval is a pair of numbers; titles and
equipment are left out; the database's clock (`created_at`) and the server's are the same clock, which does
not go back; the reason of a rejection is the administrator's or the timeout's. A booking's `createdAt`
anchors the approval timeout as in `model.Booking`. The clock is read in the step that commits, where the code
reads it just before the transaction: the `offered_at` that `Offer` writes, and the cutoff of a sweep, may in truth
be older by the duration of one transaction, so an offer may be that much shorter.

Transactions are atomic. PostgreSQL's serializable isolation justifies that for what commits, with one
exception, which `Transactions` examines: `FOR UPDATE SKIP LOCKED` may pass over an entry that a transaction
still in progress has locked, and if that one fails for good the queue was served out of order. So
`NoOvertaking` is claimed for transactions that do not fail in this way, and `FairButForLocks` for all.

### Transactions
What `Reservations` takes for one step is a transaction here. `tx[s]` is what session `s` does: an attempt at a
call, with the snapshot it works on, the rows it has still to lock, the rows whose slots it has still to give to the
queue, the rows it holds and those it has read. `LockRow` is the conditional `UPDATE` or `DELETE` of the call's row
(for a sweep, of one after the other, in the order of its `SELECT ... FOR UPDATE`); `OfferNext` is `offerNextSlot`;
`Commit` makes the changes; `Conflict` is `errRollback`. `Fail` is a serialization failure or a deadlock, after which
`Retry` begins anew with a new snapshot, the same clock and the same captured variables, until `Attempts` has no more;
`CreateChecked` has one attempt. `Die` is a lost connection. The tables are changed by `Commit` alone, since nobody
sees a transaction's changes before.

PostgreSQL is modelled by what the code relies on. `Dirty`: a row that was changed after the snapshot cannot be
written. `LockedByOther`: nor can a row that another writes, until that one ends; `SKIP LOCKED` does without it.
`Serializable`: a transaction does not commit if that completes a dangerous structure of read-write conflicts
with transactions that have committed. PostgreSQL aborts more than that, and sometimes others of the three;
`Fail` covers what it aborts beyond, since any transaction may fail at any time. Conflicts are found by rows
and, for predicates, by table, as in PostgreSQL when it scans a table; with an index it may find fewer conflicts
and commit where the model does not. That bookings and positions are safe then rests on serializability itself,
which is PostgreSQL's to keep. A `COMMIT` whose answer is lost is not told from one that was never made: no
caller asks. `passed` is a history variable: the entries that a committed offer passed over because their row
was locked.

### BookingService
Extends `Reservations` with requests in flight. `request[q]` is what request `q` does next: nothing, a
transaction with its arguments (its checks have passed), publishing events, or the one answer a property
is about. Each service method is split where the code lets go of the database: the read and the checks
(`CreateStart`, `CancelStart`, ...), the transaction (`Create`, `Cancel`, ...), the publication (`Publish`).
Between these any other request may take any step and the clock may tick. `Abandon` ends a request anywhere:
the process dies, the router's 30 seconds pass, or the transaction fails for good (with `CreateChecked` after
one serialization failure); its unpublished events are `lost`. Refused requests change nothing and are
no steps. `spent` keeps waitlist ids from being used again after `DELETE`, as UUIDs are not.

`Cancel` and `ForceCancel` share a transaction and differ in their checks. `ApproveStart` turns into a
rejection when the booking is too old, `ConfirmStart` into an expiry, as in the code. A manager's right to
cancel is `Manages`; capacity and status of rooms are constants here and change in `RoomService`. The room cache is
invalidated between commit and publication; it does not feed back into bookings and is left to its own module.

### Listings
The queries and the reports, as operators over the tables and `rooms`; nothing here takes a step. Each SQL predicate
is translated on its own, though several mean the same: whether they do is what `QueriesAgree` asks. Names are numbers,
because only their order matters; optional parameters are sets with at most one member. `Orders` are the orders that
`ORDER BY name` allows, each page of a list being a query of its own. `GoDiv` is Go's division, which rounds toward
zero. A `Day` is 2 units long in the instances, so that there are bookings within one and across midnight.

### RoomService
The requests on rooms, and the two that read a room before they book it, each cut between what it reads and what it
writes: no transaction spans the two. `UpdateCommit` writes every column; `DeleteCommit` fails when any row of either
table refers to the room, as the foreign keys say; `CreateCommit` and `ConfirmCommit` run the store's transaction by the
rules of the row that was read. `OperatorSets` is the only way a room goes out of service, since no request sets the
status. `asked`, `torn` and `gone` are history: what was last asked of each field; the fields that the last update wrote
back although the row said something else by then; the rooms that were deleted. The other transactions of the store may
take place at any time.

`BookedByTheRules` ties every new booking to one request (`MadeFor`): the room, the status and the approval follow from
what that request itself read when it began, and what it read was the room as it stood. That the room may have
changed since is what the code allows (a row is read, then a booking inserted); that no booking goes by anything else, or
by two readings, is what is checked.

### Notifier
One instance on one partition (`KAFKA_AUTO_CREATE_TOPICS_ENABLE` creates the topic with the broker's default).
`Log` is the partition; `position` is where its reader stands, `hand` the message that is worked on, `committed` the
group's offset. The loop of `Consumer.Run` and `Dispatcher.Handle` is walked by `pc`. Every call to PostgreSQL or Kafka
may fail, by a fault from `Faults`, because SIGTERM has cancelled the context, or because it cancels it while the call
lasts (`Fails`); a write whose call failed may have been made all the same, unless the context was cancelled before
(`MayWrite`). `Crash`, `Sigterm` and `Rebalance` strike anywhere. `Restart` and `Rebalance` take the reader to the
committed offset; kafka-go rebalances in goroutines of its own, so the message in hand goes on, and its commit may then
move the offset forth, over messages that come again, or back. The attempts of one delivery are one step with two
outcomes. `unsaved` and `skipped` record what the code only writes to its log: the dead letters that the last pass over an
event failed to save while the process was not told to stop, and the messages whose last handling failed. A stop in the
middle of the deliveries excuses nobody: the event cannot be marked any more, and the pass after the restart starts from
all its recipients.

### RoomCache
`cache` holds the keys of Redis, one per window that was searched, each with the rows of the rooms listed; `rooms` (the
rows, of which only the status is told apart from the rest, the `content`) and `busy` are what the database knows.
A search that misses is three steps (`Miss`, `Query`, `Fill`), an invalidation is a number of batches of `Scan` and
one `Delete`, after a `Commit` that already happened. Any of them may be the last of its request (`SearchEnds`,
`InvalidationFails`). `RoomCreate`, `RoomUpdate` and `RoomDelete` are an administrator's requests, `StatusChange` is the
operator's statement, or an update that writes an old status back: none of the four invalidates. What
`service.Room.Update` reads before it writes is in `RoomService`; here any content may follow any other. `Expire` is the
TTL. What a booking does to the windows is a free choice of a room and of windows, because the cache
does not look at bookings: it is the same for a booking made, cancelled, rejected or converted. A sweep of several
bookings is several changes. `astray` is a history variable: the windows whose list is stale for a reason that no
request in flight will mend. A search in the service passes no filter, so a list depends on the window alone. A room
may be deleted while a booking of it is made; that race is in `RoomService`.

### Faults in the modules
An operator `X_Fault` above an operator `X` is `X` with a mistake. No action uses it; put in the place of `X`
it makes TLC refute the property it is listed with in `PROJECT.json` (`mutants`), which shows that the property
can fail.

## 3. Runs

| Run | Instance | Distinct states | Checks |
|---|---|---|---|
| `overlap` | 2 rooms, 1 user, 2 bookings, 2 entries; the hours before and after midnight of a Sunday, and both | 214 000 | TypeOK, NoDoubleBooking, OffersArePaidFor, LifecycleForward, ReportsAreTrue, NothingFallsBetween, WeeksTile |
| `queue` | 1 room, 2 users, 3 bookings, 3 entries; one hour | 483 000 | PositionsDistinct, NoOvertaking, NoStrandedWaiter, LedgerSpec |
| `locks` | 2 sessions, 3 calls, 2 attempts each; 1 room, 2 users, 2 slots; 2 bookings and 2 entries to begin with, 2 bookings and 1 entry to come | 770 000 | NoDoubleBooking, PositionsDistinct, FairButForLocks, NoDeadlock, ReturnsWhatCommitted |
| `rooms` | 2 requests, 2 rooms, 3 changes of rooms; 2 bookings and 1 entry of one hour | 186 000 | RoomsTypeOK, NoOrphans, AsLastAsked, QueriesAgree, PagesTile, DeletedStaysDeleted, BookedByTheRules |
| `approval` | 2 requests; a large room, a member and an administrator, 2 bookings, 1 entry | 1 030 000 | ServiceTypeOK, ReportedOnce, ReportedTruly, RefusedTruly, TimeoutIsTrue, ApprovedInTime, StoreSpec |
| `waitlist` | 2 requests; a small room, 2 bookings, 2 entries | 365 000 | ReportedOnce, ReportedTruly, OfferIsKept |
| `notifier` | 5 messages: to the owner, poison, to two administrators, unknown, a duplicate; 3 faults of any kind | 296 000 | TypeOK, NothingVanishes, QuietOnceProcessed, AllSettled |
| `room_cache` | 1 room with 2 contents, 2 windows, 2 searches, 2 invalidations, 2 changes | 841 000 | TypeOK, StaleForAReason, EventuallyFresh |

Bounds. `Horizon = 1` with timeouts of 0: the only things the code asks of time are whether a limit has passed
and whether a start lies ahead, and with two instants both answers occur, on both sides of every check.
`MaxPosition` bounds how far the counter of positions climbs. Two bookings and two entries are the least that
compete for a slot; three of each let the queue be served twice and let positions be reused. Two requests are
the least that race; the proofs carry the results to any number. `MaxLost` limits the events that die,
`MaxFaults` the disturbances of the notifier: three suffice for a skip, a stop and a rebalance about one event.
Ids, users and requests are interchangeable, so symmetry is used, but not in the runs that check liveness.
In `room_cache`, `MaxChanges = 2` lets one change, of a booking or of the room, overtake a search and another its
invalidation; two windows let a scan pass one key while the other is filled. In `rooms`, `MaxChanges = 3` lets two
updates and a creation, or a creation, a change and a deletion, be of one room, and two administrators change different fields of it; the rooms lie at the
threshold, so that one seat more changes the rules; two rooms of one name and pages of one and of two put namesakes on one
page and across the end of one.
In `locks` two sessions are the least that conflict, the third call is the one that comes between or after; a
dangerous structure needs two concurrent transactions and a third that committed first. Two attempts show what
ten do: one that fails, one that follows it. The run begins where the store can be after four calls (two
bookings, two joins), or after two more (the first booking approved or not, then cancelled, its slot on offer),
because the calls that lead there would exhaust the bound; the two bookings differ in age, and `Horizon = 2`
makes both overdue in the end. `CHECK_DEADLOCK FALSE` is set, but for `room_cache`, because the models stop when
the clock, the ids, the calls or the log are used up; the cache never does.

Fairness. `AllSettled` of `Notifier` is checked under weak fairness of `Step`: the consumer's loop
never rests while it can move, and `restart: unless-stopped` in `docker-compose.yml` brings the process back.
Crashes, signals and rebalances are not fair and are finite in number. `EventuallyFresh` of `RoomCache` needs that
every search ends (the router gives a request 30 seconds, `handler.go`) and that every entry expires (`cache.TTL`);
invalidations need not get through. The server has nothing fair about it:
offers and approvals expire when somebody asks, so "an offer eventually ends" is not true of this code.

### Where code and documents disagree

| Run | What happens | What is written |
|---|---|---|
| `late_reject` | a rejection that is asked for after the approval timed out is accepted | `large-room-approval/spec.md:166` |
| `skip_locked` | a cancellation passes over the first entry, whose row a departure holds that then dies: the second is offered the slot, the first waits on | `booking-waitlist/spec.md:91-93`, `repository/waitlist.go:251` |
| `event_order` | `cancelled` is published before `created` | `events/kafka.go:37-39` |
| `handle_fails` | an event whose handling failed is lost once the next one commits | `consumer.go:76`, `notifications/spec.md:95` |

Each is a run that TLC ends with a counterexample. `NothingVanishes` states what the notifier does keep: what is
lost was reported in its log. `ApprovedInTime` states that approvals keep the rule that rejections do not.
`FairButForLocks` states what is kept of the order of the queue.

Four more were met and have no run. SIGTERM cancels the context of the message in hand as well (`cmd/notifier/main.go:82`,
`notifications/consumer.go:63`): its calls fail, it is not marked, its offset is as a rule not committed, and after the
restart it is handled again, whereas `notifications/spec.md:20-23` says that the notifier "завершает обработку текущего
события, коммитит его offset". In `Notifier` that is `HandleFails` while `stopping`, and `NothingVanishes` shows that a
message interrupted so is lost only if the offset of a later one is committed before the restart.
`Waitlist.Confirm` makes a confirmed booking of a large room without approval,
which `booking-waitlist/spec.md:112-120` asks for and `model.go:36` and `service/waitlist.go:189` speak against.
Cancelling a rejected booking answers "already cancelled" (`service/booking.go:243`); `RefusedTruly` states what is
true of that answer: the booking has no slot left. Deleting a room that has only past or cancelled bookings fails on
the foreign key, with an internal error, though `docs/test-scenarios.md:106` promises 204 for a room without active
ones; in the model the deletion is given up.

## 4. Proofs

The proofs assume `SlotsAssumption` (intervals are not empty, as `validateInterval` ensures),
`BoundsAssumption`, `ServiceAssumption`, `CacheAssumption`, `ListingsAssumption`, `RoomsAssumption`, `SessionsAssumption`
(bounds are numbers, sets are what they are sets of), for the transactions `IdsAssumption` (an id of a booking, `b-`,
is not one of an entry, `wl-`: `service/booking.go:173`, `service/waitlist.go:108`) and, for the notifier,
`NotifierAssumption` and `KeyAssumption`: nothing about the sizes of the constants. Every invariant was checked by TLC
on the instance of its run, and so were the inductive ones, before it was proved.

`Reservations_proofs`:

1. `HeadOfCandidates`, `OfferEffect`, `NextPositionIsLast`: what the helpers return.
2. `OfferNextSlotServes`, `SweepServes`: an offer, and a sweep of many, serve the head of the candidates of each
   freed slot and touch nothing else. `BookingStep` and `WaitlistStep` then describe any transaction by what it
   books, releases, joins, offers and passes on. These two descriptions, not ten actions, are what the
   invariants are proved from.
3. `TypeCorrect`, `NeverDoubleBooked`, `QueueIsOrdered`, `QueueIsFair`, `NobodyIsStranded`: each invariant is
   inductive together with those before it. `NoOvertaking` needs `PositionsDistinct` (the head of the queue must
   be strictly ahead of the others); `NoStrandedWaiter` needs that whatever ceases to be booked or on offer is
   offered in the same step to a candidate, if there is one, and that a join asks for a booked slot.
4. `ImplementsLedger`: initial states map to the empty ledger, every step to a `Reserve`, a `Release` or a stutter.
5. `NothingComesBack`: what a step may do to one booking (`BookingForward`) and to one entry (`EntryForward`), with
   the reason, the creation and the time of the offer, on which the services' proofs rest.

6. `NoOfferForNothing`: tables are finite (`FiniteTables`), whatever the sets of ids, and each new offer is mapped to
   a booking or an offer of its own whose slot it takes (`PaidByBookings`, `PaidByOffers`); for a sweep the map is the
   choice of heads, which serves no entry twice.

What the invariants are proved from is stated of the tables alone (`BookingsChange`, `QueuesChange`, and the lemmas
`StaysWellFormed`, `StaysSingle`, `StaysOrdered`, `LedgerChange`), so that `Transactions_proofs` uses it too.

`Transactions_proofs`:

1. One lemma for each action says what it does to the sessions (`BeginEffect`, `LockRowEffect`, `OfferNextEffect`,
   `CommitEffect`, `CloseEffect`), one for each call what its commit does to the tables (`BookCommit`, `AnswerCommit`,
   `SweepCommit`, `ServeCommit`, `JoinCommit`).
2. The inductive invariant `TxInv` says of each open transaction what its snapshot still tells of the tables
   (`SinceOK`): rows that nobody has committed since (`Dirty`) are as they were, others have only moved forward, and
   there are no new ones unless somebody wrote to the table. To this it adds what the call found (`FoundOK`), what it has
   read (`ReadsOK`), how far it has come (`ProgressOK`), that nobody else has written or can write what it holds
   (`HeldOK`), and that calls bring ids of their own (`RequestsOK`).
3. A commit then knows that the rows it changes are as its snapshot has them (`AtCommit`), and that a table in which it
   looked for rows and to which it adds one has got no other (`NoNewRows`): whoever adds a row has looked for rows as
   well (`PastOK`), and two who did both are not serializable. `TransactionsNeverDoubleBook`, `TransactionsKeepOrder`,
   `TransactionsMoveForward` and `TransactionsImplementLedger` follow by the lemmas about the tables. Without
   serializability they fail, which a mutant shows (`Serializable_RepeatableRead`).
4. `NeverDeadlocked`: what a sweep has locked is older than what it has still to lock (`SweepsByAge`), so along a circle
   of waiting sessions the bookings that are waited for would get younger and younger, but no age is beyond the clock
   (`Smallest`: a set of numbers has a least one).
5. `ReturnsAreTrue`: the captured variables are at every step what the attempt has done so far (`ResultsTrue`).
6. `UnfairOnlyForLocks` has an invariant of its own (`FairInv`). `OffersOK`: a slot that was given away went to somebody, or
   nobody was left. `NewcomersOK`: an entry that a snapshot does not have joined behind all it has, by a transaction
   that had read what this one gives up, or had itself been overtaken. `CoverOK`: a slot for which a transaction joins is in
   use, or the join will not commit. The last two are where dangerous structures come in: to give up a slot while
   an entry joins the queue for it would take two conflicts in a row (`GivesUpNothing`, `JoinsCovered`).

`BookingService_proofs`:

1. Every step of a request is a step of the store or leaves it alone (`StartStep`, `CommitStep`, `PublishStep`), so
   `ServiceSpec` implements `Spec` and inherits the store's theorems.
2. `NobodyTimesOutEarly` and `NobodyLosesAnOfferEarly` rest on the invariant `CallsAreTrue`: a call in flight that
   rejects for age or expires an offer is right about the age, and stays right, because the clock moves forward,
   `createdAt` never changes, and an entry is offered a slot once. For the last, ids of entries must not be used
   again (`SpentStep`); with an id reused, an old expiry would hit a young offer.
   `NobodyApprovesTooLate` compares the check of `ApproveStart` with the predicate of the sweep, at the boundary.
3. `NobodyReportsTwice` and `ReportsAreTrue` are inductive together: a transition is news because an event that told
   it before would have been true (`TrueEvent`), and the row shows that it is not.
4. `NobodyIsRefusedInError`: a request that was told so found the booking without a slot, and `BookingForward` says
   that it has none since.

`RoomService_proofs`:

1. `StoreStep`: every step is a step of the store or leaves it alone, so the store's theorems hold of bookings in rooms
   that come and go (`RoomsImplementStore`, `RoomsNeverDoubleBooked`).
2. The inductive invariant is `RoomsIInv`. `NothingIsOrphaned` needs more than the foreign keys: a confirmation
   that has read its entry books the entry's room, so the entry it names, if it is still there, must be one of the
   room it read (`EntriesNamed`), and no other entry may get its id (`Named`).
3. `OnlyStaleFieldsDiffer` follows the fields of a row through `Merge`: an update that read a field as it still is
   changes it only if that was asked for; where the row has changed since, every field that it has otherwise than the row,
   and was not asked for, becomes `torn`.
4. `NoRoomComesBack` is an action property, by one case per action. So is `RoomsAreBookedByTheRules`: `ReadsTheRoom` says
   that a request begins with the room as it stands, `CreateMadeFor` and `ConfirmMadeFor` that the booking a commit adds is
   the one its own request asked for; nothing else adds any.

`Listings_proofs`, about the tables and rooms of `RoomsSpec`, whatever requests have made of them:

1. `QueriesAlwaysAgree` holds wherever rows are well formed and their intervals not empty; `NothingEverFallsBetween`
   counts a subset.
2. `ReportsAreAlwaysTrue` and `WeeksAlwaysTile` come down to Go's division (`GoDiv`) and to the Monday of a date, on both
   sides of the epoch: a day has one date, a date one week.
3. `PagesAlwaysTile`: in any order by name the place of a room lies between the number of rooms with smaller names and the
   number with names not greater (`PositionByName`), so its page lies between theirs; there is such an order
   (`SomeOrder`, from the rank by name and ties broken in any way). Names need not differ.

`Notifier_proofs`: `NeverRepeated` from `Unprocessed` (the event in hand is not a processed one, between lookup and
mark). `NothingEverVanishes` from `Progress`, which speaks of messages that are handled, that is marked as processed or
of a kind with nothing to do, because that lasts, whereas a dead letter reported missing is reported anew by the next
pass. The recipients of what is processed are accounted for, and what is committed and not skipped is handled
(`Recorded`); a consumer that runs has handled all that its reader has passed, but for the skipped ones and the one in
hand (`InOrder`); what lies before the message in hand, and will be covered by its commit, is handled or skipped,
wherever a rebalance has taken the reader meanwhile, and whoever is not left to notify is accounted for while the context
is alive (`InHand`). `InOrder` cannot be had of a stopped consumer, which is why the offset matters. `KeyAssumption` says
that one key means one event.

`RoomCache_proofs`: `StaleHasAReason` by one case per action from the type invariant. The cases that matter are
`Scan`, where a window leaves `left` only to enter `found` if it has a key, `Delete`, which ends a request's
responsibility only for keys it removed, and the four changes of rooms (`RoomChange`), none of which invalidates.

Only model-checked: liveness, `AllSettled` and `EventuallyFresh`, which is out of the prover's reach. Every invariant and
every action property of the passing runs is a theorem. That `RoomService` implements the store is proved and has no run of its own. What the runs that end with a counterexample
show needs no proof.

## 5. Not modelled

Partitions of the topic: the broker creates it with one. Handlers, authentication, users, tracing,
configuration and the tools keep no state that the rest depends on. The plain `Booking.Cancel` and `Waitlist.Delete` of
the repository are called by no service.
That every call succeeds in the end is not claimed: after ten attempts the code gives up, and so does the model.

## 6. Plan

In order of importance; 1 to 7 are done.

1. `SlotLedger`, `Reservations`, their refinement and proofs.
2. `BookingService`: concurrent requests, stale reads, events.
3. `Notifier`: delivery with failures and restarts.
4. `RoomCache`: query, fill, scan, delete and expiry as separate steps.
5. `Transactions`: row locks, SKIP LOCKED, aborts and the limit on attempts.
6. `RoomService`: rooms that change, and their proofs.
7. `Listings`: queries, reports and statistics against each other.
8. `EventTopic`: the publisher with several partitions and the balancer, feeding `Notifier`.
