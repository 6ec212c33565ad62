# SmartClean: specifications and proofs

SmartClean is a dispatch service for cleaning jobs: hosts post orders, cleaners
take them, and both follow the orders on a web page. The server is FastAPI on
four uvicorn workers (`docker-compose.prod.yml:64`), with PostgreSQL for the
tables and Redis for caches, publish/subscribe and counters. There are no tests
in the repository; the reference is the code under `src/app`, and the pages under
`src/static` show which requests clients send.

## 1. Inventory

| Component | State | Operations | Talks to |
|---|---|---|---|
| Order transactions: `api/orders.py`, `order_status.py`, `upload.py`, `models.py`, `core/database.py` | rows of `orders`, row locks, one transaction per request | create, accept, put, status, cancel, upload, delete; commit, rollback and close in `get_db` | cleaners (foreign key, `total_jobs`), cache, WebSocket manager, Redis accept script |
| Cleaners: `api/cleaners.py` | rows of `cleaners` | create, location, status, delete | orders (unassigns them) |
| Two-level cache: `core/cache.py` | an in-process TTL cache per worker, keys in Redis | get, set, delete by pattern | filled by the two list endpoints, cleared by the writers of orders |
| WebSocket manager: `core/websocket.py` | sockets by channel and by cleaner, one subscription per worker | connect, disconnect, broadcast, dispatch, notify, listen | Redis publish/subscribe; called by the writers of orders |
| Rate limiter: `core/rate_limit.py` | a counter per client in Redis and one in each process, a blacklist | check, block, unblock | the HTTP middleware of `main.py` |
| Idempotency keys: `core/idempotency.py` | results and locks in Redis | check, save, process | nothing calls it |
| Mobile fault tolerance: `core/mobile_ft.py` | sessions in the process and in Redis, message queues | register, ping, time out, queue, replay, fetch | nothing imports it |
| Redis accept script: `core/accept_script.py` | a hash per order in Redis | accept (Lua), sync | `create_order` syncs; nothing accepts through it |
| Accounts: `api/auth.py`, `hosts.py`, `properties.py` | users, codes, properties | register, login, logout, create, delete | orders and cleaners (foreign keys) |
| Uploads: `api/upload.py`, `core/s3.py` | files in the container or in a bucket, the photo list of each order | store, append, serve | orders (their lists), `PUT` of orders |
| Statistics: `api/stats.py` | none | five reports of several queries each | orders, cleaners, properties |
| Background tasks: `tasks/`, `core/worker.py` | the arq queue | expand the search, cancel an order | cannot be loaded, and is never given a task |
| Reads and I/O: geo search, monitoring, geocoding, notifications, static pages | counters | reads, calls of services | |

What is hard in it: requests run concurrently in four processes and, inside one,
interleave at every `await`; most endpoints read a row without a lock and write it
later; the cache and the sockets are told about a COMMIT after it, in steps that
can fail, be overtaken or be lost with the process. What makes each part correct:

* **Order transactions**: an order is accepted at most once per opening; an
  accept works on an order that stays open under it; the foreign keys hold; no
  lock outlives its transaction; every request is answered; a stale object's
  flush does not undo another request's columns.
* **Cache**: a list that is served is at most a known time old; a list that is
  wrong in Redis after a write has one of a few known causes; caches converge when
  writes stop; a write is visible when it was answered (it is not).
* **WebSocket manager**: a worker with clients is subscribed (it may not be); a
  connected cleaner is reachable by id; a client hears of every published change.
* **Rate limiter**: no more requests per window than the limit, and none refused
  below it.
* **Accounts**: a row names accounts that exist; a delete takes an account out of
  all its rows or none; a code leads to one account; deletes do not block each other.
* **Uploads**: a url leads to a file; uploads to one order add up.
* **Statistics**: the numbers of a report agree; each order is counted once; a
  completed order has its time.
* **Idempotency and accept script**: requests with one key are processed one at a
  time; one cleaner is told that the order is theirs; keys in Redis end.
* **Mobile**: no message is lost or repeated across a reconnect.

`PROJECT.json` lists the hazards line by line. Four more lines can surprise and
need no model to be seen: `orders.py:247` reads a variable before its assignment, so
the timeout task of an order is never enqueued; `order_status.py:58` commits before
it looks at the number of rows, so a completion of an order that does not exist can
credit a cleaner (it is the answer 404 of `StatusAnswer` in `OrderTx`); `main.py:78` lets
logins and requests for orders share one counter; and `mobile_ft.py:209` fetches and
deletes a queue in two calls, in code that nothing imports.

## 2. Plan

Order of work, most important behaviour first.

1. `OrderTx` (all writers of orders as transactions), refining `OrderClaim`, with
   `OrderTxDocs` and `OrderTxProofs`: section 3.
2. `OrderCache` (L1 per worker, L2 in Redis, fills, clears, TTLs), with the writers
   of orders as its environment: section 4.
3. `WsManager` (the channel, the tables of cleaners, starting and stopping to listen,
   broadcasts over a live set): section 5.
4. `RateLimit` (the Redis counter and the list of each process): section 6.
5. `Accounts` (codes, hosts, cleaners and properties with the foreign keys to
   orders), refining `HostTable`: section 7.
6. `Stats` (reports over orders that change): section 8.
7. `RedisAccept` (idempotency keys around the accept script): section 9.
8. `Uploads` (files and the lists that name them): section 10.

All of these are done, and each has a `...Proofs` module, which proves every invariant,
action property and refinement that a passing run checks. What stays with TLC is liveness:
`EveryRequestAnswered`, `EventuallyFresh`, `MessageArrives`, `RefusalEnds` and
`RequestsEnd` speak of fairness, and TLAPS does not reason about ENABLED. Runs are kept few: one for each question. What could come next: the
composition of `WsManager` with `OrderTx`'s `Finish`, that is, what a client has heard
when an accept is answered.

## 3. Orders: `OrderTx`

### State and steps

A *handler* is a request in progress in some worker. It is cut where it awaits
the database, so that between two of its actions any other handler may step.
`row` and `jobs` are the committed tables, `ordLock` and `clLock` the row locks,
`chg` the column values the session will write, `pc` where the handler stands:

| `pc` | the handler |
|---|---|
| `idle` | is not in use |
| `loaded` | has loaded its rows without a lock and changed the objects |
| `credited` | has updated the cleaner's `total_jobs` (autoflush), not yet the order |
| `scanning` | is in the `UPDATE orders SET cleaner_id = NULL` of `delete_cleaner` |
| `locked` | has its locks, and COMMIT is next |
| `committed` | has committed; refresh, broadcast and cache clears follow |
| `aborting` | is leaving with an exception; `get_db` has yet to roll back |
| `replied` | has answered |

The endpoints are the actions `CreateCheck`, `CreateCommit`, `CreateRefused`;
`AcceptSelect`; `PutSelect`, `CancelSelect`, `UploadSelect`, `DeleteSelect`, which
share `CommitUnchanged`, `FlushLock`, `FlushCommit` and `DeleteCommit`;
`StatusSelect`, `StatusCredit`, `StatusLock`, `StatusCommit`; `UnassignSelect`,
`UnassignLock`, `UnassignDone`, `CleanerCommit`. `Rollback`, `Close` and `Finish`
end a request; `Crash` is the death of the worker; `DeadlockAbort` is PostgreSQL's.

PostgreSQL and SQLAlchemy are external. What is assumed of them: READ COMMITTED;
a statement that waited for a row's lock looks at the row again; locks last until
the transaction ends; SKIP LOCKED returns no row for a locked one; a flush writes
the columns that differ from the loaded ones; an UPDATE of a row that is gone
raises for an object and changes nothing for a query; a foreign key is checked
against committed rows; one transaction of a cycle is aborted.

Abstractions:

* Only locks another handler can notice are kept. The key-share locks of foreign
  key checks, and the time from the last statement to COMMIT, are part of the
  committing action.
* A database error frees the locks at once (`Abort`); a Python exception keeps them
  until `get_db` rolls back (`Raise`, then `Rollback`).
* Columns nothing depends on (price, notes, timestamps, `accepted_by_host`) are one
  flag, `touch`: whether such a column makes the flush send an UPDATE.
* The order in which `delete_cleaner`'s UPDATE visits rows is open.
* An id that a failed INSERT used up is not tracked; it is as good as one that was
  never handed out.
* PUT can clear `checkout_time` with null but not set it: the driver refuses the
  string that JSON brings, and the handler answers 500 (`PutSelect`'s error branch).
* Broadcasts and cache clears leave the tables alone. They can fail with Redis
  after COMMIT, which `Finish` keeps as an error answer.
* GET endpoints are reads.
* `delete_host` (`api/hosts.py`) is in `Accounts`: it clears the host columns of a
  host's orders and changes no status, version or cleaner, but it locks the rows, which
  an accept takes for missing orders meanwhile, and it is one more party to a deadlock.
  `DeadlockNeedsDeleteCleaner` speaks of the endpoints modelled here,
  `DeadlockNeedsSharedRows` of deletes among each other.
* The photo lists are a column like the others here; what becomes of the photos in
  them is `Uploads`.

### Properties and runs

`OrderClaim` is the abstract table: orders appear once, a claim takes an order that
is open and moves its version, every other endpoint overwrites columns in one step
and leaves the version. `ClaimsRefined` says that `OrderTx` implements it under the
mapping `row <- row, ever <- used`. `AcceptGives` ties the claims to the requests: a version
moves only in the COMMIT of an accept, and the order is then that of the cleaner who
asked, although the session leaves `cleaner_id` out of the UPDATE if it was that
cleaner's when the row was loaded.

| Run | Checks | Instance | States |
|---|---|---|---|
| `OrderTxAll` | `TypeOK`, `AcceptHolds`, `NoLockLeak`, `IInv`, `ClaimsRefined`, `AcceptGives` | every endpoint; 1 order, 1 cleaner, 2 handlers, 1 photo | 600 000 |
| `OrderTxLive` | `OneWinner`, `CleanerExists`, `DeadlockNeedsDeleteCleaner`, `EveryRequestAnswered` | create, accept, status, delete_cleaner; 2 orders, 2 handlers | 201 000 |
| `OrderTxCancel` | `CompletedNotCancelled` is violated | create, status, cancel | |
| `OrderTxDuplicate` | `OneOpenOrderPerSlot` is violated | create, 2 orders, 1 slot | |
| `OrderTxGrab` | `GrabIsExclusive` is violated | create, put, 2 cleaners | |

Bounds. `MaxVersion`: no accept is sent beyond this version; 2 lets an order be
won, reopened and won again. `MaxJobs`: no credit beyond this count. `Orders` are
the ids the serial can hand out, so an order can be deleted but not replaced by one
with the same id, as in the database. Two handlers suffice for the conflict
of any two endpoints, and the theorems say the same of any number; `OrderTxLive`
adds a second order for the deadlock, which needs rows of both tables locked in
two orders, and for a race of accepts beside it. `OrderTxAll` lets clients set
the statuses open and completed: open is what can undo an accept, completed
is what credits. Requests are symmetric, and `RequestSymmetry` is used in the runs
without liveness. Crashes are in all of them.

Fairness (`OrderTxLive` only): weak for the steps that wait for nothing, because the
event loop resumes every coroutine whose await is over; strong for the steps that
wait for a lock, because PostgreSQL queues the waiters of a row and the lock is
freed again and again; weak for the deadlock detector. No client has to send
anything, and `Crash` is not fair.

The three violation runs are disagreements between the code and its own words:

* `cancel_order` says a completed order cannot be cancelled, and checks that
  without a lock.
* `create_order` says a property has one open order per time, and checks that
  without a lock or a constraint.
* the cleaner's page announces "already taken" to whoever was slower, and grabs
  through PUT, which does not look at the status; the locked endpoint `accept_order`
  is not what the page calls.

A completion also adds to `total_jobs` by writing a count that it loaded without a
lock (`StatusCredit`), so that one of two concurrent credits is lost. That is in the
behaviours of `OrderTxAll`; the code promises no exact count, and no run asks for one.

### Proofs

`OrderTxProofs` proves, for any sets of orders, cleaners, handlers, slots and
photos and any bounds, under the five assumptions of `OrderTx` (the endpoints and
statuses are real ones, the bounds are numbers, `NULL` and `Keep` are none of the
values): `TypeCorrect`, `AcceptHoldsAlways`, `OneWinnerAlways`,
`CleanerExistsAlways`, `NoLockLeakAlways`, `DeadlockAlways`, `AcceptGivesAlways` and
`Refinement`.

They all follow from one inductive invariant, `IInv`. `AcceptHolds` alone is not
inductive: that an accept's order is still open at COMMIT holds because whoever
commits an order holds its lock (`WriterOK`), because the lock's holder is in a
transaction about that very order (`OrderLockOK`), and because only an accept
writes a version (`AcceptOK`). `OneWinner` further needs that no pending change
reopens an order that was won (`WinnerOK`). `CleanerExists` needs that the
rows a `delete_cleaner` has locked are still the cleaner's when it unassigns them.
`DeadlockAlways` needs that a handler that waits for an order's lock holds at most
a cleaner's lock, which is what `CleanerLockOK` and `OrderLockOK` say: without a
delete_cleaner the waits go from cleaners to orders and never back.
The proof has one lemma for each action and part of the invariant it can disturb.
`AcceptGivesAlways` needs that a column which an accept leaves out is still right at
COMMIT (`AcceptOK`): a cleaner who is deleted meanwhile cannot be taken off the locked
order, and the foreign key refuses the delete.

`Refinement` is `Spec => ClaimsRefined`: accept's COMMIT is a `Claim`, the other flushes
are an `Overwrite`, delete_cleaner's COMMIT is an `Unassign` because the rows it did not
lock do not name the cleaner (or the foreign key refuses it), and all other steps leave
the table alone.

Liveness and fairness stay with TLC. Nothing in these modules is recursive.

## 4. Lists of orders: `OrderCache`

`list_orders` and `get_cleaner_orders` keep their answers in two caches: a
`TTLCache` in each worker (L1) and a key in Redis (L2). A *key* stands for one set
of query parameters; `Sheets` are the keys with the prefix `cleaner_orders`.

A reader goes through `Read` (L1), `ReadL2`, then `RefillL1` on a hit or `Query`,
`StoreL1`, `StoreL2` on a miss, and `Reply`. Between `Query` and `StoreL1`,
`list_orders` asks Redis for the distance of each order whose property has coordinates,
one after the other (`orders.py:105-117`, `geo.py:44`): `Distance` is one such question. A writer is its `Commit` and then, for
each prefix its endpoint clears, `Sweep` (L1 at once, SCAN begins), `SweepDelete` and
`SweepEnd`. `RedisFails` and `Crash` end them anywhere they wait. `Tick` is time:
copies grow old and expire, and answers under way grow old too.

Abstractions:

* A list is the number of commits that have changed it: two copies are equal if
  no commit that changes the list lies between them. A copy also has its `age`,
  the ticks since the database was asked, and what is `left` of its lifetime.
* The writers of `OrderTx` are one action, `Commit`, that changes any set of lists;
  create changes no cleaner's list, because a new order has no cleaner.
* `Clears` says which prefixes an endpoint clears: create, accept and put both,
  delete only `orders:*`, the others none.
* `delete_pattern` removes the L1 keys that contain the text `orders:*`: none does (`Contains`).
* `ttl_l1` of `set_cache` is not used by the code, so `L1TTL` is the `TTLCache`'s five
  seconds although `orders.py:177` speaks of two.
* SCAN meets every key that is there from its beginning to its end, and may meet
  others. Redis' patterns match whole keys, so `orders:*` does not match
  `cleaner_orders:...`.
* `MaxWait` bounds one answer of Redis or the database; for Redis the code has a
  timeout of two seconds (`websocket.py:29-30`). Between two waits no time passes.
* `MaxPlaces` bounds the orders of one list that have coordinates. `Distances` is how
  many questions a key can cost: none for `get_cleaner_orders`. If Redis fails, the
  distance is computed, so the handler goes on either way. The distances depend on
  the cleaner's position, which is part of the key, and not on the orders.
* `list_orders` counts and lists in two statements; that a commit may lie between
  them is not modelled.
* `cached`, `cache_with_lock` and `delete_cache` are called by nothing.

| Run | Checks | Instance | States |
|---|---|---|---|
| `OrderCache` | `StaleBounded`, `L2StaleExcused`, `CacheInv`, `EventuallyFresh` | a key of each prefix, 1 worker, 2 requests, 1 order with coordinates, put and status | 938 000 |

Lifetimes and waits of one tick suffice for every order of expiry and arrival; one
place in L1 makes eviction happen; one commit per list makes stale what was read
before it; one distance makes the fill of a list longer than that of the other. Put clears both prefixes and
status none; what the other endpoints do lies between these two: create and accept clear
like put, delete one prefix like put and leaves the other like status. The theorems hold for all values.

`StaleBounded` is the promise that is left when clearing fails: nothing served is
older than L1's and L2's lifetimes, the waits of the fill (`Gathering`: the database, and
Redis once for each order with coordinates), the wait to store it and that of the
reader who found it in Redis. The bound thus grows with the list: a page of many orders
that is asked for with a position, while Redis is slow, is old before it is stored. `L2StaleExcused` says
that a wrong list in Redis is one that a writer is about to delete, or has a cause
in the history variable `excused`: a fill that a commit overtook, a writer that
clears nothing, a writer that could not go on. `EventuallyFresh` says that the caches
agree with the database after the last write; it assumes that time passes (`Tick`)
and that every await ends (`Step`), and no request. The comment "clear at once, do
not wait for the TTL" promises more: it is false of L1, where `Contains` finds no key
that holds the text `orders:*`, so that a worker serves the old list for L1's lifetime
after it has answered the writer.

`OrderCacheProofs` proves type correctness, `StaleBounded` and `L2StaleExcused` from `CacheInv`.
`StaleBounded` is not inductive: it needs that a copy's age plus what is left of it
is bounded in each level (`L1OK`, `L2OK`), which expiry keeps and storing
establishes from the age of what a handler holds (`HandlerOK`): while distances are
asked for, that age is one wait for the database and each distance that is through. For
`L2StaleExcused` each step is split by who owes the deletion of a key before and after.
`EventuallyFresh` is TLC's.

## 5. Sockets: `WsManager`

Each worker has a `ConnectionManager`: the sockets of the channel `orders`, two tables
between cleaners and sockets, and at most one Redis subscription for all of them.
Inside a worker everything runs in one event loop and is cut where it awaits. The
pubsub object and the listen task that a connect makes, and the stop task that a
disconnect makes, are named after the socket.

| Code | Actions |
|---|---|
| `connect`, `start_listening` | `Connect`, then `Subscribed` or `SubscribeFails` |
| the socket's handler in `orders.py` | `ClientLeaves`, `Disconnect`, `HandlerRaises` |
| `stop_listening`, a task | `StopBegin`, `StopClose`, `StopEnd` |
| `listen`, a task | `ListenBegin`, `ListenTake`, `ListenSend`, `ListenFails`, `ListenReconnects`, `ListenEnd` |
| `broadcast`, called by the writers of orders | `CastBegin`, `CastSend`, `CastRaise`, `CastDrop`, `CastPublish` |

What the model takes from the code's details: a channel's first socket is the only
one that starts to listen; `self.pubsub` is read when the listen task first runs,
and closed and forgotten as whatever it is when the stop task goes on; the bare
`except` around `send_json` swallows a cancellation; no `try` is around the read in
`listen` (`websocket.py:240`), which has the client's timeout of two seconds
(`websocket.py:30`), so that silence or a lost connection can end the task, and nothing starts
it again; a socket whose handler ends with
another exception than `WebSocketDisconnect`, or whose `connect` fails, stays in the
tables; a broadcast iterates over the live set and raises when its size has changed,
and takes the sockets that failed out of the channel without `disconnect`.

External: Redis delivers a message to every subscribed object; UNSUBSCRIBE and close
end a subscription when they are sent; what a second reader of one pubsub object gets is
open. What a read that fails does next is redis-py's: version 5.2 closes the connection
and raises, which is `ListenFails` and then `ListenEnd`; later ones may connect and
subscribe again before they give up, which is `ListenReconnects`. `requirements.txt:14` allows
both, and so does the model, with neither of them fair. What a broken connection held is
lost. `Failing` is the set of Redis calls that can fail; a read can time out whether
it is in there or not, when nothing is there to be read. A worker that dies takes its
clients and its manager with it, which is a worker that takes no further step; its
successor begins like a worker nobody has used. A socket is used once. A broadcast's
message is a model value; that local clients get it from `broadcast` and again
from their own worker's subscription is not told apart (`heard` is a set).

| Run | Checks | Instance | States |
|---|---|---|---|
| `WsManager` | `ListensUnlessDisturbed`, `TablesAgree`, `WsInv`, `MessageArrives` | 2 workers, 2 sockets, 1 cleaner, 1 broadcast, every call fails, reads too | 735 000 |

Two sockets are enough for a stop to meet a start, for a second client that joins or
leaves under a broadcast, and for two connections of one cleaner; two workers for
a message that comes from elsewhere. The system stops when all sockets are used, so
deadlock is not checked. Fairness: every await ends. No client has to come, go or
send anything, no call has to fail or to time out, and no connection to be made again.

The comments say that the first connection starts to listen and the last one stops.
A worker can be deaf all the same, in three ways. A read fails or times out: with
redis-py 5.2 two quiet seconds are enough, `pubsub_task` still names the task that has
ended, and the worker hears nothing until its last client has left and another one
comes. The stop of the last client throws away the subscription of the next one, without
any failure; as the channel is then not empty, no later client starts another. Or the
start itself fails. `ListensUnlessDisturbed` says that this is the whole story: a
worker with clients is deaf only after a read of its pubsub object failed (the object is
`"lost"`), or a start met a stop or an old subscription (one left by a failed stop, or by
a channel that a broadcast emptied), or failed; and it has two tasks that hear in the
latter cases only. `disturbed` is the history of these meetings. While the object is
lost, the tables still name the task and the object, so that the next stop closes what
it should.
`TablesAgree` says likewise that a cleaner's id leads to the cleaner's socket unless
two connections of the cleaner overlapped: the late disconnect of the old one then
removes the mapping of the new one. `MessageArrives` says that a message that has
reached an undisturbed worker's subscription is sent to every client there, unless the
connection that holds it breaks. A timeout does not take it: a message that is there is
read.

`WsManagerProofs` proves the three invariants for any sets of workers, sockets,
cleaners and broadcasts, from `WsInv`: what belongs to a worker names sockets of that
worker (`HomeOK`), and `ListeningOK`, the life of a subscription in an undisturbed
worker. Its heart is that a channel with clients has no stop under way and has
either a start under way or a listen task; that a start finds no task; that the task,
its object and what it reads are those of one socket; that a task which has ended and is
still the worker's has lost its object; and that whatever else ever listened reads a
closed object. `MessageArrives` is TLC's.

## 6. Requests of a client: `RateLimit`

The middleware of `main.py` asks `check_rate_limit` before every login, order and
upload request. The model has one client (the key is its address), its requests in
progress, one list of time stamps per process and the counter in Redis.

| Code of `check_rate_limit` | Actions |
|---|---|
| `now`, before the first await | `Arrive` |
| GET, and INCR of the violations | `Ask`, `Refuse`, `AskFails` |
| the list, under the lock | `Look` |
| INCR, EXPIRE, in both branches | `Count`, `Expire`, `CountFails`, `ExpireFails` |

`Tick` is time for the list, the counter and the requests; `Evict` is Redis short of
memory (`docker-compose.prod.yml:49`); `Crash` is the death of a process. A call that
fails may have reached Redis or not. `get_redis` makes a client object without asking
Redis, so it does not fail.

Abstractions: a stamp is known by its age, so a list is a function from ages to
numbers (`listed`); a stamp that is too old for every possible `now` is left out.
`since` is how old a request's `now` is. A request that goes on without Redis' answer
is `seen = FALSE`, whether GET failed or the INCR of the violations, which the same
bare `except` covers. The violations' own counter is read by nobody. The blacklist is
written by nobody. That a request's work after the check takes time is left out.

| Run | Checks | Instance | States |
|---|---|---|---|
| `RateLimit` | `WorkerBound`, `CounterBounded`, `CounterExpires`, `RateInv`, `RefusalEnds` | 1 process, 2 requests, limits 1 and 2, window 2, wait 1 | 115 000 |

Two requests of one process meet in the lock, at the counter, and with different
limits; the window is longer than the wait, so that stamps can be old and still
count. Requests of two processes differ from these in not sharing a list and a lock:
what they share is the counter, and what is said of it is proved for any number of
processes and requests. `MaxBlind` bounds how many requests are counted that Redis
did not answer. Fairness: time passes, every await ends, and `asyncio.Lock` serves
its waiters in order (strong for `Look`). Nobody has to ask.

`WorkerBound` is what the list is for, over time stamps that are taken before the
awaits and listed after them, out of order: no process lets more than the largest limit
through in a window less the longest wait. `admitted` is the history it speaks of. Three
more processes have lists of their own, so the bound of the service is four times that,
and the counter is there to lower it. `CounterBounded` says by how much the
unlocked look at the counter can fail: by the requests in progress, and by those that
Redis did not answer (`blind`). `CounterExpires` says that a counter which Redis would
keep for ever has a request that is about to give it its lifetime, or lost it to a
failure (`orphaned`); such a counter at its limit refuses the client until another
request renews it or Redis evicts it. `RefusalEnds` says that short of these two failures a
counter at the largest limit is dropped in the end, although the client goes on asking,
because a refusal does not renew it. The same does not hold of the smaller limit:
requests for orders renew the counter that refuses logins.

"A window of 60 seconds" and "per minute" is not what the counter does: each request
renews its lifetime, so it forgets only a client that has paused for a window, and a
client that stays below the limit in every minute is refused in the end.

`RateLimitProofs` proves type correctness, `RateInv`, `CounterBounded`, `CounterExpires` and
`WorkerBound`, for any processes, requests and bounds. `CounterBounded` is not
inductive: those that saw room and have not counted yet are part of it (`CountOK`), and a
request that has not asked yet must not be one of them (`RequestOK`). `LockOK` says that
no answer and no death leaves the lock taken. For `WorkerBound` the list is compared with
the history (`ListOK`): a list is never longer than the largest limit, and whoever was
let through up to `n` moments ago is in it with a stamp that is older by its wait at most, so
the admitted of the last `n` moments are among the stamps of the last `n + MaxWait`.
`Total` counts by a set of pairs, not by a recursive sum, so that sizes of finite sets are
all the proof needs; how `Look`, `Tick` and the cut of old stamps move these pairs are its
lemmas. `RefusalEnds` stays with TLC.

## 7. Accounts and the rows that name them: `Accounts`

`code` is the tables of hosts and cleaners (an account's code, `Unborn` or `Deleted`),
`host` and `cleaner` are the columns of properties and orders that name them, `lock`
the row locks. A handler that the database can interrupt is cut at its statements.

| Code | Actions |
|---|---|
| `register` | `Draw` (a code that no account has), then `Register` or `RegisterRefused` |
| `create_host`, `create_cleaner` | `CreateAccount`, with a code that is not looked for |
| `create_property`, `create_order` | `EnterRow` |
| the endpoints of `OrderTx` that set a cleaner; `delete_order` | `AssignOrder`, `DropOrder` |
| `delete_host` | `DeleteBegin` (UPDATE of properties), `LockRow`, `ClearOrders` (UPDATE of orders), `LockRow`, `SelectAccount`, `DeleteCommit` |
| `delete_cleaner` | `DeleteBegin` (UPDATE of orders), `LockRow`, `SelectAccount`, `DeleteCommit` |
| `get_db` | `Rollback` |
| PostgreSQL, the process | `DeadlockAbort`, `Crash` |

Abstractions: what the rows of another transaction will be is seen at its COMMIT, so
an UPDATE keeps the locks it has and its new values appear with `DeleteCommit`. A
single INSERT or UPDATE with its COMMIT is one step, guarded by the foreign key.
Codes of six characters are never those of eight. The phone of a registration decides
between `Register` and `RegisterRefused` and is left out, as are names, locations and
the status of a cleaner, which no handler here reads. An id is handed out once. Login
compares a code that was loaded and changes nothing; logout changes nothing.

`HostTable` is the abstract specification: accounts open, rows enter, are assigned and
dropped, and `Close` takes an account and all mentions of it in one step.
`TableImplemented` says that `Accounts` implements it.

| Run | Checks | Instance | States |
|---|---|---|---|
| `Accounts` | `References`, `SharedCodeExcused`, `DeadlockNeedsSharedRows`, `AccountsInv`, `TableImplemented` | 2 hosts, 1 cleaner, 1 property, 2 orders, 2 handlers, a code of each kind | 1 365 000 |

Two handlers and three rows suffice for a deadlock of a delete_cleaner and a
delete_host (two orders of both), of two deletes of one host, and for a row that
is inserted under a delete; two hosts for deletes that must not meet; one long code for
two registrations that draw the same. There is no fairness: nothing here is about
what happens in the end, and `OrderTxLive` shows that requests that wait for locks
are answered.

`References` is what is left of the deletes' UPDATEs when rows arrive between them and the
DELETE: the foreign key refuses the DELETE (`Dangling`), and `get_db` undoes the UPDATEs.
`SharedCodeExcused` says when `verify_host_code` can find two accounts for a code:
the table has no unique constraint, so a code is shared if nobody looked, or if two
registrations looked before either inserted (`raced`). `DeadlockNeedsSharedRows` says
that a circle of waits has a `delete_cleaner` in it, or two deletes of one host:
deletes of hosts go through the same tables, but their rows are disjoint.

`AccountsProofs` proves `AccountsInv`, `References`, `SharedCodeExcused`,
`DeadlockNeedsSharedRows` and `TableImplemented` for any tables, codes and requests, from the
assumptions that the tables' ids, the two kinds of codes and the marks are different.
`SharedCodeExcused` needs to know what registrations under way have drawn (`DrawOK`);
`DeadlockNeedsSharedRows` that a row which a delete of a host still waits for has that host,
none, or is gone (`DeleteOK`), and that a locked row names its holder's account (`LockOK`).
For `TableImplemented` each step is mapped: `Register` and `CreateAccount` are an `Open`,
`DeleteCommit` is a `Close`, or, if another request has deleted the account, changes nothing,
because by `References` no row names it any more.

## 8. Reports: `Stats`

A report is a sequence of SELECTs (`Plan`), each of which sees what is committed when
it starts. The requests that change orders are here by what they commit. One report at a
time is enough, because a report changes nothing. `CreateOrder`, `AcceptOrder`,
`SetStatus`, `PutStatus`, `PutName`, `Cancel`, `DeleteOrder` and `DeleteCleaner` are the writers; `Ask`,
`Select`, `CountOfCleaner`, `CountOfProperty` and `Reply` are the five handlers of
`api/stats.py`; `Tick` is the clock, with `Day` moments in a day.

Left out, because nothing writes what they read: numbers by `created_at` (the column is
never set, so today's orders and the trend are always empty), the total revenue and
average price of properties (constant), `accepted_jobs`. Also numbers that stand alone:
orders by hour, the busiest cleaners, how many cleaners and properties there are.

A price is whatever number the client sends (`orders.py:33`, `orders.py:381`), below 0 too:
`Prices` lies between `-MaxCredit` and `MaxPrice`, both free. Prices are whole units
here, so that a sum does not depend on the order of its parts; the rounding of floats, and
`NaN` and the infinities, of which no sum is a number, are left out. `now()` in the database
is the time at which a transaction began (`Begun`), which may be one moment, and so a
midnight, before its COMMIT. `update_order` is two actions, because it dates a completion by
the text of the status: `PutStatus` has the status by its value, or none, and `PutName` by the
name that the enum has for it. A status that is already the loaded one is not written,
the time is, and another request may have changed the status meanwhile.

| Run | Checks | Instance | States |
|---|---|---|---|
| `Stats` | `StatsInv`, `ReportsAgree`, `CountedOnce`, `DatedByCompletion` | 2 orders, 2 cleaners, 1 property, prices -1 and 2, 2 periods, 2 moments, 1 change during a report | 709 000 |

`LastMoment` bounds the clock: two moments with a day of one give a midnight, which can come
between any two statements. The period of the dashboard then begins with the first moment, so
that no order was completed before it; the revenue reports have periods that leave either
day out, and the proofs have all clocks.
`MaxMoved` bounds the changes during one report; one is enough for two numbers to
disagree, and each property allows exactly as much as was changed, so a second change
would be allowed for as well. `Spans` are the periods that clients ask for: one that
ends before the last moment and one that begins after the first. A price of each sign lets
revenues of fewer orders be above those of more. Two orders are enough to move from one row of a list to
another while the rows are counted.

`ReportsAgree` relates the numbers of one report to each other: open and completed orders
fit into the total, today's completions into all, the days add up to the period, the
statuses and the properties to all orders, with an error of one order, or of the span of
prices (`Worth`), for each change since the report began (`moved`). Today's revenue is part
of the period's, and that part of all revenue, but with prices below 0 the part may be the
larger one: an order of -5 completed yesterday and one of 10 today make 10 today and
5 in all. `Within` says by how much: by `MaxCredit` for each completed order that is not of
today (`Earlier`). With no price below 0 this is nothing. `CountedOnce` says of lists that are
counted row by row that no order is in two rows.

`DatedByCompletion` is what the revenue by date relies on. `completion` is the history of
when a request last said, by the status's value, that the order is completed; it is set from
the request and not from the row, and forgotten when the order is no longer completed. The
property says that a completed order has that time, although every endpoint writes the
time for itself, reopening clears nothing, and a PUT that dates a completion may meet
an order that another request has reopened. The exception is `PutName`: PUT compares the
status with `"completed"`, and the enum's name `COMPLETED` passes by, so that the order keeps
no date or an old one until a request gives the value.

`StatsProofs` proves `StatsInv`, type correctness, `ReportsAgree`, `CountedOnce` and
`DatedByCompletion`, for any finite sets of orders, cleaners, properties and other statuses, any
whole prices between `-MaxCredit` and `MaxPrice`, and any number of changes. It assumes what `Stats` does: the sets are
finite, the bounds are numbers, a day and a period are not empty, and `NULL` and `Absent`
are none of the values. There is at least one status beside open and completed, as in the code.

`ReportsAgree` compares numbers that were read at different times and is not inductive.
`StatsInv` instead compares each number that was read with the orders as they are now: after
a SELECT they agree as far as that table and the earlier ones do, and each later change
moves what the orders would give by one order, or by `Worth`, while `moved` grows by one
(the lemmas with `AtMost`). So all writers share one lemma, and `DeleteCleaner`, which changes
many orders, changes no number that any report compares but those of `RowsOK`. A
report that has answered is then compared within one state.

The numbers are sums over sets of orders. What the library's sum returns is proved by
induction over the subsets of a finite set, from the well-foundedness of strict inclusion:
that it is a number, that taking one element out lowers it by that element's value,
that it lies between size times the smallest and size times the largest value, that
it splits into those of a part and the rest, and that the sums over the groups of a
`GROUP BY` add up to the sum over all. This needs no induction theorem with an operator
as a parameter, because the sets for which a fact holds are a set themselves.

## 9. Idempotency keys and the accept script: `RedisAccept`

`process_with_idempotency` around `try_accept_order`, for one order, with
`sync_order_to_redis` beside them. Nothing in the program composes the two, and
only the sync is called; the module shows what each of them does when it is used as its
docstring says.

| Code | Actions |
|---|---|
| `sync_order_to_redis` | `Sync` (HSET), `SyncLifetime` (EXPIRE, or its loss); `HashExpires` |
| `process_with_idempotency` | `Arrive` (SET NX), `Conflict`, `Poll`, `Process`, `ProcessFails`, `Save`, `Release`; `LockExpires`, `ResultExpires` |
| `ACCEPT_ORDER_SCRIPT` | `Script`, in one step |
| the process | `Crash` |

Abstractions: times are open, so a lock may end at any moment after it was set, and a
key stands for one cleaner's attempt, however often it is sent. `lock` remembers who set a
lock, which Redis does not know, only to count excuses. A call of Redis may fail
after it was done. `check_idempotency`, `save_idempotency` and `idempotency_required` repeat
parts of this and are left out, as is `bulk_check_status`, which reads.

| Run | Checks | Instance | States |
|---|---|---|---|
| `RedisAccept` | `RedisInv`, `OneAtATime`, `HashEnds`, `SuccessOnce`, `RequestsEnd` | 2 keys, 2 handlers, 3 requests, 2 polls, 2 syncs | 358 000 |

Two requests of one key meet at the lock and a third comes when one of them is over; two
keys compete for the order; the code polls fifty times, and two looks are the first and the last.
Two syncs write a hash that is there already. When all requests (`MaxRequests`) and
syncs (`MaxSyncs`) are used the system stops, so deadlock is not checked. Fairness: the
event loop runs what is ready (`Run`), and Redis drops what has had its time (`LockExpires`,
`HashExpires`); a sync goes on or ends (`SyncLifetime`). Nobody has to ask, and nothing has to fail.

The saved result is not looked at before the lock is taken, so a repeat that comes when
the lock is gone is processed again: a key does not make an operation run once.
`OneAtATime` is what the lock does give: requests of one key are processed one after the
other, but for one more for each that stopped waiting or whose lock expired or was deleted by
another (`excuses`; the `finally` clause deletes whoever's lock it is). `SuccessOnce` says that
the script is safe all the same: one key is told `SUCCESS` while the hash is there, even
if the hash is written again. It holds because HSET then finds no new field and the
script answers `UPDATE_FAILED` — to a request that has nevertheless taken the order in Redis.
`HashEnds` says that a hash has a lifetime unless a sync ended between HSET and EXPIRE.
`RequestsEnd` says that no key stays locked and every request is answered.

`RedisAcceptProofs` proves `RedisInv`, `OneAtATime`, `HashEnds` and `SuccessOnce` for any
keys, requests, polls and syncs. `OneAtATime` counts: the requests in progress that do not
have the lock of their key are at most the excuses, and at most one has it. `SuccessOnce`
needs that a hash with a winner names a taker. `RequestsEnd` is TLC's.

## 10. Photos: `Uploads`

`stored` is the files that are there, in the container or, with `s3`, in the bucket;
`photos` is `completion_photos` of each order: NULL, a text that is no list, or the
files it names. An upload is `Store`, then `UploadLoad` (or `UploadLoadFails`,
`UploadNoOrder`), `UploadCommit` and `Reply`; `UploadVoice` is the other endpoint, in one step
because no row names its file. `PutLoad` and `PutCommit` are `update_order` as far as it writes
the list: the pages upload without an order and then PUT a list. `CommitFails`, `Crash` and
`Redeploy` are what can go wrong: the API's container has no volume, so a new one has none of
the old files. A file is served here by the application itself (`main.py:104`);
`nginx.conf:65` answers `/uploads/` from a directory of its own container, which
`docker-compose.prod.yml:92` starts without the files of the API's. Through that proxy no url of
a local file leads anywhere, whatever `NoDeadLink` says of the file itself.

Abstractions: a url is its file; a client sends urls that it was given. The names of
new files are taken to be fresh; an S3 key has eight hex digits beside the day. That
`upload_to_s3` enters no client context, and so may fail on every call, is covered by the
store that is no step. `delete_from_s3` and `generate_presigned_url` are called by nobody.

| Run | Checks | Instance | States |
|---|---|---|---|
| `Uploads` | `NoDeadLink`, `UploadsAddUp`, `UploadsInv` | 1 order, 3 files, 2 handlers | 338 000 |

Two handlers make an upload overtake another, or a PUT overtake an upload; the third file
is in the list before either. A second order would only repeat the first, because lists
do not share rows; a second order or a third handler makes the run longer than its bound. The
system stops when all names are used and the order is deleted, so deadlock is not checked.

`NoDeadLink` says that an upload stores its file before it writes and answers its url, wherever it
ends, so that a url is dead only if its container is gone (`gone`). `UploadsAddUp` says what
becomes of photos in a list that is loaded, appended to and written as a whole: a photo
is lost if a client's list replaces it, or an upload that had loaded the list before it was
there writes it back. `owed` is the history of what neither has happened to, and errors, crashes
and retries take nothing away from it.

`UploadsProofs` proves the three for any orders, files and handlers, from the assumption
that the marks are different and none of them is a list. `UploadsAddUp` needs that what is owed to
an upload's order was in the list it loaded, or was written since (`missed`), which
`UploadOK` says.

## 11. Not modelled

* Background tasks: `order_tasks.py` fails to import and `create_order` raises a name
  error before it would enqueue one, so no task ever runs.
* Mobile fault tolerance: nothing imports `mobile_ft.py`, so the code gives it no
  clients, no messages and no order of calls that a model could take over.
* Monitoring, geocoding, geographic search, notifications, static pages and deployment
  files read, count, or call outside services and keep no state that other
  handlers depend on. Which requests the pages send decides which inputs are enumerated.
* In the modelled components: `notify_order_taken`, which sends like `broadcast` and
  publishes to a channel that no worker subscribes to; `dispatch_to_cleaners`, which no
  endpoint reaches; the blacklist, which nothing writes; updates of names, locations
  and of a cleaner's status, which no other handler reads.
