# Verification of the real-time analytics platform

TLA+ models, model checks and machine-checked proofs for the program in `src/`: a FastAPI backend
that generates sensor data, writes it to MariaDB in batches and pushes it over WebSockets; a REST
API with accounts, tokens, data records and logs; and a Streamlit frontend.

Contents: [inventory](#the-system), [modules](#the-modules), [runs](#the-runs),
[proofs](#the-proofs), [disagreements found](#disagreements-between-code-and-documents), [what is
not modelled](#what-is-not-modelled), [plan](#plan). `PROJECT.json` maps every definition to the
lines it models and lists hazards, runs, mutants and theorems.

## The system

Paths are relative to `src/backend/app` unless they begin with `frontend/`.

| Component | State | Operations | What makes it correct |
| --- | --- | --- | --- |
| Generator and batch writer, `services/generator.py`, started by `main.py` | `_buffer`, counters, two background tasks | `start`, generate loop, flush loop, `flush` (also from `POST /realtime/flush`), `stop` | no point twice or unaccounted for, bounded buffer, honest status, drained and finite shutdown |
| WebSocket hub, `services/ws_manager.py`, `api/v1/realtime.py` | registered sockets | connect, ping, disconnect, broadcast | no leaked registration, no batch missed or repeated, dead sockets removed |
| Rate limiter, `core/security_middleware.py` | deques of times per client and scope | admit or refuse, count a failed login | limits kept, refusals justified |
| Tokens, `api/v1/auth.py`, `api/deps.py`, `services/token_service.py` | table of revoked `jti`s | login, refresh with rotation, logout, access check | a refresh token is exchanged once, a revoked one is refused, an inactive account gets nothing |
| Connection pool, `db/session.py`, `services/log_service.py`, `core/middleware.py` | connections lent out | sessions of requests, log entries, WebSockets and flushes | no leak, nobody waits for ever, a log entry never fails a request |
| Accounts, `api/v1/users.py`, `services/user_service.py` | table `users` | register, create, change, deactivate, delete | unique names, an active administrator remains |
| Records, `api/v1/records.py`, `services/record_service.py` | table `data_records` | create, update, replace, delete, import | every record has an owner, only owners and administrators touch it |
| Listings of accounts, records, metrics and logs | (the tables) | count, page | count and page agree; a walk misses no row |
| Analytics and export, `api/v1/analytics.py`, `services/analytics_service.py` | (the table of records) | list, summary, categories, trend | the sheets of a report add up |
| Startup, `backend/entrypoint.sh`, `alembic/`, `main.py`, `db/init_db.py`, `core/config.py` | schema, recorded revision, tables, the container's process | wait for the database, upgrade, seed, serve, restart | never serves on part of a schema, seeds whole or not at all, comes up in the end |
| Frontend session, `frontend/utils/api_client.py`, `state.py` | tokens and user of `st.session_state` | login, calls with one retry after a rotation, logout | a pair that arrives is kept, a call is carried out once |
| Metric stream, `frontend/utils/stream.py`, `views/realtime.py` | a thread per stream, url, stop event | start, stop, reconnect, receive | a stream belongs to one login, a stopped one ends |

**How they interact.** The generator broadcasts through the hub and writes through the pool. Every
request passes the rate limiter, takes a database connection for authentication and keeps it until
its session commits or closes; `write_log()` takes a second one. The WebSocket endpoint
authenticates with a session too. The frontend holds the tokens that the token service rotates, and
opens the WebSockets. The tables everything else works on, and their first rows, come from startup.

**What is hard about it.** The backend is one asyncio process: the code between two awaits is atomic
and everything else interleaves (broadcast against commit against shutdown). Requests meet in the
database on repeatable-read snapshots, so that checks and the commit they allow are far apart.
Answers are lost, commits fail with an unknown outcome, tasks are cancelled inside a commit, the
process crashes, and the database commits a change of the schema statement by statement. In the
frontend a thread runs against scripts that end at any click.

## The modules

Each component module has its state as variables, one action per handler or per stretch of code
between two suspension points, its properties at the end, and before a definition the *mutant* of
it: a plausible bug under which a property fails. Variables marked "history" exist for the
properties only and guard no action.

**MetricPipeline**: what the pipeline promises, abstractly. Points are born, held, and settled once,
as stored or lost.

**RealtimeGenerator**: the generator with the admin endpoint and the process around it. `pc[t]` is
the await at which task `t` is suspended: the generate loop, the flush loop, the shutdown and the
admin requests. `async with self._lock` never awaits inside, so the lock is not a variable.
`flush()` is `BeginFlush` (swap the buffer) and then `CommitOk`, `CommitRaises` or, during `stop()`,
`CancelTask`: `except Exception` does not catch `CancelledError`. A commit without an answer may
have been applied. `Crash` is possible at any point and `Boot` starts a new object. `stop()` sets
`_running` and cancels the generate task with no await in between, so that task ends by
cancellation, while the flush loop may also end by itself. Uvicorn finishes running requests before
it leaves the lifespan, so no admin flush overlaps `stop()`. Values, alert levels, `latest`, time
stamps and the `except Exception: sleep(1)` of the loop are left out.

**BatchLog**: what the hub promises, abstractly. The batches are a log; a reader gets them in order,
each once, from the one after its joining on, until it leaves; and none is published while a reader
lags behind.

**ConnectionManager**: `handler[c]` is the await of `realtime_websocket` for socket `c`. A broadcast
is a snapshot of the registered sockets served one after the other, in any order, with the removal
of stale ones at its end. A socket can close at any moment. A handler ends when its socket has
closed (`Disconnect`) or by another exception of `receive_text()` while the peer is still there
(`ReceiveRaises`; the server closes the socket when the handler has returned). That the welcome comes before the first
batch is not claimed: a broadcast may be faster. The readers of BatchLog are the registered clients
whose socket is open and whose handler is alive (`Listening`).

**RateLimit**: the two buckets of one client address, as deques of times. A general request is
checked and counted in one step; a login is checked when it comes and counted, under the time it
came at, after it failed. The window slides, whatever the docstring says ("固定時間窗").

**TokenService**: one account, token pairs `<<kind, n>>`, concurrent requests. Each request reads
one snapshot from its first query on; the unique index on `jti` decides between concurrent inserts,
with `IntegrityError` and a 500 for the loser. `Expire` is the clock. `revoke()` does not record a
token that has expired since it was decoded, and `late` marks such a request. A refresh reads the
account after the commit of its revocation, so on a new snapshot, unless it is late; it is refused
then with the old token revoked already. `revokedAt` and `wasActive` are history: the step at which
a revocation found a request that carries the token, and whether the account has been active since
the request came. A deleted account is one that is inactive for good.

**ConnectionPool**: who holds how many of `pool_size + max_overflow` connections: requests
(authentication, work, commit, log entry, refresh), WebSockets and the flush. The session that
`get_db()` hands to the WebSocket endpoint lives as long as the socket.

**RealtimeEndpoint**: composes ConnectionManager and ConnectionPool into the WebSocket endpoint with
its dependencies. Its sockets are the clients of the hub and the sockets of the pool at once. A
socket that is refused with a bad token never reaches the pool; one whose account is looked up takes
a connection (`ReadAccount`), is admitted or refused, and gives the connection back in `SessionEnds`,
when its handler has returned and FastAPI closes the session of `get_db()`. A timeout of the pool
ends the handshake. Requests and flushes go on beside it.

**UserService** and **RecordService**: requests on the two tables, linked by the foreign key. Every
request is three steps: its checks, all on the snapshot of its first query; its commit, when unique
index and foreign key decide on the tables as they are then; and the `refresh()` that reads the row
again. Only columns that changed are written. An `UPDATE` of a row that is gone raises
`StaleDataError` (500), a `DELETE` of one only warns, and `Abort` (the database raises) is possible
at every step. The deletion of an account cascades. `RecordService` extends `UserService` and
composes both in `Next`; `username` stands for both unique columns, a file for import is the number
of its usable rows. `PUT` goes through the same update as `PATCH`, so a null column keeps its old
value. The initial state is what `seed_demo_data()` leaves.

**Startup**: one container from `entrypoint.sh` to the server and back. `pc` is what its process
does: wait for the port, read the settings, upgrade, wait for a connection, count the accounts,
seed, serve. Both waits are one definition, `Attempts`. `alembic upgrade head` is one `RunStatement`
per table (the indexes of a table count as one statement) and a `Stamp` per revision, since MariaDB
commits every change of a schema at once and Alembic records the revision at the end; `schema` may
therefore be ahead of `version`. The seeding is one transaction, whose commit may be applied
although its answer is lost. `Crash` strikes anywhere, the database comes and goes, `Request` lets
accounts and records come and go as RecordService does, and the operator may deploy with other
settings. `ADMIN_USERNAME` is taken to differ from the names of the other demo accounts.

**Listing**: a reader walks through the pages of one of the four listings while others insert,
change and delete. The count and the page read one snapshot. Rows with equal sort keys come in any
order, chosen anew by each query: SQL promises no other. A row of the log changes too: the deletion of an account
sets its `user_id` to null, so that the row no longer matches a condition on it. The export begins with the first page of
the records.

**Analytics**: extends Listing by the rest of the export: three aggregations on the snapshot of the
same transaction, of which that by category leaves out the condition on the category. `Grouped` is
`GROUP BY`; the value of a record is its id, its time a number of hours.

**ApiClient**: the Streamlit session and `APIClient`. `script` is the running script with its
client's copy of the tokens; the steps are the request, the refresh, the writing of each key of
`_store_tokens()` and the clearing of each key by `do_logout()`. `Interrupt` is Streamlit's
`RerunException`, raised at the next use of `st` or `st.session_state` and caught by no `except
Exception`. With `fastReruns`, which is the default, the next script may begin while the old one
still waits for an answer; the model ends the old one at once, and leaves open whether the old one
still makes a refresh, whose pair it drops at its next use of `st`. The server is abstract: it may answer 401 to any token, lose any
answer, and rotates a refresh token once, as TokenService shows. `RefreshWasted` is a refresh that
costs the old token and brings no pair: the answer is lost, or the account is refused or cannot be
read after the revocation was committed. `RefreshFails` is one that is refused before that.

**MetricStream**: extends ApiClient by the streams: `thread[s]` is the place of `_run()` (outer
loop, connecting, inner loop, receiving, waiting), against the realtime page and `do_logout()`. It
is the composition: `Logout` and the stop of the stream are one action.

The `MC*` modules instantiate these for TLC; the constants are in the `.cfg` files.

## The runs

| Run | Instance | What it shows |
| --- | --- | --- |
| `generator` | 2 admin requests, batches of 2, flush at 4, 6 points; 10 thousand states | Each point is in one place, `StatusIsHonest`, the buffer stays below threshold plus batch, a stopped generator is drained; held points settle and shutdown ends even if a broadcast never does; MetricPipeline is implemented |
| `hub` | 2 sockets, 3 batches; 13 thousand states | A registered socket has a live handler, BatchLog is implemented (no batch missed, repeated or out of order), closed sockets are removed, a batch ends for everybody |
| `endpoint` | 1 socket, 2 requests, 2 connections, 2 batches; 50 thousand states | Hub and pool together. No path leaks a connection; requests that wait for a second connection end, and one that only has its log entry left ends well; a served socket holds a connection until its handler has returned, so that the audience of a broadcast is limited by the pool; a socket that is gone gives its connection back for good |
| `rate_limit` | limits 2, window 2, times 0..4, 2 logins at once | The general limit is exact; failed logins exceed theirs by fewer than the logins under way; every 429 has a full window behind it |
| `tokens` | 3 pairs, 2 requests, 1 expiry; 1.8 million states | A refresh token is exchanged on record once, and off the record only when it has expired; a request whose token is revoked, before it came or while it is under way, gets no further; pairs and access are given only to requests that were under way while the account was active, and a recorded refresh gets its pair only if the account is active at that moment |
| `records` | 3 requests, 4 accounts, 4 records; 640 thousand states | Names unique, no orphans, the last active administrator goes only by a request whose maker has lost the role since it began or by their own deactivation, only owners and administrators change a record |
| `frontend` | 3 token pairs, 2 streams; 256 thousand states | A call is carried out once, a session keeps a revoked refresh token only if no pair arrived for it or the script was interrupted before it was stored, an unstopped thread belongs to this login, a stopped one ends and is not shown as connected |
| `listing` | pages of 2, 4 ids (3 if sorted by another column), 2 sort keys, 2 categories; 840 thousand states | Items, total and pages of an answer agree; the trend and the categories of a report add up to its summary; a walk by id misses no row unless one is deleted or changed |
| `startup` | 2 attempts per wait, 3 crashes or outages; 19 thousand states | The server runs on the whole schema or not at all; the demo rows appear all at once, in an empty table, never in production; the container serves in the end unless a crash tore a revision or the settings are refused |
| `pool_flush`, `register_conflict`, `stream_stale_token` | small | Each violates one documented statement, see below |

**Bounds.** `MaxPoints`, `MaxBatch`, `MaxTime`, `MaxCounted`, `MaxPairs`, `MaxExpired`, `MaxUsers`,
`MaxRecords`, `MaxStreams`, `MaxRows`, `MaxKeyed` and `MaxFailures` cap what would grow for ever. Each is large
enough for its case: six points are one flush by size and one by time, with a crash and a restart
between; two admin flushes and the flush loop give three concurrent commits; two sockets are one in
the snapshot of a broadcast and one that joins during it; a window of 2 in a time of 4 lets every
entry expire and another replace it; three pairs are a login, a rotation and a rotation of the
result; two requests exhaust two connections while each wants another, and with a socket and the
flush four users compete for two connections; three requests are two that race and one that changes
what they were allowed by; four rows are two full pages, or three rows of
a walk with two pages and one that is inserted between them; three rows, where the walk is not by id
and nothing is promised of it, are a full page and another; two sort keys that differ by one
fall into one bucket of a granularity and two of another; two attempts are one that fails and the
last one (60 and 30 in the code); three failures are a crash in a revision, an outage during the
next attempt and a crash in the seeding. Requests are interchangeable, and the safety-only runs use
that as symmetry; runs with liveness use none. In `endpoint` one socket is enough, as sockets meet
only in the hub, which `hub` checks with two, and in the pool, where the requests crowd them.

Deadlock is checked where the system runs for ever. It is not in `hub`, `rate_limit` and `records`,
where all sockets may be gone, time is bounded, and each request is made once.

**Fairness**, and why the code justifies it:

- generator: a commit ends (the driver answers or raises), sleeps end, cancelled tasks are woken,
  the lifespan goes on. Nothing is assumed of a broadcast, of clients, of boot, crash or SIGTERM.
- hub: a send to a socket returns or raises, since uvicorn's keepalive closes a dead peer; handlers
  whose socket is closed are woken.
- pool: a wait for a connection ends by a connection or by `pool_timeout`; log entries end; a
  handler commits finitely often and then answers or raises (strong fairness, as it may commit and
  go on in between). A waiting flush gets a connection that is free again and again (strong fairness
  too), since the queue of the pool is first come, first served.
- endpoint: that of the hub and of the pool; beyond it `get_ws_user()` goes on after its query, and
  the session is closed when the handler has returned.
- frontend: the thread runs; `create_connection` and `recv` have a timeout of ten seconds, the wait
  one of three. Nothing is assumed of the user or the scripts.
- startup: the process of the container goes on, and a container that has ended, the database's too,
  is started again (`restart: unless-stopped`). Crashes and outages are finitely many; nothing is
  assumed of the operator.

Every property of a passing run is violated by a mutant of the code's definition, named in
`PROJECT.json`.

## The proofs

Checked by TLAPS for all values of the constants, the bounds of the runs included, assuming only the
named assumptions in the modules: limits, sizes and the counters' bounds are numbers, most of them
positive; the sets of tasks, requests and sockets are disjoint; `Logins` is finite; `Keep` and
`Null` are no names or texts; there is room for the demo accounts. Each proof module extends its
component's module and has an inductive invariant, which TLC was first asked about on the run's
instance; a lemma per action shows that the action keeps it, and each property of the run follows.

**RealtimeGeneratorProofs** (for every batch size, threshold and set of admin requests):
`TypeCorrect`, `PointsConserved`, `StatusHonest`, `BufferStaysBounded`, `StopDrains` and
`Refinement` (the generator implements MetricPipeline). The inductive invariant is `IInv == TypeOK
/\ ControlOK /\ EachPointInOnePlace /\ HeldIsOfThisLife /\ PersistedIsStored /\ BufferBounded`.
`ControlOK` says which program counters go together and that only a task at its commit has rows
pending; without it a `stop()` could find a task still in a session. That held points are of this
life of the process, and persisted ones among the stored ones of this life, is what makes the
counters comparable with the table after a restart. The refinement needs that points in memory are
not settled yet (`EachPointInOnePlace`), so that each step settles held points once or stutters.

**RealtimeEndpointProofs** (for every set of clients and of requests, number of batches and
capacity) proves first about the two parts of the endpoint, then about the whole.

*The hub*: `HubInvariant`, `HubTypeCorrect`, `Registered`, and `Implements`: the hub implements
BatchLog. The invariant `HubSound` adds to `RegisteredHasHandler` that a handler is over only when
its connection is, that a broadcast serves only clients that registered once and calls stale only
connections that are gone (`BroadcastSound`), hence that a listening client is never removed (`ListeningIsActive`), and
`UpToDate`: what a client received, counted from its joining on, is every batch but the one still on
its way to it. `UpToDate` is what the refinement lives on: a `send` then appends exactly the next
batch of the log, a new batch begins only when nobody lags, and every other step stutters.

*The pool* (as instantiated in RealtimeEndpoint, where its sockets are any clients):
`PoolInvariant`, `PoolTypeCorrect`, `PoolLeaksNothing`, `WithinCapacity`. `Counted` says that the
pool's count is the number of connections held, and `HeldInStep` that who holds one is at a step that gives
it back; the log session holds one exactly while it writes. `WithinCapacity` is the statement for
the operator: two connections per request at most, the second only for a log entry.

*The endpoint*: `ImplementsHub` and `ImplementsPool` show that each of its steps is a step or a
stutter of either part, so that everything above holds of the composition too. `EndpointInvariant`
joins the invariants of the parts by `Coupled`: where the dependencies of a socket are tells whether
it holds a connection, and a handler that accepts, sends or receives runs on one. Neither part knows
that by itself. `AudienceBounded` follows, by counting the connections of sockets and of all others
apart. `NothingLeaks` and `EndpointDelivers` carry the results about the parts over. The types of
hub and pool are theorems only; no run repeats them.

**RateLimitProofs** (for every limit, window and finite set of logins): `LimitInvariant`,
`TypeCorrect`, `GeneralLimited`, `LoginsLimited`, `RefusalsJustified`. The code never looks at what
it counted, only at a deque that it purges from one end, up to the first time that has not expired;
`DequeIsEnd` says that the deque is nevertheless the end of the sequence of all times counted, and
that whatever is missing from it has expired. So the window's requests are all in it
(`PurgedCounts`), and for general requests, which are counted in the order of time
(`GeneralInOrder`), the purged deque is the window; failed logins are not in that order, and there
the deque may hold more. The bound on logins is not inductive either: `LoginsLeaveRoom` counts each
login under way as a failure to come. `PurgedIsRest` shows what the `while` loop leaves, from the
least-number principle.

**TokenServiceProofs** (for every number of requests and pairs): `TokenInvariant`, `TypeCorrect`,
`RefreshedOnce`, `RevokedRefused`, `InactiveRefused`. `RotatedOnce` speaks of exchanges that were
made, while the danger lies in two requests that are both about to make one. `OneExchanger` is the
strengthening: between `revoke()` and the new pair a request holds the only right to exchange its
token, and nobody has used that right. The unique index on `jti` gives that right to one request.
`RequestsSound` ties the flags of a request (what its snapshot saw, that its token expired after it
was decoded, the step at which its token was revoked) to the tables, whatever the others do: a
request between `revoke()` and its pair cannot be overtaken, as the token it carries is on record
by its own doing. `InactiveGetsNothing` is an action property and follows from the same invariant,
case by case: a login and a granted call read the account after they came, and a refresh reads it
after the commit of its revocation.

**RecordServiceProofs** (for every set of requests, names and texts): `TypeCorrect`, `NamesUnique`,
`OrphansNever`, `Guards`, `LastAdminSafe`, `OwnerOrAdminOnly`. Unique names and existing owners are
inductive together with the types, as constraints decide at the commit. The two action properties
are not: what a request commits was allowed by a snapshot that is gone. `GuardsHold` is the
strengthening: what the checks established about the maker and the target of a request still holds
at its commit, because ids are never reused and owners never change (`OwnersStay`), and the role the
maker had when the request began is remembered. It is proved inductive, and both action properties
follow from it. `LastAdminSafe` names the two ways the last active administrator can go: a stale
request, and `DeactivatesSelf`, which the guard of `update_role()` does not look at.

**StartupProofs** (for every number of attempts and of failures): `StartupInvariant`, `TypeCorrect`,
`WholeSchema`, `SeedsWhole`. `SchemaSound` says what the database may hold beside the revision it
records: at most what a torn attempt at the next one left. `ContainerSound` says what the place of
the process has established: who got past the upgrade is at the last revision, who got past the
settings has safe ones, who seeds has found the table of accounts empty. The revisions are written
out as lemmas, so that a proof about a statement need not expand them.

**MetricStreamProofs** (for every number of pairs and of streams): `SessionInvariant`,
`TypeCorrect`, `RetriesSound`, `StreamsOfThisLogin`. `ScriptSound` says what the place of a script
tells: that a pair about to be stored is the newest and nobody has exchanged it, that a client which
logs in has no refresh token to repeat with, that only a logout clears. With it a call at `send` or
`refresh` has not been carried out (`AppliedSound`), which is why the repetition is safe. For the
streams the property alone is not inductive: a login gets a new pair while an old thread may be
alive. `StreamSound` adds that while nobody is logged in, and from the first step of a logout on, no
thread is left that has not been told to stop, and that the page starts its thread with the token of
the session.

**AnalyticsProofs** (for every table, page size, set of sort keys and categories, and every walk):
`ListingInvariant`, `TypeCorrect`, `AnswersAgree`, `NothingMissed`. Two arguments carry it.

Sums are folds, and a proof that follows a fold would be an induction over data. Instead `SumIs`
shows what a fold over a finite set must be: a function on the subsets of the ids is called
additive if a set counts one element more than the set without it, and of two such functions none
can differ first on a smallest set (the least-number principle, on cardinalities). The units of the
rows, pairs of an id and a number up to it, are counted by such a function, so that totals are
cardinalities, groups are disjoint sets, and `GroupsAddUp` is that a set is the union of its groups.
With it the sheets of a report add up whatever the groups are.

`WalkMissesNothing` is not inductive, as it speaks of the end of a walk. `WalkSound` is the
strengthening: a row of the beginning that has not been seen has at least as many rows before it, in
the order of the ids, as the pages asked for so far hold. An insertion can only add to them
(`BeforeGrows`), a page takes rows whose number of predecessors lies in its range (`PlaceIs`,
`NotShownIsAhead`), and after the last page there would have to be more rows before it than there
are. What SQL may return is any sequence that `SortedIs` characterises, so that no order is assumed
between rows with equal keys.

**Model-checked only**:

- Liveness and everything about fairness, which the prover does not do: `HeldPointSettles`,
  `ShutdownEnds`, `ClosedIsRemoved`, `BatchReachesClients`, `RequestsEnd`, `ConnectionComesBack`,
  `StoppedStreamEnds`, `StartsUp`.
- The three disagreements below: a run that finds a violation proves it by its trace.

## Disagreements between code and documents

1. `pool_flush`: the README says (`src/README.md:621`) the buffer is written every
   `GENERATOR_FLUSH_INTERVAL` seconds. A WebSocket holds a connection for its life; with as many
   sockets as connections every flush times out and its rows are dropped.
2. `register_conflict`: `docs/api.md:34` promises 409 for a duplicate name. Of two overlapping
   registrations the second is stopped by the unique index and answered with 500.
3. `stream_stale_token`: `views/realtime.py:22` says the url is renewed because a reconnection needs
   the latest token. The page renews it before its own call to `/realtime/status`, which may rotate
   the tokens, and the fragment that refreshes the page every second does not renew it again.

The models also reach states worth knowing, some of them against the letter of a document: two
administrators who demote or delete each other at the same time leave none, and the last one may
deactivate themself; logins under way at once are all admitted, so that failed logins exceed
`RATE_LIMIT_LOGIN` by them (`LoginOvershootBounded`); a refresh token that expires between its
decoding and `revoke()` is not recorded and may be exchanged twice (`RotatedOnce` says when); a
crash between a `CREATE TABLE` and the record of its revision leaves a database that no restart
upgrades (`Torn`); once all accounts are deleted a restart seeds the demo accounts again; a logout
interrupted between its keys leaves the user name of the earlier login for the next one; pages
sorted by a column with equal values may repeat rows and miss others; a closed browser tab leaves
its thread running.

## What is not modelled

- Downgrades of revisions, columns and defaults of the tables, a failure of Alembic before its first
  statement that is not a loss of the database.
- The three aggregations of the analytics page as three requests of their own (each is one query on
  its own snapshot, and nothing promises that they agree), the counts of the administrator's
  overview and the summary per sensor: single read-only queries without a state to relate them to.
- The workbook, means and extreme values, rounding.
- Parsing of import files beyond the number of usable rows, schemas and validation of input.
- Passwords, signatures, and claims other than type, `jti` and expiry.
- Configuration apart from the validation of production settings, logging to files, the wiring of
  the containers.
- The pages of the frontend: layout and widgets. Their calls are those of ApiClient, the page
  numbers are a walk of Listing, the controls of the realtime page are in MetricStream.

## Plan

Done, in this order: generator (with its abstract specification and proofs), hub, rate limiter,
tokens, pool, accounts and records (with proofs), frontend session and stream, listings, the hub's
abstract log, startup, analytics, and the WebSocket endpoint as the composition of hub and pool.

Proofs followed in the order generator, accounts and records, tokens, pool, hub with its refinement,
startup, frontend session and stream, rate limiter, listings and analytics, endpoint. Every safety
property that a passing run checks is a theorem.

Next, most important first:

1. Compositions: the generator with the endpoint, to see how slow clients and a starved pool act
   together on the buffer; frontend sessions against TokenService instead of the abstract server.
2. Pure operators against reference definitions: the classification of a point, the acceptance of
   import rows.
