# Verification of server-simple

TLA+ models of the concurrent parts of the library, checked with TLC on small
instances and, for the properties that matter most, proved with TLAPS for every
value of the constants. Paths below are relative to the repository (`src/`).

## The system

* **`thread_safe_queue`** — a mutex, a condition variable, a deque and a byte
  counter. It carries requests to worker threads and packets to the update loop.
* **`http_connection`** — reads pipelined requests, gives each a sequence id,
  pushes it into the queue, and writes the responses in the order of the ids.
  Its handlers run on a strand.
* **`request_server_base`** — accepts connections, asks the rate limiter once
  per connection, and runs worker threads that take tasks from the queue and
  post responses back to the connections. Built on **`server_base`** (the
  io_context, its one thread, `launch`, `try_stop`, `stop`).
* **`rate_limiter`** — a token bucket per client address, a background thread
  that drops idle buckets, a destructor that ends that thread.
* **`websocket_session`** — handshake, read loop into a packet queue, and a
  chain of writes fed by `send`. **`persistent_server_base`** keeps the active
  sessions, broadcasts to them and runs the update loop.
* **Boards** — `leaderboard`, `nameboard`, `score_stream`, kept in memory and
  saved to a JSON file through a temporary file and `rename`.
* **Helpers** — `thread_safe_unordered_map` and `locked_value`, `http_parser`,
  `file_helper`, `logger`.

## Inventory

| Part | State | Actors and steps | Modules |
|---|---|---|---|
| queue | dequeue, stopped, current_bytes, waiters | any threads; each method under the lock, notifications after it | QueueData, ThreadSafeQueue, QueueContract, QueueRefinement |
| HTTP connection | socket, ids, responses, writing, pending operations | completion handlers on the strand; workers posting | HttpConnection |
| request server | connections, queue, what each worker holds, phase of stop | context thread, workers, the stopping thread | RequestServer |
| rate limiter | buckets, stop flag, cleanup thread, clock | callers of consume, cleanup thread, destructor | RateLimiter, TokenBucket |
| WebSocket session | stream, write_queue, posted sends, reads | context thread, senders | WebSocketSession |
| persistent server | sessions, packet queue, active_sessions, update thread, stopping | context thread, update thread, callers of launch and try_stop | PersistentServer |
| leaderboard | entries, ranking and its comparator, next_id, the files | one user; death of the process | BoardSequences, PersistentBoard, Leaderboard, Boards |
| nameboard | the list, the ranking, next_id, the files | one user; death of the process | BoardSequences, PersistentBoard, Nameboard, TimedBoards, Boards |
| score stream | entries, next_id, the files | one user; death of the process | BoardSequences, PersistentBoard, ScoreStream, TimedBoards, Boards |
| locked map | the map, mutex_map, locked values, iterations | any threads | MapData, MapContract, ThreadSafeMap |
| query parser, paths, logging | none | — | not modelled |

## Modules

**QueueData** has the members of the queue and what each method does to them
under the lock: the three `*_protocol` functions, checked and unchecked pushes,
pops, `clear`, `replace`, `stop`, and the two halves of `wait_and_pop`
(`WaitPredicate`, `FinishWait`). `size_t` has `SizeMod` values, and additions and
subtractions wrap. **ThreadSafeQueue** adds the threads: a method is one step
under the lock, followed by a separate step for a notification, because the code
notifies after unlocking; a waiter may wake spuriously and tests its predicate
again. **QueueContract** is the abstract queue, whose `wait_and_pop` blocks and
then returns in one step; **QueueRefinement** maps the queue to it.

**HttpConnection** keeps one record per connection: the members of the class and
its pending operations (the outstanding read, the handlers posted to the strand,
the outstanding writes). Each handler is an operator on that record named after
the point where it runs (`OnPosted`, `OnWritten`, `OnAccepted`, ...) and an
action. Handlers posted by different workers run in any order. The queue and the
workers are an environment that accepts or refuses a request and answers
accepted ones in any order. An exception that leaves a handler
(`remote_endpoint()` throws when the peer has gone) or
`process_client_request` ends the process: `aborted`.

**RequestServer** composes HttpConnection with QueueData and the workers: the
environment of HttpConnection becomes the bounded queue and the tasks that
workers hold. `wait_and_pop` is one blocking step there, which QueueRefinement
justifies. `stop()` has three steps: stop and join the context, stop the queue,
join the workers. Whether the rate limiter lets a connection in is a free
choice.

**RateLimiter** models `consume` and `cleanup` as one step each (both hold the
mutex and read the clock under it), the loop of the cleanup thread, and the
three steps of the destructor, which does not take `cleanup_mutex`. Tokens and
times are integers; rounding of `double` is left out. `granted` and `window` are
history: what was admitted since an arbitrary moment.
`cleanup_after_idle_duration` is any of `IdleDurations`, since the constructor
takes any: a bucket may be dropped before it would be full (`CleanupRefills` says
that it is not). **TokenBucket** is the abstract limiter: one bucket per client,
refilled with time, never dropped.

**WebSocketSession** keeps a record per session, and `closing`: the sessions
whose synchronous `close()` keeps the only context thread busy. Beast refuses a
write only on a stream that is closed or has failed. A write started before the
handshake has completed is therefore taken, and its frame goes out ahead of the
response; the model says nothing of what the client makes of it.

**PersistentServer** composes WebSocketSession with QueueData and adds
`active_sessions`, the update thread and the life of the server: `launch()`,
`try_stop()` from any number of threads, and the steps of `stop()` (stop the
context, join its thread, stop the queue, join the update thread). The
application is the `broadcast_server` of the tests: `update()` pops packets and
broadcasts each. `broadcast()` walks `active_sessions` one `send` at a time on
the update thread, while the accept handler inserts into it on the context
thread. That is a data race: an insertion in the middle of a broadcast leaves the
iteration with any subset of the sessions still to come. A handler blocked in
`close()` outlives `asio_context.stop()`, so the join waits for it. The
application is assumed to launch the server at most once, before it stops it, and
to stop it from threads of its own.

**BoardSequences** has the multiset of pointers as the sequence it iterates over,
a pointer being the name of the entry it points to: insertion, erasure, positions
and the parts of it that the queries return. **PersistentBoard** adds the file that
the three boards keep. `save()` is split into opening, writing and renaming, each
of which may fail or be the last thing the process does; the constructor loads the
first `max_size` items of a complete file.

**Leaderboard** keeps the map of entries and the multiset apart, as the class
does. The comparator is part of the state, because `load()` replaces it. The
comparison with the uninitialised candidate is a free choice between equal
scores. **Nameboard** ranks by time and id, and evicts the first of the ranking,
which may be the name just added if the clock was set back. **ScoreStream** is
the sequence of the latest entries. A score passes through it unchanged and is
left out. Its `next_id` is never incremented by `submit_score`, and nothing
reads the ids. **TimedBoards** is a program that keeps one of the two boards that
are in the order of time, a nameboard or a score_stream, in a file; **Boards** lets
it keep a leaderboard instead, so that one run checks all three: its behaviours are
those of Leaderboard, of Nameboard and of ScoreStream, side by side. The variables
of TimedBoards have a `t_` before the name they have in the two classes. A
`leaderboard` gets no `max_size` of 0 (`LeaderboardAssumption`).

**MapData** has the methods of `thread_safe_unordered_map` that hold the mutex
for one step, each with what it returns or throws (`try_emplace_locked` with its
`inserted` flag). **ThreadSafeMap** adds the
threads and the two ways to hold the mutex for longer: a `locked_value`, through
which a thread reads and writes an element until it destroys it, and `for_each`,
callback by callback. Callbacks may throw. **MapContract** is the map whose
methods, uses of a `locked_value` and iterations each take one step. The
specification of ThreadSafeMap is called `MapSpec`, so that one module can speak of it
and of the limiter.

The `MC*` modules give the constants of the runs. An operator whose comment
begins with "Fault" is a plausible wrong version of the definition that follows
it: each property is known to fail when its fault takes that definition's place.

## Runs

| Run | Instance | Shows |
|---|---|---|
| Queue | 4 threads, the calls the servers make or all calls, 2 sizes, `size_t` of 8 values | `BytesAccounted`: the counter is exact modulo wrapping. `WithinLimits`, `NoLostWakeup`. `StopReleasesWaiters`: `stop()` releases every waiter. `ImplementsContract`: refinement of QueueContract |
| QueueReplace | 3 threads, all calls | *violated:* `AvailableElementWakes` |
| QueueStopped | 3 threads, the calls the servers make | *violated:* `StoppedQueueThrows` |
| HttpPipeline | 1 connection, 4 requests | order and single writer; no request lost or duplicated (`EveryRequestHeld`); a response whose turn it is, is being written; a 503 is the last, and nothing follows a response that closes; every request is answered or the connection closed |
| RequestServer | 2 connections x 2 requests, 2 workers, 2 places, 3 bytes | `ConnectionsBehave`: refinement of HttpConnection; `TakenInOrder`, `UnansweredBounded`, `StopDrains`; `StopReturns`, `ServerAnswers` |
| Limiter | 2 clients, 3 tokens, 4 ticks, an idle time that refills a bucket or one that does not | `AdmissionBounded`: what any interval admits at most, for either idle time; `ImplementsTokenBucket`: refinement of TokenBucket if the idle time refills a bucket; `DestructorReturns` |
| PersistentServer | 2 sessions, one with packets too large for the queue, 2 messages, 1 packet each, 2 callers of `try_stop` | `MessagesInOrder`, `OneWriteAtATime`; `StoppedServerIsQuiet`: no thread is left when all calls have returned; `StopReturns`; `PacketsBroadcast`, `MessagesWritten`: packets are broadcast and reach the wire |
| Boards | each board, 3 players, up to 2 places, 2 scores, 2 times, 4 ids | `RankingMatchesEntries`, `PlacementReported`, `BestScoresKept`, `ListMatchesRanking`, `LatestNamesKept`; `ReloadRestores*`: a restart finds the last save that replaced the file, whatever save was interrupted since; `PagesCoverBoard`: consecutive ranges fit together |
| BoardLowestFirst | lowest first, 2 places | *violated:* `SortDirection` |
| BoardTies | 1 time, 2 places | *violated:* `UpdatesImproveRanking` |
| NamePosition | 3 names, 2 places | *violated:* `PositionReported` |
| Map | 3 threads, 2 keys, 3 values | `LockedValueStable`: the pointer of a `locked_value` stays good and no update is lost; `ImplementsContract`: refinement of MapContract; `MutexReleased` |

The violated properties are statements of the repository that the code does not
keep:

* **QueueReplace** — `wait_and_pop` "Waits until an element is available."
  (`thread_safe_queue.hpp:328`), but `replace()` notifies nobody. No server calls
  `replace()`.
* **QueueStopped** — "@throws std::runtime_error If the queue is stopped."
  (`thread_safe_queue.hpp:331`), but `wait_and_pop` of a stopped queue returns
  elements until there are none, and `nullopt` then. The workers rely on what the
  code does: `StopDrains`.
* **BoardLowestFirst** — "@param highest_first Sort direction."
  (`leaderboard.hpp:53`), but `load()` moves a default-constructed multiset,
  comparator included, into the ranking.
* **BoardTies** — "Existing players are updated only when the new score improves
  their ranking" (`leaderboard.hpp:27`), but between equal scores the candidate's
  uninitialised timestamp and id decide.
* **NamePosition** — "@return Ranking position" (`nameboard.hpp:56`), but the
  index is taken before the oldest name is evicted, which moves the new one up.

Three comments of the boards are true only with a reservation, which the properties
spell out:

* "New unique names are appended at the end." (`nameboard.hpp:28`) and "nullopt if
  the name already exists" (`:56`): when the clock was set back, a new name may be
  listed before others, and a full board drops it at once and returns `nullopt`
  (`LatestNamesKept`).
* "Can query for most recent scores" (`score_stream.hpp:29`): a stream loaded with
  a smaller `max_size` than it was saved with keeps the oldest scores of the file
  (`ReloadRestoresStream`), and a nameboard its oldest names
  (`ReloadRestoresNames`), although both drop the oldest while they run.

### Bounds

Bounds are in the guards and named: `LengthBound` (queue), `MaxRequests`,
`MaxMessages`, `MaxPackets`, `MaxTime`, `MaxId`, `MaxSubmissions`, `MaxEntries`.
Two waiters and two notifiers are what a lost wakeup needs, and Queue has four
threads. Three requests suffice for a response to be stored behind one that is
being written while a third is refused; HttpPipeline has four. Two connections and
two workers make requests of one connection overtake each other. Four requests
for two workers and two places cannot exceed the sum of both, so that the run shows
nothing of that part of `UnansweredBounded`; theorem `Bounded` proves it for all
values. In Limiter, the
clock runs beyond both idle times, so that buckets are dropped and used again, one
of them before it would be full. Three
players for one or two places lose their place and win it back. In
PersistentServer, one client may connect while a packet of the other is being
broadcast, two messages meet in one `write_queue`, and one of two callers of
`try_stop` is always the second. The queue takes the packets of one client only,
and one of them: a queue that fills up, and several packets in it, are left to the
theorems (`TypeCorrect`, `InOrder`) and to Queue. Two accepted packets make the
liveness properties too expensive.

`CHECK_DEADLOCK FALSE` stands where the system may stop: a connection that has
closed, a server that has stopped or aborted, a destroyed limiter, a session
that has ended, a persistent server that has stopped.

### Fairness

* Queue: a thread inside a call, and not asleep, goes on (weak fairness of its
  notification and of a woken thread's next pass). Nobody is obliged to call.
* Connection and server: handlers that are ready run, an outstanding write
  completes or fails, a worker that holds a task finishes it, `stop()` goes on.
  That a write completes is an assumption on the peer: the code sets no timeout,
  so a client that stays connected and never reads can keep one outstanding, and
  `EveryRequestAnswered` and `ServerAnswers` say nothing of it. Clients owe nothing
  else.
  `process_client_request` is assumed to return or throw.
* Limiter: the cleanup thread is scheduled, and the timeout of `wait_for` is
  strongly fair: its deadline is fixed when the wait begins, so spurious wakeups
  do not postpone it.
* Persistent server: a write completes or fails, with the same reservation for
  `MessagesWritten`; the update thread and a call of `stop()` go on, and `run()`
  returns when it can. Nothing makes a client connect, send or answer, nor the
  application launch or stop.
* Map: a thread that holds the mutex goes on. No fairness for a thread that
  wants it: `std::mutex` promises none.
* Sessions: strong fairness of a ready handler, since the context thread is
  taken away by a blocking `close()` and given back again and again; the
  properties assume that no `close()` blocks for ever, which the code does not
  guarantee.

## Proofs

All theorems are of the form `Spec => []P` or `Spec => [][A]_v`, for every value
of the constants that the named `ASSUME`s, or the hypotheses stated with the
theorem, allow (`Spec` is `MapSpec` for the map and `TimedSpec` for the boards of
TimedBoards).

* **SequenceLemmas** — what the others need of sequences: a sum of sizes under
  append, cons, tail and front (`Total`); elements moved between two
  concatenated sequences; what the operators of BoardSequences return; and
  insertion into, and erasure from, a sequence sorted by a strict order, up to the
  loop that inserts the elements of a list one by one and so sorts it
  (`RoundsSort`). Where such a loop is a recursive function,
  its values are obtained round by round from a least counterexample
  (`LeastNat`), so that no induction scheme has to be instantiated.
* **ThreadSafeQueueProofs** — `TypeCorrect`, `CounterExact`, `LimitsRespected`,
  `StopReachesEveryone`, `WakeupsSuffice`, `RefinesContract`. The counter
  invariant is inductive together with the types. The limits need the counter
  invariant as well: only when nothing has wrapped does the check on the counter
  bound the real sum. The wakeup invariant counts helpers (threads about to
  notify, or awake) against the elements while somebody sleeps.
  `RefinesContract` says that initial states and steps of the queue are those of
  the contract, whose fairness is model-checked (`ImplementsContract`).
* **GuardedMapProofs** — the two classes that are an `unordered_map` behind a mutex.
  For `rate_limiter`, `TypeCorrect`, `AdmissionLimited`, `AdmittedAtRate`,
  `RefinesTokenBucket` and `ThreadJoined` (no cleanup thread outlives the limiter).
  `AdmissionLimited` assumes nothing of `cleanup_after_idle_duration` but that it is
  positive: in that time a client gains at most `Gain`, its refill or, if the bucket
  is dropped before it is full, a full one. The invariant (`Credit`) adds to what was
  granted what a client could still take, counting the time since its bucket was last
  used at the rate of `Gain`, so that a clean-up adds nothing. `AdmittedAtRate` and
  `RefinesTokenBucket` are about the case that idling until clean-up refills a bucket
  (`CleanupRefills`), as it does with the defaults; the constructor does not check it.
  They rest on what a bucket *would* hold if refilled now (`Level`): ticks, grants and
  clean-ups change it as they change the abstract bucket. For `thread_safe_unordered_map`, `ValueStable` and
  `RefinesContract`. The invariant says that whoever is inside holds the mutex, alone,
  and how the map differs from `before`, the map when the mutex was taken: in the
  element of a `locked_value`, by one change, or in the elements `for_each` has come
  to. The refinement maps the abstract map to `before` while the mutex is held.
* **HttpConnectionProofs** — `TypeCorrect`, `InOrder`, `SingleWriter`,
  `NothingForgotten`, `NoStall`, `RejectedLast` and `ClosesLast`, for any number of
  connections and requests. They need no fairness, only that the connections take
  steps of HttpConnection (`Invariance`). The invariant `ConnInv` of a connection
  says that the unwritten ids are partitioned among tasks, posted handlers and
  stored responses (`Core`), and how `writing`, the outstanding write and the next
  response are linked (`Linked`). Order, single writer and the rest are not
  inductive by themselves: that `write()` finds the right response depends on the
  partition, and that it is not called twice on the link. One lemma per handler
  shows that it keeps `ConnInv`.
* **RequestServerProofs** — `InOrder`, `Drains`, `Bounded` and
  `ConnectionsRefined`, for any connections, workers, body sizes and limits, a
  `worker_count` of 0 included (where nothing drains the queue). `TakenInOrder`
  needs to know that a task's id is below its connection's next one (`IdsUsed`),
  that the queued tasks of a connection are in order and behind those being
  processed (`QueueOrder`), and that two workers never hold the same one
  (`HeldApart`). The limits need `Metered`: the counter is the sum of what is
  queued and below the limit, so that it neither wraps nor is exceeded.
  `Leaving` says that a worker leaves only when the queue is stopped and empty.
  `ConnectionsRefined` shows each step of the server to be one of HttpConnection
  with `tasks` what is queued or held (`ConnectionsBehave`), which is all that the
  theorems of HttpConnectionProofs use: what they say holds in the server with its
  queue, its workers and `stop()`. This last step is an argument by substitution and
  not itself a theorem.
* **PersistentServerProofs** — `InOrder`, `SingleWriter`, `StopJoinsAll` and
  `TypeCorrect`, for any number of sessions, packets and callers. The
  invariant of a session says that what was sent, what is in `write_queue` and
  what is posted make up the messages 1 to `sends` when put together, that at
  most one write is outstanding, and that there is one only while `write_queue`
  is not empty: without the last part a posted handler could start a second
  write. Each handler moves an element from one sequence to the next. `StopInv`
  says that at most one caller is in `stop()`, and that what it has joined no
  longer runs.
* **LeaderboardProofs** — `RankingInOrder`, `PlacementIsRight`, `BestKept`,
  `RankingRestored` and `PagesFitTogether`, for any players, scores, times, sizes
  and indices. Of the constants they use `LeaderboardAssumption`: scores and times are
  integers, sizes positive. The invariant `Inv` says that the ids of the
  entries differ and are below `next_id`, which makes the comparator a strict total
  order; that the ranking lists the entries, in that
  order; that the file is what was last saved, and `file_path.tmp`, once it is
  written, what is on the board; and that what was saved has no name twice and, with
  the highest score first, is in order. Then inserting the items in the order of the
  file keeps that order, ties included, because their new ids grow with it: this is
  why a reload restores the ranking. `Best` relates each player's best score to the
  board. It needs `Inv` since the refusal and the eviction look at the last entry
  only, which is the lowest because the ranking is sorted. `BestKept` and
  `RankingRestored` assume `HighestFirst`. For a board constructed with the lowest
  score first they are not claimed: `load()` turns its order around
  (`SortDirection`). The other theorems hold for both directions.
* **NameboardProofs** — for a nameboard `ListInOrder`, `LatestKept`,
  `NamesRestored` and `NamePagesFit`, for a score_stream `StreamRestored` and
  `StreamPagesFit`, all of TimedBoards. Sizes may be 0 here. `Inv` is for a nameboard
  what it is for a leaderboard. `LatestNamesKept` is inductive with it: what is
  evicted precedes all that stays, and what went before precedes the evicted one.
  `StreamInv` relates the file to the reversed stream.

The runs check `PagesCoverBoard`, which is `PagesCover(Indices)` of whichever board is
used, for a few indices; the theorems prove each `PagesCover(Nat)`. They rest on facts
about consecutive parts of a sequence and of its reverse (`PagesOfAny`,
`ReverseJoined`).

On the instances of the runs TLC has found these inductive invariants to hold,
too, except that of HttpConnection, which it cannot enumerate: it speaks of
functions on all natural numbers.

Only model-checked: all liveness (`StopReleasesWaiters`, `EveryRequestAnswered`,
both `StopReturns`, `ServerAnswers`, `DestructorReturns`, `PacketsBroadcast`,
`MessagesWritten`, `MutexReleased`, the fairness in `ImplementsContract` of the
queue), since fairness and ENABLED are beyond the prover.

## Not modelled

* **`http_parser`**: `parse_query` is a pure function of text. What it returns
  rests on which strings `std::stoll` and `std::stod` accept, so a faithful model
  would be one of characters. The response setters fill in fields.
* **`file_helper`**, **`logger`**: paths, directories and output, no state.
* **`to_json` and `from_json` of `entry`**: none of the boards uses them.
* **Moves of `locked_value`**: the lock moves with the pointer, and a moved-from
  handle is not to be used.
* **Misuse that the language leaves undefined or that ends the process**:
  launching a server twice or after it was stopped, stopping it from one of its
  own threads, destroying a derived server before `try_stop()` has returned,
  calling the map from a callback of its own `for_each`, a leaderboard with
  `max_size` 0.
* Contents of requests, responses and messages; failure to allocate memory; loss
  of data the operating system has not yet written to disk; `double` rounding in
  the limiter.
