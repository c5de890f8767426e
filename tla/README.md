# SentryPeer in TLA+

SentryPeer is a SIP honeypot: it accepts SIP messages from anybody, stores who sent
them and which number they tried to call in an SQLite table, and shares those events
with other SentryPeer nodes over OpenDHT. This directory models the parts of it that
run concurrently or can fail half-way, checks them with TLC and proves their safety
properties with TLAPS.

## 1. Inventory

| Component | Source | State | Operations | What makes it correct |
|---|---|---|---|---|
| Replication | `sip_daemon.c` (`sip_log_event`), `peer_to_peer_dht.c`, `bad_actor.c`, `json_logger.c` | table `honey`, `node_id`, the event in hand, values on the DHT | build, log, put; callback: check, look up, log | no event twice, nothing shared that is not stored, true origin, every node learns |
| SIP daemon (C) | `sip_daemon.c` | `master`, `reads`, `max_socket`, sockets, address buffers | `select` loop: accept, recv, close, recvmsg | the sets match the open sockets, nobody starves, the event names its sender and destination |
| SIP server (Rust) | `sip.rs`, `tcp.rs`, `udp.rs`, `tls.rs` | listener tasks, a task per connection or datagram, Tokio's worker threads | accept, handshake, read, log, reply; panics | what is sent is handled whatever other peers do |
| `bad_actor_log`, JSON log | `bad_actor.c`, `json_logger.c`, `json_logger.rs` | the log file, the table, what the WebHook has | append a line, insert, post | log, table and WebHook agree, whichever step fails |
| Database | `database.c`, `database.h` | SQLite file, one connection per call | insert, exists, two lookups, two lists | calls look atomic to their callers although statements interleave |
| HTTP API | `http_*.c`, `regex_match.c` | the request of each connection | two calls of `route_handler`: find the route, query, reply | the right query for each URL, true replies |
| WebHook | `json_logger.c`, `json_logger.rs` | `oauth2_access_token`, shared | test, request, POST, reset on 401/403, retry | a retry uses a new token; results are true; calls return |
| Lifecycle | `sentrypeer.c`, `signal_handler.c`, `http_daemon.c`, `sip.rs` | `config`, its threads and handles, `cleanup_flag` | start and stop of HTTP, SIP, DHT; signal | nothing is freed while in use; a signal ends the process |
| Configuration | `conf.c`, `cli.rs`, `config.rs` | mode flags and texts of `config`, TLS settings | defaults, environment, `getopt` or clap; file, environment, command line for TLS | precedence; what the user asks for is on |
| SIP parser | `sip_parser.c` | none | fill in a `bad_actor` | rejects what does not parse |

Interactions: SIP server -> `sip_log_event` -> `bad_actor_log` (JSON log, then the
database, then the WebHook) -> `peer_to_peer_dht_save`. OpenDHT's thread ->
`dht_value_callback` -> `db_bad_actor_exists`, `bad_actor_log`. A libmicrohttpd thread
per connection -> database queries. All of them hold a pointer to the same
`sentrypeer_config`, without a lock. `main` starts them in the order HTTP, SIP, DHT
and stops them in the same order.

Hard behaviours: several threads over one SQLite file with no busy handler; lookup and
insert as two transactions; a new `node_id` on every start; DHT redelivery; a
`select()` loop whose body changes the sets it iterates over; a blocking `recvmsg` in
that loop; blocking work on Tokio's worker threads; three builds of one function; a
shared token that is freed by whoever is refused first; shutdown while callbacks run.
`PROJECT.json` lists each at its line under `hazards`.

## 2. Modules

| Module | Models | Shown by |
|---|---|---|
| `BadActorPool` | abstract: each node has a growing set of known events | refined by `Replication` |
| `Replication` | how an event travels, node crashes, faults, DHT | TLC; `ReplicationProofs` |
| `SipDaemon` | `sip_daemon_init` | TLC; `SipDaemonProofs` |
| `BadActorLog` | `bad_actor_log` in its three builds, the JSON log | TLC and `SipServerProofs`, in `SipServer` |
| `SipServer` | extends `BadActorLog`: the tasks of the Rust server, or the C daemon, as its callers, with the DHT listener | TLC; `SipServerProofs` |
| `HoneyTable` | abstract: inserts and lookups as atomic calls that may fail | refined by `Database` |
| `Database` | `database.c` over SQLite's locks | TLC, in `HttpApi`; `DatabaseProofs` |
| `HttpApi` | extends `Database`: requests, routes, replies | TLC; `HttpApiProofs` |
| `WebHook` | `json_http_post_bad_actor`, `json_http_post_bad_actor_rs` | TLC; `WebHookProofs` |
| `Lifecycle` | `main`, both SIP servers | TLC; `LifecycleProofs` |
| `Config` | `process_cli`, `load_all_configs` | TLC; `ConfigProofs` |
| `MC...` | small instances | |
| `...Proofs` | inductive invariants and theorems (section 4) | TLAPS |

**Replication.** `Start`, `Stop` are `main`; `Stop` may happen at any point and stands
for a crash as well: the table `db[n]` stays, everything in memory goes, and
`starts[n]` selects a new `node_id`. `SipBuild`, `SipLog`, `SipPut` / `SipPutFails` are
the three effects of `sip_log_event`; `bad_actor_log` is an operator with its outcomes
(success; failure without a row; failure *after* the row, when `sqlite3_close` fails).
The JSON log and the WebHook appear there only by whether they make `bad_actor_log`
fail: the JSON log does, the WebHook does not. `ListenerCheck` is `dht_value_callback`
up to and including `json_to_bad_actor`, `ListenerLog` the rest; SIP workers may run
between them. `db_bad_actor_exists` answers "false" on any error (fault `"exists"`), and
the history variable `misled` remembers of which event, on which node, it denied a row
that was there: `NoDuplicateRows` allows a second row of those events and no others.
The insert itself is one step; that this is a sound view of `database.c` is what
`Database` refining `HoneyTable` shows. OpenDHT is external: `Deliver` may repeat,
`Expire` may remove values whose owner is not running, `ForeignPut` adds values no
node wrote. Those may be anything: JSON the listener rejects, somebody's own events, and
a node's events under another `created_by_node_id`, which the listener stores because
nothing is signed. Two things alone are out of reach of a stranger: to guess an
`event_uuid` before it is on the DHT, and a `node_id` before it exists (both are random
UUIDs). `foreign` remembers what strangers have put. `TrueOrigin` says what is left:
a row names the process that generated the event, or it is, as it stands, such a value.

**SipDaemon.** One action per branch of the loop body; `todo` is what is left of the
`for` loop. The turn of any descriptor ends with the test of the UDP bit (`UdpTest`),
which may enter the blocking `recvmsg`. `getnameinfo` or `select` failing makes the
thread return for good, as does a failing set-up. `ipBuffer` is the stack slot of the
uninitialised buffer: reading it yields what an earlier turn left there or anything
else. `dest` is what `dest_ip_address_buffer` points to; an event that is destroyed
frees that string, and a later datagram of the same round would carry the dangling
pointer if `IP_PKTINFO` did not supply a new one. `getsockname` may fail and `recvmsg`
may fail or bring no control message; then no string is made and the event gets the
old one, marked `untold`, or the process aborts if there is none. `pktInfo` is whether the build defines
`HAVE_IP_PKTINFO`: `configure.ac` tests for it, `CMakeLists.txt` does not. Peers
connect, send, hang up or reset at any moment. Left out: the reply's text, packet
contents and lengths, `FD_SETSIZE`.

**BadActorLog and SipServer.** `BadActorLog` is one call of `bad_actor_log`, part by
part, for many events at once. `Writes` are the `write(2)` calls behind a line, and
`Reported` says of which of them the caller learns that it failed: stdio hands over a
line longer than its buffer in blocks, of which `fclose` reports the last; a Rust
`BufWriter` that is dropped swallows the error. `logfile` is the sequence of blocks as
they reach the file: every call opens it for itself, so blocks of two long lines may
alternate, and a failed write may leave half a line behind (`crossed` remembers the
lines this happened to). A failed insert may have stored its row. The POST is one step
that may fail, or abort the process; nothing is assumed of its ending, as its retries
need not end. `SipServer` adds who calls it. A task
that awaits its peer occupies no worker thread; `log_sip_packet` occupies one until it
returns, and so does the only thread of the C daemon, which can also sit in `recvmsg`
(`DaemonBlocks`), return for good (`DaemonEnds`) or hit an `assert` (`DaemonAborts`). A
listener's task can panic at
`unwrap`, a connection's task at a NUL byte or a failed reply. `stage`, `outcome` and
`rows` are one event's call, its result and the table; Replication has what happens to
the row afterwards.

**Database.** A call moves through the places of `LockAt`, holding the lock given
there. SQLite is external; its locks follow its documentation (rollback journal,
PENDING counted as EXCLUSIVE, no busy handler). A list is two statements, and the lock
is dropped between them. Two columns stand for `source_ip` and `called_number`;
`Unlisted` is a number the `WHERE` clause of the phone-number queries does not select;
`Texts` is what can stand in a column or be asked for.
With `SqliteFails` any call of SQLite may fail without a lock (`InsertFails`,
`ExistsFails`, `QueryFails`), `sqlite3_finalize` and `sqlite3_close` after the
statement took effect included: an insert that reports failure may have stored its row,
and a lookup that found its event may say "false". These are the faults `"log"`,
`"close"` and `"exists"` of `Replication`.

**HttpApi.** libmicrohttpd calls `route_handler` twice per request (`FirstCall`,
`SecondCall`); between the second call and the reply the thread takes the steps of
`Database`, interleaved with the inserting threads. A URL is a sequence of segments, so
that "matches from segment i on" (`IpAddressAt`, `NumberAt`) is what the unanchored
expressions of `http_routes.h` do; `regex_match` copies the capture up to the end of
the URL. `Route` is the first matching `else if`. A reply is its status and the texts it
shows; `was` remembers whether the request asked for something stored, `denied` whether
its last statement met a lock or failed. `Unprintable` texts are not UTF-8, which
neither libosip2 nor SQLite minds; jansson does, so the list that contains one is
answered 404 (`Appended`).

**Lifecycle.** `main` is a program counter; workers are reduced to where they use
`config` and `config->dht_node`. C: `pthread_cancel`, then `pthread_join`; the
cancellation is deferred, since `sip_daemon_run` sets the asynchronous cancel type on
its caller's thread. Rust: a oneshot message, no waiting; the server thread may also
have died during set-up, which main does not learn. `dht_node` starts as garbage
because the config is `malloc`ed and the member is not set.

**WebHook.** Both functions, selected by `build`. A token is the heap block it lives in,
so use after free is visible (`Garbage`), and a block nobody refers to can be reused.
One action per access to the shared pointer. `Abort` ends the process: an `assert` or a
second `free` of one block in C, an `expect` or `unwrap` in Rust, which C cannot catch.
curl options and their error returns are each `RequestFails` or `PostFails`.
`PostUnheard` is a POST that the WebHook accepts and whose answer is not there after two
seconds; `accepted` is therefore "no", "yes" or "unheard".

**Config.** A text is represented by where it comes from, a flag by being on; inputs are
named after the member they set. `GetOpt` takes the options in any order; clap exits on
a missing `requires` (`ClapAccepts`), and `parse_args` can give up with an `Err` between
its assignments, which `process_cli` ignores. `create_tls_cert_and_key` asks the user,
who may answer anything. `long` says of each text from which of the two sources it
comes too long for its buffer. Then `load_all_configs` reads file, environment and command
line for the TLS settings in the thread of the SIP server. Which configuration file is
used is not represented.

## 3. Runs

| Run | Expected | Shows |
|---|---|---|
| `replication` | pass | `TypeOK`, `NoDuplicateRows`, `StoreBeforeShare`, `TrueOrigin`, `OwnEventOnce` and the refinement `ImplementsPool`, with every fault and foreign values |
| `replication_live` | pass | `Converges` |
| `sip_daemon_loop` | pass | `TypeOK`, `WatchesOpenSockets`, `TurnsOnOpenSockets`, `OwnDestination`, `TcpServed` |
| `sip_daemon_source` | violation | a TCP event is logged with an address from an uninitialised buffer |
| `sip_server` | pass | `TypeOK`, `LogCoversTable`, `PostedIsStored`, `AnsweredIsStored`, `SentIsHandled`, three builds |
| `http_api` | pass | `ApiTypeOK`, `NothingInThereYet`, `ListLongEnough`, `NoPartialMatches`, `ReplyTellsTruth`, the refinement `ImplementsTable` |
| `database_duplicate` | violation | `SQLITE_BUSY` in a lookup leads to a duplicate row |
| `lifecycle_stop` | pass | `TypeOK`, `ConfigOutlivesThreads`, `NoPutAfterDelete`, `SignalEndsProcess`, all modes |
| `lifecycle_startup` | violation | an event is saved before `config->dht_node` is set |
| `webhook_safety` | pass | `TypeOK`, `RetryUsesNewToken`, `ResultTellsTruth`, `LoneCallReturns`, both builds |
| `config` | pass | `TypeOK`, `TextsByPrecedence`, `ModesAsAsked`, `TlsTogether`, three builds |
| `config_env` | violation | Rust: a flag set in the environment is lost |

Run one with `tlc -config Replication_safety.cfg MCReplication`.

Each violation is recorded under `findings` with the line of the repository it
contradicts. Where a passing property excepts what a violation run shows, it says that
nothing else goes wrong: `Replication!NoDuplicateRows` beside `database_duplicate`,
`ModesAsAsked` beside `config_env`. Further behaviour the models exhibit, and which the
passing properties therefore exclude by their wording:

* of the JSON log: two threads tear each other's long lines, which are written in blocks
  (`json_logger.c:421`, `:446`); a failed write of all but the last block of a long line
  in C, and of a line of usual length in Rust, where the `BufWriter` is dropped
  (`json_logger.rs:198`), goes unnoticed (`LogCoversTable` excepts just these lines, by
  `crossed` and `unseen`); with Rust and `-N` neither log nor WebHook gets anything
  (`bad_actor.c:101`, `:124`; `LogCoversTable` speaks of the builds that log);
* the Rust WebHook function posts nothing without OAuth 2 mode and reports success
  (`json_logger.rs:365`), and reports failure after a retry that was accepted (`:340`);
  `ResultTellsTruth` excepts both;
* `SENTRYPEER_TLS_DISABLE` is documented (`cli.rs:73`) and read nowhere, nor is
  `SENTRYPEER_WEBHOOK` (`README.md:236`; `SENTRYPEER_WEBHOOK_URL` turns that mode on);
  `ModesAsAsked` excepts the former;
* a key file that does not exist makes `parse_args` give up after the certificate, `main`
  goes on, and the SIP server reads a null pointer (`conf.c:254`, `config.rs:90`;
  `TlsTogether` says that nothing but an `Err` of `parse_args` leads there);
* with the Rust server, `config` is freed while Tokio threads still log
  (`ConfigOutlivesThreads` excepts them; `sip.rs:305`, `sentrypeer.c:171`), and an
  event can be put on a deleted DHT node (`NoPutAfterDelete` likewise);
* without a SIP server (`-R`) the process aborts in `sip_daemon_stop`
  (`SignalEndsProcess` excepts it; `sentrypeer.c:154`, `sip.rs:297`);
* a row inserted between the two statements of a list pushes the oldest entry out of
  the reply (`ListLongEnough` speaks of the number of entries only; `database.c:440`);
* a header can be printed from a freed token, or the POST sent without one
  (`json_logger.c:524`, `:552`); two threads can take each other's token away and retry
  for ever, and a WebHook that refuses valid tokens makes the recursion endless with
  one thread already (`json_logger.c:635`; `LoneCallReturns` speaks of a thread that is
  left alone with a WebHook that honours valid tokens);
* a POST that is reported as failed may have been accepted, if the answer did not come
  within two seconds (`json_logger.c:511`; `ResultTellsTruth` speaks of what the call
  heard);
* an event of the C daemon carries a string that was freed or belongs to another event,
  when `getsockname` or `recvmsg` failed for it (`sip_daemon.c:502`, `:586`;
  `OwnDestination` excepts just that event);
* a forged event is stored under the `node_id` it names (`peer_to_peer_dht.c:204`);
* a put that fails is not repeated, and the event stays with its node
  (`sip_daemon.c:171`; `Converges` is checked without that fault);
* with one datagram and one TCP client ready at once the C loop calls `recvmsg` twice,
  and the second call blocks the only thread until another datagram comes
  (`sip_daemon.c:560`; `TcpServed` is checked with datagrams that keep coming);
* a build by CMake has no `HAVE_IP_PKTINFO`, so `setsockopt` is called with option 0 and
  the C daemon gives up at start-up (`sip_daemon.c:344`; `OwnDestination` holds there
  because no event is ever made);
* a POST that fails
  aborts the process of the Rust build (`json_logger.rs:323`), and so do the asserts on
  the token reply in C (`json_logger.c:154`);
* the Rust handlers reply although the event could not be stored (`tcp.rs:42`;
  `AnsweredIsStored` is about the C daemon); a failed `accept` leaves a transport deaf
  (`sip.rs:106`), `select` or `getnameinfo` failing ends the C daemon
  (`sip_daemon.c:406`, `:448`, `:677`), and both leave messages unhandled
  (`SentIsHandled` excepts them by `ServerGone`);
* `/ip-addresses/ipset` is never served: the expression of the route before it matches
  and answers 400 (`http_routes.c:82`); URLs with anything in front of a documented path
  are served (`NoPartialMatches` speaks of how a URL ends);
* a locked database and a failing query are answered 404, and so is, for good, a list
  that contains a text that is not UTF-8 (`http_called_numbers_route.c:50`;
  `ReplyTellsTruth` excepts them);
* a WebHook URL that is too long turns the mode on with the default URL (`utils.c:68`).

**Bounds.** Replication: two nodes and two events make every exchange of an event
happen; one of the nodes restarts (`MaxStarts`), which is enough for its events to come
back to it under another `node_id`; `MaxRows = 2` lets a duplicate of a row appear; with
two workers per node two inserts compete. The foreign values are one without a UUID, an
incomplete one, and a forged one that competes with an event of a node: it is a
stranger's if it comes before that event, and a copy under another `node_id` if it comes
after. There is one of them per behaviour (`MaxForeign = 1`), as a listener looks at one
value at a time. The liveness run has one start per node and no foreign values. SipDaemon:
two clients that may connect repeatedly, two descriptors below and above the listening
ones, so that a descriptor freed early in a round is reused in it, `max_socket` is
raised, and descriptors run out; one datagram in the queue at a time. SipServer: two
peers, one event from the DHT, two long lines among the three,
and one worker thread, so that whatever blocks it blocks everything; the log without
replies, and the WebHook with replies; a datagram and a connection, or two over TLS.
HttpApi: one thread of each kind, three events of which two share a
called number, a text that is not UTF-8, three rows; every documented endpoint, and URLs that match in part, in
the middle, or twice. An HTTP thread may ask any number of times. Lifecycle is finite by
itself. WebHook: two threads, one call each with any number of retries, one expiry,
three heap blocks, which is enough for `malloc` always to find an unused one. Config:
every environment variable with every pair of options; all TLS options with every kind
of file; long texts, in one source at a time, and relative paths with every pair of texts
in either source. The largest run, `replication`, has two and a half million states and
takes about three minutes; the next, `sip_server`, half a million.

**Deadlock checking** is off where behaviours end: the bounds on starts, rows and calls
are reached, all peers were served, start-up is over, a thread has returned for good, or
the process has exited.

**Fairness.** `Replication!Fairness`: SIP workers and the callback proceed (nothing in
them waits indefinitely, the WebHook aside), OpenDHT delivers what is on the key, and
the callback is called for each queued value (strong fairness, as OpenDHT works
through its queue and another value may be taken first). Nothing is assumed of
starts, stops, expiry and foreign values; `Converges` therefore ends "unless one of
the two nodes stops". `SipDaemon!TrafficSpec`: the thread runs, and datagrams keep
coming; the latter is needed because of the blocking `recvmsg`.
`Lifecycle!FairSpec`: threads are scheduled and an entered handler is left; the
endless WebHook retry is the known exception. `WebHook!FairSpec`: threads are
scheduled and a request is answered or times out. `SipServer!FairSpec`: Tokio polls a
task that can go on, the C daemon's thread is scheduled, and writing and inserting end;
nothing is assumed of the peers, which may stop at any point, nor of the WebHook.
`SentIsHandled` names what it needs beyond that as premises: that no call stays with the
WebHook for ever and that the C daemon does not stay in `recvmsg`. Both can happen in
this code, and then messages do stay unhandled.

**Mutants.** Every property of a passing run has a mutated definition in
`PROJECT.json` (the operators marked "Bug variant") under which TLC finds it violated.

## 4. Proofs

Every invariant a run checks, and both refinements, are also theorems: TLC shows them on
an instance, TLAPS for every value of the constants that satisfies the module's named
`ASSUME`s. Each proof module defines an inductive invariant (`IInv`, `ApiIInv`), proves
that the initial states satisfy it and that each action preserves it (one lemma per
action or group of actions), and derives its theorems from it. The assumptions are
that names of different kinds differ, and `IsFiniteSet(Clients)` in `SipDaemon` (a
backlog of different clients has to be bounded). Check one with
`tlapm ReplicationProofs.tla`.

| Module | Theorems | Their properties |
|---|---|---|
| `ReplicationProofs` | `TypeCorrect`, `SharedIsStored`, `OriginIsTrue`, `OwnEventsOnce`, `NoDuplicates`, `PoolRefined` | `TypeOK`, `StoreBeforeShare`, `TrueOrigin`, `OwnEventOnce`, `NoDuplicateRows`, `ImplementsPool` |
| `DatabaseProofs` | `TypeCorrect`, `NothingToLeak`, `ListsAreLongEnough`, `TableImplemented` | `TypeOK`, `NothingInThereYet`, `ListLongEnough`, `ImplementsTable` |
| `HttpApiProofs` | `ApiTypeCorrect`, `ApiIsDatabase`, `ApiKeepsTable`, `NoPartialMatch`, `RepliesAreTrue` | `ApiTypeOK`, `HttpSpec => Spec`, those of `Database` under `HttpSpec`, `NoPartialMatches`, `ReplyTellsTruth` |
| `SipDaemonProofs` | `TypeCorrect`, `WatchesAllOpen`, `TurnsAreOpen`, `DestinationsAreOwn` | `TypeOK`, `WatchesOpenSockets`, `TurnsOnOpenSockets`, `OwnDestination` |
| `SipServerProofs` | `TypeCorrect`, `LogIsComplete`, `PostsAreStored`, `AnswersAreStored` | `TypeOK`, `LogCoversTable`, `PostedIsStored`, `AnsweredIsStored` |
| `WebHookProofs` | `TypeCorrect`, `RetryIsFresh`, `ResultIsTrue` | `TypeOK`, `RetryUsesNewToken`, `ResultTellsTruth` |
| `LifecycleProofs` | `TypeCorrect`, `ConfigSafe`, `NodeSafe` | `TypeOK`, `ConfigOutlivesThreads`, `NoPutAfterDelete` |
| `ConfigProofs` | `TypeCorrect`, `PrecedenceKept`, `ModesKept`, `TlsKeptTogether` | `TypeOK`, `TextsByPrecedence`, `ModesAsAsked`, `TlsTogether` |

**Replication.** `NoDuplicateRows` is not inductive: that the SIP worker's insert makes
no duplicate needs that nobody else knows an event before it is logged (`HandsUnknown`)
and that two workers never hold the same one (`HandsOwn`); that the listener's insert
makes none needs that what the lookup said is still true, unless it failed
(`LookupStillTrue`), which holds
because the only others who insert on this node insert events nobody has seen
(`HandsUnknown`), and the listener's value was on the DHT (`ListenerHonest`). That in
turn needs to know where values come from (`NetworkHonest`, `SharedOwn`), that strangers
have guessed no `event_uuid` and no `node_id` (`ForeignGuessesNothing`), and that a
`node_id` of a later start is new (`CreatorsStarted`, `RowsStarted`: a forged row cannot
name a process that has not started yet, so `OwnEventOnce` survives a restart). `StoreBeforeShare` needs that a
logged event in hand is stored (`HandsStored`). `PoolRefined` maps `SipBuild` to
`Capture`, `SipLog` to `Store`, `SipPut` to `Publish`, `ListenerLog` to `Learn`, a
well-formed `ForeignPut` to `PublishForeign`, and everything else to a stutter.

**Database.** Two arguments. Between the two statements of a list no lock is held, and
none is needed: the table only grows (`Grown`), so what was stored when the list was
asked for still is (`BeforeKept`), what was counted is between that and what is stored
now (`CountKept`), and what is selected has all of it, once (`ListKept`). The locks are
needed for the bound of the table and for the writers: RESERVED excludes RESERVED and
EXCLUSIVE (`OneWriter`), so the room a writer found is still there when it commits
(`RoomToWrite`). `TableImplemented` maps `Commit` to `Insert`, `ExistsStep` to `Look`,
every error, before or after it, to `Fail`, and the other steps
to calls, returns or stutters.

**HttpApi.** The steps of the composition are steps of `Database` (`ApiIsDatabase`), so
its theorems carry over. `NoPartialMatches` needs what the unanchored expressions capture
for an arbitrary URL (`RestIsOne`, `CapturedIsLast`). `ReplyTellsTruth` needs that a
documented URL is hidden by no earlier route (`ListRoute`, `IpAddressRoute`,
`NumberRoute`), that what it asked for is still stored (`WasInv`), that a lookup kept what
it found (`LookupKept`), and that rows are only written to a table that is there
(`CreatedFirst`): without these a 404 could have yet another reason. That a text spoils
its list and no other follows from the query of a URL being that of its column.

**SipDaemon.** `master` is right in every state, not only at `select()` (`MasterIsOpen`);
a turn on the listening socket finds a client (`AcceptWontBlock`), each of whom waits
once (`BacklogDistinct`). `OwnDestination` rests on the set-up refusing to run without
`IP_PKTINFO` (`RunsWithPktInfo`): whoever runs asks for a destination in either branch,
so only an event whose own call failed can have an old one.

**SipServer.** A part of `bad_actor_log` that is over has left its effect: the line is
written, or its failure known or unseen (`LinesBehindCalls`), and the row is there
(`StoredBehindCalls`); a reply was earned by a call that succeeded (`RepliesEarned`).
While a long line is half written and not `crossed`, its first block is the last of the
file and begins a line; what has become a whole line stays one, whatever is appended
(`WholeStays`).

**WebHook.** Nothing a thread has copied from `config`, and nothing it could still copy,
was refused in its call, except while it is busy throwing the token away
(`RefusedIsGone`); that needs that a loaded pointer is used at once (`PointerShortLived`)
and that no call gets near the token without OAuth 2 mode (`TokenOnlyInOAuth2`). A call
under way has no result yet (`NoResultYet`).

**Lifecycle.** What main has got past is stopped (`HttpStopped`, `SipStopped`,
`DhtStopped`), the process does nothing after its end (`ProcessOver`), and `config` is
freed after all of that (`FreedLate`).

**Config.** What is set at each place of `main` is what the sources read so far say
(`OptionsSoFar`, `CTextsSoFar`, `TlsTextsSoFar`, `ModesSoFar`, `TlsSoFar`), by the parser
of the build (`RightParser`).

Three statements became more precise on the way. `Config!Preferred` had a `CASE` whose
guards overlap, which leaves the choice open (TLC takes the first). `HttpApi!ToShow` let
a text of either form be asked for at either endpoint; an IP address in the
`called_number` of a foreign event is stored, but no documented URL asks for it, and
`/numbers/` with it is rightly answered 404. And the refinement of
`HoneyTable` needs that "no call in progress" is not itself a call (`NoneAssumption`).

Only model-checked: the liveness properties `Converges`, `TcpServed`, `SentIsHandled`,
`LoneCallReturns` and `SignalEndsProcess`, whose fairness is out of the prover's reach.

## 5. Not modelled, and the plan

Not modelled: texts of events, JSON and SIP formatting, syslog, the TLS handshake's
inside, packaging, the web GUI theme. `sip_message` contents are libosip2's business; a
message parses or not. `lib.rs` is mostly examples of calls between C and Rust;
`json_to_bad_actor_rs` is called by tests only. Of the C daemon: descriptors beyond
`FD_SETSIZE`, for which a small instance has no room, and the length -1 of a failed
`recvmsg`, which is for libosip2 to deal with. Of the database: connections that error paths leave open (they hold
no lock), and cancellation of the C daemon's thread inside SQLite.

What the proofs leave: the findings are counterexamples and stay with TLC; a statement of
what does hold where they strike (`Database!NoDuplicateRows` as long as no lookup of the
listener meets a lock) is worth a theorem of its own, and so are safety halves of the
liveness properties (that `recvmsg` is the only place where the C loop waits for a peer
without a descriptor being ready, and that every task of the Rust server that occupies a
worker thread is in `bad_actor_log`).
