# Formal models of WebsocketServer

TLA+ models of the TLS WebSocket server, its file upload service, its thread
pool, its stream parser and its command-line client, with TLC runs on small
instances and TLAPS proofs for every size. Paths below are relative to the
repository; "`WssServer.cpp`" is `src/server/WssServer.cpp` and so on.

## 1. The system

One process, one **IO thread** in an edge-triggered `epoll` loop, a **pool of
workers**, and clients.

| Part | State | Operations | Talks to |
|---|---|---|---|
| Connections (`WssServer.cpp`) | `conns`; per connection the TLS phase, `ws_upgraded`, `closing`, the `outbound` queue and its lock, `last_ping` | accept, handshake (early data, then `SSL_accept`), read, answer, flush, close | epoll, OpenSSL, parser, pool |
| Timer and eventfd (`WssServer.cpp`) | the eventfd's counter, ping and idle timestamps | Ping, sweep, close the idle, clean up file sessions | connections, file sessions |
| Thread pool (`ThreadPool.cpp`) | FIFO queue, `stop_`, counters, mutex and condition variable | submit, workerLoop, stats, destructor | runs echoes and file messages |
| File sessions (`FileTransferManager.cpp`) | `g_states` (bitmap, counter, descriptor, timestamp), temporary and final files | START, QUERY, CHUNK, cleanup | disk, called by workers and the timer |
| Stream parser (`WebSocketCodec.cpp`) | `buffer_`, `state_`, the unfinished fragmented message | feed, tryConsumeUpgrade | called by the IO thread and by clients |
| Upload client (`main_client.cpp`) | the bitmap, the next chunk, what it waits for | START and QUERY, chunks one by one, FINISH_ACK | the server |
| HTTP static server (`WssServer.cpp`) | `http_conns`; per connection a phase, request and response buffers | read a request, write a response, log a POST | epoll, disk |
| TLS context, buffer pool, configuration, CRC32, logger, browser page | | set-up, helpers | |

What is hard, and what makes each part correct:

* **Connections.** Two kinds of threads push on one queue, one empties it.
  `closing` is written outside the lock. With edge triggering a lost report
  is a frame that is never sent. Replies can be queued before the handshake
  ends. Right means: frames in a legal order, each echo once, no frame
  forgotten.
* **Descriptors.** `epoll` reports numbers, the tables are keyed by number, and
  the kernel gives a number away the moment it is closed, while the rest of
  the batch, a worker's copy or an `SSL` still holds it. Right means: a number
  leads to the connection it was taken from, or to nothing that does harm.
* **Heartbeat.** Two settings, corrected against each other; a Ping that counts
  as a sign of life; a scan that runs late. Right means: healthy peers stay,
  half-open connections end.
* **HTTP.** A request is cut anywhere, its body counted in two places; sockets
  are edge-triggered across changes of phase. Right means: the cuts change
  neither the log nor the answer, and the answer is sent.
* **File sessions.** Sessions outlive connections; chunks are repeated, torn,
  overwritten; system calls fail between two updates; the timer's clock is
  read before its lock is held; the process is restarted and the disk is not.
  Right means: the bitmap is true, only whole files are published,
  descriptors are neither leaked nor shared, only old sessions expire.
* **Thread pool.** A lost wake-up, a task left behind at shutdown, a
  destructor that never returns.
* **Client.** Its requests are handled and answered by several workers; it is
  killed with messages under way and started again. Right means: each request
  is answered, the client never counts on bytes the server lacks, and success
  means a stored file.
* **Parser.** Bytes are cut anywhere, and its state is carried from read to
  read. Right means: the cuts do not matter, and a message is handed up as soon
  as its last byte is there.

`PROJECT.json` lists every component and every hazard at its line, with the
properties that watch it.

## 2. The modules

| Module | Models | Built on |
|---|---|---|
| `SendPath` | connections, handshake, outbound queue, eventfd, timer, workers' replies | |
| `SendPathProofs` | its theorems | `SendPath` |
| `Descriptors` | descriptor numbers: tables, epoll batches, object lifetimes, late `epoll_ctl` | |
| `DescriptorsProofs` | its theorems | `Descriptors` |
| `Heartbeat` | intervals, time stamps, the timer's scan | |
| `HeartbeatProofs` | its theorems | `Heartbeat` |
| `HttpStatic` | one connection to the plain HTTP port | |
| `HttpStaticProofs` | its theorems | `HttpStatic` |
| `UploadService` | what the upload service promises, abstractly | |
| `FileTransfer` | `FileTransferManager` on a disk that fails | instantiates `UploadService` |
| `FileTransferProofs` | its theorems | `FileTransfer` |
| `UploadClient` | runs of `wss_client` against the sessions, through the pool | extends `FileTransfer` |
| `UploadClientProofs` | its theorems | `UploadClient`, `FileTransferProofs` |
| `ThreadPool` | the pool, at the level of its mutex and condition variable | |
| `ThreadPoolProofs` | its theorems | `ThreadPool` |
| `WsParser` | `WebSocketStreamParser` | |
| `WsParserProofs` | its theorems | `WsParser` |
| `MCSendPath`, `MCFileTransfer`, `MCUploadClient`, `MCWsParser` | constants and symmetry for TLC | |

`UploadClient` composes three parts: client, pool and sessions. A worker's step
`Handle` is one of `FileTransfer`'s handler actions, so everything checked of the
sessions there and everything checked here speaks of the same definitions.
`SendPath` and `UploadClient` abstract the pool to what `ThreadPool` establishes
(tasks are taken in order, each once); `SendPath` abstracts the parser to what
`WsParser` establishes (whole messages or an exception). `SendPath`, `Heartbeat` and
`Descriptors` are three views of one event loop: what is queued and sent, when
the timer acts, and which socket a number leads to. Each keeps every step of
the loop that touches its state and leaves the others' decisions open, so that
its properties hold whatever they decide: `SendPath` lets the timer close any
connection, `Descriptors` lets any event end with the connection kept or closed.

### SendPath

One action is what one thread does between two points where another can look:
a critical section of `outbound_mu`, an `epoll_ctl`, an eventfd write, or one
OpenSSL call. `pc` is the IO thread's place in its loop:

| `pc` | Code | Actions |
|---|---|---|
| `wait` | `epoll_wait` | `Accept`, `EpollConn`, `EpollHangUp`, `WakeEvent`, `TimerTick` |
| `early`, `accept` | `driveTlsEarlyRead`, `driveTlsAccept` | `EarlyFinish`, `HandshakeWants`, `HandshakeDone`, `Fail` |
| `retry`, `first` | the flush after the handshake made no progress, or ended | `HandshakeRetry`, `FirstFlush` |
| `read` | the `SSL_read` loop and `processWsInboundBuffer` | `RecvUpgrade`, `RecvPing`, `RecvPong`, `RecvClose`, `RecvData`, `ReadWants`, `Fail` |
| `push`, `flush` | queue a reply under the lock, then flush if `tls_done` | `PushReply`, `FlushReply` |
| `out`, `drained` | the EPOLLOUT part, closing a drained connection | `FlushOut`, `SkipOut`, `CloseDrained` |
| `ping`, `sweep`, `reap` | the loops of timer and eventfd | `TimerPing`, `TimerSweep`, `Sweep`, `SweepEnd`, `Reap` |

A worker goes `idle` -> `run` (`Take`) -> `mod` (`PushData`, or `Drop`) ->
`notify` (`WorkerMod`) -> `idle` (`Notify`). `queued` holds all frames ever
pushed and `sent` counts those SSL_write took; `outbound` is the difference.
`epollout` is the interest in EPOLLOUT and whether a report is due: with edge
triggering one is due after EPOLL_CTL_MOD on a writable socket or when a full
socket becomes writable. The branch for unsupported opcodes (lines 424-438) is
left out because the parser never hands up such a frame.

### Descriptors

A number is 1..`MaxFd`, and the kernel gives out the lowest that is free.
`conns` and `httpConns` are the two tables; `owner` and `interest` are the kernel's
side. `fdOf` is `Connection::fd`, and `sslFd` the number given to `SSL_set_fd`, which
`closeConnection` leaves as it is; a Connection with `sslFd` 0 has been destroyed.
`EpollWait` takes a whole batch, whose events keep the number and, for the
properties only, the connection it then belonged to (`of`). The timer first lists
numbers (`TimerEvent`) and then closes them (`Reap`). After `closeConnection` the IO
thread still holds a reference and drops it in a step of its own (`DropRef`), so a
worker may be the last holder (`EndTask`). A worker reads `conn->fd` (`ReadFd`) and
uses it (`Ctl`) in two steps, as in line 417. `closeConnection` closes the descriptor
and sets `fd` to -1 (lines 214-217) in one step of the model: a worker that reads
the number in between is one that read it before, and uses it afterwards. Files opened and closed within one
step of the IO thread (pages, `wss_browser.log`) are left out.

### Heartbeat

One connection, because the scan (lines 1105-1152) looks at each by itself.
Time passes in units of 1/`Res` second; `sinceKeep` and `sinceSrv` are the ages of
`last_ping` and `last_server_ping_sent`. The timer expires every `Res` units and its
handler runs up to `MaxLate` units later. `EffectiveIdle` and `EffectivePing` are
lines 979-986. `armed` says whether a closing connection's EPOLLOUT is on, which
decides whether line 1392 or only the idle timeout ends it.

### HttpStatic

The client's bytes are numbered, and the buffers hold those numbers: a lost,
repeated or foreign byte of a log line shows. `phase` is the code's, with
`closed` for an erased entry; `pc` says which loop of `driveHttpRead` or
`driveHttpWrite` the IO thread is in, one `recv` or `send` per step. `ready` is the
pending edge: set by new input, by room in a send buffer found full, and by
EPOLL_CTL_MOD, which looks at the socket again. The syntax of the request line
is an input (`Line`), as is the announced length. `cut` and `ResponseLost` are the
kernel's reset of a socket closed with input unread.

### FileTransfer

Every path through `handleClientMessage` and `cleanupSessions` is one action:
both hold one mutex throughout. The clock reading of the timer is a step of its
own (`ReadClock`) because it is taken before the mutex. `temp` and `published`
are the disk and survive `Restart`; `fds` is the descriptor table. A region of
a temporary file holds the chunk of some file, a hole, a torn write or a last
chunk of the wrong length. `Faults` says which system calls may fail.
`published` is per `file_id`: the display name in the final path is left out.
`rename`, the clock and restarts are the environment.

### UploadClient

`cpc` is the client's place in `main`: `start`, `query`, `bitmap` (it waits for a
QUERY_RESPONSE), `chunk`, `ack`, `finish`, then `ok` or `failed`. Messages sent are
tasks of the pool at once; workers take them in order (`Take`), handle them
(`Handle`) or find the connection gone (`Dropped`), and queue the replies
(`QueueReplies`), each of these in any order between workers. `Killed` ends a run
anywhere and leaves its messages behind; `Begin` starts the next.

### ThreadPool and WsParser

`ThreadPool` keeps the mutex only while a worker goes to sleep: every other
critical section is one step. Task `n` is the `n`-th submitted, which makes the
counter `submitted` a name as well. Calls of the owner never overlap: the IO
thread is the only one that submits, reads statistics and destroys.

`WsParser` fixes a stream of frames and feeds it in pieces of any size; `feed`'s
loop is one step per turn. Bytes have no values: a payload is the position of
its frame. The order in which the code needs bytes before it can reject a frame
(two, then the extended length, then the whole) is kept, and `Waits` has the four
places where the loop breaks off for want of bytes. The references the parser is
compared with are defined on the frames alone: `Meaning`, what they say, and
`FrameEnds`, where in the bytes of the connection each of them ends.

## 3. The runs

| Run | Question | Size |
|---|---|---|
| `send_path` | order, echoes and wake-ups on one connection | 2 workers, 3 inbound frames, 1 Ping, early data: 1,057,339 states |
| `send_path_live` | is everything queued sent? | 1 worker, 3 frames, no early data |
| `descriptors` | who owns a number, what is a stale event, what does a late `epoll_ctl` do | 2 WSS and 1 HTTP connection, files, 1 worker, 2 numbers, batches of 3: 2,210,070 states |
| `descriptors_shutdown` | *violated*: a close_notify goes to a stranger | as `descriptors` |
| `heartbeat` | who is kept, who is pinged, who ends | 9 pairs of settings, half seconds, scans up to half a second late: 522,356 states |
| `http_static` | what is logged and answered however a request is cut | 4 header lengths, bodies of 0..5, limits 6 and 3, sends of 2: 287,982 states |
| `file_transfer` | bitmap, disk, published files, refinement, every fault | 1 id, files of 2 and 1 chunks, clock 0..2: 36,600 states |
| `file_sessions` | descriptors and expiry of two sessions | 2 ids, 2 descriptors, limit 1: 174,828 states |
| `thread_pool` | order, wake-ups, shutdown, statistics, termination | 3 workers, 4 tasks: 28,936 states |
| `upload_client` | a killed and restarted client, restarts of the server, what it may wait for | 2 runs, 3 workers, 2 chunks: 518,414 states |
| `upload_reorder` | *violated*: the bitmap of another file | |
| `ws_parser` | cuts, fragments, control frames, rejections, and when a message is handed up | 3 frames of 13 shapes: 586,215 states |

**Bounds.** `MaxInput`, `MaxPings`, `MaxTasks`, `MaxRuns`, `MaxFrames` and `MaxTime` cap
what the environment does, never what the program does in answer. One
connection is enough for `SendPath`'s properties, each of which speaks of one
connection; connections share only the eventfd, the pool and the loop, where
another one's events look like the timer's or like spurious wake-ups, and the
proofs cover any number of them. Three inbound frames are an upgrade, a text
and a Close, the shortest stream with every kind of conflict. Two workers are
the least that reorder; the upload has three, the least with which a START
held by one worker can meet an old chunk in another's hands and a QUERY in a
third's (the code's pool has 2 to 16, `WssServer.cpp:1017`). Two files of different length under one id, one a
prefix in chunk count of the other, show every mix of old and new chunks; two
ids with a limit of one session force an eviction, and two descriptors make
`open` fail. A clock of 0..2 with a TTL of 1 has fresh, old and expired
sessions and room to be set back. `Wrap` stands for 2^64. A message of three
frames has a first, a middle (or a control frame) and a last.

Two descriptor numbers for three connections and the temporary files make
every number change hands between all kinds of owners, and run out. A batch
of three has a closing, an accepting and a stale event. The heartbeat's
settings 0, 1, 3 and 0, 1, 9 with defaults scaled down (7 for 120, 3 for 5)
take every branch of lines 979-986: default, automatic interval at its lower
limit and above it, an interval too long and corrected with and without
success. `MaxAge` is above every threshold. The HTTP limits are scaled so that
head and body fit in one `recv`, in several, or exceed each limit by less and
by more than one `recv`, and a page takes three sends.

**What the passing runs exclude.** `file_sessions` leaves out the failed
allocation (`memory`), after which the code does leak a descriptor. `descriptors`
and `http_static` do not check for deadlock: a failing `accept` ends the server's
loop, and an HTTP connection ends. `HealthyPeerKept` names the two cases in which
the code does drop a healthy peer: an idle timeout below four seconds (`MinPing - 1`),
where the corrected ping interval is not shorter (line 985), and a
handshake that took so long that the timeout, counted from `accept` (line 294
leaves `last_ping` alone), comes before the first Ping. `HalfOpenEnds` leaves out
upgraded connections that are not closing: the server's own Pings keep those
for ever (line 1127). `Answered` leaves out requests with a body nobody reads,
whose 400 or 503 the reset may destroy. `upload_client` leaves out read faults (a session that stays full
after one makes the next run wait for ever, `FullMeansReadError` says when that
happens) and the expiry of a session during a run: its clock stands still. If
a session is dropped between two chunks, in the code after ten minutes without
a new one or because there are too many, the client is ahead of the server.
`UploadEnds` leaves a client that waits for a FINISH_ACK it will not get while
its file is published; the smaller divergences below say how.

**Fairness.** `send_path_live`: threads run (weak fairness of the IO thread's
own steps and of each worker); `epoll_wait` serves its ready list in turn, so an
event that is pending again and again is reported (strong fairness of the
eventfd, of EPOLLOUT reports and of hang-ups); a peer that has not left reads,
so a socket offered data again and again accepts some. Nothing is assumed of
the timer: the property shows that EPOLLOUT and the eventfd suffice.
`thread_pool`: a worker that can take the mutex again and again gets it (strong
fairness per worker), and the owner finishes the call it is in; no fairness for
new calls or spurious wake-ups. `heartbeat`: time passes and the IO thread gets to
its timer (weak fairness of each); nothing of the peer. `http_static`: the IO
thread takes its steps and a client that has not left reads what is on its way
to it; it need not send. `upload_client`: client and workers run; nobody
has to start, kill or restart anything.

**Violations** are the two findings in `PROJECT.json`, each against a sentence of
the repository. `descriptors_shutdown`: the number is closed by
`closeConnection`, the `SSL` that writes to it lives until a worker drops the last
reference. `upload_reorder` makes a client skip chunks of a changed file and then
wait for FINISH_ACK.

**Smaller divergences**, which no run is spent on, and how to see them:

* A client can wait for ever for the FINISH_ACK of a file that is published. It
  takes three workers: one holds the last chunk of a killed run, one the new
  run's START, the third answers QUERY from the old session. The old chunk then
  finishes the session, its FINISH_ACK goes to the dead connection, START begins
  an empty session, and the client, which skips the chunks in its bitmap, never
  fills it. START is not awaited (`main_client.cpp:777`), and the bitmap is taken
  from either answer. To see it, state `Active(c) ~> ~ Active(c)` on `upload_client`.
* A client can fail although its file is published: with messages of two killed
  runs in the pool, old chunks complete the session while the client still has a
  chunk to send. It skips the FINISH_ACK while it waits for an acknowledgement
  (`main_client.cpp:878-887`) and its next chunk finds no session. To see it, set
  `MaxRuns = 3` with two workers and state that a client past its last chunk with
  an unread FINISH_ACK never fails.
* `rename`'s result is ignored (`FileTransferManager.cpp:470`): with `"rename"` in
  `Faults`, a state has FINISH_ACK with ok = 1 in `replies` and `published[id] = NoFile`.
* A chunk sent again does not refresh `last_update_ts` (`FileTransferManager.cpp:442`),
  so a session can expire although its client is heard of, against
  `FileTransferManager.h:30`: `Marked` leaves the time stamp of a duplicate alone.
* With early data a queued frame can be offered to SSL_write before `tls_done`
  (`WssServer.cpp:1343`, against README.md:64): `HandshakeRetry` with a non-empty queue.
  OpenSSL answers WANT_READ, and `NoLostWakeup` holds in the run with early data.
* The 503 response announces 28 bytes and has 29 (`WssServer.cpp:886`).
* A POST is told 204 although its line could not be appended
  (`WssServer.cpp:904-909`): `lostLines` counts such lines.

**Mutants.** Every property of a passing run fails when the definition named in
`PROJECT.json` is replaced by a plausible wrong version, which stands beside it
in the module as a "variant".

## 4. What is proved

All theorems hold for every value of the constants that satisfies the
assumptions declared with them (`SendPathAssumption`, `FileTransferAssumption`,
`ContentAssumption`, `DescriptorsAssumption`, `HeartbeatAssumption`, `HttpAssumption`,
`ThreadPoolAssumption`, `UploadClientAssumption`, `WsParserAssumption`) and, where
a theorem has hypotheses of its own, those. The proofs have one step per action,
and TLC has checked each inductive invariant on the run of its module first.

* `SendPathProofs!TypeCorrect`. `TypeOK` includes `sent[c] <= Len(queued[c])`, which
  makes it inductive: a flush takes at most what is pending.
* `SendPathProofs!CloseCorrect` (`DataNeverFollowsClose`). `CloseInv` adds what
  the code's order of writes provides: a Close frame in the queue implies
  `closing`, and so does a Close about to be pushed. A worker pushes only when
  `closing` is false under the lock, hence before any Close.
* `SendPathProofs!WakeCorrect` (`NoLostWakeup`). The property speaks of `pc = "wait"`
  only; in between a signal may have been spent. `WakeInv` says that then the IO
  thread is at a place from which it flushes this connection (`Serving`).
  `HandlerInv` ties those places to the handshake phase, because WANT_READ from
  SSL_write, which turns EPOLLOUT off with data pending, is only possible before
  `tls_done`.
* `SendPathProofs!UpgradeFirst` (`UpgradeResponseFirst`). `FirstInv` says who may
  queue something: a connection that is not upgraded has an empty queue, one
  that is upgraded with an empty queue is the one whose 101 the IO thread is
  about to push, and tasks, workers and the timer's Pings belong to connections
  whose queue has begun.
* `SendPathProofs!EchoCorrect` (`EchoExactlyOnce`). `EchoInv` replaces the sum by
  its cases: a text frame is at one place in the pool's queue, or with one
  worker, or at one place in the outbound queue, and nowhere else. Frames are
  numbered as they arrive, and no task or reply has a number that has not been
  given out, so a new frame cannot be taken for an old one.
* `DescriptorsProofs` (`TypeCorrect`, `NumbersOwned`, `InterestKept`, `StaleEvents`). The
  inductive invariant adds to the four properties `Lists` (what the timer is
  about to close is still in `conns` and counted as reaped; the connection the
  IO thread is about to drop, and one not yet accepted, has no descriptor) and
  `Events` (the connection an event was reported for still owns its number or
  has been reaped in this batch, and no number has two events). A late `epoll_ctl` cannot do harm because it asks for
  both directions and nothing while the number is not registered.
* `HeartbeatProofs` (`TypeCorrect`, `HealthyKept`, `PingsPaced`). `IntervalFits` is the
  arithmetic of lines 979-986: the interval is shorter than the timeout or
  equals `MinPing`. `Pace` bounds the age of the last Ping by the
  time to the next scan, `KeepFollowsSrv` says that a Ping refreshes both
  stamps, and that before the first one `last_ping` is older than the upgrade by
  no more than the handshake took; so an old `last_ping` means a Ping was due in
  the same scan.
* `HttpStaticProofs` (`TypeCorrect`, `LoggedCorrect`, `StatusCorrect`, `CutCorrect`). `Headers`
  and `Body` say what the buffers hold: `read_buf` the whole stream so far and not
  yet a header block, `post_body_accum` the stream from the end of the headers.
  They rest on lemmas about concatenating and cutting pieces of the stream.
* `FileTransferProofs`: `TypeCorrect` and `BitmapCorrect` are proved
  together (`FileInv`): the counter stays in range because it counts the marked
  chunks, and the marked chunks are on disk because every path that marks one
  has written it. All faults are allowed.
* `FileTransferProofs!ServiceImplemented`: the sessions implement
  `UploadService`, with `upload`, `got` and `stored` read off `g_states` and the final
  files. `FileInv` is needed for the step that publishes. That only whole files reach
  their final path is part of it (`Store`), so no separate property says it.
* `FileTransferProofs!DescriptorsCorrect`: under the assumption that `"memory"` is
  not among the faults.
* `FileTransferProofs!ProgressCorrect` and `FullCorrect` (the action properties
  `ProgressKept`, `FullMeansReadError`) rest on one lemma, `SessionChange`: what
  any step leaves of a session is new and empty, or the old one with no chunk
  unmarked, and if it has become full a read has failed and the reply is an error. `CleanupCorrect`
  (`CleanupSparesFresh`) counts sessions, so it needs that only finitely many are
  live (`SessionsFinite`), even if `Id` is infinite.
* `ThreadPoolProofs` (`TypeCorrect`, `WorkCorrect`, `DrainCorrect`, `StatsCorrect`). `Ledger`
  accounts for every task: tasks are numbered, the queue holds those not yet
  taken in order, and those taken are completed or being executed. `MutexHeld`
  says that the queue is empty while a worker goes to sleep with the mutex;
  `Shutdown` that a worker exits only when `stop_` is set and the queue empty;
  `Snapshot` bounds the values `stats()` has already read by the present ones.
  `WorkConserving` is part of the inductive invariant itself.
* `WsParserProofs` (`TypeCorrect`, `ThrowsCorrect`, `CutsCorrect`, `HandedUpCorrect`). `Fragmented`
  says that `in_fragment_` agrees with the frames consumed, which makes the
  code's checks those of `Legal`. `Assembly` says what the parser holds inside a
  fragmented message: the opcode of its first frame and the data frames since
  then in order. `MeaningStep` unfolds the reference one frame at a time, and
  `InOrderAppend` the order of a set when a larger number joins it; the
  invariant itself does the induction over the stream. `HandedUpCorrect`
  (`NothingHeldBack`) adds `InPlace`: the offset is where the frames consumed end,
  and between two calls the next one ends behind what has arrived. It needs what
  the recursive function `FrameEnds` computes: `EndsExist`, `EndsIs` and `LaterEnds`
  are its induction, each by the least number for which it would fail.
* `UploadClientProofs!SessionsComposed`: `UploadSpec => Spec`. Clients, connections and
  pool only choose which message the sessions handle next, so every theorem of
  `FileTransferProofs` holds in the composed system.
* `UploadClientProofs!SuccessCorrect` (`SuccessIsPublished`), for any number of clients,
  workers, chunks, runs and server restarts, and with failing `open`, `ftruncate`,
  allocation and `read`. `Intact` says that a session's temporary file is its
  marked chunks and nothing else, hence whole when the counter is full; `Told`
  that a FINISH_ACK, wherever it is on its way, belongs to a published file.
  The hypotheses say what the code needs: a path keeps its file between runs
  (`upload_reorder` shows what happens otherwise), paths with different files
  have different ids (`fnv1a64` does not collide), and neither `pwrite` nor
  `rename` fails: the client takes any FINISH_ACK for success, also one that
  reports a mismatch.

* `UploadClientProofs!WaitingCorrect` (`NeverLeftWaiting`), with no hypothesis: under
  every fault, with sessions that expire and files that change. `Attended` follows
  a request from its sending to the pool, a worker and the client's channel, and
  keeps the client's next answer in view: what it waits for, or an error, which
  ends its run. `Answered` shows that every path through the handlers that a
  message can take gives one or the other as its first reply.
* `UploadClientProofs!NeverAheadCorrect` (`ClientNeverAhead`), for any number of clients,
  workers and runs, so with old messages of any number of killed runs in the
  pool. The invariant is about what is on its way as well: an acknowledgement or
  a bitmap in a worker's hands (`WorkerSays`) or in the channel (`ClientHas`) speaks
  of chunks that are in the live session of the file, or of a published file.
  Replies behind an error are left out (`Vouched`): a chunk with a wrong CRC is
  reported and acknowledged, and the client stops at the report. `HasKept` is the
  step: without restart or expiry a session ends only by being published, and
  after that an empty one does no harm. To the hypotheses of `SuccessCorrect` it
  adds that the timer drops no session; a restart of the server is allowed,
  because it ends the connection.
* `UploadClientProofs!WaitingIsPublished` follows: a client that waits for FINISH_ACK has
  skipped or sent every chunk, and if the chunks were in a live session that
  session would be full. It needs that no read fails, without which a full
  session may stay (`FullMeansReadError`). This is the safety half of what
  `UploadEnds` leaves open: the client may wait, but never for bytes that are
  missing. `upload_client` checks its predicate, `WaitsForPublished`.

Only model-checked: liveness (`EventuallySent`, `HalfOpenEnds`, `Answered`, `WorkEnds`,
`UploadEnds`), which is beyond the prover. Every invariant and every action
property of the passing runs has its theorem.

## 5. What is not modelled

* The TLS read buffer pool: only the IO thread uses it, one block at a time,
  so its mutex, its limit and its fallback are never contended here.
* The nonce cache of the stream parser, TLS contexts and session tickets.
* Configuration and start-up: straight-line code before the loop.
* The browser page: the upload protocol again, with timeouts. CRC32 is taken
  to distinguish contents; logging and metrics change no behaviour.
* Formats: message layouts, header parsing, frame building. Messages too
  short for their header are answered with an error and touch no state.
* The client outside its upload: argument parsing, its handshakes, the text
  echo before the upload.
* HTTP connections have no idle timeout in the code, so nothing is claimed
  of a client that stalls for ever.

## 6. Plan

Done so far, in this order: `SendPath`, `FileTransfer` with `UploadService`,
`ThreadPool`, `UploadClient`, `WsParser`, the proofs of the first two, then `Heartbeat`,
`Descriptors` and `HttpStatic` with their proofs, then the proofs of `ThreadPool` and
`WsParser`, the remaining safety properties of `SendPath` and `FileTransfer`, the
composition of clients and sessions, and the safety properties of `UploadClient`.

Models worth adding: an abstract ordered output (responses, data, one Close)
that `SendPath` implements; the browser page's upload, with timeouts; the
nonce cache.

## 7. Running

    tlc -workers 2 -config SendPath.cfg MCSendPath
    tlapm SendPathProofs.tla

Each run in `PROJECT.json` names its module and configuration.
