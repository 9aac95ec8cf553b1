# sensorhub in TLA+

TLA+ models of [sensorhub](../src/README.md), a gateway that collects readings
from sensors: a FastAPI server over SQLite (`src/app`), receivers for MQTT, TCP,
UDP, CAN and UART, and a C++ device client (`src/client-cpp`). TLC checks the
models on small instances; TLAPS proves the main safety properties for every
instance.

## The system

Where concurrency comes from:

* `def` endpoints of `app/main.py` run on a pool of threads. Two requests
  interleave between any two database statements, and between any two reads or
  writes of the objects in memory, which have no locks.
* `async def` endpoints and the middleware run on the event loop and interleave
  only where they await.
* Each receiver is a process of its own (`python -m app.net.tcp_server` ...)
  that shares only the database with the server.
* A SELECT holds no transaction, a commit is atomic, foreign keys are not
  enforced. The ORM updates and deletes by primary key. A new row's key is one
  above the largest in use, so the key of a deleted last row is used again.
* A restart of the server forgets everything but the database and the firmware
  files.

### Components

| Component | State | Operations | Hard behaviour | What makes it correct |
|---|---|---|---|---|
| sensor and reading store (`main.py`, `models.py`) | tables `sensor`, `reading`; the `state` tag | register, bulk, copy, rename, update, rotate key, enable, disable, tag, delete; submit, batch, ingest, clear, cleanup | handlers read, then write; rows vanish and ids are used again in between | each handler takes effect at once unless it writes on what is no longer so; ids and keys stay distinct; no key comes back; deletions hit what was selected |
| command queue (`commands.py`, `command_client.cpp`) | list and index of commands, their status | enqueue, poll, ack, cancel, history | unlocked reads and writes; answers lost, calls refused; restarts | nothing stays pending while polls get through, order, honest acknowledgement, cancelled is cancelled |
| event stream (`stream_readings`) | a cursor per connection | connect, query, send | ids used again; deletions; readings of deleted sensors | commit order, once each, nothing passed over |
| rate limiter (`middleware.py`) | admissions per address | dispatch | the window slides while requests come | never more than the limit in any window |
| reading uplink (`main.cpp`, `retry_policy.hpp`, `backend_client.cpp`) | the loop's round and attempt | submit, retry, count | lost answers, late handlers, refusals | what is reported sent is stored; retries alone do not duplicate |
| signature check (`hmac_verify.py`) | used nonces | verify | old timestamps | an old request is refused |
| tags, alerts, audit, notes, last-seen (`tags.py`, `alerts.py`, `audit.py`, `notes.py`) | lists and dictionaries in memory | add, remove, evaluate, record | unlocked read-modify-write, iteration during change, positions that go stale | no entry lost or doubled |
| firmware (`main.py`, `firmware.py`, `firmware_updater.hpp`) | files, latest version, reported versions | upload, delete, download, check, report, update | binary and checksum are two files; the latest version may be deleted | a device never accepts a binary that is not the one uploaded |
| receivers (`net/`, `can/`, `serial/`, `mqtt/`) | what has arrived of each connection, counters, frame buffer | accept, receive, parse, store, count, end | streams cut anywhere, datagrams lost and doubled, lines cut by a timeout, exceptions that end a thread or a process, restarts | what is stored was sent, in order and once; nothing is lost by the receiver itself; counters add up |
| MQTT path (`mqtt_client.cpp`, broker, `subscriber.py`) | messages under way, two connections | publish, forward, store, subscribe | either side away | no reading lost in silence |
| queries (`main.py`) | none of their own | selects, statistics, percentiles, trend, histogram, anomalies, activity | boundaries, rounding, windows; tables that grow between two selects | equal to independent definitions, and consistent with each other |
| device threads (`health_checker.hpp`, `stats_reporter.hpp`, `metrics.hpp`) | flags and counters | start, stop, count, log | | not modelled, see below |
| retention job, websocket, exports, frontend | | | | not modelled, see below |

They interact through the two tables (store, stream, receivers, queries), the
tag registry (store, alerts, firmware rollout), the command queue (device,
rollout, restart) and HTTP (device, limiter, handlers).

## The modules

| Module | Models |
|---|---|
| `SensorStore` | the tables, the state tag and every handler and receiver that writes them |
| `SensorStoreAtomic` | the same operations as their docstrings put them, one step each |
| `MCSensorStore` | which process exercises which handlers in each run |
| `SensorStoreProofs` | theorems about `SensorStore` |
| `CommandQueue` | the command queue, its handlers and the polling device |
| `CommandQueueProofs` | theorems about `CommandQueue` |
| `ReadingStream` | the generator of `stream_readings` beside the tables' writers |
| `ReadingStreamProofs` | theorems about `ReadingStream` |
| `RateLimiter` | `RateLimiter.dispatch` |
| `ReadingUplink` | the device's HTTP loop, through `RateLimiter` to `submit_reading` |
| `MCReadingUplink` | devices that share an address |
| `ReadingUplinkProofs` | theorems about `ReadingUplink` and the `RateLimiter` in it |
| `Firmware` | firmware files, the latest version, upload, deletion, download and the device's updater |
| `FirmwareProofs` | theorems about `Firmware` |
| `HubMemory` | tags, alert rules and audit log in memory, one step per access |
| `MCHubMemory` | which threads do what with them in each run |
| `HubMemoryProofs` | theorems about `HubMemory` |
| `Receivers` | the TCP, UDP, CAN, UART and MQTT receivers with their networks |
| `Queries` | what the endpoints compute from the table of readings, as operators |
| `QueriesProofs` | lemmas about the operators of `Queries` |
| `Telemetry` | `Receivers` beside requests for a summary, and the properties of `Queries` |
| `MCTelemetry` | the links in use and the tables to start from |
| `TelemetryProofs` | theorems about `Telemetry` and the `Receivers` in it |

### How code and models correspond

`SensorStore`. `req[p]` is the request process `p` serves: where it is (`pc`),
the handler (`op`), the ORM object it loaded (`sensor`), the id in the path or
payload (`sensor_id`) and the rows a SELECT gave it (`rows`). A handler's steps
are `LoadSensor` (the first SELECT and the key check), `CheckReading` (the
payload and the state tag), `SelectReadings` and `SelectOld`, and a commit:
`InsertReadings`, `CommitDelete`, `CommitCopy`, `CommitResetKey`,
`CommitUpdate`; `SetState` and `CopyTags` write the registry, the former also
for the tag endpoints when their key is `state`. A refused request changes
nothing and is not a step. `Restart` ends the requests of the API process and
empties the registry. API keys are numbers in order of issue; `born`, `stamp`,
`owner` and `stale` are history. `does` says which handlers each process
exercises in a behaviour, one of `Assignments`; the theorems hold for all of them.

Handlers do write on what is no longer so: `Stale(p)` is an insert for a sensor
that was deleted since it was loaded, or a deletion whose selection is no longer
what the table holds; `MeetsCopy(p)` a write that finds a copy between its row
and its tags. The properties of the store name these writes as the only ones that
break the promise, instead of assuming that they do not happen.

`CommandQueue`. One step per access to shared memory: `EnqueueAppend` and
`EnqueueIndex`; `PollScan` (one command of the list comprehension),
`PollScanned` and `PollDeliver`; `CancelCheck` and `CancelWrite`. `at` is the
place in the iteration and `todo` what it has listed. The device's step, its
request and the answer are separate, so a connection can break at any point while
its handler goes on. A poll is `called` until its key is checked. `RefuseCall` is
the limiter's refusal, or the 401 or 404 after `RevokeKey` (a rotated key or a
deleted sensor: the device keeps the key it has); of a refused acknowledgement
the device notices nothing. `failed` records that one was refused or a
connection broke.

`ReadingStream`. The steps of the generator are `Query` and `Send`; the cursor
moves only after a row was sent. The other handlers appear as what they commit.

`RateLimiter` and `ReadingUplink`. dispatch does not await between pruning and
appending, so it is one step. `ReadingUplink` extends `RateLimiter` and uses
its `Admit` and `Refuse` in its own dispatch. `unanswered` records the attempts
whose outcome the device did not learn.

`Firmware`. A file is `None`, `Empty` (opened for writing), a body, or `Torn`;
a checksum file holds the body it is the checksum of. Each file operation is a
step: `UploadOpen` ... `UploadAnnounce`, `DeleteStart`, `DeleteBin`,
`DeleteSha`; the download's are `FindFiles`, `ReadSha`, `Stat`, `ReadFirst` and
`ReadRest`. Uploads do not interleave with one another (`EventLoopFree`),
because `upload_firmware` is `async` and does not await after it has the body.
A download that is refused, or fails before its transfer, is `DownloadFails`; a
connection that breaks during it, `BreakTransfer`. A run then ends `failed` or is
`broken`. `uploaded`, `verified`, `cut` and `disturbed` are history.

`HubMemory`. `th[t]` is the call thread `t` is in: `list` is the list object it
holds, `pos` its place in an iteration, `result` what it has so far. A sensor's
current list is `lists[s]`; one that `remove_tag` or `add_tag` replaced while a
thread still holds it moves to a number (`OthersKeep`). `add_tag` is `AddTag`,
`Create`, `LookUp`, `FindExisting`, `LookUp`, `AppendTag`; `remove_tag` is
`RemoveTag`, a `Filter` for each entry the comprehension looks at, `Replace`;
`find_by_tag` and `get_groups` are `Search`, `NextSensor`, `NextTag`; `evaluate`
takes a rule per `NextRule`; `record` is `HoldLog`, `Enter`, `Measure`, `Slice`,
`Trim`. `does` is chosen at the start: who exercises which operations, as the
three registries do not affect one another. `standing` and `popped` are history.

`Receivers`. A link is a TCP client, or one of `"udp"`, `"can"`, `"uart"`,
`"mqtt"`. `sent[l]` lists the kinds of the messages sent over it, and a message
is known by its number. `wire[l]` is what is on its way. A line is three parts
and a newline, so that `Recv` and `ReadLine` can cut it where it matters:
inside, where JSON and the serial pattern no longer match, or within the unit,
where the pattern still does. `buf[l]` is the variable `buf` of `handle_client`,
and for MQTT what the broker holds for the subscriber. Handling one message is
one step (`HandleLine`, `ReceiveDatagram`, `ReceiveFrame`, `ReadLine`,
`OnMessage`): each receiver handles one after the other, a TCP connection has
its own thread, and the statistics have locks. The tables `TcpOutcome` ...
`MqttOutcome` say what becomes of each kind of message: stored, counted as an
error, ignored (a blank line), or an exception that leaves the loop (a value
that is `null`). A commit may fail. `Down` is the end of a process. `Connect`
waits for nothing: a device can connect anew while the thread of its former
connection is still at work, and each connection is a link of its own.
`disturbed` records what the network, a crash or a failed commit did to a link,
and not what a message did to the receiver: a good reading that the receiver
loses because of a null value before it is excluded by name (`Expected`).
`since` is history too. The network is as the transports have it: TCP keeps
order and may break, datagrams are lost, doubled and reordered, the serial line
stalls, the broker forgets what nobody subscribes to.

`Queries`. One operator per endpoint, over a table that is a sequence of rows in
the order of ids. Values are whole hundredths and averages are pairs of sum and
count, so divisions become multiplications. Every `order_by` is `Arranged`,
which puts the row with the k-th key in place k, and sums are those of a
recursive function (`Sums`): `Slope` is the quotient of `sensor_trend` with both
sums multiplied by 8n, `Anomalies` compares squares. The code computes in
floating point. Where a comparison or a truncation of such a result decides (the
index of a bin, the threshold of a trend, that of an anomaly) the operator has
an argument `off`, a rounding error in halves of the unit that exact results
have there, and the properties hold for any errors up to the constant `Error`:
0.30 in ten bins over [0,1] may be counted in bin 2 or 3, and a slope of 0.01
may be flat or rising. An error depends on the value alone, as in the code. The
literals 10, 10, 5, 10 and 50 are the constants `EnoughRows`, `HealthRows`,
`StuckRows`, `ActiveMinutes` and `MaxItems`. `sensor_summary` is defined three
times in `main.py`; the three are the same, and the first answers.

`Telemetry` composes the two: `summary` is a request of `sensor_summary` between
its two selects. In a behaviour with no link in use (`AtRest`) the table is one
of the tables of `Starts`, over which the properties of `Queries` are evaluated.

Under "Faulty variants" each module holds variants of its definitions with a
plausible bug. No specification uses them: putting one in the place of the
original makes the property it is meant for fail.

## The runs

| Run | Shows | Bounds |
|---|---|---|
| `store` | apart from writes that rest on what is no longer so, or meet a copy halfway, every step of a handler is one of `SensorStoreAtomic`, and readings have their sensor and stay with it; deletions, ids, keys and rotations beside one another | 2 threads and a receiver, which exercise: one thread any handler; or both threads delete and one submits; or two delete beside a receiver; or both copy and delete, with renames, rotations and tags; 2 sensor ids, 2 reading ids, 3 keys, 2 names, 2 commits of readings, batches of 2: ids are used again, one row is not the table |
| `store_orphan` | a counterexample: `delete_sensor` leaves a reading | 1 id each |
| `store_rotation` | a counterexample: of two rotations shown the same key, the second replaces the key the first has issued | 2 threads, 1 sensor, 3 keys |
| `commands_delivery` | order, acknowledgement and progress | 2 threads, so a poll meets an enqueue, a cancellation, or a poll whose connection broke; 2 commands; any call may be refused, the key be revoked |
| `commands_cancel` | a counterexample: a cancelled command is delivered | 2 threads, 1 command |
| `stream` | order, once, nothing passed over, progress | 2 sensors, 3 reading ids, 4 commits: an id is used again |
| `uplink` | the limiter's window; reports and rows agree; progress | 2 devices behind one address, 1 reading each, 2 attempts, limit 2 per window 1, clock 0..1: the limit is reached, the window slides, an attempt grows too old |
| `firmware` | the device accepts only whole uploads; checksums fit; what is announced is complete; offers end in an update unless the download fails or breaks off | 2 versions, 2 bodies, 1 deleting thread: a version is uploaded twice, while it is downloaded or deleted |
| `memory` | searches are complete; rules apply once and are missed only through deletions; the audit log keeps its limit | 3 threads; one searches, one adds and one removes 2 tags on 2 sensors; or one evaluates, two delete and one of them adds 3 rules; or all record, limit 1 |
| `memory_tags` | a counterexample: adding a tag removes another | 2 threads, 1 sensor, 2 keys |
| `telemetry` | what is stored was sent; receivers lose nothing by themselves, but for what follows a null value, and store it in the end; counters add up; the frame buffer keeps the newest; the endpoints' answers agree with each other and with independent definitions | each transport alone: 2 messages over one TCP connection, or one over each of two that are open at once, 2 by each other transport and 3 frames for a buffer of 2: a line beside the rest of another, an error before a good reading, a buffer that is full and moves on; rounding errors up to half a unit; all tables of one sensor with up to 3 values in 0..3 or 4 values in {0, 1, 3}, and of two sensors with up to 3 readings on both sides of the cutoff in any order |
| `mqtt_lost` | a counterexample: a published reading is lost and nobody knows | MQTT alone |

All bounds are constants of the configurations. `uplink` switches deadlock
checking off: the devices stop after `MaxReadings` rounds and the clock at
`MaxTime`. In the other runs something can always happen. `memory` uses symmetry
in sensors, keys and rules and `store` in names, which no liveness property
reads; threads have different roles and are not permuted.

### Fairness

`CommandQueue!FairSpec`: a thread that serves a request goes on (the handlers
block on nothing). No fairness is given to administrators, broken connections or
restarts. `main.cpp` polls at every turn of its loop, but the limiter or a revoked
key may refuse each of its polls; so both liveness properties are about
behaviours in which polls get through again and again (`PollsGetThrough`), and
`CommandsResolved` excludes acknowledgements that were refused or lost.
`ReadingStream!FairSpec`: the generator goes on while its client is connected.
`ReadingUplink!FairSpec`: handlers go on, and a device waiting between attempts
wakes up (`sleep_for`). An answer is then either delivered or its connection
breaks, which libcurl reports.
`Firmware!FairSpec`: a run of the updater that has begun, and the handlers it
calls, go on; a download may fail instead; nobody has to upload, delete or start a
run.
`Telemetry!FairSpec`: while a receiver has something to do, some receiver goes on
(their loops block only on an empty connection); nothing makes a device send, a
crashed process start again, or a client ask.

### What the runs show about the code

* `delete_sensor` promises "Delete a sensor and all its readings", but a
  reading committed between its SELECT and its commit, or by a handler that
  loaded the sensor earlier, stays (`store_orphan`).
* `reset_sensor_key` "Requires the current key", but compares the key with what it
  loaded and updates by id: two requests with the same key both succeed, and the
  second replaces a key that nobody presented (`store_rotation`).
* `cancel_command` promises to cancel before delivery, but a command cancelled
  with 200 can still be delivered by a poll that had already listed it
  (`commands_cancel`).
* `add_sensor_tag` promises to "Add or update a key/value tag on a sensor", but
  when two requests add a sensor's first tags, the second one's empty list can
  replace the first one's, and the tag already there is lost (`memory_tags`).
* `docs/mqtt_protocol.md` says that a reading published over MQTT "will never be
  silently lost". Both sides use clean sessions, the device does not reconnect
  and counts a success before the broker has the message, and the subscriber
  acknowledges a message whose commit failed (`mqtt_lost`).

Seen while modelling, and not the subject of a run:

* The endpoints for statistics (`/can/*`, `/udp/stats`, `/tcp/stats`,
  `/net/health`, `/fleet/summary`) read objects of the server's own process,
  while the receivers count in theirs: as deployed, they report zeros.
* A value that is `null` is a TypeError, which the TCP and UDP loops do not
  catch: it ends the connection's thread, or the UDP receiver, with the good
  readings that had arrived behind it. A serial line with
  the value `1.2.3` ends the UART receiver in the same way, and one with a
  negative value is ignored.
* The device ignores the answer to its acknowledgement: one that the limiter
  refuses leaves the command `delivered`.
* A CAN frame is counted as received before its sensor is looked up.
* The client's codes for kelvin (3) and percent (4) are percent and hpa for the
  receiver and for `docs/can_protocol.md`; the client only sends celsius.
* `list_readings_for_sensor` orders by time and `latest_reading` by id: they
  agree when readings were inserted in the order of their times
  (`ActivityAgrees`).

## The proofs

All theorems hold for every value of the constants that satisfies the ASSUMEs of
the modules, with any number of processes.

`SensorStoreProofs`. `TypeCorrect` is the type invariant. `IdOrderCorrect` needs
that all stamps are below the next one and that the next id is above all ids.
`LiveSensorsCorrect` and `RetiredKeysCorrect` rest on `SensorInv`: keys in the
table are issued, distinct, and never handed out again. `RetiredKeysCorrect` and
all others are about any number of threads and receivers, each with any handlers.

* `DeletionsCorrect`: whatever other requests delete meanwhile, a row that a
  deletion removes was selected by its request, or has the id of a selected row
  that was deleted and was committed after it. `SelectionInv` says so of each
  row under a selected id; a row committed later has a later stamp.
* `OrphansCorrect` and `OwnersCorrect`: `OwnersInv` says that, as long as
  nothing was written on what is no longer so, each reading belongs to a live
  sensor that is the one it was sent for. The two properties need each other: a
  new sensor inherits nothing because nothing was left behind.
* `AtomicCorrect`: `SensorStore` implements `SensorStoreAtomic` but for the
  writes of `Stale` and `MeetsCopy`. Each step of a handler is mapped to an
  operation or to none: a deletion takes effect at its commit, where, unless it
  is stale, its selection is what the operation would delete; a copy takes
  effect with its row, and `AtomicState` counts the tags still to come.
  `StoreInv` joins what is needed: types, distinct keys and ids, what a request
  holds at each step (`CallsInv`), and that no two copies under way are of the
  same row (`CopyInv`).

`ReadingStreamProofs`. `OrderInv` says that the rows in the table, those
selected and those sent are each in commit order and relates them above the
cursor; a selected row may be gone and its id in use again, so this does not
follow from the table alone. `SentInOrderCorrect` and `SentOnceCorrect` follow.
`PassedWereSentCorrect` adds `PassedInv`, which holds while nothing is deleted.

`ReadingUplinkProofs`. `WindowCorrect` is about the limiter alone: the entries of
an address include every admission younger than the window, so a window that the
new admission falls into holds, besides it, only entries that dispatch has just
counted. `UplinkImplementsLimiter` shows that the limiter's
variables change as `LimiterSpec` says, so `UplinkWindowCorrect` is
`WindowCorrect` for the devices' requests. `SentWasStoredCorrect` and
`StoredAsReportedCorrect` rest on `UplinkInv`: there is one handler per
submission, and it has committed exactly if its submission is committed
(`HandlersInv`); what is committed and not unanswered was counted as sent or is
still awaited, and of the reading at hand it is the latest attempt
(`KnownInv`); the device is through with all it has counted. Neither property
is inductive alone: that a retry does not store a reading twice depends on what
the earlier attempt's handler has done and who still waits for it.

`CommandQueueProofs`. The three properties come from one `Inv`. That the device
first takes commands up in the order of the queue does not follow from the order
of `received`: the commands on their way must come later in the queue than those
already taken up (`Follows`), and none that is pending may be left behind
(`Closed`), or a later poll would bring it out of order. A poll that goes
through the list while others change the statuses has, of the entries it has
passed, every one that is pending (`RequestInv`), and that is what `Closed` needs
when its answer arrives. Polls nobody waits for any more may find anything: only
the poll of the open connection is bound to `received` (`OpenPollInv`). A refused
poll brings nothing and leaves what is pending to a later one. What is
acknowledged was received because a handler of an acknowledgement holds a command
the device has taken up, also after the connection broke.

`FirmwareProofs`. The files go through intermediate states, so `Inv` says for
each step of an upload what the files of its version are (`UploadInFiles`), and
for versions nobody uploads that checksum and binary agree or one is missing
(`FilesAtRest`), unless a restart cut an upload short. That a device accepts only
what was uploaded needs only that a body is never seen under a version it was not
uploaded as (`BodiesUploaded`): the checksum comparison excludes what is empty or
torn. `LatestAtRest` is `LatestIsComplete` with the fact that nobody is uploading
to an undisturbed latest version. Contents and versions are any sets that
`ContentsAssumption` keeps apart.

`HubMemoryProofs`. One `Inv` of parts for calls, lists, searches, rules and
log. `SearchesFindAll`: of the sensors that kept the tag, a search has found those
it has been to, except that the tag of the one it is at may still be ahead in the
list it holds, even when that list was replaced. `EvaluationsApplyOnce` is a
counting argument. An evaluation has applied exactly as many rules as it has gone
past, all distinct, and each of them is still in the list or was removed
meanwhile; none of them is at its place or after it. So at the end of the list
what stands and was missed is at most what was removed. The bound of the audit log
counts the threads that have entered and not yet trimmed. The number of threads
must be finite (`ThreadsAssumption`, a thread pool), because lists and log are
counted by thread.

`TelemetryProofs`. `SummaryCorrect`: the table is only appended to, so what the
first select saw stays a prefix of it. `StoredCorrect` and `NothingLostCorrect`
rest on `ReceiversInv`, link by link (`LinkInv`). The rows alone say nothing of
what is still coming, so the invariant is about the stream of a link, its buffer
followed by what is on the wire: its parts are in the order they were sent, and
beyond what is stored (`Ordering`); what stands between two newlines is one whole
line or the rest of one whose beginning was taken (`Framed`); what is in the rows
comes from lines that were sent as good ones (`RowsOf`); and on an undisturbed
link each expected message is stored or in the stream (`Kept`). Most of the lemmas say
that cutting the stream anywhere, moving a piece from wire to buffer, and taking
a line off its front keep this. The theorems start from any table of rows,
`StartsAssumption` saying only that a table is a sequence. That a connection is a
link of its own is what order within a connection means: nothing orders the
threads of two connections of one device.

`CountersCorrect` adds `CountersInv`, process by process (`CountsOf`). What a
process has counted as received is the number of the rows it has stored since
its start (for CAN it is at least that number, as a frame is counted before its
sensor is looked up). Over undisturbed links, received and errors together are
the number of messages sent of which nothing is on its way any more (`Handled`);
nothing else relates a counter to a stream that can be cut in the middle of a
message. For this to survive a restart, a process that is down has counters at
zero and no wire that holds anything (`Resting`). The connections counted as
active are those a thread serves (`ThreadCounts`), and the frame buffer holds as
many frames as were counted or fit, in order, all of them older than what is on
the bus (`Frames`); what is stored and not in it is older than all of it
(`NewestRecorded`): hence `BufferCorrect`. Counters are compared with
cardinalities, so each step of a receiver is a lemma about what it adds to a
finite set.

`ActivityCorrect`, `SplitsCorrect` and `StatisticsCorrect` are about the queries
over a table at rest, the latter two for every `Error` and all errors up to it.
`RestInv` says that the table holds rows of `Sensors` with whole values and
times, and nothing else (`TablesAssumption`): so they are statements about every
table, and every set of arguments that `ArgumentsAssumption` describes. The work
is in `QueriesProofs`:

* Orders. The ranks of distinct keys have no gap (`Places`): each place from 1 to
  the number of rows is taken by one row, and a later place has a greater key. So
  `Arranged` is a permutation in order, a window is the end of it, and a
  percentile's value is preceded by as many values as its rank says.
* Sums. Two functions that satisfy the equations of `Sums` are equal, shown by
  taking the least place at which they differ (`LeastElement`, from the
  well-foundedness of the naturals). So the sum of a chunk is a difference of two
  partial sums, chunks add up because their ends meet, and counts of disjoint
  bins add up to the count of their union.
* Pairs. n times the sum of products less the product of the sums is the sum
  over all pairs of the products of their differences (`PairsSum`). For positions
  and values, and for positions and positions, that is an eighth of the numerator
  and of the denominator of `Slope`; for values and values it is the variance but
  for a factor: hence `TrendByPairs` and `AnomaliesByPairs`, which
  bound where the answers can differ from the exact ones.
* Rounding. A multiple of 100 nearest to p (n - 1) is what `RoundDiv` gives, and
  it grows with p (`RoundHundred`).

### What stays with TLC

* Liveness: `PendingAreTaken`, `CommandsResolved`, `ReadingsResolved`,
  `AboveCursorSent`, `OffersAreAccepted`, `GoodMessagesStored`. Fairness and
  ENABLED are beyond the prover.
* That `Stale` writes do leave readings without their sensor, and that rotations
  overlap, is shown by the counterexamples of `store_orphan` and `store_rotation`.

## Not modelled

* The retention job (`retention.py`): nothing calls it, and it reads a column
  the table does not have. The websocket endpoint is not registered.
* Device threads: health checker, statistics reporter and metrics only touch
  counters and the log; watchdog, batch accumulator, the C++ rate limiter, ring
  buffer, moving average and byte buffer are used by nothing.
* The Prometheus text, health probe, request log, logging, configuration,
  simulator and frontend: formatting of what others hold.
* The two ways in which the device's loop skips a submission: its connection
  manager is connected before the loop and nothing disconnects it, and the values it
  makes up are always plausible.
* The bytes of a CAN frame and of JSON: a message is whole or is not one.
* How large the floating-point errors of the queries are: they are bounded by
  `Error`, which is any number. Rounding of answers for display, and counts of
  sensors by name or location.
* HMAC and the set of used nonces: genuine requests carry fresh nonces.
* Notes, last-seen times, the request counter, the history of alerts and the
  values of tags.
* Clock jumps: `time.time()` is taken to be monotone in `RateLimiter`.

## Plan

1. The counters per sensor in the receivers' statistics, and their theorem
beside `CountersCorrect`. 2. The abstract queue that `CommandQueue` implements
when no connection breaks. 3. What `delete_sensor` leaves in the registries
(tags, commands, alert rules, notes), for a sensor that is given the same id.
