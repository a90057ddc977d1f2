# A TLA+ model of bluTruth

bluTruth collects what every layer of a Linux Bluetooth stack says (D-Bus, HCI,
kernel, audio, RF sniffers), puts it on one in-process bus, stores it twice, and
looks for patterns and for events of different layers that belong together. It
is a single asyncio process with a few executor threads and some child
processes. This directory models its core, the bus, the two stores and the task
that feeds them, the configuration watcher, the rule engine and the correlation
engine, and the collectors: how they live on child processes, what they make of
btmon's output, how they probe devices through BlueZ, and how they compare what
they read of the kernel with what they read before. Paths below are relative to
`src/blutruth/`.

## 1. The system

| part | state it keeps | operations | talks to |
|---|---|---|---|
| Event bus, `bus.py` | subscriber queues, counters | `subscribe`, `publish`, `unsubscribe`, `stats` | every other part; `publish` never waits |
| SQLite sink, `storage/sqlite.py` | connection, buffer, lock, flush task | `start`, `write`, `_periodic_flush`, `stop`, `roll`, `delete`, sessions, `query_window`, `set_group_id`, retention | an executor thread for each batch |
| JSONL sink, `storage/jsonl.py` | open file, lock | `start`, `write`, `stop`, `roll`, `delete` | the disk |
| Storage pipeline, `runtime.py` | `_writer_task`, `_stop_event`, `_session_id` | `_writer_loop`, `roll_storage`, `delete_storage`, `stop` | bus, both sinks, `web.py` |
| Configuration, `config.py` | `data`, `_prev_collectors`, `_mtime` | `load`, `validate`, `collectors_changed` | the file |
| Watcher, `runtime.py` | `_config_task` | `_config_watch_loop`, `_on_config_changed` | configuration, collectors |
| Rule engine, `correlation/rules.py` | partial matches per device | `_run`, `_process_event`, expiries, emission | bus, both ways |
| Correlation engine, `correlation/engine.py` | watermark, next group id | `_run`, `_correlate_pass` | SQLite sink |
| Readers: `hci.py`, `udev.py`, `daemon_log.py`, `mgmt_api.py`, `kernel_driver.py`, `pipewire.py`, `ebpf.py`, `ubertooth.py`, `ble_sniffer.py` in `collectors/` | `_running`, `_task`s, `_proc`; the block being read | `start`, a read loop, `stop` | a child process, a thread or a timer; systemd (`daemon_log`) |
| HCI attribution, `collectors/hci.py` | `_handle_addr` | `_emit_event` | btmon's blocks |
| Probes: `l2ping.py`, `battery.py`, `gatt.py`, and `dbus_monitor.py` that tells the first two of connections | `_connected_devices`, `_discovered`, a queue of the bus | `start`, watches, a poll loop, discovery, `stop` | BlueZ over D-Bus, the bus |
| Snapshots: `sysfs.py`, the polls of `mgmt_api.py` and `kernel_driver.py` | `_prev_*`: what the last poll read | a poll loop | files of the kernel |
| Web server, `web.py`; command line, `cli.py` | none of their own | roll, delete, ingest, SSE; serve, replay, query | all of the above |
| History analysis, `analysis/history.py`; enrichment tables | none | queries, lookups | SQLite |

What makes the parts correct, and hard:

* **Bus.** A slow subscriber must cost nobody else anything. Each subscriber
  sees its own stream, in order, complete but for what its own full queue
  refused; refusals are counted and reported at every hundredth whatever the
  number of queues one event overflows.
* **SQLite sink.** The lock is held across an `await` on a thread. The batch is
  out of the buffer before it is committed. A task cancelled in between gives
  the lock back while its thread runs on. Rows must be in one place at a time,
  in order, and lost to nothing but a fault.
* **Storage pipeline.** Three parties cancel the writer (roll, delete, stop) at
  any moment of its two concurrent writes, and then drain its queue, close the
  stores, rename files, open a new session and start another writer; any of it
  may fail. Each event must be stored once, in the file of its session. Nothing
  keeps two requests apart.
* **Watcher.** An edit may come between `load`'s `stat` and its read; a
  shutdown may come in the middle of a restart of all collectors; a collector
  may swallow the cancellation it is sent.
* **Rule engine.** Overlapping partial matches share events. The clock is the
  moment of processing, and expiry is looked at only on traffic of the same
  device or on an idle queue.
* **Correlation engine.** A pass reads, then updates row by row, while rows of
  earlier times are still being committed; it fails half way, the process
  restarts, the tables are rolled under it.
* **Readers.** `start` and `stop` are awaited in many steps and may themselves be
  cancelled, by a shutdown in the middle of a reload; children exit, refuse to,
  or print lines no parser expects; a reader that died raises in the `stop` that
  awaits it. Nothing may be left behind; `daemon_log` replaces the system's
  `bluetoothd` and has to put it back.
* **HCI attribution.** Most events name a handle and no address. The table that
  translates is keyed by the handle alone, and the type of an event is told from
  names that contain each other.
* **Probes.** What a probe believes of a device comes by a signal, through the
  D-Bus collector, the bus and a queue, while a query about the same device is in
  flight. Answers come after the device went, or after `stop`.
* **Snapshots.** Listing and reading are not one step; an unreadable file, an
  adapter that goes and returns between two polls and a stop and start must not
  leave a reader of the events with a wrong picture.

`PROJECT.json` lists the components with their status and, under `hazards`, each
of these difficulties at the line where it bites, with the properties about it.
Section 6 names those that no property is about.

## 2. Modules

```
BestEffortChannel   <-- refines -- EventBus  <-- INSTANCE --.
                                   SqliteSink <-- INSTANCE -- StoragePipeline
                                        ^
                                   SqliteSinkDriver
HotReload      RuleEngine      CorrelationEngine

ChildProfiles <-- ChildCollector

BlueZ <-- ConnectionProbes, GattCollector <-- DeviceProbes <--.
                                              HciCollector <-- Collectors
                                          SnapshotWatchers <--'
```

A step of every model is what one task does between two awaits, since nothing
else can run in between; the executor threads and the outside world (the clock,
the user's editor, requests) are actions of their own.

| module | models | how |
|---|---|---|
| `BestEffortChannel` | what the bus promises one subscriber | abstract: a channel that delivers in order or counts a loss |
| `EventBus` | `bus.py` | `queue`, `dropped` are the code's; `published`, `joined`, `taken`, `missed` are history. `Publish` is the whole loop over a snapshot of subscribers with its drops and warning |
| `SqliteSink` | `storage/sqlite.py:86-190`, roll and delete | actions take the calling task as a parameter; `call[t]` is where a task is (`out`, `lock`, `job`, `raised`); `jobs` are batches on threads, `awaited` or orphaned; the last `uncommitted` rows of `table` are what a failed batch left in the open transaction |
| `SqliteSinkDriver` | tasks that use the sink | a writer, the flush task and a task that stops and reopens |
| `StoragePipeline` | `runtime.py:100-135, 252-345, 400-470`, `storage/jsonl.py`, sessions, the web handlers | instances of `EventBus` (one subscription per writer) and `SqliteSink` (the writers' child tasks as clients, the requests and `stop` as closers); `pc[w]` and `ctl[c]` are program counters; `overlapped` is history: two requests were in progress at once |
| `HotReload` | `config.py` load, the watch loop, `_on_config_changed`, start's and stop's collector parts | `file` is what is on disk, `config` what was loaded, `instances[c]` how many times a collector runs |
| `RuleEngine` | `correlation/rules.py` | `ProcessEvent` is the whole of `_process_event`; expiry, advance, cancellation, start of new partials, cap and emission are operators on the list of partials, in the code's order. `sweep` is what the idle timeout has still to look at; `seen`, `fired`, `published` and `evicted` are history |
| `CorrelationEngine` | `correlation/engine.py`, `query_window`, `set_group_id` | `pass` is the batch with the updates it has left; `rows`, `group`, `links` are the tables as the shared connection sees them, `durable` what of the last two is committed; `torn` is history: updates without their link |
| `ChildProfiles` | how nine collectors' `start`, read loop and `stop` differ | a record per collector: who launches the child and which failures are caught, what the end of the output does, whether events span lines, which tasks and children `stop` knows, in which order |
| `ChildCollector` | the life of one of them, under the watcher and `Runtime.stop` | `stage` is where the caller stands in `start` or `stop`; `slot` and `proc` are the attributes, `task[g]` and `child[g]` what the g-th start made of them: a stop that raises leaves them running without an attribute |
| `HciCollector` | `collectors/hci.py:50-234, 372-712` | a block is a header (its spaces written `_`), a handle, perhaps an address, and the lines that raise its severity. `Classification` and `TypeTests` keep the code's order and the substring tests; `held` is the block that the read loop has not published yet |
| `BlueZ` | devices that connect and disconnect | external: what the D-Bus signals tell |
| `ConnectionProbes` | `l2ping.py`, `battery.py`, `dbus_monitor.py` | `queue` is the subscription, `tracked` the set of connected devices, `loop` the poll loop with the device it visits and the query in flight |
| `GattCollector` | `gatt.py` | `jobs` and `scans` are tasks nobody keeps; each remembers the run that created it |
| `DeviceProbes` | the three probes over the same devices | one of them in a behaviour: they share nothing but the devices |
| `SnapshotWatchers` | `sysfs.py`, `mgmt_api.py:294-411`, `kernel_driver.py:405-531` | `world` is what is, `Listed` and `read` a poll in progress, `prev` the code's `_prev_*`; `view` is history: what a reader of all events believes |
| `Collectors` | the probes, the HCI collector and the snapshots, side by side | they share no state and meet on the bus only, so one family of them is at work in a behaviour |

`MC*` modules give constants small values. The eight `*_proofs` modules hold the
theorems, each about the module it is named for, but for two:
`Collectors_proofs` is about `HciCollector`, the three probes and
`SnapshotWatchers`, `Correlation_proofs` about `RuleEngine` and
`CorrelationEngine`. That of `SqliteSink` holds the lemmas which the proofs of
`SqliteSinkDriver` and of `StoragePipeline` share.

Abstracted: an event is its publication ordinal (bus, pipeline), its type and
device (rules) or its time, device and source (correlation). A collector's
section is `Off` or one of a set of settings. Wall-clock time is ticks; the
pipeline's `clock` counts seconds, which is what backups are named by. A child's
output is a sequence of lines that are a header, belong to one, or neither. An
adapter's state and a module's count are members of small sets.

## 3. Runs

Type correctness of the bus, the sink and the watcher is proved (section 5);
every other system has its types as the first conjunct of one of its safety
invariants.

| run | question | bounds, and why they are enough |
|---|---|---|
| `bus` | Is each subscriber a channel of its own, in order, complete but for counted drops, and is every interval reported? | a slow and a fast subscriber, four events, a report every 2 drops: one event overflows both queues, and overflows at an interval's edge occur; subscribers leave and return |
| `sink` | Is every row in one place, lost only to a fault, and flushed in the end? Does a stop end? Does the lock mean what it should? | batch of 2, five rows: two full batches and a remainder; one failing commit, one cancellation, two opens: an orphaned batch meets a later connection |
| `pipeline` | One writer, no event twice, order kept, right session, through rolls and a stop at any moment? | two rolls (symmetric), one after the other or overlapping, and a stop; queue of 2, five events, two seconds so that names differ or not, one fault; asyncio before 3.12, whose cancellation may be swallowed. Once two requests have overlapped nothing is claimed, and such behaviours are followed up to their first event (`OverlapBound`) |
| `pipeline_faults` | Do a request and a stop end, and does a stop store what the writer's queue had accepted? | one delete and a stop, four events, one fault anywhere; asyncio from 3.12 (before it, a request may wait for ever: section 4) |
| `pipeline_stop_drain` | Does a stop store everything, as the docstring says? | no request, three events, no fault: a cancellation in mid-write is enough |
| `pipeline_overlap` | Is there one writer whatever the requests do? | two rolls, two events, no fault |
| `rules` | Do rules fire for every chain within their window, for nothing a partial may not live for, and once? Does a negation never raise a false alarm? Are partials well formed? | every stream of four events over two types and four ticks; five overlapping rules, one with a count, one single trigger, negations last and in the middle; a cap of 8, which a third start overflows; idle expiry; events are processed in the tick they are published, in which up to four may queue (`MaxLag` 0) |
| `rules_window` | Do the triggers of a match lie within its window? | as `rules` |
| `correlation` | Are groups chains of one device, is no pair missed, do both tables agree? | two devices and two sources (symmetric), three events, late by a tick, committed late by a tick; four ticks, in which an overlap of one window instead of two misses a pair; one failed query, update (at any of its statements), restart or roll, a restart and a roll followed up to the third tick (`ShortAfterReset`) |
| `reload` | Is every edit loaded, do the enabled collectors run once each after it, none after a stop, and does a stop end? | two collectors, two edits, an unreadable file, one collector that fails to stop or start |
| `children` | Does a stop leave no task, no child and no late event? Is `bluetooth.service` given back? Are blocks cut where the headers are? Does every stop end, and is every exit reported? | each of the thirteen kinds of collector by itself; two starts, so that what the first left meets the second; two lines, or two events of one line; one kind of fault (exit, failed launch, long or bad line, a child that does not end, a cancelled caller, systemctl, a poll that raises) any number of times |
| `collectors` | *Probes:* does a probe believe what is, once its queue is empty? Is it quiet after a stop, and does the stop end? Is each device discovered once a run, and none missed? *HCI:* is an event attributed to the device at the other end? Is an end never published as a beginning? Is an event as severe as the worst its block shows? *Snapshots:* do the events, told one after the other, give what was read, and in the end what is? | *Probes:* two devices; three changes, enough for a device to come, go and return under a query; queue of 2, which a third change overflows; two starts, one stop of the D-Bus collector. *HCI:* two adapters that share one handle, two devices, classic and LE, failed attempts and disconnections, a collector that stops and starts; the state keeps the connections and the table, so histories of any length are covered. *Snapshots:* five kinds of poll, two things, four changes, two starts: a thing changes, goes and returns between listing and reading, between two polls and while the watcher is stopped |

The largest are `correlation` with 4.3 million distinct states, `pipeline` with 720
thousand, `collectors` with 480 thousand and `children` with 440 thousand; the last
two spend their time on liveness. None takes more than two minutes on two cores.

Some conclusions are drawn only where the code gives grounds for them, and the
state says where: `orphaned` (a batch whose task was cancelled), `overlapped` (two
storage requests in progress at once), `cut` (a writer cancelled in mid-write),
`botched` (a stop that raised), `doubts` (a device whose last change was not heard or that a ping
has struck), `unsure` (a switch that went away blocked), `unclear` (a handle in
use on two adapters), `stale` (a device marked by a straggler), `evicted` (the
cap has thrown a partial away), `torn` (a group id written without its link) and
`IdsAreFresh` (no restart or roll has made the
correlation engine begin its ids again). Section 4 says what the code does there.

Three sentences of the documents which the code does not keep are each checked as
a run with `expect: violation`; the counterexample of TLC is the history that
shows it, and `findings` quotes the sentence. In `pipeline_stop_drain`, `stop`
cancels a writer in mid-write: the event and everything queued behind it are lost,
in spite of the drain. In `pipeline_overlap`, two requests cancel and await the same
writer, and each starts one of its own. In `rules_window`, a match is made of
triggers that lie up to two windows apart.

`RulesTwoNegations.cfg` belongs to no run: with it and `MCRuleEngine`, TLC refutes
`NoFalseAlarm` for a rule with two negations in a row (section 4), which shows that
the hypothesis of its theorem is needed.

Each property of a passing run has a mutant in its module (the operators under
"Mutants", or marked so): a plausible bug in that piece of code, under which TLC
finds the property violated.

### Deadlock

It is checked in `bus`. The other systems stop: the process shuts down,
or the bounds on events, edits, changes and time are used up.

### Fairness

* `sink`: weak fairness of the executor (a thread ends its batch), of the timer
  and of the closer's own steps; strong fairness of getting the lock, for
  `asyncio.Lock` wakes its waiters first come first served. Nobody has to write,
  to stop, to cancel or to fail.
* `pipeline_faults`: weak fairness of each task's next step (the event loop runs
  every ready task), of the executor and strong of the lock. Nobody is obliged
  to publish or to send a request.
* `reload`: weak fairness of the watching task and of a shutdown that has
  begun. Nobody is obliged to edit or to stop.
* `children`: weak fairness of each task and of the caller (the event loop; calls
  of the system and `systemctl` return), of a child that was told to end (or
  `stop` gives it up after its timeout), of bcc's thread, which polls for half a
  second at a time, and of `Runtime.stop` once it has begun. Nobody is obliged to
  start, print or fail.
* `collectors`: weak fairness of the poll loop of a probe and of a `stop` that
  unsubscribes; of listing and of reading. Nobody is obliged to connect, to start or
  to stop.

## 4. What else the models contain

These follow the code and differ from what its documents lead one to expect. The
models contain them, and the properties above hold in spite of them or say where
they stop. Only the overlapping requests and the double window have a run of their
own. Documents are named from `src/`:

* *Sink.* A failed commit ends the periodic flush for good (`sqlite.py:186-189`
  catches nothing), which `BufferIsFlushed` leaves out. `stop` cancels a flush in progress
  and may close the connection under its thread (`orphaned`, `CutOff`); awaiting
  a flush task that died, it raises before its last flush (`StopRaises`). A batch
  orphaned by a cancellation may be committed to the next file (`Commit`), or, if the
  pool had not begun it, is never written (`CancelInside`). Nobody rolls back: the
  rows that a failed batch had inserted go in with the next commit, whoever makes it
  (`Raise`, `CommitElsewhere`), or are lost with the connection.
* *Pipeline.* The size warning is published before the writer has subscribed
  (`Boot`). An idle writer leaves at the stop event while collectors still
  publish. A roll that fails half way leaves no writer. Two rolls in one second
  name their backups alike and the second replaces the first. Two requests
  in progress at once (`overlapped`; neither `web.py:67-79` nor `runtime.py:400` keeps
  them apart) leave two writers, and every event is stored twice from then on, or
  one finds the connection closed by the other and fails. The database may be
  replaced and the JSONL file not (`JsonlRaises`). With Python 3.10
  and 3.11 `wait_for` may swallow the cancellation (`SwallowsCancel`), and then a
  roll waits for ever.
* *Rules.* A match may span almost two windows (`Stale`), where `rules.py:21` has all
  triggers within one: `FiresAsReference` asks for every chain within one window and
  allows what lies within two. If two negations follow each other, the second hears
  nothing of what comes while the first is awaited, although `rules.py:20` promises
  the whole window: the rule fires on a silence that was none. No rule shipped in
  `rules/` has two. Windows are measured from processing, not from the event's own
  time. `same_device: false` never joins two devices: the docstrings (`rules.py:22`,
  `:169`, `:174`) give such rules the key "_global_", but `:249` keeps every partial
  by the event's own address, also for the three shipped rules that ask for it
  (`rules/connection.yaml:207`, `rules/profiles.yaml:183`, `rules/security.yaml:253`);
  `FiresAsReference` leaves such rules out. Partials are expired only by an event of
  the same device or on an idle queue, so while others talk the negation of a device
  that has gone quiet is not decided.
* *Correlation.* Passes regroup events that have a group, which can leave the
  rest of the old group behind. Group ids start at 1 in every process on a
  database that keeps the old ones, so a group may get events of two devices
  (`IdsAreFresh` is where the properties hold). An update that fails after its first
  statement leaves a group id without a link, to be committed with the next update
  (`UpdateRaises`, `torn`). A roll under a pass labels rows of the new
  database by ids of the old.
* *Reload.* Every collector restarts on any change. Collectors switched off on
  the command line, or lacking root, come back on a reload. A file that `validate`
  rejects changes `Config` but not the collectors. A file with an older time is
  not noticed. An unreadable file seen by the polling loop ends the watcher, and
  `stop`, awaiting it, re-raises its exception before it reaches the stores
  (`LoadRaises`).
* *Readers.* Awaiting a reader that ended with an exception raises it in `stop`,
  which then leaves what it had not come to: a poller, a child (`Join`, `botched`).
  The reader of `trace_pipe` keeps its child in a local variable and tells it to end
  when its loop ends, not when it is cancelled: such a stop leaves the `cat` running
  (`FtraceEnds`). A second cancellation leaves bcc's thread polling. What
  `systemctl stop` answers is not looked at (`daemon_log.py:158-163`): a service that
  would not stop runs on beside the bluetoothd that is launched next (`Halt`). A
  bluetoothd that ignores its signal is given five seconds and then runs on beside
  the service that is restored. A line of more than 64 KiB ends a
  reader without a report. `journalctl`'s reader waits for ever at the end of
  the output. The last block of `btmon` and `btmgmt` waits for the next header and
  is lost at a stop.
* *HCI.* The entry `Disconnect` of the table, a command, is contained in the
  headers of the events that end a connection and comes first, so that these are
  published as INFO: their own entries (`hci.py:93`), warnings as
  `2600/hci_event_taxonomy.md:27` wants them, are never reached. `SeverityIsWorst`
  allows either. A synchronous connection is published as CONNECT, since that test
  comes first; the branch for SCO_CONNECT (`hci.py:687-689`) is never reached.
  `EndsAreNotBeginnings` allows either. The RSSI counts only under a header with
  "Read RSSI" (`:438`): only the tests have one (`tests/test_hci_parser.py:414`), btmon
  prints the answer under Command Complete. The patterns of errors ask for the number
  before the name, and the first that matches ends the search (`:423-429`): a Reason
  hides the error of an `Error:` line.
* *Probes.* A device that was connected before the D-Bus collector listened, or
  whose signal found the queue full, is not known until its next change. A ping
  sent before a device went and came back may strike it from the list
  (`Discarded`). A ping that is given up or cancelled leaves its child to end by
  itself (`l2ping.py:184-203`). `battery` calls `MessageBus.call_method`
  (`battery.py:181`, `:267`), which dbus-next's aio bus does not have (`gatt.py:307`
  and `dbus_monitor.py:182` use `call`): the notifier gives up at once, every poll is
  swallowed by its `except` and leaves a D-Bus connection open, and no level is ever
  read or told (`NotifierEnds`, `LevelNotRead`). A scan
  or discovery of `gatt` goes on after its `stop`, publishes late, and marks
  devices in the set of the next run.
* *Snapshots.* When the last adapter goes, `/sys/class/bluetooth` may go with it,
  and then its removal is never told. A switch that goes away blocked and comes
  back free is new and not told. A module's count that cannot be read for a poll
  hides the change across it.

## 5. Proofs

Checked by TLAPS, for all values of the constants that satisfy the modules' named
assumptions (`BusAssumption`, `SinkAssumption`, `DriverAssumption`,
`PipelineAssumption`, `ReloadAssumption`, `ChildAssumption`, `HciAssumption`,
`BlueZAssumption`, `ProbesAssumption`, `GattAssumption`, `WatchersAssumption`,
`RuleAssumption`, `CorrelationAssumption`). They say that names of different things
differ, that sets of adapters and of requests are finite, that bounds are numbers,
that a queue and a batch hold at least one, that windows and intervals are positive,
that a rule begins with an event and not with a silence, and that the pipeline has a
name for the writer each request starts. Every safety invariant and action property that
a passing run checks is proved. No bound of section 3 is left in a theorem: any
number of subscribers, requests, tasks, collectors, adapters, events, rows, faults,
rules and partials. Two theorems have a hypothesis of their own, `MaxSkew <= Window`
and `NegationsApart`; what happens without them is said below.

* `EventBus_proofs`. `BusInv` is `TypeOK` with `WarnedEveryInterval`, inductive
  together: `MarkOnGrid` is the arithmetic of a count that several queues raise
  in one publish. `StreamInv` adds to order and completeness that what a
  subscriber missed was published and is not in its stream (`Missed`); without
  that part an event refused could be one that was also received.
  `DrainKeepsStream` and `AppendGrowsStream` are the two facts about queues,
  `ChannelStep` maps every step to one of the abstract channel or a stutter,
  for all subscribers at once. Theorems: `BusTypeCorrect`, `DropsAreReported`,
  `StreamsAreFaithful`, `BusIsolatesSubscribers`.
* `SqliteSink_proofs` has no theorem of a specification, for the sink is driven
  by others: it has one lemma per operation, for any calling task, about each of
  these. `SinkInv`: the types, with `LockGuardsJob`, which says both that the holder
  waits for one job and that an awaited job's task holds the lock. `Apart`: the
  table, the batches, the buffer and the rows waiting for the lock share no row, and
  none lists one twice; rows are told apart by a key, which is the row itself for
  the driver and its event for the pipeline. `RowsMove` says how the set
  `Live` of these rows changes. `JobsCurrent`: as long as no batch is orphaned,
  every job is awaited and of the open connection. `BufferRule`: who holds the lock
  has emptied the buffer.
  `FileRises` and `WaitsLast`: the order from the table to the row that waits.
* `SqliteSinkDriver_proofs`. `RowsInv` adds to `Apart` that `Live` and the lost rows
  are together what was written: the counts of `RowsKept` follow from the disjointness,
  and would not be inductive by themselves, since a commit moves rows between two
  of them. `LossInv` is `LossNeedsFault` with what it needs: that there is one closer, the
  connection is open while it is up and nobody holds the lock once it has flushed
  (`OneCloser`), and `JobsCurrent`, so that only an orphan can find its connection
  closed. Theorems:
  `SinkTypeCorrect`, `LockIsHeldForJob`, `RowsAreKept`, `OnlyFaultsLoseRows`.
* `StoragePipeline_proofs`. Nothing is assumed of the requests. Some of the invariant
  holds always (`TypesInv`, and of the controllers `Controls`), the rest up to the
  moment two requests overlap (`UntilOverlap`), for `overlapped` is never taken back;
  what happens then is shown by `pipeline_overlap`. The lemmas of the bus and the sink
  are used by `INSTANCE`. The part until then, `FilesInv`, has these parts.
  `BaseInv`: who is at work, namely one controller (`OneController`), one live
  writer (`OneAlive`), and in the sink only the children of that writer
  (`Children`); connections number the sessions (`Connections`). `SqlInv` and
  `JsonInv`: an event is in one place, live or archived. They are kept by
  `Marks`: what was handed to a store lies below all that a writer has still to
  hand, so that an event read again after a restart would be seen. `Stores`: the
  stores are open and stamped with the session in force while a writer runs
  (`OpenRule`, `StampRule`), and empty when they are closed (`FlushRule`, with
  `BufferRule` and `JobsCurrent` of the sink). `SessionInv`: without an orphaned
  batch every live row carries the session of the connection, and each archive
  that of one session. `OrderInv`: the sink's order. `DrainInv`: without a fault,
  what the last writer took is in both stores or on its way (`Delivered`), and
  once `stop` is through all of it is in the table. One lemma per part says that a
  step keeps it, from the operation's class (`WriterKind`, `SinkKinds`,
  `ControlMoves`). Theorems: `OneWriterReads`, `EventsAreStoredOnce`,
  `SessionsMatchFiles`, `FilesListInOrder`, `DrainIsComplete`.
* `HotReload_proofs`. `ReloadTakesEffect` and `NothingRunsAfterStop` are not
  inductive: in the middle of a restart some collectors are stopped and some
  started. `RestartProgress` says which, by the watcher's place in the list,
  and `StopProgress` says the same of the shutdown. `Inv` is the two with the
  types; one lemma per action. Theorems: `ReloadTypeCorrect`, `ReloadWorks`,
  `StopIsComplete`.
* `ChildCollector_proofs`. For all kinds of collector at once, by the fields of their
  profiles. `ServiceInv`: a managed daemon runs, or ends, only while the service is
  halted (`TakeTurns`), unless systemctl failed or the daemon is stubborn, and what
  the collector has to put back is remembered wherever it is interrupted
  (`Remembered`). `CleanInv`: of the generations of tasks and children only those the
  attributes refer to are alive (`SlotsOK`, `OwnChild`, `Tidy`), unless a step has
  marked the run as `botched`; what `stop` has passed is gone. `CatInv`: the child of
  `trace_pipe` runs only while its reader does, or when that was cancelled.
  `BlocksInv`: what is published, with the block in hand, is the cut of what was read
  so far, and a longer output has a longer cut. Theorems: `ServiceIsGivenBack`,
  `NothingIsLeftBehind`, `BlocksStayWhole`.
* `Collectors_proofs`, of `HciCollector`. Of a block in hand the invariant says what
  publishing it will do: `Ahead` is the table of handles as it will be then.
  `SureInv`: a handle that is not in doubt has one link at most, and stands in `Ahead`
  for the device of that link, if it is classic. `HandInv` says that a connection in
  hand is still there, so that it may settle its handle, and that a block without an
  address finds its own link's device in the table as it is. `TypeOfHeader` works out
  the ordered tests for every header, `PatternOfLines` which error pattern counts,
  `SeverityBounds` that raising is taking the worse. Theorems: `AttributionsAreExact`,
  `EndsAreTold`, `SeverityIsMaximal`.
* `Collectors_proofs`, of the probes. For `gatt`, `OnceInv`: a run and device that
  are `Fresh` (the run has not begun, or has not connected, or the device is not
  marked) have no discovery in flight and none published, so the marks are what
  keeps a second one out; and `MissInv`: a connected device is marked, or a scan of
  this run is still to answer, or has answered with it. For `l2ping` and `battery`,
  `TrackInv`: the *last word* the queue holds about a device says how it is, or, if
  the queue says nothing, the tracked set does; `TracksConnections` is this for an
  empty queue, and is not inductive without it. `QuietInv`: the probe is down only
  when its poll task has ended. Theorems: `DiscoveriesAreOnce`, `NobodyIsMissed`,
  `ProbesTrack`, `ProbesAreQuiet`, for any number of devices, runs and starts and
  any length of queue.
* `Collectors_proofs`, of `SnapshotWatchers`. `WatchInv` says for each kind of poll
  what the events have told of a thing, by what was last read of it (`Known`); it is
  wider than `EventsTellWhatWasRead`, for it holds also while the watcher is stopped
  and says what a thing is known as that could not be read, or that is not forgotten
  when it goes (USB). Each poll has a lemma that it keeps `Known`. Theorem:
  `WatchersTellWhatTheyRead`.
* `Correlation_proofs`, of `CorrelationEngine`. Its lists are functions over counted
  positions: `PlacesAscend` and `EveryPlaceIsTaken` show that counting what comes
  before numbers a finite ordered set without gaps, which gives the updates of a
  pass and their order (`UpdatesAscend`). `GroupsInv` looks at the links made
  together with those the pass in hand has still to make (`Todo`): each group of the
  union is a chain (`Chained`), and what is left comes after what is done, in ids no
  other group has (`Ascending`), so that a pass may fail between any two updates.
  `Agree` adds that every link's id is taken; the updates that lack their link
  (`torn`) count as links in it. `PairsInv`: rows and waiting events
  are no older than what came before them by more than `MaxSkew` (`LateInv`), so
  that what was stored after the last covered row lies within the overlap
  (`Marked`); what the last whole pass had to bring together shares a group, and
  what this one has to does so once its updates are made (`SharedInv`). In the step
  that queries, a new pair lies within the query's bounds, since it starts two
  windows before the watermark and `MaxSkew <= Window`; an old pair is linked
  already. The hypothesis is needed: with `MaxSkew` 2, above `Window` 1, `MaxTime`
  6, `Lookback` 4, `MaxPass` 1 and no faults, TLC refutes the property. Theorems:
  `GroupsStayChains`, `TablesStayInAgreement`, `PairsStayCorrelated`.
* `Correlation_proofs`, of `RuleEngine`. `EngineInv`, the base: events are processed
  in the order of their numbers and none is skipped (`Numbered`, `Queued`); a list is
  ordered by age (`OldestFirst`), and of each of its partials is said what it has
  taken, each the first event that fitted (`Linked`), and that nothing it waits for
  has come since (`Awaits`); a match closed in time (`Ended`), and no partial or other
  match has its rule and its first event (`Distinct`). This is one half of
  `FiresAsReference`: what fires is a chain that closed within two windows. The other
  half, that every chain within one window fires, is `Accounted`: as long as nothing
  is evicted, whatever began a partial has a match, a partial, or a partial `GivenUp`,
  whose next event came, or can only come, more than two windows late. Two chains with
  the same first event are the same chain (`FollowersAgree`). `HeardInv`: a partial
  that waits for silence has not heard the event, and, of the negations it has passed,
  heard it only after the window (`Calm`). With two negations in a row the step that
  passes the first would have to know that of the second, and does not, which is what
  `RulesTwoNegations.cfg` shows; `NegationsApart` is therefore the hypothesis, and the
  pack of `rules` and the rules shipped in `rules/` satisfy it. Theorems:
  `PartialsStayWellFormed`, `RulesFireAsReference`, `NoRuleRaisesAFalseAlarm`.

Model-checked only is what is temporal under fairness, which the prover cannot
reason about: `BufferIsFlushed`, `RequestsComplete`, `FileIsLoaded`, the `StopEnds`
of three modules, `ExitIsReported`, `ProbeStopEnds`,
`ViewCatchesUp`.

## 6. What is not modelled

Of the modelled parts: the periodic retention purge, WAL checkpoints, loading of
YAML rule packs, merging of configuration defaults, the SSE stream, `stats`.
The other components:

* of the collectors: what parsers extract beyond what an event's type, severity
  and device depend on; PipeWire's table of nodes and its comparison with a dump;
  eBPF's bandwidth counters; the files of the kernel's tracing. `dbus_next`, BlueZ
  and the child processes are modelled as the code uses them.
* `events.py`, `enrichment/`: data and tables without behaviour.
* `analysis/history.py`: queries without state of their own.
* `web.py` beyond roll and delete, `cli.py`: input and output. `replay` publishes
  from beginning to end without yielding; the bus counts what it refuses.

What is hard to test and no property is about (of the hazards, those that list no
property, with the reason in their note; and these):

* In the models, where it is so with certainty and nothing is left to ask. Events
  published before the writer's first step, or after it has left, are not stored
  (`runtime.py:117`, `:254`). Two rolls within a second give a backup the same name
  (`:408`). A reload forgets what `start` knew, forced off and root required
  (`:388`). `load` may raise after it has taken the new data (`config.py:184`).
  Windows of rules are measured from processing (`correlation/rules.py:248`), and rules over
  several devices are keyed by the device all the same (`:249`). Overlapping passes form
  groups again over part of the old ones (`correlation/engine.py:142`).
  Among the snapshots, a reference count that
  is unreadable for one poll hides a change (`kernel_driver.py:486`), and with
  the last adapter the class directory goes untold (`sysfs.py:230`).
* Not in the models. Batch intervals above the fixed lookback of five seconds skip
  events (`correlation/engine.py:104`); the runs keep the interval below it. SQLite
  may roll a transaction back by itself (disk full, an I/O error): then the rows of
  `Raise` do not wait for the next commit. The sink's `start` may raise on a fresh
  file (`storage/sqlite.py:117`). To the correlation engine a batch of the sink is
  always stored. The thread that runs `set_group_id` may be caught by a restart; the
  model has ended it by then. A PipeWire change of more than five objects is taken for
  a dump, and brackets inside strings count for its end (`pipewire.py:450`, `:316`).
  eBPF's bandwidth is told only when a second passes without an event (`ebpf.py:332`).
  `replay` reports lines as written that the bus has refused (`cli.py:460`). Retention
  compares two time formats as text (`storage/sqlite.py:508`).

## 7. Plan

Built: the modules above, in the order bus, sink, pipeline, reload, rules,
correlation, readers, HCI, probes, snapshots. Left to model, none of which is
concurrent: the retention purge of `storage/sqlite.py:491-516` with its comparison
of two time formats as text, PipeWire's table of nodes, and the queries of
`analysis/history.py` as operators against reference definitions.
