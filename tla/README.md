# libqcperf in TLA+

A verification development beside libqcperf: TLA+ modules that model the library's
core, its backends and the libraries under them as the C and C++ code runs them, TLC
configurations that check them on small instances, and theorems about them checked by
TLAPS for every instance.

## 1. Inventory of the system

libqcperf is a C library with one public API (`core/inc/qcperf.h`), one table of
function pointers per backend, and backends that sample hardware counters on a
background thread and hand batches of metric responses to a callback.

| Component | State | Operations | Interacts with |
|---|---|---|---|
| core (`core/src/qcperf.c`) | `g_qcperf_backend_info` (the table), `g_backends_connected` | init, connect, get capabilities, set callback, start, stop, disconnect, deinit | calls the backend through the table; no lock |
| eight backends: dummy, qcom-linux-gpu, qcom-linux-cpu, qcom-dsp-npu, linux-thermal, wos-cpu, wos-power, wos-thermal | capability list, callbacks, `g_is_thread_running`, `g_thread_info`, what the library below needs | init, set callbacks, info, start, stop, deinit, sampling thread | qthread, qtime, a library below, the application's request and callback |
| linux-thermal library | zones and devices by domain, the nodes opened for them | init, discover, read, cleanup | `/sys/class/thermal` |
| CPU and power telemetry (Windows) | a PDH query or a system function; the list of rails | init, read, deinit | PDH, NtQuerySystemInformation |
| ETW thermal library (Windows) | user count, zone name map, list of stopped sessions, two threads, two PDH queries | init, zone names, sensor, passive cooling, cleanup | ETW, PDH, qlist, qcondition-variable, qmutex |
| FastRPC runtime and DSP session | loaded library and symbols, session handle and memory | init, load, query, deinit | the DSP |
| IOCTL helper (Windows) | a device handle | get handle, ioctl, free | a driver |
| metric tables | capability list; maps between metrics and cores, rails, zones | filled by init, read by the sampling thread | the library below |
| qthread | a handle (`pthread_t*`) | create, join, destroy, terminate, current id | every backend |
| qlist, qmutex | head, tail, size, the nodes; a mutex | push, pop, seek, get, insert, erase, clear, delete | the ETW library |
| qcondition-variable | mutex and condition variable | create, wait, wait_for, notify, destroy | the ETW library |
| test application | one request | connect, capabilities, callback, then start, 10 s, stop per capability, disconnect | core |

What is hard here:

* **No locks.** The core's table and flags, and each backend's flag, handle and
  callback, are plain variables shared by the application's threads and the sampling
  threads. Every "check, then call" can be overtaken.
* **A thread that outlives its session.** The sampling thread keeps pointers to the
  application's request, to the capability list and into the library below. Whether a
  stop really ends it depends on who sets the running flag, and when.
* **Failure half way.** A backend's init that fails inside connect; a thread that runs
  out of memory after start has answered SUCCESS; a library opened in five steps of
  which the fourth fails; a cleanup whose own answer decides what its caller believes.
* **Time and waits.** Batches are due by count or by time; the ETW library waits half a
  second for a thread that may already have notified, and stops other programs' trace
  sessions when it believes that it was told to.
* **Buffers of fixed size and tables decided twice.** What is listed at init and what a
  sample carries come from different code at different times.
* **Index arithmetic and widths** (`<` for `<=`, `qsize - index - 1`, ids cut to 8 bits).

What makes each component correct:

* core: a call never goes through a NULL pointer or a freed table; a connected flag
  means a usable backend; a disconnected backend has been told to release what it holds;
  the return code of connect and deinit tells the truth.
* backends: a session is one thread; data arrive only inside a session, in batches of
  the right size and on time, at the callback of this connection; a stop ends, and
  nothing runs after it; the thread never reads freed memory or a closed library.
* libraries: closed ones own nothing; nothing is lost, freed twice or overrun, whichever
  step fails.
* metric tables: a batch carries only metrics the application was told of.
* ETW library: its threads find what they need; other programs' sessions come back; a
  temperature is stored as its own zone's; calls return; a disconnected backend can be
  connected again.
* qlist: the list is the sequence its operations say, from both ends; one thread at a
  time changes it.

## 2. Modules

| Module | What it is |
|---|---|
| `QcperfCore` | `core/src/qcperf.c`, step by step, for several application threads |
| `QcperfCoreOverlap` | the same with two history variables, to say which overlaps are harmful |
| `CollectorSession` | abstract: what a sampling backend promises (sessions, batches, a stop that ends) |
| `LinuxGpuBackend` | `backends/qcom-linux-gpu`: start sets the flag, ownership by the handle |
| `SamplerSession` | what the other seven backends share: application, flag, handle, request, buffer |
| `DummyBackend`, `LinuxCpuBackend`, `DspNpuBackend`, `LinuxThermalBackend`, `WosThermalBackend` | extend it: the thread sets the flag ("late flag") |
| `WosCpuBackend`, `WosPowerBackend` | extend it: start sets the flag ("eager flag") |
| `Samplers` | the seven together: `kind`, chosen by the initial state, says which one runs |
| `ProviderSession` | what the libraries share: ownership of memory, handles and queries |
| `CpuTelemetry`, `PowerTelemetry`, `PassiveCooling`, `QcomDsp`, `WosIoctl`, `ConditionVariable`, `LinuxThermalLib` | extend it: ten small libraries and `linux_thermal_lib.c` |
| `MetricCatalogue` | extends it: the metric tables of qcom-linux-cpu, wos-power and wos-thermal |
| `Providers` | all of these together: `lib` says which one runs |
| `EtwThermal` | `wos_thermal.c` init and deinit over `wos_thermal_lib.c`, `thermal_common.cpp` and the sensor thread |
| `SharedList` | abstract: a sequence with atomic operations |
| `QList` | `utils/qlist` over `utils/qmutex`: a heap of nodes under a lock |
| `*_proofs` | theorems about the module of that name |
| `MC*` and `MC*_<run>.cfg` | instances for TLC |

Two refinements are claimed and checked: the eight backends implement
`CollectorSession` (`KeepsPromise`, in `LinuxGpuBackend` and `Samplers`), and `QList`
implements `SharedList` (`ImplementsList`). The core is modelled with every backend
reduced to how much of what its init set up it holds.

A definition whose name has an underscore (`StopJoin_NoWait`) is a wrong variant of the
one that follows it, the way a plausible edit of the C would make it. No action uses
it; it is there to show that a property tells it from the code.

### QcperfCore

`allocated`, `bound`, `connected`, `held` and `messageCb` are the table pointer, its
function pointers, `g_backends_connected`, what a backend holds of what its init set up, and
its message callback; `pc`, `call` and `reply` are the calls in progress. A backend holds
nothing, all, a part (an init that failed with its tables allocated,
`wos_power_backend.c:171`), or is "kept": its deinit failed and left it initialized
(`wos_thermal.c:585`), which the core does not learn because it drops the code
(`qcperf.c:207`). `Guarded` are the ids of such backends; their init refuses while they are
initialized, so that a later connect fails and is undone, the deinit being called once more.
Every API function is cut where it calls out: connect is `QcperfConnect` (checks),
`ConnectCreate` (`backend_init_fns[id]`), `ConnectPublish` (verification and flag),
`ConnectMessage`, `ConnectInit`, and on failure `ConnectUndo`, which runs the whole of
disconnect; `DeinitLoop` runs disconnect for each connected id. The four calls that only
look up the table and call through it are `QcperfUse` and `UseCall`. Dereferencing a freed
table or a NULL pointer, reading past the array and a second init that loses the first list
set `fault`, after which nothing is defined and nothing follows. An entry check and the
store that follows it are one step, so for overlapping calls the model allows fewer
interleavings than the C; with serialised calls it allows all.

### LinuxGpuBackend

One application thread (`AllocRequest`, `FreeRequest`, init, set callback, start, stop,
deinit) and the sampling threads that its starts create. `thread_create` is
`StartCreate` (the thread exists and may run) followed by `StartStore` (its handle is
stored); stop is `StopFlag`, `StopJoin` (waits for the thread) and `StopDestroy` (frees
the handle). The thread is `CollectBegin` (allocations, any of which may fail),
`CollectCheck` (the loop condition), `CollectSample`, `CollectDeliver` (the callback is
entered), `CollectReturn` and `CollectRest` (the flag again, then the sleep). The request
belongs to the application, which frees it when no session is open: reading it later is
a fault. A sample is the set of metrics whose node could be read; a batch is its length.
Message logging, metric names and values are left out.

### SamplerSession and the seven backends over it

`listed`, `dataCallback`, `provider`, `running` and `handle` are the backend's globals:
the capability list, `g_data_callback` (of this connection or of an earlier one), the
library below, `g_is_thread_running` and `g_thread_info.thread_handle`. `request`,
`started` and `appPc` are the application and the call it is in, `fresh` the handle inside
`thread_create`. `pc[t]` and `buf[t]` are a sampling thread and its locals: the samples a
batch may hold (`quota`), the responses allocated (`room`), the responses and samples so
far (`len`, `count`), the milliseconds slept since the last batch (`since`), and `info`,
the memory of the backend that the thread points to and that a deinit frees under it.

The steps are those of the GPU backend, with these names: `BeginStart`, `CreateThread`,
`StoreHandle` (start), `CallStop`, `CheckFlag`, `JoinThread`, `DestroyThread` (stop),
`Connect`, `Install`, `Disconnect`, and `SetFlag`, `Judge`, `Deliver`, `Sleep` of the
thread. They take as parameters what the backends do differently: whether a setter refuses
a second callback, what a deinit forgets, what a failure leaves. Everything else is
written out in each backend's module: how its thread begins and gives up, what a sample
adds, when a batch is due, what is dropped, how long it sleeps, and

* dummy: the flag stays set or is cleared by different failures; the sleep is the
  streaming rate;
* linux-cpu: two readings with a sleep between; a thread that ends clears the flag; a sample
  may have fewer responses than were listed at init, or more, and then they are dropped;
* dsp-npu: a sample without data counts; the DSP session is closed by deinit alone;
* linux-thermal: a pointer into the library; the length of a batch kept apart (`said`);
* wos-cpu, wos-power: requests are mended by the thread and not validated; the library is
  opened by start and closed by stop, and by some of the failures between;
* wos-thermal: deinit stops the session it finds, and leaves the backend initialized over a
  closed library (`"stuck"`) when the library's cleanup fails; a reinitialisation appends
  the rates to the lists again.

Reading what is freed, sampling through a closed library, calling a NULL callback and
dividing by zero set `fault`, after which nothing follows.

### ProviderSession, the libraries and Providers

What a library owns is a set of names, each of them also the pointer the code keeps it by:
`mem.held` exists, `mem.set` are the pointers that are not NULL, `mem.lost` was held when
its pointer was overwritten, `mem.misfreed` was given back by a pointer that was not its
own any more or never was, `mem.overrun` are the arrays used past their end. The code's
allocations, frees and assignments of NULL are `Take`, `Release`, `Close` and `Null`,
applied in the code's order; `Opened`, `Failed`, `Closed`, `Used` say what the call
answered. A library is opened, used and closed by one backend, one call at a time: an
action is a whole call, and a failure after any of its steps is one of the call's outcomes.
`size` is the array that it fills (cores, rails, zones, waiters). A behaviour goes on only
while the memory is `Sound`: after something is lost, misfreed or overrun the model stops
(`Ended`), because what the code does then is not defined.

`LinuxThermalLib` is the largest: `LibInit` counts the entries of
`/sys/class/thermal` by domain, `Discover` lists them again, files each under the first
prefix of the table that its type matches and opens its value node; entries may come, go
or fail to be read between the two. `MetricCatalogue` has for three backends what its init
lists (`listed`), how cores, rails or zones are translated (`metricsOf`) and what a batch
carries (`sent`): it follows the tables of metrics, while `Samplers` follows the buffers.

### EtwThermal

`pc`, `result` and `wait` are the application's thread inside a connect or a disconnect, the
code it carries and its wait; `listener` and `sensor` are the two threads; `count`,
`hasList`, `zones`, `libZones`, `tools` are `g_instance_count`, `g_stopped_etw_sessions`,
the two zone name maps, and the mutex and condition variable the listener uses; `etw` is the
other programs' sessions: running, stopped with a way to restart them, or lost. A zone name
map is its `ids` in the order of their places and the `index` from an id to its place
(`zone_id_to_name_index_map`), which is one byte short of the greatest id that the range
check lets pass; `temps` is `g_zone_temperatures`, and keeps the number of the zone whose
temperature was stored last in each place. The actions follow
`thermal_common_getzone_names`: `StartListener`, `BeginWait`, `EndWait` (notified, spurious,
timed out, failed), `StopListener`, `JoinListener`, `MakeRoom` (stop a session and try
again) and `CopyZones`; then `SensorInit`, `CoolingInit`; closing is `WosThermalDeinit`,
`SensorStop`, `SensorJoin` and `CommonCleanup`. ETW and krabs are external: `start()` throws
or blocks until `stop()`, and events (`ZoneRundown`, `TemperatureChange`) come in between.
Nothing makes a caller wait until its thread has reached `start()`: a wait that fails at
once, or a cleanup right after the thread was created, stops the trace first (`Stopped`),
and a `start()` that comes after its `stop()` blocks for good (`"stuck"`), as does the join.

### QList

`heap` maps each allocated node to its `next`, `prev` and `data`; freed nodes leave its
domain, so use after free is an access outside it. Each function is a `Lock`, a `Body`
and an `Unlock`; `fn` is the function a caller is in and `then` what follows when it
returns, because `list_insert_data`, `list_erase_node` and `list_get_data` are made of
others: `Yield` and `Relock` are the unlock and the lock around such a hand-over, and
`InsertUse`, `EraseUse` and `GetRead` use the node `list_get_node` found. One `Body` is
one step because it runs under the lock; `LockPaired` is what justifies that. A failed
`calloc` is one of the outcomes of every function that adds (`Allocated` is the other one).
`Operations` are the functions an application uses: all, or all but `list_insert_data`.

## 3. Runs

| Run | Environment | Distinct states | What it shows |
|---|---|---|---|
| `serial` | core: 2 threads, 3 ids (one not compiled), calls on one backend never overlap | 198,078 (up to symmetry) | table, flags and backends agree through failing inits, nested disconnects, deinits that fail and refuse the next init, and reinitialisation |
| `overlap` | core: 2 threads, one backend, no rule | 261,412 (up to symmetry) | every fault needs two overlapped calls on one backend, or the id `QC_PERF_BACKEND_MAX` |
| `session` | GPU backend; stop before disconnect | 43,229 | it implements the session promise, with every failure and every moment of every call |
| `reentrant` | the same, callbacks may call stop | 305,782 | even then threads whose flag is cleared end |
| `disconnect` | GPU backend; disconnect without stop | | **violated**: the thread survives |
| `patient` | seven backends; the application waits until its thread is sampling, and stops before it disconnects | 525,082 | they implement the session promise; batches are on time, and go to the callback of this connection |
| `hasty` | seven backends; calls at any moment, disconnect without stop, zero rates | 4,101,803 (up to symmetry, see below) | buffers have room where a sample has at most what was listed; the two backends that set the flag in start need no patience, and wos-cpu closes its telemetry |
| `earlystop` | seven backends; stop at any moment | | **violated**: a stop can overtake its start and leave the thread running |
| `providers` | eleven libraries and three metric tables, every step may fail | 1,038 | ownership up to the first thing amiss, the filing of zones by prefix, and batches that say only what was listed |
| `etw` | connects and disconnects over three ETW sessions and six zone numbers | 109,096 | threads have their tools, sessions come back, a temperature has its own zone's place, calls return unless they stop a trace that has not started |
| `reopen` | the same | | **violated**: after an ordinary disconnect the backend cannot be connected again |
| `list` | qlist: 2 threads, 4 nodes, indices 0..4, a recursive mutex, the calls that may run together | 93,934 (up to symmetry) | the list stays whole and implements a sequence with atomic operations |

A run marked *violated* checks one statement of the documentation or of a comment that
the code contradicts; `PROJECT.json` quotes it. Every property of a passing run is also
checked against a wrong variant of the code, and fails there.

Some properties hold of the code only with exceptions, and say so in their definition:
`NothingAmiss` lists, for each library and the call it happens in, the resources that are
left, lost, given back wrongly or overrun; `SendsWhatItLists` the two batches that carry
what was not listed; `Timely`, `CallbackIsCurrent` and `BufferNeverFull` the backends they
do not hold of; `TemperaturesOwn` the one id without a place; `CallsReturn` the trace that
is stopped before it has started; `EagerFlagIsSafe` the request of zero rates;
`NothingLeftBehind`, `ConnectReportsState` and `DeinitReleasesAll` what a deinit that failed
has kept. The exceptions are what the code does; without them the runs find the behaviour.
Two properties are about less than their name: `SessionsRestored` speaks of a user count of
zero, which a cleanup that cannot take its lock never reaches, and `NoFault` of an
application that keeps the rules of its run.

### Bounds, and why they are enough

* Two threads of an application: every property of the core is about one call or about
  a pair of calls. Three ids: one connected, one more to tell "this backend" from
  "another", one without a creation function; the invalid ids lie on both sides.
* Two sampling threads. In `session` and `patient` the invariants say that one lives at
  a time (the second slot is there so that they could fail); in `reentrant` and `hasty`
  a leftover thread meets a new one. When both slots are taken a start cannot proceed:
  this is a bound of the model, not of the code.
* Requests: one sample per batch, four samples per batch, a sampling rate above its
  streaming rate, an unknown capability, an illegal rate; in `hasty` two samples, and the
  request of zero rates. `count` is kept at the quota once there, `since` at twice the
  streaming rate, `appended` at 2, and `batches` is a parity: beyond these values nothing
  in the code tells them apart.
* Two metrics per sample (the dummy has the five of its table): none, some or all of a
  sample.
* `hasty` identifies states that differ by the names of the threads or by what was last
  sent (`VIEW AllButSent`): no step reads `batches` or `batch`, and its invariants do not.
* `providers`: arrays of two, and three to put into them (`MachineCores` > `MaxCores`,
  three devices of a domain with `MaxNames` 2, `MaxZones` > `KnownZones`), so that every
  cut and every overrun happens; three rails with the pair SYS and SYSTEM first; zones that
  differ by the order of their prefixes, one that is excluded, one without a prefix. The
  space is small because a library has one caller and a call is one step.
* `etw`: zone numbers that fit, the one that passes the range check and has no place (100),
  one out of range, and one that fits once cut to 8 bits (257); `MaxZones` 2, to be full;
  `MaxInstances` 2, because a cleanup that cannot lock leaves its count behind and the third
  open is then refused. Waits and cleanups may come at any moment, before their thread has
  begun too.
* Four nodes of a list: with fewer, `list_get_node` never walks from the tail. Two data, to
  tell elements apart. Two callers.

### Fairness

The scheduler runs every thread (`WF` on the sampling threads' steps, on the ETW threads'
and on a call the application is in): the code has no priorities and takes no lock between
these steps. The application's decision to call is never fair. A callback is assumed to
return, which the code depends on (stop joins the thread). In `EtwThermal` a retry whose
thread cannot be created tries again without end; such a turn changes nothing, so that
`WF_vars(Caller)` includes that a thread can be created some time: the loop itself has no
other way out. That the retries themselves end needs no fairness: each
stops one more session. Nothing is assumed of allocations, of reads, of locks that fail or
of traces that start; in particular a thread that was overtaken by its `stop()` is not assumed to
end, and `CallsReturn` says so. `QList`, the core and `Providers` state no fairness: their properties
are safety.

### Assumptions on the application

`AppSerialises`, `StopsFirst`, `AppWaits`, `CallbackStops`, `Disciplined` and `Operations`
are constants, so that what depends on them is said and not built in. `test_app` keeps all
of them: one thread, start, ten seconds, stop, disconnect. The header asks for none of
them.

## 4. What qlist needs from its users and its platform

Run with `Disciplined = FALSE` the model of qlist shows what "thread-safe" (qlist.c:40)
does not cover: `list_get_data` reads a node that a pop has freed, `list_erase_node` acts
on an index it looked at before giving the lock up, and nothing may run beside a delete.
`Clash` in `QList` states exactly which pairs of calls are kept apart; any others may
run together. Run with `Recursive = FALSE`, the default mutex of Linux,
`list_insert_data` in the middle of the list waits for itself, and its second unlock at
the ends opens a lock that another thread holds (`LockPaired` fails). It is the only
function that needs the recursion: without it the default mutex is enough, which the theorems
prove (their hypothesis `MutexFits` says just this; with `Recursive = FALSE` and
`Operations <- NoInsert` the configuration of `list` shows it on 46,778 states). The only user, the ETW session
manager, runs on Windows and only pushes at the back and pops at the front, which is within
these limits.

## 5. Theorems

Every safety property that a passing run checks is also a theorem, checked by TLAPS for
every value of the constants that satisfies the named assumptions of the modules, which TLC
evaluates in the runs. The assumptions say that a value used as "none" is no member of the
set it stands beside (`NoThread \notin Thread`, `NoZone \notin Zone`, `NoMap` is no map,
`NoRequest \notin [capability : Nat, ...]`, `"pending" \notin Datum`), and:

* `CoreAssumption`: the ids compiled in, and those whose deinit may fail, are below `BackendMax`.
* `GpuAssumption`, `SamplerAssumption`: a request is made of natural numbers, the rates a
  backend offers are positive. Requests need not be valid.
* `SizesAssumption`, `EntryAssumption`, `PrefixAssumption`: the sizes of the machine and of
  the tables are natural numbers, related in no way; the rail SYSTEM is one of the table and
  not its first; the ids that the tables hand out stay below `LastId` (65534, the last of a
  `uint16_t` that is not the invalid id); a directory is finite; of the prefixes in the code's
  table only "sdr" and "sdram" both match one name.
* `EtwAssumption`: finitely many sessions; zone numbers are natural numbers and need not fit;
  the zone map has 1 to 255 places, so that a place is a byte and 255 says that there is none;
  the greatest id is a byte.
* `QListAssumption`: finitely many nodes, `NULL` is none of them; indices are natural numbers.

Each proof is one invariant of named parts, one lemma per operation and one step per action.

**QcperfCore_proofs.** `TypeCorrect` needs nothing else: each thread's control state fits
its call (`Control`), which keeps ids inside the table. Five theorems assume that the
application serialises its calls and does not pass `QC_PERF_BACKEND_MAX` (both are
necessary: `overlap`). None of them is inductive alone. `SafetyInv` adds: the
calls in progress are on different backends (`Serial`); what each control state knows of
the table (`Local`: a thread at `publish` has its pointers set and no flag); and what
each entry of the table says of the calls (`Table`: connected means initialised unless a
call is opening it; disconnected and settled means that it holds nothing or, in a guarded
backend, what its deinit kept). `NoFaultHolds`,
`ConnectedIsUsableHolds` and `NothingLeftBehindHolds` follow at once;
`ConnectReportsStateHolds` and `DeinitReleasesAllHolds` are about the step in which a
call returns, and the latter needs that the loop has passed every id below its counter.
`FaultNeedsOverlapHolds` assumes nothing of the application: until calls have overlapped
or the bad id was read, `SafetyInv` holds all the same (`OverlapInv`), so that serialising
per backend is not only necessary but enough.

**LinuxGpuBackend_proofs.** `GpuTypeOK` is for any application. For one that stops before it
disconnects and not from its callback: `GpuNoFault`, `GpuCollectorOwned`,
`GpuQuietUnlessStarted`, `GpuBufferNeverFull` and the safety part of the refinement,
`GpuRefinesSession`. The invariant adds `SessionInv` (a session is open exactly while there
is a handle or a start is under way, and then the backend is connected, the callback set and
the request valid) and `BufferInv` (a buffer holds at most one set of metrics per sample
counted, and a count that reached the quota has just been sent). The arithmetic of the
buffer rests on `QuotaPositive`: rounding up gives at least one sample per batch for every
accepted pair of rates, also when sampling is slower than streaming.

**SamplersSteps_proofs, Samplers_proofs.** The first module has what the steps of the seven
backends have in common, one lemma per step of `SamplerSession` and one per step of a
backend's thread; the second puts `SamplersInv` together:

* `SharedInv`, for any application: types, `BufferInv` (the samples counted and the responses
  written stay within what was allocated, through every way a thread drops or keeps a batch; in
  linux-cpu because it drops what does not fit),
  `CheckedInv` (what start looked at is still so while the thread can read it) and
  `CallbackInv` (which backends forget a callback, and when). It gives `SamplersTypeOK`,
  `SamplersBufferNeverFull` and `SamplersCallbackIsCurrent`.
* `EagerInv`, for wos-cpu and wos-power under any application, until a disconnect cuts a
  session off: the flag is set exactly while a session is open, one thread is `Owned` by the
  handle or by the call that makes or joins it, and nothing it reads is gone. It gives
  `SamplersEagerFlagIsSafe` and, with what wos-cpu's start and stop do to the library,
  `SamplersTelemetryClosed`.
* `PatientInv`, for all seven and an application that is `Patient` (it stops first, waits for
  its thread and asks for no streaming rate of zero): the same for the five that set the flag
  in the thread, where only the waiting keeps a stop from overtaking its start. It gives
  `SamplersNoFault`, `SamplersQuietUnlessStarted` and the refinement
  `SamplersKeepPromise` (the safety part of `KeepsPromise`).
* `TimelyInv`: how long since the last batch, by the place the thread is at. It gives
  `SamplersTimely` under `Patient`, for any rates.

**ProvidersMemory_proofs, Providers_proofs.** The first module says of each library what its
memory is in each of its states, field by field: exactly what it should own (`OwnedOpen`) or,
for those that leave something behind, which pointers may dangle and which resources may have
been given back wrongly (`Dangling`). The invariant of a library also says what its memory is
once something has gone amiss, which the last answer tells: a failed call of wos-power leaves
tables that only the next call frees, a closed power telemetry has removed a counter that its
query had freed. The second module adds types, sizes (`Sized`) and tables (`ListInv`). From
`ProvidersInv` follow `ProvidersTypeOK`, `ProvidersNothingAmiss` (the exceptions are complete
for machines of any size), `ProvidersSendWhatTheyList` and `ProvidersFileByLongestPrefix`.

**EtwThermal_proofs.** For any sessions, zone numbers and limits, with no rule on the
application: `EtwTypeOK`, `EtwListenerHasTools`, `EtwSessionsRestored`, `EtwTemperaturesOwn`.
`ListenerInv` says where in the connect a listener can be alive, which is where the mutex, the
condition variable and the map exist; `SessionInv` that sessions are only stopped while the
library is in use and that none is forgotten by the three sets together; `SensorInv` that the
map is `Consistent` (an id that has a place is the id at that place, and what is read past the
end says the first place), that the sensor lives only over a copied map with zones, and that
temperatures are stored only between the opening of the sensor and its join, so that the map
they were placed by is still the map.

**QList_proofs.** For any number of threads, nodes and indices, with disciplined callers and
`MutexFits` (a recursive mutex, or any and no `list_insert_data`): all that the runs
check. Three parts:

* `LockInv` says for every control state how often its thread holds the mutex (`Held`): once
  inside a function, twice around the `list_get_node` of an insert in the middle, not at all
  at the second unlock of an insert at an end, which is why that unlock must fail harmlessly.
  `Fitting` ties control state, function and continuation together; `Apart` keeps other calls
  away from a delete, which destroys the mutex. It gives `LockPairedHolds` and
  `MutualExclusion`.
* `ListInv`: there is a sequence of different nodes that the heap links both ways, with the
  head and the tail at its ends (`Linked`). Each operation makes the next sequence from it
  (append, tail, insertion, removal), so that no proof walks the heap; that the walks of
  `WellFormed` and of `list_get_node` follow the sequence is shown by the least place where
  they would not (`NatMin`), because the induction theorems of the library cannot be used. `Spot`
  says of each caller that has given up the lock which place of the sequence the node in its
  hand has, and `Apart` that nobody moves it. It gives `ListIsWellFormed` and
  `NodesInUseAreLive`.
* `ShapeInv`: the calls are updated in place; with the other two it gives `QListTypeOK` and
  `ListIsLinearizable`, the refinement of `SharedList`: the data of the sequence is the
  abstract list, each call takes effect in one of its steps, and every other step stutters.

### Only model-checked

Liveness: `FlagEndsCollector`, `CallsReturn`, and the fairness part of the two `KeepsPromise`
(the theorems have its initial states and its steps). The prover has no rules for fairness and
ENABLED.

## 6. Findings

With a run:

* `disconnect`: `qcperf.h:210` promises that a disconnect stops the active sessions; of the
  eight deinits only that of wos-thermal does (`wos_thermal.c:576`), and that of the GPU
  clears the callback under its thread (`qcom_linux_gpu.c:344`).
* `earlystop`: `dummy.c:357` promises that stop waits for the thread; a stop that runs
  before its thread has set the flag returns at once (`dummy.c:373`, `515`) and leaves the
  thread sampling. Five backends share this; wos-cpu, wos-power and qcom-linux-gpu do not.
* `reopen`: `thermal_common_restart_stopped_sessions` counts an empty list as a failure
  (`thermal_common.cpp:349`), so that after an ordinary disconnect the wos-thermal backend
  remains initialized over a closed library (`wos_thermal.c:585`; `qcperf.c:207` drops the
  failure), and every later connect is refused (`wos_thermal.c:298`) with ALREADY_INITIALIZED,
  whose text advises a `qcperf_deinit` (`qcperf.c:250`), which helps no more.

In the models, as exceptions of a property or as a behaviour that a property allows for:

* `QC_PERF_BACKEND_MAX` passes the range check (`qcperf.c:172`); a reconnect without a
  message callback keeps the old one (`qcperf.c:125`).
* dummy, dsp-npu and wos-power never clear the data callback; the setters of the first two
  then refuse the callback of the next connection. The dummy sleeps for the streaming rate
  (`dummy.c:618`), where its comments say that it samples at the sampling rate and sends at the
  streaming rate (`dummy.c:491-492`, `615`): its batches stay almost empty, and no property
  takes that for intended. Its second capability has the id of
  the first (`dummy.c:157`).
* wos-cpu divides by the rates of a request of zeros (`wos_cpu.c:463`). wos-power leaves
  its rails open when its thread cannot be created, and every later start then fails. It
  keeps its tables after a failed init: the disconnect the core makes is what frees them.
* wos-thermal appends its rates to static lists at every init; what is two rates at first,
  and taken for a range, is later a list. After sixteen initialisations the list of 32 is
  full. A batch in which nothing could be read is sent with zeros, which say metric 0
  (`wos_thermal.c:200`). Two zones that contain one known name can overrun the list.
* linux-cpu counts its cores again in the thread (`qcom_linux_cpu.c:513`) and probes their
  limits again for each sample (`668`): it may send metrics that it did not list, and drop
  others for them when the batch is full; a machine with one core fails to initialise.
* A PDH query that was closed is closed again by a later open that fails (passive cooling,
  ETW cpu, power). After `PdhCloseQuery`, which frees the counters,
  `power_telemetry.c:309-312` removes for each counter of its list the one in the first place;
  `cpu_thermal_etw_library.cpp:494` removes the counter of the total frequency by the address
  of the list that holds it. `power_telemetry.c:271` reads the counter of the rail SYSTEM whatever was
  asked. `passive_cooling_init` and `thermal_sensor_init` close what is open when they
  answer ALREADY_INITIALIZED. The FastRPC driver stays loaded when the DSP cannot be opened.
* `cv_create` on Linux loses what it made when it fails half way (`qcv.c:79`); `wait_for`
  divides its timeout into whole seconds (`qcv.c:132`) and answers a timeout with a failure.
* Zone numbers are cut to 8 bits before they are compared (`thermal_common.cpp:424`), so
  that TZ257 is zone 1. The greatest one, `MAX_THERMAL_ZONE_ID` (100, "Maximum thermal zone ID
  value", `thermal_common.h:62`), passes the check but indexes one past its map, into the zeros
  of the padding: the zone is never filed, and its temperature is stored as the first zone's.
* The half second of `thermal_common.cpp:474` ("Wait for thread to start or throw exception")
  ends early when the wait fails: the trace is then stopped before its thread has started it,
  and the join never ends. The same can happen to the sensor thread when what is opened after
  it fails (`wos_thermal_lib.c:99-103`).
* A notification before the wait is lost, and the zone map is then empty; a spurious wake-up stops a session
  of another program. A session that is stopped but cannot be remembered is never restarted.
  A cleanup that cannot take its lock leaves the user count behind.

Read in passing and not modelled: the states of cooling devices are cut to 8 bits
(`linux_thermal_lib.c:680`, `780`, `788`); the `free_*_info` functions clear the caller's
copy of a pointer only; the "PDH fallback" of `wos_cpu.c:160` calls the NT query again.

## 7. Not modelled

* The DSP query stubs (`qcom-dsp/inc/remote*.h`, the generated marshalling code): declarations
  of an external interface.
* Loggers: formatting and output.
* qtime, qsleep: a clock and a sleep; the slack of the ARM64 clock is in `Elapsed`, a sleep
  adds to `since`.
* `thread_terminate` and thread ids, named and shared mutexes: no modelled code uses them.
* `thermal_sensor_get_info`, zone names as text, `helperQueryWMI` (unused),
  `passive_cooling_is_available` (answers a constant, `64-85`): they change no state.
* Values, names and units of metrics, and the fixed tables that list them.
* krabs, ETW, PDH, FastRPC, sysfs and procfs are modelled by the answers the code handles.

## 8. Plan

1. A composition of the core with a backend of `Samplers`: a session across connect and
   disconnect, in which the rule "stop before disconnect" is the application's alone; then
   `CallbackIsCurrent` for a reconnect, from the theorems of the two.
2. A second user of the ETW library beside wos-thermal (passive cooling, the cpu functions):
   `EtwThermal` has its user count, and the other users' calls are missing.
3. The lemmas on walks through a list of `QList_proofs`, stated for any linked heap.
