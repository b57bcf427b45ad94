# ChronoLink OS: a TLA+ model

ChronoLink is an ESP32 wall clock that shows the time and the daily prayer times. Its
firmware is a handful of FreeRTOS services around an event bus, over drivers of its own. This
directory holds a TLA+ model of the parts whose correctness depends on what several tasks,
timers, resets and failing peripherals do to each other, or on arithmetic at its edges, the
TLC runs that check it, and proofs that TLAPS checks. Paths below are relative to
`src/components/` unless they begin with `docs/` or `main/`, which are relative to `src/`.

## 1. Inventory

| Component | State | Operations | What must be right | Modelled |
|---|---|---|---|---|
| Event bus (`event_bus`) | `g_event_queue` (32 events), `s_subs` (8 rules) | publish, subscribe, receive, dispatch | order per publisher, no duplicates, bounded queues, no blocking, one slow subscriber costs nobody else | `EventBus` |
| Core OS (`core_os`) | queues, heartbeat timer, boot flags | init, start, dispatcher, state task, display task | the dispatcher drains the bus; safe mode starts nothing | partly: `EventBus`, `ClockFace` |
| Time service (`svc_time`) | snapshot, two locks, SNTP session, backoff timer and index, link state, hour and date keys | sync, worker, 1 Hz tick, hourly correction, 23:00 sync, setters | a time shown as trusted is right; the flag of the RTC is honest; failed syncs are followed up; LwIP's buffers are left alone | `TimeService` |
| RTC driver (`chronolink_hal`, `hil`) | DS3231M registers | get, set, lost-power flag | set writes, then clears the flag | partly: `TimeService` |
| Prayer service (`svc_prayer_engine_service`) | cache with key, validity, `s_regenerating` | recalculate, regenerate, get times, mailbox of four, 60 s check | the times shown belong to the date and configuration they claim; one regeneration at a time; jamats fit the rules | `PrayerService`, `PrayerDay` |
| Timetable (`svc_timetable`) | year file, today's and tomorrow's entries, source | parse, generate, replace, delete, set date | the file is whole after a reset at any point; the day is right across midnight | `PrayerService`, `PrayerDay` |
| Prayer calculation (`svc_prayer_engine`) | none | pure | the times of a day in their order, at any latitude and season | partly: `SunTimes` |
| Network (`svc_network`) | credentials, state, retry counter, reconnect timer | start, stop, event handlers, access point | it reconnects or offers the access point; events match the link | `NetworkService`, `LinkStatus` |
| Configuration (`svc_config`) | RAM copy, NVS keys | load, get, set, preset | what is acknowledged is loaded; a torn write is old or new | `ConfigStore` |
| Boot manager (`boot_manager`) | NVS boot request, boot stages, OTA state | init, factory reset, mark valid | a request is carried out once; a bad image can roll back | `BootManager` |
| HTTP server (`svc_http`) | one task | configuration, Wi-Fi, OTA, timetable, prayer times | requests meet the services in any state | partly: in the modules of what they change |
| Display manager, UI producer | frame queue (3), last text, first-frame flag, clip | submit, process, poll | what the producer believes is on the panel is there; figures are drawn where the clip lets them | `ClockFace`, `DisplayManager` |
| Display driver (`chronolink_hal`) | window, setup and backlight of the ST7796S | bring-up, fill, pixel, row | a failing transfer spoils at most its own job; a lit panel is ready | partly: `PanelDriver`, `Graphics` |
| Web page, fonts, SDK, other displays, sensors, audio | | | | no, see section 13 |

How they interact. Every service publishes into the bus, from tasks, from event handlers and
from timer callbacks. The dispatcher task copies an event into the mailboxes of its
subscribers: `svc_time` (network connected, disconnected) and the prayer service (time
updated, date changed). Everything else is a direct call: the HTTP task and the UI producer
call getters and setters of the services, the prayer service calls the timetable, the
configuration and the time service. The producer hands frames to the display manager through
a queue of three; a task on the second core draws them. `main/main.c` starts configuration, UI,
time, timetable, prayer service, network and HTTP in that order, after the dispatcher runs
already.

What is hard here:

- the bus gives no atomicity: a publication is up to three queue calls, a registration up to
  four stores, and both race with the dispatcher;
- four tasks can run an NTP sync and a fifth path, the hourly correction, writes the same
  clock without a lock;
- three clocks (RTC, libc, snapshot) are copied into each other by five different steps, any
  of which can fail, with a reset in between;
- retries hang on one-shot timers, and Wi-Fi handlers run when the link may have changed again;
- the prayer cache, the timetable and the regeneration flag are shared by three tasks, mostly
  without a lock;
- flash writes go key by key or file by file, and a reset can fall in between;
- a year file, the engine and three sets of rules all have a say in one published time;
- nothing reads back what is on the panel, and drawing ignores the errors of its transfers.

`PROJECT.json` lists each of these at its line under "hazards", with the property that covers
it or the reason none does.

## 2. Plan

Written so far, in this order:

1. `LossyFanout`, the abstract specification of the bus; `EventBus`; `EventBusProofs` (types, table,
   order of delivery and eviction, completeness, and the refinement of `LossyFanout`).
2. `TimeService`; `TimeServiceProofs` (mutual exclusion, buffers, spacing, types, backoff, follow-up,
   and what may be trusted).
3. `PrayerService`, with the timetable; `PrayerProofs` (types, `s_regenerating`, and the file and the
   cache as long as nothing collides).
4. `NetworkService`; `LinkStatus`, which composes it with the bus of `LossyFanout` and the worker of
   the time service; `NetworkProofs` (all safety of both).
5. `ConfigStore`, and `BootManager`, which extends it to the life of a device; `DeviceProofs` (all
   safety of both).
6. `ClockFace`, the producer and the frame queue; `ClockFaceProofs` (all its safety).
7. `PanelDriver`, `Graphics` over it, and `DisplayManager`, which draws frames with both;
   `DisplayProofs` (the setup of the panel, and that every command draws what it is meant to draw).
8. `SunTimes`, the day's times, and `PrayerDay`, what is published of them; `PrayerDayProofs` (all its
   safety).

To come: the driver of the RTC with its BCD registers; the streaming of the year file through its
fixed buffers.

The modules that carry proofs declare their parameters as CONSTANTS with named assumptions and
use no RECURSIVE operator. There is one run per question, and the smallest instance on which
the interesting case of every hazard occurs.

## 3. The event bus

`EventBus` follows `event_bus/src/event_bus.c` call by call. `queue` is `g_event_queue`, `table`
and `used` are the fields of `s_subs`, `step[p]` says how far publisher `p` is inside
`event_bus_publish()`, `cur` and `pos` are the dispatcher's event and loop index. Publishers are
any tasks or timers; `Rules` are the calls of `event_bus_subscribe()` in the order `app_main`
makes them, while the dispatcher is running.

| Action | Code |
|---|---|
| `PublishSend`, `PublishEvict`, `PublishRetry` | `event_bus_publish()`: first send, eviction, second send |
| `SubscribeSkip`, `SubscribeClaim`, `SubscribeStore` | `event_bus_subscribe()`: already there or full, choice of the slot, one store |
| `DispatchReceive`, `DispatchPass`, `DispatchForward`, `DispatchDone` | `event_dispatch_task()` and one turn of the loop of `event_bus_dispatch()` |
| `MailboxReceive` | a service takes an event from its mailbox |

The stores of a registration may become visible in any order: they are plain stores to an
object another core reads, which C leaves undefined. If `used` and the type are seen before the
queue handle, `xQueueSend()` gets NULL and its assertion resets the chip; `mode` is then
"halted", and the model stops. `mode` also tells the three ways the bus can come up: with its
dispatcher, without one (safe mode, or the task could not be created), and without a queue.
Counters of dropped events only feed log lines and are left out.

`LossyFanout` is what a subscriber may rely on: each accepted event joins the lane of every
mailbox; lanes lose events independently; what is left arrives in order, at most once, and only
if the mailbox asked for its type. `EventBus` implements it with the lane of a mailbox being the
event in dispatch, if that mailbox has no copy yet, followed by the queue.

Properties, all in `EventBus`:

- `InOrderOnce`: a mailbox sees the events of a publisher in order, none twice, in spite of
  eviction, retries and duplicate registrations.
- `EvictsOldestFirst`: no event is evicted while an older one of the same publisher stays.
- `FanoutComplete`: when an event leaves the dispatcher, every rule registered before it was
  received has its copy or a counted miss.
- `FanoutSpec`: the refinement.
- `NobodyWaits`: liveness, with weak fairness of a publisher inside a call and of the
  dispatcher. This is the scheduler's: these tasks are ready, a zero-timeout call never blocks,
  and the dispatcher has a higher priority than the services. No fairness is assumed of
  publishing or of a service reading its mailbox.

`TypeOK` is proved for every instance and is no property of the run.

Bounds: two publishers with two events each, a queue of two, two mailboxes of one, two slots and
four rules. The queue overflows with both publishers in the middle of a call, the mailbox
overflows, the table fills, one rule is a duplicate. Both publishers are needed for every race
on the queue; a third only repeats what the second does, since a publisher sees nothing of the
others but the queue.
Deadlock checking is off in this run: publishing is bounded (`MaxPublish`), so the model ends.

## 4. The time service

`TimeService` is `svc_time/src/svc_time.c` with the four tasks that may sync: the worker, the
esp_timer task, the 23:00 task and a caller of the public API. One action stands for the code
between two points where another task may come in: a lock, an I2C transfer, an SNTP call, an
access to the libc clock.

| Actions | Code |
|---|---|
| `SyncRequest` | `run_ntp_sync()`, with `s_sync_lock` for 100 ms |
| `SyncBegin`, `SyncCollect`, `SyncStart`, `SyncStartFails` | `do_ntp_sync()` up to `esp_netif_sntp_start()` |
| `SyncAnswered`, `SyncTimedOut` | `esp_netif_sntp_sync_wait()` |
| `SyncStamp` | `time(NULL)` |
| `SyncWrite`, `SyncClear`, `SyncStore` | the section under `s_state_lock`: RTC, its flag, snapshot |
| `SyncDone` | `cancel_backoff()` and the release of the lock |
| `ArmStart`, `ArmBump` | `arm_backoff()`, whose index other tasks may reset in between |
| `TimerFires`, `ManualSync` | `backoff_timer_cb()`, `svc_time_sync_ntp_once()` |
| `WorkerEvent`, `WorkerCancel`, `WorkerStop` | the worker's mailbox, `cancel_backoff()` without the sync lock |
| `TickSnapshot`, `TickPeriodic`, `HourlyRead`, `HourlyCheck`, `HourlySet`, `TickDaily` | the 1 Hz tick |
| `SntpAnswer`, `LinkEvent`, `NetworkUp`, `SetServer`, `TimePasses`, `Reset` | the environment |

A clock's reading is abstracted to its relation to real time: "true" (within a second), "off" or
"unset" (counting from power-up). `Faults` says what may go wrong in an instance: no RTC, failing
reads, failing writes, a state lock that cannot be had within its second (five I2C operations
under it can take longer), and resets. The flag of the RTC is set when its battery is lost.

Three histories support the properties. `owed`: a sync that must be retried has failed and none
has succeeded since. `fails`: failures since the last success. `tainted`: one of the two known
exceptions has happened, an hourly correction over an NTP answer or an RTC that can be read but
not written. The second lets the next tick overwrite the NTP time with the old RTC time; a
comment at `svc_time.c:523` hopes otherwise.

Properties:

- `ShownIsTrue`: a snapshot that is valid and not marked untrusted shows the right time, unless
  tainted. `FlagIsHonest`: the same for the RTC and its oscillator-stop flag, across resets.
- `BuffersQuiet`: `s_lwip_servers` is rewritten only while no SNTP session exists, whoever syncs
  and however the last session ended.
- `SyncsSpaced`: within the freshness window no task gets past the test, whichever order the
  requests take.
- `BackoffRestarts`: the delay in force is at most the step that the number of failures since
  the last success allows, though `s_backoff_idx` is written without a lock.
- `RetryPending`: a failed sync is followed up: the timer is armed or a task is on its way.
- `WorkerReturns`: under `FairSpec` the worker always comes back to its mailbox, though no server
  may ever answer. `FairSpec` says that tasks get to run and that an armed timer goes off (weak
  fairness), and that a task gets past `SyncRequest` however often the lock changes hands (strong
  fairness: `xSemaphoreTake()` gives up after 100 ms, and retries are minutes apart).
- `FailureMadeGood`: a failed sync is made good in the end, if `ServersAnswer`: of endlessly many
  attempts not all fail. That is an assumption of the property, not of the specification; the
  code can do nothing about servers that never answer.

`TypeOK`, with the bound of `s_backoff_idx`, the index into `k_backoff_ms`, is proved for every
instance and is no property of a run.

Bounds. `time_clocks`: worker and daily task, one backoff step, every fault, resets. The daily
task gives a second sync beside the worker's; the timer adds no other way to touch the clocks.
`time_retry`: worker, timer and manual caller with two backoff steps, so that the index is
raised, reset and at its end; no daily task, because with it `RetryPending` fails (section 12).
`time_live`: worker and timer. The mailbox holds one event: more would only queue link events,
which come in any order anyhow. `Steps` is 4 in the code; the code treats the steps between the
first and the last alike. Deadlock is checked in all of these runs.

Left out: the date-change event, which only wakes the prayer service earlier, and the zone, which
nothing sets; the telemetry in NVS,
the getters, which copy state under the lock, `svc_time_start()` failing half-way, and an
unusable epoch after a success (`svc_time.c:509`), which an answer from SNTP excludes.

## 5. The prayer service and the timetable: who writes what, when

`PrayerService` is one recalculation, `svc_prayer_engine_service_recalculate()`, and all that runs
it or changes what it reads: the service's own task, the HTTP task, which is `app_main` at boot,
and the regeneration tasks. `pc[t]` and `job[t]` say where a thread is and what it holds. `file` and
`tmp` are the two files on flash, `tt` the statics of `svc_timetable.c`, `cache` the cache with its
key. A time of prayer is abstracted to its origin, the day and the configuration it was computed
for; a year file to its header and the days it has an entry for. That is what the properties tell
apart.

| Actions | Code |
|---|---|
| `RecalcRead`, `RecalcTest`, `RecalcClaim`, `RecalcSpawn`, `RecalcSpawnFails`, `RecalcStore` | the recalculation: configuration and date; whether the file must be written again; `s_regenerating`; the task; the merge and the cache |
| `ParseHeader`, `ParseStarves`, `ParseDays` | `parse_file()`, for a new date or a reload; without memory for the file or a part of it |
| `GenerateOpen`, `GenerateFails`, `WriteFile`, `Rename`, `RemoveOld`, `RenameAgain` | `svc_timetable_generate_full_year()`; the first and the fourth also the upload |
| `HttpConfig`, `HttpRegenerate`, `HttpDelete`, `HttpUpload`, `HttpUploadAborts` | the handlers of `svc_http.c` |
| `TaskWake` | a turn of `prayer_task()` |
| `TimeUpdate`, `Midnight`, `MinutePasses`, `Reset` | the environment |

Two facts of the platform matter. `rename()` on FATFS refuses a destination that exists, so the
removal in `svc_timetable_generate_full_year()` is its normal way, and an upload over an existing
file is always refused. And the block `calculation` is compared as text, see `NeedsRegen`; `Exact`
is the set of configurations whose two texts agree.

`Faults` are a task that cannot be created, operations on the flash that fail, a setter that
fails, and resets, at any time and as many as there may be. Two more go unnoticed by the code. A
full flash ("full") takes only a part of a file: of a regeneration only the first write is checked
(`svc_timetable.c:570`), not those of the days nor the flush (`svc_timetable.c:609-618`), and of
an upload none (`svc_http.c:760-764`), so that what was taken, `Cut`, is put in place of the good
file. It may lack days, or end in its header, or be empty. And `parse_file()` may get no memory
("heap") for the 128 KB of a file (`svc_timetable.c:116`): a reload then finds no file. `starved`
is a history of that. Of the mosque's file the jamat of a day is used if the day is in
it and the jamat does not lie before the adhan; `Refused` says for which days and configurations
it does.

None of the threads takes a lock for the files or the statics. `Collision` says when two get into
each other's way, or the date or the configuration changes under a running thread. What the code
promises of files and times it can keep only without that: of two writers of `.tmp` one may rename
what the other writes, and a configuration that changes while the year file is written reaches the
file with the next recalculation only. `Orderly` leaves collisions out of a run, an action
constraint, and every request, fault and reset in.

Properties:

- `QuietIsRight` (where `Orderly`): when nothing runs and the cache has today's key, its times come
  from the mosque's file if that has the day and its jamat is not before the adhan, else from the
  configuration in force; and a file of the firmware, whole or cut, is of this year and this
  configuration. After a failed step it is owed from the next recalculation on, and after
  `parse_file()` has lacked memory not before the next reset.
- `NoTornFile` (where `Orderly`): a reset leaves no file in place whose writer had not come to its
  end. It says nothing of a file that the flash did not take all of: the code does not notice
  those.
- `UserFileKept` (where `Orderly`): only the web client removes or replaces the file a mosque has
  uploaded, unless `parse_file()` has lacked memory. With that it is not so, see section 12.
- `FlagBacked`: `s_regenerating` never stays set without a task that will clear it.
- `KeyCatchesUp` (`FairSpec`): once the date stands still and the time is trusted, the cache becomes
  and stays that day's, though events are lost, a wake-up at 00:00 defers, and recalculations begun
  earlier may store an older day. Fairness: threads run, the mailbox of the task is read or its 60 s
  pass, and minutes pass. No fairness is assumed of any event or request.

Bounds. `prayer_orderly`: two configurations, one of them exact; three days, of which the last is
in another year and has another offset; a file of the mosque's for the second day of a year only,
whose jamat the second configuration refuses. The constraint `Fed` ends a behaviour where
`parse_file()` lacks memory: that state is checked, but what follows is not, since the properties
promise nothing there but `NoTornFile`, which has nothing to do with the statics. Without
collisions one regeneration task is all there can be. `prayer_live`: two days of one offset, one
configuration, a recalculation by `app_main` at boot beside the task's own, no requests, and two
regeneration tasks, the second of which exists only because the flag is not locked. Deadlock
checking is off, since the date has a bound.

Left out here: the entry of tomorrow, days the engine cannot compute, and the arithmetic, which
section 6 is about, and the cache's lock timing out.

## 6. The prayer service and the timetable: what is published

`SunTimes` is `svc_prayer_engine_calculate()` from the trigonometry on. A sun is a record of the
seconds at which the sun of a place stands at an angle, or `None` where it never does; `Twilight`,
`IslamicMidnight` and `Calculate` are the high-latitude rules, the bounds of the Moonsighting
Committee, the Islamic midnight and the wrapping at 24 hours, `HoursToSec` the rounding up to a
minute, `DaysSinceSolstice` and `SeasonAdjust` the calendar behind them.

`PrayerDay` follows the times through `svc_timetable.c` and the prayer service, for a day and the
next. The two compute jamats with code of their own: `BuildDayEntry` and `Published` are the two,
over a common `ComputeJamat`, which the sources have twice. `Recalculate` is a recalculation,
`Regenerate` the task that writes a new year, `HttpRegenerate`, `HttpDelete` and `HttpUpload` the
requests, `Midnight` the new day. Here each of them is one step; how they interleave is section 5.

- `TypeOK`: whatever the anchors, offsets and roundings, a published time is between midnight and
  `Latest`, and in whole minutes unless an uploaded file says otherwise, which nothing forbids it.
- `InOrder`: whatever the method, rule, latitude and season, and whatever the file, the prayers and
  sunset come in their order on days whose Fajr and sunset are on their own civil date. So do sunrise
  and midnight, unless the file is the mosque's or of another year: those two are taken from it
  unchecked (`svc_prayer_engine_service.c:424-428`).
- `TableAgrees`: with a file of the firmware for this year nothing is published that differs from
  what is published without a file.
- `TomorrowKept`: what was announced as tomorrow's jamats is what tomorrow publishes, over a change
  of season, UTC offset or month, and over a regeneration in between.
- `NotBeforeAdhan`: no jamat after an adhan is published before it, whatever an uploaded file says. An
  offset of less than half the rounding may be rounded away: then by half the rounding at most.
- `LastYearNeverServes` does not hold, see section 12.

Bounds. Sixteen days of seven cities between Sydney and Tromso, in seven methods, each with the
real sun of the place and one for the next day that rises and sets 20 s earlier or later: the end
of a year, of February in a leap year, of a season, a change of the clock, the solstice, the polar
night. `CivilDay` leaves out of `InOrder` the days whose Fajr or sunset falls on another date,
where hours wrap at midnight, and `Apart` those with events less than a minute from each other,
which is less than what is published. Two configurations, the UK preset and one at every limit;
three uploads that differ from a generated file in every field, by more or less than the tripwire
allows and in odd seconds: one with a sunrise after noon and a midnight before dusk, one that
lacks half of the days; all five rules. The engine's results for the three dates are a variable,
`engine`, fixed at the start, only so that TLC computes them once.

## 7. The Wi-Fi service and the link

`NetworkService` is `svc_network/src/svc_network.c`: `app_main` in `svc_network_start()`, the
event loop with its handlers, and the esp_timer task. The driver posts events and goes on, so a
handler may find the link elsewhere than its event says. `Faults` are calls that fail and, as
"late_ip", an address the driver reports of a link it has lost already. Two histories: `broken` is
set by the failed calls that nothing follows up, and by nothing else; `late` while such a late
address is the last thing the driver has said of the link.

| Actions | Code |
|---|---|
| `StartWithoutCredentials`, `StartFails`, `StartStation`, `StartReturns` | `svc_network_start()` |
| `StaStart`, `StaDisconnected`, `GotIp` | `wifi_event_handler()`, `ip_event_handler()` |
| `TimerExpires`, `ReconnectTimerCb` | the timer leaves its list, and `reconnect_timer_cb()` |
| `Associate`, `LoseLink`, `GetIp`, `LoseLinkBeforeIp` | the driver |

`LinkStatus` adds the bus, as `LossyFanout` allows it, and the mailbox of `svc_time`, whose worker
keeps a copy of the link, `s_network_connected`, made of the events that reach it.

- `NeverStranded`: there is always a link, an access point, an attempt, a timer or an event that will
  bring one about, unless `broken` or `late`. The late address is an exception because it must be: the
  handler sets `s_connected` without a look at the link and stops the timer that the loss had
  started (`svc_network.c:267-286`), and nothing tries again.
- `LinkIsTrue`: `s_connected` is what was published, and once the loop has caught up it is what the
  driver says, or set by a late address.
- `TimeKnowsLink`: so is the copy of the time service, unless an event was lost. After a late address
  it believes in a link that is gone.
- `GetsSomewhere`: a station with credentials is connected, waits for an address, or gives up for
  the access point. Fairness: the tasks run, the timer goes off, and an attempt to connect ends one
  way or another (the driver's own timeouts). No fairness is assumed of an address being handed out.

Bounds: three attempts as in the code and the code's backoff in seconds, 1 to 30; three
addresses, so that a link comes back after it was lost and the counters have been reset, and a late
address may come before, between and after; nine events, one more than the service ever publishes
under these bounds. Deadlock checking is off: `MaxUps` ends
the model.

## 8. The persistent state: configuration, boot and firmware

`ConfigStore` is `svc_config.c` with the credentials of `svc_network.c`. A setter takes its lock,
changes RAM (`Begin`), writes and commits one key after the other (`WriteKey`), and returns
(`Return`). `Load` is what the next boot makes of the keys, with the migration of the one offset of
older firmware. One prayer stands for five, and `method` for the settings with one key and one
field. `BootManager` extends it: the bootloader, the stages of `boot_manager_init()` and `app_main()`,
each of which may fail, and the handlers for reboot, factory reset and upload. A reset may come at
any step, and takes with it whatever is in RAM.

- `AckedSurvives`: what a setter acknowledged is what the next boot loads, whatever other setters,
  failures and resets come later. `Return` promises all that a setter was given when it returns
  `ESP_OK`, and the property has two exceptions, each a history: `swallowed`, keys whose write
  `apply_preset()` failed and acknowledged (`svc_config.c:835-862`), and `erased`, what was
  acknowledged before `init_nvs()` found no free pages and erased the partition
  (`boot_manager.c:151-176`).
- `TornIsOldOrNew`: a reset inside a setter leaves each setting old or new. Two exceptions are part
  of the property: the summer offset that was never stored, and half a location.
- `FallbackExists`: otadata always selects a verified image, and one of the slots holds a confirmed
  one, if only one that a boot confirmed although `core_os` had failed in it.
- `RevertsUnproven`: an image that went down before its tasks ran is not started again. The exception
  is in `unstarted`: `core_os_init()` and `core_os_start()` return nothing, so when a queue, timer or
  task cannot be made `boot_manager_init()` marks the image all the same (`boot_manager.c:326-365`).
- `RequestHonoured`: an acknowledged factory reset has erased the settings by the time the device
  serves again, unless the power failed right after the request was read, before the erasure: the
  flag is cleared first, on purpose (`boot_manager.c:97-99`). A boot that cannot open or read the
  namespace takes it for no request and serves (`boot_manager.c:87-97`); then the flag is still
  there, and the next boot that can read it carries it out.
- `ComesToRest`: every boot ends, and so does every upload, unless the client shuts the connection in
  the middle. Fairness: the boot goes on, and a client sends, fails or closes.
- `TypeOK`: RAM and NVS stay within the ranges, although numbers are cast before they are checked.

Bounds: values 0 to 2 for a setter and 0 to 3 for the type, so that a cast wraps both into and out of
the range; two calls of a setter or uploads, one failing operation, one reset besides the
requested ones. Two calls are needed for what one leaves behind and the next meets; the reset or
the fault falls between any two steps of either. Deadlock checking is off, as the bounds end the
model.

## 9. The clock face

`ClockFace` is `ui_producer.c` with the frame queue and `core1_task`. The producer draws a frame
when the text it wants differs from the one it believes to be on the panel, and never looks. Ink
is a rectangle with the text it belongs to, cut to the panel: a text is placed by an estimate of
its width, but the glyphs of the built-in font are as wide as they are high, so every face is cut
at the right edge, and one of six letters or more at the left as well. A text hides what lies
wholly under it, and nothing is erased but by a clear. `Executed` is what a whole frame leaves,
command by command: a command's ink stays if no later one hides it.

- `BelievedIsComing`: what the producer believes is on the panel or is the newest frame in the queue.
- `OneFaceSeen`: while a face is shown, what of its text falls on the panel has no banner over it, its
  own banner is there, and of all that was drawn before it no more is left than a third of a text's
  height and half a glyph at its side. The exception is the banner of an earlier face, which stays
  below the text, also when the time has come to be trusted (section 12).
- `PanelCatchesUp` (`FairSpec`): once the services' answers stop changing they are drawn, and stay.
  Fairness: the producer polls, and the second core draws.

Bounds: the panel and the queue of the code; two minutes pass, and with the splash, the marks and
the banner more faces follow than the queue holds; one change of the regeneration mark; the queue
or the second core missing. Deadlock checking is off: the world stops changing.

## 10. The panel

`PanelDriver` is `HAL_Init()` up to the setup of the ST7796S, and the operations of the driver as
jobs: an address window, and the pixels of each transfer. Any transfer may fail, and may have
reached the controller when it does. `Graphics` is `hal_gfx.c`: which jobs each primitive makes, with
clipping, the row buffer and 16-bit coordinates. `DisplayManager` executes frames with them, under
the clip that all frames share.

- `FiguresExact`, `BlitExact`: under a plain clip, what is drawn is what the definition of the
  figure says, written without the loops of the code, cut by the clip of its own frame and the
  panel. A failing transfer costs at most the pixels of its own job and puts none elsewhere. A
  line stays beside the ideal one, without gaps; a disc holds what is well inside its circle and
  nothing outside.
- `LitIsReady`: once the driver has the backlight, a lit panel is awake, has its orientation and
  pixel format, and is on, whatever failed and whatever a warm restart left in the controller.

`Legal` is what `hal_gfx.c` is made for, and `ArgsOK` assumes it of the commands: no coordinate of a
figure, its far edges included, and no term of a loop leaves `int16_t`, whose last value is
`Int16Max`. The producer draws within 320 by 480, far inside that. Beyond it the code wraps around:
`x + w - 1` of a box that ends behind 32767 is negative, and from a radius of 8189 on d of the
midpoint rule may no longer fit. `Int16` models the wrapping where the code converts; the terms of
the loops are not wrapped, since `Legal` keeps them in range.

Of a clip `ArgsOK` assumes no more than that its numbers are `int16_t`; `SetClip` clamps its size
as the code does. What is drawn under it depends on where it begins. The properties speak of
`Plain` clips, those that begin on the panel, right of it or below, with far edges in range. Under
a clip that begins left of the panel or above it, a rectangle, a line or a row of a blit that
begins with the clip has a negative corner, which is cast to `uint16_t` (`hal_gfx.c:138`, `:148`,
`:157`, `:389`), and the driver, instead of cutting it, draws nothing of it. No code sets such a
clip; the run has one, and `Framed`, the invariant of the proofs, holds under it.

Bounds: a panel of 5 by 4, coordinates of seven bits, a row buffer of two and chunks of three
pixels, so that every figure has chunks and rows of several transfers and a rest; some 4,400
commands inside, across and beyond every edge, negative sizes included; radii up to 6; four clips,
one of them of a negative size and one that begins left of the panel and above it; one fault.
Frames end with their first drawing, since only the clip links one command to the next.

## 11. What is proved

Every theorem holds for every value of the constants that satisfies the assumptions of its
module. `EventBus` assumes `ConstantsOK` and `NoneIsNoEvent`: capacities are natural numbers, the
queue has room for one event, rules name existing mailboxes and types, and `None` is none of
them. `TimeService` assumes `ConstantsOK`: the worker is among the tasks, the mailbox length is a
natural number, there is a backoff step. `PrayerService` assumes `ConstantsOK`, which among other
things keeps the regeneration tasks apart from the other two threads, and `NoneIsNothing`: `None` is
no day, configuration, file, origin or request. The assumptions of the other modules stand with
their components below.

Event bus, in `EventBusProofs`:

- `TypeCorrect`: `TypeOK` is inductive as it stands; its three parts follow
  the three groups of variables, and each action leaves two of them alone.
- `TableCorrect`, `DeliveryInOrder`, `EvictionInOrder`, from one inductive
  invariant, `OrderInv`. `InOrderOnce` speaks only of the copies in a mailbox; a copy is made of
  the event in dispatch, which came from the queue, so `Line` orders all three places per
  publisher. What joins the queue is the event a publisher holds, so `FreshInv` says that it is
  younger than everything on its way. That a mailbox gets no second copy of the event in dispatch
  needs `OncePerScan`, that the copy it has came from a slot already passed, and `TableInv`, that
  no two slots serve one rule, whatever order the stores of a registration become visible in.
- `FanoutIsComplete`, from `ScanInv`: a slot that was complete when the event was taken stays as it
  is, and each such slot the dispatcher has passed has had its copy or its miss.
- `BusIsLossyFanout`: `EventBus` implements `LossyFanout`. The step by which an event joins the queue
  is `Accept`, an eviction or the end of a dispatch is `Lose`, a copy is `Deliver`; taking an event
  from the queue changes no lane, because no mailbox has it yet (`Line`). `RuleInv` adds that
  each complete slot holds a rule.

Time service, in `TimeServiceProofs`:

- `BuffersLeftAlone`, `SyncsAreSpaced`, from `SyncInv`: the task that holds
  `s_sync_lock` is exactly the one inside `run_ntp_sync()`. Only it starts and stops the SNTP
  session and makes the last sync fresh.
- `TypeCorrect`: `TypeOK` is not inductive, since a sync copies `time()` into
  the RTC, and `time()` may count from power-up. `Usable` adds that it is read only after an
  answer and is a time from then on.
- `DelaysRestart`: the index is at most one step ahead of the failures, and not
  ahead in the middle of `arm_backoff()`, which is what makes the unlocked reset harmless.
- `FailuresFollowedUp`, under `NoneLost`: no daily sync and no late state lock.
  `OwedInv` excludes the silent returns while a failure is owed, and says that only a task on its
  way to an attempt can have stopped a timer between its start and the release of the lock. The
  first assumption is needed, see section 12, and so is the second: a sync that cannot get the
  state lock to collect the servers returns without arming.
- `TrustedTimeIsRight`, `FlagTellsTheTruth`, from `HonestInv`: `Chain` follows
  the time from the answer over libc clock, epoch and RTC to the snapshot, and `Sources` says that
  what a tick copies into a trusted snapshot is right. No fault is excluded.

Prayer service:

- `FlagNeverStuck` (`PrayerProofs`): `FlagBacked` is inductive once it is known where the threads are.
  A thread about to create a task backs the flag until the task exists or the flag is cleared.
- `PrayerTypeCorrect`: `TypeOK` is not inductive, since what a step takes from a local variable
  depends on where the thread is; `Fits` says what each place needs.
- `FileIsNotTorn`, `CacheIsRight`, `MosqueFileIsKept`, for `OrderlySpec`: the steps that collide with
  nothing, which are those of the run `prayer_orderly`. The collisions cannot be left in, section 5
  says what they do. All three come from `OrderlyInv`. Nothing colliding means at most one thread
  that reads and one that writes the timetable (`OneReader`, `OneWriter`), and `Roles` says which
  thread does what. A writer has in `.tmp` what it means to put in place, torn only while it writes
  (`Drafts`); what it ends with may be cut by the flash, and then is still a file of its year and
  configuration, a mosque's, or nothing readable. The statics follow the file, but between its removal
  and the parse, and unless `parse_file()` has lacked memory (`Synced`). A
  regeneration task works with the file it wrote (`OwnFile`), so that its own test, under a flag that
  is still set, would have found nothing to do anyway. No firmware regeneration that was not asked
  for starts while the file is the mosque's (`NotUsers`). `Storing` and `Settled` then follow the
  right times into the cache: every regeneration under way ends in a recalculation or a failure.

Network service (`NetworkProofs`; `NetworkService` assumes `ConstantsOK`: at least one retry, a
backoff from a positive minimum to no less a maximum):

- `StageInv`: once `svc_network_start()` has been entered, and as long as no call failed that the
  code does not follow up, the station is in one of six stages: starting, waiting for the timer,
  trying or up, down with the news still queued, an access point, or stranded by a late address.
  Each stage fixes the statics, the timer, the driver and the losses in the queue together, which
  no single property does, and each handler moves from one to another. Addresses may be queued in
  most of them; `LastEvent` says that the last event the handlers will hear, or have heard, is how
  the link is or a late address. The stages are what is inductive.
- `StationNeverStranded` is immediate from the stages, the last of which is the exception of the
  property. `LinkStateIsTrue` adds `ToldInv`: the last word on the bus about the link is
  `s_connected`.
- `TimeServiceKnowsLink`, for the composition `LinkSpec`: unless a link event was lost, its newest
  one is on its way, in the mailbox, or heard and believed (`HearInv`). `LinkSpec` implements the
  `Spec` of the network service, so the stages hold there as well.

Persistent state (`DeviceProofs`). `ConfigConstants` says that a setter takes at least the values 0
and 1 and that its type holds more than it takes; `BootConstants` that there are two slots. The calls,
uploads, failures and resets are as many as one likes.

- `ConfigInv`, for the configuration: a key is `Bound` when it is promised and neither swallowed
  nor erased. What is bound is in NVS (`Kept`), both coordinates of a place are there as soon as
  one is bound (`PlaceWhole`), and a call under way promises nothing yet of its own keys and has
  written those it did not miss (`UnderWay`). `Return` promises the others as well, and has to put
  them down as swallowed. `AcceptedWellFormed` goes through the setters once: what passes their
  checks is in range, whatever was cast, and every field that is set is written, by some key.
- `AcknowledgedIsLoaded` follows, since `Load` takes a value in range as it is, but for half a place,
  which `PlaceWhole` excludes, and the legacy offset, which the property leaves out.
- `TornWriteIsOldOrNew`, from `TornInv`: there is a store that loaded as `before` says, and each
  key is as in that store or as the call sets it. A setting takes one key, except for a place and
  the winter offset, whose two keys are always set together (`Mirrors`).
- `NeverBricked` and `UnprovenIsReverted`, from `ImageInv`: the slot that runs is the selected one
  except after an upload has selected the other; while an upload is on, the running image is
  confirmed, which `esp_ota_begin()` sees to, and the other slot was never started (`Booted`);
  what boots without having got its tasks started is pending or was marked without them, and what
  went down so is, unless it was marked, neither confirmed nor fresh (`OnTrial`).
- `FactoryResetIsDone`, from `Owing`: a reset that is owed is in its flag, or in the step that erases;
  one that could not be read is in its flag.

Published times (`PrayerDayProofs`). `PlacesOK` says that a place's date is a date and that its
suns are `SunOK`: Fajr is before sunrise, and Maghrib and Isha follow sunset by no more than half
a day, give or take an hour. That is what astronomy gives wherever the sun crosses the horizon,
but for the last two degrees around the poles; where it does not, nothing is assumed. `ConfigsOK`
has the limits of the setters of `svc_config.c`. Of an upload it is assumed only that it differs
from a generated file by numbers of seconds, in any field, and may lack any field or day.

- The invariant, `IInv`, has four parts. `Settled`: what is fixed at the start, and that the
  engine's results are those of `Engine`. `FileInv`: the year file is for the year of one of the
  two days, its entries are in bounds, and if the firmware wrote it they agree with the engine and
  the rules in everything (`Agrees`). `CacheInv`: what is in the cache is of a day there was, and
  which parts of it are the engine's and the rules', as far as no file of the mosque's or of
  another year had a part in it. `ToldInv`: so is what was foretold. None of the properties is
  inductive without the file's part: a recalculation publishes what it finds there.
- `TimesAreBounded`: `EngineTimes` bounds the engine, through the high-latitude rules, the bounds
  of the Moonsighting Committee and the wrapping; `ComputedFacts` the rules, `EntryOK` the file.
- `PublishedInOrder`, from `EngineOrder`. It rests on `TwilightBounds`, that whatever rule replaces
  Fajr and Isha leaves them on their side of the night, and on `MinutesInOrder`, that rounding up to
  a minute keeps in order what is a minute apart. The seasonal adjustment is bounded on each of its
  pieces (`InterpolatedBetween`, `SolsticeDays`, `SlopeBounds`).
- `FirmwareFileAgrees`: `BuiltFacts` sets the two codings of the jamats side by side, and a file that
  agrees publishes what no file would (`PlainPublished`).
- `ForetoldIsKept` and `NeverBeforeTheAdhan` follow from `CacheInv` and `ToldInv`.

Clock face (`ClockFaceProofs`). `FaceConstantsOK` says that there are a panel and a queue, and
`FaceFits` that the longest face begins within half a glyph of the left edge, the banner below the
text, and the splash lies where a text will, which TLC finds so for the panel of 320 by 480.

- `BeliefIsTrue`, from `BeliefInv`: nothing is believed before the splash is out of the producer's
  hands, and the key is set only with a frame that was accepted, which is then the newest. Drawing
  takes the oldest: the newest stays, or is what was drawn.
- `OneFaceIsSeen`, from `ReadInv`: every frame on its way is one of those the producer builds
  (`FaceTypes`), and the panel has the text, and the banner, of the last one drawn. What else may
  be on it is what those frames draw (`AllInk`). The page of the access point is not hidden by a
  text, but no face comes after it (`SetupLast`); the splash is (`TextHidesSplash`), and of any
  two texts each leaves no more than a rim of the other (`TextHidesText`). A banner lies below
  them all (`BannerBelow`).

Panel (`DisplayProofs`).

- `LitPanelIsReady`, from `SetUp`: the backlight is off while the panel is set up, and of the steps
  taken each that `LitIsReady` needs was obeyed. `BringUpIs` says which steps those are, by their
  number, and `StepsAre` which action takes which.

What is drawn (`DisplayProofs`). `PanelOK` says that there are a panel and a chunk, `GraphicsOK`
that the panel lies within `int16_t` and the row buffer has room, and `ArgsOK` is that of section
10. Panel, buffers, clips, plain or not, commands, the number of faults and the window left in the
controller are any that satisfy them.

- `BlitsAreExact` and `FiguresAreExact`, from one invariant, `Framed`: the clip is the one this
  frame has asked for, clamped, and what was drawn and lost is what the driver left of the jobs of
  the command executed, all of them or with one cut off (`Left`). Neither property is inductive
  without it, since they say nothing of the jobs. The invariant is short; the work is in the two
  facts about its data below. The first holds under any clip, the second under plain ones
  (`PlainClip`).
- What jobs leave. `StreamedIn` and `SentData` are about one job: the controller fills its window row
  by row, and completely when all chunks arrive. `ShownJobs` plays a drawing: it writes nothing
  outside the windows of its jobs, whatever window was left before, and all of each job that is not
  the one cut off. `Outcomes` combines that with `Left`.
- What jobs a primitive makes. `Draws(jobs, c, ps)` says that jobs cover exactly the pixels `ps`
  within the clip and the panel, and drawings in any order draw their union (`DrawsSet`,
  `DrawsFamily`, `DrawsList`). `FillCovers`, `RectCovers`, `LineCovers`, `FillCircleCovers`,
  `DrawCircleCovers` and `RoundDrawn` say which pixels; `BlitCovers` and `ScaledCovers` also what
  is sent for each, through the pieces of the row buffer (`Chunked`, `RowCovers`).
- Lines. `Along` is the invariant of Bresenham's loop along its longer side: the error term is
  determined by the two coordinates and stays between 0 and the span, so that every round takes a step
  on the longer side and the pixel lies beside the ideal line (`AlongStep`, `AlongEnd`). `ShallowLine`
  and `SteepLine` apply it on either side of the diagonal, `DiagonalClose` on it.
- Circles. `OnArc` ties d of the midpoint rule to the pixel, `Inside` and `Outside` keep the pixel
  within one of the circle (`ArcStep`), and so every octant is an arc that falls by at most one in
  each round (`ArcOf`, `ArcSlopes`). A disc is then the same wedge on all four sides (`DiscIs`),
  which `DiscIsRound` bounds, and the curve of the unfilled circle is the rim of that wedge
  (`WedgeEdge`, `RimOfDisc`). A rounded box is a disc pulled apart at its centre (`RoundIsBulge`),
  and `RimOfBulge` says the same of its rim, for corners of any radius up to half a side.
- The loops are recursive functions. No prover here takes an induction theorem whose parameter is
  an operator, so `Induction` is proved for sets of numbers, from the finiteness of `0 .. n` (one
  less would map the numbers left out of the set to each other, one to one but not onto), and
  `Recursion` gives a recursive function its values. Everything about loops of any length rests on
  these two.

Model-checked only. Liveness (`NobodyWaits`, `WorkerReturns`, `FailureMadeGood`, `KeyCatchesUp`,
`GetsSomewhere`, `ComesToRest`, `PanelCatchesUp`) is out of this prover's reach. Every other
property of a passing run is a theorem.

## 12. Runs and findings

| Run | Module, configuration | Result |
|---|---|---|
| `eventbus` | `MCEventBus`, `EventBus.cfg` | passes, 658,841 states |
| `time_clocks` | `TimeService`, `TimeClocks.cfg` | passes, 1,039,938 states |
| `time_retry` | `TimeService`, `TimeRetry.cfg` | passes, 1,451,349 states |
| `time_live` | `TimeService`, `TimeLive.cfg` | passes, 79,533 states |
| `prayer_orderly` | `MCPrayerService`, `PrayerOrderly.cfg` | passes, 1,894,918 states |
| `prayer_live` | `MCPrayerService`, `PrayerLive.cfg` | passes, 529,332 states |
| `network_link` | `LinkStatus`, `NetworkLink.cfg` | passes, 375,279 states |
| `device_store` | `BootManager`, `DeviceStore.cfg` | passes, 978,613 states |
| `screen` | `ClockFace`, `Screen.cfg` | passes, 21,682 states |
| `drawing` | `MCDisplayManager`, `Drawing.cfg` | passes, 88,676 states |
| `prayer_day` | `MCPrayerDay`, `PrayerDay.cfg` | passes, 8,188 states |
| `prayer_new_year` | `MCPrayerDay`, `PrayerNewYear.cfg` | `LastYearNeverServes` is violated |

The finding. `svc_timetable.c:390-392` says that last year's file must never serve this year's dates.
The first recalculation after midnight on 31 December finds that the file is of the old year, starts
the task that writes a new one, and goes on with the old file's entry for 1 January
(`svc_prayer_engine_service.c:354`). The tripwire compares only the adhans with the engine's, so for
the time it takes to write the file, sunrise, midnight and the jamats are last year's.

Where code and text disagree beyond that, found while modelling and visible in the actions named:

- Event bus. `event_bus.c:44-46` promises "on full, evict oldest and retry once". When the queue has
  been emptied between the failed send and the eviction there is nothing to evict, the code does not
  retry, and the event is dropped with room in the queue (`PublishEvict`).
- Time service. `docs/Architecture.md:122` says that a failed sync is retried by the backoff
  timer. If the timer goes off while the 23:00 task holds the lock, the one-shot timer is spent;
  when the daily sync then fails as well, it arms nothing (`SyncDone`, `ArmStart`).
  `svc_time.c:525-526` says that the oscillator-stop flag is cleared only once a trustworthy time
  has arrived; the hourly correction takes no lock and can set the libc clock back to the RTC
  between the answer and the sync's `time()` (`HourlySet`), which is the history `tainted`.
  `svc_time_is_trustworthy()` is documented not to block and takes a lock for up to a second.
- Timetable. `docs/prayer-times-model.md:291-293` lists when the year file is written again. The
  last case, another calculation block, is decided by comparing the text of `serialize_calc()`,
  18.000, with what cJSON prints of the parsed block, 18. With the default custom angles they
  never agree, so every recalculation writes the whole file again (`NeedsRegen`, `Exact`).
  `docs/STATUS.md:70` calls the write atomic, "`.tmp` + rename", but no write after the first is
  checked, so that on a full flash a cut file replaces a good one (`WriteFile`, `Cut`).
  `docs/prayer-times-model.md:294` says that the files of the mosque are never written again; when
  a reload gets no memory for the file, it counts as missing, and the next recalculation writes a
  firmware file over it (`ParseStarves`). A file that cannot be parsed is, against `:291`, never
  written again (`NeedsRegen`: it has no source).
- Prayer times. An uploaded file whose adhan is up to a minute off makes the next day's announced
  jamat differ from the published one (`docs/prayer-times-model.md:325-327`; `TomorrowKept`
  excludes uploaded files). Sunrise, midnight and the other times beside the adhans have no
  tripwire: an uploaded sunrise after noon is published (`svc_prayer_engine_service.c:424-436`;
  `InOrder` excludes it). A rounding can put a jamat before its adhan by up to half its step when
  the offset is smaller (`NotBeforeAdhan`), and nothing rounds the seconds of an uploaded file
  (`TypeOK`).
- Network. An address that is reported after the link was lost leaves `s_connected` true and stops
  the reconnect timer, so that the station stays offline without another attempt and the time
  service believes in the link (`LoseLinkBeforeIp`, `GotIp`); the properties have it as their
  exception. A start that fails half-way offers no access point (`StartFails`). The ceiling of the
  backoff is never reached with three attempts. `svc_network.h` says that missing credentials
  publish `EVENT_NETWORK_ERROR`, which they do not; `docs/Architecture.md:165` speaks of infinite
  retry.
- Configuration. The winter offset of a device whose summer offset was never stored becomes its
  summer offset at the next boot (`svc_config.c:311-313` against `:489`). A torn write can make
  the two season dates coincide, which `svc_config.h:203` excludes. A preset returns `ESP_OK`
  though its writes failed, "non-fatal" (`svc_config.c:835-862`), and the next boot loads the old
  settings.
- Boot. A factory reset only mounts a healthy `/storage`, though `boot_manager.c:113-120` and
  `docs/STATUS.md:410` say that it is reformatted (`WipeStorage`). On the first boot of a new
  image it restarts before the image is marked, which rolls the image back. A new image in which
  `core_os` fails to make its queue or tasks is marked valid all the same, and is then started for
  ever (`CoreStart`). A request that cannot be read is put off to the next boot (`ReadRequest`).
  An upload whose connection is shut keeps the only HTTP task in its loop (`svc_http.c:480`,
  `:753`).
- Clock face. The red banner stays on the panel when the time has come to be trusted, since
  nothing clears it, though `docs/Architecture.md:140-142` says that later frames need no erase
  and `:190` that the display switches to the clock. `ui_producer.c:190` says "based on its actual
  width": the width is an estimate of two thirds of a glyph's, so that a face is cut at both
  edges; "12:34PM" begins at x = -36. `first_frame` is cleared before the frame is accepted.
- Panel. Under a clip that begins left of the panel or above it figures vanish instead of being
  cut (section 10). `pdl_board_config_pins()` lights the backlight before the panel is set up. If
  I2C, SPI or the display's mutex then fails, `app_main()` loops with a lit, unconfigured panel;
  `LitIsReady` begins where the driver takes the pin.

For every property of a passing run a module also defines a mutant of one definition, a change a
programmer might make, under which TLC finds the property violated. They are the operators
introduced as mutants in the comments, and are used in no specification.

To repeat a run: `tlc -config EventBus.cfg MCEventBus.tla`; to check the proofs: `tlapm` on each
of `EventBusProofs.tla`, `TimeServiceProofs.tla`, `PrayerProofs.tla`, `NetworkProofs.tla`,
`DeviceProofs.tla`, `ClockFaceProofs.tla`, `PrayerDayProofs.tla` and `DisplayProofs.tla`.

## 13. Not modelled

- The trigonometry of `PrayerTimes.cpp`: real numbers. Its results are data of the runs.
- The page of the web server, and the handlers that only read: they change nothing. The parsing and
  formatting of JSON is left out where no property is about it.
- The scrolling of the panel: `HAL_Display_SetScrollStart(0)`, sent with every frame
  (`display_manager.c:266`), sets what the panel has since its reset, and no code sends another
  start or a scroll area. The other display backends, of which the build has none; the reading of
  sensors, which nothing asks for, and the playing of sound, which only the audio test does; the
  bytes on I2C and SPI; the BCD registers of the RTC.
- The hardware interface layer, which only renames the functions of the drivers; glyph tables and
  their lookup, of which only the extent of a text matters here; the driver SDK (one pointer), the
  remote bridge (a stub) and the audio test.
- The state manager: its dispatch only logs and its publisher has no caller. `svc_network_stop()`
  has no caller either.
- The earlier sources under `src/src` and `deprecated`, which are not built.
