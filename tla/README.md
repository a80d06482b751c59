# Power management of the Genocide kernel: a TLA+ development

The repository is the Linux 2.6.32.9 kernel for the Samsung Epic 4G (SPH-D700,
S5PC110), with the Android patches, the vendor's changes and this kernel's own
changes.  Of its 31 000 files this project treats the part that decides, again
and again and with many actors at once, whether the phone sleeps and how fast
it runs: the power management under `Kernel/kernel/power`, the freezer, the device
core and the CPU frequency code of the board; and three Android drivers with a
protocol of their own: binder, ashmem and the logger.  Paths below are relative
to `Kernel/`.

The configuration is `arch/arm/configs/victory_03_defconfig`: one CPU, no
preemption, wake locks, early suspend, both freezers, the *conservative* governor.
This fixes the grain of the steps.  Code that does not sleep runs without other
tasks in between, so a function without a sleeping call is one action, and
a function that sleeps (a mutex, `msleep`, the I2C bus, a callback of a driver) is
split there.  Interrupt handlers and timers may come between any two actions, and
inside an action where the code leaves interrupts on and it matters
(`s5pc11x_target_frq`).  (`CONFIG_PREEMPT_NONE`: a task gives up the CPU only where it
sleeps.)  The Android drivers are modelled without this assumption: their steps
are cut where they release their mutex.

## 1. Inventory

| Component | State | Operations | Talks to |
|---|---|---|---|
| Wake locks, `kernel/power/wakelock.c` | two kinds of active list, the inactive list, flags and expiry of each lock, `expire_timer`, `suspend_work`, `current_event_num` | init, destroy, lock, lock with timeout, unlock, the timer callback, the work | drivers and user space take locks, the work calls `pm_suspend`, the freezer and `power_suspend_late` poll `has_wake_lock` |
| Early suspend, `kernel/power/earlysuspend.c` | handler list, `state` bits, `requested_suspend_state`, two works | register, unregister, `request_suspend_state`, the works | `/sys/power/state` requests, drivers are called back, `main_wake_lock` is taken and released |
| Suspend sequence, `kernel/power/suspend.c` | `pm_mutex`, the services taken down, the clock settings saved around it | `enter_state` and all it calls | called by the suspend work and the APM ioctl, calls the freezer, the device core, the platform, and takes a DVFS lock |
| Freezer, `kernel/freezer.c`, `kernel/power/process.c` and `kernel/cgroup_freezer.c` | `TIF_FREEZE`, `PF_FROZEN`, pending signals, the state of each control group | the walks of suspend, thawing, refrigerator, cgroup writes and reads, attach, fork | every task takes part, user space writes `freezer.state` |
| DVFS locks, `mach-s5pv210/victory/cpu-freq.c`, `kernel/power/main.c` | the tokens, their levels, the limit, the launcher lock and its delayed work | lock, unlock, `set_dvfs_target_level`, `dvfslock_ctrl` | drivers, key interrupts, user space, suspend; the governor obeys the limit |
| CPU frequency, `victory/cpu-freq.c`, `drivers/cpufreq/victory/cpufreq_conservative.c`, `victory/max8998_consumer.c`, `mach-s5pv210/clock.c` | the level index, the previous level, clock, PLL, voltage, the policy, the enabled levels | samples of the governor, limits, target (called by the governor and by suspend), boosts | the locks above, the clock tree and the regulator |
| Device core, `drivers/base/power/main.c` | `dpm_list`, the status and parent of each device, the local list of a walk | register, unregister, move; the prepare, suspend, resume and complete walks | called by the suspend sequence, calls every driver; buses register devices at any time |
| Binder, `drivers/staging/android/binder.c` | transactions, the stack and work list of each thread, the work list of each process, the one-way queue of each node | call, one-way call, reply, free a buffer, read, exit of threads and processes | user processes only |
| Ashmem, `mm/ashmem.c` | the unpinned ranges of each area, the LRU list of ranges and its count | open, set size, map, pin, unpin, shrink, release | user processes; memory reclaim calls the shrinker |
| Logger, `drivers/staging/android/logger.c` | the ring buffer, the write head, the place of each reader | open, read, write, flush, release | user processes only |
| User-space wake locks, APM emulation, low memory killer, RAM console, OneDRAM, port list | | | not modelled: see section 7 |

What is hard about them:

- **Lost wake-ups of the suspend work.**  A phone that misses one chance to queue
  `suspend_work` stays awake until the battery is empty.  Locks expire by a timer
  that is set for one lock only, the last to expire; the timer races unlocks, new
  locks and the suspend work itself.
- **Two works and a user who changes his mind.**  `early_suspend` and `late_resume`
  run on one work queue, `queue_work` ignores a work that is queued already, and
  both look at a state that user space changes while handlers are called.
- **Unwinding.**  Ten services are taken down before the CPU sleeps; every step
  may fail and exactly the steps done must be undone, in the opposite order.
- **Freezing a moving target.**  Tasks sleep, stop, vfork, fork, exit and change
  control group while they are counted, and two freezers use the same flags.
- **Shared indices.**  The level that the clock will be set for is a global that
  locks write while the regulator is awaited, and that interrupts write at any time.
  Suspend changes the clock itself, under another lock than the governor's.
- **Delayed works.**  A release that is still pending belongs to a lock that may be
  gone.
- **One sleep, many reasons against it.**  Wake locks, early suspend and the suspend
  sequence decide together; each looks at the others' state once and goes on.
- **Lists that change under a walk.**  The device core releases its mutex for every
  call of a driver, and devices come, go and move meanwhile.
- **Ends in any order.**  Threads and processes in the middle of nested binder calls
  go away; whoever waits at the other end must hear of it.
- **Rings and ranges.**  Readers of the log are overtaken by writers; ranges of pages
  are split, merged and purged.

`PROJECT.json` lists these hazards at their lines, with the properties that speak
of each.

## 2. Modules

| Module | Models | Composition |
|---|---|---|
| `WakeLock` | wake locks, at the level of sets of locks | abstract specification of `WakeLockList` |
| `WakeLockList` | the linked lists and the loop over them | implements `WakeLock` (`ImplementsWakeLock`) |
| `EarlySuspend` | early suspend | |
| `Suspend` | the suspend sequence with two callers | |
| `Freezer` | both freezers | |
| `DvfsLock` | DVFS locks, the launcher lock, what the governor may do to the index | abstract specification of `CpuFreq` |
| `CpuFreq` | governor, CPU driver and clock | extends `DvfsLock` and implements it (`ImplementsDvfsLock`) |
| `PowerManager` | wake locks, early suspend and the suspend sequence together | extends `WakeLock` and `Suspend`, instantiates `EarlySuspend`, and implements all three (`ImplementsComponents`) |
| `DevicePM` | the device core | |
| `Binder` | binder transactions | |
| `Ashmem` | ashmem and its shrinker | |
| `LogQueue` | what the log promises: a queue that loses its oldest entries | abstract specification of `Logger` |
| `Logger` | the ring buffer | implements `LogQueue` until a write has failed at the wrong moment (`QueueUntilTorn`) |
| `Lists` | removing elements from a list | used by `WakeLockList` and `Ashmem` |
| `ListLemmas` | induction over natural numbers, and what it gives for lists: loops, recursive functions, concatenations, removals, sums | extended by the proofs about lists |
| `XProofs` | theorems about `X`; `CpuFreqProofs` also has those about `DvfsLock`, `PowerManagerProofs` those about `WakeLock` and `Suspend`; `SleepProofs` has those about `Freezer` and `DevicePM`, `AndroidProofs` those about `Logger` and `Ashmem` | extends `X` |
| `MC_X` | the instance of `X` for TLC | extends `X` |

A definition that nothing uses, right before one it resembles, is a mutant: a wrong form of
the code, there to test that a property notices (`PROJECT.json` pairs them).

### WakeLock and WakeLockList

`flags` and `link` are the flag bits of a lock and the list it is on; `left` is
`expires - jiffies`, kept as a signed number that wraps at `LongHalf`, as the
difference of the code does.  `Tick` moves all of them.  The timer has a remaining
time, and may be pending, or running: `expire_wake_locks` waits for the spin lock
while other code may change the lists.  The timer may fire up to `TimerSlack`
ticks late.  `suspend()` is cut at
its calls: the check of `has_wake_lock`, the read of `current_event_num`, the call of
`pm_suspend` (during which locks change freely, and the freezer polls
`has_wake_lock`, which marks and expires locks), the comparison of the event
number.  `event` stands for "`current_event_num` differs from `entry_event_num`".

`WakeLock` says what `has_wake_lock_locked` computes with sets: with an untimed
lock held nothing expires; otherwise the locks whose time is over do, and the answer
is the longest time left.  `WakeLockList` has the list, the insertion at its head
or tail, and the loop with its early return.

### EarlySuspend

`handlers` is the list, in order; `worker` and `pos` say where the one worker
thread is, and which handler it calls next; `asleep` is the set of handlers whose
last call was `suspend`.  `early_suspend_lock` is held during a walk (`LockFree`),
so registering waits, but `request_suspend_state` does not take it.
Registering takes two steps, both under the lock: the handler is put into the list, and
its `suspend` is called if the system is suspended (`registering` is the handler in
between).  `include/linux/earlysuspend.h:31` says that this call "can violate the normal
level order"; the properties therefore except the handler that is being registered, and
nothing else.

### Suspend

Each caller has a `pc`; `owner` holds `pm_mutex`; `down` is the set of services
taken away, from the console to the system devices.  Each step of the sequence
that may fail has its error exit.  User processes (the APM ioctl, and user space
that sets the governor) do not run while the tasks are frozen.  The clock settings
that `enter_state` saves and restores are the last variables.

### Freezer

`place` is what a task does, `frozen`, `freezing` and `sigpending` are the three flags,
`pm` is how far a suspend is.  A walk over the task list is one step (`tasklist_lock`
is held and nothing else runs), and any number of walks are made until one finds
nothing to do, the time is over, or a wake lock is found.  `asked` is a history
variable: the tasks that a control group has asked to freeze and not thawed.

### DvfsLock and CpuFreq

`DvfsLock` has the tokens, the limit, the index as other code may set it,
and the launcher lock with its delayed work.  What the governor does to the index
is left open (`GovernorSamples`).

`CpuFreq` fills it in: a sample that goes up, down or nowhere, the read and the
write of the index in `s5pc11x_target_frq` as two steps (its spin lock does not mask
interrupts), `s5pc110_target` with the order of clock and voltage, and
`s5pc11x_armclk_set_rate`, which reads the index again.  The table of frequencies
and PLL settings is the real one.

Two threads call `s5pc110_target`: the governor's (`gov`, under `timer_mutex`), and the one
in `enter_state` (`susp`, `kernel/power/suspend.c:304`, under the policy's rwsem).  `pc`,
`level` and `target_freq` are those of each thread.  Other tasks run while both are idle,
wait for the rwsem, or wait in `set_voltage`, which is cut at its two writes to the
regulator (`SetArm`, `SetInt`); the key interrupts come at any time.  `apll`, `div` and `volt`
are the levels for which the hardware is set; `step_curr` is what `set_voltage` believes
of the voltage.  At boot the hardware disagrees with `prevIndex`, as in the code.

Two history variables mark what the hardware properties except.  `missed`: a key press
between the choice of a slower level and the setting of the clock makes
`s5pc11x_armclk_set_rate` return without doing anything; `s5pc110_target` does not notice,
lowers the voltage and records the slower level.  `overlapped`: one thread began
a transition while the other one was waiting in `set_voltage`.  From then on the clock may
be too fast for the voltage, or the PLL not what the divider is for (section 3).  The
code has these two windows; the two properties say that there is no other.

### PowerManager

The three components share actions where the code of one calls the other: a request
for `on` takes `main_wake_lock`, the end of `early_suspend` releases it, `sync_system`
holds `sync_wake_lock`; the three works of the work queue exclude each other
(`ThreadIdle`); the suspend work's call of `pm_suspend` is the sequence of `Suspend`; and
the freezer and `power_suspend_late` look for wake locks.  With tasks frozen users
ask for nothing, with interrupts off nothing but the suspend runs.  `fresh` is a
history variable: the locks taken after `power_suspend_late` found none.

### DevicePM

A walk is one step per device up to the call of the driver and one for its return;
in between (`Unlocked`) devices are registered, unregistered and moved.  The model
keeps the driver's side of the contract: `device_pm_add` is used for a child only
while its parent is not asleep or about to be, which the code merely warns of.
`late` is a history variable: a device was registered under one that `dpm_complete`
had already dealt with.

### Binder

All code but the waiting runs under `binder_lock`, so a command is one action and
`binder_thread_read` is cut where it waits: `mode` says for what, `woken` whether it
has been woken and not yet run.  A call is on the stack of its sender (`from_parent`)
and, once read, on that of its handler (`to_parent`).  What the loops over these links go
through is the least set that is closed under them (`Chain`); `binder_send_failed_reply` and
`binder_free_thread` are functions over the whole heap.
Signals and the flush of a closing process may end any wait (`Interrupted`).

### Ashmem

Sizes and places are in pages.  `lost` and `unpinned` are what users know: pages that
were dropped without their having been told, and pages they have unpinned.  `holder`
and `setup` are there because two operations sleep with `ashmem_mutex` held: the set-up of
the backing file, during which `ASHMEM_SET_SIZE` (which takes no mutex) may run, and
allocations, which may call the shrinker.  `failed` are the areas for which
an allocation has failed.  Unpinning "everything onward" at the end of an area makes an
empty range there, which the operations then meet: `ashmem_unpin` has a second look at the
list with the pages it has grown to, and `UnpinCovered` is its early return.

### LogQueue and Logger

The buffer is a ring of cells; an entry has a header cell and up to `MaxPayload` payload
cells, each marked with the length of its entry and its place in it.  A write is
begun (`orig` is read, without the mutex), takes the mutex, moves the readers and
the head out of the way, and copies segment by segment; each segment may fail.
`torn` becomes true when a failed write sets the write head to a value that was stale.

## 3. Runs

Each run is a module and a configuration; `tlc -config X.cfg M`.

| Run | Shows |
|---|---|
| `wakelock` | `TimerCoversTimeouts`, `SuspendNotLost`, `PreventingIsCharged`, and `SuspendRetried` under fairness |
| `wakelock_list` | the lists implement the sets, step by step |
| `early_suspend` | `HandlersFollowState`, `MainReleasedOnlyAsleep`, `LevelOrder`, `RequestNotLost`, and `RequestTakesEffect` under fairness |
| `suspend` | `SleepsOnlyQuiesced`, `NestedUnwinding`, `AllGivenBack`, with any step failing and two callers |
| `power` | `ScreenOffAsleep`, `OnlyFreshLocksAsleep`: the platform sleeps only with the screen off and no lock but those that come too late; and the composition implements its components |
| `devices` | `OrderKept`, `ChildrenAsleep`, `NoneForgotten`, and `EventuallyAwake` under fairness |
| `freezer` | `AllQuiet`, `NobodyForgotten`, `RequestNoticed`, `FrozenGroupsSpared`, and `EventuallyThawed` under fairness |
| `cpufreq` | `LimitCoversLocks`, `LauncherLockTimed`, `VoltageCovers`, `PllMatchesDivider`, and that `CpuFreq` implements `DvfsLock` |
| `binder` | `StacksSound`, `CallersAnswered`, `WakeupsNotLost`, `OneWayInTurn` |
| `ashmem` | `RangesSorted`, `LruExact`, `PurgeIsReported`, `OnlyUnpinnedDropped` |
| `logger` | `QueueUntilTorn`, `SleepersWoken` |
| `logger_torn` | *violated*: a reader stands where no entry begins |

Deadlock is checked, except in `ashmem` and `binder`: a process that waits for its own
mutex, and processes that are all gone, are real ends there.

The type invariants (`WakeLockTypeOK` and so on) are proved (section 6) or, in the
modules without proofs, were checked along while the models were written; they are
not among the properties of the runs.

### Where code and comments disagree

`logger_torn` shows the one disagreement that a run is kept for.
`logger_aio_write` reads `orig = log->w_off` before it has the mutex
(`drivers/staging/android/logger.c:398`) and goes back to it when a segment cannot be
copied; another writer may have finished an entry in between, over which the next
ones are then written.  "The structure is protected by the mutex" (`logger.c:91`);
`logger_read` "Atomically reads exactly one log entry" (`logger.c:207`).

The models contain the following behaviours too; no property is stated of them, or
the property excepts them.

- `kernel/power/suspend.c:332`: `enter_state` restores the user's speed and clears the
  saved settings after it has released `pm_mutex`.  A second caller may own the mutex
  by then and have saved its own, which are lost.  The comment at line 255 wants "the
  only ones trying to enter a sleep state".
- `kernel/power/main.c:165`: writing 0 to `dvfslock_ctrl` leaves the delayed unlock
  pending; `schedule_delayed_work` does nothing for the next lock, which is released
  early, although line 160 announces its time.
- `kernel/power/process.c:100`: a stopped task counts as frozen because `TIF_FREEZE` waits
  for it.  A suspend that gives up clears the flag, in a control group that stays FROZEN;
  `kernel/cgroup_freezer.c:250` says that the transition "ensures that we never exist in
  the FROZEN state while there are unfrozen tasks".
- `kernel/cgroup_freezer.c:259`: `update_freezer_state` makes THAWED out of FREEZING as
  long as nobody has frozen; a write of THAWED then does nothing, and the tasks freeze
  afterwards.  `Documentation/cgroups/freezer-subsystem.txt:93` lists what ends FREEZING,
  and a read is not among it.
- `drivers/cpufreq/victory/cpufreq_conservative.c:505`: a lock lifts the index above the
  maximum of the policy; a step *down* from there applies the minimum only, and the CPU
  runs above `policy->max` (`Documentation/cpu-freq/cpu-drivers.txt:152`).
- `kernel/power/suspend.c:304`: `enter_state` changes the clock while the governor may be in
  `set_voltage`, or the other way round.  The governor goes down to 600 MHz and sleeps;
  suspend lifts the index to 800 MHz and sets the clock; then the voltage of 600 MHz
  arrives.  Or suspend sleeps on its way up, the governor goes to a faster level, and
  suspend then finds another index, leaves the clock alone and sets `prevIndex` to its own
  level: the next transition believes that the PLL is right.  `step_curr` may be
  stale in the same way, and the next call of `set_voltage` do nothing.
  Nothing keeps the two calls of `s5pc110_target` apart.  `VoltageCovers` and
  `PllMatchesDivider` except this (`overlapped`).
- `mach-s5pv210/clock.c:656`: the rate is not set, and success reported, if a boost has
  changed the index meanwhile.  The same two properties except this (`missed`).
- `drivers/base/power/main.c:551`: `dpm_complete` works from the end of the list and
  allows devices to be registered under those it has done with; they come to
  stand before their parents in `dpm_list`, which the comment at line 34 excludes.
  `OrderKept` and `ChildrenAsleep` except this (`late`).
- `mm/ashmem.c:314`: allocations under `ashmem_mutex` may enter the shrinker, which waits
  for that mutex.  The check of `gfp_mask` does not cover it.
- `mm/ashmem.c:467`: `ashmem_pin` ignores that the upper half of a split range could not
  be allocated: its pages are not known to be unpinned any more and, if they were
  purged, nobody will be told.  `PurgeIsReported` excepts this (`failed`).
- `drivers/staging/android/binder.c:1947`: a one-way call that `BC_FREE_BUFFER` has moved to
  the list of a thread is dropped if the thread ends; the node's `has_async_transaction`
  stays set and it never gets another one-way call.  `OneWayInTurn` excepts this
  (`dropped`).
- `drivers/staging/android/logger.c:614`: a log must be "greater than
  LOGGER_ENTRY_MAX_LEN"; `fix_up_readers` needs it twice as large, which the four logs are
  (`LoggerAssumption`).

## 4. Bounds, and why they are enough

- `wakelock`: `main_wake_lock`, `unknown_wakeup`, one suspend lock and one idle lock;
  timeouts -1, 0, 1 and the longest there is.  Together with `unknown_wakeup` this gives
  two timed locks that expire in either order, an untimed one, and a lock of the
  other type that must not matter.  `LongHalf` is 4: remaining times are -4 .. 3, so
  that a lock which stays listed long after its expiry wraps.  `wakelock_list` has
  two suspend locks, interchangeable (symmetry), and a shorter clock.
- `early_suspend`: four handlers, of levels 50, 100, 100 and 150: two that are equal,
  one without `suspend` and one without `resume`.
- `suspend`: the two callers this kernel has, and two speeds, which are enough to
  tell a restored setting from another one.
- `power`: one driver lock besides the three of the system, one handler, and the suspend
  work as the only caller of `pm_suspend`.  A second caller is what `suspend` is for;
  here it would multiply 180 000 states beyond reach.  `Bounded` leaves the governor
  alone, which concerns neither wake locks nor early suspend, and does not follow
  the driver's lock once it has a timeout: `unknown_wakeup` always has one.
- `devices`: four devices in any tree, one of which moves between parents; three is the
  least for a chain, the fourth is registered late or moved next to it.
- `binder`: one client thread, two server threads, two transactions in flight: a call
  and the call back that it causes, or two one-way calls, one waiting.  Two server
  threads are needed for an exclusive wake-up to go to the wrong one.
  `OneConfirmation`: user space reads the confirmation of a transaction before it makes
  the next one, so lists do not grow without bound.
- `ashmem`: an area of three pages, the least in which a range has a hole punched in
  its middle, and one of a single page, so that the LRU list has ranges of two areas; two
  ranges at most.  Allocations fail for one of the two areas only (`OneFails`): what fails
  for one leaves the other alone.
- `logger`: a ring of eight cells and entries of two or three: an entry laps a reader in
  the middle of another one, and wraps, after three writes.  Two writers are needed for
  a stale write head.  `NotTorn` ends behaviours in which the log is torn, of which
  `logger_torn` shows one.
- `freezer`: two user tasks, one kernel thread and one control group besides the root.
  Two tasks are needed for one that holds a walk up while the other one freezes,
  thaws or forks.
- `cpufreq`: the real table of ten levels; one driver, the launcher and suspend, with
  one level each, and one boost, all different; maxima of 1400 and 400 MHz, so that
  locks and boosts lie on both sides of the limit; one
  change of the enabled levels, which leaves a gap in them and disables the slowest
  one.  `Together` ends behaviours once a change of the clock was missed or two
  transitions have overlapped, of which the hardware properties say nothing; what the run
  shows of the locks up to there is proved without that limit.

The theorems of section 6 do not depend on any of these.

## 5. Fairness

- `wakelock`: time passes, a timer that is due runs, and the work queue thread is
  scheduled; `pm_suspend` returns, because something wakes the device.  Nothing is
  assumed of drivers and user space, so `SuspendRetried` speaks only of behaviours in
  which they do not hold the system awake for ever.
- `early_suspend`: the worker thread goes on (weak fairness), and a queued work is
  taken in the end even if the worker is kept busy by the other one (strong
  fairness: the work queue is served in order, which the model does not keep).  A driver
  that registers its handler goes on (weak fairness of `RegisterCalls`), and the worker gets
  `early_suspend_lock` in the end although drivers come and go (strong fairness of the
  checks: waiters of a mutex are served in order).
- `devices`: drivers return (a watchdog, `dpm_drv_timeout`, stops the system if one does
  not), the suspend goes on, and something wakes the device: weak fairness of
  all steps of the suspend together.  Whoever registers and unregisters devices is not
  assumed to stop.
- `freezer`: a walk that found nothing to do is followed by the next stage, freezing
  is given up when its twenty seconds are over, a system that sleeps wakes up, and a
  thawed task leaves the refrigerator.  A task with a freeze request is *not* assumed
  to be well-behaved.
- The other runs check safety only.

## 6. Theorems

All are checked by TLAPS, for every value of the constants that satisfies the named
assumption of the module (`WakeLockAssumption`, `EarlySuspendAssumption`,
`SuspendAssumption`, `DvfsLockAssumption`, `FreezerAssumption`, `PowerAssumption`,
`CpuFreqAssumption`, `LoggerAssumption`, `DeviceAssumption`, `WakeLockListAssumption`,
`AshmemAssumption`, `BinderAssumption`).  The assumptions give the
constants their types, and:  `TimerSlack` is at most 2 ticks and `unknown_wakeup`'s
timeout is positive and fits a long; `InitLimit` is not below `MaxLevel`, as 12 is not
below the last of the ten levels; the launcher asks for no level that
`TokenLevel` would take below 0; the suspend sequence locks one of the levels that a lock
may ask for, with a token of its own; `sync_wake_lock` is a lock of its own and the
suspend work no user process; a log holds two entries of the largest size; there are
finitely many binder threads and transactions.  `CpuFreq` has
the ten levels of the real table, so its theorems are about that table, for any locks,
limits and enabled levels.

| Module | Proved | Inductive invariant |
|---|---|---|
| `PowerManagerProofs` | of `WakeLock`: `WakeLockTypeOK`, `FlagMatchesList`, `TimerCoversTimeouts`, `SuspendNotLost`, `PreventingIsCharged` | `WakeLockInv` |
| | of `Suspend`: `SleepsOnlyQuiesced`, `NestedUnwinding`, `AllGivenBack` | `QuiesceInv` and `ClockInv` |
| | of `PowerManager`: `ImplementsComponents`, `OnlyFreshLocksAsleep`, `ScreenOffAsleep` | `PermanentInv`, `LateInv`, on top of the components' |
| `EarlySuspendProofs` | `EarlySuspendTypeOK`, `HandlersFollowState`, `MainReleasedOnlyAsleep`, `LevelOrder`, `RequestNotLost` | `EarlySuspendInv` |
| `CpuFreqProofs` | of `DvfsLock`: `DvfsLockTypeOK`, `LimitCoversLocks`, `LimitIsNeeded`, `LauncherLockTimed` | `DvfsInv` |
| | of `CpuFreq`: `ImplementsDvfsLock`, `CpuFreqTypeOK`, `VoltageCovers`, `PllMatchesDivider` | `CpuTypeOK`, `ClockInv` |
| `SleepProofs` | of `Freezer`: `FreezerTypeOK`, `AllQuiet`, `NobodyForgotten`, `RequestNoticed`, `FrozenGroupsSpared` | `FInv` |
| | of `DevicePM`: `DeviceTypeOK`, `OrderKept`, `ChildrenAsleep`, `NoneForgotten` | `DeviceInv` |
| `WakeLockListProofs` | `ImplementsWakeLock` | `ListInv` |
| `AndroidProofs` | of `Logger`: `LoggerTypeOK`, `SleepersWoken`, `QueueUntilTorn` | `RingType`, with `SleeperInv` and with `RingInv` |
| | of `Ashmem`: `AshmemTypeOK`, `RangesSorted`, `PurgeIsReported`, `OnlyUnpinnedDropped`, `LruExact` | `AshmemInv` and `LruInv` |
| `BinderProofs` | `BinderTypeOK`, `StacksSound`, `CallersAnswered`, `WakeupsNotLost`, `OneWayInTurn`, and that an error finds room (`ErrorsFindRoom`) | `BinderInv` |

Why the invariants are as they are:

- `WakeLockInv`.  `TimerCoversTimeouts` alone is not inductive: a lock could wrap around
  before the timer runs.  `TimerInv` adds that the timer is never more than the width
  of a long behind a lock, which follows from setting it for the longest time left at
  every change of the list.  `SuspendNotLost` speaks of an idle work; `ArmedInv` extends it to a work that
  is in `pm_suspend` and will find that an event has come, and so will not take
  `unknown_wakeup`, whose expiry would queue the work again.
- `EarlySuspendInv`.  `WalkInv` splits the list at the worker's position into handlers
  called and not yet called; `ListInv`, no duplicates and sorted by level, is what makes
  a registration in the middle keep it.  The handler that is being registered is outside
  both halves until its call has returned.
- `QuiesceInv`.  `DepthInv` says which services are down for each place in the
  sequence, so that each error path can be checked on its own: it leads to the
  place whose depth it has.  `ClockInv` says that a clock setting can be there only while
  somebody is inside `pm_suspend`: whoever leaves clears all of them, also those of
  another caller, which is what makes the second half of `AllGivenBack` true.
- `DvfsInv`.  Unlocking takes the minimum over *all* tokens; that is right only because a
  token that is not held has the slowest level as its value (`FreeInv`).
- `FInv`.  A walk that found nothing to do establishes that everybody is quiet
  (`WalksDone`); this stays so although others run, because nobody who is quiet can
  become anything else but by a thaw, and a child is born only of a task that is not
  quiet.  `MembersAsked` ties what groups say to what their tasks were asked.
- `Composition` and what follows from it.  That each action of `PowerManager` is a step of
  `WakeLock` and of `Suspend`, or leaves it alone, is a matter of expanding it.
  `EarlySuspend` takes the `ACTIVE` bits of `main_wake_lock` and `sync_wake_lock` for its own
  variables, and it needs `PermanentInv` that nothing else changes them: the two never have a
  timeout, so none of the many places that expire locks touches them, and
  `wake_lock_init` does not clear the bit of an active one.  Then the invariants of the
  three components are invariants of the whole, and the two properties need only one
  thing that no component knows: what `power_suspend_late` found stays true up to
  the sleep (`LateInv`).  It does because every lock taken after it is `fresh`, and because
  `main_wake_lock` is taken for a user's request only, and users are frozen by then (that
  `noirq` is down only with the tasks frozen is part of `QuiesceInv`).  With
  `main_wake_lock` released, `MainReleasedOnlyAsleep` says that the screen is off.
- `ClockInv`.  As long as transitions have not overlapped, one thread is the only one that
  can be in a transition (`Only`), and everything else is said of that thread.
  A transition goes up by voltage, clock, `prevIndex` and down by clock,
  voltage, `prevIndex`; `OrderInv` has the order of `level` and `prevIndex` at each of these
  places, and that `step_curr` is the voltage except between its two assignments.
  `prevIndex` need not be what the hardware has: at boot the voltage is one level
  off, and a boost may raise the index during a transition.  `LevelInv` says how
  far they may differ: the divider is never faster than `prevIndex` says, and
  `prevIndex` may be wrong about the PLL only above 800 MHz, where every other
  level makes the driver set it.  All of `LevelInv` is lost once a change of the clock has
  been missed.
- `DeviceInv`.  `StatusInv` lists, for each walk, the states of the devices on `dpm_list` and
  on the local list; this alone gives `NoneForgotten`, also when the order was lost.
  `OrderInv` says that the two lists, one put before the other, are in order: the local list
  first in the prepare and resume walks, last in the suspend and complete walks.  It is kept
  because a device whose driver has been called has its parent (or, in the other
  direction, its children) on the local list, which no registration, removal or move in the
  meantime can change.  `ChildrenAsleep` is its last conjunct and inductive only
  together with the rest.
- `RingType`, `SleeperInv`.  One writer at a time is inside the mutex (`OneWriter`), and
  `w_off` is as far behind the start of its entry as it has copied (`WriterOK`); this holds
  torn or not.  A reader that sleeps has found no entry, or somebody who has changed the
  write head since is about to call `wake_up` (`SleeperInv`).
- `RingInv`.  From `head` and from the place of every reader a path of whole entries leads to
  the end of the log (`Path`, `MarkOK`), and the entry that is being written, at its full
  length, does not reach any of these places (`RoomBehind`).  So whatever a writer does to its
  cells, and whatever a failed one leaves there, is outside every path.  `RoomBehind` comes
  from `fix_up_readers`: a place that `clock_interval` does not report has the room, and
  one that it reports is so far from the end that `get_next_entry`, from entry to entry,
  finds one far enough ahead (`LapFacts`, `NextPath`); the latter needs a log of twice the
  largest entry.  That the log is then read as the sequence of entries on the path, which is
  what the refinement maps to, is an induction backwards from the end (`ReadPath`).  A failed
  write goes back to where its entry started, or the log is torn.
- `ListInv` of `WakeLockList`.  The loop of `has_wake_lock_locked` goes through the list,
  marks and expires locks on its way, and stops at the first lock without timeout.  That it
  does what `WakeLock` says with sets needs the order that `list_add` and `list_add_tail`
  keep up: locks without timeout come first.  So a loop that stops has expired nothing
  yet, and one that does not stop has seen every lock.  What the loop computes is shown
  by induction over the list.
- `AshmemInv`.  The ranges of an area are sorted downwards and do not overlap (`ListsOK`);
  a range may be empty, which is why sorting is by the last page and the order of empty
  ranges is not determined.  They lie within the size that the file of the area was given
  (`WithinFile`), the ranges with pages that are not purged are on the LRU list, each
  once (`LruMatches`), and the pages they cover are those that users have unpinned, the lost
  ones being in purged ranges (`AllRecorded`).  The walk of a pin or an unpin stops at the
  first range below the pages; that it has then seen every range it should
  change follows from the order.  Unpinning looks a second time, with the pages it
  has grown to; what it finds then that it had not touched before lies inside them and is
  empty (`UnpinRangeFacts`), and so is what it takes off before it finds the pages covered
  (`CoveredFacts`).
- `LruInv`.  Empty ranges may exist several times, so `LruExact` counts: every range that is
  not purged is on the LRU list as often as on the list of its area.  `lru_count` is the
  number of pages of the LRU list because the pages of its ranges are disjoint
  sets; the differences that `range_shrink`, `lru_add` and `lru_del` add up are differences of
  the sizes of these sets.
- `BinderInv`.  `StacksSound` says what the pointers look like between two commands; inside
  `binder_deferred_release` they do not, so `Sound` is about any transactions and stacks, with
  the set `W` of those that are queued and the set `D` of those that nobody takes care of any
  more.  Each function of the driver takes a sound heap to a sound one with a smaller `D`, and
  so, by induction, do the loops over a work list and over the threads of a process.  `Sound`
  adds to `StacksSound` how calls hang together: a call was made for one that its sender
  handles (`Linked`), for each at most one was made (`OneChild`), the links lead to no
  circle (`Ranked`, by numbers that grow from a call to those made for it), and a thread that
  waits handles only calls which were made, in the end, for the one it waits for
  (`Backed`).  So when the last call of a chain is ended, the path to the sender that still
  waits leads through calls nobody handles, and this sender has the call at its end on top of its
  stack: the `BUG_ON` of `binder_pop_transaction`.  `CallersAnswered` follows by counting:
  were every call whose failure would be told to a sender handed on, the calls they were
  handed on to would be as many, but the first one is not among them.  `Room` is what makes the
  error path of two errors dead code.  The lists have each transaction once, in
  one list at most and in the right one (`ListsOnce`, `Suited`, `Apart`); `WakeupsNotLost`
  and `OneWayInTurn` are inductive given these.

Recursive functions and loops over lists are reasoned about by induction: `ListLemmas`
derives it, in the form of a least counterexample, from the well-foundedness of the
natural numbers that the library proves.

Only model-checked are the liveness properties `SuspendRetried`, `RequestTakesEffect`,
`EventuallyThawed` and `EventuallyAwake`: fairness is out of the prover's reach.

`FlagMatchesList`, `LimitIsNeeded` and the type invariants are proved, but not among the
properties of a run.

## 7. What is not modelled

- *In the modelled components*: the text and the times of `/proc/wakelocks`; the debug
  output; console switching beyond one step; the memory allocation of a new freezer
  group.  Forking is one step of `Freezer`, although a child joins its parent's group
  before `freezer_fork` looks at it.  `dpm_suspend_start` and the other calls of
  `Suspend` into the device core are single steps that may fail; `DevicePM` has what
  happens inside them.  `suspend_devices_and_enter` drops the error of `suspend_enter`
  (`suspend.c:219`), as the model does; nothing promises otherwise.
- *In CpuFreq*: starting and stopping governors, the sysfs tunables, the table of the
  1.2 GHz variant, `s5pc110_pm_target` (reached only from the userspace governor), the
  transition for audio playback of `earlysuspend.c:151` (`CONFIG_S5P_LPAUDIO` is off), the
  other clocks and the DRAM refresh.  There is a policy since boot, so
  `cpufreq_get_policy` does not fail.  `set_voltage` always succeeds: the code ignores
  its errors.  It writes both voltages, and sleeps, also where two levels have the same;
  undervolting by user space (`exp_UV_mV`) is left out.  The model speaks of levels; the
  divider that the table holds for the
  600 MHz level gives 800 MHz, which is a fact about a constant and no behaviour.
- *In DevicePM*: which callbacks a device has, run-time power management, and
  `device_pm_move_before`, which no caller in the configuration reaches.
- *In Binder*: nodes and references and their counts, the objects inside a transaction,
  death notifications, the thread pool, the buffer allocator, polling, the context
  manager.  Every process has one node, which all others can call.
- *In Ashmem*: names, the protection mask, `ashmem_read`, the query of the pin status.
- *In Logger*: `logger_poll`, the ioctls that only ask, and the line that the vendor
  copies to the kernel log at boot.
- *Other components*: `userwakelock.c` keeps named locks in a tree under one mutex, over
  the interface of `WakeLock`, whose driver locks stand for them; the OneDRAM driver
  talks to firmware that is not in the repository.  The low memory killer is a
  heuristic, the RAM console and timed output are thin drivers, the port list parses
  packets and its feature is configured off, APM emulation appears as a caller of
  `Suspend` only.  The rest is upstream Linux: the models cover a very small share of its
  eleven million lines, and are not meant to cover more.

## 8. Plan

Done, in this order: `WakeLock`, `EarlySuspend`, `Suspend`, `DvfsLock`, `Freezer`,
`CpuFreq`, then `PowerManager`, `DevicePM`, `Logger`, `Ashmem`, `Binder`; then the proofs
about `CpuFreq`, `PowerManager`, `Logger` and `DevicePM`; then those about `WakeLockList`,
`Ashmem` and `Binder`, and that `Logger` implements `LogQueue`.  Next: forking in two steps in
`Freezer`; errors of the regulator in `CpuFreq`; reference counts of binder nodes.
