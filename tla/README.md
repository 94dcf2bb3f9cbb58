# A TLA+ model of the Nest thermostat's kernel

The repository is the Linux of the Nest thermostat: the vendored kernel 2.6.37 for OMAP3 under
`src/linux`, the drivers and board files Nest wrote or changed in it, three kernel configurations
(`diamond`, `j49`, `gtvhacker`), a root file system with start-up scripts, and the build files. This
project models the code that is Nest's own. The vendored kernel appears only where that code depends
on it: work queues, the driver core, the backlight core, and the order of a system suspend.

All the configurations select a uniprocessor, preemptible kernel (`CONFIG_PREEMPT`,
`CONFIG_BROKEN_ON_SMP`). An interrupt, a timer, a work item and a task may therefore interleave at
every access to a device or to shared data, which is the grain of the actions below, but never
execute at once.

## 1. Inventory

| Component | State | Operations | What is hard | What makes it correct |
|---|---|---|---|---|
| Ring, second generation: `adbs-a330.c` | motion registers of the chip, two sums, two positions, mode, direction | interrupt, delayed work, 60 Hz timer, two attributes, probe, remove | edge-triggered line with a drain loop; three contexts hand motion on; sixteen steps of probe and eleven labels | motion is counted once and reported; every failure releases what was acquired |
| Ring, first generation: `rotary_encoder_lite.c` | flip-flop, two `uint8_t` positions | interrupt, 60 Hz timer, probe, remove | wrap of bytes, a flip-flop only the handler clears | the same |
| Proximity and light: `si1143.c` | chip registers, `update_lock`, work item | eight attributes, interrupt, work item, suspend, probe, remove | read-modify-write by several tasks; status read and written back; edges | armed thresholds stay armed, no harmful gain, interrupts get cleared |
| Backlight LM3530: `lm3530_bl.c` | chip registers, `enable`, platform data | update, three ramp attributes, suspend, resume, shutdown, probe, remove | registers lost with the enable line; stores without a lock; transfers that fail half-way | what is shown is what was asked for |
| PWM: `plat-omap/pwm.c` | list of PWMs, use count, timer and its clocks | request, free, config, enable, disable, probe, remove | clocks left running keep the system awake; arithmetic near the counter's overflow | clocks off asleep; the output toggles |
| Beeper: `pwm-beeper.c` | period | tone, suspend, resume, probe, remove | tones before the end of probe, suspends that abort | the tone asked for last sounds |
| Backlight PWM: `pwm_bl.c` | `enabled` | update, suspend, resume, probe, remove | the flag across suspend; values of the command line | the brightness asked for shows |
| Deferred probing: `drivers/base/dd.c`, `bus.c`, `core.c` | pending and active list, work item, each device's lock and binding | registration, bind, unbind, trigger, retry, deletion of a device | five kinds of threads; tests made before a lock is taken | no device is forgotten, half bound, or bound after its deletion |
| Board file: `board-diamond.c`, `board-diamond-nlmodel.c` | identifier and revision word of the boot loader, model, its data | parse, fall back, guess, backplate, display | strings and bytes given by a boot loader; three sources of one decision | the model chosen is the one the comment of `diamond_init` promises |
| Glue: `board-diamond-backplate.c`, `-battery.c`, `-zigbee.c`, `-gpio.c` | lines, the flag `probed` | probe, remove, reset, disconnect | failures half-way | every failure releases what was acquired |
| Panels: `panel-tianma-*.c`, `panel-samsung-*.c`, `panel-renesas-*.c` | `enabled`, `suspended`, use of regulator and output | enable, disable, suspend, resume, probe, remove | no lock over methods that sleep; two pairs of methods with a flag each; retries | regulator, output and controller are on exactly while the display is ACTIVE |
| Display subsystem: `dss/display.c`, `dpi.c`, `rfbi.c`, `omapfb-main.c`, `omapfb-ioctl.c` | display state, `activate_after_resume`, frame transfer | sysfs, blank, update, boot, system suspend and resume | four callers of which two take no lock | the state before a system suspend comes back |
| Dynamic USB gadget: `dynamic.c`, with `composite.c`, `f_acm.c`, `f_mass_storage.c` | registered and bound functions, enabled flags, device descriptor, interface table | register, bind, enable and disable through sysfs, force an enumeration | a live gadget is changed while a host enumerates it; no lock between writers | the host has the descriptors of the functions that are enabled |
| Services: `rootfs/.../init.d`, `monit.d` | running services | start, stop | in programs that are not in the repository | not modelled |
| Build: `Makefile`, `config-check.sh` | none | choice of a configuration | none | not modelled |

How they interact: the driver core binds every driver, and its deferred probing decides when the
LM3530, which waits for the `omapfb` driver (`lm3530_bl.c:460`), is tried again. Beeper and backlight
share the OMAP PWM. The board file decides which panel there is; the frame buffer, sysfs and system
suspend call the panel's driver through the display subsystem. The backlight core calls both backlights, on behalf of sysfs and of the
framebuffer. The PM core suspends and resumes all of them once tasks are frozen. Each driver's
interrupt hands over to a work item, and both rings' positions are read by a timer.

The hazards, each with its line and the properties that would catch it, are listed under `hazards`
in `PROJECT.json`.

## 2. Modules

| Module | Models | Used by |
|---|---|---|
| `MotionDelivery` | what a ring promises: move, collect, report, lose, select | refined by `AdbsA330` |
| `AdbsA330` | the motion path of `adbs-a330.c` | `MCAdbsA330`, `AdbsA330Proofs` |
| `RotaryEncoderLite` | the motion path of `rotary_encoder_lite.c` | itself with a cfg, `DriverProofs` |
| `DriverLifecycle` | probe, cleanup ladder, remove, callbacks and work, for any driver, and the rule its tables follow | `NestDrivers`, `DriverProofs` |
| `NestDrivers` | the step tables of twelve drivers, and how each deviates | itself with a cfg |
| `OmapPwm` | the PWM as functions of a record | `PwmClients` |
| `PwmClients` | beeper, backlight and system suspend over `OmapPwm` | `MCPwmClients`, `PwmClientsProofs` |
| `Lm3530` | the LM3530 in manual mode | `MCLm3530`, `Lm3530Proofs` |
| `Si1143` | attributes, interrupt and suspend of the Si1143 | `MCSi1143`, `Si1143Proofs` |
| `DeferredProbe` | deferred probing, bind, unbind and deletion | `MCDeferredProbe`, `DeferredProbeProofs` |
| `DssDevice` | a display and its callers: sysfs, frame buffer, boot, system suspend | `PanelDrivers` |
| `PanelDrivers` | the methods of the three panels, over `DssDevice` | itself with two cfgs, `PanelDriversProofs` |
| `DiamondInit` | the parser of model numbers and `diamond_init` | `MCDiamondInit`, `DiamondProofs` |
| `DynamicGadget` | the USB gadget, its writers and a host | `MCDynamicGadget`, `DiamondProofs` |

### AdbsA330

Reading DELTA_X or DELTA_Y takes the motion out of the chip, and the chip holds its line low while
it has any. `Move` is the ring (external); it adds to the registers between any two transfers.
`adbs_a330_irq` takes a latched edge and queues the work; `WorkStart`, `ReadDeltaX`, `ReadDeltaY`
and `Accumulate` are the work item, one action per transfer, `ReadFails` its error returns;
`adbs_a330_timer` reports. `probe` requests the interrupt: from there on edges count.

`missed` records how motion can escape the drain loop: the line was low before the interrupt was
requested (`unarmed`), a round looked empty because the ring moved between its two reads (`masked`),
or a read failed (`fault`). `StrandedOnlyWhenMissed` says that there is no fourth way and
`StrandedStays`, which is proved, that such motion is not recovered.

### RotaryEncoderLite

`Click` sets the flip-flop and the level of phase B (external). `rotary_encoder_lite_irq` counts and
clears, `encoder_timer` reports the difference of the two bytes as an `int8_t`. `request_irq` and
`StartTimer` are the end of probe, which clears the positions after the interrupt was requested:
`discarded` counts what that loses. `burst` records that a period had more clicks than an `int8_t`
holds; `DeliveredModulo`, which is proved, holds even then.

### DriverLifecycle and NestDrivers

A driver is three sequences: the steps of probe, each with what it takes, its conditions and the
label its failure jumps to; the releases of the cleanup ladder; the releases of remove. The generic
module executes them while registered callbacks may run at any point. `NestDrivers` gives the
sequences of the drivers in the order of their code: the two rings, the Si1143, the LM3530, the three
panels within `dss_driver_probe` and `dss_driver_remove`, the SPI drivers of two of them, and the glue
for backplate, battery and ZigBee. A release is *checked* where the code tests a pointer or a flag
first. Requesting a second interrupt handler or a second GPIO fails, so what is left behind decides
whether a device can be bound again. The driver is chosen in `LifecycleInit`.

`Discipline` is the rule behind the ladders, stated of a table without executing it. `MustHold` and
`MayHold` are the least and the most that a probe can hold before a step; from each step that can fail,
its error branch and the ladder from its label on must release the most, must find what they release
unchecked in the least, and must take nothing away from a callback that is still registered; remove must
do the same after the last step; and a step may register a callback only when what it uses is surely
there. `Disciplined` says so of the driver that is loaded.

Nearly every driver deviates from the rules somewhere. `NestKnown` writes down in which ways, so that
the run shows that there is no other: it fails as soon as a table deviates further, whichever step of
probe fails. What it lists:

| Driver | Left behind | Callbacks | Releases |
|---|---|---|---|
| `adbs_a330` | the enabled supply (`remove` puts the regulator without disabling it, against `regulator/core.c:1235`), wakeup of the interrupt after remove, wakeup of the device after a failed probe | the delayed work is never cancelled | none |
| `rotary_encoder_lite` | line b or the clear line after a late failure, the clear line after remove | none | none |
| `si1143` | interrupt and GPIO, after a late failure and after remove | the interrupt precedes the initialisation of the work it queues, and outlives the data | none |
| `lm3530` | the registered backlight after a late failure; data and enable line after remove | the backlight left behind uses freed data | remove takes the backlight device for its data: `platform_set_drvdata` and `i2c_set_clientdata` share a field |
| `tianma`, `samsung`, `renesas` | `renesas`: the regulator, after a failed probe | the attributes of the display come before its driver and its reset line, and go after them | `samsung`: probe falls through to the label that frees the reset line, and remove frees it again |
| `tianma_spi`, `samsung_spi` | `tianma_spi`: the panel's driver, when the attributes fail | none | a driver that could not be registered is unregistered |
| `backplate` | the flag `probed` | the reset at halt uses a line that remove has freed | none |
| `battery` | none | the line goes before the flag that guards it | none |
| `zigbee` | the interrupt line, after remove | none | an absent power line, when the interrupt line fails |

### OmapPwm and PwmClients

A PWM is a record of its list entry and its timer: `use_count`, whether the clocks run, whether the
timer is started, its load and match values. Requesting a timer leaves its clocks on
(`omap_dm_timer_request_specific`), which is why the beeper disables the PWM at the end of probe.
The board's wiring is a constant, with one PWM per client or one for both. `halted` marks the two
places after which nothing can be said: a failed assertion, and memory that was freed while a client
holds it (`omap_pwm_remove` with a PWM in use, a failing board hook of the beeper).

`LitAfterStartup` is the comment of `pwm_backlight_update_status` that asks for the start-up of the LED
driver, with its one exception: `pwm_backlight_suspend` leaves `enabled` set, so that a backlight that
slept lit is lit again without it (`sleptLit`).

`simple_strtol` reads any `int` after `brightness=`, also one below zero, and `pwm_bl.c:56` multiplies it
with the unsigned period: the model keeps the widths (`Unsigned`, `Signed`). A brightness above the maximum
or below zero therefore either fails the `BUG_ON` of `pwm_backlight_update_status`, or wraps to a pulse
that passes it. `BugOnlyFromCommandLine` says that the `BUG_ON` is reached from the probe only and by such
a brightness only, `BacklightShows` that a brightness in range toggles the output.

The system is running, freezing, asleep or waking. Devices are suspended one by one while freezing,
and the transition may abort at any point, as `suspend_devices_and_enter` allows.

### Lm3530

The chip forgets its registers while the enable line is low. `lm3530_update_status` is one action
because the backlight core holds `ops_lock` or `update_lock` around it; its transfers may fail at any
register. The three ramp attributes take no lock and are three actions each: remember, read, write.
`faulted` and `overlapped` record the two events after which settings and chip may differ.

### Si1143

An attribute is a sequence of transfers under `update_lock`, given by `Transfers`; `Call` takes the
lock and `Transfer` does one transfer. The work item reads the interrupt status and writes it back,
without the lock. The registers that share bits are sets: interrupt enable and interrupt mode. The
chip holds its line while the status is not zero and the driver sees edges only.

### DeferredProbe

Threads are tasks that register a driver, write to `bind` and `unbind` or delete a device, and the
work item. Each is at a program counter within `really_probe`, `driver_bound`, `device_del` and their
callers and holds the lock of its device. One device has one driver. The lists are sets, as a retry
takes the devices in an order no property depends on. A device is bound in three places, `dev->driver`,
the link in sysfs and the driver's list, which are three variables because the code sets and clears
them apart. The four windows of the code are histories: `raced`, a trigger between the test in a probe
and the addition to the pending list; `orphaned`, a retry between `driver_attach` and `klist_add_tail`
in `bus_add_driver`; `rebound`, a device that got a driver before a bind or a retry had its lock, which
neither looks for again; `snatched`, a probe between the release of the driver in `device_del` and
`kobject_del`. The properties say that each is the only way for its kind of damage.

### DssDevice and PanelDrivers

`DssDevice` has the display (its state and `activate_after_resume`), the resources a panel uses, and
the callers: `DisplayEnabledStore` (no lock), `OmapfbBlank` (the frame buffer's lock, held across the
method), `UpdateWindow`, `OmapfbProbe` at boot, `DssSuspendDevice` and `DssResumeDevice` with tasks
frozen. A caller enters a method and goes on in `Returned`. `PanelDrivers` cuts the methods of each
driver where they sleep. `vcc` counts the uses of the regulator, `link` those of the DPI output or, for
the RFBI, its FRAMEDONE handler; `over` remembers a release of what was not held. The regulator core
refuses one and disabling the DPI output twice leaves it disabled, but the clocks of a frame are counted
down all the same (`dss/core.c:316`, where line 324 only warns), so that `frame.clk` can fall below zero.
`Fault` is a failing regulator, output or controller, which
every method handles in its own way. `frame` is the chain of transfers that draws the Renesas panel:
each is started by the end of the one before (`FrameDone`). That driver reports the automatic update
mode and the others none, so that `omapfb_blank` draws nothing after an unblank.

`astray` records what leaves the bookkeeping wrong: a failed operation, an overlap of two callers, a
disable of a display that is blanked, an enable through sysfs (which starts no frame), an update while
a frame is under way (which starts a second chain). Every property names the ones it excludes;
`DarkAsleep` and `ComesBack` hold in spite of most.

### DiamondInit

An identifier is a sequence of characters, where a family name counts as one. `NlmodelParse` follows
the code through `strrchr` and `simple_strtoul`. A number passes through three widths: `simple_strtoull`
adds up its digits in an `unsigned long long` (`Strtoull`), `simple_strtoul` returns an `unsigned long` of
it (`Strtoul`), and `nlmodel_parse` stores an `int` (`AsInt`). `LongSize` is the number of values of the
last two, 2^32 in the code. `Readings` is the grammar the parser is compared with, stated without it and
with numbers of any size; `InInts` is what ints hold of a reading. `Identify`, `Fallback` and `Guess` are the three parts of `diamond_init`, in which the
first model that has data wins; `BackplateInit` and `DisplayInit` are what `diamond_model_init` derives
from the outcome.

### DynamicGadget

`Initcalls` are one task: the probe of the gadget, the registration of the functions, and their
binding once all are there, which may happen before or after the controller is started. `Write` is a
write to an `enable` attribute, cut where another writer or the host can see a difference: flag, class,
ids, disconnection, connection. The host is external: it resets, reads the device descriptor and the
configuration, and configures, each at any time. `interface` is the table requests are dispatched by: the
code stores a pointer to the function there, and the number in the function (`ctrl_id`, `data_id`,
`interface_number`), which the model keeps together as a pair of the function and the place of that
interface in it. `usb_interface_id` fills the table until `MAX_CONFIG_INTERFACES`; a function that gets
too few ids fails to bind and leaves the ids it got (`AllIds`). `host.map` is what the host was told.
`composite_setup` is the dispatch of a class request: the function that holds the number is asked first
(`Answers`), and if it refuses, `dynamic_setup_config` asks all of them in turn. `set_alt` is the dispatch
of SET_INTERFACE, which has no such fallback. `early` marks an enumeration that began before the functions were
bound, `overlapped` two writers at once; `oops` is an access to descriptors that are not there or to a
function that was freed.

## 3. Runs

Passing runs, with the number of distinct states:

| Run | States | Bounds and why they suffice |
|---|---|---|
| `ring` | 445,677 | 3 movements, among them the extremes of a signed byte, 1 failed read, 1 attribute write: two movements around one round plus one afterwards reach every kind of stranding |
| `rotary` | 307,979 | 131 clicks, enough for a burst beyond `int8_t` in one period and a byte position below zero; the direction changes within the first two clicks only, one click before the timer runs, one overrun |
| `drivers` | 3,717 | three bindings: a failed one, a removed one, and one after both; `Disciplined` is a statement about the tables and needs no bound |
| `pwm_clients` | 7,778 | a second of 12 time units, ten bits for counter, int and unsigned, tones of which one is beyond the resolution, two wirings, a command line with a brightness in range, two out of range that fail the `BUG_ON` (4, -2) and two that wrap past it (9, -6); unbounded suspends |
| `lm3530` | 708,472 | two writers, two rates, one failed transfer, a command line beyond the maximum; unbounded suspends |
| `si1143` | 97,956 | two tasks, two calls (one arms each source), three interrupts, one failure, one suspend; gains of which one is below the limit, one above and one above only before it becomes a byte |
| `deferred_probe` | 563,455 | two devices of which one needs the other, two tasks, five calls: both registrations and three binds, unbinds or deletions |
| `panels` | 857,714 | two tasks, five calls, two failing operations: enough for blank, disable, enable and a system suspend in one behaviour, for an overlap of any two methods, and for a resume that needs all five attempts |
| `board` | 310,780 | all identifiers of up to five characters over a family name, dash, dot and two digits, the shipped form with two-digit revisions, and revision words of no product, of both products, of bytes on both sides of `0x10`, where BCD begins to differ, and with bits above the two bytes that are used; products and revisions on both sides of the limits of an int, an unsigned long and an unsigned long long, which are 256, 512 and 262,144 in the run: the arithmetic is the code's with a smaller modulus |
| `gadget` | 303,580 | the two functions of the board and a third, with three interface ids instead of 16 (`include/linux/usb/composite.h:163`) so that the ids run out, two writers, two writes, two plugs, any failure of a bind |

What they show: motion of both rings is conserved end to end and reported; the twelve drivers can fail
at any step, be removed and be bound again with no deviation but the listed ones; the beeper and the
PWM backlight are in the state asked for last after any sequence of suspends, with no clock left on;
the LM3530's flag that skips initialisation is never stale; concurrent attributes of the Si1143
neither disarm the threshold nor program the harmful gain; a deferred device is forgotten, half bound
or bound after its deletion in one way each; the panels follow the state of the display, are dark while
the system sleeps (but for the Development panel, after calls that overlapped, and after a disable of a
blanked Tianma display) and come back as they were; the model of the board is the promised one but for
revision words that end in `0x0210`, for which decoding BCD makes a difference, for identifiers of
unsupported models, and for numbers that no int can hold; a USB host never keeps descriptors that a write
has made obsolete, unless it began to enumerate before the functions were bound.

Every module states the types of its variables (`TypeOK`; `BoardTypeOK` and `LifecycleTypeOK` in the
modules that share a module of proofs with another). They are proved for the second-generation ring and,
within the inductive invariants of section 4, for the rotary encoder, the Si1143, the LM3530, deferred
probing, the PWM's clients and the panels. In the other modules they document the variables.

`CHECK_DEADLOCK FALSE` is set where the counters of the model run out, or where the system stops
(`halted`, `crashed`, `off`, `oops`, the end of the boot).

Fairness, in `ring`, `rotary`, `si1143`, `deferred_probe`, `deferred_retry` and `gadget`: a latched interrupt is taken, a queued work item is executed, a
timer keeps firing, a task that was called goes on, a sleeping system wakes, a host that is plugged in
goes on with its enumeration. The kernel's scheduler
and interrupt controller give that. No fairness is assumed of the ring, of the sensors, of
userspace, or of failures.

### Disagreements

Two runs expect a violation. In each, a comment of the repository says one thing and the code does
another. `PROJECT.json` quotes the lines.

| Run | What happens |
|---|---|
| `deferred_retry` | a retry before the driver is on the bus's list forgets the device |
| `panel_balance` | a disable by sysfs of a blanked Tianma display releases the regulator a second time |

The other deviations are exceptions of properties that hold, each named in the property's comment: the
table of `NestKnown`; the LED driver's start-up skipped after resume (`LitAfterStartup`); the `BUG_ON`
that a `brightness=` of the command line above the maximum or below zero reaches
(`BugOnlyFromCommandLine`), and the duty the timer may not be able to produce when such a brightness wraps
past it (`BacklightShows`); the bind that clears `dev->driver` of a bound device (`BoundOnAllCounts`); the
stale flag of the panels, the second release of the clocks of a Renesas frame (`PowerFollowsState`) and
the frames (`FramesFlow`); the Development panel, lit in every suspend (`DarkAsleep`); five attempts to
wake the Renesas panel of which a failure costs two (`WakesDespiteFaults`); numbers of an identifier that
wrap into another model's (`ParseAgrees`, `ChosenAsPromised`); the boot that ends in a NULL pointer when no
identifier can be read (`BackplateAgrees`); class requests and SET_INTERFACE that do not reach their
interface behind a disabled function, fallback included (`RequestsReach`). A source of the Si1143 that fires between read and write-back of the status stays
pending; `StuckOnlyWhenMissed` and `InterruptsServed` name it as one of the three ways.
`ShownAsAsked` says nothing after a failed transfer: the loop over the LM3530's registers stops at it,
the write of the enable bit overwrites its error, and the chip is on with the rest unwritten
(`lm3530_bl.c:347`, where the comment at 354 wants the enable bit set last).

## 4. Proofs

The proofs hold for every value of the constants, so for any number of movements, clicks, tasks,
devices, binds, functions, writers, calls and failures, and for identifiers of any length. Every invariant
and every action property of the passing runs is stated by a theorem. Their assumptions are the named ones of the modules, which TLC
evaluates in the runs. Most say that bounds are natural numbers and inputs have their types. The ones
that say more:

| Assumption | What it asks, and why the code gives it |
|---|---|
| `Lm3530Assumption` | the maximal brightness fits the byte-wide register it is written to |
| `ClientAssumption`, `PwmAssumption` | the period of the backlight and a second fit the timer's counter, which has 32 bits and runs at the system clock (`pwm.c:336`), and twice either fits an unsigned; so does the product of the board's maximal brightness and its period, both of them platform data; the PWMs a board names exist. The command line's brightness may be any int |
| `DeferredAssumption`, `DssAssumption` | "none", the worker and the kernel's thread are names of nothing else |
| `GadgetAssumption` | the functions are a sequence of distinct names, as `dynamic_register_function` looks them up by name, and each has an interface; nothing is said of how many interface ids there are |
| `DiamondAssumption` | an identifier is a sequence of strings and a revision word a natural number; an unsigned long has an even number of values, at least 512, so that an int holds the two bytes of the revision word |
| `LifecycleAssumption` | the three tables of a driver have a length |

In every module the property alone is not inductive: what a thread will do next depends on what it has
read or done before, which the property does not mention. Each invariant below adds that.

**AdbsA330Proofs.** `TypeCorrect`; then `Inductive`, whose invariant adds to the types: an unbound
driver has read nothing (`Unbound`); a handler that is idle or past its sums holds none (`IdleSum`);
and motion in the sensor is watched, by a latched edge, a queued work item or a handler that will
read again, or is in `missed` (`Watched`). `Watched` is what makes `StrandedOnlyWhenMissed`
inductive: after the read of X the watch depends on the value that was read, which the property
itself does not mention. From it follow `DrainComplete`, `StrandedIsStable`, `Conservation`, and
`Refinement`: every step of the driver is a step of `MotionDelivery` or leaves its state alone, with
the mapping *unread = registers + sums*, *owed = the difference of the two positions*.

**DriverProofs, rotary encoder.** The invariant relates the two bytes to the integers they stand for,
modulo 256, and counts clicks in the flip-flop. `RotaryConserves`, `RotaryModulo` and `RotaryStuck`
follow.

**DriverProofs, lifecycle.** `LifecycleInductive`, `AlwaysCallbacksSafe`, `AlwaysNothingFreedTwice` and
`AlwaysLeavesOnly` are about any driver whose tables follow the rule: `LifecycleSpec /\ Disciplined =>
[]...`. The hypothesis is a statement about tables, of which TLC shows in the run `drivers` that the twelve
drivers satisfy it with their known deviations; the theorems then say that the safety of the twelve does
not depend on the three bindings of the run. `HeldInv` places what is held between `MustHold` and `MayHold`
of the step that was reached, less what the ladder or remove has released since; `Guarded` says that each
registered callback has what it uses. A failing step needs the existence of the step it came from in the
invariant, as the position in the ladder alone does not say what may be held. The rule is sufficient and
not necessary: it does not follow which optional steps were skipped together.

**Si1143Proofs.** The invariant says that update_lock has one owner and only its owner is in an
attribute (`Locked`), and that what a task has read of a shared register is what the chip holds
until it writes it back (`Knowledge`), with the parameter register bounded while a gain command is
on its way (`Registers`). `GainNeverUnsafe` and `ArmedForGood` follow, for any number of tasks.
`StuckForAReason` (`StuckOnlyWhenMissed`) needs the work item as well: while the status is not zero, a
latched edge, a queued or a running work item will clear it, or the history names the reason.

**Lm3530Proofs.** The flag that skips the initialisation is set exactly while the chip keeps its
registers (`AtRest`); a ramp attribute that is between its read and its write holds the enable bit
(`EnableBitKept`) and the sibling field (`StoresCurrent`) as the chip has them, as long as no two stores
were at one register (`Exclusive`). `AlwaysShownAsAsked` and `AlwaysSettingsAgree` follow.

**DeferredProbeProofs.** How far each caller can be and on which device (`Shape`), who has its lock
(`Locks`), how the three marks of a binding stand at each point of it (`Binding`), when a device may be
waiting (`Waits`), who is turned away once a device is being deleted (`Deletion`), and what a probe that
is about to defer has missed (`Misses`). The four safety properties follow, for any devices and any
dependencies among them: each of the four windows in the code is the only way for its kind of damage.

**PwmClientsProofs.** A client that has a PWM has it for itself (`Owned`): use counts are what keeps
one client's tone from being another's brightness. `Phases` says who may be suspended when, `Sounds` and
`Shows` what a bound client has programmed, `Shows` also while the device is suspended, where
`pb->enabled` and the timer differ. The load and match values need arithmetic on the quotient that
`pwm_calc_value` forms, for which there are lemmas on division, and lemmas on what wraps: a brightness from
zero to the maximum does not, and every brightness but the command line's is one, or one that has passed
the `BUG_ON` before. All five properties follow.

**DiamondProofs, gadget.** Three invariants. `HostInv`: no write precedes the end of the initcalls
(`BootedFirst`), a host that has seen the gadget came early or after them (`Enumerating`), and only a
writer between its change and its reset leaves a host behind (`HostInformed`), from which
`AlwaysHostUpToDate`. `DescInv`: what the initcalls leave (`Setting`, `Starting`), and that what each
writer has computed so far agrees with the flags (`Writing`), as long as it is alone (`Sole`), from which
`AlwaysDescriptorAgrees`. `TableInv`: `config_buf` numbers the interfaces of the enabled functions and the
table of interface ids has those of all functions, and the two go through the list in lockstep (`Laid`, for
every set of disabled functions at once, since a writer may change that set without touching the table),
also while a function that the ids were not enough for is about to fail (`Short`); no two ids are of the
same interface (`Distinct`), so that the fallback of `composite_setup` cannot find another taker;
`Binding`, `Running` and `Crashed` relate table, failed binds and what `set_config` has set up.
`AlwaysRequestsReach` and `AlwaysActiveAsDescribed` follow.

**DiamondProofs, board.** `BoardInv` says at each point of the boot which model was read (`ModelRight`),
what the choice has been filled with (`ChoiceRight`), that the guess is reached only when the fallback
has found nothing (`Exhausted`), that an identifier that did not decide names no supported model
(`Refused`), and which backplate follows (`BackplateRight`). Under it lies the parser:
`StrrchrFinds` and `EndpFinds` say where the two library functions stop, `StrtoullKeeps`, by induction
over the digits, that the wrapped sum has the remainder of the number itself, and `IntRead` that the int
stored is therefore what an int holds of it; `ReadingUnique` that the grammar has one reading at most,
`AcceptedIsRead` and `ParseReads` that the code accepts what the grammar does and returns its reading in
ints. `AlwaysParseAgrees`, `AlwaysBackplateAgrees` and `AlwaysChosenAsPromised` follow. The
proof of the last one failed at first for a reason: the exception had been stated for the revision word
`0x0210` alone, and the code looks at the low two bytes only (`board-diamond.c:3038`), so that any word
with these two is one. The run had no word above 16 bits; it has two now.

Both parts need inductions, over a list and over the positions and the digits of a string. They are done by least
counterexample: a set of natural numbers that is not empty has a least member (`LeastOf`, from the
library's theorem on well-founded relations), and the recursive definitions are unfolded one step at a
time from the `CHOOSE` that defines them (`Unfold`).

**PanelDriversProofs.** `Stage` says, for each panel, each method and each point at which another actor
can get in between, what has been done to the regulator, the output, the controller, the frames and the
flags; `Rest` what that amounts to while nobody is inside a method; both depend on what `astray` has
recorded, and the claims are made in layers: those that hold unless calls overlapped, those that also
need operations not to have failed, and those that also need no blanked display to have been disabled.
`Turns` says who may be inside, `Round` and `Sleeping` what a system suspend has left for its resume. One
lemma per step of each driver shows that it keeps them. A second invariant is about the clocks of the
Renesas panel's frames (`ClocksInductive`): as long as no operation failed, no calls overlapped, no blanked
display was disabled and none was enabled through sysfs, a pending refresh has clocks for the disable to
drop; with it `AlwaysPowerFollowsState` says after which calls alone they are released twice. A third one
(`RailsLight`) ties the Development panel to its rails, for `AlwaysDarkAsleep`. `AlwaysFramesFlow` and the
action property `AlwaysComesBack` follow from the first alone, and `AlwaysWakesDespiteFaults`
for every `WAKE_RETRY_COUNT`: the attempts a resume has used up, plus one while the FRAMEDONE handler of a
failed attempt is left, are at most twice the failed operations.

Only model-checked:

- Liveness under fairness, which is beyond the prover: `MotionReported`, `ClicksReported`,
  `InterruptsServed`, `RetriedUnlessOrphaned`, `HostFollows`.
- `Disciplined`: a statement about twelve given tables, which TLC evaluates once for each.

## 5. Not modelled

- The rest of the vendored kernel, which is no code of this product.
- The command tables of the panels and the pin multiplexing: data.
- The Giantplus panel: no configuration builds it and no board registers it.
- The LM3530's ALS and PWM modes, which no board uses.
- The wakeup of the ZigBee interrupt at suspend and resume.
- In the display subsystem: overlays, memory, modes, and its shutdown. In the gadget: strings,
  endpoints and data transfers, and a probe that fails: the error returns of `dynamic_bind`
  (`dynamic.c:314` to 337) and failed allocations in `composite_bind`, among them a failure to create the
  attribute after the bind, which leaves the configuration set while the composite device is freed.
- In `DeferredProbe`: the removal of drivers and devices that are added after boot; the product has
  neither modules nor such devices. Nor the bus's attributes `drivers_autoprobe` and `drivers_probe`
  (`bus.c:230` to 260, 493, 652): the first turns attachment off for later registrations and retries, the
  second is one more way to attach a device. `NeverForgotten` and `RetriedUnlessOrphaned` are about a
  system that leaves the first one on.
- The scripts of the root file system and the build. The scripts start programs in a fixed order and
  leave the rest to monit, and neither monit nor the programs are in the repository.

In `PwmClients` registration of the backlight and its first update are one step, and a tone asked for
before the beeper's probe has ended is excluded from `ToneSounds`, as the end of probe silences it.

## 6. State of the project

Done, in the order of importance: the two rings, the lifecycles of twelve drivers, PWM with beeper and
backlight, LM3530, Si1143, deferred probing with deletion, the panels under the display subsystem, the
choice of the board's model, the USB gadget; proofs of all their safety and action properties, and of the
refinement of `MotionDelivery`.

What could follow is in section 5. A change of a driver's probe or remove is a change of its table in
`NestDrivers`; when `Disciplined` still holds the theorems apply as they are. The rotary encoder is no
refinement of `MotionDelivery` and is not meant to become one: the end of its probe throws away clicks
that it owes (`discarded`), which the promise of the second-generation ring forbids; `RotaryConserves`
accounts for them.
