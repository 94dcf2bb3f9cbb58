----------------------------- MODULE NestDrivers -----------------------------
(***************************************************************************)
(* The probe, cleanup and remove orders of Nest's drivers, the tables that *)
(* DriverLifecycle executes.                                               *)
(***************************************************************************)
EXTENDS DriverLifecycle

(***************************************************************************)
(* drivers/input/misc/adbs-a330.c                                          *)
(***************************************************************************)

\* The GPIO helpers request, set the direction, export and link a line, and
\* undo what they did when one of the four fails: all or nothing.
AdbsGpio(g, l) == Step(g, l)
AdbsGpioFree(g) == Drop({g})

\* Mutant of AdbsCleanup: input is not set to NULL once it is unregistered.
AdbsCleanupForgetsNull ==
    << Drop({"timer"}),
       Drop({"irq"}),
       Drop({"input", "input_registered"}),
       Drop({"wake"}),
       AdbsGpioFree("motion_gpio"),
       AdbsGpioFree("shutdown_gpio"),
       AdbsGpioFree("reset_gpio"),
       Drop({"input"}),
       DropIfHeld({"regulator"}),
       Free({"mem"}, {"work"}) >>

\* Releasing the data releases the work item embedded in it; unregistering the
\* input device frees it, and probe forgets it, so that input_free_device gets
\* a NULL pointer.
AdbsCleanup ==
    << Drop({"timer"}),
       Drop({"irq"}),
       Drop({"input", "input_registered"}),
       Drop({"wake"}),
       AdbsGpioFree("motion_gpio"),
       AdbsGpioFree("shutdown_gpio"),
       AdbsGpioFree("reset_gpio"),
       DropIfHeld({"input"}),
       DropIfHeld({"regulator"}),
       Free({"mem"}, {"work"}) >>

\* The regulator: voltage range, get, range again, set; put if any fails.
AdbsInitRegulator == Optional(Step("regulator", 10))

\* init_client enables the supply, then talks to the chip, which may fail.
AdbsPower == When({"regulator"}, Step("power", 3))
AdbsChip == Check(3)

AdbsProbe ==
    << Check(11),
       Step("mem", 11),
       AdbsInitRegulator,
       Step("input", 9),
       AdbsGpio("reset_gpio", 8),
       AdbsGpio("shutdown_gpio", 7),
       AdbsGpio("motion_gpio", 6),
       Step("wake", 5),
       Step("input_registered", 4),
       Sure("wakeup_source"),
       AdbsPower,
       AdbsChip,
       Sure("work"),
       Step("irq", 3),
       Sure("timer"),
       Step("sysfs", 1) >>

AdbsRemove ==
    << Drop({"sysfs"}),
       Drop({"timer"}),
       Drop({"irq"}),
       AdbsGpioFree("motion_gpio"),
       AdbsGpioFree("shutdown_gpio"),
       AdbsGpioFree("reset_gpio"),
       Drop({"input", "input_registered"}),
       Drop({"wakeup_source"}),
       DropIfHeld({"regulator"}),
       Free({"mem"}, {"work"}) >>

AdbsExclusive == {"reset_gpio", "shutdown_gpio", "motion_gpio", "irq", "sysfs"}

AdbsTouches ==
    [irq |-> {"mem", "work"},
     timer |-> {"mem", "input", "input_registered"},
     sysfs |-> {"mem"},
     work |-> {"mem", "work"}]

(***************************************************************************)
(* drivers/input/misc/rotary_encoder_lite.c                                *)
(***************************************************************************)

RotaryCleanup ==
    << Drop({"gpio_b"}),
       Drop({"gpio_a"}),
       Drop({"input", "input_registered"}),
       DropIfHeld({"input"}),
       DropIfHeld({"mem"}) >>

\* Both allocations are made before either is tested.  A failing request of
\* the clear line goes to the label behind the one that frees line b.
RotaryProbe ==
    << Check(6),
       Optional(Sure("mem")),
       Optional(Sure("input")),
       Allocated({"mem", "input"}, 4),
       Step("input_registered", 4),
       Step("gpio_a", 3),
       Step("gpio_b", 2),
       Step("gpio_clear", 2),
       Step("irq", 1),
       Sure("timer") >>

RotaryRemove ==
    << Drop({"timer"}),
       Drop({"irq"}),
       Drop({"gpio_a"}),
       Drop({"gpio_b"}),
       Drop({"input", "input_registered"}),
       Drop({"mem"}) >>

RotaryExclusive == {"gpio_a", "gpio_b", "gpio_clear", "irq"}

RotaryTouches ==
    [irq |-> {"mem", "gpio_b", "gpio_clear"},
     timer |-> {"mem", "input", "input_registered"}]

(***************************************************************************)
(* drivers/als/si1143.c                                                    *)
(***************************************************************************)

Si1143Cleanup ==
    << Free({"mem"}, {"work"}) >>

\* A request_irq that fails frees the line in place, before the jump; a chip
\* that does not answer and a sysfs group that is not created do not.
Si1143Probe ==
    << Check(2),
       Step("mem", 2),
       Step("gpio", 1),
       Undoing({"gpio"}, Step("irq", 1)),
       Check(1),
       Sure("work"),
       Step("sysfs", 1) >>

Si1143Remove ==
    << Drop({"sysfs"}),
       Free({"mem"}, {"work"}) >>

Si1143Exclusive == {"gpio", "irq", "sysfs"}

Si1143Touches ==
    [irq |-> {"mem", "work"},
     sysfs |-> {"mem"},
     work |-> {"mem", "work"}]

(***************************************************************************)
(* drivers/video/backlight/lm3530_bl.c                                     *)
(***************************************************************************)

Lm3530Cleanup ==
    << Drop({"enable_gpio"}),
       Drop({"mem"}) >>

Lm3530Probe ==
    << Check(3),
       Step("mem", 3),
       Step("enable_gpio", 2),
       Step("backlight", 1),
       Step("sysfs", 1) >>

\* platform_set_drvdata has replaced the driver's data by the backlight device
\* in the same field, so what remove takes for its data is the backlight: the
\* line it frees is whatever number that memory holds, and the memory it frees
\* is the backlight's, which unregistering has released already.
Lm3530Remove ==
    << Drop({"sysfs"}),
       Drop({"backlight"}),
       Drop({"some_gpio"}),
       Drop({"backlight"}) >>

Lm3530Exclusive == {"enable_gpio", "backlight", "sysfs"}

Lm3530Touches ==
    [backlight |-> {"mem", "enable_gpio"},
     sysfs |-> {}]

(***************************************************************************)
(* The panels.  dss_driver_probe makes the display's attributes before it  *)
(* calls the panel's probe and sets dssdev->driver after it;               *)
(* dss_driver_remove removes them after the panel's remove.                *)
(***************************************************************************)

DssProbe(panel) == <<Sure("display")>> \o panel \o <<Sure("driver")>>
DssCleanup(panel) == panel \o <<Drop({"display"})>>
DssRemove(panel) == panel \o <<Drop({"display"}), Drop({"driver"})>>

\* What the attribute that enables a display uses: its driver, which resets the panel.
PanelTouches == [display |-> {"driver", "reset_gpio"}]

\* drivers/video/omap2/displays/panel-tianma-tm025zdz01.c
TianmaCleanup ==
    << Drop({"lcd_id_export"}),
       Drop({"lcd_id_gpio"}),
       Drop({"reset_gpio"}) >>

TianmaProbe ==
    << Check(4),
       Step("reset_gpio", 4),
       Check(3),
       Step("lcd_id_gpio", 3),
       Check(2),
       Step("lcd_id_export", 2),
       Check(1),
       Optional(Step("regulator", 1)) >>

TianmaRemove ==
    << DropIfHeld({"regulator"}),
       Drop({"reset_gpio"}),
       Drop({"lcd_id_export"}),
       Drop({"lcd_id_gpio"}) >>

\* Whether the panel's driver could be registered is not looked at.
TianmaSpiProbe ==
    << Check(1),
       Check(1),
       Optional(Sure("dss_driver")),
       Step("sysfs", 1) >>

TianmaSpiRemove ==
    << Drop({"sysfs"}),
       Drop({"dss_driver"}) >>

\* drivers/video/omap2/displays/panel-samsung-lms350df03.c
SamsungCleanup ==
    << Drop({"reset_gpio"}) >>

\* A probe that succeeds falls through to the label that frees the line.
SamsungProbe ==
    << Step("reset_gpio", 2),
       Check(1),
       Optional(Step("regulator", 1)),
       Letting({"reset_gpio"}) >>

SamsungRemove ==
    << DropIfHeld({"regulator"}),
       Drop({"reset_gpio"}) >>

SamsungSpiProbe ==
    << Check(1),
       Check(1),
       Optional(Sure("dss_driver")) >>

SamsungSpiRemove ==
    << Drop({"dss_driver"}) >>

\* drivers/video/omap2/displays/panel-renesas-r61529a1.c
RenesasCleanup ==
    << Drop({"reset_gpio"}),
       Drop({"sysfs"}) >>

RenesasProbe ==
    << Optional(Sure("regulator")),
       Step("sysfs", 3),
       Step("reset_gpio", 2),
       Check(1) >>

RenesasRemove ==
    << DropIfHeld({"regulator"}),
       Drop({"sysfs"}),
       Drop({"reset_gpio"}) >>

(***************************************************************************)
(* The glue of the board, arch/arm/mach-omap2/board-diamond-backplate.c,   *)
(* -battery.c and -zigbee.c.  The helpers of board-diamond-gpio.c request, *)
(* set the direction, export and link a line, all or nothing.              *)
(***************************************************************************)

DiamondGpio(g, l) == Step(g, l)
DiamondGpioFree(g) == Drop({g})

\* The second line is the backplate's reset or, on old boards, its power.
BackplateCleanup ==
    << DiamondGpioFree("detect_gpio") >>

BackplateProbe ==
    << DiamondGpio("detect_gpio", 2),
       DiamondGpio("reset_gpio", 1),
       Sure("probed") >>

BackplateRemove ==
    << DiamondGpioFree("reset_gpio"),
       DiamondGpioFree("detect_gpio") >>

\* diamond_backplate_reset, called as the system halts.
BackplateTouches == [probed |-> {"reset_gpio"}]

BatteryProbe ==
    << DiamondGpio("disconnect_gpio", 1),
       Sure("probed") >>

BatteryRemove ==
    << DiamondGpioFree("disconnect_gpio"),
       Drop({"probed"}) >>

\* diamond_battery_disconnect, called as the power goes off.
BatteryTouches == [probed |-> {"disconnect_gpio"}]

\* The label that an interrupt line that is not available goes to frees the
\* power line whether the board has one or not.
ZigbeeCleanup ==
    << DiamondGpioFree("power_gpio"),
       DiamondGpioFree("reset_gpio") >>

ZigbeeProbe ==
    << DiamondGpio("reset_gpio", 3),
       Optional(DiamondGpio("power_gpio", 2)),
       Optional(DiamondGpio("interrupt_gpio", 1)) >>

ZigbeeRemove ==
    << DiamondGpioFree("reset_gpio"),
       DropIfHeld({"power_gpio"}) >>

(***************************************************************************)
(* The tables                                                              *)
(***************************************************************************)

NestTables ==
    [adbs_a330 |->
        [probe |-> AdbsProbe, cleanup |-> AdbsCleanup, remove |-> AdbsRemove,
         exclusive |-> AdbsExclusive, touches |-> AdbsTouches, queues |-> {"irq"}],
     rotary_encoder_lite |->
        [probe |-> RotaryProbe, cleanup |-> RotaryCleanup, remove |-> RotaryRemove,
         exclusive |-> RotaryExclusive, touches |-> RotaryTouches, queues |-> {}],
     si1143 |->
        [probe |-> Si1143Probe, cleanup |-> Si1143Cleanup, remove |-> Si1143Remove,
         exclusive |-> Si1143Exclusive, touches |-> Si1143Touches, queues |-> {"irq"}],
     lm3530 |->
        [probe |-> Lm3530Probe, cleanup |-> Lm3530Cleanup, remove |-> Lm3530Remove,
         exclusive |-> Lm3530Exclusive, touches |-> Lm3530Touches, queues |-> {}],
     tianma |->
        [probe |-> DssProbe(TianmaProbe), cleanup |-> DssCleanup(TianmaCleanup), remove |-> DssRemove(TianmaRemove),
         exclusive |-> {"reset_gpio", "lcd_id_gpio"}, touches |-> PanelTouches, queues |-> {}],
     tianma_spi |->
        [probe |-> TianmaSpiProbe, cleanup |-> << >>, remove |-> TianmaSpiRemove,
         exclusive |-> {"dss_driver", "sysfs"}, touches |-> << >>, queues |-> {}],
     samsung |->
        [probe |-> DssProbe(SamsungProbe), cleanup |-> DssCleanup(SamsungCleanup), remove |-> DssRemove(SamsungRemove),
         exclusive |-> {"reset_gpio"}, touches |-> PanelTouches, queues |-> {}],
     samsung_spi |->
        [probe |-> SamsungSpiProbe, cleanup |-> << >>, remove |-> SamsungSpiRemove,
         exclusive |-> {"dss_driver"}, touches |-> << >>, queues |-> {}],
     renesas |->
        [probe |-> DssProbe(RenesasProbe), cleanup |-> DssCleanup(RenesasCleanup), remove |-> DssRemove(RenesasRemove),
         exclusive |-> {"reset_gpio", "sysfs"}, touches |-> PanelTouches, queues |-> {}],
     backplate |->
        [probe |-> BackplateProbe, cleanup |-> BackplateCleanup, remove |-> BackplateRemove,
         exclusive |-> {"detect_gpio", "reset_gpio"}, touches |-> BackplateTouches, queues |-> {}],
     battery |->
        [probe |-> BatteryProbe, cleanup |-> << >>, remove |-> BatteryRemove,
         exclusive |-> {"disconnect_gpio"}, touches |-> BatteryTouches, queues |-> {}],
     zigbee |->
        [probe |-> ZigbeeProbe, cleanup |-> ZigbeeCleanup, remove |-> ZigbeeRemove,
         exclusive |-> {"reset_gpio", "power_gpio", "interrupt_gpio"}, touches |-> << >>, queues |-> {}]]

\* How the drivers are known to deviate: what they leave behind, what their
\* callbacks may miss, what they release without holding it.
\*   adbs_a330: nothing disables the supply; remove does not disable wakeup of
\*   the interrupt, and a failed probe does not disable that of the device; the
\*   work item is never cancelled.
\*   rotary_encoder_lite: a late failure keeps line b or the clear line, and
\*   remove the clear line.
\*   si1143: the interrupt and its line are kept, and the interrupt precedes
\*   the initialisation of the work item.
\*   lm3530: a late failure keeps the backlight registered, with its data and
\*   line gone; remove takes the backlight for its own data.
\*   The panels: the attributes come before the driver and its line, and go
\*   after them.  tianma, samsung: a failed sysfs group keeps the panel's driver
\*   registered, and one that was not registered is unregistered.  samsung: the
\*   line is used and freed after probe has freed it.  renesas: a failed probe
\*   keeps the regulator.
\*   backplate: probed stays set.  battery: the line goes before the flag.
\*   zigbee: the interrupt line is kept, an absent power line is freed.
NestKnown ==
    [adbs_a330 |->
        [left |-> {"power", "wake", "wakeup_source"},
         unguarded |-> [irq |-> {}, timer |-> {}, sysfs |-> {}, work |-> {"mem", "work"}],
         misfreed |-> {}],
     rotary_encoder_lite |->
        [left |-> {"gpio_b", "gpio_clear"},
         unguarded |-> [irq |-> {}, timer |-> {}],
         misfreed |-> {}],
     si1143 |->
        [left |-> {"gpio", "irq"},
         unguarded |-> [irq |-> {"mem", "work"}, sysfs |-> {}, work |-> {"mem", "work"}],
         misfreed |-> {}],
     lm3530 |->
        [left |-> {"backlight", "mem", "enable_gpio"},
         unguarded |-> [backlight |-> {"mem", "enable_gpio"}, sysfs |-> {}],
         misfreed |-> {"backlight", "some_gpio"}],
     tianma |->
        [left |-> {}, unguarded |-> PanelTouches, misfreed |-> {}],
     tianma_spi |->
        [left |-> {"dss_driver"}, unguarded |-> << >>, misfreed |-> {"dss_driver"}],
     samsung |->
        [left |-> {}, unguarded |-> PanelTouches, misfreed |-> {"reset_gpio"}],
     samsung_spi |->
        [left |-> {}, unguarded |-> << >>, misfreed |-> {"dss_driver"}],
     renesas |->
        [left |-> {"regulator"}, unguarded |-> PanelTouches, misfreed |-> {}],
     backplate |->
        [left |-> {"probed"}, unguarded |-> BackplateTouches, misfreed |-> {}],
     battery |->
        [left |-> {}, unguarded |-> BatteryTouches, misfreed |-> {}],
     zigbee |->
        [left |-> {"interrupt_gpio"}, unguarded |-> << >>, misfreed |-> {"power_gpio"}]]
==============================================================================
