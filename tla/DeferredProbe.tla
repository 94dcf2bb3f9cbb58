---------------------------- MODULE DeferredProbe ----------------------------
(***************************************************************************)
(* The deferred probing that was ported back into drivers/base/dd.c, with  *)
(* the parts of drivers/base/bus.c that call it.  A probe that misses a    *)
(* driver it needs puts its device on the pending list; every driver that  *)
(* is bound moves that list to the active one and kicks a work item that   *)
(* retries it.  Each device has one driver, named like the device.         *)
(* The work item, driver registration, bind and unbind of sysfs, and the   *)
(* deletion of devices run concurrently, each holding the lock of the      *)
(* device while it binds or releases it.                                   *)
(***************************************************************************)
EXTENDS Integers

CONSTANTS
    Devices,        \* the devices, and their drivers
    Needs,          \* the drivers whose registration each device's probe looks for
    Tasks,          \* tasks that register drivers, write to sysfs or delete devices
    MaxCalls        \* bound: calls of those tasks

ASSUME DeferredAssumption ==
    /\ Needs \in [Devices -> SUBSET Devices]
    /\ "worker" \notin Tasks /\ "none" \notin Tasks /\ "none" \notin Devices
    /\ MaxCalls \in Nat

VARIABLES
    visible,        \* drivers that driver_find finds
    listed,         \* drivers on the bus's list, klist_drivers
    leaving,        \* devices that device_del has taken off the bus's list
    gone,           \* devices that are no longer registered
    driver,         \* devices whose dev->driver is set
    linked,         \* devices whose driver link exists in sysfs
    attached,       \* devices on their driver's list, klist_devices
    pending,        \* deferred_probe_pending_list
    active,         \* deferred_probe_active_list
    enabled,        \* driver_deferred_probe_enable
    queued,         \* the work item is queued
    lock,           \* the owner of each device's lock, or "none"
    task,           \* what each thread is doing, for whom, and to which device
    calls,          \* history: number of calls
    waiting,        \* history: devices whose last probe was deferred
    raced,          \* history: those for which a trigger came before they were pending
    orphaned,       \* history: those retried before their driver was on the bus's list
    announced,      \* history: drivers visible when pending was last moved to active
    rebound,        \* history: devices that got a driver before a bind or a retry had the lock
    snatched        \* history: devices probed after device_del had released their driver

bus == <<visible, listed, leaving, gone>>
binding == <<driver, linked, attached>>
lists == <<pending, active>>
binds == <<rebound, snatched>>
history == <<waiting, raced, orphaned, announced, binds>>
vars == <<bus, binding, lists, enabled, queued, lock, task, calls, history>>

Threads == Tasks \cup {"worker"}
Idle == [pc |-> "idle", via |-> "none", dev |-> "none"]

Goto(t, pc) == task' = [task EXCEPT ![t].pc = pc]
At(t, pc) == task[t].pc = pc
Dev(t) == task[t].dev

Init ==
    /\ visible = {} /\ listed = {} /\ leaving = {} /\ gone = {}
    /\ driver = {} /\ linked = {} /\ attached = {}
    /\ pending = {} /\ active = {}
    /\ enabled = FALSE
    /\ queued = FALSE
    /\ lock = [d \in Devices |-> "none"]
    /\ task = [t \in Threads |-> Idle]
    /\ calls = 0
    /\ waiting = {} /\ raced = {} /\ orphaned = {} /\ announced = {}
    /\ rebound = {} /\ snatched = {}

-----------------------------------------------------------------------------

\* Until the initcalls are over there is one task, and no userspace.
Begins(t, via, d, pc) ==
    /\ t \in Tasks
    /\ At(t, "idle")
    /\ \A u \in Tasks : task[u].via # "initcall" /\ (enabled \/ At(u, "idle"))
    /\ calls < MaxCalls
    /\ calls' = calls + 1
    /\ task' = [task EXCEPT ![t] = [pc |-> pc, via |-> via, dev |-> d]]

\* bus_add_driver makes the driver visible and tries it with its device, if
\* that is on the bus.
bus_add_driver(t, d) ==
    /\ d \notin visible
    /\ Begins(t, "register", d, IF d \in leaving THEN "list" ELSE "lock")
    /\ visible' = visible \cup {d}
    /\ UNCHANGED <<listed, leaving, gone, binding, lists, enabled, queued, lock, history>>

\* The bind attribute tests dev->driver before it takes the lock.
driver_bind(t, d) ==
    /\ enabled
    /\ d \in listed /\ d \notin driver \cup leaving
    /\ Begins(t, "bind", d, "lock")
    /\ UNCHANGED <<bus, binding, lists, enabled, queued, lock, history>>

driver_unbind(t, d) ==
    /\ enabled
    /\ d \in listed /\ d \in driver \ leaving
    /\ Begins(t, "unbind", d, "lock")
    /\ UNCHANGED <<bus, binding, lists, enabled, queued, lock, history>>

\* device_del up to bus_remove_device, which takes the device off the bus's
\* list and then releases its driver.
device_del(t, d) ==
    /\ enabled
    /\ d \notin leaving
    /\ Begins(t, "delete", d, "lock")
    /\ leaving' = leaving \cup {d}
    /\ UNCHANGED <<visible, listed, gone, binding, lists, enabled, queued, lock, history>>

deferred_probe_initcall(t) ==
    /\ ~enabled
    /\ \A u \in Tasks : At(u, "idle")
    /\ enabled' = TRUE
    /\ task' = [task EXCEPT ![t] = [pc |-> "trigger", via |-> "initcall", dev |-> "none"]]
    /\ UNCHANGED <<bus, binding, lists, queued, lock, calls, history>>

\* deferred_probe_work_func: start, take a device off the active list, leave
\* the loop once that is empty, return to the workqueue.
WorkStart ==
    /\ queued
    /\ At("worker", "idle")
    /\ queued' = FALSE
    /\ task' = [task EXCEPT !["worker"] = [pc |-> "loop", via |-> "work", dev |-> "none"]]
    /\ UNCHANGED <<bus, binding, lists, enabled, lock, calls, history>>

WorkTake(d) ==
    /\ At("worker", "loop")
    /\ d \in active
    /\ active' = active \ {d}
    /\ task' = [task EXCEPT !["worker"].pc = "lock", !["worker"].dev = d]
    /\ UNCHANGED <<bus, binding, pending, enabled, queued, lock, calls, history>>

WorkEnd ==
    /\ At("worker", "loop")
    /\ active = {}
    /\ Goto("worker", "return")
    /\ UNCHANGED <<bus, binding, lists, enabled, queued, lock, calls, history>>

WorkReturn ==
    /\ At("worker", "return")
    /\ task' = [task EXCEPT !["worker"] = Idle]
    /\ UNCHANGED <<bus, binding, lists, enabled, queued, lock, calls, history>>

-----------------------------------------------------------------------------

\* driver_probe_device refuses a device that is no longer registered.
driver_probe_device(d) == IF d \in gone THEN "unlock" ELSE "probe"

\* device_attach binds a driver that is set already, or walks the bus's list of
\* drivers.
device_attach(d) ==
    IF d \in driver THEN "rebind"
    ELSE IF d \in listed THEN driver_probe_device(d) ELSE "unlock"

\* What each caller does once it has the lock: __driver_attach skips a device
\* that has a driver, driver_bind does not look again, the work item calls
\* device_attach.
Locked(t, d) ==
    CASE task[t].via = "register" -> IF d \in driver THEN "unlock" ELSE driver_probe_device(d)
      [] task[t].via = "bind" -> driver_probe_device(d)
      [] task[t].via \in {"unbind", "delete"} -> IF d \in driver THEN "release" ELSE "unlock"
      [] OTHER -> device_attach(d)

\* device_del has released the driver of d and is not at its end yet.
Released(d) == \E u \in Tasks : Dev(u) = d /\ task[u].pc \in {"dequeue", "vanish"}

device_lock(t) ==
    LET d == Dev(t)
    IN  /\ At(t, "lock")
        /\ lock[d] = "none"
        /\ lock' = [lock EXCEPT ![d] = t]
        /\ Goto(t, Locked(t, d))
        /\ orphaned' = IF task[t].via = "work" /\ d \notin driver \cup listed
                       THEN orphaned \cup {d} ELSE orphaned
        /\ rebound' = IF task[t].via \in {"bind", "work"} /\ d \in driver
                      THEN rebound \cup {d} ELSE rebound
        /\ snatched' = IF Locked(t, d) \in {"probe", "rebind"} /\ Released(d)
                       THEN snatched \cup {d} ELSE snatched
        /\ UNCHANGED <<bus, binding, lists, enabled, queued, calls, waiting, raced, announced>>

\* really_probe, up to the call of the driver: a link that exists already fails it.
really_probe(t) ==
    LET d == Dev(t)
    IN  /\ At(t, "probe")
        /\ driver' = driver \cup {d}
        /\ linked' = linked \cup {d}
        /\ Goto(t, IF d \in linked THEN "failed" ELSE "check")
        /\ UNCHANGED <<bus, attached, lists, enabled, queued, lock, calls, history>>

\* The driver's probe looks for the drivers it needs, then succeeds or fails.
Probe(t) ==
    LET d == Dev(t)
    IN  /\ At(t, "check")
        /\ IF Needs[d] \subseteq visible
           THEN Goto(t, "bound") \/ Goto(t, "failed")
           ELSE Goto(t, "deferred")
        /\ UNCHANGED <<bus, binding, lists, enabled, queued, lock, calls, history>>

\* Mutant of probe_failed: the link in sysfs is not removed.
ProbeFailedKeepsLink(t) ==
    LET d == Dev(t)
    IN  /\ At(t, "failed") \/ At(t, "deferred")
        /\ driver' = driver \ {d}
        /\ waiting' = IF At(t, "failed") THEN waiting \ {d} ELSE waiting
        /\ Goto(t, IF At(t, "failed") THEN "unlock" ELSE "add")
        /\ UNCHANGED <<bus, linked, attached, lists, enabled, queued, lock, calls, raced, orphaned, announced, binds>>

\* really_probe's probe_failed.
probe_failed(t) ==
    LET d == Dev(t)
    IN  /\ At(t, "failed") \/ At(t, "deferred")
        /\ driver' = driver \ {d}
        /\ linked' = linked \ {d}
        /\ waiting' = IF At(t, "failed") THEN waiting \ {d} ELSE waiting
        /\ Goto(t, IF At(t, "failed") THEN "unlock" ELSE "add")
        /\ UNCHANGED <<bus, attached, lists, enabled, queued, lock, calls, raced, orphaned, announced, binds>>

driver_deferred_probe_add(t) ==
    LET d == Dev(t)
    IN  /\ At(t, "add")
        /\ pending' = IF d \in active THEN pending ELSE pending \cup {d}
        /\ waiting' = waiting \cup {d}
        /\ orphaned' = orphaned \ {d}
        /\ Goto(t, "unlock")
        /\ UNCHANGED <<bus, binding, active, enabled, queued, lock, calls, raced, announced, binds>>

\* driver_bound returns early for a device that is on its driver's list.
driver_bound(t) ==
    LET d == Dev(t)
    IN  /\ At(t, "bound")
        /\ attached' = attached \cup {d}
        /\ waiting' = waiting \ {d}
        /\ Goto(t, IF d \in attached THEN "unlock" ELSE "del")
        /\ UNCHANGED <<bus, driver, linked, lists, enabled, queued, lock, calls, raced, orphaned, announced, binds>>

driver_deferred_probe_del(t) ==
    /\ At(t, "del")
    /\ pending' = pending \ {Dev(t)}
    /\ active' = active \ {Dev(t)}
    /\ Goto(t, "trigger")
    /\ UNCHANGED <<bus, binding, enabled, queued, lock, calls, history>>

\* Devices whose probe has found a driver missing and that are not pending yet.
Undecided ==
    {d \in Devices : \E t \in Threads : Dev(t) = d /\ task[t].pc \in {"deferred", "add"}}

\* Mutant of driver_deferred_probe_trigger: the list is moved by an idle work item only.
TriggerWhenIdle(t) ==
    /\ At(t, "trigger")
    /\ IF enabled
       THEN /\ active' = IF At("worker", "idle") THEN active \cup pending ELSE active
            /\ pending' = IF At("worker", "idle") THEN {} ELSE pending
            /\ announced' = visible
            /\ raced' = Undecided
            /\ Goto(t, "kick")
       ELSE /\ Goto(t, "unlock")
            /\ UNCHANGED <<lists, announced, raced>>
    /\ UNCHANGED <<bus, binding, enabled, queued, lock, calls, waiting, orphaned, binds>>

\* Mutant of driver_deferred_probe_trigger: the active list is replaced, not added to.
TriggerReplaces(t) ==
    /\ At(t, "trigger")
    /\ IF enabled
       THEN /\ active' = pending
            /\ pending' = {}
            /\ announced' = visible
            /\ raced' = Undecided
            /\ Goto(t, "kick")
       ELSE /\ Goto(t, "unlock")
            /\ UNCHANGED <<lists, announced, raced>>
    /\ UNCHANGED <<bus, binding, enabled, queued, lock, calls, waiting, orphaned, binds>>

driver_deferred_probe_trigger(t) ==
    /\ At(t, "trigger")
    /\ IF enabled
       THEN /\ active' = active \cup pending
            /\ pending' = {}
            /\ announced' = visible
            /\ raced' = Undecided
            /\ Goto(t, "kick")
       ELSE /\ Goto(t, "unlock")
            /\ UNCHANGED <<lists, announced, raced>>
    /\ UNCHANGED <<bus, binding, enabled, queued, lock, calls, waiting, orphaned, binds>>

\* Mutant of queue_work: a work item that is executing is not queued again.
QueueWorkWhenIdle(t) ==
    /\ At(t, "kick")
    /\ queued' = (queued \/ At("worker", "idle"))
    /\ Goto(t, "unlock")
    /\ UNCHANGED <<bus, binding, lists, enabled, lock, calls, history>>

\* A work item that is executing may be queued; one that is queued stays so.
queue_work(t) ==
    /\ At(t, "kick")
    /\ queued' = TRUE
    /\ Goto(t, "unlock")
    /\ UNCHANGED <<bus, binding, lists, enabled, lock, calls, history>>

\* device_attach for a device that has got a driver meanwhile: its link exists,
\* so that device_bind_driver fails and dev->driver is cleared.
device_bind_driver(t) ==
    LET d == Dev(t)
    IN  /\ At(t, "rebind")
        /\ driver' = IF d \in linked THEN driver \ {d} ELSE driver
        /\ linked' = linked \cup {d}
        /\ Goto(t, IF d \in linked THEN "unlock" ELSE "bound")
        /\ UNCHANGED <<bus, attached, lists, enabled, queued, lock, calls, history>>

device_release_driver(t) ==
    LET d == Dev(t)
    IN  /\ At(t, "release")
        /\ driver' = driver \ {d}
        /\ linked' = linked \ {d}
        /\ attached' = attached \ {d}
        /\ Goto(t, "unlock")
        /\ UNCHANGED <<bus, lists, enabled, queued, lock, calls, history>>

\* The caller returns; the work item takes the next device, and bus_add_driver
\* goes on to put its driver on the bus's list.
device_unlock(t) ==
    LET d == Dev(t)
        via == task[t].via
    IN  /\ At(t, "unlock")
        /\ lock' = [x \in Devices |-> IF x = d THEN "none" ELSE lock[x]]
        /\ task' = [task EXCEPT ![t] =
                       CASE via = "register" -> [task[t] EXCEPT !.pc = "list"]
                         [] via = "work" -> [task[t] EXCEPT !.pc = "loop", !.dev = "none"]
                         [] via = "delete" -> [task[t] EXCEPT !.pc = "dequeue"]
                         [] OTHER -> Idle]
        /\ UNCHANGED <<bus, binding, lists, enabled, queued, calls, history>>

klist_add_tail(t) ==
    /\ At(t, "list")
    /\ listed' = listed \cup {Dev(t)}
    /\ task' = [task EXCEPT ![t] = Idle]
    /\ UNCHANGED <<visible, leaving, gone, binding, lists, enabled, queued, lock, calls, history>>

\* Mutant of device_del_dequeue: the device stays on the list of deferred devices.
DequeueNothing(t) ==
    /\ At(t, "dequeue")
    /\ waiting' = waiting \ {Dev(t)}
    /\ Goto(t, "vanish")
    /\ UNCHANGED <<bus, binding, lists, enabled, queued, lock, calls, raced, orphaned, announced, binds>>

\* device_del goes on: driver_deferred_probe_del, then kobject_del.
device_del_dequeue(t) ==
    /\ At(t, "dequeue")
    /\ pending' = pending \ {Dev(t)}
    /\ active' = active \ {Dev(t)}
    /\ waiting' = waiting \ {Dev(t)}
    /\ Goto(t, "vanish")
    /\ UNCHANGED <<bus, binding, enabled, queued, lock, calls, raced, orphaned, announced, binds>>

kobject_del(t) ==
    /\ At(t, "vanish")
    /\ gone' = gone \cup {Dev(t)}
    /\ task' = [task EXCEPT ![t] = Idle]
    /\ UNCHANGED <<visible, listed, leaving, binding, lists, enabled, queued, lock, calls, history>>

-----------------------------------------------------------------------------

Bind(t) ==
    \/ device_lock(t) \/ really_probe(t) \/ Probe(t) \/ probe_failed(t)
    \/ driver_deferred_probe_add(t) \/ driver_bound(t) \/ driver_deferred_probe_del(t)
    \/ driver_deferred_probe_trigger(t) \/ queue_work(t) \/ device_bind_driver(t)
    \/ device_release_driver(t) \/ device_unlock(t) \/ klist_add_tail(t)
    \/ device_del_dequeue(t) \/ kobject_del(t)

Work == WorkStart \/ WorkEnd \/ WorkReturn \/ \E d \in Devices : WorkTake(d)

Calls ==
    \E t \in Tasks :
        \/ deferred_probe_initcall(t)
        \/ \E d \in Devices : bus_add_driver(t, d) \/ driver_bind(t, d) \/ driver_unbind(t, d) \/ device_del(t, d)

Next == Calls \/ Work \/ \E t \in Threads : Bind(t)

Spec == Init /\ [][Next]_vars

\* A task that was called goes on, and a work item that is queued is executed.
FairSpec ==
    /\ Spec
    /\ \A t \in Threads : WF_vars(Bind(t))
    /\ WF_vars(Work)

-----------------------------------------------------------------------------

\* Every variable keeps its type.
TypeOK ==
    /\ visible \subseteq Devices /\ listed \subseteq visible
    /\ leaving \subseteq Devices /\ gone \subseteq leaving
    /\ driver \subseteq Devices /\ linked \subseteq Devices /\ attached \subseteq Devices
    /\ pending \subseteq Devices /\ active \subseteq Devices
    /\ pending \cap active = {}
    /\ enabled \in BOOLEAN /\ queued \in BOOLEAN
    /\ lock \in [Devices -> Threads \cup {"none"}]
    /\ task \in [Threads ->
           [pc : {"idle", "loop", "lock", "probe", "check", "failed", "deferred", "add", "bound", "del",
                  "trigger", "kick", "rebind", "release", "unlock", "list", "return", "dequeue", "vanish"},
            via : {"none", "register", "bind", "unbind", "delete", "initcall", "work"},
            dev : Devices \cup {"none"}]]
    /\ calls \in 0..MaxCalls
    /\ waiting \subseteq Devices /\ raced \subseteq Devices /\ orphaned \subseteq Devices
    /\ announced \subseteq visible
    /\ rebound \subseteq Devices /\ snatched \subseteq leaving

\* Some thread is about to probe d, or has not finished doing so.
InHand(d) ==
    \E t \in Threads :
        /\ Dev(t) = d /\ task[t].via \notin {"unbind", "delete"}
        /\ task[t].pc \in {"lock", "probe", "check", "failed", "deferred", "add", "bound", "rebind"}

\* A device whose probe was deferred is on one of the lists or being probed:
\* nothing between the work item, registrations and sysfs drops it.  The one
\* exception is a retry that comes before bus_add_driver has put the device's
\* driver on the bus's list, so that device_attach finds no driver to try.
NeverForgotten == \A d \in waiting \ (orphaned \cup leaving) : d \in pending \cup active \/ InHand(d)

\* A device that nobody has locked is bound on all counts, dev->driver, the link
\* in sysfs and its driver's list, or on none; unless it had got a driver by the
\* time that a bind, or a retry by the work item, had its lock: neither looks
\* again, and what fails then leaves the device half bound.
BoundOnAllCounts ==
    \A d \in Devices \ rebound :
        lock[d] = "none" => (d \in driver <=> d \in linked) /\ (d \in driver <=> d \in attached)

\* A device that has been deleted is on no list and has no driver: a bind, a
\* registration or a retry that found it earlier and waited for its lock is
\* turned away.  The one exception is a probe that gets the lock when device_del
\* has released the driver and kobject_del has not been reached.
DeletedLeftAlone == \A d \in gone \ snatched : d \notin pending \cup active \cup driver

\* No device is left pending once all it needs was there at a trigger, unless
\* that trigger ran after its probe looked and before it was added to the list.
PendingMissesDriver ==
    \A d \in pending \ raced : ~(Needs[d] \subseteq announced)

\* A device on the active list whose needs are met is probed again and bound,
\* or fails for good, also when it gets there while the work item is ending;
\* unless it is orphaned as above.
RetriedUnlessOrphaned ==
    \A d \in Devices :
        d \in active /\ Needs[d] \subseteq visible ~> d \notin waiting \/ d \in orphaned \cup gone

\* The comment on deferred_probe_work_func: each device on the active list is
\* removed from it to re-attempt the probe.
Retried ==
    \A d \in Devices : d \in active /\ Needs[d] \subseteq visible ~> d \notin waiting \/ d \in gone
==============================================================================
