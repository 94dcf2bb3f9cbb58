------------------------- MODULE DeferredProbeProofs -------------------------
(***************************************************************************)
(* Proofs about deferred probing, for any devices, any dependencies among  *)
(* them, and any number of tasks and calls.                                *)
(***************************************************************************)
EXTENDS DeferredProbe, TLAPS

Pcs == {"idle", "loop", "lock", "probe", "check", "failed", "deferred", "add", "bound", "del",
        "trigger", "kick", "rebind", "release", "unlock", "list", "return", "dequeue", "vanish"}
Vias == {"none", "register", "bind", "unbind", "delete", "initcall", "work"}
TaskRecord == [pc : Pcs, via : Vias, dev : Devices \cup {"none"}]

\* Where a thread that binds or releases a device has its lock.
Probing == {"probe", "check", "failed", "deferred", "add", "bound", "del", "trigger", "kick", "unlock"}
Holding == Probing \cup {"rebind", "release"}

\* How far each caller can be, and what it has done before it came there.
Shaped(t) ==
    LET pc == task[t].pc
        via == task[t].via
        d == task[t].dev
    IN  /\ via = "none" <=> pc = "idle"
        /\ via = "work" <=> t = "worker" /\ pc # "idle"
        /\ via = "initcall" => pc \in {"trigger", "kick", "unlock"} /\ d = "none"
        /\ via = "register" => pc \in Probing \cup {"lock", "list"} /\ d \in visible
        /\ via = "bind" => pc \in Probing \cup {"lock"} /\ d \in Devices
        /\ via = "unbind" => pc \in {"lock", "release", "unlock"} /\ d \in Devices
        /\ via = "delete" => pc \in {"lock", "release", "unlock", "dequeue", "vanish"} /\ d \in leaving
        /\ via = "work" => pc \in Probing \cup {"loop", "return", "lock", "rebind"}
        /\ via = "work" /\ pc \notin {"loop", "return"} => d \in Devices

Shape == \A t \in Threads : Shaped(t)

\* Whoever binds or releases a device has its lock.
Locks == \A t \in Threads : task[t].pc \in Holding /\ Dev(t) \in Devices => lock[Dev(t)] = t

\* How the three marks of a binding stand at each point of it, for a device that
\* nobody else had bound when the lock was taken.
Progress(t) ==
    LET pc == task[t].pc
        d == task[t].dev
    IN  d \in Devices \ rebound =>
            /\ pc \in {"probe", "add"} => d \notin driver /\ d \notin linked /\ d \notin attached
            /\ pc \in {"check", "failed", "deferred", "bound"} =>
                   d \in driver /\ d \in linked /\ d \notin attached
            /\ pc \in {"del", "trigger", "kick", "release"} =>
                   d \in driver /\ d \in linked /\ d \in attached
            /\ pc = "unlock" => (d \in driver <=> d \in linked) /\ (d \in driver <=> d \in attached)
            /\ pc # "rebind"

Binding == BoundOnAllCounts /\ \A t \in Threads : Progress(t)

\* A device that has a driver waits for none, but while its probe is under way.
Waits ==
    /\ \A d \in Devices : lock[d] = "none" => d \notin driver \cap waiting
    /\ \A t \in Threads :
           /\ task[t].pc \in Holding \ {"check", "failed", "deferred", "bound"} => Dev(t) \notin driver \cap waiting
           /\ task[t].pc = "rebind" => Dev(t) \in driver
           /\ task[t].pc = "add" => Dev(t) \notin driver
           /\ task[t].pc = "del" => Dev(t) \notin waiting

\* Once device_del has released the driver of d, whoever gets the lock is turned
\* away, unless it snatched the device; and device_del leaves it on no list.
Turned(d) ==
    /\ Released(d) \/ d \in gone =>
           d \notin driver /\ \A t \in Threads : Dev(t) = d => task[t].pc \notin Holding \ {"unlock"}
    /\ (\E u \in Tasks : Dev(u) = d /\ At(u, "vanish")) \/ d \in gone => d \notin pending \cup active

Deletion ==
    /\ \A d \in Devices \ snatched : Turned(d)
    /\ \A t \in Threads : task[t].via = "delete" /\ At(t, "unlock") => Dev(t) \notin driver

\* A probe that is about to make its device pending has missed a driver, or a
\* trigger has come since it looked.
Misses ==
    \A t \in Threads :
        task[t].pc \in {"deferred", "add"} => Dev(t) \in raced \/ ~(Needs[Dev(t)] \subseteq announced)

IInv ==
    /\ TypeOK /\ Shape /\ Locks /\ Binding /\ Waits /\ Deletion /\ Misses
    /\ NeverForgotten /\ PendingMissesDriver

-----------------------------------------------------------------------------

\* A step of a thread that changes its program counter only.
LEMMA Goes ==
    ASSUME task \in [Threads -> TaskRecord], NEW t \in Threads, NEW p \in Pcs, Goto(t, p)
    PROVE  /\ task' \in [Threads -> TaskRecord]
           /\ task'[t].pc = p /\ task'[t].via = task[t].via /\ task'[t].dev = task[t].dev
           /\ \A u \in Threads : u # t => task'[u] = task[u]
BY DEF Goto, TaskRecord

\* A step of a thread that changes what it is doing.
LEMMA Turns ==
    ASSUME task \in [Threads -> TaskRecord], NEW t \in Threads, NEW r \in TaskRecord,
           task' = [task EXCEPT ![t] = r]
    PROVE  /\ task' \in [Threads -> TaskRecord]
           /\ task'[t] = r
           /\ \A u \in Threads : u # t => task'[u] = task[u]
OBVIOUS

\* A thread that is neither outside of all calls nor in the initcall has a device.
LEMMA HasDevice ==
    ASSUME TypeOK, Shape, NEW t \in Threads,
           task[t].pc \notin {"idle", "loop", "return"},
           task[t].via = "initcall" => task[t].pc \notin {"trigger", "kick", "unlock"}
    PROVE  Dev(t) \in Devices
<1>1. task[t].via \in Vias \ {"none", "initcall"} /\ Shaped(t)
  BY DEF TypeOK, Shape, Shaped, Vias
<1>2. visible \subseteq Devices /\ leaving \subseteq Devices
  BY DEF TypeOK
<1>3. CASE task[t].via = "register"
  BY <1>1, <1>2, <1>3 DEF Shaped, Dev
<1>4. CASE task[t].via = "delete"
  BY <1>1, <1>2, <1>4 DEF Shaped, Dev
<1>5. CASE task[t].via \in {"bind", "unbind", "work"}
  BY <1>1, <1>5 DEF Shaped, Dev
<1> QED BY <1>1, <1>3, <1>4, <1>5 DEF Vias

\* The other threads stay where they are: drivers that are visible and devices that
\* leave do so for good.
LEMMA ShapeOfOthers ==
    ASSUME Shape, NEW t \in Threads, Shaped(t)',
           \A u \in Threads : u # t => task'[u] = task[u],
           visible \subseteq visible', leaving \subseteq leaving'
    PROVE  Shape'
<1> SUFFICES ASSUME NEW u \in Threads, u # t PROVE Shaped(u)'
  BY DEF Shape
<1>1. Shaped(u) /\ task'[u] = task[u]
  BY DEF Shape
<1> QED BY <1>1 DEF Shaped

\* Two threads never hold the lock of one device.
LEMMA Alone ==
    ASSUME Locks, NEW t \in Threads, NEW u \in Threads, t # u,
           task[t].pc \in Holding, Dev(t) \in Devices, Dev(u) = Dev(t)
    PROVE  task[u].pc \notin Holding
BY DEF Locks


\* really_probe sets dev->driver and makes the link, or finds it there.
LEMMA ReallyProbeKeeps ==
    ASSUME IInv, NEW t \in Threads, really_probe(t)
    PROVE  IInv'
<1> DEFINE d == Dev(t)
<1>0. TypeOK /\ task \in [Threads -> TaskRecord] /\ t \in Threads /\ task[t] \in TaskRecord
  BY DEF IInv, TypeOK, TaskRecord, Pcs, Vias, Threads
<1>1. /\ task[t].pc = "probe"
      /\ driver' = driver \cup {d}
      /\ linked' = linked \cup {d}
      /\ Goto(t, IF d \in linked THEN "failed" ELSE "check")
      /\ UNCHANGED <<visible, listed, leaving, gone, attached, pending, active, enabled, queued, lock,
                     calls, waiting, raced, orphaned, announced, rebound, snatched>>
  BY DEF really_probe, At, bus, binding, lists, history, binds
<1>2. /\ task' \in [Threads -> TaskRecord]
      /\ task'[t].pc = IF d \in linked THEN "failed" ELSE "check"
      /\ task'[t].via = task[t].via /\ task'[t].dev = task[t].dev
      /\ \A u \in Threads : u # t => task'[u] = task[u]
  BY <1>0, <1>1, Goes DEF Pcs
<1>3. d \in Devices
  BY <1>0, <1>1, HasDevice DEF IInv
<1>4. \A u \in Threads : u # t /\ Dev(u) = d => task[u].pc \notin Holding
  BY <1>0, <1>1, <1>3, Alone DEF IInv, Holding, Probing
<1>5. TypeOK'
  BY <1>0, <1>1, <1>2, <1>3, <1>4 DEF TypeOK, TaskRecord, Pcs, Vias
<1>6. Shape'
  <2>1. Shaped(t)'
    BY <1>0, <1>1, <1>2, <1>3, <1>4 DEF IInv, Shape, Shaped, Probing, Dev
  <2> QED BY <1>0, <1>1, <1>2, <2>1, ShapeOfOthers DEF IInv
<1>7. Locks'
  BY <1>0, <1>1, <1>2, <1>3, <1>4 DEF IInv, Locks, Holding, Probing, Dev
<1>8. Binding'
  <2>1. BoundOnAllCounts'
    BY <1>0, <1>1, <1>2, <1>3, <1>4, DeferredAssumption DEF IInv, Binding, BoundOnAllCounts, Locks, Holding, Probing, Threads
  <2>2. \A u \in Threads : Progress(u)'
    BY <1>0, <1>1, <1>2, <1>3, <1>4 DEF IInv, Binding, Progress, Holding, Probing, Dev
  <2> QED BY <2>1, <2>2 DEF Binding
<1>9. Waits'
  BY <1>0, <1>1, <1>2, <1>3, <1>4, DeferredAssumption DEF IInv, Waits, Locks, Holding, Probing, Dev, Threads
<1>10. Deletion'
  BY <1>0, <1>1, <1>2, <1>3, <1>4 DEF IInv, Deletion, Turned, Released, At, Holding, Probing, Dev, Threads
<1>11. Misses'
  BY <1>0, <1>1, <1>2, <1>3, <1>4 DEF IInv, Misses, Dev
<1>12. NeverForgotten'
  BY <1>0, <1>1, <1>2, <1>3, <1>4 DEF IInv, NeverForgotten, InHand, Dev
<1>13. PendingMissesDriver'
  BY <1>0, <1>1, <1>2, <1>3, <1>4 DEF IInv, PendingMissesDriver
<1> QED BY <1>5, <1>6, <1>7, <1>8, <1>9, <1>10, <1>11, <1>12, <1>13 DEF IInv

\* probe_failed takes both back.
LEMMA ProbeFailedKeeps ==
    ASSUME IInv, NEW t \in Threads, probe_failed(t)
    PROVE  IInv'
<1> DEFINE d == Dev(t)
<1>0. TypeOK /\ task \in [Threads -> TaskRecord] /\ t \in Threads /\ task[t] \in TaskRecord
  BY DEF IInv, TypeOK, TaskRecord, Pcs, Vias, Threads
<1>1. /\ task[t].pc \in {"failed", "deferred"}
      /\ driver' = driver \ {d}
      /\ linked' = linked \ {d}
      /\ waiting' = IF task[t].pc = "failed" THEN waiting \ {d} ELSE waiting
      /\ Goto(t, IF task[t].pc = "failed" THEN "unlock" ELSE "add")
      /\ UNCHANGED <<visible, listed, leaving, gone, attached, pending, active, enabled, queued, lock,
                     calls, raced, orphaned, announced, rebound, snatched>>
  BY DEF probe_failed, At, bus, binding, lists, history, binds
<1>2. /\ task' \in [Threads -> TaskRecord]
      /\ task'[t].pc = IF task[t].pc = "failed" THEN "unlock" ELSE "add"
      /\ task'[t].via = task[t].via /\ task'[t].dev = task[t].dev
      /\ \A u \in Threads : u # t => task'[u] = task[u]
  BY <1>0, <1>1, Goes DEF Pcs
<1>3. d \in Devices
  BY <1>0, <1>1, HasDevice DEF IInv
<1>4. \A u \in Threads : u # t /\ Dev(u) = d => task[u].pc \notin Holding
  BY <1>0, <1>1, <1>3, Alone DEF IInv, Holding, Probing
<1>5. TypeOK'
  BY <1>0, <1>1, <1>2, <1>3, <1>4 DEF TypeOK, TaskRecord, Pcs, Vias
<1>6. Shape'
  <2>1. Shaped(t)'
    BY <1>0, <1>1, <1>2, <1>3, <1>4 DEF IInv, Shape, Shaped, Probing, Dev
  <2> QED BY <1>0, <1>1, <1>2, <2>1, ShapeOfOthers DEF IInv
<1>7. Locks'
  BY <1>0, <1>1, <1>2, <1>3, <1>4 DEF IInv, Locks, Holding, Probing, Dev
<1>8. Binding'
  <2>1. BoundOnAllCounts'
    BY <1>0, <1>1, <1>2, <1>3, <1>4, DeferredAssumption DEF IInv, Binding, BoundOnAllCounts, Locks, Holding, Probing, Threads
  <2>2. \A u \in Threads : Progress(u)'
    BY <1>0, <1>1, <1>2, <1>3, <1>4 DEF IInv, Binding, Progress, Holding, Probing, Dev
  <2> QED BY <2>1, <2>2 DEF Binding
<1>9. Waits'
  BY <1>0, <1>1, <1>2, <1>3, <1>4, DeferredAssumption DEF IInv, Waits, Locks, Holding, Probing, Dev, Threads
<1>10. Deletion'
  BY <1>0, <1>1, <1>2, <1>3, <1>4 DEF IInv, Deletion, Turned, Released, At, Holding, Probing, Dev, Threads
<1>11. Misses'
  BY <1>0, <1>1, <1>2, <1>3, <1>4 DEF IInv, Misses, Dev
<1>12. NeverForgotten'
  BY <1>0, <1>1, <1>2, <1>3, <1>4 DEF IInv, NeverForgotten, InHand, Dev
<1>13. PendingMissesDriver'
  BY <1>0, <1>1, <1>2, <1>3, <1>4 DEF IInv, PendingMissesDriver
<1> QED BY <1>5, <1>6, <1>7, <1>8, <1>9, <1>10, <1>11, <1>12, <1>13 DEF IInv

\* The device is pending, or still active: it is not forgotten.
LEMMA AddKeeps ==
    ASSUME IInv, NEW t \in Threads, driver_deferred_probe_add(t)
    PROVE  IInv'
<1> DEFINE d == Dev(t)
<1>0. TypeOK /\ task \in [Threads -> TaskRecord] /\ t \in Threads /\ task[t] \in TaskRecord
  BY DEF IInv, TypeOK, TaskRecord, Pcs, Vias, Threads
<1>1. /\ task[t].pc = "add"
      /\ pending' = IF d \in active THEN pending ELSE pending \cup {d}
      /\ waiting' = waiting \cup {d}
      /\ orphaned' = orphaned \ {d}
      /\ Goto(t, "unlock")
      /\ UNCHANGED <<visible, listed, leaving, gone, driver, linked, attached, active, enabled, queued,
                     lock, calls, raced, announced, rebound, snatched>>
  BY DEF driver_deferred_probe_add, At, bus, binding, lists, history, binds
<1>2. /\ task' \in [Threads -> TaskRecord]
      /\ task'[t].pc = "unlock"
      /\ task'[t].via = task[t].via /\ task'[t].dev = task[t].dev
      /\ \A u \in Threads : u # t => task'[u] = task[u]
  BY <1>0, <1>1, Goes DEF Pcs
<1>3. d \in Devices
  BY <1>0, <1>1, HasDevice DEF IInv
<1>4. \A u \in Threads : u # t /\ Dev(u) = d => task[u].pc \notin Holding
  BY <1>0, <1>1, <1>3, Alone DEF IInv, Holding, Probing
<1>5. TypeOK'
  BY <1>0, <1>1, <1>2, <1>3, <1>4 DEF TypeOK, TaskRecord, Pcs, Vias
<1>6. Shape'
  <2>1. Shaped(t)'
    BY <1>0, <1>1, <1>2, <1>3, <1>4 DEF IInv, Shape, Shaped, Probing, Dev
  <2> QED BY <1>0, <1>1, <1>2, <2>1, ShapeOfOthers DEF IInv
<1>7. Locks'
  BY <1>0, <1>1, <1>2, <1>3, <1>4 DEF IInv, Locks, Holding, Probing, Dev
<1>8. Binding'
  <2>1. BoundOnAllCounts'
    BY <1>0, <1>1, <1>2, <1>3, <1>4, DeferredAssumption DEF IInv, Binding, BoundOnAllCounts, Locks, Holding, Probing, Threads
  <2>2. \A u \in Threads : Progress(u)'
    BY <1>0, <1>1, <1>2, <1>3, <1>4 DEF IInv, Binding, Progress, Holding, Probing, Dev
  <2> QED BY <2>1, <2>2 DEF Binding
<1>9. Waits'
  BY <1>0, <1>1, <1>2, <1>3, <1>4, DeferredAssumption DEF IInv, Waits, Locks, Holding, Probing, Dev, Threads
<1>10. Deletion'
  <2>1. ASSUME NEW x \in Devices \ snatched PROVE Turned(x)'
    <3>1. Turned(x)
      BY DEF IInv, Deletion
    <3>2. CASE x = d
      BY <3>1, <3>2, <1>0, <1>1, <1>2, <1>3, <1>4 DEF Turned, Released, At, Holding, Probing, Dev, Threads
    <3>3. CASE x # d
      BY <3>1, <3>3, <1>0, <1>1, <1>2, <1>3, <1>4 DEF Turned, Released, At, Holding, Probing, Dev, Threads
    <3> QED BY <3>2, <3>3
  <2>2. \A u \in Threads : (task[u].via = "delete" /\ At(u, "unlock") => Dev(u) \notin driver)'
    BY <1>0, <1>1, <1>2, <1>3, <1>4 DEF IInv, Deletion, Shape, Shaped, At, Dev, Holding, Probing
  <2> QED BY <1>1, <2>1, <2>2 DEF Deletion
<1>11. Misses'
  BY <1>0, <1>1, <1>2, <1>3, <1>4 DEF IInv, Misses, Dev
<1>12. NeverForgotten'
  BY <1>0, <1>1, <1>2, <1>3, <1>4 DEF IInv, NeverForgotten, InHand, Dev
<1>13. PendingMissesDriver'
  BY <1>0, <1>1, <1>2, <1>3, <1>4 DEF IInv, PendingMissesDriver, Misses
<1> QED BY <1>5, <1>6, <1>7, <1>8, <1>9, <1>10, <1>11, <1>12, <1>13 DEF IInv

\* driver_bound puts the device on its driver's list.
LEMMA BoundKeeps ==
    ASSUME IInv, NEW t \in Threads, driver_bound(t)
    PROVE  IInv'
<1> DEFINE d == Dev(t)
<1>0. TypeOK /\ task \in [Threads -> TaskRecord] /\ t \in Threads /\ task[t] \in TaskRecord
  BY DEF IInv, TypeOK, TaskRecord, Pcs, Vias, Threads
<1>1. /\ task[t].pc = "bound"
      /\ attached' = attached \cup {d}
      /\ waiting' = waiting \ {d}
      /\ Goto(t, IF d \in attached THEN "unlock" ELSE "del")
      /\ UNCHANGED <<visible, listed, leaving, gone, driver, linked, pending, active, enabled, queued,
                     lock, calls, raced, orphaned, announced, rebound, snatched>>
  BY DEF driver_bound, At, bus, binding, lists, history, binds
<1>2. /\ task' \in [Threads -> TaskRecord]
      /\ task'[t].pc = IF d \in attached THEN "unlock" ELSE "del"
      /\ task'[t].via = task[t].via /\ task'[t].dev = task[t].dev
      /\ \A u \in Threads : u # t => task'[u] = task[u]
  BY <1>0, <1>1, Goes DEF Pcs
<1>3. d \in Devices
  BY <1>0, <1>1, HasDevice DEF IInv
<1>4. \A u \in Threads : u # t /\ Dev(u) = d => task[u].pc \notin Holding
  BY <1>0, <1>1, <1>3, Alone DEF IInv, Holding, Probing
<1>5. TypeOK'
  BY <1>0, <1>1, <1>2, <1>3, <1>4 DEF TypeOK, TaskRecord, Pcs, Vias
<1>6. Shape'
  <2>1. Shaped(t)'
    BY <1>0, <1>1, <1>2, <1>3, <1>4 DEF IInv, Shape, Shaped, Probing, Dev
  <2> QED BY <1>0, <1>1, <1>2, <2>1, ShapeOfOthers DEF IInv
<1>7. Locks'
  BY <1>0, <1>1, <1>2, <1>3, <1>4 DEF IInv, Locks, Holding, Probing, Dev
<1>8. Binding'
  <2>1. BoundOnAllCounts'
    BY <1>0, <1>1, <1>2, <1>3, <1>4, DeferredAssumption DEF IInv, Binding, BoundOnAllCounts, Locks, Holding, Probing, Threads
  <2>2. \A u \in Threads : Progress(u)'
    BY <1>0, <1>1, <1>2, <1>3, <1>4 DEF IInv, Binding, Progress, Holding, Probing, Dev
  <2> QED BY <2>1, <2>2 DEF Binding
<1>9. Waits'
  BY <1>0, <1>1, <1>2, <1>3, <1>4, DeferredAssumption DEF IInv, Waits, Locks, Holding, Probing, Dev, Threads
<1>10. Deletion'
  <2>1. ASSUME NEW x \in Devices \ snatched PROVE Turned(x)'
    <3>1. Turned(x)
      BY DEF IInv, Deletion
    <3>2. CASE x = d
      BY <3>1, <3>2, <1>0, <1>1, <1>2, <1>3, <1>4 DEF Turned, Released, At, Holding, Probing, Dev, Threads
    <3>3. CASE x # d
      BY <3>1, <3>3, <1>0, <1>1, <1>2, <1>3, <1>4 DEF Turned, Released, At, Holding, Probing, Dev, Threads
    <3> QED BY <3>2, <3>3
  <2>2. \A u \in Threads : (task[u].via = "delete" /\ At(u, "unlock") => Dev(u) \notin driver)'
    BY <1>0, <1>1, <1>2, <1>3, <1>4 DEF IInv, Deletion, Shape, Shaped, At, Dev, Holding, Probing
  <2> QED BY <1>1, <2>1, <2>2 DEF Deletion
<1>11. Misses'
  BY <1>0, <1>1, <1>2, <1>3, <1>4 DEF IInv, Misses, Dev
<1>12. NeverForgotten'
  BY <1>0, <1>1, <1>2, <1>3, <1>4 DEF IInv, NeverForgotten, InHand, Dev
<1>13. PendingMissesDriver'
  BY <1>0, <1>1, <1>2, <1>3, <1>4 DEF IInv, PendingMissesDriver
<1> QED BY <1>5, <1>6, <1>7, <1>8, <1>9, <1>10, <1>11, <1>12, <1>13 DEF IInv

\* A device that is bound leaves the lists; it does not wait.
LEMMA DelKeeps ==
    ASSUME IInv, NEW t \in Threads, driver_deferred_probe_del(t)
    PROVE  IInv'
<1> DEFINE d == Dev(t)
<1>0. TypeOK /\ task \in [Threads -> TaskRecord] /\ t \in Threads /\ task[t] \in TaskRecord
  BY DEF IInv, TypeOK, TaskRecord, Pcs, Vias, Threads
<1>1. /\ task[t].pc = "del"
      /\ pending' = pending \ {d}
      /\ active' = active \ {d}
      /\ Goto(t, "trigger")
      /\ UNCHANGED <<visible, listed, leaving, gone, driver, linked, attached, enabled, queued, lock,
                     calls, waiting, raced, orphaned, announced, rebound, snatched>>
  BY DEF driver_deferred_probe_del, At, bus, binding, lists, history, binds
<1>2. /\ task' \in [Threads -> TaskRecord]
      /\ task'[t].pc = "trigger"
      /\ task'[t].via = task[t].via /\ task'[t].dev = task[t].dev
      /\ \A u \in Threads : u # t => task'[u] = task[u]
  BY <1>0, <1>1, Goes DEF Pcs
<1>3. d \in Devices
  BY <1>0, <1>1, HasDevice DEF IInv
<1>4. \A u \in Threads : u # t /\ Dev(u) = d => task[u].pc \notin Holding
  BY <1>0, <1>1, <1>3, Alone DEF IInv, Holding, Probing
<1>5. TypeOK'
  BY <1>0, <1>1, <1>2, <1>3, <1>4 DEF TypeOK, TaskRecord, Pcs, Vias
<1>6. Shape'
  <2>1. Shaped(t)'
    BY <1>0, <1>1, <1>2, <1>3, <1>4 DEF IInv, Shape, Shaped, Probing, Dev
  <2> QED BY <1>0, <1>1, <1>2, <2>1, ShapeOfOthers DEF IInv
<1>7. Locks'
  BY <1>0, <1>1, <1>2, <1>3, <1>4 DEF IInv, Locks, Holding, Probing, Dev
<1>8. Binding'
  <2>1. BoundOnAllCounts'
    BY <1>0, <1>1, <1>2, <1>3, <1>4, DeferredAssumption DEF IInv, Binding, BoundOnAllCounts, Locks, Holding, Probing, Threads
  <2>2. \A u \in Threads : Progress(u)'
    BY <1>0, <1>1, <1>2, <1>3, <1>4 DEF IInv, Binding, Progress, Holding, Probing, Dev
  <2> QED BY <2>1, <2>2 DEF Binding
<1>9. Waits'
  BY <1>0, <1>1, <1>2, <1>3, <1>4, DeferredAssumption DEF IInv, Waits, Locks, Holding, Probing, Dev, Threads
<1>10. Deletion'
  BY <1>0, <1>1, <1>2, <1>3, <1>4 DEF IInv, Deletion, Turned, Released, At, Holding, Probing, Dev, Threads
<1>11. Misses'
  BY <1>0, <1>1, <1>2, <1>3, <1>4 DEF IInv, Misses, Dev
<1>12. NeverForgotten'
  BY <1>0, <1>1, <1>2, <1>3, <1>4 DEF IInv, NeverForgotten, InHand, Waits, Holding, Probing, Dev
<1>13. PendingMissesDriver'
  BY <1>0, <1>1, <1>2, <1>3, <1>4 DEF IInv, PendingMissesDriver
<1> QED BY <1>5, <1>6, <1>7, <1>8, <1>9, <1>10, <1>11, <1>12, <1>13 DEF IInv

\* device_release_driver takes all three marks.
LEMMA ReleaseKeeps ==
    ASSUME IInv, NEW t \in Threads, device_release_driver(t)
    PROVE  IInv'
<1> DEFINE d == Dev(t)
<1>0. TypeOK /\ task \in [Threads -> TaskRecord] /\ t \in Threads /\ task[t] \in TaskRecord
  BY DEF IInv, TypeOK, TaskRecord, Pcs, Vias, Threads
<1>1. /\ task[t].pc = "release"
      /\ driver' = driver \ {d}
      /\ linked' = linked \ {d}
      /\ attached' = attached \ {d}
      /\ Goto(t, "unlock")
      /\ UNCHANGED <<visible, listed, leaving, gone, pending, active, enabled, queued, lock, calls,
                     waiting, raced, orphaned, announced, rebound, snatched>>
  BY DEF device_release_driver, At, bus, binding, lists, history, binds
<1>2. /\ task' \in [Threads -> TaskRecord]
      /\ task'[t].pc = "unlock"
      /\ task'[t].via = task[t].via /\ task'[t].dev = task[t].dev
      /\ \A u \in Threads : u # t => task'[u] = task[u]
  BY <1>0, <1>1, Goes DEF Pcs
<1>3. d \in Devices
  BY <1>0, <1>1, HasDevice DEF IInv
<1>4. \A u \in Threads : u # t /\ Dev(u) = d => task[u].pc \notin Holding
  BY <1>0, <1>1, <1>3, Alone DEF IInv, Holding, Probing
<1>5. TypeOK'
  BY <1>0, <1>1, <1>2, <1>3, <1>4 DEF TypeOK, TaskRecord, Pcs, Vias
<1>6. Shape'
  <2>1. Shaped(t)'
    BY <1>0, <1>1, <1>2, <1>3, <1>4 DEF IInv, Shape, Shaped, Probing, Dev
  <2> QED BY <1>0, <1>1, <1>2, <2>1, ShapeOfOthers DEF IInv
<1>7. Locks'
  BY <1>0, <1>1, <1>2, <1>3, <1>4 DEF IInv, Locks, Holding, Probing, Dev
<1>8. Binding'
  <2>1. BoundOnAllCounts'
    BY <1>0, <1>1, <1>2, <1>3, <1>4, DeferredAssumption DEF IInv, Binding, BoundOnAllCounts, Locks, Holding, Probing, Threads
  <2>2. \A u \in Threads : Progress(u)'
    BY <1>0, <1>1, <1>2, <1>3, <1>4 DEF IInv, Binding, Progress, Holding, Probing, Dev
  <2> QED BY <2>1, <2>2 DEF Binding
<1>9. Waits'
  BY <1>0, <1>1, <1>2, <1>3, <1>4, DeferredAssumption DEF IInv, Waits, Locks, Holding, Probing, Dev, Threads
<1>10. Deletion'
  BY <1>0, <1>1, <1>2, <1>3, <1>4 DEF IInv, Deletion, Turned, Released, At, Holding, Probing, Dev, Threads
<1>11. Misses'
  BY <1>0, <1>1, <1>2, <1>3, <1>4 DEF IInv, Misses, Dev
<1>12. NeverForgotten'
  BY <1>0, <1>1, <1>2, <1>3, <1>4 DEF IInv, NeverForgotten, InHand, Dev
<1>13. PendingMissesDriver'
  BY <1>0, <1>1, <1>2, <1>3, <1>4 DEF IInv, PendingMissesDriver
<1> QED BY <1>5, <1>6, <1>7, <1>8, <1>9, <1>10, <1>11, <1>12, <1>13 DEF IInv

\* A device that got a driver meanwhile is left half bound, and was noted as rebound.
LEMMA RebindKeeps ==
    ASSUME IInv, NEW t \in Threads, device_bind_driver(t)
    PROVE  IInv'
<1> DEFINE d == Dev(t)
<1>0. TypeOK /\ task \in [Threads -> TaskRecord] /\ t \in Threads /\ task[t] \in TaskRecord
  BY DEF IInv, TypeOK, TaskRecord, Pcs, Vias, Threads
<1>1. /\ task[t].pc = "rebind"
      /\ driver' = IF d \in linked THEN driver \ {d} ELSE driver
      /\ linked' = linked \cup {d}
      /\ Goto(t, IF d \in linked THEN "unlock" ELSE "bound")
      /\ UNCHANGED <<visible, listed, leaving, gone, attached, pending, active, enabled, queued, lock,
                     calls, waiting, raced, orphaned, announced, rebound, snatched>>
  BY DEF device_bind_driver, At, bus, binding, lists, history, binds
<1>2. /\ task' \in [Threads -> TaskRecord]
      /\ task'[t].pc = IF d \in linked THEN "unlock" ELSE "bound"
      /\ task'[t].via = task[t].via /\ task'[t].dev = task[t].dev
      /\ \A u \in Threads : u # t => task'[u] = task[u]
  BY <1>0, <1>1, Goes DEF Pcs
<1>3. d \in Devices
  BY <1>0, <1>1, HasDevice DEF IInv
<1>4. \A u \in Threads : u # t /\ Dev(u) = d => task[u].pc \notin Holding
  BY <1>0, <1>1, <1>3, Alone DEF IInv, Holding, Probing
<1>5. TypeOK'
  BY <1>0, <1>1, <1>2, <1>3, <1>4 DEF TypeOK, TaskRecord, Pcs, Vias
<1>6. Shape'
  <2>1. Shaped(t)'
    BY <1>0, <1>1, <1>2, <1>3, <1>4 DEF IInv, Shape, Shaped, Probing, Dev
  <2> QED BY <1>0, <1>1, <1>2, <2>1, ShapeOfOthers DEF IInv
<1>7. Locks'
  BY <1>0, <1>1, <1>2, <1>3, <1>4 DEF IInv, Locks, Holding, Probing, Dev
<1>8. Binding'
  <2>1. BoundOnAllCounts'
    BY <1>0, <1>1, <1>2, <1>3, <1>4, DeferredAssumption DEF IInv, Binding, BoundOnAllCounts, Locks, Holding, Probing, Threads
  <2>2. \A u \in Threads : Progress(u)'
    BY <1>0, <1>1, <1>2, <1>3, <1>4 DEF IInv, Binding, Progress, Holding, Probing, Dev
  <2> QED BY <2>1, <2>2 DEF Binding
<1>9. Waits'
  BY <1>0, <1>1, <1>2, <1>3, <1>4, DeferredAssumption DEF IInv, Waits, Locks, Holding, Probing, Dev, Threads
<1>10. Deletion'
  BY <1>0, <1>1, <1>2, <1>3, <1>4 DEF IInv, Deletion, Turned, Released, At, Holding, Probing, Dev, Threads
<1>11. Misses'
  BY <1>0, <1>1, <1>2, <1>3, <1>4 DEF IInv, Misses, Dev
<1>12. NeverForgotten'
  BY <1>0, <1>1, <1>2, <1>3, <1>4 DEF IInv, NeverForgotten, InHand, Waits, Holding, Probing, Dev
<1>13. PendingMissesDriver'
  BY <1>0, <1>1, <1>2, <1>3, <1>4 DEF IInv, PendingMissesDriver
<1> QED BY <1>5, <1>6, <1>7, <1>8, <1>9, <1>10, <1>11, <1>12, <1>13 DEF IInv

\* A step of a thread that has no lock before or after it, and touches no device, keeps
\* all but what it must show itself.
LEMMA QuietKeeps ==
    ASSUME IInv, NEW t \in Threads, TypeOK', Shaped(t)', NeverForgotten',
           task[t].pc \notin Holding \cup {"dequeue", "vanish"},
           task'[t].pc \notin Holding \cup {"dequeue", "vanish"},
           \A u \in Threads : u # t => task'[u] = task[u],
           visible \subseteq visible', leaving \subseteq leaving',
           pending' \subseteq pending, active' \subseteq active,
           UNCHANGED <<gone, driver, linked, attached, lock, waiting, raced, announced, rebound, snatched>>
    PROVE  IInv'
<1>1. Shape'
  BY ShapeOfOthers DEF IInv
<1>2. Locks'
  BY DEF IInv, Locks, Dev
<1>3. Binding'
  <2>1. \A u \in Threads : Progress(u)'
    BY DEF IInv, Binding, Progress, Holding, Probing
  <2> QED BY <2>1 DEF IInv, Binding, BoundOnAllCounts
<1>4. Waits'
  BY DEF IInv, Waits, Holding, Probing, Dev
<1>5. Deletion'
  BY DEF IInv, Deletion, Turned, Released, At, Holding, Probing, Dev, Threads
<1>6. Misses'
  BY DEF IInv, Misses, Holding, Probing, Dev
<1>7. PendingMissesDriver'
  BY DEF IInv, PendingMissesDriver
<1> QED BY <1>1, <1>2, <1>3, <1>4, <1>5, <1>6, <1>7 DEF IInv

\* A driver that is registered is visible before it is tried.
LEMMA AddDriverKeeps ==
    ASSUME IInv, NEW t \in Tasks, NEW d \in Devices, bus_add_driver(t, d)
    PROVE  IInv'
<1>0. TypeOK /\ task \in [Threads -> TaskRecord] /\ t \in Threads /\ task[t] \in TaskRecord
  BY DEF IInv, TypeOK, TaskRecord, Pcs, Vias, Threads
<1>1. /\ task[t].pc = "idle"
      /\ calls < MaxCalls /\ calls' = calls + 1
      /\ d \notin visible /\ visible' = visible \cup {d}
      /\ task' = [task EXCEPT ![t] = [pc |-> IF d \in leaving THEN "list" ELSE "lock", via |-> "register", dev |-> d]]
      /\ UNCHANGED <<listed, leaving, gone, driver, linked, attached, pending, active, enabled, queued,
                     lock, waiting, raced, orphaned, announced, rebound, snatched>>
  BY DEF bus_add_driver, Begins, At, bus, binding, lists, history, binds
<1>2. /\ task' \in [Threads -> TaskRecord]
      /\ task'[t].pc = (IF d \in leaving THEN "list" ELSE "lock") /\ task'[t].via = "register" /\ task'[t].dev = d
      /\ \A u \in Threads : u # t => task'[u] = task[u]
  <2> DEFINE r == [pc |-> IF d \in leaving THEN "list" ELSE "lock", via |-> "register", dev |-> d]
  <2>1. r \in TaskRecord
    BY <1>0, <1>1 DEF TaskRecord, Pcs, Vias
  <2>2. task' \in [Threads -> TaskRecord] /\ task'[t] = r /\ \A u \in Threads : u # t => task'[u] = task[u]
    BY <1>0, <1>1, <2>1, Turns
  <2> QED BY <2>2
<1>3. calls' \in 0..MaxCalls
  BY <1>0, <1>1, DeferredAssumption DEF TypeOK
<1>4. TypeOK'
  BY <1>0, <1>1, <1>2, <1>3 DEF TypeOK, TaskRecord, Pcs, Vias
<1>5. Shaped(t)'
  BY <1>0, <1>1, <1>2, <1>3, DeferredAssumption DEF IInv, TypeOK, Shaped, Probing, Dev
<1>6. NeverForgotten'
  BY <1>0, <1>1, <1>2, <1>3 DEF IInv, NeverForgotten, InHand, Dev
<1> QED BY <1>0, <1>1, <1>2, <1>4, <1>5, <1>6, QuietKeeps DEF Holding, Probing

\* A write to bind waits for the lock.
LEMMA BindKeeps ==
    ASSUME IInv, NEW t \in Tasks, NEW d \in Devices, driver_bind(t, d)
    PROVE  IInv'
<1>0. TypeOK /\ task \in [Threads -> TaskRecord] /\ t \in Threads /\ task[t] \in TaskRecord
  BY DEF IInv, TypeOK, TaskRecord, Pcs, Vias, Threads
<1>1. /\ task[t].pc = "idle"
      /\ calls < MaxCalls /\ calls' = calls + 1
      /\ task' = [task EXCEPT ![t] = [pc |-> "lock", via |-> "bind", dev |-> d]]
      /\ UNCHANGED <<visible, listed, leaving, gone, driver, linked, attached, pending, active, enabled,
                     queued, lock, waiting, raced, orphaned, announced, rebound, snatched>>
  BY DEF driver_bind, Begins, At, bus, binding, lists, history, binds
<1>2. /\ task' \in [Threads -> TaskRecord]
      /\ task'[t].pc = "lock" /\ task'[t].via = "bind" /\ task'[t].dev = d
      /\ \A u \in Threads : u # t => task'[u] = task[u]
  <2> DEFINE r == [pc |-> "lock", via |-> "bind", dev |-> d]
  <2>1. r \in TaskRecord
    BY <1>0, <1>1 DEF TaskRecord, Pcs, Vias
  <2>2. task' \in [Threads -> TaskRecord] /\ task'[t] = r /\ \A u \in Threads : u # t => task'[u] = task[u]
    BY <1>0, <1>1, <2>1, Turns
  <2> QED BY <2>2
<1>3. calls' \in 0..MaxCalls
  BY <1>0, <1>1, DeferredAssumption DEF TypeOK
<1>4. TypeOK'
  BY <1>0, <1>1, <1>2, <1>3 DEF TypeOK, TaskRecord, Pcs, Vias
<1>5. Shaped(t)'
  BY <1>0, <1>1, <1>2, <1>3, DeferredAssumption DEF IInv, TypeOK, Shaped, Probing, Dev
<1>6. NeverForgotten'
  BY <1>0, <1>1, <1>2, <1>3 DEF IInv, NeverForgotten, InHand, Dev
<1> QED BY <1>0, <1>1, <1>2, <1>4, <1>5, <1>6, QuietKeeps DEF Holding, Probing

\* A write to unbind does, too.
LEMMA UnbindKeeps ==
    ASSUME IInv, NEW t \in Tasks, NEW d \in Devices, driver_unbind(t, d)
    PROVE  IInv'
<1>0. TypeOK /\ task \in [Threads -> TaskRecord] /\ t \in Threads /\ task[t] \in TaskRecord
  BY DEF IInv, TypeOK, TaskRecord, Pcs, Vias, Threads
<1>1. /\ task[t].pc = "idle"
      /\ calls < MaxCalls /\ calls' = calls + 1
      /\ task' = [task EXCEPT ![t] = [pc |-> "lock", via |-> "unbind", dev |-> d]]
      /\ UNCHANGED <<visible, listed, leaving, gone, driver, linked, attached, pending, active, enabled,
                     queued, lock, waiting, raced, orphaned, announced, rebound, snatched>>
  BY DEF driver_unbind, Begins, At, bus, binding, lists, history, binds
<1>2. /\ task' \in [Threads -> TaskRecord]
      /\ task'[t].pc = "lock" /\ task'[t].via = "unbind" /\ task'[t].dev = d
      /\ \A u \in Threads : u # t => task'[u] = task[u]
  <2> DEFINE r == [pc |-> "lock", via |-> "unbind", dev |-> d]
  <2>1. r \in TaskRecord
    BY <1>0, <1>1 DEF TaskRecord, Pcs, Vias
  <2>2. task' \in [Threads -> TaskRecord] /\ task'[t] = r /\ \A u \in Threads : u # t => task'[u] = task[u]
    BY <1>0, <1>1, <2>1, Turns
  <2> QED BY <2>2
<1>3. calls' \in 0..MaxCalls
  BY <1>0, <1>1, DeferredAssumption DEF TypeOK
<1>4. TypeOK'
  BY <1>0, <1>1, <1>2, <1>3 DEF TypeOK, TaskRecord, Pcs, Vias
<1>5. Shaped(t)'
  BY <1>0, <1>1, <1>2, <1>3, DeferredAssumption DEF IInv, TypeOK, Shaped, Probing, Dev
<1>6. NeverForgotten'
  BY <1>0, <1>1, <1>2, <1>3 DEF IInv, NeverForgotten, InHand, Dev
<1> QED BY <1>0, <1>1, <1>2, <1>4, <1>5, <1>6, QuietKeeps DEF Holding, Probing

\* device_del takes the device off the bus's list before it releases the driver.
LEMMA DeleteKeeps ==
    ASSUME IInv, NEW t \in Tasks, NEW d \in Devices, device_del(t, d)
    PROVE  IInv'
<1>0. TypeOK /\ task \in [Threads -> TaskRecord] /\ t \in Threads /\ task[t] \in TaskRecord
  BY DEF IInv, TypeOK, TaskRecord, Pcs, Vias, Threads
<1>1. /\ task[t].pc = "idle"
      /\ calls < MaxCalls /\ calls' = calls + 1
      /\ leaving' = leaving \cup {d}
      /\ task' = [task EXCEPT ![t] = [pc |-> "lock", via |-> "delete", dev |-> d]]
      /\ UNCHANGED <<visible, listed, gone, driver, linked, attached, pending, active, enabled, queued,
                     lock, waiting, raced, orphaned, announced, rebound, snatched>>
  BY DEF device_del, Begins, At, bus, binding, lists, history, binds
<1>2. /\ task' \in [Threads -> TaskRecord]
      /\ task'[t].pc = "lock" /\ task'[t].via = "delete" /\ task'[t].dev = d
      /\ \A u \in Threads : u # t => task'[u] = task[u]
  <2> DEFINE r == [pc |-> "lock", via |-> "delete", dev |-> d]
  <2>1. r \in TaskRecord
    BY <1>0, <1>1 DEF TaskRecord, Pcs, Vias
  <2>2. task' \in [Threads -> TaskRecord] /\ task'[t] = r /\ \A u \in Threads : u # t => task'[u] = task[u]
    BY <1>0, <1>1, <2>1, Turns
  <2> QED BY <2>2
<1>3. calls' \in 0..MaxCalls
  BY <1>0, <1>1, DeferredAssumption DEF TypeOK
<1>4. TypeOK'
  BY <1>0, <1>1, <1>2, <1>3 DEF TypeOK, TaskRecord, Pcs, Vias
<1>5. Shaped(t)'
  BY <1>0, <1>1, <1>2, <1>3, DeferredAssumption DEF IInv, TypeOK, Shaped, Probing, Dev
<1>6. NeverForgotten'
  BY <1>0, <1>1, <1>2, <1>3 DEF IInv, NeverForgotten, InHand, Dev
<1> QED BY <1>0, <1>1, <1>2, <1>4, <1>5, <1>6, QuietKeeps DEF Holding, Probing

\* The initcall has no device.
LEMMA InitcallKeeps ==
    ASSUME IInv, NEW t \in Tasks, deferred_probe_initcall(t)
    PROVE  IInv'
<1>0. TypeOK /\ task \in [Threads -> TaskRecord] /\ t \in Threads /\ task[t] \in TaskRecord
  BY DEF IInv, TypeOK, TaskRecord, Pcs, Vias, Threads
<1>1. /\ task[t].pc = "idle"
      /\ enabled' = TRUE
      /\ task' = [task EXCEPT ![t] = [pc |-> "trigger", via |-> "initcall", dev |-> "none"]]
      /\ UNCHANGED <<visible, listed, leaving, gone, driver, linked, attached, pending, active, queued,
                     lock, calls, waiting, raced, orphaned, announced, rebound, snatched>>
  BY DEF deferred_probe_initcall, At, bus, binding, lists, history, binds
<1>2. /\ task' \in [Threads -> TaskRecord]
      /\ task'[t].pc = "trigger" /\ task'[t].via = "initcall" /\ task'[t].dev = "none"
      /\ \A u \in Threads : u # t => task'[u] = task[u]
  <2> DEFINE r == [pc |-> "trigger", via |-> "initcall", dev |-> "none"]
  <2>1. r \in TaskRecord
    BY <1>0, <1>1 DEF TaskRecord, Pcs, Vias
  <2>2. task' \in [Threads -> TaskRecord] /\ task'[t] = r /\ \A u \in Threads : u # t => task'[u] = task[u]
    BY <1>0, <1>1, <2>1, Turns
  <2> QED BY <2>2
<1>5. TypeOK'
  BY <1>0, <1>1, <1>2 DEF TypeOK, TaskRecord, Pcs, Vias
<1>6. Shape'
  <2>1. Shaped(t)'
    BY <1>0, <1>1, <1>2, DeferredAssumption DEF IInv, TypeOK, Shaped, Probing, Dev
  <2> QED BY <1>0, <1>1, <1>2, <2>1, ShapeOfOthers DEF IInv
<1>7. Locks'
  BY <1>0, <1>1, <1>2, DeferredAssumption DEF IInv, Locks, Holding, Probing, Dev
<1>8. Binding'
  <2>1. BoundOnAllCounts'
    BY <1>0, <1>1, <1>2, DeferredAssumption DEF IInv, Binding, BoundOnAllCounts, Locks, Holding, Probing, Threads
  <2>2. \A u \in Threads : Progress(u)'
    BY <1>0, <1>1, <1>2, DeferredAssumption DEF IInv, Binding, Progress, Holding, Probing, Dev
  <2> QED BY <2>1, <2>2 DEF Binding
<1>9. Waits'
  BY <1>0, <1>1, <1>2, DeferredAssumption DEF IInv, TypeOK, Waits, Locks, Holding, Probing, Dev, Threads
<1>10. Deletion'
  BY <1>0, <1>1, <1>2, DeferredAssumption DEF IInv, Deletion, Turned, Released, At, Holding, Probing, Dev, Threads
<1>11. Misses'
  BY <1>0, <1>1, <1>2 DEF IInv, Misses, Dev
<1>12. NeverForgotten'
  BY <1>0, <1>1, <1>2 DEF IInv, NeverForgotten, InHand, Dev
<1>13. PendingMissesDriver'
  BY <1>0, <1>1, <1>2 DEF IInv, PendingMissesDriver
<1> QED BY <1>5, <1>6, <1>7, <1>8, <1>9, <1>10, <1>11, <1>12, <1>13 DEF IInv

\* The work item starts with no device.
LEMMA WorkStartKeeps ==
    ASSUME IInv, WorkStart
    PROVE  IInv'
<1>0. TypeOK /\ task \in [Threads -> TaskRecord] /\ "worker" \in Threads /\ task["worker"] \in TaskRecord
  BY DEF IInv, TypeOK, TaskRecord, Pcs, Vias, Threads
<1>1. /\ task["worker"].pc = "idle"
      /\ queued' = FALSE
      /\ task' = [task EXCEPT !["worker"] = [pc |-> "loop", via |-> "work", dev |-> "none"]]
      /\ UNCHANGED <<visible, listed, leaving, gone, driver, linked, attached, pending, active, enabled,
                     lock, calls, waiting, raced, orphaned, announced, rebound, snatched>>
  BY DEF WorkStart, Goto, At, bus, binding, lists, history, binds
<1>2. /\ task' \in [Threads -> TaskRecord]
      /\ task'["worker"].pc = "loop" /\ task'["worker"].via = "work" /\ task'["worker"].dev = "none"
      /\ \A u \in Threads : u # "worker" => task'[u] = task[u]
  <2> DEFINE r == [pc |-> "loop", via |-> "work", dev |-> "none"]
  <2>1. r \in TaskRecord
    BY <1>0, <1>1 DEF TaskRecord, Pcs, Vias
  <2>2. task' \in [Threads -> TaskRecord] /\ task'["worker"] = r /\ \A u \in Threads : u # "worker" => task'[u] = task[u]
    BY <1>0, <1>1, <2>1, Turns
  <2> QED BY <2>2
<1>3. TypeOK'
  BY <1>0, <1>1, <1>2 DEF TypeOK, TaskRecord, Pcs, Vias
<1>4. Shaped("worker")'
  BY <1>0, <1>1, <1>2, DeferredAssumption DEF IInv, TypeOK, Shaped, Probing, Dev
<1>5. NeverForgotten'
  BY <1>0, <1>1, <1>2 DEF IInv, NeverForgotten, InHand, Dev
<1> QED BY <1>0, <1>1, <1>2, <1>3, <1>4, <1>5, QuietKeeps DEF Holding, Probing

\* A device that leaves the active list is in the hands of the work item.
LEMMA WorkTakeKeeps ==
    ASSUME IInv, NEW d \in Devices, WorkTake(d)
    PROVE  IInv'
<1>0. TypeOK /\ task \in [Threads -> TaskRecord] /\ "worker" \in Threads /\ task["worker"] \in TaskRecord
  BY DEF IInv, TypeOK, TaskRecord, Pcs, Vias, Threads
<1>1. /\ task["worker"].pc = "loop"
      /\ d \in active /\ active' = active \ {d}
      /\ task' = [task EXCEPT !["worker"].pc = "lock", !["worker"].dev = d]
      /\ UNCHANGED <<visible, listed, leaving, gone, driver, linked, attached, pending, enabled, queued,
                     lock, calls, waiting, raced, orphaned, announced, rebound, snatched>>
  BY DEF WorkTake, Goto, At, bus, binding, lists, history, binds
<1>2. /\ task' \in [Threads -> TaskRecord]
      /\ task'["worker"].pc = "lock" /\ task'["worker"].via = task["worker"].via /\ task'["worker"].dev = d
      /\ \A u \in Threads : u # "worker" => task'[u] = task[u]
  BY <1>0, <1>1 DEF TaskRecord, Pcs, Vias
<1>3. task["worker"].via = "work"
  BY <1>0, <1>1 DEF IInv, Shape, Shaped
<1>4. TypeOK'
  BY <1>0, <1>1, <1>2, <1>3 DEF TypeOK, TaskRecord, Pcs, Vias
<1>5. Shaped("worker")'
  BY <1>0, <1>1, <1>2, <1>3, DeferredAssumption DEF IInv, TypeOK, Shape, Shaped, Probing, Dev
<1>6. NeverForgotten'
  BY <1>0, <1>1, <1>2, <1>3 DEF IInv, NeverForgotten, InHand, Dev
<1> QED BY <1>0, <1>1, <1>2, <1>4, <1>5, <1>6, QuietKeeps DEF Holding, Probing

\* The work item leaves its loop.
LEMMA WorkEndKeeps ==
    ASSUME IInv, WorkEnd
    PROVE  IInv'
<1>0. TypeOK /\ task \in [Threads -> TaskRecord] /\ "worker" \in Threads /\ task["worker"] \in TaskRecord
  BY DEF IInv, TypeOK, TaskRecord, Pcs, Vias, Threads
<1>1. /\ task["worker"].pc = "loop"
      /\ task' = [task EXCEPT !["worker"].pc = "return"]
      /\ UNCHANGED <<visible, listed, leaving, gone, driver, linked, attached, pending, active, enabled,
                     queued, lock, calls, waiting, raced, orphaned, announced, rebound, snatched>>
  BY DEF WorkEnd, Goto, At, bus, binding, lists, history, binds
<1>2. /\ task' \in [Threads -> TaskRecord]
      /\ task'["worker"].pc = "return" /\ task'["worker"].via = task["worker"].via /\ task'["worker"].dev = task["worker"].dev
      /\ \A u \in Threads : u # "worker" => task'[u] = task[u]
  BY <1>0, <1>1 DEF TaskRecord, Pcs, Vias
<1>3. task["worker"].via = "work"
  BY <1>0, <1>1 DEF IInv, Shape, Shaped
<1>4. TypeOK'
  BY <1>0, <1>1, <1>2, <1>3 DEF TypeOK, TaskRecord, Pcs, Vias
<1>5. Shaped("worker")'
  BY <1>0, <1>1, <1>2, <1>3, DeferredAssumption DEF IInv, TypeOK, Shape, Shaped, Probing, Dev
<1>6. NeverForgotten'
  BY <1>0, <1>1, <1>2, <1>3 DEF IInv, NeverForgotten, InHand, Dev
<1> QED BY <1>0, <1>1, <1>2, <1>4, <1>5, <1>6, QuietKeeps DEF Holding, Probing

\* The work item is idle again.
LEMMA WorkReturnKeeps ==
    ASSUME IInv, WorkReturn
    PROVE  IInv'
<1>0. TypeOK /\ task \in [Threads -> TaskRecord] /\ "worker" \in Threads /\ task["worker"] \in TaskRecord
  BY DEF IInv, TypeOK, TaskRecord, Pcs, Vias, Threads
<1>1. /\ task["worker"].pc = "return"
      /\ task' = [task EXCEPT !["worker"] = [pc |-> "idle", via |-> "none", dev |-> "none"]]
      /\ UNCHANGED <<visible, listed, leaving, gone, driver, linked, attached, pending, active, enabled,
                     queued, lock, calls, waiting, raced, orphaned, announced, rebound, snatched>>
  BY DEF WorkReturn, Idle, Goto, At, bus, binding, lists, history, binds
<1>2. /\ task' \in [Threads -> TaskRecord]
      /\ task'["worker"].pc = "idle" /\ task'["worker"].via = "none" /\ task'["worker"].dev = "none"
      /\ \A u \in Threads : u # "worker" => task'[u] = task[u]
  <2> DEFINE r == [pc |-> "idle", via |-> "none", dev |-> "none"]
  <2>1. r \in TaskRecord
    BY <1>0, <1>1 DEF TaskRecord, Pcs, Vias
  <2>2. task' \in [Threads -> TaskRecord] /\ task'["worker"] = r /\ \A u \in Threads : u # "worker" => task'[u] = task[u]
    BY <1>0, <1>1, <2>1, Turns
  <2> QED BY <2>2
<1>3. TypeOK'
  BY <1>0, <1>1, <1>2 DEF TypeOK, TaskRecord, Pcs, Vias
<1>4. Shaped("worker")'
  BY <1>0, <1>1, <1>2, DeferredAssumption DEF IInv, TypeOK, Shaped, Probing, Dev
<1>5. NeverForgotten'
  BY <1>0, <1>1, <1>2 DEF IInv, NeverForgotten, InHand, Dev
<1> QED BY <1>0, <1>1, <1>2, <1>3, <1>4, <1>5, QuietKeeps DEF Holding, Probing

\* A probe that is deferred has missed a driver, and so would the last trigger have.
LEMMA ProbeKeeps ==
    ASSUME IInv, NEW t \in Threads, Probe(t)
    PROVE  IInv'
<1> DEFINE d == Dev(t)
<1>0. TypeOK /\ task \in [Threads -> TaskRecord] /\ t \in Threads /\ task[t] \in TaskRecord
  BY DEF IInv, TypeOK, TaskRecord, Pcs, Vias, Threads
<1>1. /\ task[t].pc = "check"
      /\ \E p \in {"bound", "failed", "deferred"} : Goto(t, p) /\ (p = "deferred" => ~(Needs[d] \subseteq visible))
      /\ UNCHANGED <<visible, listed, leaving, gone, driver, linked, attached, pending, active, enabled,
                     queued, lock, calls, waiting, raced, orphaned, announced, rebound, snatched>>
  BY DEF Probe, At, bus, binding, lists, history, binds
<1>2. /\ task' \in [Threads -> TaskRecord]
      /\ task'[t].pc \in {"bound", "failed", "deferred"}
      /\ task'[t].pc = "deferred" => ~(Needs[d] \subseteq visible)
      /\ task'[t].via = task[t].via /\ task'[t].dev = task[t].dev
      /\ \A u \in Threads : u # t => task'[u] = task[u]
  <2>1. PICK p \in {"bound", "failed", "deferred"} : Goto(t, p) /\ (p = "deferred" => ~(Needs[d] \subseteq visible))
    BY <1>1
  <2> QED BY <1>0, <2>1, Goes DEF Pcs
<1>3. d \in Devices
  BY <1>0, <1>1, HasDevice DEF IInv
<1>4. \A u \in Threads : u # t /\ Dev(u) = d => task[u].pc \notin Holding
  BY <1>0, <1>1, <1>3, Alone DEF IInv, Holding, Probing
<1>5. TypeOK'
  BY <1>0, <1>1, <1>2, <1>3, <1>4 DEF TypeOK, TaskRecord, Pcs, Vias
<1>6. Shape'
  <2>1. Shaped(t)'
    BY <1>0, <1>1, <1>2, <1>3, <1>4 DEF IInv, Shape, Shaped, Probing, Dev
  <2> QED BY <1>0, <1>1, <1>2, <2>1, ShapeOfOthers DEF IInv
<1>7. Locks'
  BY <1>0, <1>1, <1>2, <1>3, <1>4 DEF IInv, Locks, Holding, Probing, Dev
<1>8. Binding'
  <2>1. BoundOnAllCounts'
    BY <1>0, <1>1, <1>2, <1>3, <1>4, DeferredAssumption DEF IInv, Binding, BoundOnAllCounts, Locks, Holding, Probing, Threads
  <2>2. \A u \in Threads : Progress(u)'
    BY <1>0, <1>1, <1>2, <1>3, <1>4 DEF IInv, Binding, Progress, Holding, Probing, Dev
  <2> QED BY <2>1, <2>2 DEF Binding
<1>9. Waits'
  BY <1>0, <1>1, <1>2, <1>3, <1>4, DeferredAssumption DEF IInv, Waits, Locks, Holding, Probing, Dev, Threads
<1>10. Deletion'
  <2>1. ASSUME NEW x \in Devices \ snatched PROVE Turned(x)'
    <3>1. Turned(x)
      BY DEF IInv, Deletion
    <3>2. CASE x = d
      BY <3>1, <3>2, <1>0, <1>1, <1>2, <1>3, <1>4 DEF Turned, Released, At, Holding, Probing, Dev, Threads
    <3>3. CASE x # d
      BY <3>1, <3>3, <1>0, <1>1, <1>2, <1>3, <1>4 DEF Turned, Released, At, Holding, Probing, Dev, Threads
    <3> QED BY <3>2, <3>3
  <2>2. \A u \in Threads : (task[u].via = "delete" /\ At(u, "unlock") => Dev(u) \notin driver)'
    BY <1>0, <1>1, <1>2, <1>3, <1>4 DEF IInv, Deletion, Shape, Shaped, At, Dev, Holding, Probing
  <2> QED BY <1>1, <2>1, <2>2 DEF Deletion
<1>11. Misses'
  BY <1>0, <1>1, <1>2, <1>3, <1>4 DEF IInv, TypeOK, Misses, Dev
<1>12. NeverForgotten'
  BY <1>0, <1>1, <1>2, <1>3, <1>4 DEF IInv, NeverForgotten, InHand, Dev
<1>13. PendingMissesDriver'
  BY <1>0, <1>1, <1>2, <1>3, <1>4 DEF IInv, PendingMissesDriver
<1> QED BY <1>5, <1>6, <1>7, <1>8, <1>9, <1>10, <1>11, <1>12, <1>13 DEF IInv

\* A trigger leaves no device pending; a probe that is not that far yet has been raced.
LEMMA TriggerKeeps ==
    ASSUME IInv, NEW t \in Threads, driver_deferred_probe_trigger(t)
    PROVE  IInv'
<1> DEFINE d == Dev(t)
<1>0. TypeOK /\ task \in [Threads -> TaskRecord] /\ t \in Threads /\ task[t] \in TaskRecord
  BY DEF IInv, TypeOK, TaskRecord, Pcs, Vias, Threads
<1>1. /\ task[t].pc = "trigger"
      /\ active' = IF enabled THEN active \cup pending ELSE active
      /\ pending' = IF enabled THEN {} ELSE pending
      /\ announced' = IF enabled THEN visible ELSE announced
      /\ raced' = IF enabled THEN Undecided ELSE raced
      /\ Goto(t, IF enabled THEN "kick" ELSE "unlock")
      /\ UNCHANGED <<visible, listed, leaving, gone, driver, linked, attached, enabled, queued, lock,
                     calls, waiting, orphaned, rebound, snatched>>
  BY DEF driver_deferred_probe_trigger, At, bus, binding, lists, history, binds
<1>2. /\ task' \in [Threads -> TaskRecord]
      /\ task'[t].pc = IF enabled THEN "kick" ELSE "unlock"
      /\ task'[t].via = task[t].via /\ task'[t].dev = task[t].dev
      /\ \A u \in Threads : u # t => task'[u] = task[u]
  BY <1>0, <1>1, Goes DEF Pcs
<1>3. \A u \in Threads : u # t /\ Dev(u) = d /\ d \in Devices => task[u].pc \notin Holding
  BY <1>0, <1>1, Alone DEF IInv, Holding, Probing
<1>5. TypeOK'
  BY <1>0, <1>1, <1>2, <1>3 DEF TypeOK, TaskRecord, Pcs, Vias, Undecided
<1>6. Shape'
  <2>1. Shaped(t)'
    BY <1>0, <1>1, <1>2, <1>3 DEF IInv, Shape, Shaped, Probing, Dev
  <2> QED BY <1>0, <1>1, <1>2, <2>1, ShapeOfOthers DEF IInv
<1>7. Locks'
  BY <1>0, <1>1, <1>2, <1>3 DEF IInv, Locks, Holding, Probing, Dev
<1>8. Binding'
  <2>1. BoundOnAllCounts'
    BY <1>0, <1>1, <1>2, <1>3, DeferredAssumption DEF IInv, Binding, BoundOnAllCounts, Locks, Holding, Probing, Threads
  <2>2. \A u \in Threads : Progress(u)'
    BY <1>0, <1>1, <1>2, <1>3 DEF IInv, Binding, Progress, Holding, Probing, Dev
  <2> QED BY <2>1, <2>2 DEF Binding
<1>9. Waits'
  BY <1>0, <1>1, <1>2, <1>3, DeferredAssumption DEF IInv, Waits, Locks, Holding, Probing, Dev, Threads
<1>10. Deletion'
  <2>1. ASSUME NEW x \in Devices \ snatched PROVE Turned(x)'
    <3>1. Turned(x)
      BY DEF IInv, Deletion
    <3>2. CASE x = d
      BY <3>1, <3>2, <1>0, <1>1, <1>2, <1>3 DEF Turned, Released, At, Holding, Probing, Dev, Threads
    <3>3. CASE x # d
      BY <3>1, <3>3, <1>0, <1>1, <1>2, <1>3 DEF Turned, Released, At, Holding, Probing, Dev, Threads
    <3> QED BY <3>2, <3>3
  <2>2. \A u \in Threads : (task[u].via = "delete" /\ At(u, "unlock") => Dev(u) \notin driver)'
    BY <1>0, <1>1, <1>2, <1>3 DEF IInv, Deletion, Shape, Shaped, At, Dev, Holding, Probing
  <2> QED BY <1>1, <2>1, <2>2 DEF Deletion
<1>11. Misses'
  <2>1. \A u \in Threads : task[u].pc \in {"deferred", "add"} => Dev(u) \in Devices
    BY <1>0, HasDevice DEF IInv
  <2> QED BY <2>1, <1>0, <1>1, <1>2, <1>3 DEF IInv, Misses, Undecided, Dev
<1>12. NeverForgotten'
  BY <1>0, <1>1, <1>2, <1>3 DEF IInv, NeverForgotten, InHand, Dev
<1>13. PendingMissesDriver'
  BY <1>0, <1>1, <1>2, <1>3 DEF IInv, PendingMissesDriver
<1> QED BY <1>5, <1>6, <1>7, <1>8, <1>9, <1>10, <1>11, <1>12, <1>13 DEF IInv

\* Queueing the work item changes nothing else.
LEMMA QueueKeeps ==
    ASSUME IInv, NEW t \in Threads, queue_work(t)
    PROVE  IInv'
<1> DEFINE d == Dev(t)
<1>0. TypeOK /\ task \in [Threads -> TaskRecord] /\ t \in Threads /\ task[t] \in TaskRecord
  BY DEF IInv, TypeOK, TaskRecord, Pcs, Vias, Threads
<1>1. /\ task[t].pc = "kick"
      /\ queued' = TRUE
      /\ Goto(t, "unlock")
      /\ UNCHANGED <<visible, listed, leaving, gone, driver, linked, attached, pending, active, enabled,
                     lock, calls, waiting, raced, orphaned, announced, rebound, snatched>>
  BY DEF queue_work, At, bus, binding, lists, history, binds
<1>2. /\ task' \in [Threads -> TaskRecord]
      /\ task'[t].pc = "unlock"
      /\ task'[t].via = task[t].via /\ task'[t].dev = task[t].dev
      /\ \A u \in Threads : u # t => task'[u] = task[u]
  BY <1>0, <1>1, Goes DEF Pcs
<1>3. \A u \in Threads : u # t /\ Dev(u) = d /\ d \in Devices => task[u].pc \notin Holding
  BY <1>0, <1>1, Alone DEF IInv, Holding, Probing
<1>5. TypeOK'
  BY <1>0, <1>1, <1>2, <1>3 DEF TypeOK, TaskRecord, Pcs, Vias
<1>6. Shape'
  <2>1. Shaped(t)'
    BY <1>0, <1>1, <1>2, <1>3 DEF IInv, Shape, Shaped, Probing, Dev
  <2> QED BY <1>0, <1>1, <1>2, <2>1, ShapeOfOthers DEF IInv
<1>7. Locks'
  BY <1>0, <1>1, <1>2, <1>3 DEF IInv, Locks, Holding, Probing, Dev
<1>8. Binding'
  <2>1. BoundOnAllCounts'
    BY <1>0, <1>1, <1>2, <1>3, DeferredAssumption DEF IInv, Binding, BoundOnAllCounts, Locks, Holding, Probing, Threads
  <2>2. \A u \in Threads : Progress(u)'
    BY <1>0, <1>1, <1>2, <1>3 DEF IInv, Binding, Progress, Holding, Probing, Dev
  <2> QED BY <2>1, <2>2 DEF Binding
<1>9. Waits'
  BY <1>0, <1>1, <1>2, <1>3, DeferredAssumption DEF IInv, Waits, Locks, Holding, Probing, Dev, Threads
<1>10. Deletion'
  <2>1. ASSUME NEW x \in Devices \ snatched PROVE Turned(x)'
    <3>1. Turned(x)
      BY DEF IInv, Deletion
    <3>2. CASE x = d
      BY <3>1, <3>2, <1>0, <1>1, <1>2, <1>3 DEF Turned, Released, At, Holding, Probing, Dev, Threads
    <3>3. CASE x # d
      BY <3>1, <3>3, <1>0, <1>1, <1>2, <1>3 DEF Turned, Released, At, Holding, Probing, Dev, Threads
    <3> QED BY <3>2, <3>3
  <2>2. \A u \in Threads : (task[u].via = "delete" /\ At(u, "unlock") => Dev(u) \notin driver)'
    BY <1>0, <1>1, <1>2, <1>3 DEF IInv, Deletion, Shape, Shaped, At, Dev, Holding, Probing
  <2> QED BY <1>1, <2>1, <2>2 DEF Deletion
<1>11. Misses'
  BY <1>0, <1>1, <1>2, <1>3 DEF IInv, Misses, Dev
<1>12. NeverForgotten'
  BY <1>0, <1>1, <1>2, <1>3 DEF IInv, NeverForgotten, InHand, Dev
<1>13. PendingMissesDriver'
  BY <1>0, <1>1, <1>2, <1>3 DEF IInv, PendingMissesDriver
<1> QED BY <1>5, <1>6, <1>7, <1>8, <1>9, <1>10, <1>11, <1>12, <1>13 DEF IInv

\* bus_add_driver ends with the driver on the bus's list.
LEMMA ListKeeps ==
    ASSUME IInv, NEW t \in Threads, klist_add_tail(t)
    PROVE  IInv'
<1> DEFINE d == Dev(t)
<1>0. TypeOK /\ task \in [Threads -> TaskRecord] /\ t \in Threads /\ task[t] \in TaskRecord
  BY DEF IInv, TypeOK, TaskRecord, Pcs, Vias, Threads
<1>1. /\ task[t].pc = "list"
      /\ listed' = listed \cup {d}
      /\ task' = [task EXCEPT ![t] = [pc |-> "idle", via |-> "none", dev |-> "none"]]
      /\ UNCHANGED <<visible, leaving, gone, driver, linked, attached, pending, active, enabled, queued,
                     lock, calls, waiting, raced, orphaned, announced, rebound, snatched>>
  BY DEF klist_add_tail, At, bus, binding, lists, history, binds, Idle
<1>2. /\ task' \in [Threads -> TaskRecord]
      /\ task'[t].pc = "idle" /\ task'[t].via = "none" /\ task'[t].dev = "none"
      /\ \A u \in Threads : u # t => task'[u] = task[u]
  <2> DEFINE r == [pc |-> "idle", via |-> "none", dev |-> "none"]
  <2>1. r \in TaskRecord
    BY <1>0, <1>1 DEF TaskRecord, Pcs, Vias
  <2>2. task' \in [Threads -> TaskRecord] /\ task'[t] = r /\ \A u \in Threads : u # t => task'[u] = task[u]
    BY <1>0, <1>1, <2>1, Turns
  <2> QED BY <2>2
<1>3. d \in Devices
  BY <1>0, <1>1, HasDevice DEF IInv
<1>4. task[t].via = "register" /\ t \in Tasks /\ d \in visible
  BY <1>0, <1>1 DEF IInv, Shape, Shaped, Threads, Dev, Vias, TaskRecord, Probing
<1>5. TypeOK'
  BY <1>0, <1>1, <1>2, <1>3, <1>4 DEF TypeOK, TaskRecord, Pcs, Vias
<1>6. Shaped(t)'
  BY <1>0, <1>1, <1>2, <1>3, <1>4 DEF Shaped
<1>7. NeverForgotten'
  BY <1>0, <1>1, <1>2, <1>3, <1>4 DEF IInv, NeverForgotten, InHand, Dev
<1> QED BY <1>0, <1>1, <1>2, <1>5, <1>6, <1>7, QuietKeeps DEF Holding, Probing

\* device_del takes the device off the lists once its driver is released.
LEMMA DequeueKeeps ==
    ASSUME IInv, NEW t \in Threads, device_del_dequeue(t)
    PROVE  IInv'
<1> DEFINE d == Dev(t)
<1>0. TypeOK /\ task \in [Threads -> TaskRecord] /\ t \in Threads /\ task[t] \in TaskRecord
  BY DEF IInv, TypeOK, TaskRecord, Pcs, Vias, Threads
<1>1. /\ task[t].pc = "dequeue"
      /\ pending' = pending \ {d}
      /\ active' = active \ {d}
      /\ waiting' = waiting \ {d}
      /\ Goto(t, "vanish")
      /\ UNCHANGED <<visible, listed, leaving, gone, driver, linked, attached, enabled, queued, lock,
                     calls, raced, orphaned, announced, rebound, snatched>>
  BY DEF device_del_dequeue, At, bus, binding, lists, history, binds
<1>2. /\ task' \in [Threads -> TaskRecord]
      /\ task'[t].pc = "vanish"
      /\ task'[t].via = task[t].via /\ task'[t].dev = task[t].dev
      /\ \A u \in Threads : u # t => task'[u] = task[u]
  BY <1>0, <1>1, Goes DEF Pcs
<1>3. d \in Devices
  BY <1>0, <1>1, HasDevice DEF IInv
<1>4. task[t].via = "delete" /\ t \in Tasks /\ d \in leaving
  BY <1>0, <1>1 DEF IInv, Shape, Shaped, Threads, Dev, Vias, TaskRecord, Probing
<1>5. TypeOK'
  BY <1>0, <1>1, <1>2, <1>3, <1>4 DEF TypeOK, TaskRecord, Pcs, Vias
<1>6. Shape'
  <2>1. Shaped(t)'
    BY <1>0, <1>1, <1>2, <1>3, <1>4 DEF IInv, Shape, Shaped, Probing, Dev
  <2> QED BY <1>0, <1>1, <1>2, <2>1, ShapeOfOthers DEF IInv
<1>7. Locks'
  BY <1>0, <1>1, <1>2, <1>3, <1>4 DEF IInv, Locks, Holding, Probing, Dev
<1>8. Binding'
  <2>1. BoundOnAllCounts'
    BY <1>0, <1>1, <1>2, <1>3, <1>4, DeferredAssumption DEF IInv, Binding, BoundOnAllCounts, Locks, Holding, Probing, Threads
  <2>2. \A u \in Threads : Progress(u)'
    BY <1>0, <1>1, <1>2, <1>3, <1>4 DEF IInv, Binding, Progress, Holding, Probing, Dev
  <2> QED BY <2>1, <2>2 DEF Binding
<1>9. Waits'
  BY <1>0, <1>1, <1>2, <1>3, <1>4, DeferredAssumption DEF IInv, Waits, Locks, Holding, Probing, Dev, Threads
<1>10. Deletion'
  <2>1. ASSUME NEW x \in Devices \ snatched PROVE Turned(x)'
    <3>1. Turned(x)
      BY DEF IInv, Deletion
    <3>2. CASE x = d
      BY <3>1, <3>2, <1>0, <1>1, <1>2, <1>3, <1>4 DEF Turned, Released, At, Holding, Probing, Dev, Threads
    <3>3. CASE x # d
      BY <3>1, <3>3, <1>0, <1>1, <1>2, <1>3, <1>4 DEF Turned, Released, At, Holding, Probing, Dev, Threads
    <3> QED BY <3>2, <3>3
  <2>2. \A u \in Threads : (task[u].via = "delete" /\ At(u, "unlock") => Dev(u) \notin driver)'
    BY <1>0, <1>1, <1>2, <1>3, <1>4 DEF IInv, Deletion, Shape, Shaped, At, Dev, Holding, Probing
  <2> QED BY <1>1, <2>1, <2>2 DEF Deletion
<1>11. Misses'
  BY <1>0, <1>1, <1>2, <1>3, <1>4 DEF IInv, Misses, Dev
<1>12. NeverForgotten'
  BY <1>0, <1>1, <1>2, <1>3, <1>4 DEF IInv, NeverForgotten, InHand, Dev
<1>13. PendingMissesDriver'
  BY <1>0, <1>1, <1>2, <1>3, <1>4 DEF IInv, PendingMissesDriver
<1> QED BY <1>5, <1>6, <1>7, <1>8, <1>9, <1>10, <1>11, <1>12, <1>13 DEF IInv

\* With kobject_del the device is gone: nobody is left who could bind it.
LEMMA VanishKeeps ==
    ASSUME IInv, NEW t \in Threads, kobject_del(t)
    PROVE  IInv'
<1> DEFINE d == Dev(t)
<1>0. TypeOK /\ task \in [Threads -> TaskRecord] /\ t \in Threads /\ task[t] \in TaskRecord
  BY DEF IInv, TypeOK, TaskRecord, Pcs, Vias, Threads
<1>1. /\ task[t].pc = "vanish"
      /\ gone' = gone \cup {d}
      /\ task' = [task EXCEPT ![t] = [pc |-> "idle", via |-> "none", dev |-> "none"]]
      /\ UNCHANGED <<visible, listed, leaving, driver, linked, attached, pending, active, enabled,
                     queued, lock, calls, waiting, raced, orphaned, announced, rebound, snatched>>
  BY DEF kobject_del, At, bus, binding, lists, history, binds, Idle
<1>2. /\ task' \in [Threads -> TaskRecord]
      /\ task'[t].pc = "idle" /\ task'[t].via = "none" /\ task'[t].dev = "none"
      /\ \A u \in Threads : u # t => task'[u] = task[u]
  <2> DEFINE r == [pc |-> "idle", via |-> "none", dev |-> "none"]
  <2>1. r \in TaskRecord
    BY <1>0, <1>1 DEF TaskRecord, Pcs, Vias
  <2>2. task' \in [Threads -> TaskRecord] /\ task'[t] = r /\ \A u \in Threads : u # t => task'[u] = task[u]
    BY <1>0, <1>1, <2>1, Turns
  <2> QED BY <2>2
<1>3. d \in Devices
  BY <1>0, <1>1, HasDevice DEF IInv
<1>4. task[t].via = "delete" /\ t \in Tasks /\ d \in leaving
  BY <1>0, <1>1 DEF IInv, Shape, Shaped, Threads, Dev, Vias, TaskRecord, Probing
<1>5. TypeOK'
  BY <1>0, <1>1, <1>2, <1>3, <1>4 DEF TypeOK, TaskRecord, Pcs, Vias
<1>6. Shape'
  <2>1. Shaped(t)'
    BY <1>0, <1>1, <1>2, <1>3, <1>4 DEF Shaped
  <2> QED BY <1>0, <1>1, <1>2, <2>1, ShapeOfOthers DEF IInv
<1>7. Locks'
  BY <1>0, <1>1, <1>2, <1>3, <1>4, DeferredAssumption DEF IInv, Locks, Holding, Probing, Dev
<1>8. Binding'
  <2>1. BoundOnAllCounts'
    BY <1>0, <1>1, <1>2, <1>3, <1>4, DeferredAssumption DEF IInv, Binding, BoundOnAllCounts, Locks, Holding, Probing, Threads
  <2>2. \A u \in Threads : Progress(u)'
    BY <1>0, <1>1, <1>2, <1>3, <1>4 DEF IInv, Binding, Progress, Holding, Probing, Dev
  <2> QED BY <2>1, <2>2 DEF Binding
<1>9. Waits'
  BY <1>0, <1>1, <1>2, <1>3, <1>4, DeferredAssumption DEF IInv, TypeOK, Waits, Locks, Holding, Probing, Dev, Threads
<1>10. Deletion'
  <2>1. ASSUME NEW x \in Devices \ snatched PROVE Turned(x)'
    <3>1. Turned(x)
      BY DEF IInv, Deletion
    <3>2. CASE x = d
      BY <3>1, <3>2, <1>0, <1>1, <1>2, <1>3, <1>4 DEF Turned, Released, At, Holding, Probing, Dev, Threads
    <3>3. CASE x # d
      BY <3>1, <3>3, <1>0, <1>1, <1>2, <1>3, <1>4 DEF Turned, Released, At, Holding, Probing, Dev, Threads
    <3> QED BY <3>2, <3>3
  <2>2. \A u \in Threads : (task[u].via = "delete" /\ At(u, "unlock") => Dev(u) \notin driver)'
    BY <1>0, <1>1, <1>2, <1>3, <1>4 DEF IInv, Deletion, Shape, Shaped, At, Dev, Holding, Probing
  <2> QED BY <1>1, <2>1, <2>2 DEF Deletion
<1>11. Misses'
  BY <1>0, <1>1, <1>2, <1>3, <1>4 DEF IInv, Misses, Dev
<1>12. NeverForgotten'
  BY <1>0, <1>1, <1>2, <1>3, <1>4 DEF IInv, NeverForgotten, InHand, Dev
<1>13. PendingMissesDriver'
  BY <1>0, <1>1, <1>2, <1>3, <1>4 DEF IInv, PendingMissesDriver
<1> QED BY <1>5, <1>6, <1>7, <1>8, <1>9, <1>10, <1>11, <1>12, <1>13 DEF IInv

\* Whoever lets go of a device leaves it bound on all counts or on none.
LEMMA UnlockKeeps ==
    ASSUME IInv, NEW t \in Threads, device_unlock(t)
    PROVE  IInv'
<1> DEFINE d == Dev(t)
<1>0. TypeOK /\ task \in [Threads -> TaskRecord] /\ t \in Threads /\ task[t] \in TaskRecord
  BY DEF IInv, TypeOK, TaskRecord, Pcs, Vias, Threads
<1>1. /\ task[t].pc = "unlock"
      /\ lock' = [x \in Devices |-> IF x = d THEN "none" ELSE lock[x]]
      /\ task' = [task EXCEPT ![t] =
                   CASE task[t].via = "register" -> [task[t] EXCEPT !.pc = "list"]
                     [] task[t].via = "work" -> [task[t] EXCEPT !.pc = "loop", !.dev = "none"]
                     [] task[t].via = "delete" -> [task[t] EXCEPT !.pc = "dequeue"]
                     [] OTHER -> Idle]
      /\ UNCHANGED <<visible, listed, leaving, gone, driver, linked, attached, pending, active, enabled,
                     queued, calls, waiting, raced, orphaned, announced, rebound, snatched>>
  BY DEF device_unlock, At, bus, binding, lists, history, binds
<1>2. /\ task' \in [Threads -> TaskRecord]
      /\ task'[t].pc = IF task[t].via = "register" THEN "list" ELSE IF task[t].via = "work" THEN "loop"
                       ELSE IF task[t].via = "delete" THEN "dequeue" ELSE "idle"
      /\ task'[t].via = IF task[t].via \in {"register", "work", "delete"} THEN task[t].via ELSE "none"
      /\ task'[t].dev = IF task[t].via \in {"register", "delete"} THEN d ELSE "none"
      /\ \A u \in Threads : u # t => task'[u] = task[u]
  <2> DEFINE r == CASE task[t].via = "register" -> [task[t] EXCEPT !.pc = "list"]
                    [] task[t].via = "work" -> [task[t] EXCEPT !.pc = "loop", !.dev = "none"]
                    [] task[t].via = "delete" -> [task[t] EXCEPT !.pc = "dequeue"]
                    [] OTHER -> Idle
  <2>1. r \in TaskRecord
    BY <1>0, <1>1 DEF TaskRecord, Pcs, Vias, Idle
  <2>2. task' \in [Threads -> TaskRecord] /\ task'[t] = r /\ \A u \in Threads : u # t => task'[u] = task[u]
    BY <1>0, <1>1, <2>1, Turns
  <2>3. CASE task[t].via = "register"
    BY <1>0, <2>2, <2>3 DEF TaskRecord, Dev
  <2>4. CASE task[t].via = "work"
    BY <1>0, <2>2, <2>4 DEF TaskRecord, Dev
  <2>5. CASE task[t].via = "delete"
    BY <1>0, <2>2, <2>5 DEF TaskRecord, Dev
  <2>6. CASE task[t].via \notin {"register", "work", "delete"}
    BY <1>0, <2>2, <2>6 DEF Idle
  <2> QED BY <2>3, <2>4, <2>5, <2>6
<1>3. \A u \in Threads : u # t /\ Dev(u) = d /\ d \in Devices => task[u].pc \notin Holding
  BY <1>0, <1>1, Alone DEF IInv, Holding, Probing
<1>4. /\ task[t].via = "work" <=> t = "worker"
      /\ task[t].via = "register" => d \in visible
      /\ task[t].via = "delete" => d \in leaving /\ d \notin driver
  BY <1>0, <1>1 DEF IInv, Shape, Shaped, Deletion, At, Dev
<1>5. TypeOK'
  BY <1>0, <1>1, <1>2, <1>3, <1>4 DEF TypeOK, TaskRecord, Pcs, Vias
<1>6. Shape'
  <2>1. Shaped(t)'
    BY <1>0, <1>1, <1>2, <1>3, <1>4 DEF Shaped, Probing
  <2> QED BY <1>0, <1>1, <1>2, <2>1, ShapeOfOthers DEF IInv
<1>7. Locks'
  BY <1>0, <1>1, <1>2, <1>3, <1>4, DeferredAssumption DEF IInv, Locks, Holding, Probing, Dev
<1>8. Binding'
  <2>1. BoundOnAllCounts'
    BY <1>0, <1>1, <1>2, <1>3, <1>4, DeferredAssumption DEF IInv, Binding, BoundOnAllCounts, Progress, Locks, Holding, Probing, Threads, Dev
  <2>2. \A u \in Threads : Progress(u)'
    BY <1>0, <1>1, <1>2, <1>3, <1>4 DEF IInv, Binding, Progress, Holding, Probing, Dev
  <2> QED BY <2>1, <2>2 DEF Binding
<1>9. Waits'
  BY <1>0, <1>1, <1>2, <1>3, <1>4, DeferredAssumption DEF IInv, TypeOK, Waits, Locks, Holding, Probing, Dev, Threads
<1>10. Deletion'
  <2>1. ASSUME NEW x \in Devices \ snatched PROVE Turned(x)'
    <3>1. Turned(x)
      BY DEF IInv, Deletion
    <3>2. CASE x = d
      BY <3>1, <3>2, <1>0, <1>1, <1>2, <1>3, <1>4 DEF Turned, Released, At, Holding, Probing, Dev, Threads
    <3>3. CASE x # d
      BY <3>1, <3>3, <1>0, <1>1, <1>2, <1>3, <1>4 DEF Turned, Released, At, Holding, Probing, Dev, Threads
    <3> QED BY <3>2, <3>3
  <2>2. \A u \in Threads : (task[u].via = "delete" /\ At(u, "unlock") => Dev(u) \notin driver)'
    BY <1>0, <1>1, <1>2, <1>3, <1>4 DEF IInv, Deletion, Shape, Shaped, At, Dev, Holding, Probing
  <2> QED BY <1>1, <2>1, <2>2 DEF Deletion
<1>11. Misses'
  BY <1>0, <1>1, <1>2, <1>3, <1>4 DEF IInv, Misses, Dev
<1>12. NeverForgotten'
  BY <1>0, <1>1, <1>2, <1>3, <1>4 DEF IInv, NeverForgotten, InHand, Dev
<1>13. PendingMissesDriver'
  BY <1>0, <1>1, <1>2, <1>3, <1>4 DEF IInv, PendingMissesDriver
<1> QED BY <1>5, <1>6, <1>7, <1>8, <1>9, <1>10, <1>11, <1>12, <1>13 DEF IInv

\* Whoever gets the lock finds a device that is bound on all counts or on none, and goes on
\* from what it finds.
LEMMA LockKeeps ==
    ASSUME IInv, NEW t \in Threads, device_lock(t)
    PROVE  IInv'
<1> DEFINE d == Dev(t)
<1>0. TypeOK /\ task \in [Threads -> TaskRecord] /\ t \in Threads /\ task[t] \in TaskRecord
  BY DEF IInv, TypeOK, TaskRecord, Pcs, Vias, Threads
<1>1. /\ task[t].pc = "lock"
      /\ lock[d] = "none" /\ lock' = [lock EXCEPT ![d] = t]
      /\ Goto(t, Locked(t, d))
      /\ orphaned' = IF task[t].via = "work" /\ d \notin driver \cup listed THEN orphaned \cup {d} ELSE orphaned
      /\ rebound' = IF task[t].via \in {"bind", "work"} /\ d \in driver THEN rebound \cup {d} ELSE rebound
      /\ snatched' = IF Locked(t, d) \in {"probe", "rebind"} /\ Released(d) THEN snatched \cup {d} ELSE snatched
      /\ UNCHANGED <<visible, listed, leaving, gone, driver, linked, attached, pending, active, enabled,
                     queued, calls, waiting, raced, announced>>
  BY DEF device_lock, At, bus, binding, lists, history, binds
<1>2. /\ task' \in [Threads -> TaskRecord]
      /\ task'[t].pc = Locked(t, d)
      /\ task'[t].via = task[t].via /\ task'[t].dev = task[t].dev
      /\ \A u \in Threads : u # t => task'[u] = task[u]
  <2>1. Locked(t, d) \in Pcs
    BY DEF Locked, device_attach, driver_probe_device, Pcs
  <2> QED BY <1>0, <1>1, <2>1, Goes
<1>3. d \in Devices
  BY <1>0, <1>1, HasDevice DEF IInv
<1>4. \A u \in Threads : Dev(u) = d => task[u].pc \notin Holding
  BY <1>1, <1>3, DeferredAssumption DEF IInv, Locks, Threads
<1>5. \/ /\ task'[t].pc = "probe" /\ task[t].via \in {"register", "bind", "work"}
         /\ d \notin gone /\ (d \in driver => task[t].via = "bind")
      \/ task'[t].pc = "release" /\ task[t].via \in {"unbind", "delete"} /\ d \in driver
      \/ task'[t].pc = "rebind" /\ task[t].via = "work" /\ d \in driver
      \/ /\ task'[t].pc = "unlock" /\ (task[t].via \in {"unbind", "delete"} => d \notin driver)
         /\ task[t].via = "register" => d \in driver \cup gone
         /\ task[t].via = "bind" => d \in gone
         /\ task[t].via = "work" => d \in gone \/ d \notin driver \cup listed
  <2>1. task[t].via \in {"register", "bind", "unbind", "delete", "work"}
    BY <1>0, <1>1 DEF IInv, Shape, Shaped, TaskRecord, Vias
  <2> QED BY <1>2, <2>1 DEF Locked, device_attach, driver_probe_device
<1>6. /\ task'[t].pc \in {"probe", "rebind"} /\ Released(d) => d \in snatched'
      /\ task[t].via \in {"bind", "work"} /\ d \in driver => d \in rebound'
      /\ task[t].via = "work" /\ d \notin driver \cup listed => d \in orphaned'
      /\ orphaned \subseteq orphaned' /\ rebound \subseteq rebound' /\ snatched \subseteq snatched'
      /\ orphaned' \subseteq Devices /\ rebound' \subseteq Devices /\ snatched' \subseteq leaving
      /\ Released(d) => d \in leaving
  <2>1. \A u \in Tasks : Dev(u) = d /\ task[u].pc \in {"dequeue", "vanish"} => d \in leaving
    BY <1>0 DEF IInv, Shape, Shaped, Threads, Dev, TaskRecord, Vias, Probing
  <2>2. Released(d) => d \in leaving
    BY <2>1 DEF Released
  <2> QED BY <1>0, <1>1, <1>2, <1>3, <2>2 DEF TypeOK
<1>7. lock'[d] = t /\ \A x \in Devices : x # d => lock'[x] = lock[x]
  BY <1>0, <1>1, <1>3 DEF TypeOK
<1>8. TypeOK'
  BY <1>0, <1>1, <1>2, <1>3, <1>4, <1>5, <1>6, <1>7 DEF TypeOK, TaskRecord, Pcs, Vias
<1>9. Shape'
  <2>1. Shaped(t)'
    BY <1>0, <1>1, <1>2, <1>3, <1>4, <1>5, <1>6, <1>7 DEF IInv, Shape, Shaped, Probing, Dev
  <2> QED BY <1>0, <1>1, <1>2, <2>1, ShapeOfOthers DEF IInv
<1>10. Locks'
  <2> SUFFICES ASSUME NEW u \in Threads, task'[u].pc \in Holding, Dev(u)' \in Devices
               PROVE  lock'[Dev(u)'] = u
    BY DEF Locks
  <2>1. CASE u = t
    BY <2>1, <1>2, <1>7 DEF Dev
  <2>2. CASE u # t
    <3>1. Dev(u)' = Dev(u) /\ task[u].pc \in Holding /\ Dev(u) # d
      BY <2>2, <1>2, <1>4 DEF Dev
    <3> QED BY <3>1, <1>7 DEF IInv, Locks
  <2> QED BY <2>1, <2>2
<1>11. Binding'
  <2>1. BoundOnAllCounts'
    BY <1>0, <1>1, <1>3, <1>6, <1>7, DeferredAssumption DEF IInv, Binding, BoundOnAllCounts, Threads
  <2>2. Progress(t)'
    BY <1>1, <1>2, <1>3, <1>5, <1>6 DEF IInv, Binding, BoundOnAllCounts, Progress, Dev
  <2>3. ASSUME NEW u \in Threads, u # t PROVE Progress(u)'
    <3>1. Progress(u) /\ task'[u] = task[u]
      BY <1>2, <2>3 DEF IInv, Binding
    <3> QED BY <3>1, <1>1, <1>6 DEF Progress
  <2> QED BY <2>1, <2>2, <2>3 DEF Binding
<1>12. Waits'
  BY <1>0, <1>1, <1>2, <1>3, <1>4, <1>5, <1>6, <1>7, DeferredAssumption DEF IInv, TypeOK, Waits, Locks, Holding, Probing, Dev, Threads
<1>13. Deletion'
  <2>1. ASSUME NEW x \in Devices \ snatched' PROVE Turned(x)'
    <3>1. Turned(x)
      BY <1>1, <1>6, <2>1 DEF IInv, Deletion
    <3>2. CASE x = d
      BY <3>1, <3>2, <1>0, <1>1, <1>2, <1>3, <1>4, <1>5, <1>6, <1>7 DEF Turned, Released, At, Holding, Probing, Dev, Threads
    <3>3. CASE x # d
      BY <3>1, <3>3, <1>0, <1>1, <1>2, <1>3, <1>4, <1>5, <1>6, <1>7 DEF Turned, Released, At, Holding, Probing, Dev, Threads
    <3> QED BY <3>2, <3>3
  <2>2. \A u \in Threads : (task[u].via = "delete" /\ At(u, "unlock") => Dev(u) \notin driver)'
    BY <1>0, <1>1, <1>2, <1>3, <1>4, <1>5, <1>6, <1>7 DEF IInv, Deletion, Shape, Shaped, At, Dev, Holding, Probing
  <2> QED BY <1>1, <2>1, <2>2 DEF Deletion
<1>14. Misses'
  BY <1>0, <1>1, <1>2, <1>3, <1>4, <1>5, <1>6, <1>7 DEF IInv, Misses, Dev
<1>15. NeverForgotten'
  <2> SUFFICES ASSUME NEW x \in waiting' \ (orphaned' \cup leaving'), x \notin pending' \cup active'
               PROVE  InHand(x)'
    BY DEF NeverForgotten
  <2>1. InHand(x)
    BY <1>1, <1>6 DEF IInv, NeverForgotten
  <2>2. PICK u \in Threads : /\ Dev(u) = x /\ task[u].via \notin {"unbind", "delete"}
                             /\ task[u].pc \in {"lock", "probe", "check", "failed", "deferred", "add", "bound", "rebind"}
    BY <2>1 DEF InHand
  <2>3. CASE u # t
    BY <1>2, <2>2, <2>3 DEF InHand, Dev
  <2>4. CASE u = t
    <3>1. x = d /\ x \notin gone /\ x \notin driver
      BY <1>0, <1>1, <1>3, <2>2, <2>4 DEF IInv, TypeOK, Waits
    <3>2. task[t].via \in {"register", "bind", "work"}
      BY <1>0, <1>1, <2>2, <2>4 DEF IInv, Shape, Shaped, TaskRecord, Vias
    <3>3. task'[t].pc = "probe"
      BY <1>1, <1>5, <1>6, <3>1, <3>2
    <3> QED BY <1>2, <3>1, <3>2, <3>3 DEF InHand, Dev
  <2> QED BY <2>3, <2>4
<1>16. PendingMissesDriver'
  BY <1>0, <1>1, <1>2, <1>3, <1>4, <1>5, <1>6, <1>7 DEF IInv, PendingMissesDriver
<1> QED BY <1>8, <1>9, <1>10, <1>11, <1>12, <1>13, <1>14, <1>15, <1>16 DEF IInv

-----------------------------------------------------------------------------

\* The inductive invariant of deferred probing: it holds when the kernel starts, and
\* every step of the work item, of a registration, of a write to sysfs and of a
\* deletion keeps it, in any order.
THEOREM DeferredInductive == Spec => []IInv
<1>1. Init => IInv
  <2> SUFFICES ASSUME Init PROVE IInv
    OBVIOUS
  <2>1. \A t \in Threads : task[t] = Idle /\ task[t].pc = "idle" /\ task[t].via = "none" /\ task[t].dev = "none"
    BY DEF Init, Idle
  <2>2. TypeOK
    <3>1. task \in [Threads -> TaskRecord]
      BY <2>1 DEF Init, TaskRecord, Pcs, Vias, Idle
    <3>2. calls \in 0..MaxCalls
      BY DeferredAssumption DEF Init
    <3>3. lock \in [Devices -> Threads \cup {"none"}]
      BY DEF Init
    <3> QED BY <3>1, <3>2, <3>3 DEF Init, TypeOK, TaskRecord, Pcs, Vias
  <2>3. Shape
    BY <2>1 DEF Shape, Shaped
  <2>4. Locks
    BY <2>1 DEF Locks, Holding, Probing
  <2>5. Binding
    BY <2>1 DEF Init, Binding, BoundOnAllCounts, Progress
  <2>6. Waits
    BY <2>1 DEF Init, Waits
  <2>7. Deletion
    BY <2>1 DEF Init, Deletion, Turned, Released, At, Threads
  <2>8. Misses
    BY <2>1 DEF Misses
  <2>9. NeverForgotten /\ PendingMissesDriver
    BY DEF Init, NeverForgotten, PendingMissesDriver
  <2> QED BY <2>2, <2>3, <2>4, <2>5, <2>6, <2>7, <2>8, <2>9 DEF IInv
<1>2. IInv /\ [Next]_vars => IInv'
  <2> SUFFICES ASSUME IInv, [Next]_vars PROVE IInv'
    OBVIOUS
  <2>1. CASE Calls
    BY <2>1, AddDriverKeeps, BindKeeps, UnbindKeeps, DeleteKeeps, InitcallKeeps DEF Calls
  <2>2. CASE Work
    BY <2>2, WorkStartKeeps, WorkTakeKeeps, WorkEndKeeps, WorkReturnKeeps DEF Work
  <2>3. ASSUME NEW t \in Threads, Bind(t) PROVE IInv'
    BY <2>3, LockKeeps, ReallyProbeKeeps, ProbeKeeps, ProbeFailedKeeps, AddKeeps, BoundKeeps, DelKeeps,
       TriggerKeeps, QueueKeeps, RebindKeeps, ReleaseKeeps, UnlockKeeps, ListKeeps, DequeueKeeps, VanishKeeps
       DEF Bind
  <2>4. CASE UNCHANGED vars
    <3>1. UNCHANGED <<bus, binding, lists, binds, enabled, queued, lock, task, calls, history>>
      BY <2>4 DEF vars, history
    <3> QED BY <3>1 DEF bus, binding, lists, binds, history, IInv, TypeOK, Shape, Shaped, Locks, Binding,
            BoundOnAllCounts, Progress, Waits, Deletion, Turned, Released, At, Dev, Misses, NeverForgotten, InHand,
            PendingMissesDriver
  <2> QED BY <2>1, <2>2, <2>3, <2>4 DEF Next
<1> QED BY <1>1, <1>2, PTL DEF Spec

\* No device whose probe was deferred is dropped between the pending list, the active list
\* and the threads that probe it, however the work item, registrations, sysfs and
\* deletions are interleaved; but for a retry that comes before bus_add_driver has put
\* the driver on the bus's list.
THEOREM DeferredNeverForgotten == Spec => []NeverForgotten
BY DeferredInductive, PTL DEF IInv

\* driver_deferred_probe_trigger leaves no device pending whose drivers were all there,
\* unless the trigger ran between the probe and driver_deferred_probe_add.
THEOREM DeferredMissesDriver == Spec => []PendingMissesDriver
BY DeferredInductive, PTL DEF IInv

\* With the lock free, dev->driver, the link in sysfs and the driver's list agree, but for a
\* device that a bind or a retry found bound when it got the lock.
THEOREM DeferredBoundOnAllCounts == Spec => []BoundOnAllCounts
BY DeferredInductive, PTL DEF IInv, Binding

\* A device that device_del has deleted is on no list and has no driver, but for one that
\* was probed between bus_remove_device and kobject_del.
THEOREM DeferredDeletedLeftAlone == Spec => []DeletedLeftAlone
<1>1. IInv => DeletedLeftAlone
  BY DEF IInv, TypeOK, Deletion, Turned, DeletedLeftAlone
<1> QED BY <1>1, DeferredInductive, PTL
==============================================================================
