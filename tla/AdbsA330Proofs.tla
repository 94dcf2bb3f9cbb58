--------------------------- MODULE AdbsA330Proofs ---------------------------
(***************************************************************************)
(* Proofs about AdbsA330, for every set of movements and every bound: type *)
(* correctness, conservation of motion, the completeness of the drain loop *)
(* and the refinement of MotionDelivery.                                   *)
(***************************************************************************)
EXTENDS AdbsA330, TLAPS

\* Before the interrupt is requested nothing of the driver runs, and motion
\* the sensor then holds is on record as unarmed.
Unbound ==
    ~bound =>
        /\ ~edge /\ ~pending /\ pc = "idle"
        /\ accumulatedPosition = 0 /\ lastPositionSent = 0
        /\ reg # Zero => missed # {}

\* A handler that is not running holds no motion.
IdleSum == pc = "idle" => delta = Zero

\* Motion in the sensor has somebody who will read it: a latched edge, a
\* queued work item, a handler at the top of its loop, or one between its two
\* reads that will see a non-zero byte and go round again.
Watched ==
    bound /\ reg # Zero /\ missed = {} =>
        \/ edge
        \/ pending
        \/ pc = "readX"
        \/ pc = "readY" /\ (val_x # 0 \/ reg.y # 0)

IInv == TypeOK /\ Unbound /\ IdleSum /\ Watched

\* The handler's sign extension undoes the chip's two's complement byte.
LEMMA SignExtendToByte ==
    ASSUME NEW r \in Int8
    PROVE  SignExtend(ToByte(r)) = r
BY DEF Int8, SignExtend, ToByte

\* Every field access the invariants make on pairs of registers.
LEMMA PlusType ==
    ASSUME NEW u \in [x : Int, y : Int], NEW v \in [x : Int, y : Int]
    PROVE  /\ Plus(u, v) \in [x : Int, y : Int]
           /\ Plus(u, v).x = u.x + v.x
           /\ Plus(u, v).y = u.y + v.y
BY DEF Plus

\* Type correctness: whatever the interleaving of interrupt, work item, timer
\* and sysfs writes of adbs-a330.c, the driver's variables keep their types
\* and the registers stay within eight bits.
THEOREM TypeCorrect == Spec => []TypeOK
<1>1. Init => TypeOK
  <2> SUFFICES ASSUME Init PROVE TypeOK
    OBVIOUS
  <2>1. /\ edge \in BOOLEAN /\ bound \in BOOLEAN /\ pending \in BOOLEAN
        /\ missed \subseteq {"unarmed", "masked", "fault"}
    BY Zenon DEF Init
  <2> QED BY BoundsAssumption, <2>1 DEF Init, TypeOK, Zero, Int8, Directions, Modes,
     ADBS_A330_DIRECTION_NEG, ADBS_A330_DIRECTION_POS, ADBS_A330_DELTA_X, ADBS_A330_DELTA_Y
<1>2. TypeOK /\ [Next]_vars => TypeOK'
  <2> SUFFICES ASSUME TypeOK, [Next]_vars PROVE TypeOK'
    OBVIOUS
  <2> USE BoundsAssumption
  <2>a. /\ reg \in [x : Int, y : Int]
        /\ reg.x \in Int8 /\ reg.y \in Int8
    BY DEF TypeOK, Int8
  <2>b. /\ SignExtend(ToByte(reg.x)) = reg.x
        /\ SignExtend(ToByte(reg.y)) = reg.y
    BY <2>a, SignExtendToByte
  <2>1. CASE probe
    BY <2>1 DEF probe, TypeOK, sensor, handler, settings
  <2>2. ASSUME NEW d \in Deltas, Move(d) PROVE TypeOK'
    <3>1. d \in [x : Int, y : Int]
      BY DeltasAssumption
    <3>2. reg' \in [x : Int8, y : Int8]
      BY <2>2, <2>a, <3>1, PlusType DEF Move, Plus, Int8
    <3>3. moved' \in [x : Int, y : Int]
      BY <2>2, <3>1, PlusType DEF Move, TypeOK
    <3>4. edge' \in BOOLEAN /\ moves' \in 0..MaxMoves /\ missed' \subseteq {"unarmed", "masked", "fault"}
      BY <2>2 DEF Move, TypeOK
    <3> QED BY <2>2, <3>2, <3>3, <3>4 DEF Move, TypeOK, handler, position, settings
  <2>3. CASE adbs_a330_irq
    <3>1. edge' \in BOOLEAN /\ pending' \in BOOLEAN
      BY <2>3, Zenon DEF adbs_a330_irq
    <3>2. wakeups' \in Nat
      BY <2>3 DEF adbs_a330_irq, TypeOK
    <3> QED BY <2>3, <3>1, <3>2 DEF adbs_a330_irq, TypeOK, handler, position, settings
  <2>4. CASE WorkStart
    <3>1. pending' \in BOOLEAN
      BY <2>4, Zenon DEF WorkStart
    <3> QED BY <2>4, <3>1 DEF WorkStart, TypeOK, Zero, sensor, position, settings
  <2>5. CASE ReadDeltaX
    <3>1. delta' \in [x : Int, y : Int] /\ reg' \in [x : Int8, y : Int8] /\ val_x' \in Int8
      BY <2>5, <2>a, <2>b DEF ReadDeltaX, TypeOK, Int8
    <3> QED BY <2>5, <3>1 DEF ReadDeltaX, TypeOK, position, settings
  <2>6. CASE ReadDeltaY
    <3>1. delta' \in [x : Int, y : Int] /\ reg' \in [x : Int8, y : Int8]
      BY <2>6, <2>a, <2>b DEF ReadDeltaY, TypeOK, Int8
    <3> QED BY <2>6, <3>1 DEF ReadDeltaY, TypeOK, position, settings
  <2>7. CASE ReadFails
    <3>1. reg' \in [x : Int8, y : Int8]
      BY <2>7, <2>a DEF ReadFails, TypeOK, Int8
    <3> QED BY <2>7, <3>1 DEF ReadFails, TypeOK, Zero, position, settings
  <2>8. CASE Accumulate
    <3>1. delta[Axis(mode)] \in Int
      BY DEF Axis, TypeOK
    <3> QED BY <2>8, <3>1 DEF Accumulate, TypeOK, Zero, sensor, settings
  <2>9. CASE adbs_a330_timer
    BY <2>9 DEF adbs_a330_timer, TypeOK, Signed, sensor, handler, settings
  <2>10. ASSUME NEW new \in Directions, adbs_a330_set_direction(new) PROVE TypeOK'
    BY <2>10 DEF adbs_a330_set_direction, TypeOK, sensor, handler, position
  <2>11. ASSUME NEW new \in Modes, adbs_a330_set_mode(new) PROVE TypeOK'
    BY <2>11 DEF adbs_a330_set_mode, TypeOK, sensor, handler, position
  <2>12. CASE UNCHANGED vars
    BY <2>12 DEF vars, TypeOK, sensor, handler, position, settings
  <2> QED BY <2>1, <2>2, <2>3, <2>4, <2>5, <2>6, <2>7, <2>8, <2>9, <2>10, <2>11, <2>12 DEF Next
<1> QED BY <1>1, <1>2, PTL DEF Spec

-----------------------------------------------------------------------------

\* The inductive invariant behind StrandedOnlyWhenMissed.
THEOREM Inductive == Spec => []IInv
<1>1. Init => Unbound /\ IdleSum /\ Watched
  BY DEF Init, Unbound, IdleSum, Watched
<1>2. TypeOK /\ TypeOK' /\ Unbound /\ IdleSum /\ Watched /\ [Next]_vars
        => Unbound' /\ IdleSum' /\ Watched'
  <2> SUFFICES ASSUME TypeOK, TypeOK', Unbound, IdleSum, Watched, [Next]_vars
               PROVE  Unbound' /\ IdleSum' /\ Watched'
    OBVIOUS
  <2>b. /\ SignExtend(ToByte(reg.x)) = reg.x
        /\ SignExtend(ToByte(reg.y)) = reg.y
    BY SignExtendToByte DEF TypeOK
  <2>1. CASE probe
    BY <2>1 DEF probe, Unbound, IdleSum, Watched, sensor, handler, settings
  <2>2. ASSUME NEW d \in Deltas, Move(d) PROVE Unbound' /\ IdleSum' /\ Watched'
    <3>1. Unbound'
      BY <2>2 DEF Move, Unbound, handler, position
    <3>2. IdleSum'
      BY <2>2 DEF Move, IdleSum, handler
    <3>3. Watched'
      <4> SUFFICES ASSUME bound', reg' # Zero, missed' = {}
                   PROVE  \/ edge'
                          \/ pending'
                          \/ pc' = "readX"
                          \/ pc' = "readY" /\ (val_x' # 0 \/ reg'.y # 0)
        BY DEF Watched
      <4>1. bound /\ missed = {} /\ UNCHANGED <<bound, pending, pc, val_x>>
        BY <2>2 DEF Move, handler
      <4>a. edge => edge'
        BY <2>2, Zenon DEF Move
      <4>2. CASE reg = Zero
        BY <2>2, <4>1, <4>2 DEF Move
      <4>3. CASE reg # Zero /\ ~(pc = "readY" /\ val_x = 0)
        BY <4>1, <4>a, <4>3 DEF Watched
      <4>4. CASE reg # Zero /\ pc = "readY" /\ val_x = 0
        <5>1. CASE edge \/ pending
          BY <4>1, <4>a, <5>1
        <5>2. CASE ~edge /\ ~pending
          <6>1. reg.y # 0
            BY <4>1, <4>4, <5>2 DEF Watched
          <6>2. ~(reg'.y = 0 /\ reg'.x # 0)
            BY <2>2, <4>4, <6>1 DEF Move
          <6>3. reg' = [x |-> reg'.x, y |-> reg'.y]
            BY DEF TypeOK
          <6>4. reg'.y # 0
            BY <6>2, <6>3 DEF Zero
          <6> QED BY <4>1, <4>4, <6>4
        <5> QED BY <5>1, <5>2
      <4> QED BY <4>2, <4>3, <4>4
    <3> QED BY <3>1, <3>2, <3>3
  <2>3. CASE adbs_a330_irq
    BY <2>3 DEF adbs_a330_irq, Unbound, IdleSum, Watched, handler, position, settings
  <2>4. CASE WorkStart
    BY <2>4 DEF WorkStart, Unbound, IdleSum, Watched, sensor, position, settings
  <2>5. CASE ReadDeltaX
    <3>1. bound
      BY <2>5 DEF ReadDeltaX, Unbound
    <3>2. reg' # Zero => reg' # Zero /\ reg # Zero
      BY <2>5 DEF ReadDeltaX, TypeOK, Zero
    <3>3. Watched'
      <4>1. reg.x # 0 \/ reg.y # 0 \/ reg = Zero
        BY DEF TypeOK, Zero
      <4>2. val_x' = reg.x /\ reg'.y = reg.y /\ pc' = "readY"
        BY <2>5, <2>b DEF ReadDeltaX, TypeOK
      <4> QED BY <3>2, <4>1, <4>2 DEF Watched
    <3> QED BY <2>5, <3>1, <3>3 DEF ReadDeltaX, Unbound, IdleSum
  <2>6. CASE ReadDeltaY
    <3>1. bound
      BY <2>6 DEF ReadDeltaY, Unbound
    <3>2. reg' # Zero => reg # Zero
      BY <2>6 DEF ReadDeltaY, TypeOK, Zero
    <3>3. Watched'
      BY <2>6, <2>b, <3>2 DEF ReadDeltaY, Watched
    <3> QED BY <2>6, <3>1, <3>3 DEF ReadDeltaY, Unbound, IdleSum
  <2>7. CASE ReadFails
    <3>1. bound
      BY <2>7 DEF ReadFails, Unbound
    <3>2. missed' # {} /\ delta' = Zero
      BY <2>7 DEF ReadFails
    <3> QED BY <2>7, <3>1, <3>2 DEF ReadFails, Unbound, IdleSum, Watched
  <2>8. CASE Accumulate
    BY <2>8 DEF Accumulate, Unbound, IdleSum, Watched, sensor, settings
  <2>9. CASE adbs_a330_timer
    BY <2>9 DEF adbs_a330_timer, Unbound, IdleSum, Watched, sensor, handler, settings
  <2>10. ASSUME NEW new \in Directions, adbs_a330_set_direction(new)
         PROVE  Unbound' /\ IdleSum' /\ Watched'
    BY <2>10 DEF adbs_a330_set_direction, Unbound, IdleSum, Watched, sensor, handler, position
  <2>11. ASSUME NEW new \in Modes, adbs_a330_set_mode(new)
         PROVE  Unbound' /\ IdleSum' /\ Watched'
    BY <2>11 DEF adbs_a330_set_mode, Unbound, IdleSum, Watched, sensor, handler, position
  <2>12. CASE UNCHANGED vars
    BY <2>12 DEF vars, Unbound, IdleSum, Watched, sensor, handler, position
  <2> QED BY <2>1, <2>2, <2>3, <2>4, <2>5, <2>6, <2>7, <2>8, <2>9, <2>10, <2>11, <2>12 DEF Next
<1> QED BY <1>1, <1>2, TypeCorrect, PTL DEF Spec, IInv

\* The drain loop of adbs_a330_i2c_work_handler is complete: for every set of
\* movements it leaves motion behind only after one of the recorded causes.
THEOREM DrainComplete == Spec => []StrandedOnlyWhenMissed
<1>1. IInv => StrandedOnlyWhenMissed
  BY DEF IInv, Watched, StrandedOnlyWhenMissed, Stranded
<1> QED BY <1>1, Inductive, PTL

\* Nothing in the driver polls the sensor: a stranded ring stays stranded
\* until the ring itself turns the registers back to zero.
THEOREM StrandedIsStable == Spec => StrandedStays
<1>1. [Next]_vars => [Stranded /\ reg' # Zero => Stranded']_vars
  <2> SUFFICES ASSUME [Next]_vars, Stranded, reg' # Zero PROVE Stranded'
    BY DEF Stranded
  <2> USE DEF Stranded
  <2>1. CASE probe
    BY <2>1 DEF probe
  <2>2. ASSUME NEW d \in Deltas, Move(d) PROVE Stranded'
    <3>1. ~edge'
      BY <2>2, Zenon DEF Move
    <3> QED BY <2>2, <3>1 DEF Move, handler
  <2>3. CASE adbs_a330_irq \/ WorkStart \/ ReadDeltaX \/ ReadDeltaY \/ ReadFails
    BY <2>3 DEF adbs_a330_irq, WorkStart, ReadDeltaX, ReadDeltaY, ReadFails
  <2>4. CASE Accumulate
    BY <2>4 DEF Accumulate, sensor
  <2>5. CASE adbs_a330_timer
    BY <2>5 DEF adbs_a330_timer, sensor, handler
  <2>6. ASSUME NEW new \in Directions, adbs_a330_set_direction(new) PROVE Stranded'
    BY <2>6 DEF adbs_a330_set_direction, sensor, handler
  <2>7. ASSUME NEW new \in Modes, adbs_a330_set_mode(new) PROVE Stranded'
    BY <2>7 DEF adbs_a330_set_mode, sensor, handler
  <2>8. CASE UNCHANGED vars
    BY <2>8 DEF vars, sensor, handler
  <2> QED BY <2>1, <2>2, <2>3, <2>4, <2>5, <2>6, <2>7, <2>8 DEF Next
<1> QED BY <1>1, PTL DEF Spec, StrandedStays

-----------------------------------------------------------------------------

\* Conservation needs the type invariant and the empty sum of an idle handler.
\* While no read failed and no attribute was written, the motion of the ring on
\* the selected axis is in the sensor, in the handler, accumulated or delivered.
THEOREM Conservation == Spec => []MotionConserved
<1>1. Init => MotionConserved
  BY DEF Init, MotionConserved, Zero, Axis, Signed
<1>2. IInv /\ IInv' /\ MotionConserved /\ [Next]_vars => MotionConserved'
  <2> SUFFICES ASSUME IInv, IInv', MotionConserved, [Next]_vars, faults' = 0, writes' = 0
               PROVE  MotionConserved'
    BY DEF MotionConserved
  <2> USE DEF MotionConserved
  <2>a. TypeOK /\ TypeOK'
    BY DEF IInv
  <2>b. /\ SignExtend(ToByte(reg.x)) = reg.x
        /\ SignExtend(ToByte(reg.y)) = reg.y
    BY <2>a, SignExtendToByte DEF TypeOK
  <2>c. Axis(mode) \in {"x", "y"}
    BY DEF Axis
  <2>1. CASE probe
    BY <2>1 DEF probe, IInv, Unbound, sensor, handler, settings
  <2>2. ASSUME NEW d \in Deltas, Move(d) PROVE MotionConserved'
    <3>1. d \in [x : Int, y : Int]
      BY DeltasAssumption
    <3>2. /\ reg'.x = reg.x + d.x /\ reg'.y = reg.y + d.y
          /\ moved'.x = moved.x + d.x /\ moved'.y = moved.y + d.y
      BY <2>2, <2>a, <3>1 DEF Move, Plus, TypeOK
    <3>3. UNCHANGED <<delta, accumulatedPosition, lastPositionSent, delivered, direction, mode, faults, writes>>
      BY <2>2 DEF Move, handler, position, settings
    <3>4. /\ reg.x \in Int /\ reg.y \in Int /\ moved.x \in Int /\ moved.y \in Int
          /\ delta.x \in Int /\ delta.y \in Int /\ d.x \in Int /\ d.y \in Int
          /\ accumulatedPosition \in Int /\ lastPositionSent \in Int /\ delivered \in Int
      BY <2>a, <3>1 DEF TypeOK, Int8
    <3>5. CASE Axis(mode) = "x"
      BY <3>2, <3>3, <3>4, <3>5 DEF Axis, Signed
    <3>6. CASE Axis(mode) = "y"
      BY <3>2, <3>3, <3>4, <3>6 DEF Axis, Signed
    <3> QED BY <2>c, <3>5, <3>6
  <2>3. CASE adbs_a330_irq
    BY <2>3 DEF adbs_a330_irq, handler, position, settings
  <2>4. CASE WorkStart
    <3>1. UNCHANGED delta
      BY <2>4 DEF WorkStart, IInv, IdleSum
    <3> QED BY <2>4, <3>1 DEF WorkStart, sensor, position, settings
  <2>5. CASE ReadDeltaX
    <3>1. /\ delta'.x = delta.x + reg.x /\ delta'.y = delta.y
          /\ reg'.x = 0 /\ reg'.y = reg.y
      BY <2>5, <2>a, <2>b DEF ReadDeltaX, TypeOK
    <3>2. UNCHANGED <<moved, accumulatedPosition, lastPositionSent, delivered, direction, mode, faults, writes>>
      BY <2>5 DEF ReadDeltaX, position, settings
    <3> QED BY <2>a, <2>c, <3>1, <3>2 DEF TypeOK, Int8, Axis, Signed
  <2>6. CASE ReadDeltaY
    <3>1. /\ delta'.y = delta.y + reg.y /\ delta'.x = delta.x
          /\ reg'.y = 0 /\ reg'.x = reg.x
      BY <2>6, <2>a, <2>b DEF ReadDeltaY, TypeOK
    <3>2. UNCHANGED <<moved, accumulatedPosition, lastPositionSent, delivered, direction, mode, faults, writes>>
      BY <2>6 DEF ReadDeltaY, position, settings
    <3> QED BY <2>a, <2>c, <3>1, <3>2 DEF TypeOK, Int8, Axis, Signed
  <2>7. CASE ReadFails
    BY <2>7, <2>a DEF ReadFails, TypeOK
  <2>8. CASE Accumulate
    <3>1. delta'.x = 0 /\ delta'.y = 0 /\ accumulatedPosition' = accumulatedPosition + delta[Axis(mode)]
      BY <2>8 DEF Accumulate, Zero
    <3>2. UNCHANGED <<reg, moved, lastPositionSent, delivered, direction, mode, faults, writes>>
      BY <2>8 DEF Accumulate, sensor, settings
    <3> QED BY <2>a, <2>c, <3>1, <3>2 DEF TypeOK, Int8, Axis, Signed
  <2>9. CASE adbs_a330_timer
    <3>1. /\ delivered' = delivered + Signed(accumulatedPosition - lastPositionSent, direction)
          /\ lastPositionSent' = accumulatedPosition
          /\ UNCHANGED <<reg, moved, delta, accumulatedPosition, direction, mode, faults, writes>>
      BY <2>9 DEF adbs_a330_timer, sensor, handler, settings
    <3> QED BY <2>a, <2>c, <3>1 DEF TypeOK, Int8, Axis, Signed
  <2>10. ASSUME NEW new \in Directions, adbs_a330_set_direction(new) PROVE MotionConserved'
    BY <2>10, <2>a DEF adbs_a330_set_direction, TypeOK
  <2>11. ASSUME NEW new \in Modes, adbs_a330_set_mode(new) PROVE MotionConserved'
    BY <2>11, <2>a DEF adbs_a330_set_mode, TypeOK
  <2>12. CASE UNCHANGED vars
    BY <2>12 DEF vars, sensor, handler, position, settings
  <2> QED BY <2>1, <2>2, <2>3, <2>4, <2>5, <2>6, <2>7, <2>8, <2>9, <2>10, <2>11, <2>12 DEF Next
<1> QED BY <1>1, <1>2, Inductive, PTL DEF Spec

-----------------------------------------------------------------------------

\* The driver implements MotionDelivery.  Reads move motion from the register
\* to the handler's sum and are stutters of the promise; the end of the handler
\* is its Collect, the timer its Report, a failed read its Lose.
THEOREM Refinement == Spec => DeliverySpec
<1>1. Init => Delivery!Init
  BY DEF Init, Delivery!Init, Delivery!Zero, Zero, Plus, Axis
<1>2. IInv /\ IInv' /\ [Next]_vars => [Delivery!Next]_(Delivery!vars)
  <2> SUFFICES ASSUME IInv, IInv', [Next]_vars
               PROVE  Delivery!Next \/ UNCHANGED Delivery!vars
    OBVIOUS
  <2>a. TypeOK /\ TypeOK'
    BY DEF IInv
  <2>b. /\ SignExtend(ToByte(reg.x)) = reg.x
        /\ SignExtend(ToByte(reg.y)) = reg.y
    BY <2>a, SignExtendToByte DEF TypeOK
  <2>c. Axis(mode) \in {"x", "y"}
    BY DEF Axis
  <2>d. /\ reg.x \in Int /\ reg.y \in Int /\ reg'.x \in Int /\ reg'.y \in Int
        /\ delta.x \in Int /\ delta.y \in Int /\ delta'.x \in Int /\ delta'.y \in Int
        /\ moved.x \in Int /\ moved.y \in Int
        /\ accumulatedPosition \in Int /\ lastPositionSent \in Int
    BY <2>a DEF TypeOK, Int8
  <2>1. CASE probe
    BY <2>1 DEF probe, IInv, Unbound, sensor, handler, settings, Delivery!vars
  <2>2. ASSUME NEW d \in Deltas, Move(d) PROVE Delivery!Move
    <3>1. d \in [x : Int, y : Int]
      BY DeltasAssumption
    <3>2. /\ reg'.x = reg.x + d.x /\ reg'.y = reg.y + d.y
          /\ moved'.x = moved.x + d.x /\ moved'.y = moved.y + d.y
      BY <2>2, <2>a, <3>1 DEF Move, Plus, TypeOK
    <3>3. UNCHANGED <<delta, accumulatedPosition, lastPositionSent, mode, faults>>
      BY <2>2 DEF Move, handler, position, settings
    <3> QED BY <2>d, <3>1, <3>2, <3>3 DEF Plus, Delivery!Move
  <2>3. CASE adbs_a330_irq
    BY <2>3 DEF adbs_a330_irq, handler, position, settings, Delivery!vars
  <2>4. CASE WorkStart
    <3>1. UNCHANGED delta
      BY <2>4 DEF WorkStart, IInv, IdleSum
    <3> QED BY <2>4, <3>1 DEF WorkStart, sensor, position, settings, Delivery!vars
  <2>5. CASE ReadDeltaX
    <3>1. /\ delta'.x = delta.x + reg.x /\ delta'.y = delta.y
          /\ reg'.x = 0 /\ reg'.y = reg.y
      BY <2>5, <2>a, <2>b DEF ReadDeltaX, TypeOK
    <3>2. Plus(reg, delta)' = Plus(reg, delta)
      BY <2>d, <3>1 DEF Plus
    <3> QED BY <2>5, <3>2 DEF ReadDeltaX, position, settings, Delivery!vars
  <2>6. CASE ReadDeltaY
    <3>1. /\ delta'.y = delta.y + reg.y /\ delta'.x = delta.x
          /\ reg'.y = 0 /\ reg'.x = reg.x
      BY <2>6, <2>a, <2>b DEF ReadDeltaY, TypeOK
    <3>2. Plus(reg, delta)' = Plus(reg, delta)
      BY <2>d, <3>1 DEF Plus
    <3> QED BY <2>6, <3>2 DEF ReadDeltaY, position, settings, Delivery!vars
  <2>7. CASE ReadFails
    BY <2>7 DEF ReadFails, position, settings, Delivery!Next, Delivery!Lose
  <2>8. CASE Accumulate
    <3>1. delta'.x = 0 /\ delta'.y = 0 /\ accumulatedPosition' = accumulatedPosition + delta[Axis(mode)]
      BY <2>8 DEF Accumulate, Zero
    <3>2. UNCHANGED <<reg, moved, lastPositionSent, mode, faults>>
      BY <2>8 DEF Accumulate, sensor, settings
    <3>3. Delivery!Collect
      BY <2>c, <2>d, <3>1, <3>2 DEF Plus, Delivery!Collect
    <3> QED BY <3>3 DEF Delivery!Next
  <2>9. CASE adbs_a330_timer
    <3>1. /\ lastPositionSent' = accumulatedPosition
          /\ UNCHANGED <<reg, moved, delta, accumulatedPosition, mode, faults>>
      BY <2>9 DEF adbs_a330_timer, sensor, handler, settings
    <3>2. Delivery!Report
      BY <2>d, <3>1 DEF Delivery!Report
    <3> QED BY <3>2 DEF Delivery!Next
  <2>10. ASSUME NEW new \in Directions, adbs_a330_set_direction(new) PROVE UNCHANGED Delivery!vars
    BY <2>10 DEF adbs_a330_set_direction, sensor, handler, position, Delivery!vars
  <2>11. ASSUME NEW new \in Modes, adbs_a330_set_mode(new) PROVE Delivery!Select
    BY <2>11 DEF adbs_a330_set_mode, sensor, handler, position, Axis, Delivery!Select
  <2>12. CASE UNCHANGED vars
    BY <2>12 DEF vars, sensor, handler, position, settings, Delivery!vars
  <2> QED BY <2>1, <2>2, <2>3, <2>4, <2>5, <2>6, <2>7, <2>8, <2>9, <2>10, <2>11, <2>12 DEF Next, Delivery!Next
<1> QED BY <1>1, <1>2, Inductive, PTL DEF Spec, DeliverySpec, Delivery!Spec
=============================================================================
