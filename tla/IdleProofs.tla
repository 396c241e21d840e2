----------------------------- MODULE IdleProofs -----------------------------
(***************************************************************************)
(* Theorems about Idle, for every matrix and every choice of the timeouts. *)
(***************************************************************************)
EXTENDS Idle, SysWorkQProofs

\* The timeouts of enter_idle_work are bounded by MaxDelay.
LEMMA MaxDelayBounds ==
    /\ MaxDelay \in Nat
    /\ BootTicks <= MaxDelay /\ IdleTicks <= MaxDelay /\ DisconnTicks <= MaxDelay
  <1> DEFINE S == {BootTicks, IdleTicks, DisconnTicks}
  <1>1. \E x \in S : \A y \in S : x >= y
    <2>1. /\ BootTicks \in Nat /\ IdleTicks \in Nat /\ DisconnTicks \in Nat
      BY IdleAssumption
    <2>2. CASE BootTicks >= IdleTicks /\ BootTicks >= DisconnTicks
      BY <2>1, <2>2
    <2>3. CASE IdleTicks >= BootTicks /\ IdleTicks >= DisconnTicks
      BY <2>1, <2>3
    <2>4. CASE DisconnTicks >= BootTicks /\ DisconnTicks >= IdleTicks
      BY <2>1, <2>4
    <2> QED
      BY <2>1, <2>2, <2>3, <2>4
  <1>2. MaxDelay \in S /\ \A y \in S : MaxDelay >= y
    BY <1>1 DEF MaxDelay, Max
  <1> QED
    BY <1>2, IdleAssumption

-----------------------------------------------------------------------------
(* The inductive invariant *)

\* No call ever asks for the level IDLE_NONE, so that enter_idle always
\* stops the loop.
NextLevelStops == next_idle_level # IDLE_NONE

\* TypeOK without the queue and the environment, which few steps disturb.
TypeIdle ==
    /\ main_timer \in BOOLEAN
    /\ current_idle_level \in Levels
    /\ next_idle_level \in Levels
    /\ enter_idle_delay \in 0 .. MaxDelay

TypeScan ==
    /\ rows_driven \in SUBSET Rows
    /\ cols_irq \in SUBSET Cols
    /\ late_scan \in BOOLEAN

TypeMain ==
    /\ matrix_prev \in SUBSET Keys
    /\ work_pc \in {"idle", "check"}
    /\ key_down \in BOOLEAN

TypeRest ==
    /\ boot \in {"enable", "done", "reset"}
    /\ held \in SUBSET Keys
    /\ ble_active \in BOOLEAN

\* The parts make up the type invariant.
LEMMA TypeParts ==
    TypeOK <=> queue \in Seq(IdleWorks) /\ TypeIdle /\ TypeScan /\ TypeMain /\ TypeRest
  BY DEF TypeOK, TypeIdle, TypeScan, TypeMain, TypeRest

IInv == TypeOK /\ NextLevelStops /\ LoopRunsWhenAwake /\ DrivenRowsAreWatched

\* The initial states satisfy the invariant.
LEMMA InitInv == Init => IInv
  <1> SUFFICES ASSUME Init PROVE IInv
    OBVIOUS
  <1> USE DEF Init, IdleInit
  <1>1. queue \in Seq(IdleWorks)
    OBVIOUS
  <1>2. TypeIdle
    <2>1. main_timer \in BOOLEAN
      OBVIOUS
    <2>2. current_idle_level \in Levels /\ next_idle_level \in Levels
      BY DEF Levels
    <2>3. enter_idle_delay \in 0 .. MaxDelay
      BY IdleAssumption, MaxDelayBounds
    <2> QED
      BY <2>1, <2>2, <2>3 DEF TypeIdle
  <1>3. TypeScan /\ TypeMain /\ TypeRest
    BY DEF TypeScan, TypeMain, TypeRest
  <1>4. NextLevelStops /\ LoopRunsWhenAwake /\ DrivenRowsAreWatched
    BY DEF NextLevelStops, LoopRunsWhenAwake, DrivenRowsAreWatched, IDLE_DISCONN, IDLE_NONE
  <1> QED
    BY <1>1, <1>2, <1>3, <1>4, TypeParts DEF IInv

-----------------------------------------------------------------------------
(* The scan *)

\* What a scan finds are keys, and keys that a row drive or the armed matrix
\* can raise.
LEMMA ScanFindsKeys ==
    ASSUME NEW seen, NEW irq, ScanFound(seen, irq)
    PROVE  seen \subseteq Reads /\ seen \subseteq Keys
  BY DEF ScanFound, Reads

\* While no interrupt is pending no held key is in a driven row, since every
\* column is watched then: a scan sees only what is held.
LEMMA ReadsHeld ==
    ASSUME TypeOK, DrivenRowsAreWatched, ~IrqPending
    PROVE  Reads \subseteq held
  <1> SUFFICES ASSUME NEW k \in Reads PROVE k \in held
    OBVIOUS
  <1>1. PICK l \in held : l[2] = k[2] /\ (l[1] = k[1] \/ l[1] \in rows_driven)
    BY DEF Reads
  <1>2. k \in Rows \X Cols /\ l \in Rows \X Cols
    BY DEF TypeOK, Keys, Reads
  <1>3. l[1] \notin rows_driven
    <2> SUFFICES ASSUME l[1] \in rows_driven PROVE FALSE
      OBVIOUS
    <2>1. l[2] \in cols_irq
      BY <1>2 DEF DrivenRowsAreWatched
    <2> QED
      BY <2>1 DEF IrqPending, Raising
  <1> QED
    BY <1>1, <1>2, <1>3

\* At most one key is added to matrix_prev, one that the scan found.
LEMMA ProcessedAdds ==
    ASSUME NEW seen
    PROVE  Processed(seen) \ matrix_prev \subseteq seen
  BY DEF Processed

-----------------------------------------------------------------------------
(* The steps *)

\* The parts of the invariant that a step leaves alone.
LEMMA Kept ==
    ASSUME IInv
    PROVE  /\ UNCHANGED <<idleVars, boot>> =>
                 TypeIdle' /\ NextLevelStops' /\ LoopRunsWhenAwake'
           /\ UNCHANGED scanVars => TypeScan' /\ DrivenRowsAreWatched'
           /\ UNCHANGED mainVars => TypeMain'
           /\ UNCHANGED <<boot, held, ble_active>> => TypeRest'
  <1> USE DEF IInv, TypeOK
  <1>1. ASSUME UNCHANGED <<idleVars, boot>>
        PROVE  TypeIdle' /\ NextLevelStops' /\ LoopRunsWhenAwake'
    BY <1>1 DEF idleVars, TypeIdle, NextLevelStops, LoopRunsWhenAwake
  <1>2. ASSUME UNCHANGED scanVars PROVE TypeScan' /\ DrivenRowsAreWatched'
    BY <1>2 DEF scanVars, TypeScan, DrivenRowsAreWatched
  <1>3. ASSUME UNCHANGED mainVars PROVE TypeMain'
    BY <1>3 DEF mainVars, TypeMain
  <1>4. ASSUME UNCHANGED <<boot, held, ble_active>> PROVE TypeRest'
    BY <1>4 DEF TypeRest
  <1> QED
    BY <1>1, <1>2, <1>3, <1>4

\* The parts of the invariant give the invariant in the next state.
LEMMA Together ==
    ASSUME queue' \in Seq(IdleWorks), TypeIdle', TypeScan', TypeMain', TypeRest',
           NextLevelStops', LoopRunsWhenAwake', DrivenRowsAreWatched'
    PROVE  IInv'
  BY DEF IInv, TypeOK, TypeIdle, TypeScan, TypeMain, TypeRest

\* The handler of the interrupt leaves the matrix undriven.
LEMMA ReleaseKeeps ==
    ASSUME ReleaseMatrix, late_scan' \in BOOLEAN
    PROVE  TypeScan' /\ DrivenRowsAreWatched'
  BY DEF ReleaseMatrix, TypeScan, DrivenRowsAreWatched

\* Arming leaves the rows driven only with every column watched.
LEMMA ArmKeeps ==
    ASSUME NEW struck, ArmMatrix(struck), late_scan' \in BOOLEAN
    PROVE  TypeScan' /\ DrivenRowsAreWatched'
  <1>1. ASSUME NEW row, rows_driven' = ArmRows(row), cols_irq' = ArmCols(-1)
        PROVE  TypeScan' /\ DrivenRowsAreWatched'
    <2>1. ArmCols(-1) = Cols /\ ArmRows(row) \subseteq Rows
      BY DEF ArmCols, ArmRows, Cols
    <2> QED
      BY <1>1, <2>1 DEF TypeScan, DrivenRowsAreWatched
  <1>2. CASE rows_driven' = {} /\ \E last \in Cols : cols_irq' = ArmCols(last)
    BY <1>2 DEF TypeScan, DrivenRowsAreWatched, ArmCols
  <1> QED
    BY <1>1, <1>2 DEF ArmMatrix

\* The queue of a running work keeps its type, interrupted or not.
LEMMA InterruptedType ==
    ASSUME IInv, NEW w, Take(w), NEW irq \in BOOLEAN
    PROVE  Interrupted(irq) \in Seq(IdleWorks)
  <1>1. Tail(queue) \in Seq(IdleWorks)
    BY RunsType DEF IInv, TypeOK, Take
  <1>2. "idle_leave" \in IdleWorks
    BY DEF IdleWorks
  <1> QED
    BY <1>1, <1>2, SubmitType DEF Interrupted

\* quazi_main_task keeps the invariant.
LEMMA MainTaskInv ==
    ASSUME IInv, NEW irq \in BOOLEAN, MainTask(irq, Interrupted(irq)), UNCHANGED ble_active
    PROVE  IInv'
  <1> USE DEF MainTask
  <1>1. PICK seen \in SUBSET Keys :
          /\ ScanFound(seen, irq)
          /\ matrix_prev' = Processed(seen)
          /\ key_down' = (seen # {})
          /\ IF irq THEN ReleaseMatrix ELSE rows_driven' = {} /\ UNCHANGED cols_irq
    OBVIOUS
  <1>2. queue' \in Seq(IdleWorks)
    BY InterruptedType
  <1>3. TypeScan' /\ DrivenRowsAreWatched'
    <2>1. late_scan' \in BOOLEAN
      OBVIOUS
    <2>2. CASE irq
      BY <1>1, <2>1, <2>2, ReleaseKeeps
    <2>3. CASE ~irq
      BY <1>1, <2>1, <2>3 DEF TypeScan, DrivenRowsAreWatched, IInv, TypeOK
    <2> QED
      BY <2>2, <2>3
  <1>4. TypeMain'
    <2>1. matrix_prev' \in SUBSET Keys
      BY <1>1, ProcessedAdds DEF IInv, TypeOK, Processed
    <2>2. key_down' \in BOOLEAN
      BY <1>1
    <2> QED
      BY <2>1, <2>2 DEF TypeMain
  <1>5. TypeIdle' /\ NextLevelStops' /\ LoopRunsWhenAwake' /\ TypeRest'
    BY Kept
  <1> QED
    BY <1>2, <1>3, <1>4, <1>5, Together

\* quazi_idle_check keeps the invariant.
LEMMA IdleCheckInv ==
    ASSUME IInv, IdleCheck, UNCHANGED ble_active
    PROVE  IInv'
  <1>1. queue' \in Seq(IdleWorks)
    <2>1. "leave_idle" \in IdleWorks /\ "enter_idle" \in IdleWorks
      BY DEF IdleWorks
    <2> QED
      BY <2>1, SubmitType DEF IdleCheck, IInv, TypeOK
  <1>2. TypeIdle' /\ NextLevelStops' /\ LoopRunsWhenAwake'
    <2>1. next_idle_level' \in Levels /\ NextLevelStops'
      BY DEF IdleCheck, IInv, TypeOK, NextLevelStops, Levels, IDLE_NONE, IDLE_MATRIX,
             IDLE_DISCONN
    <2>2. enter_idle_delay' \in 0 .. MaxDelay
      BY IdleAssumption, MaxDelayBounds DEF IdleCheck, IInv, TypeOK
    <2>3. UNCHANGED <<main_timer, current_idle_level, boot>>
      BY DEF IdleCheck
    <2> QED
      BY <2>1, <2>2, <2>3 DEF IInv, TypeOK, TypeIdle, LoopRunsWhenAwake
  <1>3. TypeMain'
    BY DEF IdleCheck, IInv, TypeOK, TypeMain
  <1>4. TypeScan' /\ DrivenRowsAreWatched' /\ TypeRest'
    BY Kept DEF IdleCheck
  <1> QED
    BY <1>1, <1>2, <1>3, <1>4, Together

\* enter_idle keeps the invariant.
LEMMA EnterIdleInv ==
    ASSUME IInv, NEW struck \in BOOLEAN, EnterIdle(struck, Interrupted(struck)),
           UNCHANGED ble_active
    PROVE  IInv'
  <1> DEFINE level == next_idle_level
  <1>1. StopsLoop(level) /\ level \in {IDLE_MATRIX, IDLE_DISCONN}
    BY DEF IInv, TypeOK, NextLevelStops, StopsLoop, Levels, IDLE_NONE, IDLE_MATRIX,
           IDLE_DISCONN
  <1>2. ArmMatrix(struck) /\ late_scan' = FALSE
    BY <1>1 DEF EnterIdle
  <1>3. queue' \in Seq(IdleWorks)
    BY InterruptedType DEF EnterIdle
  <1>4. TypeScan' /\ DrivenRowsAreWatched'
    BY <1>2, ArmKeeps
  <1>5. /\ current_idle_level' = level
        /\ main_timer' = FALSE
        /\ next_idle_level' \in {level, IDLE_DISCONN}
        /\ enter_idle_delay' \in {enter_idle_delay, DisconnTicks}
    BY <1>1 DEF EnterIdle
  <1>6. TypeIdle'
    <2>1. current_idle_level' \in Levels /\ next_idle_level' \in Levels
      BY <1>1, <1>5 DEF Levels
    <2>2. enter_idle_delay' \in 0 .. MaxDelay
      BY <1>5, IdleAssumption, MaxDelayBounds DEF IInv, TypeOK
    <2>3. main_timer' \in BOOLEAN
      BY <1>5
    <2> QED
      BY <2>1, <2>2, <2>3 DEF TypeIdle
  <1>7. NextLevelStops' /\ LoopRunsWhenAwake'
    BY <1>1, <1>5 DEF NextLevelStops, LoopRunsWhenAwake, IDLE_NONE, IDLE_MATRIX, IDLE_DISCONN
  <1>8. TypeMain' /\ TypeRest'
    BY Kept DEF EnterIdle
  <1> QED
    BY <1>3, <1>4, <1>6, <1>7, <1>8, Together

\* leave_idle keeps the invariant.
LEMMA LeaveIdleInv ==
    ASSUME IInv, LeaveIdle(Tail(queue)), UNCHANGED ble_active
    PROVE  IInv'
  <1>1. queue' \in Seq(IdleWorks)
    <2>1. queue' = Tail(queue)
      BY DEF LeaveIdle
    <2> QED
      BY <2>1, RunsType DEF LeaveIdle, Take, IInv, TypeOK
  <1>2. /\ main_timer' \in BOOLEAN
        /\ boot' # "reset" => main_timer' = TRUE
    <2>1. CASE current_idle_level = IDLE_NONE
      <3>1. boot' = boot /\ RestartsLoop \in BOOLEAN
        BY DEF LeaveIdle, RestartsLoop
      <3> QED
        BY <2>1, <3>1 DEF LeaveIdle, IInv, TypeOK, LoopRunsWhenAwake
    <2>2. CASE current_idle_level # IDLE_NONE
      <3>1. RestartsLoop
        BY <2>2 DEF IInv, TypeOK, RestartsLoop, Levels, IDLE_NONE, IDLE_MATRIX, IDLE_DISCONN
      <3> QED
        BY <3>1 DEF LeaveIdle
    <2> QED
      BY <2>1, <2>2
  <1>3. TypeIdle' /\ NextLevelStops' /\ LoopRunsWhenAwake'
    <2>1. current_idle_level' = IDLE_NONE /\ UNCHANGED <<next_idle_level, enter_idle_delay>>
      BY DEF LeaveIdle
    <2>2. IDLE_NONE \in Levels
      BY DEF Levels
    <2> QED
      BY <1>2, <2>1, <2>2 DEF IInv, TypeOK, TypeIdle, NextLevelStops, LoopRunsWhenAwake
  <1>4. TypeScan' /\ DrivenRowsAreWatched' /\ TypeMain' /\ TypeRest'
    BY Kept DEF LeaveIdle
  <1> QED
    BY <1>1, <1>3, <1>4, Together

\* idle_leave keeps the invariant.
LEMMA IdleLeaveInv ==
    ASSUME IInv, IdleLeave, UNCHANGED ble_active
    PROVE  IInv'
  <1>1. queue' \in Seq(IdleWorks)
    <2>1. Tail(queue) \in Seq(IdleWorks) /\ "leave_idle" \in IdleWorks
      BY RunsType DEF IdleLeave, Take, IInv, TypeOK, IdleWorks
    <2> QED
      BY <2>1, SubmitType DEF IdleLeave
  <1> QED
    BY <1>1, Kept, Together DEF IdleLeave

\* The end of quazi_main keeps the invariant.
LEMMA BootInv ==
    ASSUME IInv, BootDone, UNCHANGED ble_active
    PROVE  IInv'
  <1>1. TypeIdle' /\ NextLevelStops' /\ LoopRunsWhenAwake'
    <2>1. main_timer' \in BOOLEAN /\ (boot' # "reset" => main_timer')
      BY DEF BootDone
    <2>2. enter_idle_delay' \in 0 .. MaxDelay
      BY MaxDelayBounds DEF BootDone, IInv, TypeOK
    <2>3. UNCHANGED <<current_idle_level, next_idle_level>>
      BY DEF BootDone
    <2> QED
      BY <2>1, <2>2, <2>3 DEF IInv, TypeOK, TypeIdle, NextLevelStops, LoopRunsWhenAwake
  <1>2. TypeRest'
    BY DEF BootDone, IInv, TypeOK, TypeRest
  <1>3. queue' \in Seq(IdleWorks)
    BY DEF BootDone, IInv, TypeOK
  <1>4. TypeScan' /\ DrivenRowsAreWatched' /\ TypeMain'
    BY Kept DEF BootDone
  <1> QED
    BY <1>1, <1>2, <1>3, <1>4, Together

\* gpio_callback keeps the invariant.
LEMMA IrqInv ==
    ASSUME IInv, GpioIrq, UNCHANGED ble_active
    PROVE  IInv'
  <1>1. queue' \in Seq(IdleWorks)
    <2>1. "idle_leave" \in IdleWorks
      BY DEF IdleWorks
    <2> QED
      BY <2>1, SubmitType DEF GpioIrq, IInv, TypeOK
  <1>2. TypeScan' /\ DrivenRowsAreWatched'
    BY ReleaseKeeps DEF GpioIrq, IInv, TypeOK
  <1> QED
    BY <1>1, <1>2, Kept, Together DEF GpioIrq

\* A tick keeps the invariant.
LEMMA TickInv ==
    ASSUME IInv, Tick, UNCHANGED ble_active
    PROVE  IInv'
  <1>1. queue' \in Seq(IdleWorks)
    <2> DEFINE main(q) == IF main_timer /\ booted THEN Submit(q, "main") ELSE q
               enter(q) == Submit(q, "enter_idle")
    <2>1. ASSUME NEW q \in Seq(IdleWorks)
          PROVE  main(q) \in Seq(IdleWorks) /\ enter(q) \in Seq(IdleWorks)
      <3>1. "main" \in IdleWorks /\ "enter_idle" \in IdleWorks
        BY DEF IdleWorks
      <3> QED
        BY <3>1, SubmitType
    <2>2. queue' \in {main(queue), enter(queue), enter(main(queue)), main(enter(queue))}
      BY DEF Tick
    <2>3. queue \in Seq(IdleWorks)
      BY DEF IInv, TypeOK
    <2> HIDE DEF main, enter
    <2>4. main(queue) \in Seq(IdleWorks) /\ enter(queue) \in Seq(IdleWorks)
      BY <2>1, <2>3
    <2>5. enter(main(queue)) \in Seq(IdleWorks) /\ main(enter(queue)) \in Seq(IdleWorks)
      BY <2>1, <2>4
    <2> QED
      BY <2>2, <2>4, <2>5
  <1>2. TypeIdle' /\ NextLevelStops' /\ LoopRunsWhenAwake'
    <2>1. enter_idle_delay' \in 0 .. MaxDelay
      BY MaxDelayBounds DEF Tick, IInv, TypeOK
    <2>2. UNCHANGED <<main_timer, current_idle_level, next_idle_level, boot>>
      BY DEF Tick
    <2> QED
      BY <2>1, <2>2 DEF IInv, TypeOK, TypeIdle, NextLevelStops, LoopRunsWhenAwake
  <1>3. TypeScan' /\ DrivenRowsAreWatched' /\ TypeMain' /\ TypeRest'
    BY Kept DEF Tick
  <1> QED
    BY <1>1, <1>2, <1>3, Together

\* A key press or release keeps the invariant.
LEMMA KeyInv ==
    ASSUME IInv, NEW k \in Keys, PressKey(k) \/ ReleaseKey(k), UNCHANGED ble_active
    PROVE  IInv'
  <1>1. TypeRest'
    BY DEF PressKey, ReleaseKey, IInv, TypeOK, TypeRest
  <1>2. queue' \in Seq(IdleWorks)
    BY DEF PressKey, ReleaseKey, IInv, TypeOK
  <1> QED
    BY <1>1, <1>2, Kept, Together DEF PressKey, ReleaseKey

\* The callbacks of ble.c: quazi_idle_enter(IDLE_DISCONN).
LEMMA BleInv ==
    ASSUME IInv, BleChange \/ BleGone
    PROVE  IInv'
  <1>1. CASE BleChange
    <2>1. TypeRest' /\ queue' \in Seq(IdleWorks)
      BY <1>1 DEF BleChange, IInv, TypeOK, TypeRest
    <2> QED
      BY <1>1, <2>1, Kept, Together DEF BleChange
  <1>2. CASE BleGone
    <2>1. queue' \in Seq(IdleWorks)
      <3>1. "enter_idle" \in IdleWorks
        BY DEF IdleWorks
      <3> QED
        BY <1>2, <3>1, SubmitType DEF BleGone, IdleEnterQueue, IInv, TypeOK
    <2>2. TypeIdle' /\ NextLevelStops' /\ LoopRunsWhenAwake'
      <3>1. next_idle_level' \in {next_idle_level, IDLE_DISCONN}
        BY <1>2 DEF BleGone, IdleEnterSets
      <3>2. enter_idle_delay' \in 0 .. MaxDelay
        BY <1>2, MaxDelayBounds DEF BleGone, IdleEnterSets, IInv, TypeOK
      <3>3. UNCHANGED <<main_timer, current_idle_level, boot>>
        BY <1>2 DEF BleGone, IdleEnterSets
      <3>4. next_idle_level' \in Levels /\ NextLevelStops'
        BY <3>1 DEF IInv, TypeOK, NextLevelStops, Levels, IDLE_NONE, IDLE_MATRIX, IDLE_DISCONN
      <3> QED
        BY <3>2, <3>3, <3>4 DEF IInv, TypeOK, TypeIdle, LoopRunsWhenAwake
    <2>3. TypeMain' /\ TypeRest'
      BY <1>2 DEF BleGone, IdleEnterSets, IInv, TypeOK, TypeMain, TypeRest
    <2>4. TypeScan' /\ DrivenRowsAreWatched'
      BY <1>2, Kept DEF BleGone, IdleEnterSets
    <2> QED
      BY <2>1, <2>2, <2>3, <2>4, Together
  <1> QED
    BY <1>1, <1>2

\* Every step keeps the invariant.
LEMMA StepInv ==
    ASSUME IInv, [Next]_vars
    PROVE  IInv'
  <1>1. CASE WorkStep
    BY <1>1, MainTaskInv, IdleCheckInv, EnterIdleInv, LeaveIdleInv, IdleLeaveInv
       DEF WorkStep, WorkThread
  <1>2. CASE BootStep
    BY <1>2, BootInv DEF BootStep
  <1>3. CASE IrqStep
    BY <1>3, IrqInv DEF IrqStep
  <1>4. CASE TickStep
    BY <1>4, TickInv DEF TickStep
  <1>5. CASE KeyStep
    BY <1>5, KeyInv DEF KeyStep
  <1>6. CASE BleChange \/ BleGone
    BY <1>6, BleInv
  <1>7. CASE UNCHANGED vars
    BY <1>7, Kept, Together DEF vars, IInv, TypeOK
  <1> QED
    BY <1>1, <1>2, <1>3, <1>4, <1>5, <1>6, <1>7 DEF Next

-----------------------------------------------------------------------------
(* The theorems *)

\* In every reachable state the inductive invariant holds: the type
\* invariant, LoopRunsWhenAwake and DrivenRowsAreWatched, and that no
\* enter_idle ever asks for the level IDLE_NONE.
THEOREM Invariance == Spec => []IInv
  BY InitInv, StepInv, PTL DEF Spec

\* The variables of the power states keep their types: no delay grows
\* past the longest timeout, no work but those of idle.c, main.c and
\* matrix_scan.c is queued.
THEOREM TypeCorrect == Spec => []TypeOK
  <1>1. IInv => TypeOK
    BY DEF IInv
  <1> QED
    BY <1>1, Invariance, PTL

\* At level IDLE_NONE the main loop runs, for every matrix and every
\* timeout, and with works delayed as long as one likes.
THEOREM AwakeScans == Spec => []LoopRunsWhenAwake
  <1>1. IInv => LoopRunsWhenAwake
    BY DEF IInv
  <1> QED
    BY <1>1, Invariance, PTL

\* The rows are driven only while every column's interrupt is enabled,
\* although the interrupt may strike in the middle of the loop that arms
\* the columns (matrix_scan.c:114).
THEOREM DrivenIsWatched == Spec => []DrivenRowsAreWatched
  <1>1. IInv => DrivenRowsAreWatched
    BY DEF IInv
  <1> QED
    BY <1>1, Invariance, PTL

\* A scan reports the press of a key only while the key is held, even
\* when it starts with all rows driven or is cut short by the interrupt.
THEOREM NoPhantomPress == Spec => NoPhantomKey
  <1>1. ASSUME IInv, [Next]_vars
        PROVE  [matrix_prev' \ matrix_prev \subseteq held]_vars
    <2>1. CASE \E irq \in BOOLEAN : MainTask(irq, Interrupted(irq))
      <3>1. PICK irq \in BOOLEAN, seen \in SUBSET Keys :
              ScanFound(seen, irq) /\ matrix_prev' = Processed(seen)
        BY <2>1 DEF MainTask
      <3>2. seen \subseteq held
        <4>1. seen \subseteq Reads
          BY <3>1, ScanFindsKeys
        <4>2. ~IrqPending
          BY <2>1 DEF MainTask, Take
        <4> QED
          BY <1>1, <4>1, <4>2, ReadsHeld DEF IInv
      <3> QED
        BY <3>1, <3>2, ProcessedAdds
    <2>2. CASE UNCHANGED matrix_prev
      BY <2>2
    <2>3. (\E irq \in BOOLEAN : MainTask(irq, Interrupted(irq))) \/ UNCHANGED matrix_prev
      <3>1. CASE WorkStep
        BY <3>1 DEF WorkStep, WorkThread, IdleCheck, EnterIdle, LeaveIdle, IdleLeave, mainVars
      <3>2. CASE BootStep \/ IrqStep \/ TickStep
        BY <3>2 DEF BootStep, BootDone, IrqStep, GpioIrq, TickStep, Tick, mainVars
      <3>3. CASE KeyStep
        <4>1. PICK k \in Keys : PressKey(k) \/ ReleaseKey(k)
          BY <3>3 DEF KeyStep
        <4> QED
          BY <4>1 DEF PressKey, ReleaseKey, mainVars
      <3>4. CASE BleChange \/ BleGone
        BY <3>4 DEF BleChange, BleGone, IdleEnterSets, mainVars
      <3>5. CASE UNCHANGED vars
        BY <3>5 DEF vars, mainVars
      <3> QED
        BY <1>1, <3>1, <3>2, <3>3, <3>4, <3>5 DEF Next
    <2> QED
      BY <2>1, <2>2, <2>3
  <1> QED
    BY <1>1, Invariance, PTL DEF Spec, NoPhantomKey
-----------------------------------------------------------------------------
(* The matrix of a stopped loop is armed *)

\* A stopped loop is armed, or a scan left over from before it was stopped
\* has disarmed it, or the interrupt has struck and the wake-up is on its way
\* through idle_leave and leave_idle.
Armed == rows_driven = Rows /\ cols_irq = Cols

Waking == Contains(queue, "idle_leave") \/ Contains(queue, "leave_idle")

ArmedOrWaking == boot = "done" /\ ~main_timer => Armed \/ late_scan \/ Waking

PInv == IInv /\ ArmedOrWaking

\* A work that is taken out of the queue leaves the others in it, and so
\* does the interrupt, which adds idle_leave.
LEMMA InterruptedWaking ==
    ASSUME IInv, NEW w, Take(w), NEW irq \in BOOLEAN
    PROVE  /\ irq => Contains(Interrupted(irq), "idle_leave")
           /\ \A v : v # w /\ Contains(queue, v) => Contains(Interrupted(irq), v)
  <1>1. /\ queue \in Seq(IdleWorks) /\ Tail(queue) \in Seq(IdleWorks)
        /\ Runs(queue, w)
    BY RunsType DEF IInv, TypeOK, Take
  <1>2. \A v : v # w /\ Contains(queue, v) => Contains(Tail(queue), v)
    BY <1>1, TailContains
  <1>3. CASE irq
    <2>1. "idle_leave" \in IdleWorks
      BY DEF IdleWorks
    <2> DEFINE q == Tail(queue)
    <2>2. Interrupted(irq) = Submit(q, "idle_leave")
      BY <1>3 DEF Interrupted
    <2>3. q \in Seq(IdleWorks) /\ \A v : v # w /\ Contains(queue, v) => Contains(q, v)
      BY <1>1, <1>2
    <2> HIDE DEF q
    <2>4. /\ Contains(Submit(q, "idle_leave"), "idle_leave")
          /\ \A v : Contains(q, v) => Contains(Submit(q, "idle_leave"), v)
      BY <2>1, <2>3, SubmitContains
    <2> QED
      BY <2>2, <2>3, <2>4
  <1>4. CASE ~irq
    BY <1>2, <1>4 DEF Interrupted
  <1> QED
    BY <1>3, <1>4

\* A scan with the loop stopped is a late one, unless it is cut short.
LEMMA MainTaskArmed ==
    ASSUME IInv, NEW irq \in BOOLEAN, MainTask(irq, Interrupted(irq))
    PROVE  ArmedOrWaking'
  <1>1. queue' = Interrupted(irq) /\ Take("main")
    BY DEF MainTask
  <1>2. UNCHANGED main_timer /\ late_scan' = (~main_timer /\ ~irq)
    BY DEF MainTask, idleVars
  <1>3. irq => Contains(queue', "idle_leave")
    BY <1>1, InterruptedWaking
  <1> QED
    BY <1>2, <1>3 DEF ArmedOrWaking, Waking

\* enter_idle arms the matrix, whatever was left of an earlier arming,
\* unless the interrupt strikes, in the loop over the rows or in the one
\* over the columns.
LEMMA EnterIdleArmed ==
    ASSUME IInv, NEW struck \in BOOLEAN, EnterIdle(struck, Interrupted(struck))
    PROVE  ArmedOrWaking'
  <1>1. StopsLoop(next_idle_level)
    BY DEF IInv, TypeOK, NextLevelStops, StopsLoop, Levels, IDLE_NONE, IDLE_MATRIX,
           IDLE_DISCONN
  <1>2. ArmMatrix(struck) /\ queue' = Interrupted(struck) /\ Take("enter_idle")
    BY <1>1 DEF EnterIdle
  <1>3. CASE struck
    <2>1. Contains(queue', "idle_leave")
      BY <1>2, <1>3, InterruptedWaking
    <2> QED
      BY <2>1 DEF ArmedOrWaking, Waking
  <1>4. CASE ~struck
    <2>1. rows_driven' = ArmRows(-1) /\ cols_irq' = ArmCols(-1)
      BY <1>2, <1>4 DEF ArmMatrix
    <2>2. ArmRows(-1) = Rows /\ ArmCols(-1) = Cols
      BY DEF ArmRows, ArmCols, Rows, Cols
    <2>3. Armed'
      BY <2>1, <2>2 DEF Armed, Rows, Cols
    <2> QED
      BY <2>3 DEF ArmedOrWaking
  <1> QED
    BY <1>3, <1>4

\* leave_idle starts the timer, at the level IDLE_NONE or above it.
LEMMA LeaveIdleArmed ==
    ASSUME IInv, LeaveIdle(Tail(queue))
    PROVE  ArmedOrWaking'
  <1>1. boot' = boot /\ main_timer' = (main_timer \/ RestartsLoop)
    BY DEF LeaveIdle
  <1>2. CASE current_idle_level = IDLE_NONE
    BY <1>1, <1>2 DEF IInv, TypeOK, LoopRunsWhenAwake, ArmedOrWaking
  <1>3. CASE current_idle_level # IDLE_NONE
    <2>1. RestartsLoop
      BY <1>3 DEF IInv, TypeOK, RestartsLoop, Levels, IDLE_NONE, IDLE_MATRIX, IDLE_DISCONN
    <2> QED
      BY <1>1, <2>1 DEF ArmedOrWaking
  <1> QED
    BY <1>2, <1>3

\* idle_leave passes the wake-up on.
LEMMA IdleLeaveArmed ==
    ASSUME IInv, IdleLeave
    PROVE  ArmedOrWaking'
  <1>1. queue' = Submit(Tail(queue), "leave_idle") /\ Take("idle_leave")
    BY DEF IdleLeave
  <1>2. Tail(queue) \in Seq(IdleWorks) /\ "leave_idle" \in IdleWorks
    BY <1>1, RunsType DEF Take, IInv, TypeOK, IdleWorks
  <1>3. Contains(queue', "leave_idle")
    BY <1>1, <1>2, SubmitContains
  <1> QED
    BY <1>3 DEF ArmedOrWaking, Waking

\* gpio_callback turns the rows off, but its work is submitted.
LEMMA IrqArmed ==
    ASSUME IInv, GpioIrq
    PROVE  ArmedOrWaking'
  <1>1. queue' = Submit(queue, "idle_leave")
    BY DEF GpioIrq
  <1>2. queue \in Seq(IdleWorks) /\ "idle_leave" \in IdleWorks
    BY DEF IInv, TypeOK, IdleWorks
  <1>3. Contains(queue', "idle_leave")
    BY <1>1, <1>2, SubmitContains
  <1> QED
    BY <1>3 DEF ArmedOrWaking, Waking

\* The end of quazi_main starts the timer, or initialises it while it runs.
LEMMA BootArmed ==
    ASSUME BootDone
    PROVE  ArmedOrWaking'
  BY DEF BootDone, ArmedOrWaking

\* A step that leaves the timer and the matrix alone and only submits works
\* takes nothing away from a wake-up on its way.
LEMMA AloneArmed ==
    ASSUME PInv, UNCHANGED <<main_timer, boot, scanVars>>,
           \A v : Contains(queue, v) => Contains(queue', v)
    PROVE  ArmedOrWaking'
  <1>1. Armed => Armed'
    BY DEF scanVars, Armed, Rows, Cols
  <1>2. Waking => Waking'
    BY DEF Waking
  <1> QED
    BY <1>1, <1>2 DEF PInv, ArmedOrWaking, scanVars

\* quazi_idle_check submits one work at most.
LEMMA IdleCheckArmed ==
    ASSUME PInv, IdleCheck
    PROVE  ArmedOrWaking'
  <1>1. queue' \in {queue, Submit(queue, "leave_idle"), Submit(queue, "enter_idle")}
    BY DEF IdleCheck
  <1>2. queue \in Seq(IdleWorks) /\ {"leave_idle", "enter_idle"} \subseteq IdleWorks
    BY DEF PInv, IInv, TypeOK, IdleWorks
  <1>3. \A v : Contains(queue, v) => Contains(queue', v)
    BY <1>1, <1>2, SubmitContains
  <1>4. UNCHANGED <<main_timer, boot, scanVars>>
    BY DEF IdleCheck
  <1> QED
    BY <1>3, <1>4, AloneArmed

\* However full the queue is, the timers only add to it.
LEMMA TickArmed ==
    ASSUME PInv, Tick
    PROVE  ArmedOrWaking'
  <1> DEFINE main(q) == IF main_timer /\ booted THEN Submit(q, "main") ELSE q
             enter(q) == Submit(q, "enter_idle")
  <1>1. queue' \in {main(queue), enter(queue), enter(main(queue)), main(enter(queue))}
    BY DEF Tick
  <1>2. ASSUME NEW q \in Seq(IdleWorks)
        PROVE  /\ main(q) \in Seq(IdleWorks) /\ enter(q) \in Seq(IdleWorks)
               /\ \A v : Contains(q, v) => Contains(main(q), v) /\ Contains(enter(q), v)
    <2>1. "main" \in IdleWorks /\ "enter_idle" \in IdleWorks
      BY DEF IdleWorks
    <2> QED
      BY <2>1, SubmitType, SubmitContains
  <1>3. queue \in Seq(IdleWorks)
    BY DEF PInv, IInv, TypeOK
  <1> HIDE DEF main, enter
  <1>4. main(queue) \in Seq(IdleWorks) /\ enter(queue) \in Seq(IdleWorks)
    BY <1>2, <1>3
  <1>5. \A v : Contains(queue, v) =>
           /\ Contains(main(queue), v) /\ Contains(enter(main(queue)), v)
           /\ Contains(enter(queue), v) /\ Contains(main(enter(queue)), v)
    BY <1>2, <1>3, <1>4
  <1>6. \A v : Contains(queue, v) => Contains(queue', v)
    BY <1>1, <1>5
  <1>7. UNCHANGED <<main_timer, boot, scanVars>>
    BY DEF Tick
  <1> QED
    BY <1>6, <1>7, AloneArmed

\* Fingers and hosts leave the timer and the matrix alone.
LEMMA OutsideArmed ==
    ASSUME PInv, KeyStep \/ BleChange \/ BleGone \/ UNCHANGED vars
    PROVE  ArmedOrWaking'
  <1>1. /\ queue' \in {queue, Submit(queue, "enter_idle")}
        /\ UNCHANGED <<main_timer, boot, scanVars>>
    <2>1. CASE KeyStep
      <3>1. PICK k \in Keys : PressKey(k) \/ ReleaseKey(k)
        BY <2>1 DEF KeyStep
      <3> QED
        BY <3>1 DEF PressKey, ReleaseKey, idleVars
    <2>2. CASE BleChange
      BY <2>2 DEF BleChange, idleVars
    <2>3. CASE BleGone
      BY <2>3 DEF BleGone, IdleEnterSets, IdleEnterQueue
    <2>4. CASE UNCHANGED vars
      BY <2>4 DEF vars, idleVars
    <2> QED
      BY <2>1, <2>2, <2>3, <2>4
  <1>2. queue \in Seq(IdleWorks) /\ "enter_idle" \in IdleWorks
    BY DEF PInv, IInv, TypeOK, IdleWorks
  <1>3. \A v : Contains(queue, v) => Contains(queue', v)
    BY <1>1, <1>2, SubmitContains
  <1> QED
    BY <1>1, <1>3, AloneArmed

\* Every step keeps the invariant.
LEMMA StepArmed ==
    ASSUME PInv, [Next]_vars
    PROVE  PInv'
  <1>1. IInv'
    BY StepInv DEF PInv
  <1>2. ArmedOrWaking'
    <2> USE DEF PInv
    <2>1. CASE WorkStep
      BY <2>1, MainTaskArmed, IdleCheckArmed, EnterIdleArmed, LeaveIdleArmed,
         IdleLeaveArmed DEF WorkStep, WorkThread
    <2>2. CASE BootStep
      BY <2>2, BootArmed DEF BootStep
    <2>3. CASE IrqStep
      BY <2>3, IrqArmed DEF IrqStep
    <2>4. CASE TickStep
      BY <2>4, TickArmed DEF TickStep
    <2>5. CASE KeyStep \/ BleChange \/ BleGone \/ UNCHANGED vars
      BY <2>5, OutsideArmed
    <2> QED
      BY <2>1, <2>2, <2>3, <2>4, <2>5 DEF Next
  <1> QED
    BY <1>1, <1>2 DEF PInv

\* When the main loop is stopped and no work is left, every row is driven
\* and every column watched, so that the next key press wakes the keyboard,
\* unless a scan left over from before the loop was stopped has turned the
\* rows off: no other order of timeouts, callbacks and interrupts, not even
\* one in the middle of arming, leaves the keyboard deaf, with works delayed
\* as long as one likes.
THEOREM StoppedListens == Spec => []StoppedIsArmed
  <1>1. Init => PInv
    <2>1. Init => ArmedOrWaking
      BY DEF Init, IdleInit, ArmedOrWaking
    <2> QED
      BY <2>1, InitInv DEF PInv
  <1>2. PInv /\ [Next]_vars => PInv'
    BY StepArmed
  <1>3. PInv => StoppedIsArmed
    <2>1. queue = <<>> => ~Waking
      BY DEF Contains, Waking
    <2> QED
      BY <2>1 DEF PInv, ArmedOrWaking, Armed, StoppedIsArmed, Quiescent
  <1> QED
    BY <1>1, <1>2, <1>3, PTL DEF Spec
=============================================================================
