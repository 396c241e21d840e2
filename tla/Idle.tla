-------------------------------- MODULE Idle --------------------------------
(***************************************************************************)
(* The power states of the keyboard: idle.c, the main loop of main.c, the  *)
(* matrix driver matrix_scan.c with matrix.c, and the scan of              *)
(* quantum/keyboard.c that turns matrix changes into key events.           *)
(*                                                                         *)
(* Who runs: the system work queue (main_work, enter_idle_work,            *)
(* leave_idle_work, idle_leave_work), the timer interrupt (Tick), the GPIO *)
(* interrupt (GpioIrq), the boot thread (BootDone), the fingers (PressKey, *)
(* ReleaseKey) and the Bluetooth callbacks (BleChange, BleGone), which     *)
(* this module leaves open.                                                *)
(*                                                                         *)
(* A key is its position <<row, column>>.  A column reads 1 while a held   *)
(* key connects it to a row that is driven.                                *)
(***************************************************************************)
EXTENDS Integers, SysWorkQ

CONSTANTS
    MATRIX_ROWS,    \* rows of the matrix
    MATRIX_COLS,    \* columns of the matrix
    BootTicks,      \* 100 ms, K_MSEC(100) of quazi_idle_init, in main periods
    IdleTicks,      \* 1 s, K_SECONDS(1) of quazi_idle_check
    DisconnTicks,   \* 5 min, K_MINUTES(5) of enter_idle
    PromptQueue     \* TRUE: the work queue is empty again before a timer expires

ASSUME IdleAssumption ==
    /\ MATRIX_ROWS \in Nat \ {0}
    /\ MATRIX_COLS \in Nat \ {0}
    /\ BootTicks \in Nat \ {0}
    /\ IdleTicks \in Nat \ {0}
    /\ DisconnTicks \in Nat \ {0}
    /\ PromptQueue \in BOOLEAN

VARIABLES
    queue,               \* the system work queue
    main_timer,          \* main_timer is running
    boot,                \* "enable": the boot thread is still in bt_enable;
                         \* "done": quazi_main has returned, or "reset": it
                         \* has, and its k_timer_init met a running timer
    current_idle_level,
    next_idle_level,
    enter_idle_delay,    \* ticks left of enter_idle_work's timeout, 0: none
    rows_driven,         \* the rows whose pin is high (interrupt mode)
    cols_irq,            \* the columns whose level interrupt is enabled
    held,                \* the keys pressed down (environment)
    late_scan,           \* history: since the matrix was armed a scan has
                         \* turned the rows off, with the main loop stopped
    matrix_prev,         \* the keys whose press has been processed
    work_pc,             \* "check": quazi_main_task has returned from qmk_task
    key_down,            \* quazi_matrix_scan_key_down
    ble_active           \* quazi_ble_is_active()

idleVars == <<main_timer, current_idle_level, next_idle_level, enter_idle_delay>>
scanVars == <<rows_driven, cols_irq, late_scan>>
mainVars == <<matrix_prev, work_pc, key_down>>
vars == <<queue, idleVars, scanVars, mainVars, boot, held, ble_active>>

Rows == 0 .. MATRIX_ROWS - 1
Cols == 0 .. MATRIX_COLS - 1
Keys == Rows \X Cols

(* enum idle_level; IDLE_SLEEP is never entered. *)
IDLE_NONE == 0
IDLE_MATRIX == 1
IDLE_DISCONN == 2
Levels == {IDLE_NONE, IDLE_MATRIX, IDLE_DISCONN}

IdleWorks == {"main", "enter_idle", "leave_idle", "idle_leave"}
MaxDelay == Max({BootTicks, IdleTicks, DisconnTicks})

booted == boot # "enable"

(* The held keys that raise their column's interrupt when their row is     *)
(* driven.                                                                 *)
Raising == {k \in held : k[2] \in cols_irq}

(* A level interrupt is raised; no thread runs before its handler has.     *)
IrqPending == \E k \in Raising : k[1] \in rows_driven

(* The work thread takes w: the previous handler has returned. *)
Take(w) == work_pc = "idle" /\ ~IrqPending /\ Runs(queue, w)

-----------------------------------------------------------------------------
(* The state after quazi_matrix_scan_init, quazi_idle_init and the         *)
(* k_work_init calls of quazi_ble_init; the boot thread is still in        *)
(* bt_enable.  A key may be held while the keyboard is switched on.        *)
IdleInit ==
    /\ queue = <<>>
    /\ main_timer = FALSE
    /\ boot = "enable"
    /\ current_idle_level = IDLE_DISCONN
    /\ next_idle_level = IDLE_DISCONN
    /\ enter_idle_delay = BootTicks
    /\ rows_driven = {}
    /\ cols_irq = {}
    /\ late_scan = FALSE
    /\ held \in SUBSET Keys
    /\ matrix_prev = {}
    /\ work_pc = "idle"
    /\ key_down = FALSE

Init == IdleInit /\ ble_active = FALSE

-----------------------------------------------------------------------------
(* main.c *)

(* The end of quazi_main: k_timer_init, k_work_init, and the first         *)
(* quazi_main_loop_start.  If leave_idle has already started the timer,    *)
(* k_timer_init clears it while the kernel still has it among its          *)
(* timeouts.  What the kernel does then is not in this source: it may      *)
(* lose the timer and the timeout of enter_idle_work, or go on.            *)
BootDone ==
    /\ ~booted /\ ~IrqPending
    /\ \/ /\ ~main_timer
          /\ boot' = "done"
          /\ main_timer' = TRUE
          /\ UNCHANGED enter_idle_delay
       \/ /\ main_timer
          /\ boot' = "reset"
          /\ main_timer' \in BOOLEAN
          /\ enter_idle_delay' \in {0, enter_idle_delay}
    /\ UNCHANGED <<queue, current_idle_level, next_idle_level, scanVars, mainVars, held>>

(* The keys quazi_matrix_scan_row sees: a key of the row it drives, or,    *)
(* while the rows above are still driven, of one of those.                 *)
Reads ==
    {k \in Keys : \E l \in held : /\ l[2] = k[2]
                                  /\ l[1] = k[1] \/ (l[1] \in rows_driven /\ l[1] > k[1])}

(* The outcomes of matrix_scan, which drives each row in turn and leaves   *)
(* it low.  Driving the row of a key whose column's interrupt is enabled   *)
(* raises the interrupt (irq); its handler turns the row off after some of *)
(* the columns, those below j, have been read.                             *)
ScanFound(seen, irq) ==
    \/ /\ Raising = {} /\ irq = FALSE
       /\ seen = Reads
    \/ /\ Raising # {} /\ irq = TRUE
       /\ LET row == Min({k[1] : k \in Raising})
          IN  \E j \in 0 .. MATRIX_COLS : seen = {k \in Reads : k[1] = row => k[2] < j}

(* Mutant: the rows stay driven. *)
ReleaseOnlyCols == UNCHANGED rows_driven /\ cols_irq' = {}

(* quazi_matrix_scan_leave_idle, which gpio_callback calls. *)
ReleaseMatrix == rows_driven' = {} /\ cols_irq' = {}

(* The loops of matrix_scan_task go through the matrix row by row.         *)
First(S) == CHOOSE k \in S : \A l \in S : k[1] < l[1] \/ (k[1] = l[1] /\ k[2] <= l[2])

(* matrix_scan_task: one change of the matrix is processed, the first.     *)
Processed(seen) ==
    LET change == (seen \ matrix_prev) \cup (matrix_prev \ seen)
        k == First(change)
    IN  IF change = {} THEN matrix_prev
        ELSE IF k \in seen THEN matrix_prev \cup {k} ELSE matrix_prev \ {k}

(* The queue of the running work, with what the interrupt, if it strikes   *)
(* (irq), adds to it.                                                      *)
Interrupted(irq) == IF irq THEN Submit(Tail(queue), "idle_leave") ELSE Tail(queue)

(* quazi_main_task up to the return of quazi_qmk_task.  In the actions     *)
(* that call the Bluetooth side, after is the queue that this call leaves  *)
(* behind.                                                                 *)
MainTask(irq, after) ==
    /\ Take("main")
    /\ \E seen \in SUBSET Keys :
          /\ ScanFound(seen, irq)
          /\ matrix_prev' = Processed(seen)
          /\ key_down' = (seen # {})
          /\ IF irq THEN ReleaseMatrix ELSE rows_driven' = {} /\ UNCHANGED cols_irq
    /\ late_scan' = (~main_timer /\ ~irq)
    /\ queue' = after
    /\ work_pc' = "check"
    /\ UNCHANGED <<idleVars, boot, held>>

-----------------------------------------------------------------------------
(* idle.c *)

(* quazi_idle_check, the end of quazi_main_task. *)
IdleCheck ==
    /\ work_pc = "check" /\ ~IrqPending
    /\ work_pc' = "idle"
    /\ \/ /\ key_down
          /\ queue' = IF current_idle_level # IDLE_NONE
                      THEN Submit(queue, "leave_idle") ELSE queue
          /\ next_idle_level' = IDLE_MATRIX
          /\ enter_idle_delay' = IdleTicks
       \/ /\ ~key_down /\ ~ble_active
          /\ next_idle_level' = IDLE_DISCONN
          /\ enter_idle_delay' = 0
          /\ queue' = Submit(queue, "enter_idle")
       \/ /\ ~key_down /\ ble_active
          /\ UNCHANGED <<queue, next_idle_level, enter_idle_delay>>
    /\ UNCHANGED <<main_timer, current_idle_level, scanVars, matrix_prev,
                   key_down, boot, held>>

(* Mutants of ArmCols: the loop stops one column early, or one too late. *)
ArmColsShort(from) == {c \in Cols : c > from /\ c < MATRIX_COLS - 1}
ArmColsLong(from) == {c \in 0 .. MATRIX_COLS : c > from}

(* quazi_matrix_scan_enter_idle drives the rows, then enables the          *)
(* interrupts of the columns, one by one: the rows and columns above from, *)
(* when it goes on after an interrupt whose handler has undone the others. *)
ArmRows(from) == {r \in Rows : r > from}
ArmCols(from) == {c \in Cols : c > from}

(* The interrupt may strike (struck) in both loops: as the row row is      *)
(* driven, if a column is still enabled from before (row = -1: it does     *)
(* not), and as soon as the column last of a key in a driven row is        *)
(* enabled.  The handler disables every column and turns the rows off, and *)
(* the loop goes on with the rest.                                         *)
ArmMatrix(struck) ==
    \E row \in {-1} \cup Rows :
       /\ row # -1 => \E k \in Raising : k[1] <= row
       /\ \/ /\ struck = (row # -1)
             /\ rows_driven' = ArmRows(row)
             /\ cols_irq' = ArmCols(-1)
          \/ /\ struck = TRUE
             /\ \E last \in Cols : /\ \E k \in held : k[1] \in ArmRows(row) /\ k[2] <= last
                                   /\ cols_irq' = ArmCols(last)
             /\ rows_driven' = {}

(* Mutant: the levels above IDLE_DISCONN, of which none is ever entered.   *)
BeyondDisconn(level) == level > IDLE_DISCONN

(* The levels at which the main loop is stopped and the matrix armed.      *)
StopsLoop(level) == level >= IDLE_MATRIX

(* enter_idle; after as above, for quazi_profile_enter_idle. *)
EnterIdle(struck, after) ==
    /\ Take("enter_idle")
    /\ current_idle_level' = next_idle_level
    /\ IF StopsLoop(next_idle_level)
       THEN main_timer' = FALSE /\ ArmMatrix(struck) /\ late_scan' = FALSE
       ELSE struck = FALSE /\ UNCHANGED <<main_timer, scanVars>>
    /\ queue' = IF next_idle_level >= IDLE_DISCONN THEN after ELSE Interrupted(struck)
    /\ IF next_idle_level = IDLE_MATRIX
       THEN /\ next_idle_level' = IDLE_DISCONN
            /\ enter_idle_delay' = DisconnTicks
       ELSE UNCHANGED <<next_idle_level, enter_idle_delay>>
    /\ UNCHANGED <<mainVars, boot, held>>

(* Mutant: the loop is started again only from IDLE_DISCONN. *)
RestartsBeyondMatrix == current_idle_level > IDLE_MATRIX

(* leave_idle starts the main loop if the level had stopped it. *)
RestartsLoop == current_idle_level >= IDLE_MATRIX

(* leave_idle; after as above, for quazi_profile_leave_idle. *)
LeaveIdle(after) ==
    /\ Take("leave_idle")
    /\ current_idle_level' = IDLE_NONE
    /\ main_timer' = (main_timer \/ RestartsLoop)
    /\ queue' = IF current_idle_level >= IDLE_DISCONN THEN after ELSE Tail(queue)
    /\ UNCHANGED <<next_idle_level, enter_idle_delay, scanVars, mainVars, boot,
                   held>>

(* Mutant: idle_leave does not pass the wake-up on. *)
IdleLeaveLost ==
    /\ Take("idle_leave")
    /\ queue' = Tail(queue)
    /\ UNCHANGED <<idleVars, scanVars, mainVars, boot, held>>

(* idle_leave of matrix_scan.c, which calls quazi_idle_leave. *)
IdleLeave ==
    /\ Take("idle_leave")
    /\ queue' = Submit(Tail(queue), "leave_idle")
    /\ UNCHANGED <<idleVars, scanVars, mainVars, boot, held>>

(* quazi_idle_enter: the queue after it, and what else it sets.  ble.c     *)
(* calls it with IDLE_DISCONN.                                             *)
IdleEnterQueue(level, q) ==
    IF level < current_idle_level THEN q ELSE Submit(q, "enter_idle")

IdleEnterSets(level) ==
    /\ IF level < current_idle_level
       THEN UNCHANGED <<next_idle_level, enter_idle_delay>>
       ELSE next_idle_level' = level /\ enter_idle_delay' = 0
    /\ UNCHANGED <<main_timer, current_idle_level, scanVars, matrix_prev, key_down, boot,
                   held>>

-----------------------------------------------------------------------------
(* Interrupts and time *)

(* gpio_callback *)
GpioIrq ==
    /\ IrqPending
    /\ ReleaseMatrix
    /\ queue' = Submit(queue, "idle_leave")
    /\ UNCHANGED <<idleVars, late_scan, mainVars, boot, held>>

(* One period of the main loop passes.  main_timer_handler submits         *)
(* main_work; before quazi_main has called k_timer_init the timer has no   *)
(* handler.  If the timeout of enter_idle_work ends in this period, it may *)
(* end after the main timer expires, before it (the main timer expires in  *)
(* the next period, if it still runs), or so shortly before it that both   *)
(* works wait in the queue.                                                *)
Tick ==
    /\ main_timer \/ enter_idle_delay > 0
    /\ PromptQueue => work_pc = "idle" /\ queue = <<>> /\ ~IrqPending
    /\ enter_idle_delay' = IF enter_idle_delay > 0 THEN enter_idle_delay - 1 ELSE 0
    /\ LET main(q) == IF main_timer /\ booted THEN Submit(q, "main") ELSE q
           enter(q) == Submit(q, "enter_idle")
       IN  IF enter_idle_delay = 1
           THEN \/ queue' = enter(main(queue))
                \/ queue' = enter(queue)
                \/ ~PromptQueue /\ queue' = main(enter(queue))
           ELSE queue' = main(queue)
    /\ UNCHANGED <<main_timer, current_idle_level, next_idle_level, scanVars,
                   mainVars, boot, held>>

-----------------------------------------------------------------------------
(* The environment.  Fingers are slower than the interrupt handler. *)

PressKey(k) ==
    /\ k \notin held /\ ~IrqPending
    /\ held' = held \cup {k}
    /\ UNCHANGED <<queue, idleVars, scanVars, mainVars, boot>>

ReleaseKey(k) ==
    /\ k \in held /\ ~IrqPending
    /\ held' = held \ {k}
    /\ UNCHANGED <<queue, idleVars, scanVars, mainVars, boot>>

(* A work or a callback of ble.c that does not call quazi_idle_enter:      *)
(* advertising starts or stops, a host connects, the link times out.       *)
BleChange ==
    /\ ble_active' = ~ble_active
    /\ UNCHANGED <<queue, idleVars, scanVars, mainVars, boot, held>>

(* connected with an error, or disconnected for a reason other than a      *)
(* timeout.                                                                *)
BleGone ==
    /\ ble_active' \in BOOLEAN
    /\ ~IrqPending
    /\ queue' = IdleEnterQueue(IDLE_DISCONN, queue)
    /\ IdleEnterSets(IDLE_DISCONN)
    /\ UNCHANGED work_pc

(* The Bluetooth works are not in this module's queue. *)
WorkThread ==
    \/ \E irq \in BOOLEAN :
          MainTask(irq, Interrupted(irq)) \/ EnterIdle(irq, Interrupted(irq))
    \/ IdleCheck
    \/ LeaveIdle(Tail(queue))
    \/ IdleLeave

WorkStep == WorkThread /\ UNCHANGED ble_active
BootStep == BootDone /\ UNCHANGED ble_active
IrqStep == GpioIrq /\ UNCHANGED ble_active
TickStep == Tick /\ UNCHANGED ble_active
KeyStep == (\E k \in Keys : PressKey(k) \/ ReleaseKey(k)) /\ UNCHANGED ble_active

Next == WorkStep \/ BootStep \/ IrqStep \/ TickStep \/ KeyStep \/ BleChange \/ BleGone

Spec == Init /\ [][Next]_vars

(* The work thread, the boot thread and the interrupt controller do not    *)
(* stop, and time passes.  Fingers and hosts owe nothing.                  *)
Fairness ==
    WF_vars(WorkStep) /\ WF_vars(BootStep) /\ WF_vars(IrqStep) /\ WF_vars(TickStep)

FairSpec == Spec /\ Fairness

-----------------------------------------------------------------------------
TypeOK ==
    /\ queue \in Seq(IdleWorks)
    /\ main_timer \in BOOLEAN
    /\ boot \in {"enable", "done", "reset"}
    /\ current_idle_level \in Levels
    /\ next_idle_level \in Levels
    /\ enter_idle_delay \in 0 .. MaxDelay
    /\ rows_driven \in SUBSET Rows
    /\ cols_irq \in SUBSET Cols
    /\ late_scan \in BOOLEAN
    /\ held \in SUBSET Keys
    /\ matrix_prev \in SUBSET Keys
    /\ work_pc \in {"idle", "check"}
    /\ key_down \in BOOLEAN
    /\ ble_active \in BOOLEAN

-----------------------------------------------------------------------------
(* Safety *)

(* At level IDLE_NONE the main loop runs: no order of enter_idle,          *)
(* leave_idle and the callbacks stops the timer and leaves the keyboard    *)
(* marked awake, where leave_idle would not start it again (idle.c:58),    *)
(* unless the boot has initialised the running timer (main.c:72).          *)
LoopRunsWhenAwake == current_idle_level = IDLE_NONE /\ boot # "reset" => main_timer

(* The rows are never left driven with the interrupts disabled: a scan     *)
(* would then read every held key in several rows.                         *)
DrivenRowsAreWatched == rows_driven # {} => cols_irq = Cols

(* A key event is the press of a key that is held, or the release of one   *)
(* that was pressed: the scan never reports a key that nobody touches,     *)
(* even when it starts with all rows driven for the interrupt.             *)
NoPhantomKey == [][matrix_prev' \ matrix_prev \subseteq held]_vars

(* Nothing is left to run before the next timer, key or callback. *)
Quiescent == queue = <<>> /\ work_pc = "idle" /\ boot = "done"

(* When the main loop is stopped and nothing is left to run, a key press   *)
(* raises an interrupt: the matrix is armed, completely.  Only a scan      *)
(* left over from before the loop was stopped (idle.c:34) can undo that,   *)
(* however long works are delayed and wherever interrupts strike.          *)
StoppedIsArmed ==
    Quiescent /\ ~main_timer => (rows_driven = Rows /\ cols_irq = Cols) \/ late_scan

-----------------------------------------------------------------------------
(* Liveness *)

(* The hosts leave the keyboard alone from some time on. *)
LinkSettles == <>[][~BleGone /\ ~BleChange]_vars

(* The fingers come to rest. *)
FingersSettle == <>[][held' = held]_vars

(* A key that stays pressed is scanned and its press processed, whatever   *)
(* idle level the press found and however the wake-up raced with the       *)
(* timers, if the link stays active or one key is held, and the boot has   *)
(* found the timer stopped.  (Without a link, two keys of a row can cut    *)
(* every scan short, see the README.)                                      *)
KeySeen ==
    LinkSettles /\ FingersSettle /\ <>[](ble_active \/ Cardinality(held) = 1)
        => <>[](held \subseteq matrix_prev \/ boot = "reset")

(* The idle timeout is not lost: once it runs, the loop stops, unless a    *)
(* key is pressed again, or the boot initialises the running timer.        *)
TimeoutStops ==
    LinkSettles => (enter_idle_delay > 0 ~> ~main_timer \/ held # {} \/ boot = "reset")
=============================================================================
