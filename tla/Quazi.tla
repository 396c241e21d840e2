------------------------------- MODULE Quazi --------------------------------
(***************************************************************************)
(* The firmware: the power states (Idle) and the connection manager (Ble)  *)
(* on one system work queue.  They meet where                              *)
(*   - enter_idle and leave_idle call profile.c, which submits ble.c's     *)
(*     works (idle.c:38, idle.c:63);                                       *)
(*   - the callbacks of ble.c call quazi_idle_enter (ble.c:76, ble.c:111); *)
(*   - quazi_idle_check asks quazi_ble_is_active (idle.c:96);              *)
(*   - process_bluetooth, inside quazi_main_task, selects, connects, pairs *)
(*     and clears profiles.                                                *)
(***************************************************************************)
EXTENDS Integers, SysWorkQ

CONSTANTS MATRIX_ROWS, MATRIX_COLS, BootTicks, IdleTicks, DisconnTicks, PromptQueue,
          Profiles, Peers, Conns, NULL, MaxPaired, PairingTicks,
          BtKey,        \* the keymap: the profile of a key BT_<p>, 0 for any other key
          StoredBonds,  \* the bonds loaded from flash
          ShortTaps     \* TRUE: a key may be let go before its press is processed

ASSUME QuaziAssumption ==
    /\ {MATRIX_ROWS, MATRIX_COLS, BootTicks, IdleTicks, DisconnTicks, PairingTicks}
          \subseteq Nat \ {0}
    /\ PromptQueue \in BOOLEAN /\ ShortTaps \in BOOLEAN
    /\ Profiles \subseteq Nat \ {0} /\ 1 \in Profiles
    /\ BtKey \in [(0 .. MATRIX_ROWS - 1) \X (0 .. MATRIX_COLS - 1) -> Profiles \cup {0}]
    /\ NULL \notin Conns /\ MaxPaired \in Nat
    /\ StoredBonds \subseteq Profiles \X Peers

VARIABLES queue, work_pc,
          main_timer, boot, current_idle_level, next_idle_level, enter_idle_delay,
          rows_driven, cols_irq, late_scan, held, matrix_prev, key_down,
          quazi_ble_conn, quazi_ble_link_established, connect_id, unpair_id, pair_id,
          advertising_active, stop_adv_delay, selected_profile, adv, link, refs, bonds

B == INSTANCE Ble

ble_active == B!QuaziBleIsActive
I == INSTANCE Idle

idleSide == <<main_timer, boot, current_idle_level, next_idle_level, enter_idle_delay,
              rows_driven, cols_irq, late_scan, held, matrix_prev, key_down>>
idVars == <<connect_id, unpair_id, pair_id, selected_profile>>
linkVars == <<quazi_ble_conn, quazi_ble_link_established, refs, advertising_active, adv,
              stop_adv_delay, link, bonds>>
bleSide == <<idVars, linkVars>>
vars == <<queue, work_pc, idleSide, bleSide>>

Init ==
    /\ I!IdleInit
    /\ B!Init

-----------------------------------------------------------------------------
(* The work queue *)

(* quazi_main_task with a key event that process_bluetooth lets through. *)
MainTask ==
    /\ \E irq \in BOOLEAN : I!MainTask(irq, I!Interrupted(irq))
    /\ \A k \in matrix_prev \ matrix_prev' : BtKey[k] = 0
    /\ UNCHANGED bleSide

(* quazi_main_task with the release of the key BT_<p>: process_bluetooth.  *)
(* The time since its press decides between a tap and a hold.              *)
MainTaskTap(p) ==
    /\ \E irq \in BOOLEAN : I!MainTask(irq, B!ConnectQueue(p, I!Interrupted(irq)))
    /\ \E k \in matrix_prev \ matrix_prev' : BtKey[k] = p
    /\ selected_profile' = p
    /\ B!SetConnectId(p)
    /\ UNCHANGED linkVars

MainTaskHold(p) ==
    /\ \E irq \in BOOLEAN : I!MainTask(irq, B!PairQueue(I!Interrupted(irq)))
    /\ \E k \in matrix_prev \ matrix_prev' : BtKey[k] = p
    /\ selected_profile' = p
    /\ B!SetPairId(p)
    /\ UNCHANGED linkVars

EnterIdle ==
    /\ \E struck \in BOOLEAN :
          I!EnterIdle(struck, B!DisconnectQueue(I!Interrupted(struck)))
    /\ UNCHANGED bleSide

(* Mutants of LeaveIdle: the identity to connect to is not set; the        *)
(* profile is not asked to connect.                                        *)
LeaveIdleKeepId ==
    I!LeaveIdle(B!ConnectQueue(selected_profile, Tail(queue))) /\ UNCHANGED bleSide
LeaveIdleAlone == I!LeaveIdle(Tail(queue)) /\ UNCHANGED bleSide

LeaveIdle ==
    /\ I!LeaveIdle(B!ConnectQueue(selected_profile, Tail(queue)))
    /\ IF current_idle_level >= I!IDLE_DISCONN
       THEN B!SetConnectId(selected_profile) ELSE UNCHANGED <<connect_id, unpair_id, pair_id>>
    /\ UNCHANGED <<selected_profile, linkVars>>

IdleWork == (I!IdleCheck \/ I!IdleLeave) /\ UNCHANGED bleSide

BleWork == ~I!IrqPending /\ B!WorkThread /\ UNCHANGED idleSide

WorkThread ==
    \/ MainTask
    \/ \E p \in Profiles : MainTaskTap(p) \/ MainTaskHold(p)
    \/ EnterIdle
    \/ LeaveIdle
    \/ IdleWork
    \/ BleWork

-----------------------------------------------------------------------------
(* The callbacks of the Bluetooth host *)

(* The queue after their quazi_idle_enter(IDLE_DISCONN). *)
IdleEnter(q) == I!IdleEnterQueue(I!IDLE_DISCONN, q)

(* Mutant: quazi_idle_enter submits its work and does not set the level. *)
ConnectFailedKeepLevel == B!ConnectFailed(IdleEnter(B!StopCancelled)) /\ UNCHANGED idleSide

ConnectFailed ==
    B!ConnectFailed(IdleEnter(B!StopCancelled)) /\ I!IdleEnterSets(I!IDLE_DISCONN)

Disconnected(c, timeout) ==
    /\ B!Disconnected(c, timeout, IdleEnter(queue))
    /\ IF quazi_ble_conn = c /\ ~timeout
       THEN I!IdleEnterSets(I!IDLE_DISCONN) ELSE UNCHANGED idleSide

OtherCallback ==
    /\ \E c \in Conns :
          \/ \E p \in Peers : B!Connected(c, p)
          \/ B!SecurityChanged(c)
          \/ B!SecurityFailed(c)
          \/ \E bonded \in BOOLEAN : B!PairingComplete(c, bonded)
    /\ UNCHANGED idleSide

Callback ==
    /\ ~I!IrqPending
    /\ \/ ConnectFailed
       \/ \E c \in Conns, timeout \in BOOLEAN : Disconnected(c, timeout)
       \/ OtherCallback

-----------------------------------------------------------------------------
(* Boot, interrupts, time and fingers *)

Boot == I!BootDone /\ UNCHANGED <<work_pc, bleSide>>
GpioIrq == I!GpioIrq /\ UNCHANGED bleSide
IdleTick == I!Tick /\ UNCHANGED bleSide
BleTick == B!Tick /\ UNCHANGED idleSide

PressKey(k) == I!PressKey(k) /\ UNCHANGED bleSide
ReleaseKey(k) == (ShortTaps \/ k \in matrix_prev) /\ I!ReleaseKey(k) /\ UNCHANGED bleSide

Next ==
    \/ WorkThread
    \/ Callback
    \/ Boot
    \/ GpioIrq
    \/ IdleTick
    \/ BleTick
    \/ \E k \in I!Keys : PressKey(k) \/ ReleaseKey(k)

Spec == Init /\ [][Next]_vars

(* The threads and interrupts of the device run, time passes, directed     *)
(* advertising times out after 1.28 s, and a link that is being closed is  *)
(* closed: an interrupt only delays the callbacks of these two, hence      *)
(* strong fairness.  Hosts and fingers owe nothing.                        *)
Fairness ==
    /\ WF_vars(WorkThread)
    /\ WF_vars(Boot)
    /\ WF_vars(GpioIrq)
    /\ WF_vars(IdleTick)
    /\ WF_vars(BleTick)
    /\ SF_vars(~I!IrqPending /\ ConnectFailed)
    /\ \A c \in Conns :
          SF_vars(/\ ~I!IrqPending /\ link[c].state = "closing"
                  /\ \E timeout \in BOOLEAN : Disconnected(c, timeout))

FairSpec == Spec /\ Fairness

-----------------------------------------------------------------------------
(* The works of S that wait in the queue q, in order. *)
Only(q, S) ==
    LET only[i \in 0 .. Len(q)] ==
            IF i = 0 THEN <<>>
            ELSE IF q[i] \in S THEN Append(only[i - 1], q[i]) ELSE only[i - 1]
    IN  only[Len(q)]

(* Idle, as the rest of the firmware lets it run: its works in the queue,  *)
(* in order; the work thread busy only with them; ble_active as above.     *)
Power == INSTANCE Idle WITH
    queue <- Only(queue, I!IdleWorks),
    work_pc <- IF work_pc = "check" THEN "check" ELSE "idle"

(* The firmware implements Idle: everything ble.c and profile.c do to the  *)
(* power states, in works and callbacks, is one of the steps that Idle     *)
(* leaves open to them.                                                    *)
ImplementsIdle == Power!Spec

(* ... and Ble: what idle.c and the key events ask of ble.c, in the works  *)
(* of their own, is one of the calls that Ble allows at any time.          *)
Connection == INSTANCE Ble WITH
    queue <- Only(queue, B!BleWorks),
    work_pc <- IF work_pc = "check" THEN "idle" ELSE work_pc

ImplementsBle == Connection!Spec

Active == quazi_ble_conn # NULL \/ advertising_active

(* The comment at idle.c:65, "profile checks internally to reconnect on    *)
(* key press": with a bond for the selected profile, a key press leads to  *)
(* a connection or to advertising for one.                                 *)
KeyPressReconnects ==
    held # {} /\ ~Active ~> Active \/ held = {}

(* The interrupt has woken the keyboard from idle level IDLE_DISCONN, with *)
(* the old link gone.                                                      *)
Woken ==
    /\ queue = <<"idle_leave">> /\ work_pc = "idle" /\ boot = "done" /\ ~main_timer
    /\ current_idle_level = I!IDLE_DISCONN /\ ~Active
    /\ \A c \in Conns : link[c].state = "free"

(* With a bond for the selected profile, the wake-up leads to advertising  *)
(* for its host, even if the key is let go at once.                        *)
WakeReconnects ==
    Woken /\ (\E p \in Peers : <<selected_profile, p>> \in bonds) ~> Active

(* Advertising ends, answered, stopped or timed out, whatever the power    *)
(* states do meanwhile: the keyboard is not left discoverable and the      *)
(* radio is not left on.                                                   *)
AdvertisingEnds == adv # B!NoAdv ~> adv = B!NoAdv
=============================================================================
