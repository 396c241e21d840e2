# Quazi MK: formal models

TLA+ models of the Quazi MK firmware, a Bluetooth keyboard firmware on Zephyr
that runs the QMK keyboard core. The models are translated from `src/quazi` and
from the parts of `src/quantum` that this firmware compiles; TLC checks small
instances, TLAPS proves the main safety properties for all instances.

## 1. The system

Everything of interest runs on one cooperative thread, the Zephyr **system work
queue**, and in the callbacks and interrupts that race with it.

| Part | Source | State | Operations | Interacts with |
|---|---|---|---|---|
| Main loop, boot | `quazi/src/main.c` | `main_timer`, `main_work` | boot, timer handler, `quazi_main_task` | QMK, idle |
| Idle levels | `quazi/src/idle.c` | `current_idle_level`, `next_idle_level`, `enter_idle_work`, `leave_idle_work` | `enter_idle`, `leave_idle`, `quazi_idle_enter/leave/check/init` | main loop, matrix, profiles |
| Matrix driver | `quazi/src/matrix_scan.c`, `quazi/qmk_glue/matrix.c` | row pins, column interrupts, `idle_leave_work` | scan, arm, disarm, ISR | idle |
| Scan task | `quantum/keyboard.c` | `matrix_prev` | one key event per scan | actions, `process_bluetooth` |
| Connection manager | `quazi/src/ble.c` | current connection and its reference, identities asked for, advertising flag, five works, passkey | connect, disconnect, pair, unpair, the works, the host's callbacks | Bluetooth host, idle |
| Profiles | `quazi/src/profile.c` | `selected_profile`, settings | select, connect, pair, clear, idle hooks, init | ble, settings |
| Bluetooth keys | `quazi/qmk_glue/process_bluetooth.c` | press times | tap and hold of BT_n, BT_CLEAR; passkey digits | profiles, ble |
| HID service | `quazi/src/hog.c`, `qmk_glue/host_driver.c`, `hid_leds.c` | reports, LED report | notify, read, LED write | ble, QMK host |
| Tapping | `quantum/action_tapping.c` | tapping key, waiting buffer | resolve tap or hold | actions |
| Actions, layers | `quantum/action.c`, `action_layer.c` | layer state, source-layer cache | press, release | report |
| Report | `tmk_core/protocol/report.c`, `quantum/action_util.c`, `host.c` | 6 keys, real and weak modifiers, last report sent | add, delete, send | HID service |
| Shell, EEPROM options, other features | `quazi/src/shell.c`, `quantum/...` | | | |

What is hard about it:

- **Interleaving.** The GPIO level interrupt may strike inside the loop that
  enables the column interrupts, inside a scan, or between any two works. The
  Bluetooth callbacks run between works and, except for `disconnected`, while
  the work thread is blocked in `bt_le_adv_start`.
- **Ordering.** A submitted work keeps an earlier place in the queue, so that
  "disconnect, then start" is not always what runs.
- **Shared timeouts.** One delayable work serves three idle transitions;
  `stop_adv_work` may be left over from an earlier advertising.
- **Stale identity.** `connect_id`, `pair_id` and `unpair_id` are written by a
  call and read by a later work or callback.
- **Order of keys.** Press and release of a key may find different layers, a full
  report, another key with the same code, or no link.
- **Liveness.** A keyboard that sleeps must wake; one that is awake and unused
  must sleep.

## 2. Modules

| Module | Models |
|---|---|
| `SysWorkQ` | The work queue as the code uses it (external to the repository): submit, cancel, run. |
| `Idle` | Power states: `idle.c`, `main.c`, `matrix_scan.c`, `matrix.c`, `matrix_scan_task`. Bluetooth is open: `ble_active` changes freely and callbacks may call `quazi_idle_enter`. |
| `Ble` | The connection manager: `ble.c` with the calls of `profile.c`. Key events and idle transitions may make any call at any time. |
| `Actions` | From a key event to the report at the host: layers and their cache, actions, modifiers, report. The keymap is a parameter. |
| `Tapping` | Tap or hold: `action_tapping.c` and the actions that depend on a tap count or on a one-shot layer, on top of the operators of `Actions`. |
| `Profile` | The Bluetooth keys with their 16-bit press times, the selected profile in memory and in flash, the identities made at boot; power losses, failed saves and failed host calls. |
| `Passkey` | The passkey typed for a host, over cancelled pairings, lost links and other hosts. |
| `BtKeys` | `Profile` and `Passkey` together, as `process_record_quantum` calls them, with a power loss that takes the state of both. |
| `Quazi` | The firmware: instances of `Idle` and `Ble` on one queue, with the key events, idle hooks and callbacks that join them; the refinement mappings back to `Idle` and `Ble`. |
| `TracedTapping` | `Tapping` with the history that its properties need, up to the first disturbance of the records. |
| `MCIdle`, `MCBle`, `MCQuazi`, `MCActions`, `MCTapping`, `MCBtKeys` | Instances for TLC: model values, symmetry, the keymaps, history variables, bounds. |
| `SysWorkQProofs` | Lemmas about the queue: types, "at most one place", "waits behind". |
| `IdleProofs`, `BleProofs`, `ActionsProofs`, `TappingProofs`, `BtKeysProofs` | Theorems about `Idle`, `Ble`, `Actions`, `Tapping` and `BtKeys`. |
| `HeldProofs` | Theorems about `TracedTapping`: nothing stays pressed or on, whatever is tapped or held, and presses are processed in order. |
| `QuaziProofs` | `Quazi` implements `Idle` and `Ble`, and what it inherits from them. |

### Idle

One action per handler. `MainTask` is `quazi_main_task` up to the return of
`quazi_qmk_task` and `IdleCheck` the rest of it (`work_pc` says where the work
thread is), so that an interrupt or a callback may come between. A key is a
pair `<<row, column>>`; `held` are the keys that are down. `Reads` is what a
scan can see, including keys of rows that are still driven for the interrupt;
`ScanFound` adds the scan that is cut short because the interrupt's handler
turns the rows off. `ArmMatrix` has the outcomes of the two loops of
`quazi_matrix_scan_enter_idle`: the interrupt may strike while row `row` is driven, if an earlier arming
has left a column enabled, and while column `last` is enabled; its handler turns every row and column
off, and the loop goes on with the later ones. `rows_driven` and `cols_irq` are therefore sets.
`GpioIrq` is the ISR; no thread runs while it is pending (`IrqPending`). `late_scan` is a history: since
the last arming a scan has turned the rows off with the main loop stopped. `Tick` is one period of the main timer. If the idle
timeout ends in the same period, the order of the two is free.

`boot` is `"enable"` while the boot thread is in `bt_enable`; the system work queue runs meanwhile.
`BootDone` is the end of `quazi_main`. If `leave_idle` has started `main_timer` before, `k_timer_init`
(`main.c:72`) clears a timer that the kernel has among its timeouts. What the kernel does
then is not in this repository: the model lets it lose the timer, the timeout of
`enter_idle_work`, both or neither, and marks the outcome with `boot = "reset"`.

`PromptQueue` states an assumption of the code that no code enforces (flash writes and host calls
can block the queue for longer than 10 ms): works are run before the next timer expires. Only the runs
of the liveness properties use it (`idle_prompt` and those of `Quazi`); no theorem does. With `FALSE`, works wait as long as they
like.

### Ble

`Connected`, `ConnectFailed`, `Disconnected`, `SecurityChanged`,
`SecurityFailed`, `PairingComplete` are the callbacks; `StartDirectedAdv`,
`StartPairingAdv`, `Disconnect`, `UnpairWork`, `StopAdv` the works;
`TapProfile`, `HoldProfile`, `HoldClear`, `ProfileLeaveIdle`,
`ProfileEnterIdle` the calls. The two start works are split at
`bt_le_adv_start`: `AdvStarted` is what follows its return. `refs` counts
the references that `ble.c` itself holds on each connection object.

External, from how `ble.c` uses them: a connection object is free again when its link
and our reference are gone; `bt_le_adv_start` fails while an advertiser is active, while
no object is free, or (directed) while one for the same identity and peer
exists; directed advertising ends by itself; `bt_unpair` removes bonds and
closes their links; `disconnected` is called from the system work queue.

### Quazi

`Quazi` has no handlers of its own: each action conjoins the actions of `Idle` and
`Ble` that run together. `I!EnterIdle` takes the queue that the hook leaves behind:
`B!DisconnectQueue(I!Interrupted(struck))` is the queue after the interrupt
that may strike while the matrix is armed and then after the work that `quazi_profile_enter_idle`
submits. `I!LeaveIdle` and the callbacks are joined the same way. `Power` and `Connection`
are the refinement mappings: the queue filtered to one side's works.

### Actions

A key event is one step: the scan task calls `action_exec` and everything down to
the notification before it returns. The functions on the way (`SendReport`,
`RegisterCode`, `LayerStateSet`, `Pressed`, ...) take the state `kb` and return
the state they leave behind, in the order of the C calls; `sent` collects the
reports of one event. `Press` looks the layer up and stores it in the cache,
`Release` reads the cache.

The keymap is any function from layers and positions to the actions that
`action_for_keycode` makes of basic keycodes, modified keycodes, usages and
`MO`, `TG`, `TO`, `DF`. The shipped boards use basic keys, modifiers, `MO(1)`, transparent
positions and the Bluetooth keys, none of which waits for a tap decision:
`action_tapping_process` then hands each event on at once. Keys that wait for one are in
`Tapping`; one-shot modifiers and layer-with-modifier keys are not modelled.

The report's keys are a set: every change of one key is followed by
`send_keyboard_report` before the next, so that the places of the keys never decide
whether two reports are equal. The host begins and ends a link with nothing
pressed. A notification on an established link is taken to arrive; the code
only logs one that fails (`hog.c:230`), and a lost release would stay lost
until the next change.

### Tapping

The keymap may also have mod-tap, layer-tap, tap-toggle and one-shot layer keys.
`ProcessTapping` is `process_tapping`: `NotTapping`, `Undecided`, `HoldTimeout`, `Tapped` and `AfterTap` are
its branches, in the order of its tests. Each returns a decision: the state before any processing, the
records to process (at most two), whether `tapping_key` becomes the last of them, and the C function's
result; `Carried` carries it out. `ProcessRecord` is `process_record` with the clearing of a
one-shot layer and the early release that follows (`ReleaseOneshot`); it calls the operators of
`Actions` for what a key does to layers and report.

A step is one call of `process_tapping`: `Press`, `Release` and `Tick` for the record
that the scan hands over, `Drain` for one round of the loop over the buffer.
`draining` keeps a scan from coming between the rounds. A record carries its age modulo `Clock`
instead of its time: only differences of times are looked at. The build defines none of the per-key
options, and its `TAPPING_TERM` is below 500, so that the `PERMISSIVE_HOLD` branch is not compiled.

Time passes (`Pass`) only after a scan, unless the main loop may stop (`MayStop`: no key is
down, and there is no link or nothing is left to decide).

### Profile, Passkey, BtKeys

`Profile` follows `quazi_profile_init` (`Load`, `MakeId` for one round of its two loops,
`Boot`) and then `process_bluetooth` (`Press`, `ReleaseClear`, `ReleaseProfile`). `PowerLoss` is
possible in every state, also between two identities, and keeps the flash: `stored` and `ids`. The
load, each save and each call for an identity may fail; `unsaved` and `unmade` record that
one did. `time` is the 16-bit clock (`Wrap`), `EventTime` the odd time that
`keyboard.c:468` makes of it, `held` how long each key has really been down. `request` is the
call of `ble.c` that the last event made; `Ble` has what it does.

`Passkey` has the two statics of `ble.c`, the current connection as `Ble` lets it come and go, and
the hosts that wait (`asking`). `typed` is a history of the digits since the last
request, and `accepted` is what the last step gave to a host that waited.

## 3. Properties and runs

| Run | Instance | Checks |
|---|---|---|
| `idle_safe` | 2 x 2 keys, works delayed at will | `TypeOK`, `LoopRunsWhenAwake`, `DrivenRowsAreWatched`, `StoppedIsArmed`, `NoPhantomKey` |
| `idle_prompt` | 2 x 2 keys, prompt queue, fairness | `KeySeen`, `TimeoutStops` |
| `actions` | 5 keys, 3 layers, 3 keycodes, 2 modifiers, a report of 2 keys, a link that comes and goes | `TypeOK`, `ReportIsHeld`, `HostIsHeld`, `LayerIsHeld`, `PressIsTyped` |
| `ble_conn` | 2 profiles, 1 host, 2 objects | `TypeOK`, `RefsBalanced`, `ConnHasLink`, `AdvertisesAlone`, `AdvertisingIsActive`, `CallsLastRequested`, `ConnIsRequested`, `PairingAdvIsTimed` |
| `ble_established`, `ble_bonds` | 2 profiles, 2 hosts, 2 objects | `EstablishedIsEncrypted`, `OneBondPerId`: violated |
| `quazi_firmware` | 1 key (BT_1), 1 profile, 1 host, 2 objects, fairness | `ImplementsIdle`, `ImplementsBle`, `WakeReconnects`, `AdvertisingEnds` |
| `quazi_keypress` | 1 plain key, fairness | `KeyPressReconnects`: violated |
| `tapping` | 3 keys, 3 layers, each kind of tap key, a buffer of 4, fairness | `TypeOK`, `KeysHeldUndisturbed`, `LayersHeldUndisturbed`, `InOrderUndisturbed`, `DecidedUndisturbed` |
| `tapping_held` | a mod-tap key on a momentary layer | `KeysAreHeld`: violated |
| `tapping_keyup` | a toggle key on a one-shot layer | `OneKeyUp`: violated |
| `bt_keys` | 4 Bluetooth keys, two with the same code, 3 identities, 2 connections, 2 digits | `TypeOK`, `SelectedIsStored`, `ProfilesHaveIds`, `PasskeyIsTyped`, `PasskeyIsGiven`, `OnlyHoldsPair`, `HoldsPair` |

The bounds, and why they are enough:

- Two rows and two columns give a key in the row that is read, one in another row and
  one in a later column, the cases that `Reads`, `ScanFound` and `ArmMatrix` tell apart.
- Timeouts are a few ticks. Their order matters (boot before idle before
  disconnect), and that several main periods fit in them.
- Two connection objects are an old link that is being closed and a new one.
  Two profiles are needed for every stale identity. The second host
  is needed only where two bonds are compared; the runs that need it stop at the
  counterexample.
- `QueueBound` lets three works wait in `ble_conn`: two requests made before the first is
  served and the disconnect they share. The invariants of this run are proved without it.
- `MaxPaired` is `CONFIG_BT_MAX_PAIRED`. Connection references are not bounded by the
  model: that they stay below two is a result.
- The keymap of `MCActions` has, over its three layers, each kind of action, a modifier on a
  modifier (`LSFT(KC_LGUI)`), modifiers without a key, the same keycode with and without a
  modifier, transparent positions over a momentary key, and a layer
  that momentary, toggle, goto and default-layer keys share. Two places in the report
  are few enough for five keys to fill it.
- The composition has one key and one profile: the queue, not the data, is
  what the two parts share. `ShortTaps` lets a key be released before its
  press is processed.

- In `Tapping` a term of 2 in a clock of 8 lets a record be within the term, past it
  and so old that the clock has come round; a buffer of 4 holds three
  records, few enough to overflow with three keys. `MaxCount` 3 is past
  `TAPPING_TOGGLE`, and a count saturates as the 4-bit field does.
- In `BtKeys` a clock of 8 and a tap time of 3 let a press come just before the wrap and its
  release after it, with the parity of event times on both sides. `MaxHold`
  is past the clock's period. `FewDown` allows two keys down: those that share a press time.
  `OneAtATime` separates what `BtKeys` shares no state between: Bluetooth keys in use, a passkey being
  typed, and identities missing; each of them meets power losses. Three digits stand for
  six, and the digits 0 and 7 tell the places of a number apart, leading zeros included.
  The theorems of section 5 hold without any of these bounds.

**Fairness.** The work thread, the boot thread and the interrupt controller do not stop and time
passes (weak fairness). In `Ble` and `Quazi` directed advertising that
nobody answers ends, and a link that is being closed is closed, by the
Bluetooth specification's timeouts; an interrupt delays these callbacks but does not lose them
(strong fairness in `Quazi`). Fingers and hosts owe nothing. In `Tapping` the loop
over the buffer ends (it has no wait), the main loop scans again unless it may stop, and time
passes whenever scans let it infinitely often (strong fairness of `Pass`: a scan may come between any
two of its chances).

**The conditions of the liveness properties.** `KeySeen` asks for a link that stays
active or one key held. Without a link, `quazi_idle_check` enters idle after every scan
that sees nothing, and with two keys held in one row the interrupt can cut
every scan before the second column; the keyboard then enters and leaves idle
for ever. `WakeReconnects` starts with the old link gone: with a
closing link of the same host, `bt_le_adv_start` fails and is not tried again.

**What the properties of the power states leave out.** `StoppedIsArmed` has one exception, `late_scan`:
if `main_work` is already queued when `enter_idle` stops the timer and arms the matrix (`idle.c:34`), as happens
when works are delayed past a timer period, the scan leaves the rows low, and no key wakes the
keyboard until a timeout or the host does. The code has nothing against it. The property says that
this is the only way: no other order of works, timeouts, callbacks and interrupts disarms a stopped keyboard.
`LoopRunsWhenAwake`, `StoppedIsArmed`, `KeySeen` and `TimeoutStops` are about a boot that finds `main_timer` stopped
(`boot` is not `"reset"`): the hazard at `main.c:72` is in the model, and what follows from it is no
property, because it depends on the kernel.

**Four disturbances of the tapping records.** `TracedTapping` ends a behaviour at
the first step that loses the pairing of press and release, and its properties are about what comes
before (`disturbed`):

- `Overflow`: the buffer is full. All keys and records are cleared, as the code says
  (`action_tapping.c:88`); the release of a key that is still down comes without its press.
- `Overtaking`: a key event is processed while records wait and no key is undecided.
  `process_tapping` returns false at a timeout, which ends the loop
  (`action_tapping.c:108`) until the next event or tick; an event that comes first is
  processed before the older ones.
- `PressedAgain`: see `KeysAreHeld` below.
- `Mispaired`: the release that decides a tap is not the first one of its key that waits (see the
  end of section 4). It needs a buffer larger than that of the run `tapping`.

**Conditions of the Bluetooth keys' properties.** `SelectedIsStored` is stated up to a failed save
(`unsaved`): that `profile.c:88` does not check the result is visible in the model, and no document says what a failed
save must lead to. `HoldsPair` is about a hold of less than the
clock's period (65.5 s); a longer one may count as a tap. It asks that no other key has
the same code, because the keys of one code share a press time; `OnlyHoldsPair`, the
direction that protects a bond, needs no such condition. Both allow the one
tick by which `timer_read() | 1` moves a time.

## 4. What the violated properties show

| Property | Stated in | What the code does |
|---|---|---|
| `EstablishedIsEncrypted` | `ble.c:38` | `security_changed` sets the flag for any connection. |
| `OneBondPerId` | `ble.c:204` | `pairing_complete` unpairs for `unpair_id`, not for the paired identity. |
| `KeyPressReconnects` | `idle.c:65` | Nothing reconnects on a key press while awake; `quazi_profile_task` has no definition. |
| `KeysAreHeld` | `action_layer.c:262` | A mod-tap key whose tap was cancelled (`action.c:416`) is pressed again at the timeout (`action_tapping.c:325`). After a layer change the second press finds another action and overwrites the key's layer in the cache, and the modifier of the first is never released. |
| `OneKeyUp` | `action.c:780` | The key that ends a one-shot layer is released early and then by its own release once more, from the layer in the cache: a toggle key on that layer toggles twice. The layer turned on around the early release is always 0, `get_oneshot_layer()` after the reset. |

Six more things that the models show, which no run states:

- `quazi_ble_connect` takes `connect_id` for the identity of the current connection
  (`ble.c:320`), also when that came from a pairing for another one. A tap on the profile asked for
  before the pairing is then ignored. `ConnIsRequested` is what does hold.
- `disconnect` leaves the timeout of `stop_adv_work` running and `k_work_schedule` does not
  restart it, so that a second pairing request may get the rest of the first one's 180 s
  (`ble.c:276`). `PairingAdvIsTimed` is what does hold: there is always an end, and not a later one.
- The idle timeout is started only by a scan that finds a key down. A wake-up whose key is let go
  before the first scan leaves the main loop running for as long as the link lasts
  (`idle.c:96`). `TimeoutStops` is what does hold.
- The works of `quazi_idle_init` may run before `quazi_main` ends: a key that is held when the keyboard is
  switched on can start `main_timer` before `k_timer_init` (`main.c:72`). `LoopRunsWhenAwake` is what holds
  when it does not.
- `leave_idle` relies on the interrupt's handler to take the matrix out of the interrupt mode (the comment at
  `idle.c:59`). If the interrupt strikes inside the loop that enables the columns (`matrix_scan.c:115`), the rest of
  the loop enables the later ones again, and the keyboard is awake with them enabled: a later scan of a key in one
  of them interrupts itself and is cut short. `KeySeen` and `NoPhantomKey` are what does hold.
- A tap key pressed again after an interrupted tap becomes `tapping_key` without a
  `waiting_buffer_scan_tap` (`action_tapping.c:400`), although its own release may wait already. With a
  buffer of 8 the release of a later press can then decide the tap and get its count (`Mispaired`); the first
  release is processed as that of a hold, and if the key is pressed on another layer before the marked release
  comes, the tapped keycode is never released. `KeysHeldUndisturbed` is what does hold.

## 5. Proofs

Assumptions: `IdleAssumption` (the matrix has rows and columns, timeouts are
positive) and `BleAssumption` (profile 1 exists, `NULL` is no object, stored
bonds belong to profiles); the number of keys,
profiles, hosts and objects is arbitrary, and the queue is not bounded. `QuaziAssumption` is both of them
for the firmware's constants. Those of the other modules are named with them below.

**Idle.** `IInv` is `TypeOK`, `LoopRunsWhenAwake`, `DrivenRowsAreWatched` and
`NextLevelStops` (no `enter_idle` ever asks for `IDLE_NONE`).
`LoopRunsWhenAwake` alone is not inductive: an `enter_idle` at level `IDLE_NONE` would
mark the keyboard awake without starting the timer. `NoPhantomKey` follows because
no held key is in a driven row while no interrupt is pending: by `DrivenRowsAreWatched` its column would be
watched (`ReadsHeld`).
`StoppedListens` is the theorem about `StoppedIsArmed`, with works delayed at will. `PInv` adds to
`IInv` that, after a boot that found the timer stopped, a stopped loop is armed, or `late_scan` is true, or
`idle_leave_work` or `leave_idle_work` waits in the queue (`ArmedOrWaking`): `enter_idle` arms the matrix unless
the interrupt strikes, whose handler submits `idle_leave_work`; that passes the wake-up on, and `leave_idle` starts
the timer, which needs `LoopRunsWhenAwake`. Every other step only adds to the queue (`AloneArmed`). When the queue is empty only
the first two are left.

**Ble.** `IInv` is `TypeOK`, the five safety invariants and `RestartsBehind`.
`RefsBalanced` needs `AdvertisesAlone`, so that `connected` never overwrites a
connection that holds a reference; `ConnHasLink` needs `RefsBalanced`'s
companion that a disconnected object is forgotten. `CallsLastRequested` is not
inductive without `RestartsBehind`: while directed advertising is on the air, a
`start_directed_adv_work` in the queue waits behind a `disconnect_work`, which ends that
advertising first. It holds because only `disconnected` submits
`start_directed_adv_work` alone, and it does so with a current connection, hence, by
`AdvertisesAlone`, with no advertising.

The second part of `BleProofs` rests on that invariant and adds `RequestInv`. `ConnIsRequested` is not
inductive alone, because `connected` takes its identity from the advertising: `PairsLastRequested`
is `CallsLastRequested` for pairing, and `PairingsBehind` is its `RestartsBehind`. `Timed`
extends `PairingAdvIsTimed` to the time in which `bt_le_adv_start` has not returned: what is left of an
earlier timeout plus the age is at most 180 s, or no timeout runs and the advertising has no
age, so that `k_work_schedule` starts a full one.

**Actions.** `IInv` strengthens the types with `Within`, that the reported keys and
modifiers *and those of the last report* are of keys that are down, with the
same for usages, and with `HostFollows`: the host has the last report, or nothing. `ReportIsHeld` alone is
not inductive for the host: an unchanged report is not sent, so that what the
host believes is known only through the last report. The layer of a held
key is in the cache, so that its action is a function of the invariant's state and a
release removes just what its press added. `LayerIsHeld` is inductive with the types.
`PressIsTyped` rests on two facts about the reports of one event: the last report
has the keys there are (`KeysReported`; its modifiers may be older, for a press clears the weak
ones without a report), and the reports sent lead from the one before the event to the
last (`LeadsFrom`). A freed key is then absent from the report just before the one
that types it, and leaves room for it. Assumption: `ActionsAssumption` (layer 0
exists, keycodes, modifiers and `KC_NO` differ); the keymap, the number of keys and layers
and the size of the report are arbitrary.

**BtKeys.** Three invariants beside `TypeOK`, since the parts share no state but `phase` and the
clock. `SelectedInv` is `SelectedIsStored` also while the boot has loaded but not finished, and
`IdsInv` says what its loop has made so far: the identities below `i` are made unless a call
has failed. `EntryInv` counts: while the host of the current connection waits, the
digits left are those of the passkey less those typed since its request, and not yet none; and
`passkey_entered` is the number of the digits typed so far. That last part needs the recursion of `Number` unfolded
at its end (`NumberOfAppend`). The library's induction theorems take an operator and cannot be
instantiated here; `SetInduction` states induction over a set instead and is proved from the minimal element of
the numbers outside it (`WFMin`), which is enough to show that the function the definition chooses exists and is
unique. `QuaziProofs` uses it in the same way for the recursion of `Only`.
`HoldInv` relates the clock to the keys: the 16-bit difference that a release now would compute
is at most the time its key has been held, and, for a key of its own code held for
less than the clock's period, also at least that, each up to the parity of event times. `OnlyHoldsPair` and
`HoldsPair` are action properties that follow from it. Assumptions: `ProfileAssumption`
(the clock's period is even and longer than the tap time) and `PasskeyAssumption`.

`SysWorkQProofs` has the facts about the queue on which these rest: `Submit`,
`Tail` and `Cancel` keep a work's single place and what waits behind what.

**Quazi.** `FirmwareIsIdle` and `FirmwareIsBle` are the two refinements. The mapping takes the other
side's works out of the queue (`Only`); the lemmas about it say that it commutes with `Submit`, `Cancel` and
`Tail`, the last with a case: taking a work of the other side is no change at all. The
only invariant they need is `QueueOK`, that the queue holds works. Then there is one lemma per
action and side: `EnterIdle`, for example, is `EnterIdle` for `Idle`, and for `Ble` either `ProfileEnterIdle`
or a stutter, as the level reached decides. Since `Spec` implies both, every
theorem of `IdleProofs` and `BleProofs` holds of the firmware: these modules are
instantiated under the mapping and their theorems applied (`FirmwareScans`, `FirmwareListens`,
`FirmwareLeaksNone`, `FirmwareIsRequested` and seven more). They are stated of the
firmware's own queue, not of the filtered one: `QueueInvariance` says that the invariants
look only at the works of their own side.

**Tapping.** `TypeCorrect` says that types are kept and the buffer keeps one
place free, for every keymap, tapping term, buffer size and clock. It follows the code's layers: what
`Actions`' operators do to a report with no more keys than places (`Kbs`), what processing one record does
(`ProcessRecordFacts`: the tapping key and the buffer are as before), what each branch of
`process_tapping` decides (`DecisionOK`: at most two records, the buffer as long as before, and
`tapping_key` follows only a record with a key), and the steps.
The lemmas of `ActionsProofs` are reused through an instance with a keymap of transparent keys, for none of
the functions reads the keymap (`SamePressed` and its like say so). Assumption:
`TappingAssumption` (that of `Actions`, the tick's position is no key, and the clock's period is
longer than the tapping term).

**Tapping, nothing stays pressed.** `KeysHeld` and `LayersHeld` in `HeldProofs` are about
`KeysHeldUndisturbed` and `LayersHeldUndisturbed`, for every keymap. These are not
inductive: whether the release of a key undoes its press depends on the tap count the press was processed
with, and the release that will carry this count may still wait behind others. `PairedInv` says,
until `disturbed`, the types and `KeysPaired`: there is a history `D` of the keys that are down after each
waiting record, up to `matrix_prev`, such that

- press and release of each key alternate in the buffer (`Track`), and no waiting press is
  interrupted (`Plain`);
- a waiting record with a tap count is the first one of its key, a release, and not of the key
  that is still undecided (`Marks`); a tapping key with count 1 has such a record;
- the report and the layers hold only what the actions `Acting` give (`HoldsOnly`). These are the actions, from
  the cached layer, of the keys down before the first record, as a tap if `TapMode` says that a waiting
  release or the tapping key has a count. The undecided key is not among them, unless its tap was
  cancelled and it is held as a modifier (`Ghost`).

The proof follows a record: what `process_record` does to `HoldsOnly` (`HoldsPressed`, `HoldsReleased`, the one-shot
layer), then what a press, a tap and a release do to `Paired`, then one call of `process_tapping`, while tap or
hold is not decided (`PairedUndecided`) and after it (`PairedDecided`), and last the steps. The
four disturbances are the steps at which that argument fails, and no others: an event processed before its turn
(`Overtaking`) breaks `Track`, a cleared buffer (`Overflow`) loses releases that were to end what `HoldsOnly` allows,
`Mispaired` breaks `Marks`, and `PressedAgain` changes the cached layer under a press that is still in force.
No assumption is added to `TappingAssumption`.

**Tapping, the order of presses.** `PressesInOrder` in `HeldProofs` is about the action property
`InOrderUndisturbed`, for every keymap. It compares sequences: the presses processed in the step, the undecided
key and the presses that wait, against those of before and the press the scan sees. `CallOrdered` says
it of one call of `process_tapping`, branch by branch: what the call processes, followed by the key it leaves undecided, is
the undecided key of before followed by the call's own press (`Ordered`); if the call asks for the record to wait,
it is the undecided key alone, or that key was processed as held and stays. That needs of the record that
a press has no tap count and no interruption, for a press with a count would be processed without being
undecided first: of the records that wait, `Plain` and `Marks` of `PairedInv` say so (`PairedPlain`). In the buffer
`process_tapping` changes tap counts, neither keys nor presses (`SamePresses`). The steps follow, since `\o` is associative.
`PressesOf` is a recursive function for this proof; its lemmas (`PressesType`, `PressesSame`,
`PressesInFront`) use `SetInduction`, as the others do.

Only model-checked: the liveness properties, which are out of the prover's reach (`KeySeen`, `TimeoutStops`,
`WakeReconnects`, `AdvertisingEnds`, `DecidedUndisturbed`).

## 6. Not modelled

- `keymap_config`, EEPROM, grave escape, space cadet and the magic keys: compiled, but
  without the options that make `process_record_quantum` call them.
- One-shot modifiers, layer-with-modifier keys and swap hands: no board of this firmware uses them, and
  they add no state machine beside that of the one-shot layer.
- The LED report and the reads of `hog.c`: each is one assignment or one copy.
- A notification that fails on an established link (`hog.c:230`): the buffers of the host stack decide
  it, and the code only logs it.
- Pin configuration, logging, the HID descriptor (data), and the shell (each
  command is a call that `Ble` has as an action).
- The Zephyr kernel and Bluetooth host beyond what section 2 says.
- The rest of the tree. `src/quantum`, `src/tmk_core`, `src/platforms` and `src/drivers` are those of QMK;
  `src/qmk.cmake` compiles a small part of them into this firmware, and the models cover what of that
  part has state. The share of all lines in the tree that the models stand for is small for that reason.

What could come next: a second profile and BT_CLEAR in `Quazi`.
