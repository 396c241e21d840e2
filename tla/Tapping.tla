------------------------------- MODULE Tapping -------------------------------
(* Tap or hold: quantum/action_tapping.c in front of the actions, and the  *)
(* part of process_action (quantum/action.c) that depends on the tap count *)
(* or on a one-shot layer.  A key with two meanings waits in tapping_key   *)
(* until its release, a timeout or another key decides; what comes         *)
(* meanwhile waits in waiting_buffer.                                      *)
(*                                                                         *)
(* One step is one call of process_tapping: for the event the scan task    *)
(* hands over (Exec) and then for each record of the buffer (Drain).  The  *)
(* work thread makes all of them before the next scan.                     *)
EXTENDS Integers, Sequences, FiniteSets, FiniteSetsExt, SequencesExt

CONSTANTS
    Positions, Layers, Codes, Mods, KC_NO, Usages, keymaps, KEYBOARD_REPORT_KEYS,
    NoKey,                 \* the position 255,255 of a tick
    TAPPING_TERM,
    TAPPING_TOGGLE,        \* taps that lock a tap-toggle key
    WAITING_BUFFER_SIZE,
    MaxCount,              \* what a tap count holds: 15 (action.h:44)
    Clock                  \* what an event's time holds: 2^16

VARIABLES
    matrix_prev,           \* the keys that are down
    source_layers_cache, kb,
    tapping_key,           \* the key being tapped, or NoEvent
    waiting_buffer,        \* records that wait
    oneshot_layer_data,    \* the one-shot layer and its state
    draining,              \* action_tapping_process is in its loop
    scanned,               \* a scan has run since time last passed
    out                    \* the records processed in the last step

A == INSTANCE Actions

\* The actions of keys with two meanings, beside those of module Actions
\* (whose own assumption leaves them out of the keymap).
TapActions == [kind : {"mt"}, mods : SUBSET Mods, code : Codes]
                \cup [kind : {"lt"}, layer : Layers, code : Codes]
                \cup [kind : {"tt", "osl"}, layer : Layers]
TapKinds == {"mt", "lt", "tt", "osl"}

ASSUME TappingAssumption ==
    /\ 0 \in Layers /\ Layers \subseteq Nat /\ IsFiniteSet(Layers)
    /\ KC_NO \notin Codes \cup Mods /\ Codes \cap Mods = {} /\ 0 \notin Usages
    /\ KEYBOARD_REPORT_KEYS \in Nat
    /\ keymaps \in [Layers -> [Positions -> TapActions \cup A!KeyAction \cup A!UsageAction
                                            \cup A!LayerAction \cup {A!Transparent}]]
    /\ NoKey \notin Positions
    /\ {TAPPING_TERM, TAPPING_TOGGLE, WAITING_BUFFER_SIZE} \subseteq Nat \ {0}
    /\ MaxCount \in Nat /\ MaxCount > 1
    /\ Clock \in Nat /\ Clock > TAPPING_TERM

loopVars == <<matrix_prev, scanned>>
vars == <<matrix_prev, source_layers_cache, kb, tapping_key, waiting_buffer,
          oneshot_layer_data, draining, scanned, out>>

Records == [key : Positions, pressed : BOOLEAN, age : 0..Clock - 1,
            count : 0..MaxCount, interrupted : BOOLEAN]
NoEvent == [key |-> NoKey, pressed |-> FALSE, age |-> 0, count |-> 0, interrupted |-> FALSE]
Event(p, pressed) == [NoEvent EXCEPT !.key = p, !.pressed = pressed]

NoOneshot == [layer |-> 0, state |-> {}]

Init ==
    /\ A!Init
    /\ tapping_key = NoEvent /\ waiting_buffer = <<>>
    /\ oneshot_layer_data = NoOneshot
    /\ draining = FALSE /\ scanned = FALSE /\ out = <<>>

-----------------------------------------------------------------------------
(* Processing a record.  The functions take the state s and return the     *)
(* state they leave behind; s.rec is the record they were given, which     *)
(* process_action may change.                                              *)

State == [kb |-> kb, cache |-> source_layers_cache, tapping |-> tapping_key,
          buffer |-> waiting_buffer, oneshot |-> oneshot_layer_data, out |-> <<>>,
          rec |-> NoEvent, done |-> TRUE]

SourceLayer(s, p) == CHOOSE layer \in Layers : A!IsSource(s.kb, layer, p)

\* layer_switch_get_action
ActionNow(s, p) == keymaps[SourceLayer(s, p)][p]

IsTapRecord(s, r) == r.key # NoKey /\ ActionNow(s, r.key).kind \in TapKinds

LayerOn(s, layer) == [s EXCEPT !.kb = A!LayerStateSet(@, @.layer_state \cup {layer})]
LayerOff(s, layer) == [s EXCEPT !.kb = A!LayerStateSet(@, @.layer_state \ {layer})]
LayerInvert(s, layer) == [s EXCEPT !.kb = A!LayerStateSet(@, SymDiff(@.layer_state, {layer}))]

\* clear_oneshot_layer_state
ClearOneshot(s, bits) ==
    LET left == s.oneshot.state \ bits
    IN  IF left # {} \/ s.oneshot.state = {}
        THEN [s EXCEPT !.oneshot.state = left]
        ELSE [LayerOff(s, s.oneshot.layer) EXCEPT !.oneshot = NoOneshot]

\* What a mod-tap or layer-tap key stands for, once tapped or held.
Resolved(a, count) ==
    IF a.kind \notin {"mt", "lt"} THEN a
    ELSE IF count > 0 THEN [kind |-> "key", mods |-> {}, code |-> a.code]
    ELSE IF a.kind = "mt" THEN [kind |-> "key", mods |-> a.mods, code |-> KC_NO]
    ELSE [kind |-> "mo", layer |-> a.layer]

Apply(s, r, a) ==
    [s EXCEPT !.kb = IF r.pressed THEN A!Pressed(@, Resolved(a, r.count))
                                  ELSE A!Released(@, Resolved(a, r.count)),
              !.rec = r]

TapToggle(s, r, a) ==
    LET inverts == IF r.pressed THEN r.count < TAPPING_TOGGLE ELSE r.count <= TAPPING_TOGGLE
    IN  [(IF inverts THEN LayerInvert(s, a.layer) ELSE s) EXCEPT !.rec = r]

OneshotLayer(s, r, a) ==
    IF r.pressed
    THEN [LayerOn(LayerOn(s, a.layer), a.layer) EXCEPT
             !.oneshot = [layer |-> a.layer, state |-> {"pressed", "other"}], !.rec = r]
    ELSE LET let_go == ClearOneshot(s, {"pressed"})
         IN  [(IF r.count > 1 THEN ClearOneshot(let_go, {"other"}) ELSE let_go) EXCEPT !.rec = r]

\* A mod-tap key interrupted by another key is held after all.
Cancelled(r, a) ==
    IF a.kind = "mt" /\ r.pressed /\ r.interrupted THEN [r EXCEPT !.count = 0] ELSE r

Switch(s, r, a) ==
    CASE a.kind = "tt"  -> TapToggle(s, r, a)
      [] a.kind = "osl" -> OneshotLayer(s, r, a)
      [] OTHER          -> Apply(s, Cancelled(r, a), a)

IsModAction(a) == a.kind \in {"key", "mt", "lt"} /\ a.code \in Mods

\* store_or_get_action
Lookup(s, r) ==
    LET layer == IF r.pressed THEN SourceLayer(s, r.key) ELSE s.cache[r.key]
    IN  [s EXCEPT !.cache[r.key] = layer,
                  !.out = Append(@, [key |-> r.key, pressed |-> r.pressed, tap |-> r.count > 0])]

Process(s, r) ==
    LET found == Lookup(s, r)
    IN  Switch(found, r, keymaps[found.cache[r.key]][r.key])

\* The press of a key that ends a one-shot layer is followed by its release;
\* the layer turned on around it is that of the cleared oneshot_layer_data.
ReleaseOneshot(s) ==
    LET released == Process(LayerOn(s, s.oneshot.layer), [s.rec EXCEPT !.pressed = FALSE])
    IN  LayerOff(released, released.oneshot.layer)

ProcessRecord(s, r) ==
    IF r.key = NoKey THEN [s EXCEPT !.rec = r]
    ELSE LET found == Lookup(s, r)
             a == keymaps[found.cache[r.key]][r.key]
             clears == s.oneshot.state # {} /\ r.pressed /\ ~IsModAction(a)
             cleared == IF clears THEN ClearOneshot(found, {"other"}) ELSE found
             switched == Switch(cleared, r, a)
         IN  IF clears /\ cleared.oneshot.state = {} /\ "pressed" \notin switched.oneshot.state
             THEN ReleaseOneshot(switched)
             ELSE switched

-----------------------------------------------------------------------------
(* process_tapping: what is to be done with a record.  A decision has the  *)
(* state before any processing, the records to process, whether            *)
(* tapping_key becomes the last of them as processed, and whether the      *)
(* record itself is processed or taken (the result of process_tapping).    *)

Within(s, r) == (s.tapping.age - r.age) % Clock < TAPPING_TERM

IsTappingRecord(s, r) == s.tapping.key # NoKey /\ s.tapping.key = r.key

Decide(s, todo, follows, done) == [state |-> s, todo |-> todo, follows |-> follows, done |-> done]
Handle(s, todo) == Decide(s, todo, FALSE, TRUE)
HandleTapping(s, todo) == Decide(s, todo, TRUE, TRUE)
Wait(s) == Decide(s, <<>>, FALSE, FALSE)

\* Mutant: the release does not learn of the decision.
NoTapCopied(key, r) == r

CopyTap(key, r) == [r EXCEPT !.count = key.count, !.interrupted = key.interrupted]

\* Mutant: misses the press that waits.
NeverTyped(s, r) == FALSE

\* waiting_buffer_typed
Typed(s, r) == \E i \in DOMAIN s.buffer :
                   s.buffer[i].key = r.key /\ s.buffer[i].pressed # r.pressed

\* waiting_buffer_scan_tap, for the tapping_key of s; todo comes before.
ScanTap(s, todo) ==
    LET releases == {i \in DOMAIN s.buffer : /\ IsTappingRecord(s, s.buffer[i])
                                             /\ ~s.buffer[i].pressed
                                             /\ Within(s, s.buffer[i])}
    IN  IF s.tapping.count > 0 \/ ~s.tapping.pressed \/ releases = {} THEN Handle(s, todo)
        ELSE HandleTapping([s EXCEPT !.buffer[Min(releases)].count = 1],
                           Append(todo, [s.tapping EXCEPT !.count = 1]))

\* Mutant: processes the press at once as well.
StartAndProcess(s, todo, r) == HandleTapping(s, Append(todo, r))

StartTapping(s, todo, r) == ScanTap([s EXCEPT !.tapping = r], todo)

NotTapping(s, r) ==
    IF r.pressed /\ IsTapRecord(s, r) THEN StartTapping(s, <<>>, r) ELSE Handle(s, <<r>>)

\* The release of a modifier pressed before waits for the end of the tapping.
Retained(s, r) ==
    LET a == ActionNow(s, r.key)
    IN  \/ a.kind = "key" /\ ((a.mods # {} /\ a.code = KC_NO) \/ a.code \in Mods)
        \/ a.kind = "mt" /\ ((a.mods # {} /\ r.count = 0) \/ a.code \in Mods)

Undecided(s, r) ==
    IF IsTappingRecord(s, r) /\ ~r.pressed
    THEN Decide(s, <<[s.tapping EXCEPT !.count = 1]>>, TRUE, FALSE)
    ELSE IF r.key # NoKey /\ ~r.pressed /\ ~Typed(s, r)
    THEN IF Retained(s, r) THEN Wait(s) ELSE Handle(s, <<r>>)
    ELSE Wait([s EXCEPT !.tapping.interrupted = @ \/ r.pressed])

\* Mutant: goes on tapping.
HoldAndGoOn(s) == Decide(s, <<s.tapping>>, TRUE, FALSE)

HoldTimeout(s) == Decide([s EXCEPT !.tapping = NoEvent], <<s.tapping>>, FALSE, FALSE)

Tapped(s, r) ==
    IF IsTappingRecord(s, r) /\ ~r.pressed
    THEN IF Within(s, r) THEN HandleTapping(s, <<CopyTap(s.tapping, r)>>)
                         ELSE Handle([s EXCEPT !.tapping = NoEvent], <<CopyTap(s.tapping, r)>>)
    ELSE IF r.pressed /\ IsTapRecord(s, r)
    THEN StartTapping(s, IF s.tapping.count > 1
                         THEN <<[s.tapping EXCEPT !.pressed = FALSE, !.age = 0]>>
                         ELSE <<>>, r)
    ELSE Handle(s, <<r>>)

AfterTap(s, r) ==
    IF r.pressed /\ IsTappingRecord(s, r)
    THEN IF ~s.tapping.interrupted /\ s.tapping.count > 0
         THEN HandleTapping(s, <<[r EXCEPT !.count = Min({s.tapping.count + 1, MaxCount})]>>)
         ELSE Handle([s EXCEPT !.tapping = r], <<>>)
    ELSE IF r.pressed /\ IsTapRecord(s, r) THEN StartTapping(s, <<>>, r)
    ELSE Handle([s EXCEPT !.tapping.interrupted = @ \/ r.pressed], <<r>>)

Decision(s, r) ==
    CASE s.tapping.key = NoKey -> NotTapping(s, r)
      [] s.tapping.key # NoKey /\ s.tapping.pressed /\ s.tapping.count = 0 ->
             IF Within(s, r) THEN Undecided(s, r) ELSE HoldTimeout(s)
      [] s.tapping.key # NoKey /\ s.tapping.pressed /\ s.tapping.count > 0 -> Tapped(s, r)
      [] OTHER -> IF Within(s, r) THEN AfterTap(s, r) ELSE Wait([s EXCEPT !.tapping = NoEvent])

\* A record that waits for the processing of its own press learns its count.
Settled(s, r, d) ==
    [s EXCEPT !.tapping = IF d.follows THEN s.rec ELSE @,
              !.rec = IF d.follows THEN CopyTap(s.rec, r) ELSE r,
              !.done = d.done]

\* The records todo, processed one after the other.
ProcessAll(s, todo) ==
    LET after[i \in 0..Len(todo)] ==
            IF i = 0 THEN s ELSE ProcessRecord(after[i - 1], todo[i])
    IN  after[Len(todo)]

Carried(r, d) == Settled(ProcessAll(d.state, d.todo), r, d)

ProcessTapping(s, r) == Carried(r, Decision(s, r))

-----------------------------------------------------------------------------
(* The steps *)

\* Mutant: uses the last place, too.
HasAnyRoom(s) == Len(s.buffer) < WAITING_BUFFER_SIZE

HasRoom(s) == Len(s.buffer) < WAITING_BUFFER_SIZE - 1

\* clear_keyboard
Cleared(k) == A!ClearUsagesAndWeakMods([k EXCEPT !.keys = {}, !.real_mods = {}])

\* A record that must wait and finds no room clears all states.
Enqueued(s) ==
    IF s.rec.key = NoKey THEN s
    ELSE IF HasRoom(s) THEN [s EXCEPT !.buffer = Append(@, s.rec)]
    ELSE [s EXCEPT !.kb = Cleared(@), !.buffer = <<>>, !.tapping = NoEvent]

Becomes(s) ==
    /\ kb' = [s.kb EXCEPT !.sent = <<>>]
    /\ source_layers_cache' = s.cache
    /\ tapping_key' = s.tapping
    /\ waiting_buffer' = s.buffer
    /\ oneshot_layer_data' = s.oneshot
    /\ out' = s.out

Exec(r, s) ==
    \E taken \in {ProcessTapping(s, r)} :
    \E next \in {IF taken.done THEN taken ELSE Enqueued(taken)} :
        Becomes(next) /\ draining' = (next.buffer # <<>>)

Press(p) ==
    /\ ~draining /\ p \notin matrix_prev
    /\ matrix_prev' = matrix_prev \cup {p}
    /\ scanned' = TRUE
    /\ Exec(Event(p, TRUE), [State EXCEPT !.kb.weak_mods = {}])

Release(p) ==
    /\ ~draining /\ p \in matrix_prev
    /\ matrix_prev' = matrix_prev \ {p}
    /\ scanned' = TRUE
    /\ Exec(Event(p, FALSE), State)

\* A scan that finds no change: action_exec(TICK).
Tick ==
    /\ ~draining
    /\ scanned' = TRUE
    /\ Exec(NoEvent, State)
    /\ UNCHANGED matrix_prev

Drain ==
    /\ draining
    /\ \E taken \in {ProcessTapping(State, Head(waiting_buffer))} :
       \E next \in {IF taken.done THEN [taken EXCEPT !.buffer = Tail(@)]
                                  ELSE [taken EXCEPT !.buffer[1] = taken.rec]} :
          Becomes(next) /\ draining' = (taken.done /\ next.buffer # <<>>)
    /\ UNCHANGED loopVars

Older(r) == IF r.key = NoKey THEN r ELSE [r EXCEPT !.age = (@ + 1) % Clock]

\* The main loop scans many times in a unit of time; it stops only with no
\* key down: at once without a link, after a long timeout with one.
MayStop ==
    /\ matrix_prev = {}
    /\ ~kb.link \/ (tapping_key = NoEvent /\ waiting_buffer = <<>>)

Pass ==
    /\ ~draining
    /\ scanned \/ MayStop
    /\ tapping_key' = Older(tapping_key)
    /\ waiting_buffer' = [i \in DOMAIN waiting_buffer |-> Older(waiting_buffer[i])]
    /\ scanned' = FALSE
    /\ out' = <<>>
    /\ UNCHANGED <<matrix_prev, source_layers_cache, kb, oneshot_layer_data, draining>>

LinkChange ==
    /\ ~draining
    /\ A!LinkChange
    /\ out' = <<>>
    /\ UNCHANGED <<tapping_key, waiting_buffer, oneshot_layer_data, draining, scanned>>

Next ==
    \/ \E p \in Positions : Press(p) \/ Release(p)
    \/ Tick \/ Drain \/ Pass \/ LinkChange

Spec == Init /\ [][Next]_vars

\* The work thread finishes its loop over the buffer; it scans again unless
\* the keyboard may stop; time passes.
Fairness ==
    /\ []<>(~draining)
    /\ []<>(scanned \/ MayStop)
    /\ SF_vars(Pass)

-----------------------------------------------------------------------------
(* Types; the buffer keeps one place free (action_tapping.c:457).          *)
TypeOK ==
    /\ A!TypeOK
    /\ tapping_key \in Records \cup {NoEvent}
    /\ waiting_buffer \in Seq(Records) /\ Len(waiting_buffer) < WAITING_BUFFER_SIZE
    /\ oneshot_layer_data.layer \in Layers
    /\ oneshot_layer_data.state \subseteq {"pressed", "other"}
    /\ draining => waiting_buffer # <<>>

\* The key whose tap or hold is not decided yet, and the keys of the presses
\* that wait, in the order they were pressed.
UndecidedKey ==
    IF tapping_key.pressed /\ tapping_key.count = 0 THEN <<tapping_key.key>> ELSE <<>>
PressesOf(records) ==
    LET presses[i \in 0..Len(records)] ==
            IF i = 0 THEN <<>>
            ELSE IF records[i].pressed THEN Append(presses[i - 1], records[i].key)
            ELSE presses[i - 1]
    IN  presses[Len(records)]
WaitingPresses == UndecidedKey \o PressesOf(waiting_buffer)

ReleaseWaits(p) == \E i \in DOMAIN waiting_buffer :
                       waiting_buffer[i].key = p /\ ~waiting_buffer[i].pressed

\* What a key whose release has not been processed may have turned on.
HeldActions == {keymaps[source_layers_cache[p]][p] :
                    p \in {q \in Positions : q \in matrix_prev \/ ReleaseWaits(q)}}
CodesOf(a) == IF a.kind \in {"key", "mt", "lt"} THEN {a.code} ELSE {}
ModsOf(a) == IF a.kind \in {"key", "mt"} THEN CodesOf(a) \cup a.mods ELSE {}
LayersOf(a) == IF a.kind \in {"mo", "lt"} THEN {a.layer} ELSE {}

Lockable == {layer \in Layers : \E i \in Layers, p \in Positions :
                /\ keymaps[i][p].kind \in {"tg", "to", "tt", "osl"}
                /\ keymaps[i][p].layer = layer}

(* Every key and modifier the keyboard reports belongs to a key that is    *)
(* down or whose release still waits: whatever was decided, the release    *)
(* undoes what the press did ("Make sure the action triggered when the key *)
(* is released is the same one as the one triggered on press",             *)
(* action_layer.c:262).                                                    *)
KeysAreHeld ==
    /\ \A c \in kb.keys : \E a \in HeldActions : c \in CodesOf(a)
    /\ \A m \in kb.real_mods \cup kb.weak_mods : \E a \in HeldActions : m \in ModsOf(a)

(* Likewise a layer that only momentary and layer-tap keys turn on.        *)
LayersAreHeld ==
    \A layer \in kb.layer_state \ Lockable : \E a \in HeldActions : layer \in LayersOf(a)

\* The press of p is one of the records processed in this step.
PressProcessed == {p \in Positions : \E i \in DOMAIN out' : out'[i].key = p /\ out'[i].pressed}

\* The four ways in which the records go wrong: the buffer is full; a key
\* event is processed before those that wait, because the loop has ended and
\* no key is undecided any more; a mod-tap key, pressed as a modifier when its
\* tap was cancelled, is pressed again when its position means something
\* else; the release that decides a tap is not the first that waits for it.
Overflow == Len(waiting_buffer) = WAITING_BUFFER_SIZE - 1 /\ waiting_buffer' = <<>> /\ ~draining
Overtaking ==
    ~draining /\ UndecidedKey = <<>> /\ waiting_buffer # <<>> /\ matrix_prev' # matrix_prev
PressedAgain ==
    \E p \in PressProcessed :
        /\ UndecidedKey = <<p>>
        /\ \E i \in DOMAIN waiting_buffer : /\ waiting_buffer[i].key = p
                                            /\ waiting_buffer[i].interrupted
        /\ ActionNow(State, p) # keymaps[source_layers_cache[p]][p]
Mispaired ==
    \E i, j \in DOMAIN waiting_buffer' :
        LET r == waiting_buffer'[i] next == waiting_buffer'[j]
        IN  /\ i < j /\ r.key = next.key /\ ~r.pressed /\ ~next.pressed
            /\ r.count = 0 /\ next.count > 0

(* Presses are processed in the order the keys were pressed, each once;    *)
(* only the press of a mod-tap key whose tap was cancelled is processed    *)
(* before its turn ends, and once more when it does.                       *)
InOrder ==
    LET presses == PressesOf(out')
        pressed == SetToSeq(matrix_prev' \ matrix_prev)
    IN  \/ presses \o WaitingPresses' = WaitingPresses \o pressed
        \/ presses = UndecidedKey /\ WaitingPresses' = WaitingPresses \o pressed

(* While the loop scans, tap or hold is decided in the end, for every key  *)
(* and whatever other keys do.                                             *)
Decided == \A p \in Positions : (UndecidedKey = <<p>>) ~> (UndecidedKey # <<p>> \/ MayStop)
=============================================================================
