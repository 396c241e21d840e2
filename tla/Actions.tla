------------------------------ MODULE Actions -------------------------------
(* From a key event to the reports the host is sent: the layers and the    *)
(* source-layer cache (quantum/action_layer.c), the actions (action.c,     *)
(* keymap_common.c), the modifiers and the report (action_util.c,          *)
(* tmk_core/protocol/report.c, host.c), and hog.c, which passes a report   *)
(* on while a link is established.                                         *)
(*                                                                         *)
(* The scan task hands over one key event per call (keyboard.c:443-498).   *)
(* The keymap is a parameter.  It has the kinds of keys this firmware's    *)
(* boards use and the other layer keys, but none whose action depends on   *)
(* how long it is held: those go through action_tapping.c's buffer first,  *)
(* every other event straight to process_record (action_tapping.c:433-441).*)
EXTENDS Integers, Sequences, FiniteSets, FiniteSetsExt

CONSTANTS
    Positions,             \* the keys of the matrix
    Layers,                \* layer numbers
    Codes,                 \* keycodes that take a place in the report
    Mods,                  \* keycodes of modifiers
    KC_NO,                 \* no keycode
    Usages,                \* system and consumer usages
    keymaps,               \* the action of each position in each layer
    KEYBOARD_REPORT_KEYS   \* places in the report (report.h:147)

Pages == {"system", "consumer"}

\* A Bluetooth key does nothing here: process_bluetooth keeps its press to
\* itself, and its release finds ACTION_NO.  It is a "key" with KC_NO.
KeyAction == [kind : {"key"}, mods : SUBSET Mods, code : Codes \cup Mods \cup {KC_NO}]
UsageAction == [kind : {"usage"}, page : Pages, code : Usages]
LayerAction == [kind : {"mo", "tg", "to", "df"}, layer : Layers]
Transparent == [kind |-> "trans"]

ASSUME ActionsAssumption ==
    /\ 0 \in Layers /\ Layers \subseteq Nat
    /\ KC_NO \notin Codes \cup Mods /\ Codes \cap Mods = {}
    /\ 0 \notin Usages
    /\ keymaps \in [Layers -> [Positions ->
                       KeyAction \cup UsageAction \cup LayerAction \cup {Transparent}]]
    /\ KEYBOARD_REPORT_KEYS \in Nat

Reports == [keys : SUBSET Codes, mods : SUBSET Mods]
NoReport == [keys |-> {}, mods |-> {}]
NoUsage == [page \in Pages |-> 0]

Kb == [layer_state : SUBSET Layers, default_layer_state : SUBSET Layers,
       keys : SUBSET Codes, real_mods : SUBSET Mods, weak_mods : SUBSET Mods,
       last_report : Reports, usage : [Pages -> Usages \cup {0}],
       link : BOOLEAN, host : Reports, host_usage : [Pages -> Usages \cup {0}],
       sent : Seq(Reports)]

VARIABLES
    matrix_prev,           \* the keys whose press has been processed
    source_layers_cache,   \* the layer each key was pressed in
    kb                     \* the state the functions below pass along:
                           \*   layer_state, default_layer_state
                           \*   keys         the keys of keyboard_report
                           \*   real_mods, weak_mods
                           \*   last_report  what was handed over last
                           \*   usage        last_system_report, last_consumer_report
                           \*   link         quazi_ble_link_established
                           \*   host, host_usage  what the host at its end believes
                           \*   sent         the reports of the last key event

vars == <<matrix_prev, source_layers_cache, kb>>

Init ==
    /\ matrix_prev = {}
    /\ source_layers_cache = [p \in Positions |-> 0]
    /\ kb = [layer_state |-> {}, default_layer_state |-> {}, keys |-> {},
             real_mods |-> {}, weak_mods |-> {}, last_report |-> NoReport,
             usage |-> NoUsage, link |-> FALSE, host |-> NoReport,
             host_usage |-> NoUsage, sent |-> <<>>]

-----------------------------------------------------------------------------
(* Reports.  Each function takes the state k and returns the state it      *)
(* leaves behind.                                                          *)

Report(k) == [keys |-> k.keys, mods |-> k.real_mods \cup k.weak_mods]

\* Mutant: compares the keys only.
KeysChanged(k) == k.keys # k.last_report.keys

Changed(k) == Report(k) # k.last_report

SendReport(k) ==
    IF Changed(k)
    THEN [k EXCEPT !.last_report = Report(k),
                   !.host = IF k.link THEN Report(k) ELSE @,
                   !.sent = Append(@, Report(k))]
    ELSE k

\* host_system_send and host_consumer_send
SendUsage(k, page, u) ==
    [k EXCEPT !.usage[page] = u,
              !.host_usage[page] = IF k.link /\ k.usage[page] # u THEN u ELSE @]

\* Mutant: one key too many.
HasRoomForOneMore(k) == Cardinality(k.keys) <= KEYBOARD_REPORT_KEYS

HasRoom(k) == Cardinality(k.keys) < KEYBOARD_REPORT_KEYS

\* With no empty place the key is dropped.
AddKey(k, code) == IF HasRoom(k) THEN [k EXCEPT !.keys = @ \cup {code}] ELSE k

DelKey(k, code) == [k EXCEPT !.keys = @ \ {code}]

\* Mutant: without forcing a new key press.
NotFreed(k, code) == k

\* A key that is already pressed is released first.
Freed(k, code) == IF code \in k.keys THEN SendReport(DelKey(k, code)) ELSE k

RegisterCode(k, code) ==
    IF code \in Codes THEN SendReport(AddKey(Freed(k, code), code))
    ELSE IF code \in Mods THEN SendReport([k EXCEPT !.real_mods = @ \cup {code}])
    ELSE k

UnregisterCode(k, code) ==
    IF code \in Codes THEN SendReport(DelKey(k, code))
    ELSE IF code \in Mods THEN SendReport([k EXCEPT !.real_mods = @ \ {code}])
    ELSE k

\* clear_keyboard_but_mods_and_keys
ClearUsagesAndWeakMods(k) ==
    LET cleared == SendUsage(SendUsage(k, "system", 0), "consumer", 0)
    IN  SendReport([cleared EXCEPT !.weak_mods = {}])

LayerStateSet(k, layers) == ClearUsagesAndWeakMods([k EXCEPT !.layer_state = layers])

DefaultLayerSet(k, layers) ==
    ClearUsagesAndWeakMods([k EXCEPT !.default_layer_state = layers])

-----------------------------------------------------------------------------
(* Actions *)

\* The modifiers of a key are real if its code is one too, or is none;
\* otherwise they are weak.
ModsAreReal(a) == a.code \in Mods \cup {KC_NO}

AddMods(k, a) ==
    IF a.mods = {} THEN k
    ELSE SendReport(IF ModsAreReal(a) THEN [k EXCEPT !.real_mods = @ \cup a.mods]
                                      ELSE [k EXCEPT !.weak_mods = @ \cup a.mods])

DelMods(k, a) ==
    IF a.mods = {} THEN k
    ELSE SendReport(IF ModsAreReal(a) THEN [k EXCEPT !.real_mods = @ \ a.mods]
                                      ELSE [k EXCEPT !.weak_mods = @ \ a.mods])

\* process_action, for a press and for a release.
Pressed(k, a) ==
    CASE a.kind = "key"   -> RegisterCode(AddMods(k, a), a.code)
      [] a.kind = "usage" -> SendUsage(k, a.page, a.code)
      [] a.kind = "mo"    -> LayerStateSet(k, k.layer_state \cup {a.layer})
      [] a.kind = "to"    -> LayerStateSet(k, {a.layer})
      [] OTHER            -> k

\* Mutant: inverts the layer, as a toggle does.
MomentaryInvert(k, layer) == SymDiff(k.layer_state, {layer})

MomentaryOff(k, layer) == k.layer_state \ {layer}

Released(k, a) ==
    CASE a.kind = "key"   -> DelMods(UnregisterCode(k, a.code), a)
      [] a.kind = "usage" -> SendUsage(k, a.page, 0)
      [] a.kind = "mo"    -> LayerStateSet(k, MomentaryOff(k, a.layer))
      [] a.kind = "tg"    -> LayerStateSet(k, SymDiff(k.layer_state, {a.layer}))
      [] a.kind = "df"    -> DefaultLayerSet(k, {a.layer})
      [] OTHER            -> k

\* layer_switch_get_layer: the highest layer that is on and not transparent
\* at p, or else layer 0.
IsSource(k, layer, p) ==
    LET opaque == {i \in k.layer_state \cup k.default_layer_state :
                       keymaps[i][p] # Transparent}
    IN  IF opaque = {} THEN layer = 0
        ELSE layer \in opaque /\ \A i \in opaque : i <= layer

\* Mutant: the layer that is on now.
CurrentLayer(p) == CHOOSE layer \in Layers : IsSource(kb, layer, p)

\* read_source_layers_cache
ReleaseLayer(p) == source_layers_cache[p]

-----------------------------------------------------------------------------
(* Key events (action_exec) *)

Press(p) ==
    /\ p \notin matrix_prev
    /\ matrix_prev' = matrix_prev \cup {p}
    /\ \E layer \in Layers :
          /\ IsSource(kb, layer, p)
          /\ source_layers_cache' = [source_layers_cache EXCEPT ![p] = layer]
          /\ kb' = Pressed([kb EXCEPT !.weak_mods = {}, !.sent = <<>>], keymaps[layer][p])

Release(p) ==
    /\ p \in matrix_prev
    /\ matrix_prev' = matrix_prev \ {p}
    /\ kb' = Released([kb EXCEPT !.sent = <<>>], keymaps[ReleaseLayer(p)][p])
    /\ UNCHANGED source_layers_cache

\* The link with the host is established, or gone: the host starts and ends
\* with nothing pressed.
LinkChange ==
    /\ kb' = [kb EXCEPT !.link = ~@, !.host = NoReport, !.host_usage = NoUsage,
                        !.sent = <<>>]
    /\ UNCHANGED <<matrix_prev, source_layers_cache>>

Next == LinkChange \/ \E p \in Positions : Press(p) \/ Release(p)

Spec == Init /\ [][Next]_vars

-----------------------------------------------------------------------------
(* Types; the report has no more keys than places. *)
TypeOK ==
    /\ matrix_prev \subseteq Positions
    /\ source_layers_cache \in [Positions -> Layers]
    /\ kb \in Kb
    /\ IsFiniteSet(kb.keys) /\ Cardinality(kb.keys) <= KEYBOARD_REPORT_KEYS

\* The action a key that is down was pressed with.
HeldAction(p) == keymaps[source_layers_cache[p]][p]
HeldKeys == {a \in {HeldAction(p) : p \in matrix_prev} : a.kind = "key"}
HeldUsages == {a \in {HeldAction(p) : p \in matrix_prev} : a.kind = "usage"}

RealMods(a) == IF ModsAreReal(a) THEN a.mods \cup ({a.code} \cap Mods) ELSE {}
WeakMods(a) == IF ModsAreReal(a) THEN {} ELSE a.mods

(* Whatever layers come and go, each key and each modifier the keyboard    *)
(* reports, and each usage, is that of a key which is down: the release    *)
(* undoes what the press did ("Make sure the action triggered when the key *)
(* is released is the same one as the one triggered on press",             *)
(* action_layer.c:262).                                                    *)
ReportIsHeld ==
    /\ \A c \in kb.keys : \E a \in HeldKeys : c = a.code
    /\ \A m \in kb.real_mods : \E a \in HeldKeys : m \in RealMods(a)
    /\ \A m \in kb.weak_mods : \E a \in HeldKeys : m \in WeakMods(a)
    /\ \A page \in Pages : kb.usage[page] # 0 =>
          \E a \in HeldUsages : a.page = page /\ a.code = kb.usage[page]

(* And so it is at the host: reports that were not sent because they       *)
(* changed nothing, or were lost without a link, leave no key stuck.       *)
HostIsHeld ==
    /\ \A c \in kb.host.keys : \E a \in HeldKeys : c = a.code
    /\ \A m \in kb.host.mods : \E a \in HeldKeys : m \in RealMods(a) \cup WeakMods(a)
    /\ \A page \in Pages : kb.host_usage[page] # 0 =>
          \E a \in HeldUsages : a.page = page /\ a.code = kb.host_usage[page]

\* Layers that a key can turn on for good.
Lockable == {layer \in Layers : \E i \in Layers, p \in Positions :
                /\ keymaps[i][p].kind \in {"tg", "to"}
                /\ keymaps[i][p].layer = layer}

(* A layer that only momentary keys turn on is on only while such a key is *)
(* down, in whatever order momentary, toggle and goto keys are used.       *)
LayerIsHeld ==
    \A layer \in kb.layer_state \ Lockable :
        \E p \in matrix_prev : HeldAction(p) = [kind |-> "mo", layer |-> layer]

\* One of the reports sent has c newly pressed, with exactly the modifiers m.
Typed(c, m, before, sent) ==
    \E i \in 1..Len(sent) :
        /\ c \in sent[i].keys /\ sent[i].mods = m
        /\ c \notin (IF i = 1 THEN before ELSE sent[i - 1]).keys

(* A key press is typed, with the modifiers that are held and its own, and *)
(* with no other key's, even if another key with the same code is down: as *)
(* the comment in register_code has it, "keys with the same keycode, but   *)
(* different modifiers" (action.c:862).                                    *)
PressIsTyped ==
    [][\A p \in matrix_prev' \ matrix_prev :
          LET a == HeldAction(p)'
          IN  /\ a.kind = "key" /\ a.code \in Codes
              /\ a.code \in kb.keys \/ HasRoom(kb)
              => Typed(a.code, kb.real_mods \cup a.mods, kb.last_report, kb'.sent)]_vars
=============================================================================
