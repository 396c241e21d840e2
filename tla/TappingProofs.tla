---------------------------- MODULE TappingProofs ----------------------------
(***************************************************************************)
(* Theorems about Tapping, for every keymap, number of keys and layers,    *)
(* tapping term, size of the buffer and period of the clock.               *)
(***************************************************************************)
EXTENDS SysWorkQProofs, FiniteSetTheorems, Tapping

-----------------------------------------------------------------------------
(* The lemmas about Actions hold of the actions that are left once tap or  *)
(* hold is decided, whatever the keymap: they are taken for one that only  *)
(* has transparent keys.                                                   *)
ActionLemmas == INSTANCE ActionsProofs WITH
    keymaps <- [layer \in Layers |-> [p \in Positions |-> [kind |-> "trans"]]]

LEMMA ActionParameters ==
    /\ 0 \in Layers /\ Layers \subseteq Nat
    /\ KC_NO \notin Codes \cup Mods /\ Codes \cap Mods = {}
    /\ 0 \notin Usages
    /\ [layer \in Layers |-> [p \in Positions |-> [kind |-> "trans"]]]
          \in [Layers -> [Positions ->
                  ActionLemmas!KeyAction \cup ActionLemmas!UsageAction
                    \cup ActionLemmas!LayerAction \cup {ActionLemmas!Transparent}]]
    /\ KEYBOARD_REPORT_KEYS \in Nat
  BY TappingAssumption DEF ActionLemmas!Transparent

\* The states of the report and the layers, with no more keys than places.
Kbs == {k \in ActionLemmas!Kb : ActionLemmas!Fits(k)}

\* The functions of Actions do not depend on the keymap.
LEMMA SameReport ==
    \A k : A!SendReport(k) = ActionLemmas!SendReport(k)
  BY Zenon
     DEF A!SendReport, ActionLemmas!SendReport, A!Changed, ActionLemmas!Changed, A!Report, ActionLemmas!Report

LEMMA SameUsage ==
    \A k, page, u : A!SendUsage(k, page, u) = ActionLemmas!SendUsage(k, page, u)
  BY Zenon
     DEF A!SendUsage, ActionLemmas!SendUsage

LEMMA SameClear ==
    \A k : A!ClearUsagesAndWeakMods(k) = ActionLemmas!ClearUsagesAndWeakMods(k)
  BY SameReport, SameUsage, Zenon
     DEF A!ClearUsagesAndWeakMods, ActionLemmas!ClearUsagesAndWeakMods

LEMMA SameLayers ==
    \A k, layers : A!LayerStateSet(k, layers) = ActionLemmas!LayerStateSet(k, layers)
  BY SameClear, Zenon
     DEF A!LayerStateSet, ActionLemmas!LayerStateSet

LEMMA SameDefault ==
    \A k, layers : A!DefaultLayerSet(k, layers) = ActionLemmas!DefaultLayerSet(k, layers)
  BY SameClear, Zenon
     DEF A!DefaultLayerSet, ActionLemmas!DefaultLayerSet

LEMMA SameRoom ==
    \A k : A!HasRoom(k) <=> ActionLemmas!HasRoom(k)
  BY Zenon
     DEF A!HasRoom, ActionLemmas!HasRoom, A!Cardinality, ActionLemmas!Cardinality

LEMMA SameAdd ==
    \A k, code : A!AddKey(k, code) = ActionLemmas!AddKey(k, code)
  BY SameRoom, Zenon
     DEF A!AddKey, ActionLemmas!AddKey

LEMMA SameDel ==
    \A k, code : A!DelKey(k, code) = ActionLemmas!DelKey(k, code)
  BY Zenon
     DEF A!DelKey, ActionLemmas!DelKey

LEMMA SameFreed ==
    \A k, code : A!Freed(k, code) = ActionLemmas!Freed(k, code)
  BY SameReport, SameDel, Zenon
     DEF A!Freed, ActionLemmas!Freed

LEMMA SameRegister ==
    \A k, code : A!RegisterCode(k, code) = ActionLemmas!RegisterCode(k, code)
  BY SameReport, SameAdd, SameFreed, Zenon
     DEF A!RegisterCode, ActionLemmas!RegisterCode

LEMMA SameUnregister ==
    \A k, code : A!UnregisterCode(k, code) = ActionLemmas!UnregisterCode(k, code)
  BY SameReport, SameDel, Zenon
     DEF A!UnregisterCode, ActionLemmas!UnregisterCode

LEMMA SameAddMods ==
    \A k, a : A!AddMods(k, a) = ActionLemmas!AddMods(k, a)
  BY SameReport, Zenon
     DEF A!AddMods, ActionLemmas!AddMods, A!ModsAreReal, ActionLemmas!ModsAreReal

LEMMA SameDelMods ==
    \A k, a : A!DelMods(k, a) = ActionLemmas!DelMods(k, a)
  BY SameReport, Zenon
     DEF A!DelMods, ActionLemmas!DelMods, A!ModsAreReal, ActionLemmas!ModsAreReal

LEMMA SamePressed ==
    \A k, a : A!Pressed(k, a) = ActionLemmas!Pressed(k, a)
  BY SameRegister, SameAddMods, SameUsage, SameLayers, Zenon
     DEF A!Pressed, ActionLemmas!Pressed

LEMMA SameReleased ==
    \A k, a : A!Released(k, a) = ActionLemmas!Released(k, a)
  BY SameUnregister, SameDelMods, SameUsage, SameLayers, SameDefault, Zenon
     DEF A!Released, ActionLemmas!Released, A!MomentaryOff, ActionLemmas!MomentaryOff, A!SymDiff, ActionLemmas!SymDiff

\* Each of them keeps the types and the places of the report.
LEMMA KbFacts ==
    ASSUME NEW k \in Kbs
    PROVE  /\ k \in ActionLemmas!Kb /\ ActionLemmas!Fits(k)
           /\ ActionLemmas!Within(k, Codes \cup Mods \cup {KC_NO}, Mods, Mods)
           /\ ActionLemmas!UsagesWithin(k, ActionLemmas!UsageAction)
  <1>1. k \in ActionLemmas!Kb /\ ActionLemmas!Fits(k)
    BY DEF Kbs
  <1>2. ActionLemmas!Within(k, Codes \cup Mods \cup {KC_NO}, Mods, Mods)
    BY <1>1, ActionParameters, ActionLemmas!WithinTypes DEF ActionLemmas!Within
  <1>3. ActionLemmas!UsagesWithin(k, ActionLemmas!UsageAction)
    <2>1. SUFFICES ASSUME NEW page \in ActionLemmas!Pages, k.usage[page] # 0
                   PROVE  \E a \in ActionLemmas!UsageAction :
                             a.page = page /\ a.code = k.usage[page]
      BY DEF ActionLemmas!UsagesWithin
    <2>2. k.usage[page] \in Usages
      BY <1>1, <2>1 DEF ActionLemmas!Kb
    <2> DEFINE a == [kind |-> "usage", page |-> page, code |-> k.usage[page]]
    <2>3. a \in ActionLemmas!UsageAction
      BY <2>2 DEF ActionLemmas!UsageAction
    <2> QED
      BY <2>3
  <1> QED
    BY <1>1, <1>2, <1>3

LEMMA KbPressed ==
    ASSUME NEW k \in Kbs, NEW a \in ActionLemmas!AnyAction
    PROVE  A!Pressed(k, a) \in Kbs
  <1> DEFINE C == Codes \cup Mods \cup {KC_NO}
             U == ActionLemmas!UsageAction
  <1>1. /\ a.kind = "key" => a \in ActionLemmas!KeyAction
        /\ a.kind = "usage" => a \in U
    BY ActionParameters, ActionLemmas!ActionKinds
  <1>2. a.kind = "key" => /\ a.code \in C
                          /\ ActionLemmas!RealMods(a) \subseteq Mods
                          /\ ActionLemmas!WeakMods(a) \subseteq Mods
    BY <1>1, ActionParameters, ActionLemmas!ModsTypes DEF ActionLemmas!KeyAction
  <1>3. /\ k \in ActionLemmas!Kb /\ ActionLemmas!Fits(k)
        /\ ActionLemmas!Within(k, C, Mods, Mods) /\ ActionLemmas!UsagesWithin(k, U)
    BY KbFacts
  <1> HIDE DEF C, U
  <1>4. /\ ActionLemmas!Pressed(k, a) \in ActionLemmas!Kb
        /\ ActionLemmas!Fits(k) => ActionLemmas!Fits(ActionLemmas!Pressed(k, a))
    BY <1>1, <1>2, <1>3, ActionParameters, ActionLemmas!PressedFacts
  <1> QED
    BY <1>3, <1>4, SamePressed DEF Kbs

LEMMA KbReleased ==
    ASSUME NEW k \in Kbs, NEW a \in ActionLemmas!AnyAction
    PROVE  A!Released(k, a) \in Kbs
  <1> DEFINE C == Codes \cup Mods \cup {KC_NO}
             U == ActionLemmas!UsageAction
  <1>1. /\ k \in ActionLemmas!Kb /\ ActionLemmas!Fits(k)
        /\ ActionLemmas!Within(k, C, Mods, Mods) /\ ActionLemmas!UsagesWithin(k, U)
    BY KbFacts
  <1>2. /\ ActionLemmas!Within(k, C \cup ({a.code} \cap Codes),
                                Mods \cup ActionLemmas!RealMods(a),
                                Mods \cup ActionLemmas!WeakMods(a))
        /\ ActionLemmas!UsagesWithin(k, U \cup {a})
    BY <1>1 DEF ActionLemmas!Within, ActionLemmas!UsagesWithin
  <1> HIDE DEF C, U
  <1>3. /\ ActionLemmas!Released(k, a) \in ActionLemmas!Kb
        /\ ActionLemmas!Fits(k) => ActionLemmas!Fits(ActionLemmas!Released(k, a))
    BY <1>1, <1>2, ActionParameters, ActionLemmas!ReleasedFacts
  <1> QED
    BY <1>1, <1>3, SameReleased DEF Kbs

LEMMA KbLayers ==
    ASSUME NEW k \in Kbs, NEW layers \in SUBSET Layers
    PROVE  A!LayerStateSet(k, layers) \in Kbs
  BY KbFacts, ActionParameters, ActionLemmas!LayerStateSetFacts, SameLayers DEF Kbs

LEMMA KbCleared ==
    ASSUME NEW k \in Kbs
    PROVE  Cleared(k) \in Kbs
  <1> DEFINE n == [k EXCEPT !.keys = {}, !.real_mods = {}]
             C == Codes \cup Mods \cup {KC_NO}
  <1>1. k \in ActionLemmas!Kb /\ ActionLemmas!Within(k, C, Mods, Mods)
    BY KbFacts
  <1>2. n \in ActionLemmas!Kb /\ ActionLemmas!Within(n, C, Mods, Mods)
    BY <1>1 DEF ActionLemmas!Kb, ActionLemmas!Within
  <1>3. ActionLemmas!Fits(n)
    <2>1. n.keys = {}
      BY <1>1 DEF ActionLemmas!Kb
    <2>2. IsFiniteSet({}) /\ Cardinality({}) = 0 /\ KEYBOARD_REPORT_KEYS \in Nat
      BY FS_EmptySet, TappingAssumption
    <2>3. ActionLemmas!IsFiniteSet({}) /\ ActionLemmas!Cardinality({}) = 0
      BY <2>2, Zenon DEF IsFiniteSet, Cardinality, ActionLemmas!IsFiniteSet, ActionLemmas!Cardinality
    <2> QED
      BY <2>1, <2>2, <2>3 DEF ActionLemmas!Fits
  <1> HIDE DEF n, C
  <1>4. LET c == ActionLemmas!ClearUsagesAndWeakMods(n)
        IN  c \in ActionLemmas!Kb /\ (ActionLemmas!Fits(n) => ActionLemmas!Fits(c))
    BY <1>2, ActionParameters, ActionLemmas!ClearFacts
  <1> QED
    BY <1>3, <1>4, SameClear DEF Kbs, Cleared, n

\* The start of a key event and a change of the link.
LEMMA KbBegin ==
    ASSUME NEW k \in Kbs
    PROVE  /\ [k EXCEPT !.sent = <<>>] \in Kbs
           /\ [k EXCEPT !.weak_mods = {}] \in Kbs
           /\ [k EXCEPT !.link = ~@, !.host = A!NoReport, !.host_usage = A!NoUsage,
                        !.sent = <<>>] \in Kbs
  <1>1. k \in ActionLemmas!Kb /\ ActionLemmas!Fits(k)
    BY KbFacts
  <1>2. /\ <<>> \in Seq(ActionLemmas!Reports) /\ A!NoReport \in ActionLemmas!Reports
        /\ A!NoUsage \in [ActionLemmas!Pages -> Usages \cup {0}]
    BY DEF A!NoReport, ActionLemmas!Reports, A!NoUsage, A!Pages, ActionLemmas!Pages
  <1> QED
    BY <1>1, <1>2 DEF Kbs, ActionLemmas!Kb, ActionLemmas!Fits

-----------------------------------------------------------------------------
(* Types of the state that is passed along *)

RecordsOrNone == Records \cup {NoEvent}
Oneshots == [layer : Layers, state : SUBSET {"pressed", "other"}]
Processed == [key : Positions, pressed : BOOLEAN, tap : BOOLEAN]
KeymapActions == TapActions \cup A!KeyAction \cup A!UsageAction \cup A!LayerAction
                   \cup {A!Transparent}

States == [kb : Kbs, cache : [Positions -> Layers], tapping : RecordsOrNone,
           buffer : Seq(Records), oneshot : Oneshots, out : Seq(Processed),
           rec : RecordsOrNone, done : BOOLEAN]

(* n comes from s by processing records: the tapping key and the buffer    *)
(* are the same.                                                           *)
Keeps(n, s) == n.tapping = s.tapping /\ n.buffer = s.buffer

LEMMA KeymapType ==
    ASSUME NEW layer \in Layers, NEW p \in Positions
    PROVE  keymaps[layer][p] \in KeymapActions
  BY TappingAssumption DEF KeymapActions

LEMMA ResolvedType ==
    ASSUME NEW a \in KeymapActions, a.kind \notin {"tt", "osl"}, NEW count
    PROVE  Resolved(a, count) \in ActionLemmas!AnyAction
  BY DEF Resolved, KeymapActions, TapActions, ActionLemmas!AnyAction, A!KeyAction,
         A!UsageAction, A!LayerAction, A!Transparent, ActionLemmas!KeyAction,
         ActionLemmas!UsageAction, ActionLemmas!LayerAction, ActionLemmas!Transparent,
         A!Pages, ActionLemmas!Pages

LEMMA ActionLayer ==
    ASSUME NEW a \in KeymapActions, a.kind \in {"tt", "osl", "lt"}
    PROVE  a.layer \in Layers
  BY DEF KeymapActions, TapActions, A!KeyAction, A!UsageAction, A!LayerAction, A!Transparent

\* Setting a part of the state.
LEMMA SetKb ==
    ASSUME NEW s \in States, NEW k \in Kbs
    PROVE  /\ [s EXCEPT !.kb = k] \in States /\ Keeps([s EXCEPT !.kb = k], s)
           /\ [s EXCEPT !.kb = k].oneshot = s.oneshot /\ [s EXCEPT !.kb = k].rec = s.rec
           /\ [s EXCEPT !.kb = k].kb = k
  BY DEF States, Keeps

LEMMA SetRec ==
    ASSUME NEW s \in States, NEW r \in RecordsOrNone
    PROVE  /\ [s EXCEPT !.rec = r] \in States /\ Keeps([s EXCEPT !.rec = r], s)
           /\ [s EXCEPT !.rec = r].rec = r
  BY DEF States, Keeps

LEMMA SetOneshot ==
    ASSUME NEW s \in States, NEW o \in Oneshots
    PROVE  /\ [s EXCEPT !.oneshot = o] \in States /\ Keeps([s EXCEPT !.oneshot = o], s)
           /\ [s EXCEPT !.oneshot = o].rec = s.rec
  BY DEF States, Keeps

-----------------------------------------------------------------------------
(* Processing a record *)

\* The layers.
LEMMA LayerFacts ==
    ASSUME NEW s \in States, NEW layer \in Layers,
           NEW n \in {LayerOn(s, layer), LayerOff(s, layer), LayerInvert(s, layer)}
    PROVE  n \in States /\ Keeps(n, s) /\ n.oneshot = s.oneshot /\ n.rec = s.rec
  <1>1. s.kb \in Kbs /\ s.kb.layer_state \in SUBSET Layers
    BY DEF States, Kbs, ActionLemmas!Kb
  <1>2. /\ s.kb.layer_state \cup {layer} \in SUBSET Layers
        /\ s.kb.layer_state \ {layer} \in SUBSET Layers
        /\ SymDiff(s.kb.layer_state, {layer}) \in SUBSET Layers
    BY <1>1 DEF SymDiff
  <1>3. \E k \in Kbs : n = [s EXCEPT !.kb = k]
    BY <1>1, <1>2, KbLayers DEF LayerOn, LayerOff, LayerInvert
  <1> QED
    BY <1>3, SetKb

LEMMA ClearOneshotFacts ==
    ASSUME NEW s \in States, NEW bits
    PROVE  /\ ClearOneshot(s, bits) \in States /\ Keeps(ClearOneshot(s, bits), s)
           /\ ClearOneshot(s, bits).rec = s.rec
  <1> DEFINE left == s.oneshot.state \ bits
             off == LayerOff(s, s.oneshot.layer)
  <1>1. s.oneshot.layer \in Layers /\ s.oneshot \in Oneshots
    BY DEF States, Oneshots
  <1>2. CASE left # {} \/ s.oneshot.state = {}
    <2>1. [s.oneshot EXCEPT !.state = left] \in Oneshots
      BY <1>1 DEF Oneshots
    <2>2. ClearOneshot(s, bits) = [s EXCEPT !.oneshot = [s.oneshot EXCEPT !.state = left]]
      BY <1>2 DEF ClearOneshot
    <2> QED
      BY <2>1, <2>2, SetOneshot
  <1>3. CASE ~(left # {} \/ s.oneshot.state = {})
    <2>1. off \in States /\ Keeps(off, s) /\ off.rec = s.rec
      BY <1>1, LayerFacts
    <2>2. NoOneshot \in Oneshots
      BY TappingAssumption DEF NoOneshot, Oneshots
    <2>3. ClearOneshot(s, bits) = [off EXCEPT !.oneshot = NoOneshot]
      BY <1>3 DEF ClearOneshot
    <2> HIDE DEF off
    <2> QED
      BY <2>1, <2>2, <2>3, SetOneshot DEF Keeps
  <1> QED
    BY <1>2, <1>3

LEMMA ApplyFacts ==
    ASSUME NEW s \in States, NEW r \in Records, NEW a \in KeymapActions,
           a.kind \notin {"tt", "osl"}
    PROVE  Apply(s, r, a) \in States /\ Keeps(Apply(s, r, a), s) /\ Apply(s, r, a).rec = r
  <1>1. s.kb \in Kbs /\ Resolved(a, r.count) \in ActionLemmas!AnyAction
    BY ResolvedType DEF States
  <1> DEFINE k == IF r.pressed THEN A!Pressed(s.kb, Resolved(a, r.count))
                               ELSE A!Released(s.kb, Resolved(a, r.count))
  <1>2. k \in Kbs
    BY <1>1, KbPressed, KbReleased
  <1>3. Apply(s, r, a) = [s EXCEPT !.kb = k, !.rec = r]
    BY DEF Apply
  <1> HIDE DEF k
  <1> QED
    BY <1>2, <1>3 DEF States, RecordsOrNone, Keeps

LEMMA TapToggleFacts ==
    ASSUME NEW s \in States, NEW r \in Records, NEW a \in KeymapActions, a.kind = "tt"
    PROVE  TapToggle(s, r, a) \in States /\ Keeps(TapToggle(s, r, a), s)
           /\ TapToggle(s, r, a).rec = r
  <1>1. a.layer \in Layers
    BY ActionLayer
  <1>2. \E n \in {LayerInvert(s, a.layer), s} : TapToggle(s, r, a) = [n EXCEPT !.rec = r]
    BY DEF TapToggle
  <1>3. \A n \in {LayerInvert(s, a.layer), s} : n \in States /\ Keeps(n, s)
    BY <1>1, LayerFacts DEF Keeps
  <1> QED
    BY <1>2, <1>3, SetRec DEF RecordsOrNone, Keeps

LEMMA OneshotLayerFacts ==
    ASSUME NEW s \in States, NEW r \in Records, NEW a \in KeymapActions, a.kind = "osl"
    PROVE  OneshotLayer(s, r, a) \in States /\ Keeps(OneshotLayer(s, r, a), s)
           /\ OneshotLayer(s, r, a).rec = r
  <1>1. a.layer \in Layers
    BY ActionLayer
  <1>2. CASE r.pressed
    <2> DEFINE on == LayerOn(LayerOn(s, a.layer), a.layer)
               o == [layer |-> a.layer, state |-> {"pressed", "other"}]
    <2>1. on \in States /\ Keeps(on, s)
      BY <1>1, LayerFacts DEF Keeps
    <2>2. o \in Oneshots
      BY <1>1 DEF Oneshots
    <2>3. OneshotLayer(s, r, a) = [on EXCEPT !.oneshot = o, !.rec = r]
      BY <1>2 DEF OneshotLayer
    <2> HIDE DEF on, o
    <2> QED
      BY <2>1, <2>2, <2>3 DEF States, RecordsOrNone, Keeps
  <1>3. CASE ~r.pressed
    <2> DEFINE let_go == ClearOneshot(s, {"pressed"})
    <2>1. let_go \in States /\ Keeps(let_go, s)
      BY ClearOneshotFacts
    <2>2. \E n \in {ClearOneshot(let_go, {"other"}), let_go} :
             OneshotLayer(s, r, a) = [n EXCEPT !.rec = r]
      BY <1>3 DEF OneshotLayer
    <2> HIDE DEF let_go
    <2>3. \A n \in {ClearOneshot(let_go, {"other"}), let_go} : n \in States /\ Keeps(n, s)
      BY <2>1, ClearOneshotFacts DEF Keeps
    <2> QED
      BY <2>2, <2>3, SetRec DEF RecordsOrNone, Keeps
  <1> QED
    BY <1>2, <1>3

LEMMA SwitchFacts ==
    ASSUME NEW s \in States, NEW r \in Records, NEW a \in KeymapActions
    PROVE  /\ Switch(s, r, a) \in States /\ Keeps(Switch(s, r, a), s)
           /\ Switch(s, r, a).rec \in Records
  <1>1. Cancelled(r, a) \in Records
    BY TappingAssumption DEF Cancelled, Records
  <1>2. CASE a.kind = "tt"
    BY <1>2, TapToggleFacts DEF Switch
  <1>3. CASE a.kind = "osl"
    BY <1>3, OneshotLayerFacts DEF Switch
  <1>4. CASE a.kind \notin {"tt", "osl"}
    BY <1>1, <1>4, ApplyFacts DEF Switch
  <1> QED
    BY <1>2, <1>3, <1>4

\* A finite set of layers that is not empty has a highest one.
LEMMA Highest ==
    ASSUME NEW S \in SUBSET Layers, S # {}
    PROVE  \E m \in S : \A i \in S : i <= m
  <1> DEFINE Above(x) == {i \in S : i > x}
             Sizes == {Cardinality(Above(x)) : x \in S}
  <1>1. S \in SUBSET Nat /\ IsFiniteSet(S)
    BY TappingAssumption, FS_Subset
  <1>2. \A x \in S : IsFiniteSet(Above(x)) /\ Cardinality(Above(x)) \in Nat
    BY <1>1, FS_Subset, FS_CardinalityType
  <1>3. PICK n \in Sizes : \A m \in Sizes : n <= m
    <2>1. Sizes \subseteq Nat /\ Sizes # {}
      BY <1>2
    <2> HIDE DEF Sizes
    <2> QED
      BY <2>1, Smallest
  <1>4. PICK x \in S : \A y \in S : Cardinality(Above(x)) <= Cardinality(Above(y))
    BY <1>3
  <1>5. Above(x) = {}
    <2> SUFFICES ASSUME NEW y \in Above(x) PROVE FALSE
      OBVIOUS
    <2>1. y \in S /\ x \in Nat /\ y \in Nat /\ y > x
      BY <1>1
    <2>2. Above(y) \in SUBSET Above(x) /\ y \notin Above(y)
      <3>1. \A i \in S : i > y => i > x
        BY <1>1, <2>1
      <3>2. ~(y > y)
        BY <2>1
      <3> QED
        BY <3>1, <3>2, Zenon
    <2>3. Above(y) # Above(x)
      BY <2>2
    <2>4. Cardinality(Above(y)) < Cardinality(Above(x))
      <3> HIDE DEF Above
      <3>1. /\ Cardinality(Above(y)) <= Cardinality(Above(x))
            /\ Cardinality(Above(x)) = Cardinality(Above(y)) => Above(x) = Above(y)
        BY <1>2, <2>2, FS_Subset
      <3> QED
        BY <1>2, <2>1, <2>3, <3>1
    <2> QED
      BY <1>2, <1>4, <2>1, <2>4
  <1> QED
    BY <1>1, <1>5

LEMMA SourceFacts ==
    ASSUME NEW s \in States, NEW p \in Positions
    PROVE  SourceLayer(s, p) \in Layers /\ A!IsSource(s.kb, SourceLayer(s, p), p)
  <1> DEFINE opaque == {i \in s.kb.layer_state \cup s.kb.default_layer_state :
                            keymaps[i][p] # A!Transparent}
  <1>1. opaque \in SUBSET Layers /\ 0 \in Layers
    BY TappingAssumption DEF States, Kbs, ActionLemmas!Kb
  <1>2. \E layer \in Layers : A!IsSource(s.kb, layer, p)
    <2>1. CASE opaque = {}
      BY <1>1, <2>1 DEF A!IsSource
    <2>2. CASE opaque # {}
      <3>1. PICK m \in opaque : \A i \in opaque : i <= m
        BY <1>1, <2>2, Highest
      <3> QED
        BY <1>1, <2>2, <3>1 DEF A!IsSource
    <2> QED
      BY <2>1, <2>2
  <1> QED
    BY <1>2 DEF SourceLayer

LEMMA LookupFacts ==
    ASSUME NEW s \in States, NEW r \in Records
    PROVE  /\ Lookup(s, r) \in States /\ Keeps(Lookup(s, r), s)
           /\ keymaps[Lookup(s, r).cache[r.key]][r.key] \in KeymapActions
  <1> DEFINE layer == IF r.pressed THEN SourceLayer(s, r.key) ELSE s.cache[r.key]
             o == [key |-> r.key, pressed |-> r.pressed, tap |-> r.count > 0]
  <1>1. r.key \in Positions /\ layer \in Layers
    BY SourceFacts DEF Records, States
  <1>2. o \in Processed
    BY DEF Records, Processed
  <1>3. Lookup(s, r) = [s EXCEPT !.cache = [s.cache EXCEPT ![r.key] = layer],
                                 !.out = Append(s.out, o)]
    BY DEF Lookup, States
  <1> HIDE DEF layer, o
  <1>4. s.cache \in [Positions -> Layers] /\ s.out \in Seq(Processed)
    BY DEF States
  <1>5. /\ [s.cache EXCEPT ![r.key] = layer] \in [Positions -> Layers]
        /\ Append(s.out, o) \in Seq(Processed)
    BY <1>1, <1>2, <1>4
  <1>6. Lookup(s, r) \in States /\ Keeps(Lookup(s, r), s)
    BY <1>3, <1>5 DEF States, Keeps
  <1>7. Lookup(s, r).cache[r.key] \in Layers
    BY <1>1, <1>6 DEF States
  <1> QED
    BY <1>1, <1>6, <1>7, KeymapType

LEMMA ProcessFacts ==
    ASSUME NEW s \in States, NEW r \in Records
    PROVE  Process(s, r) \in States /\ Keeps(Process(s, r), s)
  BY LookupFacts, SwitchFacts DEF Process, Keeps

LEMMA ReleaseOneshotFacts ==
    ASSUME NEW s \in States, s.rec \in Records
    PROVE  ReleaseOneshot(s) \in States /\ Keeps(ReleaseOneshot(s), s)
  <1> DEFINE on == LayerOn(s, s.oneshot.layer)
             r == [s.rec EXCEPT !.pressed = FALSE]
             released == Process(on, r)
  <1>1. \A n \in States : n.oneshot.layer \in Layers
    BY DEF States, Oneshots
  <1>2. on \in States /\ Keeps(on, s)
    BY <1>1, LayerFacts
  <1>3. r \in Records
    BY DEF Records
  <1>4. released \in States /\ Keeps(released, on)
    BY <1>2, <1>3, ProcessFacts
  <1>5. ReleaseOneshot(s) = LayerOff(released, released.oneshot.layer)
    BY DEF ReleaseOneshot
  <1> HIDE DEF on, released
  <1>6. LayerOff(released, released.oneshot.layer) \in States
        /\ Keeps(LayerOff(released, released.oneshot.layer), released)
    BY <1>1, <1>4, LayerFacts
  <1> QED
    BY <1>2, <1>4, <1>5, <1>6 DEF Keeps

LEMMA ProcessRecordFacts ==
    ASSUME NEW s \in States, NEW r \in RecordsOrNone
    PROVE  ProcessRecord(s, r) \in States /\ Keeps(ProcessRecord(s, r), s)
  <1>1. CASE r.key = NoKey
    BY <1>1, SetRec DEF ProcessRecord
  <1>2. CASE r.key # NoKey
    <2> DEFINE found == Lookup(s, r)
               a == keymaps[found.cache[r.key]][r.key]
               clears == s.oneshot.state # {} /\ r.pressed /\ ~IsModAction(a)
               cleared == IF clears THEN ClearOneshot(found, {"other"}) ELSE found
               switched == Switch(cleared, r, a)
    <2>1. r \in Records
      BY <1>2 DEF RecordsOrNone, NoEvent
    <2>2. found \in States /\ Keeps(found, s) /\ a \in KeymapActions
      BY <2>1, LookupFacts
    <2>3. ProcessRecord(s, r) \in {ReleaseOneshot(switched), switched}
      BY <1>2 DEF ProcessRecord
    <2> HIDE DEF found, a, clears
    <2>4. cleared \in States /\ Keeps(cleared, found)
      BY <2>2, ClearOneshotFacts DEF Keeps
    <2> HIDE DEF cleared
    <2>5. switched \in States /\ Keeps(switched, cleared) /\ switched.rec \in Records
      BY <2>1, <2>2, <2>4, SwitchFacts
    <2> HIDE DEF switched
    <2>6. ReleaseOneshot(switched) \in States /\ Keeps(ReleaseOneshot(switched), switched)
      BY <2>5, ReleaseOneshotFacts
    <2> QED
      BY <2>2, <2>3, <2>4, <2>5, <2>6 DEF Keeps
  <1> QED
    BY <1>1, <1>2

\* A decision has one record to process, two, or none.
LEMMA ProcessAllIs ==
    ASSUME NEW s, NEW todo \in Seq(RecordsOrNone), Len(todo) \in {0, 1, 2}
    PROVE  /\ Len(todo) = 0 => ProcessAll(s, todo) = s
           /\ Len(todo) = 1 => ProcessAll(s, todo) = ProcessRecord(s, todo[1])
           /\ Len(todo) = 2 =>
                 ProcessAll(s, todo) = ProcessRecord(ProcessRecord(s, todo[1]), todo[2])
  <1> DEFINE Step(f, i) == IF i = 0 THEN s ELSE ProcessRecord(f[i - 1], todo[i])
             Is(f) == f = [i \in 0..Len(todo) |-> Step(f, i)]
             f0 == [i \in 0..Len(todo) |->
                       IF i = 0 THEN s
                       ELSE IF i = 1 THEN ProcessRecord(s, todo[1])
                       ELSE ProcessRecord(ProcessRecord(s, todo[1]), todo[2])]
  <1>2. Is(f0)
    OBVIOUS
  <1>3. ProcessAll(s, todo) = (CHOOSE f : Is(f))[Len(todo)]
    BY DEF ProcessAll
  <1> DEFINE after == CHOOSE f : Is(f)
  <1>4. Is(after)
    BY <1>2
  <1> HIDE DEF after, f0
  <1>5. /\ after[0] = s
        /\ Len(todo) \in {1, 2} => after[1] = ProcessRecord(after[0], todo[1])
        /\ Len(todo) = 2 => after[2] = ProcessRecord(after[1], todo[2])
    <2>1. \A i \in 0..Len(todo) : after[i] = Step(after, i)
      BY <1>4, Zenon
    <2>2. /\ 0 \in 0..Len(todo)
          /\ Len(todo) \in {1, 2} => 1 \in 0..Len(todo)
          /\ Len(todo) = 2 => 2 \in 0..Len(todo)
      OBVIOUS
    <2>3. /\ Step(after, 0) = s
          /\ Step(after, 1) = ProcessRecord(after[0], todo[1])
          /\ Step(after, 2) = ProcessRecord(after[1], todo[2])
      OBVIOUS
    <2> HIDE DEF Step
    <2> QED
      BY <2>1, <2>2, <2>3
  <1>6. ProcessAll(s, todo) = after[Len(todo)]
    BY <1>3 DEF after
  <1> QED
    BY <1>5, <1>6

LEMMA ProcessAllFacts ==
    ASSUME NEW s \in States, NEW todo \in Seq(RecordsOrNone), Len(todo) \in {0, 1, 2}
    PROVE  ProcessAll(s, todo) \in States /\ Keeps(ProcessAll(s, todo), s)
  <1>1. \A i \in 1..Len(todo) : todo[i] \in RecordsOrNone
    BY ElementOfSeq
  <1>2. CASE Len(todo) = 0
    BY <1>2, ProcessAllIs DEF Keeps
  <1>3. CASE Len(todo) = 1
    BY <1>1, <1>3, ProcessAllIs, ProcessRecordFacts
  <1>4. CASE Len(todo) = 2
    <2> DEFINE n == ProcessRecord(s, todo[1])
    <2>1. n \in States /\ Keeps(n, s)
      BY <1>1, <1>4, ProcessRecordFacts
    <2>2. ProcessAll(s, todo) = ProcessRecord(n, todo[2])
      BY <1>4, ProcessAllIs
    <2> HIDE DEF n
    <2> QED
      BY <1>1, <1>4, <2>1, <2>2, ProcessRecordFacts DEF Keeps
  <1> QED
    BY <1>1, <1>2, <1>3, <1>4

-----------------------------------------------------------------------------
(* Decisions *)

(* d is a decision for the record r in the state s: at most two records to *)
(* process, and the buffer as long as before.                              *)
DecisionOK(d, s, r) ==
    /\ d.state \in States /\ Len(d.state.buffer) = Len(s.buffer)
    /\ d.todo \in Seq(RecordsOrNone) /\ Len(d.todo) \in {0, 1, 2}
    /\ d.follows \in BOOLEAN /\ d.done \in BOOLEAN
    /\ d.follows => r.key # NoKey

LEMMA NoneType ==
    /\ NoEvent.pressed = FALSE /\ NoEvent.interrupted = FALSE
    /\ NoEvent.count = 0 /\ NoEvent.age = 0 /\ NoEvent.key = NoKey
  BY DEF NoEvent

LEMMA RecordFields ==
    ASSUME NEW r \in RecordsOrNone
    PROVE  /\ r.pressed \in BOOLEAN /\ r.interrupted \in BOOLEAN
           /\ r.count \in 0..MaxCount /\ r.age \in 0..Clock - 1
  <1>1. CASE r \in Records
    BY <1>1 DEF Records
  <1>2. CASE r = NoEvent
    <2>1. 0 \in 0..MaxCount /\ 0 \in 0..Clock - 1
      BY TappingAssumption
    <2>2. FALSE \in BOOLEAN
      OBVIOUS
    <2> QED
      BY <1>2, <2>1, <2>2, NoneType
  <1> QED
    BY <1>1, <1>2 DEF RecordsOrNone

LEMMA TodoType ==
    /\ <<>> \in Seq(RecordsOrNone) /\ Len(<<>>) \in {0, 1, 2}
    /\ \A x \in RecordsOrNone : <<x>> \in Seq(RecordsOrNone) /\ Len(<<x>>) \in {0, 1, 2}
  <1>1. <<>> \in Seq(RecordsOrNone) /\ Len(<<>>) = 0
    OBVIOUS
  <1>2. ASSUME NEW x \in RecordsOrNone
        PROVE  <<x>> \in Seq(RecordsOrNone) /\ Len(<<x>>) = 1
    OBVIOUS
  <1> QED
    BY <1>1, <1>2, Zenon

LEMMA StateParts ==
    ASSUME NEW s \in States
    PROVE  /\ s.tapping \in RecordsOrNone /\ s.buffer \in Seq(Records)
           /\ s.tapping.key # NoKey => s.tapping \in Records
  BY DEF States, RecordsOrNone, NoEvent

LEMMA RecordParts ==
    ASSUME NEW r \in RecordsOrNone
    PROVE  /\ r.key # NoKey => r \in Records
           /\ r.key = NoKey => r = NoEvent
           /\ r.pressed => r.key # NoKey
           /\ r \in Records => r.key \in Positions /\ r.key # NoKey
  BY TappingAssumption DEF RecordsOrNone, Records, NoEvent

LEMMA SetTapping ==
    ASSUME NEW s \in States, NEW r \in RecordsOrNone
    PROVE  /\ [s EXCEPT !.tapping = r] \in States
           /\ [s EXCEPT !.tapping = r].tapping = r
           /\ [s EXCEPT !.tapping = r].buffer = s.buffer
  BY DEF States

LEMMA NextCount ==
    ASSUME NEW c \in 0..MaxCount
    PROVE  Min({c + 1, MaxCount}) \in 0..MaxCount
  <1>1. MaxCount \in Nat
    BY TappingAssumption
  <1>2. \E x \in {c + 1, MaxCount} : \A y \in {c + 1, MaxCount} : x <= y
    BY <1>1
  <1>3. Min({c + 1, MaxCount}) \in {c + 1, MaxCount} /\ Min({c + 1, MaxCount}) <= MaxCount
    BY <1>2 DEF Min
  <1> QED
    BY <1>1, <1>3

LEMMA SetRecord ==
    ASSUME NEW r \in Records
    PROVE  /\ \A b \in BOOLEAN : [r EXCEPT !.interrupted = b] \in Records
           /\ \A c \in 0..MaxCount : [r EXCEPT !.count = c] \in Records
           /\ [r EXCEPT !.pressed = FALSE, !.age = 0] \in Records
           /\ \A key \in RecordsOrNone : CopyTap(key, r) \in Records
           /\ 1 \in 0..MaxCount /\ Min({r.count + 1, MaxCount}) \in 0..MaxCount
           /\ r.pressed \in BOOLEAN /\ r.interrupted \in BOOLEAN /\ r.count \in 0..MaxCount
  <1>1. MaxCount \in Nat \ {0} /\ Clock \in Nat \ {0} /\ r.count \in 0..MaxCount
    BY TappingAssumption DEF Records
  <1>2. 1 \in 0..MaxCount /\ 0 \in 0..MaxCount /\ 0 \in 0..Clock - 1
    BY <1>1
  <1>3. Min({r.count + 1, MaxCount}) \in 0..MaxCount
    <2> DEFINE c == r.count
    <2>1. c \in 0..MaxCount
      BY <1>1
    <2> HIDE DEF c
    <2>2. Min({c + 1, MaxCount}) \in 0..MaxCount
      BY <2>1, NextCount
    <2> QED
      BY <2>2, Zenon DEF c
  <1>4. \A key \in RecordsOrNone : key.count \in 0..MaxCount /\ key.interrupted \in BOOLEAN
    BY RecordFields
  <1> QED
    BY <1>2, <1>3, <1>4 DEF Records, CopyTap

LEMMA HandleOK ==
    ASSUME NEW s, NEW n \in States, Len(n.buffer) = Len(s.buffer), NEW r,
           NEW todo \in Seq(RecordsOrNone), Len(todo) \in {0, 1, 2}
    PROVE  /\ DecisionOK(Handle(n, todo), s, r)
           /\ r.key # NoKey => DecisionOK(HandleTapping(n, todo), s, r)
           /\ DecisionOK(Wait(n), s, r)
           /\ r.key # NoKey => DecisionOK(Decide(n, todo, TRUE, FALSE), s, r)
           /\ DecisionOK(Decide(n, todo, FALSE, FALSE), s, r)
  BY TodoType DEF DecisionOK, Handle, HandleTapping, Wait, Decide

LEMMA ScanTapOK ==
    ASSUME NEW s \in States, s.tapping \in Records, NEW r, r.key # NoKey,
           NEW todo \in Seq(RecordsOrNone), Len(todo) \in {0, 1}
    PROVE  DecisionOK(ScanTap(s, todo), s, r)
  <1> DEFINE releases == {i \in DOMAIN s.buffer : /\ IsTappingRecord(s, s.buffer[i])
                                                  /\ ~s.buffer[i].pressed
                                                  /\ Within(s, s.buffer[i])}
             first == Min(releases)
             n == [s EXCEPT !.buffer[first].count = 1]
             more == Append(todo, [s.tapping EXCEPT !.count = 1])
  <1>1. Len(todo) \in {0, 1, 2}
    OBVIOUS
  <1>2. CASE s.tapping.count > 0 \/ ~s.tapping.pressed \/ releases = {}
    BY <1>1, <1>2, HandleOK DEF ScanTap
  <1>3. CASE ~(s.tapping.count > 0 \/ ~s.tapping.pressed \/ releases = {})
    <2>1. s.buffer \in Seq(Records)
      BY StateParts
    <2>2. releases \subseteq 1..Len(s.buffer) /\ releases \subseteq Nat
      BY <2>1
    <2>3. first \in 1..Len(s.buffer)
      BY <1>3, <2>2, Smallest DEF Min
    <2>4. s.buffer[first] \in Records
      BY <2>1, <2>3, ElementOfSeq
    <2>5. ScanTap(s, todo) = HandleTapping(n, more)
      BY <1>3 DEF ScanTap
    <2> HIDE DEF first, releases
    <2>6. [s.buffer[first] EXCEPT !.count = 1] \in Records
      BY <2>4, SetRecord
    <2> DEFINE b == [s.buffer EXCEPT ![first] = [s.buffer[first] EXCEPT !.count = 1]]
    <2>7. b \in Seq(Records) /\ Len(b) = Len(s.buffer)
      BY <2>1, <2>3, <2>6
    <2>8. n = [s EXCEPT !.buffer = b]
      OBVIOUS
    <2> HIDE DEF b, n
    <2>9. n \in States /\ n.buffer = b
      BY <2>7, <2>8 DEF States
    <2>10. more \in Seq(RecordsOrNone) /\ Len(more) \in {0, 1, 2}
      <3>1. [s.tapping EXCEPT !.count = 1] \in RecordsOrNone
        BY SetRecord DEF RecordsOrNone
      <3>2. Len(more) = Len(todo) + 1 /\ more \in Seq(RecordsOrNone)
        BY <3>1, AppendProperties
      <3> HIDE DEF more
      <3>3. CASE Len(todo) = 0
        BY <3>2, <3>3
      <3>4. CASE Len(todo) = 1
        BY <3>2, <3>4
      <3> QED
        BY <3>2, <3>3, <3>4
    <2> HIDE DEF more
    <2> QED
      BY <2>5, <2>7, <2>9, <2>10, HandleOK
  <1> QED
    BY <1>2, <1>3

LEMMA StartTappingOK ==
    ASSUME NEW s \in States, NEW r \in Records,
           NEW todo \in Seq(RecordsOrNone), Len(todo) \in {0, 1}
    PROVE  DecisionOK(StartTapping(s, todo, r), s, r)
  <1> DEFINE n == [s EXCEPT !.tapping = r]
  <1>1. n \in States /\ n.tapping = r /\ n.buffer = s.buffer
    BY SetTapping DEF RecordsOrNone
  <1>2. r.key # NoKey
    BY RecordParts DEF RecordsOrNone
  <1>3. StartTapping(s, todo, r) = ScanTap(n, todo)
    BY DEF StartTapping
  <1> HIDE DEF n
  <1>4. DecisionOK(ScanTap(n, todo), n, r)
    BY <1>1, <1>2, ScanTapOK
  <1> QED
    BY <1>1, <1>3, <1>4 DEF DecisionOK

LEMMA NotTappingOK ==
    ASSUME NEW s \in States, NEW r \in RecordsOrNone
    PROVE  DecisionOK(NotTapping(s, r), s, r)
  <1>1. CASE r.pressed /\ IsTapRecord(s, r)
    <2>1. r \in Records
      BY <1>1, RecordParts
    <2>2. <<>> \in Seq(RecordsOrNone) /\ Len(<<>>) \in {0, 1}
      OBVIOUS
    <2>3. NotTapping(s, r) = StartTapping(s, <<>>, r)
      BY <1>1 DEF NotTapping
    <2> QED
      BY <2>1, <2>2, <2>3, StartTappingOK
  <1>2. CASE ~(r.pressed /\ IsTapRecord(s, r))
    <2>1. NotTapping(s, r) = Handle(s, <<r>>)
      BY <1>2 DEF NotTapping
    <2> QED
      BY <2>1, TodoType, HandleOK
  <1> QED
    BY <1>1, <1>2

\* The tapping key with another count, or interrupted.
LEMMA TappingOnce ==
    ASSUME NEW s \in States, s.tapping.key # NoKey, NEW r \in RecordsOrNone
    PROVE  /\ [s.tapping EXCEPT !.count = 1] \in Records
           /\ [s.tapping EXCEPT !.pressed = FALSE, !.age = 0] \in Records
           /\ [s EXCEPT !.tapping.interrupted = @ \/ r.pressed] \in States
           /\ [s EXCEPT !.tapping.interrupted = @ \/ r.pressed].buffer = s.buffer
  <1>1. s.tapping \in Records
    BY StateParts
  <1>2. r.pressed \in BOOLEAN
    BY RecordFields
  <1> DEFINE b == s.tapping.interrupted \/ r.pressed
             t == [s.tapping EXCEPT !.interrupted = b]
  <1>3. [s EXCEPT !.tapping.interrupted = @ \/ r.pressed] = [s EXCEPT !.tapping = t]
    OBVIOUS
  <1>4. b \in BOOLEAN
    OBVIOUS
  <1>5. /\ [s.tapping EXCEPT !.count = 1] \in Records
        /\ [s.tapping EXCEPT !.pressed = FALSE, !.age = 0] \in Records
    BY <1>1, SetRecord
  <1>6. t \in Records
    <2> HIDE DEF b
    <2> QED
      BY <1>1, <1>4, SetRecord
  <1> HIDE DEF t
  <1>7. t \in RecordsOrNone
    BY <1>6 DEF RecordsOrNone
  <1> QED
    BY <1>3, <1>5, <1>7, SetTapping

LEMMA UndecidedOK ==
    ASSUME NEW s \in States, s.tapping.key # NoKey, NEW r \in RecordsOrNone
    PROVE  DecisionOK(Undecided(s, r), s, r)
  <1> DEFINE n == [s EXCEPT !.tapping.interrupted = @ \/ r.pressed]
             once == [s.tapping EXCEPT !.count = 1]
  <1>1. n \in States /\ n.buffer = s.buffer /\ once \in RecordsOrNone
    BY TappingOnce DEF RecordsOrNone
  <1>2. \/ r.key # NoKey /\ Undecided(s, r) = Decide(s, <<once>>, TRUE, FALSE)
        \/ Undecided(s, r) \in {Wait(s), Handle(s, <<r>>), Wait(n)}
    BY DEF Undecided, IsTappingRecord
  <1> HIDE DEF n, once
  <1> QED
    BY <1>1, <1>2, TodoType, HandleOK

LEMMA NoTapping ==
    ASSUME NEW s \in States
    PROVE  /\ [s EXCEPT !.tapping = NoEvent] \in States
           /\ [s EXCEPT !.tapping = NoEvent].buffer = s.buffer
  BY SetTapping DEF RecordsOrNone

LEMMA HoldTimeoutOK ==
    ASSUME NEW s \in States, NEW r \in RecordsOrNone
    PROVE  DecisionOK(HoldTimeout(s), s, r)
  <1> DEFINE n == [s EXCEPT !.tapping = NoEvent]
  <1>1. n \in States /\ n.buffer = s.buffer /\ s.tapping \in RecordsOrNone
    BY NoTapping, StateParts
  <1>2. HoldTimeout(s) = Decide(n, <<s.tapping>>, FALSE, FALSE)
    BY DEF HoldTimeout
  <1> HIDE DEF n
  <1> QED
    BY <1>1, <1>2, TodoType, HandleOK

LEMMA TappedOK ==
    ASSUME NEW s \in States, s.tapping.key # NoKey, NEW r \in RecordsOrNone
    PROVE  DecisionOK(Tapped(s, r), s, r)
  <1>1. CASE IsTappingRecord(s, r) /\ ~r.pressed
    <2> DEFINE n == [s EXCEPT !.tapping = NoEvent]
               copy == CopyTap(s.tapping, r)
    <2>1. n \in States /\ n.buffer = s.buffer /\ s.tapping \in RecordsOrNone
      BY NoTapping, StateParts
    <2>2. r.key # NoKey /\ r \in Records
      BY <1>1, RecordParts DEF IsTappingRecord
    <2>3. copy \in RecordsOrNone
      BY <2>1, <2>2, SetRecord DEF RecordsOrNone
    <2>4. Tapped(s, r) \in {HandleTapping(s, <<copy>>), Handle(n, <<copy>>)}
      BY <1>1 DEF Tapped
    <2> HIDE DEF n, copy
    <2> QED
      BY <2>1, <2>2, <2>3, <2>4, TodoType, HandleOK
  <1>2. CASE ~(IsTappingRecord(s, r) /\ ~r.pressed) /\ r.pressed /\ IsTapRecord(s, r)
    <2> DEFINE up == [s.tapping EXCEPT !.pressed = FALSE, !.age = 0]
    <2>1. r \in Records
      BY <1>2, RecordParts
    <2>2. up \in RecordsOrNone
      BY TappingOnce DEF RecordsOrNone
    <2>3. \E todo \in {<<>>, <<up>>} : Tapped(s, r) = StartTapping(s, todo, r)
      BY <1>2 DEF Tapped
    <2> HIDE DEF up
    <2>4. <<>> \in Seq(RecordsOrNone) /\ Len(<<>>) = 0
      OBVIOUS
    <2>5. <<up>> \in Seq(RecordsOrNone) /\ Len(<<up>>) = 1
      BY <2>2
    <2>6. \A todo \in {<<>>, <<up>>} : DecisionOK(StartTapping(s, todo, r), s, r)
      BY <2>1, <2>4, <2>5, StartTappingOK
    <2> QED
      BY <2>3, <2>6, Zenon
  <1>3. CASE ~(IsTappingRecord(s, r) /\ ~r.pressed) /\ ~(r.pressed /\ IsTapRecord(s, r))
    <2>1. Tapped(s, r) = Handle(s, <<r>>)
      BY <1>3 DEF Tapped
    <2> QED
      BY <2>1, TodoType, HandleOK
  <1> QED
    BY <1>1, <1>2, <1>3

LEMMA AfterTapOK ==
    ASSUME NEW s \in States, s.tapping.key # NoKey, NEW r \in RecordsOrNone
    PROVE  DecisionOK(AfterTap(s, r), s, r)
  <1> DEFINE i == [s EXCEPT !.tapping.interrupted = @ \/ r.pressed]
             again == [r EXCEPT !.count = Min({s.tapping.count + 1, MaxCount})]
             n == [s EXCEPT !.tapping = r]
  <1>1. CASE r.pressed /\ IsTappingRecord(s, r)
    <2>1. r \in Records /\ r.key # NoKey /\ s.tapping \in Records
      BY <1>1, RecordParts, StateParts
    <2>2. again \in RecordsOrNone
      BY <2>1, SetRecord DEF RecordsOrNone
    <2>3. n \in States /\ n.buffer = s.buffer
      BY SetTapping
    <2>4. AfterTap(s, r) \in {HandleTapping(s, <<again>>), Handle(n, <<>>)}
      BY <1>1 DEF AfterTap
    <2> HIDE DEF again, n
    <2> QED
      BY <2>1, <2>2, <2>3, <2>4, TodoType, HandleOK
  <1>2. CASE ~(r.pressed /\ IsTappingRecord(s, r)) /\ r.pressed /\ IsTapRecord(s, r)
    <2>1. r \in Records
      BY <1>2, RecordParts
    <2>2. <<>> \in Seq(RecordsOrNone) /\ Len(<<>>) \in {0, 1}
      OBVIOUS
    <2>3. AfterTap(s, r) = StartTapping(s, <<>>, r)
      BY <1>2 DEF AfterTap
    <2> QED
      BY <2>1, <2>2, <2>3, StartTappingOK
  <1>3. CASE ~(r.pressed /\ IsTappingRecord(s, r)) /\ ~(r.pressed /\ IsTapRecord(s, r))
    <2>1. i \in States /\ i.buffer = s.buffer
      BY TappingOnce
    <2>2. AfterTap(s, r) = Handle(i, <<r>>)
      BY <1>3 DEF AfterTap
    <2> HIDE DEF i
    <2> QED
      BY <2>1, <2>2, TodoType, HandleOK
  <1> QED
    BY <1>1, <1>2, <1>3

LEMMA DecisionFacts ==
    ASSUME NEW s \in States, NEW r \in RecordsOrNone
    PROVE  DecisionOK(Decision(s, r), s, r)
  <1>1. CASE s.tapping.key = NoKey
    <2>1. Decision(s, r) = NotTapping(s, r)
      BY <1>1 DEF Decision
    <2> QED
      BY <2>1, NotTappingOK
  <1>2. CASE s.tapping.key # NoKey
    <2> DEFINE n == [s EXCEPT !.tapping = NoEvent]
    <2>1. s.tapping.pressed \in BOOLEAN /\ s.tapping.count \in Nat
      BY <1>2, StateParts, TappingAssumption DEF Records
    <2>2. Decision(s, r) \in {Undecided(s, r), HoldTimeout(s), Tapped(s, r),
                              AfterTap(s, r), Wait(n)}
      <3>1. CASE s.tapping.pressed /\ s.tapping.count = 0
        BY <1>2, <3>1 DEF Decision
      <3>2. CASE s.tapping.pressed /\ s.tapping.count > 0
        BY <1>2, <2>1, <3>2 DEF Decision
      <3>3. CASE ~s.tapping.pressed
        BY <1>2, <2>1, <3>3 DEF Decision
      <3> QED
        BY <2>1, <3>1, <3>2, <3>3
    <2>3. n \in States /\ n.buffer = s.buffer
      BY NoTapping
    <2>4. DecisionOK(Wait(n), s, r)
      <3> HIDE DEF n
      <3> QED
        BY <2>3, TodoType, HandleOK
    <2> QED
      BY <1>2, <2>2, <2>4, UndecidedOK, HoldTimeoutOK, TappedOK, AfterTapOK
  <1> QED
    BY <1>1, <1>2

(* One call of process_tapping: the buffer is as long as before, and the   *)
(* record it leaves behind has a key if the one it was given has.          *)
LEMMA ProcessTappingFacts ==
    ASSUME NEW s \in States, NEW r \in RecordsOrNone
    PROVE  /\ ProcessTapping(s, r) \in States
           /\ Len(ProcessTapping(s, r).buffer) = Len(s.buffer)
           /\ r \in Records => ProcessTapping(s, r).rec \in Records
  <1> DEFINE d == Decision(s, r)
             n == ProcessAll(d.state, d.todo)
  <1>1. DecisionOK(d, s, r)
    BY DecisionFacts
  <1>2. ProcessTapping(s, r) = Settled(n, r, d)
    BY DEF ProcessTapping, Carried
  <1> HIDE DEF d
  <1>3. n \in States /\ Keeps(n, d.state)
    BY <1>1, ProcessAllFacts DEF DecisionOK
  <1> HIDE DEF n
  <1>4. Len(n.buffer) = Len(s.buffer)
    BY <1>1, <1>3 DEF DecisionOK, Keeps
  <1>5. d.follows \in BOOLEAN /\ d.done \in BOOLEAN /\ (d.follows => r.key # NoKey)
    BY <1>1 DEF DecisionOK
  <1>6. n.rec \in RecordsOrNone
    BY <1>3 DEF States
  <1>7. CASE d.follows
    <2> DEFINE copy == CopyTap(n.rec, r)
    <2>1. r \in Records
      BY <1>5, <1>7, RecordParts
    <2>2. copy \in Records
      BY <1>6, <2>1, SetRecord
    <2>3. Settled(n, r, d) = [n EXCEPT !.tapping = n.rec, !.rec = copy, !.done = d.done]
      BY <1>7 DEF Settled
    <2> HIDE DEF copy
    <2> QED
      BY <1>2, <1>3, <1>4, <1>5, <1>6, <2>2, <2>3 DEF States, RecordsOrNone
  <1>8. CASE ~d.follows
    <2>1. Settled(n, r, d) = [n EXCEPT !.rec = r, !.done = d.done]
      BY <1>3, <1>8 DEF Settled, States
    <2> QED
      BY <1>2, <1>3, <1>4, <1>5, <2>1 DEF States, RecordsOrNone
  <1> QED
    BY <1>5, <1>7, <1>8

-----------------------------------------------------------------------------
(* The keys of the presses among some records *)

\* The key of a record that is a press.
PressOf(r) == IF r.pressed THEN <<r.key>> ELSE <<>>

\* f is the function by which PressesOf is defined, up to its argument n;
\* Listed is what it does with the record r.
Listed(keys, r) == IF r.pressed THEN Append(keys, r.key) ELSE keys
Lists(f, q, n) == f = [i \in 0..n |-> IF i = 0 THEN <<>> ELSE Listed(f[i - 1], q[i])]

\* The records of W have keys.
Keyed(W) == \A w \in W : w.key \in Positions

LEMMA ListedType ==
    ASSUME NEW W, Keyed(W), NEW keys \in Seq(Positions), NEW r \in W
    PROVE  Listed(keys, r) \in Seq(Positions)
  BY DEF Listed, Keyed

\* There is such a function, ...
LEMMA ListsExists ==
    ASSUME NEW W, Keyed(W), NEW q \in Seq(W)
    PROVE  \E f \in [0..Len(q) -> Seq(Positions)] : Lists(f, q, Len(q))
  <1> DEFINE J == {n \in Nat : n <= Len(q) => \E f \in [0..n -> Seq(Positions)] : Lists(f, q, n)}
  <1>1. 0 \in J
    <2> DEFINE f == [i \in 0..0 |-> <<>>]
    <2>1. f \in [0..0 -> Seq(Positions)] /\ Lists(f, q, 0)
      BY DEF Lists
    <2> QED
      BY <2>1
  <1>2. ASSUME NEW n \in Nat, n \in J PROVE n + 1 \in J
    <2>1. SUFFICES ASSUME n + 1 <= Len(q)
                   PROVE  \E f \in [0..n + 1 -> Seq(Positions)] : Lists(f, q, n + 1)
      OBVIOUS
    <2>2. PICK f \in [0..n -> Seq(Positions)] : Lists(f, q, n)
      BY <1>2, <2>1
    <2>3. q[n + 1] \in W /\ f[n] \in Seq(Positions)
      BY <2>1
    <2> DEFINE last == Listed(f[n], q[n + 1])
               g == [i \in 0..n + 1 |-> IF i = n + 1 THEN last ELSE f[i]]
    <2>4. last \in Seq(Positions)
      BY <2>3, ListedType
    <2>5. g \in [0..n + 1 -> Seq(Positions)]
      BY <2>4
    <2>6. \A i \in 0..n : f[i] = IF i = 0 THEN <<>> ELSE Listed(f[i - 1], q[i])
      BY <2>2 DEF Lists
    <2>7. \A i \in 0..n + 1 : g[i] = IF i = 0 THEN <<>> ELSE Listed(g[i - 1], q[i])
      BY <2>6
    <2>8. Lists(g, q, n + 1)
      BY <2>5, <2>7 DEF Lists
    <2> HIDE DEF g
    <2> QED
      BY <2>5, <2>8
  <1> HIDE DEF J
  <1>3. Nat \subseteq J
    BY <1>1, <1>2, SetInduction
  <1> QED
    BY <1>3 DEF J

\* ... and only one, ...
LEMMA ListsUnique ==
    ASSUME NEW q, NEW n \in Nat, NEW f, Lists(f, q, n), NEW g, Lists(g, q, n)
    PROVE  f = g
  <1> DEFINE J == {i \in Nat : i <= n => f[i] = g[i]}
  <1>1. /\ \A i \in 0..n : f[i] = IF i = 0 THEN <<>> ELSE Listed(f[i - 1], q[i])
        /\ \A i \in 0..n : g[i] = IF i = 0 THEN <<>> ELSE Listed(g[i - 1], q[i])
    BY DEF Lists
  <1>2. 0 \in J
    BY <1>1
  <1>3. ASSUME NEW i \in Nat, i \in J PROVE i + 1 \in J
    BY <1>1, <1>3
  <1> HIDE DEF J
  <1>4. Nat \subseteq J
    BY <1>2, <1>3, SetInduction
  <1>5. \A i \in 0..n : f[i] = g[i]
    BY <1>4 DEF J
  <1>6. f = [i \in 0..n |-> f[i]] /\ g = [i \in 0..n |-> g[i]]
    BY DEF Lists
  <1> QED
    BY <1>5, <1>6

\* ... so that PressesOf is its last value.
LEMMA PressesOfIs ==
    ASSUME NEW W, NEW q \in Seq(W), NEW f, Lists(f, q, Len(q))
    PROVE  PressesOf(q) = f[Len(q)]
  <1>1. \A g : Lists(g, q, Len(q)) => g = f
    BY ListsUnique
  <1> QED
    BY <1>1 DEF PressesOf, Lists, Listed

LEMMA NoPresses == PressesOf(<<>>) = <<>>
  <1> DEFINE f == [i \in 0..0 |-> <<>>]
  <1>1. Lists(f, <<>>, 0)
    BY DEF Lists
  <1>2. <<>> \in Seq({}) /\ Len(<<>>) = 0
    OBVIOUS
  <1>3. PressesOf(<<>>) = f[0]
    BY <1>1, <1>2, PressesOfIs
  <1> QED
    BY <1>3

LEMMA PressesAppend ==
    ASSUME NEW W, Keyed(W), NEW q \in Seq(W), NEW r \in W
    PROVE  /\ PressesOf(q) \in Seq(Positions) /\ PressOf(r) \in Seq(Positions)
           /\ PressesOf(Append(q, r)) = PressesOf(q) \o PressOf(r)
  <1> DEFINE a == Append(q, r)
             n == Len(q)
  <1>1. /\ a \in Seq(W) /\ Len(a) = n + 1 /\ n \in Nat
        /\ a[n + 1] = r /\ \A i \in 1..n : a[i] = q[i]
    OBVIOUS
  <1> HIDE DEF a
  <1>2. PICK f \in [0..n + 1 -> Seq(Positions)] : Lists(f, a, n + 1)
    <2>1. \E f \in [0..Len(a) -> Seq(Positions)] : Lists(f, a, Len(a))
      BY <1>1, ListsExists
    <2> QED
      BY <1>1, <2>1
  <1>3. \A i \in 0..n + 1 : f[i] = IF i = 0 THEN <<>> ELSE Listed(f[i - 1], a[i])
    BY <1>2 DEF Lists
  <1> DEFINE g == [i \in 0..n |-> f[i]]
  <1>4. Lists(g, q, n)
    <2>1. \A i \in 0..n : g[i] = IF i = 0 THEN <<>> ELSE Listed(g[i - 1], q[i])
      BY <1>1, <1>3
    <2> QED
      BY <2>1 DEF Lists
  <1>5. PressesOf(q) = f[n]
    BY <1>1, <1>4, PressesOfIs
  <1>6. PressesOf(a) = f[n + 1]
    BY <1>1, <1>2, PressesOfIs
  <1>7. f[n + 1] = Listed(f[n], r)
    BY <1>1, <1>3
  <1>8. f[n] \in Seq(Positions)
    BY <1>1, <1>2
  <1>9. PressOf(r) \in Seq(Positions) /\ Listed(f[n], r) = f[n] \o PressOf(r)
    <2>1. r.key \in Positions
      BY DEF Keyed
    <2> DEFINE k == r.key
               l == f[n]
    <2>2. Append(l, k) = l \o <<k>> /\ l \o <<>> = l /\ <<k>> \in Seq(Positions)
      <3>1. l \in Seq(Positions) /\ k \in Positions
        BY <1>8, <2>1
      <3> HIDE DEF l, k
      <3> QED
        BY <3>1, AppendIsConcat, ConcatEmptySeq
    <2>3. CASE r.pressed
      BY <2>2, <2>3 DEF PressOf, Listed
    <2>4. CASE ~r.pressed
      BY <2>2, <2>4, EmptySeq DEF PressOf, Listed
    <2> QED
      BY <2>3, <2>4
  <1> QED
    BY <1>5, <1>6, <1>7, <1>8, <1>9 DEF a

LEMMA PressesType ==
    ASSUME NEW W, Keyed(W), NEW q \in Seq(W)
    PROVE  PressesOf(q) \in Seq(Positions)
  <1>1. CASE W = {}
    <2>1. q = <<>>
      BY <1>1, EmptySeq, LenProperties, ElementOfSeq
    <2> QED
      BY <2>1, NoPresses, EmptySeq
  <1>2. CASE W # {}
    BY <1>2, PressesAppend
  <1> QED
    BY <1>1, <1>2

\* One record, and a record in front.
LEMMA PressesOne ==
    ASSUME NEW W, Keyed(W), NEW r \in W
    PROVE  PressesOf(<<r>>) = PressOf(r) /\ PressOf(r) \in Seq(Positions)
  <1>1. <<>> \in Seq(W) /\ <<r>> = Append(<<>>, r)
    OBVIOUS
  <1>2. PressesOf(Append(<<>>, r)) = PressesOf(<<>>) \o PressOf(r) /\ PressOf(r) \in Seq(Positions)
    BY <1>1, PressesAppend
  <1> QED
    BY <1>1, <1>2, NoPresses, ConcatEmptySeq

\* A sequence that is not empty has a last record.
LEMMA LastRecord ==
    ASSUME NEW W, NEW q \in Seq(W), NEW n \in Nat, Len(q) = n + 1
    PROVE  \E p \in Seq(W), w \in W : q = Append(p, w) /\ Len(p) = n
  <1> DEFINE p == SubSeq(q, 1, n)
  <1>1. p \in Seq(W) /\ Len(p) = n /\ q[n + 1] \in W /\ q = Append(p, q[n + 1])
    OBVIOUS
  <1> QED
    BY <1>1

\* Sequences whose records have the same keys and presses.
SamePresses(p, q) ==
    Len(p) = Len(q) /\ \A i \in 1..Len(q) : p[i].key = q[i].key /\ p[i].pressed = q[i].pressed

LEMMA PressesSame ==
    ASSUME NEW W, Keyed(W), NEW q \in Seq(W), NEW p \in Seq(W), SamePresses(p, q)
    PROVE  PressesOf(p) = PressesOf(q)
  <1> DEFINE J == {n \in Nat : \A u \in Seq(W), v \in Seq(W) :
                      Len(v) = n /\ SamePresses(u, v) => PressesOf(u) = PressesOf(v)}
  <1>1. 0 \in J
    <2> SUFFICES ASSUME NEW u \in Seq(W), NEW v \in Seq(W), Len(v) = 0, SamePresses(u, v)
                 PROVE  PressesOf(u) = PressesOf(v)
      OBVIOUS
    <2>1. Len(u) = 0
      BY DEF SamePresses
    <2>2. u = <<>> /\ v = <<>>
      BY <2>1, EmptySeq
    <2> QED
      BY <2>2
  <1>2. ASSUME NEW n \in Nat, n \in J PROVE n + 1 \in J
    <2> SUFFICES ASSUME NEW u \in Seq(W), NEW v \in Seq(W), Len(v) = n + 1, SamePresses(u, v)
                 PROVE  PressesOf(u) = PressesOf(v)
      OBVIOUS
    <2>1. Len(u) = n + 1
      BY DEF SamePresses
    <2>2. PICK x \in Seq(W), r \in W : u = Append(x, r) /\ Len(x) = n
      BY <2>1, LastRecord
    <2>3. PICK y \in Seq(W), s \in W : v = Append(y, s) /\ Len(y) = n
      BY LastRecord
    <2>4. \A i \in 1..n + 1 : u[i].key = v[i].key /\ u[i].pressed = v[i].pressed
      BY DEF SamePresses
    <2>5. /\ \A i \in 1..n : u[i] = x[i] /\ v[i] = y[i]
          /\ u[n + 1] = r /\ v[n + 1] = s
      BY <2>2, <2>3, AppendProperties
    <2>6. SamePresses(x, y) /\ r.key = s.key /\ r.pressed = s.pressed
      BY <2>2, <2>3, <2>4, <2>5 DEF SamePresses
    <2>7. PressesOf(x) = PressesOf(y)
      BY <1>2, <2>3, <2>6
    <2>8. PressOf(r) = PressOf(s)
      BY <2>6 DEF PressOf
    <2>9. PressesOf(Append(x, r)) = PressesOf(x) \o PressOf(r)
      BY PressesAppend
    <2>10. PressesOf(Append(y, s)) = PressesOf(y) \o PressOf(s)
      BY PressesAppend
    <2> QED
      BY <2>2, <2>3, <2>7, <2>8, <2>9, <2>10
  <1> HIDE DEF J
  <1>3. Nat \subseteq J
    BY <1>1, <1>2, SetInduction
  <1>4. Len(q) \in J
    BY <1>3, LenProperties
  <1> QED
    BY <1>4 DEF J

LEMMA Grouped ==
    ASSUME NEW c \in Seq(Positions), NEW d \in Seq(Positions), NEW e \in Seq(Positions)
    PROVE  (c \o d) \o e = c \o (d \o e)
  OBVIOUS

\* A record r in front of q.
InFront(p, r, q) ==
    Len(p) = Len(q) + 1 /\ p[1] = r /\ \A i \in 1..Len(q) : p[i + 1] = q[i]

LEMMA PressesInFront ==
    ASSUME NEW W, Keyed(W), NEW q \in Seq(W), NEW p \in Seq(W), NEW r \in W, InFront(p, r, q)
    PROVE  PressesOf(p) = PressOf(r) \o PressesOf(q)
  <1> DEFINE J == {n \in Nat : \A u \in Seq(W), v \in Seq(W) :
                      Len(v) = n /\ InFront(u, r, v) => PressesOf(u) = PressOf(r) \o PressesOf(v)}
  <1>0. PressesOf(<<r>>) = PressOf(r) /\ PressOf(r) \in Seq(Positions)
    BY PressesOne
  <1>1. 0 \in J
    <2> SUFFICES ASSUME NEW u \in Seq(W), NEW v \in Seq(W), Len(v) = 0, InFront(u, r, v)
                 PROVE  PressesOf(u) = PressOf(r) \o PressesOf(v)
      OBVIOUS
    <2>1. v = <<>>
      BY EmptySeq
    <2>2. Len(u) = 1 /\ u[1] = r
      BY DEF InFront
    <2>3. u = <<r>>
      BY <2>2, LenProperties
    <2> QED
      BY <1>0, <2>1, <2>3, NoPresses, ConcatEmptySeq
  <1>2. ASSUME NEW n \in Nat, n \in J PROVE n + 1 \in J
    <2> SUFFICES ASSUME NEW u \in Seq(W), NEW v \in Seq(W), Len(v) = n + 1, InFront(u, r, v)
                 PROVE  PressesOf(u) = PressOf(r) \o PressesOf(v)
      OBVIOUS
    <2>1. Len(u) = n + 1 + 1 /\ u[1] = r /\ \A i \in 1..n + 1 : u[i + 1] = v[i]
      BY DEF InFront
    <2>2. PICK x \in Seq(W), a \in W : u = Append(x, a) /\ Len(x) = n + 1
      <3>1. n + 1 \in Nat
        OBVIOUS
      <3> QED
        BY <2>1, <3>1, LastRecord
    <2>3. PICK y \in Seq(W), b \in W : v = Append(y, b) /\ Len(y) = n
      BY LastRecord
    <2>4. /\ \A i \in 1..n + 1 : u[i] = x[i]
          /\ \A i \in 1..n : v[i] = y[i]
          /\ u[n + 1 + 1] = a /\ v[n + 1] = b
      BY <2>2, <2>3, AppendProperties
    <2>5. a = b /\ x[1] = r /\ \A i \in 1..n : x[i + 1] = y[i]
      <3>1. a = b
        BY <2>1, <2>4
      <3>2. x[1] = r
        BY <2>1, <2>4
      <3>3. ASSUME NEW i \in 1..n PROVE x[i + 1] = y[i]
        <4>1. i + 1 \in 1..n + 1 /\ i \in 1..n + 1
          OBVIOUS
        <4> QED
          BY <2>1, <2>4, <4>1
      <3> QED
        BY <3>1, <3>2, <3>3
    <2>6. InFront(x, r, y)
      BY <2>2, <2>3, <2>5 DEF InFront
    <2>7. PressesOf(x) = PressOf(r) \o PressesOf(y)
      BY <1>2, <2>3, <2>6
    <2>8. /\ PressesOf(Append(x, a)) = PressesOf(x) \o PressOf(a)
          /\ PressOf(a) \in Seq(Positions)
      BY PressesAppend
    <2>9. PressesOf(Append(y, b)) = PressesOf(y) \o PressOf(b) /\ PressesOf(y) \in Seq(Positions)
      BY PressesAppend
    <2>10. (PressOf(r) \o PressesOf(y)) \o PressOf(a) = PressOf(r) \o (PressesOf(y) \o PressOf(a))
      <3> DEFINE c == PressOf(r)
                 d == PressesOf(y)
                 e == PressOf(a)
      <3>1. c \in Seq(Positions) /\ d \in Seq(Positions) /\ e \in Seq(Positions)
        BY <1>0, <2>8, <2>9
      <3> HIDE DEF c, d, e
      <3>2. (c \o d) \o e = c \o (d \o e)
        BY <3>1, Grouped
      <3> QED
        BY <3>2 DEF c, d, e
    <2> QED
      BY <2>2, <2>3, <2>5, <2>7, <2>8, <2>9, <2>10
  <1> HIDE DEF J
  <1>3. Nat \subseteq J
    BY <1>1, <1>2, SetInduction
  <1>4. Len(q) \in J
    BY <1>3, LenProperties
  <1> QED
    BY <1>4 DEF J

-----------------------------------------------------------------------------
(* The presses among the records that are processed *)

LEMMA RecordsKeyed == Keyed(Records) /\ Keyed(Processed)
  BY DEF Keyed, Records, Processed

LEMMA LayerOut ==
    ASSUME NEW s \in States, NEW layer,
           NEW n \in {LayerOn(s, layer), LayerOff(s, layer), LayerInvert(s, layer)}
    PROVE  n.out = s.out
  BY DEF LayerOn, LayerOff, LayerInvert, States

LEMMA OneshotOut ==
    ASSUME NEW s \in States, NEW o
    PROVE  [s EXCEPT !.oneshot = o].out = s.out
  BY DEF States

LEMMA ClearOut ==
    ASSUME NEW s \in States, NEW bits
    PROVE  ClearOneshot(s, bits).out = s.out
  <1> DEFINE left == s.oneshot.state \ bits
             off == LayerOff(s, s.oneshot.layer)
  <1>1. CASE left # {} \/ s.oneshot.state = {}
    <2>1. ClearOneshot(s, bits) = [s EXCEPT !.oneshot = [s.oneshot EXCEPT !.state = left]]
      BY <1>1 DEF ClearOneshot
    <2> QED
      BY <2>1, OneshotOut
  <1>2. CASE ~(left # {} \/ s.oneshot.state = {})
    <2>1. off \in States /\ off.out = s.out
      BY LayerFacts, LayerOut DEF States, Oneshots
    <2>2. ClearOneshot(s, bits) = [off EXCEPT !.oneshot = NoOneshot]
      BY <1>2 DEF ClearOneshot
    <2> HIDE DEF off
    <2> QED
      BY <2>1, <2>2, OneshotOut
  <1> QED
    BY <1>1, <1>2

\* No action processes another record; only the count of a record changes.
LEMMA SwitchOut ==
    ASSUME NEW s \in States, NEW r \in Records, NEW a \in KeymapActions
    PROVE  /\ Switch(s, r, a).out = s.out
           /\ Switch(s, r, a).rec \in {r, Cancelled(r, a)}
  <1>1. CASE a.kind = "tt"
    <2>1. a.layer \in Layers
      BY <1>1, ActionLayer
    <2>2. PICK n \in {LayerInvert(s, a.layer), s} : Switch(s, r, a) = [n EXCEPT !.rec = r]
      BY <1>1 DEF Switch, TapToggle
    <2>3. n \in States /\ n.out = s.out
      BY <2>1, <2>2, LayerFacts, LayerOut
    <2> QED
      BY <2>2, <2>3 DEF States
  <1>2. CASE a.kind = "osl" /\ r.pressed
    <2>1. a.layer \in Layers
      BY <1>2, ActionLayer
    <2> DEFINE m == LayerOn(s, a.layer)
               n == LayerOn(m, a.layer)
    <2>2. m \in States /\ m.out = s.out
      BY <2>1, LayerFacts, LayerOut
    <2> HIDE DEF m
    <2>3. n \in States /\ n.out = s.out
      BY <2>1, <2>2, LayerFacts, LayerOut
    <2>4. Switch(s, r, a) = [n EXCEPT !.oneshot = [layer |-> a.layer,
                                                   state |-> {"pressed", "other"}], !.rec = r]
      BY <1>2 DEF Switch, OneshotLayer, m
    <2> HIDE DEF n
    <2> QED
      BY <2>3, <2>4 DEF States
  <1>3. CASE a.kind = "osl" /\ ~r.pressed
    <2> DEFINE m == ClearOneshot(s, {"pressed"})
    <2>1. m \in States /\ m.out = s.out
      BY ClearOneshotFacts, ClearOut
    <2>2. PICK n \in {ClearOneshot(m, {"other"}), m} : Switch(s, r, a) = [n EXCEPT !.rec = r]
      BY <1>3 DEF Switch, OneshotLayer
    <2> HIDE DEF m
    <2>3. n \in States /\ n.out = s.out
      BY <2>1, <2>2, ClearOneshotFacts, ClearOut
    <2> QED
      BY <2>2, <2>3 DEF States
  <1>4. CASE a.kind \notin {"tt", "osl"}
    <2>1. PICK k : Switch(s, r, a) = [s EXCEPT !.kb = k, !.rec = Cancelled(r, a)]
      BY <1>4 DEF Switch, Apply, Cancelled
    <2> QED
      BY <2>1 DEF States
  <1> QED
    BY <1>1, <1>2, <1>3, <1>4

LEMMA CancelledParts ==
    ASSUME NEW r \in Records, NEW a, NEW c \in {r, Cancelled(r, a)}
    PROVE  /\ c \in Records /\ c.key = r.key /\ c.pressed = r.pressed
           /\ c.count = r.count \/ (r.interrupted /\ c.count = 0)
  BY TappingAssumption DEF Cancelled, Records

\* n comes from s by processing the record r.
Did(n, s, r) ==
    /\ n \in States /\ n.rec.key = r.key
    /\ n.rec.pressed => r.pressed
    /\ n.rec.count = r.count \/ (r.interrupted /\ n.rec.count = 0)
    /\ PressesOf(n.out) = PressesOf(s.out) \o PressOf(r)

LEMMA OutAppend ==
    ASSUME NEW q \in Seq(Processed), NEW r \in Records,
           NEW o, o = [key |-> r.key, pressed |-> r.pressed, tap |-> r.count > 0]
    PROVE  /\ PressesOf(Append(q, o)) = PressesOf(q) \o PressOf(r)
           /\ Append(q, o) \in Seq(Processed)
           /\ PressesOf(q) \in Seq(Positions) /\ PressOf(r) \in Seq(Positions)
  <1>1. o \in Processed /\ o.key = r.key /\ o.pressed = r.pressed
    BY DEF Records, Processed
  <1>2. PressOf(o) = PressOf(r)
    BY <1>1 DEF PressOf
  <1>3. /\ PressesOf(Append(q, o)) = PressesOf(q) \o PressOf(o)
        /\ PressesOf(q) \in Seq(Positions) /\ PressOf(o) \in Seq(Positions)
    BY <1>1, RecordsKeyed, PressesAppend
  <1> QED
    BY <1>1, <1>2, <1>3, AppendProperties

LEMMA ProcessDid ==
    ASSUME NEW s \in States, NEW r \in Records
    PROVE  Did(Process(s, r), s, r)
  <1> DEFINE found == Lookup(s, r)
             a == keymaps[found.cache[r.key]][r.key]
             n == Switch(found, r, a)
             o == [key |-> r.key, pressed |-> r.pressed, tap |-> r.count > 0]
  <1>1. found \in States /\ a \in KeymapActions
    BY LookupFacts
  <1>2. found.out = Append(s.out, o)
    BY DEF Lookup, States
  <1>3. s.out \in Seq(Processed)
    BY DEF States
  <1>4. Process(s, r) = n
    BY DEF Process
  <1> HIDE DEF found, a
  <1>5. n \in States /\ n.out = found.out /\ n.rec \in {r, Cancelled(r, a)}
    BY <1>1, SwitchFacts, SwitchOut
  <1> HIDE DEF n
  <1>6. PressesOf(found.out) = PressesOf(s.out) \o PressOf(r)
    BY <1>2, <1>3, OutAppend
  <1> QED
    BY <1>4, <1>5, <1>6, CancelledParts DEF Did

\* The release that ends a one-shot layer is no press.
LEMMA ReleaseOneshotDid ==
    ASSUME NEW s \in States, s.rec \in Records
    PROVE  /\ ReleaseOneshot(s) \in States /\ ReleaseOneshot(s).rec.key = s.rec.key
           /\ ~ReleaseOneshot(s).rec.pressed /\ ReleaseOneshot(s).rec.count \in {s.rec.count, 0}
           /\ ReleaseOneshot(s).rec.count = s.rec.count \/ s.rec.interrupted
           /\ PressesOf(ReleaseOneshot(s).out) = PressesOf(s.out)
  <1> DEFINE on == LayerOn(s, s.oneshot.layer)
             r == [s.rec EXCEPT !.pressed = FALSE]
             m == Process(on, r)
             n == LayerOff(m, m.oneshot.layer)
  <1>1. \A x \in States : x.oneshot.layer \in Layers
    BY DEF States, Oneshots
  <1>2. on \in States /\ on.out = s.out
    BY <1>1, LayerFacts, LayerOut
  <1>3. /\ r \in Records /\ r.key = s.rec.key /\ r.pressed = FALSE /\ r.count = s.rec.count
        /\ r.interrupted = s.rec.interrupted
    BY DEF Records
  <1>4. ReleaseOneshot(s) = n
    BY DEF ReleaseOneshot
  <1> HIDE DEF on, r
  <1>5. Did(m, on, r)
    BY <1>2, <1>3, ProcessDid
  <1> HIDE DEF m
  <1>6. n \in States /\ n.rec = m.rec /\ n.out = m.out
    BY <1>1, <1>5, LayerFacts, LayerOut DEF Did
  <1> HIDE DEF n
  <1>7. PressesOf(s.out) \o PressOf(r) = PressesOf(s.out)
    <2>1. PressesOf(s.out) \in Seq(Positions)
      BY RecordsKeyed, PressesType DEF States
    <2>2. PressOf(r) = <<>>
      BY <1>3 DEF PressOf
    <2> QED
      BY <2>1, <2>2, ConcatEmptySeq
  <1> QED
    BY <1>2, <1>3, <1>4, <1>5, <1>6, <1>7 DEF Did

LEMMA ProcessRecordDid ==
    ASSUME NEW s \in States, NEW r \in RecordsOrNone
    PROVE  Did(ProcessRecord(s, r), s, r)
  <1>0. PressesOf(s.out) \in Seq(Positions) /\ s.out \in Seq(Processed)
    BY RecordsKeyed, PressesType DEF States
  <1>1. CASE r.key = NoKey
    <2>1. r = NoEvent /\ ~r.pressed
      BY <1>1, RecordParts
    <2>2. ProcessRecord(s, r) = [s EXCEPT !.rec = r]
      BY <1>1 DEF ProcessRecord
    <2> DEFINE n == ProcessRecord(s, r)
    <2>3. n \in States /\ n.rec = r /\ n.out = s.out
      BY <2>2, SetRec DEF States
    <2>4. PressOf(r) = <<>>
      BY <2>1 DEF PressOf
    <2> QED
      BY <1>0, <2>3, <2>4, ConcatEmptySeq DEF Did
  <1>2. CASE r.key # NoKey
    <2> DEFINE found == Lookup(s, r)
               a == keymaps[found.cache[r.key]][r.key]
               clears == s.oneshot.state # {} /\ r.pressed /\ ~IsModAction(a)
               cleared == IF clears THEN ClearOneshot(found, {"other"}) ELSE found
               m == Switch(cleared, r, a)
               o == [key |-> r.key, pressed |-> r.pressed, tap |-> r.count > 0]
    <2>1. r \in Records
      BY <1>2, RecordParts
    <2>2. found \in States /\ a \in KeymapActions
      BY <2>1, LookupFacts
    <2>3. found.out = Append(s.out, o)
      BY DEF Lookup, States
    <2>4. \/ ProcessRecord(s, r) = m
          \/ ProcessRecord(s, r) = ReleaseOneshot(m) /\ r.pressed
      BY <1>2 DEF ProcessRecord
    <2> HIDE DEF found, a, clears
    <2>5. cleared \in States /\ cleared.out = found.out
      BY <2>2, ClearOneshotFacts, ClearOut
    <2> HIDE DEF cleared
    <2>6. m \in States /\ m.rec \in Records /\ m.out = found.out /\ m.rec \in {r, Cancelled(r, a)}
      BY <2>1, <2>2, <2>5, SwitchFacts, SwitchOut
    <2> HIDE DEF m
    <2>7. PressesOf(m.out) = PressesOf(s.out) \o PressOf(r)
      BY <1>0, <2>1, <2>3, <2>6, OutAppend
    <2>8. /\ m.rec.key = r.key /\ m.rec.pressed = r.pressed
          /\ m.rec.count = r.count \/ (r.interrupted /\ m.rec.count = 0)
          /\ m.rec.interrupted = r.interrupted
      BY <2>1, <2>6, CancelledParts DEF Cancelled, Records
    <2>9. CASE ProcessRecord(s, r) = m
      BY <2>6, <2>7, <2>8, <2>9 DEF Did
    <2>10. CASE ProcessRecord(s, r) = ReleaseOneshot(m) /\ r.pressed
      BY <2>6, <2>7, <2>8, <2>10, ReleaseOneshotDid DEF Did
    <2> QED
      BY <2>4, <2>9, <2>10
  <1> QED
    BY <1>1, <1>2

-----------------------------------------------------------------------------
(* The steps *)

\* What process_tapping and its loop change.
LoopTypes ==
    /\ kb \in Kbs /\ source_layers_cache \in [Positions -> Layers]
    /\ tapping_key \in RecordsOrNone
    /\ waiting_buffer \in Seq(Records) /\ Len(waiting_buffer) < WAITING_BUFFER_SIZE
    /\ oneshot_layer_data \in Oneshots
    /\ draining \in BOOLEAN /\ (draining => waiting_buffer # <<>>)

(* TypeOK, with the types of the states that are passed along. *)
IInv == matrix_prev \subseteq Positions /\ LoopTypes

LEMMA StateType ==
    ASSUME LoopTypes
    PROVE  /\ State \in States /\ State.buffer = waiting_buffer
           /\ [State EXCEPT !.kb.weak_mods = {}] \in States
           /\ [State EXCEPT !.kb.weak_mods = {}].buffer = waiting_buffer
  <1>1. <<>> \in Seq(Processed) /\ NoEvent \in RecordsOrNone /\ TRUE \in BOOLEAN
    BY DEF RecordsOrNone
  <1>2. State \in States /\ State.buffer = waiting_buffer /\ State.kb \in Kbs
    BY <1>1 DEF LoopTypes, State, States
  <1> DEFINE k == [State.kb EXCEPT !.weak_mods = {}]
  <1>3. k \in Kbs
    BY <1>2, KbBegin
  <1>4. [State EXCEPT !.kb.weak_mods = {}] = [State EXCEPT !.kb = k]
    OBVIOUS
  <1> HIDE DEF k
  <1> QED
    BY <1>2, <1>3, <1>4, SetKb DEF Keeps

LEMMA BecomesTypes ==
    ASSUME NEW s \in States, Len(s.buffer) < WAITING_BUFFER_SIZE, Becomes(s),
           draining' \in BOOLEAN, draining' => s.buffer # <<>>
    PROVE  LoopTypes'
  <1>1. /\ s.kb \in Kbs /\ s.cache \in [Positions -> Layers] /\ s.tapping \in RecordsOrNone
        /\ s.buffer \in Seq(Records) /\ s.oneshot \in Oneshots
    BY DEF States
  <1>2. [s.kb EXCEPT !.sent = <<>>] \in Kbs
    BY <1>1, KbBegin
  <1> QED
    BY <1>1, <1>2 DEF LoopTypes, Becomes

LEMMA EnqueuedFacts ==
    ASSUME NEW s \in States, Len(s.buffer) < WAITING_BUFFER_SIZE
    PROVE  Enqueued(s) \in States /\ Len(Enqueued(s).buffer) < WAITING_BUFFER_SIZE
  <1>1. /\ s.kb \in Kbs /\ s.rec \in RecordsOrNone /\ s.buffer \in Seq(Records)
    BY DEF States
  <1>2. CASE s.rec.key = NoKey
    BY <1>2 DEF Enqueued
  <1>3. CASE s.rec.key # NoKey /\ HasRoom(s)
    <2> DEFINE b == Append(s.buffer, s.rec)
    <2>1. s.rec \in Records
      BY <1>1, <1>3, RecordParts
    <2>2. b \in Seq(Records) /\ Len(b) = Len(s.buffer) + 1
      BY <1>1, <2>1, AppendProperties
    <2>3. Enqueued(s) = [s EXCEPT !.buffer = b]
      BY <1>3 DEF Enqueued
    <2>4. Len(s.buffer) \in Nat /\ WAITING_BUFFER_SIZE \in Nat
          /\ Len(s.buffer) < WAITING_BUFFER_SIZE - 1
      BY <1>1, <1>3, TappingAssumption, LenProperties DEF HasRoom
    <2> DEFINE n == Len(s.buffer)
    <2>5. n \in Nat /\ n < WAITING_BUFFER_SIZE - 1 /\ Len(b) = n + 1
      BY <2>2, <2>4
    <2> HIDE DEF b, n
    <2>6. Len(b) < WAITING_BUFFER_SIZE
      BY <2>4, <2>5
    <2> QED
      BY <2>2, <2>3, <2>6 DEF States
  <1>4. CASE s.rec.key # NoKey /\ ~HasRoom(s)
    <2> DEFINE k == Cleared(s.kb)
    <2>1. k \in Kbs /\ NoEvent \in RecordsOrNone /\ <<>> \in Seq(Records)
      BY <1>1, KbCleared DEF RecordsOrNone
    <2>2. Enqueued(s) = [s EXCEPT !.kb = k, !.buffer = <<>>, !.tapping = NoEvent]
      BY <1>4 DEF Enqueued
    <2>3. Len(<<>>) < WAITING_BUFFER_SIZE
      BY TappingAssumption
    <2> HIDE DEF k
    <2> QED
      BY <2>1, <2>2, <2>3 DEF States
  <1> QED
    BY <1>2, <1>3, <1>4

LEMMA ExecTypes ==
    ASSUME LoopTypes, NEW r \in RecordsOrNone, NEW s \in States,
           s.buffer = waiting_buffer, Exec(r, s)
    PROVE  LoopTypes'
  <1> DEFINE taken == ProcessTapping(s, r)
             next == IF taken.done THEN taken ELSE Enqueued(taken)
  <1>1. taken \in States /\ Len(taken.buffer) = Len(waiting_buffer)
    BY ProcessTappingFacts
  <1>2. Becomes(next) /\ draining' = (next.buffer # <<>>)
    BY DEF Exec
  <1> HIDE DEF taken
  <1>3. Len(taken.buffer) < WAITING_BUFFER_SIZE
    BY <1>1 DEF LoopTypes
  <1>4. next \in States /\ Len(next.buffer) < WAITING_BUFFER_SIZE
    BY <1>1, <1>3, EnqueuedFacts
  <1> HIDE DEF next
  <1> QED
    BY <1>2, <1>4, BecomesTypes

LEMMA EventType ==
    /\ \A p \in Positions, b \in BOOLEAN : Event(p, b) \in RecordsOrNone
    /\ NoEvent \in RecordsOrNone
  <1>1. 0 \in 0..MaxCount /\ 0 \in 0..Clock - 1 /\ FALSE \in BOOLEAN
    BY TappingAssumption
  <1> QED
    BY <1>1 DEF Event, RecordsOrNone, Records, NoEvent

LEMMA DrainTypes ==
    ASSUME LoopTypes, Drain
    PROVE  LoopTypes'
  <1> DEFINE r == Head(waiting_buffer)
             taken == ProcessTapping(State, r)
             b == taken.buffer
             next == IF taken.done THEN [taken EXCEPT !.buffer = Tail(@)]
                                   ELSE [taken EXCEPT !.buffer[1] = taken.rec]
  <1>1. waiting_buffer \in Seq(Records) /\ waiting_buffer # <<>>
    BY DEF LoopTypes, Drain
  <1>2. r \in Records
    BY <1>1, HeadTailProperties
  <1>3. State \in States /\ State.buffer = waiting_buffer
    BY StateType
  <1>4. Becomes(next) /\ draining' = (taken.done /\ next.buffer # <<>>)
    BY DEF Drain
  <1> HIDE DEF r
  <1>5. taken \in States /\ Len(b) = Len(waiting_buffer) /\ taken.rec \in Records
    BY <1>2, <1>3, ProcessTappingFacts DEF RecordsOrNone
  <1> HIDE DEF taken
  <1>6. b \in Seq(Records) /\ taken.done \in BOOLEAN
    BY <1>5 DEF States
  <1>7. Len(waiting_buffer) \in Nat /\ Len(waiting_buffer) # 0
    BY <1>1, EmptySeq, LenProperties
  <1>8. b # <<>> /\ Len(b) < WAITING_BUFFER_SIZE /\ Len(b) \in Nat /\ 1 \in 1..Len(b)
    BY <1>5, <1>6, <1>7 DEF LoopTypes
  <1>9. CASE taken.done
    <2>1. next = [taken EXCEPT !.buffer = Tail(b)]
      BY <1>9
    <2>2. Tail(b) \in Seq(Records) /\ Len(Tail(b)) = Len(b) - 1
      BY <1>6, <1>8, HeadTailProperties
    <2> DEFINE n == Len(b)
    <2>3. n \in Nat /\ n < WAITING_BUFFER_SIZE /\ Len(Tail(b)) = n - 1
          /\ WAITING_BUFFER_SIZE \in Nat
      BY <1>8, <2>2, TappingAssumption
    <2> HIDE DEF n, b, next
    <2>4. Len(Tail(b)) < WAITING_BUFFER_SIZE
      BY <2>3
    <2>5. next \in States /\ Len(next.buffer) < WAITING_BUFFER_SIZE
      BY <1>5, <2>1, <2>2, <2>4 DEF States
    <2>6. draining' \in BOOLEAN /\ (draining' => next.buffer # <<>>)
      BY <1>4, <1>6
    <2> QED
      BY <1>4, <2>5, <2>6, BecomesTypes
  <1>10. CASE ~taken.done
    <2> DEFINE c == [b EXCEPT ![1] = taken.rec]
    <2>1. next = [taken EXCEPT !.buffer = c]
      BY <1>10
    <2>2. c \in Seq(Records) /\ Len(c) = Len(b)
      BY <1>5, <1>6, <1>8, ExceptSeq
    <2>3. draining' = FALSE
      BY <1>4, <1>10
    <2> HIDE DEF b, c, next
    <2>4. next \in States /\ Len(next.buffer) < WAITING_BUFFER_SIZE
      BY <1>5, <1>8, <2>1, <2>2 DEF States
    <2> QED
      BY <1>4, <2>3, <2>4, BecomesTypes
  <1> QED
    BY <1>9, <1>10

LEMMA OlderType ==
    /\ \A r \in RecordsOrNone : Older(r) \in RecordsOrNone
    /\ \A r \in Records : Older(r) \in Records
  <1>1. ASSUME NEW r \in Records PROVE Older(r) \in Records
    <2> DEFINE age == (r.age + 1) % Clock
    <2>1. r.age \in Nat /\ Clock \in Nat \ {0}
      BY TappingAssumption DEF Records
    <2>2. age \in 0..Clock - 1
      BY <2>1
    <2>3. Older(r) = [r EXCEPT !.age = age]
      BY RecordParts DEF Older, RecordsOrNone
    <2> HIDE DEF age
    <2> QED
      BY <2>2, <2>3 DEF Records
  <1>2. Older(NoEvent) = NoEvent
    BY NoneType DEF Older
  <1> QED
    BY <1>1, <1>2 DEF RecordsOrNone

LEMMA PassTypes ==
    ASSUME LoopTypes, Pass
    PROVE  LoopTypes'
  <1> DEFINE b == waiting_buffer
             c == [i \in DOMAIN b |-> Older(b[i])]
  <1>1. b \in Seq(Records) /\ Len(b) \in Nat /\ DOMAIN b = 1..Len(b)
    BY LenProperties DEF LoopTypes
  <1>2. \A i \in 1..Len(b) : Older(b[i]) \in Records
    BY <1>1, ElementOfSeq, OlderType
  <1>3. c \in Seq(Records) /\ Len(c) = Len(b)
    BY <1>1, <1>2
  <1>4. waiting_buffer' = c /\ tapping_key' = Older(tapping_key) /\ draining' = FALSE
    BY DEF Pass, LoopTypes
  <1>5. Older(tapping_key) \in RecordsOrNone
    BY OlderType DEF LoopTypes
  <1> HIDE DEF c
  <1> QED
    BY <1>3, <1>4, <1>5 DEF LoopTypes, Pass

LEMMA LinkChangeTypes ==
    ASSUME LoopTypes, LinkChange
    PROVE  LoopTypes' /\ UNCHANGED matrix_prev
  <1>1. kb \in Kbs
    BY DEF LoopTypes
  <1>2. kb' \in Kbs
    BY <1>1, KbBegin DEF LinkChange, A!LinkChange
  <1> QED
    BY <1>2 DEF LinkChange, A!LinkChange, LoopTypes

LEMMA InitTypes ==
    ASSUME Init PROVE IInv
  <1>1. kb \in Kbs
    <2>1. /\ kb \in ActionLemmas!Kb
          /\ kb.keys = {}
      BY DEF Init, A!Init, ActionLemmas!Kb, A!NoReport, A!NoUsage, A!Pages,
             ActionLemmas!Reports, ActionLemmas!Pages
    <2>2. IsFiniteSet({}) /\ Cardinality({}) = 0 /\ KEYBOARD_REPORT_KEYS \in Nat
      BY FS_EmptySet, TappingAssumption
    <2>3. ActionLemmas!IsFiniteSet({}) /\ ActionLemmas!Cardinality({}) = 0
      BY <2>2, Zenon DEF IsFiniteSet, Cardinality, ActionLemmas!IsFiniteSet, ActionLemmas!Cardinality
    <2> QED
      BY <2>1, <2>2, <2>3 DEF Kbs, ActionLemmas!Fits
  <1>2. 0 \in Layers /\ Len(<<>>) < WAITING_BUFFER_SIZE
    BY TappingAssumption
  <1>3. source_layers_cache \in [Positions -> Layers] /\ matrix_prev \subseteq Positions
    BY <1>2 DEF Init, A!Init
  <1>4. tapping_key \in RecordsOrNone /\ oneshot_layer_data \in Oneshots
    BY <1>2 DEF Init, RecordsOrNone, Oneshots, NoOneshot
  <1>5. /\ waiting_buffer \in Seq(Records) /\ Len(waiting_buffer) < WAITING_BUFFER_SIZE
        /\ draining = FALSE
    BY <1>2 DEF Init
  <1> QED
    BY <1>1, <1>3, <1>4, <1>5 DEF IInv, LoopTypes

LEMMA NextTypes ==
    ASSUME IInv, [Next]_vars
    PROVE  IInv'
  <1>1. LoopTypes /\ matrix_prev \subseteq Positions
    BY DEF IInv
  <1>2. ASSUME NEW p \in Positions, Press(p) PROVE IInv'
    <2>1. Exec(Event(p, TRUE), [State EXCEPT !.kb.weak_mods = {}])
          /\ matrix_prev' = matrix_prev \cup {p}
      BY <1>2 DEF Press
    <2>2. Event(p, TRUE) \in RecordsOrNone
      BY EventType
    <2> QED
      BY <1>1, <2>1, <2>2, StateType, ExecTypes DEF IInv
  <1>3. ASSUME NEW p \in Positions, Release(p) PROVE IInv'
    <2>1. Exec(Event(p, FALSE), State) /\ matrix_prev' = matrix_prev \ {p}
      BY <1>3 DEF Release
    <2>2. Event(p, FALSE) \in RecordsOrNone
      BY EventType
    <2> QED
      BY <1>1, <2>1, <2>2, StateType, ExecTypes DEF IInv
  <1>4. CASE Tick
    BY <1>1, <1>4, StateType, EventType, ExecTypes DEF Tick, IInv
  <1>5. CASE Drain
    BY <1>1, <1>5, DrainTypes DEF Drain, loopVars, IInv
  <1>6. CASE Pass
    BY <1>1, <1>6, PassTypes DEF Pass, IInv
  <1>7. CASE LinkChange
    BY <1>1, <1>7, LinkChangeTypes DEF IInv
  <1>8. CASE UNCHANGED vars
    BY <1>1, <1>8 DEF vars, IInv, LoopTypes
  <1> QED
    BY <1>2, <1>3, <1>4, <1>5, <1>6, <1>7, <1>8 DEF Next

LEMMA IInvTypeOK ==
    ASSUME IInv PROVE TypeOK
  <1>1. kb \in ActionLemmas!Kb /\ ActionLemmas!Fits(kb)
    BY DEF IInv, LoopTypes, Kbs
  <1>2. kb \in A!Kb
    BY <1>1 DEF A!Kb, ActionLemmas!Kb, A!Reports, ActionLemmas!Reports, A!Pages, ActionLemmas!Pages
  <1>3. A!IsFiniteSet(kb.keys) /\ A!Cardinality(kb.keys) = ActionLemmas!Cardinality(kb.keys)
    BY <1>1, Zenon DEF ActionLemmas!Fits, ActionLemmas!IsFiniteSet, A!IsFiniteSet,
                       ActionLemmas!Cardinality, A!Cardinality
  <1>4. A!Cardinality(kb.keys) <= KEYBOARD_REPORT_KEYS
    BY <1>1, <1>3 DEF ActionLemmas!Fits
  <1>5. A!TypeOK
    BY <1>2, <1>3, <1>4 DEF A!TypeOK, IInv, LoopTypes
  <1> QED
    BY <1>5 DEF TypeOK, IInv, LoopTypes, RecordsOrNone, Oneshots

(* The types; the buffer keeps one place free, and the loop over it runs   *)
(* only while it holds a record (action_tapping.c:457), for every keymap   *)
(* and whatever the keys do.                                               *)
THEOREM TypeCorrect == Spec => []TypeOK
  <1>1. Init => IInv
    BY InitTypes
  <1>2. IInv /\ [Next]_vars => IInv'
    BY NextTypes
  <1>3. IInv => TypeOK
    BY IInvTypeOK
  <1> QED
    BY <1>1, <1>2, <1>3, PTL DEF Spec
=============================================================================
