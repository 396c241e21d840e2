------------------------------ MODULE HeldProofs ------------------------------
(***************************************************************************)
(* Whatever is tapped or held, the release undoes what the press did: the  *)
(* keys, the modifiers and the momentary layers that are on belong to keys *)
(* that are down or whose release waits, for every keymap, number of keys  *)
(* and layers, tapping term and size of the buffer, until the records are  *)
(* disturbed (TracedTapping).                                              *)
(*                                                                         *)
(* The invariant, Paired, says of the records that wait that press and     *)
(* release of each key alternate, which of them are known to be those of a *)
(* tap, and that the report and the layers hold only what the keys that    *)
(* were down before the first of them give.  Its proof follows a record:   *)
(* the effect of process_record, then of a press, a tap and a release on   *)
(* Paired, then of one call of process_tapping, while tap or hold is not   *)
(* decided (PairedUndecided) and after it (PairedDecided), then the steps. *)
(*                                                                         *)
(* The second part is about the order: presses are processed in the order  *)
(* the keys were pressed (PressesInOrder).  One call of process_tapping    *)
(* hands on no press but the undecided one and its own (CallOrdered).      *)
(***************************************************************************)
EXTENDS TappingProofs, TracedTapping

-----------------------------------------------------------------------------
(* The report and the layers hold nothing but what a set of actions gives. *)

KeyActions(G) == {a \in G : a.kind = "key"}
CodesIn(G) == {a.code : a \in KeyActions(G)}
RealModsIn(G) == UNION {ActionLemmas!RealMods(a) : a \in KeyActions(G)}
WeakModsIn(G) == UNION {ActionLemmas!WeakMods(a) : a \in KeyActions(G)}
Momentary(layer) == [kind |-> "mo", layer |-> layer]

\* In the state k, but for the layers X, there is only what the actions G give.
HoldsOnly(k, G, X) ==
    /\ ActionLemmas!Within(k, CodesIn(G), RealModsIn(G), WeakModsIn(G))
    /\ \A layer \in k.layer_state \ X : Momentary(layer) \in G

LEMMA HoldsMore ==
    ASSUME NEW k, NEW G, NEW H, G \subseteq H, NEW X, NEW Y, X \subseteq Y, HoldsOnly(k, G, X)
    PROVE  HoldsOnly(k, H, Y)
  <1>1. CodesIn(G) \subseteq CodesIn(H)
    BY DEF CodesIn, KeyActions
  <1>2. RealModsIn(G) \subseteq RealModsIn(H)
    BY Zenon DEF RealModsIn, KeyActions
  <1>3. WeakModsIn(G) \subseteq WeakModsIn(H)
    BY Zenon DEF WeakModsIn, KeyActions
  <1> QED
    BY <1>1, <1>2, <1>3 DEF HoldsOnly, ActionLemmas!Within

\* What one more action gives.
LEMMA OneMore ==
    ASSUME NEW G, NEW a
    PROVE  /\ a.kind = "key" => /\ a.code \in CodesIn(G \cup {a})
                                /\ ActionLemmas!RealMods(a) \subseteq RealModsIn(G \cup {a})
                                /\ ActionLemmas!WeakMods(a) \subseteq WeakModsIn(G \cup {a})
                                /\ CodesIn(G \cup {a}) = CodesIn(G) \cup {a.code}
                                /\ RealModsIn(G \cup {a}) = RealModsIn(G) \cup ActionLemmas!RealMods(a)
                                /\ WeakModsIn(G \cup {a}) = WeakModsIn(G) \cup ActionLemmas!WeakMods(a)
           /\ a.kind # "key" => /\ CodesIn(G \cup {a}) = CodesIn(G)
                                /\ RealModsIn(G \cup {a}) = RealModsIn(G)
                                /\ WeakModsIn(G \cup {a}) = WeakModsIn(G)
  <1>1. a.kind = "key" => KeyActions(G \cup {a}) = KeyActions(G) \cup {a}
    BY DEF KeyActions
  <1>2. a.kind # "key" => KeyActions(G \cup {a}) = KeyActions(G)
    BY DEF KeyActions
  <1>3. a.kind = "key" => CodesIn(G \cup {a}) = CodesIn(G) \cup {a.code}
    BY <1>1 DEF CodesIn
  <1>4. ASSUME a.kind = "key"
        PROVE  /\ RealModsIn(G \cup {a}) = RealModsIn(G) \cup ActionLemmas!RealMods(a)
               /\ WeakModsIn(G \cup {a}) = WeakModsIn(G) \cup ActionLemmas!WeakMods(a)
    <2> DEFINE K == KeyActions(G)
    <2>1. KeyActions(G \cup {a}) = K \cup {a}
      BY <1>1, <1>4
    <2>2. RealModsIn(G \cup {a}) = UNION {ActionLemmas!RealMods(g) : g \in K \cup {a}}
          /\ WeakModsIn(G \cup {a}) = UNION {ActionLemmas!WeakMods(g) : g \in K \cup {a}}
      BY <2>1 DEF RealModsIn, WeakModsIn
    <2>3. RealModsIn(G) = UNION {ActionLemmas!RealMods(g) : g \in K}
          /\ WeakModsIn(G) = UNION {ActionLemmas!WeakMods(g) : g \in K}
      BY DEF RealModsIn, WeakModsIn
    <2> HIDE DEF K
    <2>4. UNION {ActionLemmas!RealMods(g) : g \in K \cup {a}}
            = (UNION {ActionLemmas!RealMods(g) : g \in K}) \cup ActionLemmas!RealMods(a)
      OBVIOUS
    <2>5. UNION {ActionLemmas!WeakMods(g) : g \in K \cup {a}}
            = (UNION {ActionLemmas!WeakMods(g) : g \in K}) \cup ActionLemmas!WeakMods(a)
      OBVIOUS
    <2> QED
      BY <2>2, <2>3, <2>4, <2>5
  <1>5. a.kind # "key" => /\ CodesIn(G \cup {a}) = CodesIn(G)
                          /\ RealModsIn(G \cup {a}) = RealModsIn(G)
                          /\ WeakModsIn(G \cup {a}) = WeakModsIn(G)
    BY <1>2 DEF CodesIn, RealModsIn, WeakModsIn
  <1> QED
    BY <1>3, <1>4, <1>5

\* A press adds its action.
LEMMA HoldsPressed ==
    ASSUME NEW k \in Kbs, NEW a \in ActionLemmas!AnyAction, NEW G, NEW X, HoldsOnly(k, G, X),
           a.kind = "to" => a.layer \in X
    PROVE  HoldsOnly(A!Pressed(k, a), G \cup {a}, X)
  <1> DEFINE H == G \cup {a}
             n == ActionLemmas!Pressed(k, a)
             U == ActionLemmas!UsageAction
  <1>1. HoldsOnly(k, H, X)
    BY HoldsMore
  <1>2. /\ a.kind = "key" => /\ a.code \in CodesIn(H)
                             /\ ActionLemmas!RealMods(a) \subseteq RealModsIn(H)
                             /\ ActionLemmas!WeakMods(a) \subseteq WeakModsIn(H)
    BY OneMore
  <1>3. k \in ActionLemmas!Kb /\ ActionLemmas!UsagesWithin(k, U)
    BY KbFacts
  <1>4. a.kind = "usage" => a \in U
    BY ActionParameters, ActionLemmas!ActionKinds
  <1>5. ActionLemmas!Within(k, CodesIn(H), RealModsIn(H), WeakModsIn(H))
    BY <1>1 DEF HoldsOnly
  <1>6. ActionLemmas!Within(n, CodesIn(H), RealModsIn(H), WeakModsIn(H))
    <2> HIDE DEF H, U
    <2> QED
      BY <1>2, <1>3, <1>4, <1>5, ActionParameters, ActionLemmas!PressedFacts
  <1>7. n.layer_state = CASE a.kind = "mo" -> k.layer_state \cup {a.layer}
                          [] a.kind = "to" -> {a.layer}
                          [] OTHER -> k.layer_state
    BY <1>3, ActionParameters, ActionLemmas!PressedLayers
  <1>8. \A layer \in k.layer_state \ X : Momentary(layer) \in H
    BY <1>1 DEF HoldsOnly
  <1>9. a.kind = "mo" => a = Momentary(a.layer)
    BY DEF Momentary, ActionLemmas!AnyAction, ActionLemmas!KeyAction, ActionLemmas!UsageAction,
           ActionLemmas!LayerAction, ActionLemmas!Transparent
  <1> HIDE DEF n
  <1>10. \A layer \in n.layer_state \ X : Momentary(layer) \in H
    <2>1. CASE a.kind = "mo"
      BY <1>7, <1>8, <1>9, <2>1
    <2>2. CASE a.kind = "to"
      BY <1>7, <2>2
    <2>3. CASE a.kind \notin {"mo", "to"}
      BY <1>7, <1>8, <2>3
    <2> QED
      BY <2>1, <2>2, <2>3
  <1> QED
    BY <1>6, <1>10, SamePressed DEF HoldsOnly, n

\* A release takes its action away.
LEMMA HoldsReleased ==
    ASSUME NEW k \in Kbs, NEW a \in ActionLemmas!AnyAction, NEW G, NEW X,
           HoldsOnly(k, G \cup {a}, X),
           a.kind = "tg" => a.layer \in X
    PROVE  HoldsOnly(A!Released(k, a), G, X)
  <1> DEFINE H == G \cup {a}
             n == ActionLemmas!Released(k, a)
             U == ActionLemmas!UsageAction
             C == CodesIn(G)
             R == RealModsIn(G)
             W == WeakModsIn(G)
  <1>1. k \in ActionLemmas!Kb /\ ActionLemmas!UsagesWithin(k, U)
    BY KbFacts
  <1>2. ActionLemmas!UsagesWithin(k, U \cup {a})
    BY <1>1 DEF ActionLemmas!UsagesWithin
  <1>3. ActionLemmas!Within(k, CodesIn(H), RealModsIn(H), WeakModsIn(H))
    BY DEF HoldsOnly
  <1>4. a.kind = "key" => ActionLemmas!Within(k, C \cup ({a.code} \cap Codes),
                                               R \cup ActionLemmas!RealMods(a),
                                               W \cup ActionLemmas!WeakMods(a))
    <2> SUFFICES ASSUME a.kind = "key"
                 PROVE  ActionLemmas!Within(k, C \cup ({a.code} \cap Codes),
                                               R \cup ActionLemmas!RealMods(a),
                                               W \cup ActionLemmas!WeakMods(a))
      OBVIOUS
    <2>1. /\ CodesIn(H) = C \cup {a.code}
          /\ RealModsIn(H) = R \cup ActionLemmas!RealMods(a)
          /\ WeakModsIn(H) = W \cup ActionLemmas!WeakMods(a)
      BY OneMore
    <2>2. k.keys \subseteq Codes /\ k.last_report.keys \subseteq Codes
      BY <1>1 DEF ActionLemmas!Kb, ActionLemmas!Reports
    <2> HIDE DEF C, R, W, H
    <2> QED
      BY <1>3, <2>1, <2>2 DEF ActionLemmas!Within
  <1>5. a.kind # "key" => ActionLemmas!Within(k, C, R, W)
    BY <1>3, OneMore
  <1>6. ActionLemmas!Within(n, C, R, W)
    <2> HIDE DEF C, R, W, U
    <2> QED
      BY <1>1, <1>2, <1>4, <1>5, ActionParameters, ActionLemmas!ReleasedFacts
  <1>7. n.layer_state = CASE a.kind = "mo" -> ActionLemmas!MomentaryOff(k, a.layer)
                          [] a.kind = "tg" -> ActionLemmas!SymDiff(k.layer_state, {a.layer})
                          [] OTHER -> k.layer_state
    BY <1>1, ActionParameters, ActionLemmas!ReleasedLayers
  <1>8. \A layer \in k.layer_state \ X : Momentary(layer) \in H
    BY DEF HoldsOnly
  <1>9. /\ a.kind # "mo" => \A layer : Momentary(layer) # a
        /\ a.kind = "mo" => \A layer : Momentary(layer) = a => layer = a.layer
    BY DEF Momentary
  <1> HIDE DEF n
  <1>10. \A layer \in n.layer_state \ X : Momentary(layer) \in G
    <2>1. CASE a.kind = "mo"
      <3>1. n.layer_state = k.layer_state \ {a.layer}
        BY <1>7, <2>1 DEF ActionLemmas!MomentaryOff
      <3> QED
        BY <1>8, <1>9, <2>1, <3>1
    <2>2. CASE a.kind = "tg"
      <3>1. n.layer_state \subseteq k.layer_state \cup {a.layer}
        BY <1>7, <2>2 DEF ActionLemmas!SymDiff
      <3> QED
        BY <1>8, <1>9, <2>2, <3>1
    <2>3. CASE a.kind \notin {"mo", "tg"}
      BY <1>7, <1>8, <1>9, <2>3
    <2> QED
      BY <2>1, <2>2, <2>3
  <1> QED
    BY <1>6, <1>10, SameReleased DEF HoldsOnly, n

\* No new layers but those of X.
LEMMA HoldsLayers ==
    ASSUME NEW k \in Kbs, NEW layers \in SUBSET Layers, NEW G, NEW X, HoldsOnly(k, G, X),
           NEW Y, \A layer \in layers \ Y : layer \in k.layer_state \ X
    PROVE  HoldsOnly(A!LayerStateSet(k, layers), G, Y)
  <1> DEFINE n == ActionLemmas!LayerStateSet(k, layers)
             C == CodesIn(G)
             R == RealModsIn(G)
             W == WeakModsIn(G)
  <1>1. k \in ActionLemmas!Kb /\ ActionLemmas!Within(k, C, R, W)
    BY KbFacts DEF HoldsOnly
  <1> HIDE DEF C, R, W
  <1>2. ActionLemmas!Within(n, C, R, W) /\ n.layer_state = layers
    BY <1>1, ActionParameters, ActionLemmas!LayerStateSetFacts
  <1> HIDE DEF n
  <1> QED
    BY <1>2, SameLayers DEF HoldsOnly, n, C, R, W

LEMMA HoldsBegin ==
    ASSUME NEW k \in Kbs, NEW G, NEW X, HoldsOnly(k, G, X)
    PROVE  /\ HoldsOnly([k EXCEPT !.sent = <<>>], G, X)
           /\ HoldsOnly([k EXCEPT !.weak_mods = {}], G, X)
           /\ HoldsOnly([k EXCEPT !.link = ~@, !.host = A!NoReport, !.host_usage = A!NoUsage,
                                  !.sent = <<>>], G, X)
  <1>1. k \in ActionLemmas!Kb
    BY KbFacts
  <1>2. ActionLemmas!Within(k, CodesIn(G), RealModsIn(G), WeakModsIn(G))
        /\ \A layer \in k.layer_state \ X : Momentary(layer) \in G
    BY DEF HoldsOnly
  <1> DEFINE C == CodesIn(G)
             R == RealModsIn(G)
             W == WeakModsIn(G)
             s == [k EXCEPT !.sent = <<>>]
             w == [k EXCEPT !.weak_mods = {}]
             l == [k EXCEPT !.link = ~@, !.host = A!NoReport, !.host_usage = A!NoUsage, !.sent = <<>>]
  <1>3. ActionLemmas!Within(s, C, R, W) /\ s.layer_state = k.layer_state
    BY <1>1, <1>2 DEF ActionLemmas!Within, ActionLemmas!Kb
  <1>4. ActionLemmas!Within(w, C, R, W) /\ w.layer_state = k.layer_state
    BY <1>1, <1>2 DEF ActionLemmas!Within, ActionLemmas!Kb
  <1>5. ActionLemmas!Within(l, C, R, W) /\ l.layer_state = k.layer_state
    BY <1>1, <1>2 DEF ActionLemmas!Within, ActionLemmas!Kb
  <1> QED
    BY <1>2, <1>3, <1>4, <1>5 DEF HoldsOnly

-----------------------------------------------------------------------------
(* What processing a record does to the report, the layers and the cache.  *)

\* n has the layers in the cache and the processed records of s.
Untouched(n, s) == n.cache = s.cache /\ n.out = s.out

\* An action that is no key and no momentary layer gives nothing.
LEMMA HoldsWithout ==
    ASSUME NEW k, NEW G, NEW a, a.kind \notin {"key", "mo"}, NEW X, HoldsOnly(k, G \cup {a}, X)
    PROVE  HoldsOnly(k, G, X)
  <1>1. /\ CodesIn(G \cup {a}) = CodesIn(G)
        /\ RealModsIn(G \cup {a}) = RealModsIn(G)
        /\ WeakModsIn(G \cup {a}) = WeakModsIn(G)
    BY OneMore
  <1>2. \A layer : Momentary(layer) # a
    BY DEF Momentary
  <1> QED
    BY <1>1, <1>2 DEF HoldsOnly

LEMMA KeymapLockable ==
    ASSUME NEW layer \in Layers, NEW p \in Positions,
           keymaps[layer][p].kind \in {"tg", "to", "tt", "osl"}
    PROVE  keymaps[layer][p].layer \in Lockable
  <1>1. keymaps[layer][p] \in KeymapActions
    BY KeymapType
  <1>2. keymaps[layer][p].layer \in Layers
    BY <1>1 DEF KeymapActions, TapActions, A!KeyAction, A!UsageAction, A!LayerAction, A!Transparent
  <1> QED
    BY <1>2 DEF Lockable

LEMMA LayerEffect ==
    ASSUME NEW s \in States, NEW layer \in Layers, NEW G, NEW X, HoldsOnly(s.kb, G, X),
           NEW n \in {LayerOn(s, layer), LayerOff(s, layer), LayerInvert(s, layer)},
           NEW Y, X \subseteq Y, layer \in Y
    PROVE  HoldsOnly(n.kb, G, Y) /\ Untouched(n, s)
  <1>1. s.kb \in Kbs /\ s.kb.layer_state \in SUBSET Layers
    BY DEF States, Kbs, ActionLemmas!Kb
  <1> DEFINE L == s.kb.layer_state
  <1>2. PICK layers \in {L \cup {layer}, L \ {layer}, SymDiff(L, {layer})} :
                n = [s EXCEPT !.kb = A!LayerStateSet(s.kb, layers)]
    BY DEF LayerOn, LayerOff, LayerInvert
  <1>3. layers \in SUBSET Layers /\ \A i \in layers \ Y : i \in L \ X
    BY <1>1 DEF SymDiff
  <1>4. HoldsOnly(A!LayerStateSet(s.kb, layers), G, Y)
    BY <1>1, <1>3, HoldsLayers
  <1>5. n.kb = A!LayerStateSet(s.kb, layers) /\ n.cache = s.cache /\ n.out = s.out
    BY <1>2 DEF States
  <1> QED
    BY <1>4, <1>5 DEF Untouched

LEMMA InvertedOrNot ==
    ASSUME NEW s \in States, NEW layer \in Layers, NEW G, NEW X, layer \in X,
           HoldsOnly(s.kb, G, X), NEW m \in {LayerInvert(s, layer), s}
    PROVE  m \in States /\ HoldsOnly(m.kb, G, X) /\ Untouched(m, s) /\ m.oneshot = s.oneshot
  <1>1. CASE m = s
    BY <1>1 DEF Untouched
  <1>2. CASE m = LayerInvert(s, layer)
    BY <1>2, LayerFacts, LayerEffect
  <1> QED
    BY <1>1, <1>2

\* A layer that is turned off is an exception no more.
LEMMA LayerOffEffect ==
    ASSUME NEW s \in States, NEW layer \in Layers, NEW G, NEW X, NEW Y, Y \subseteq X \cup {layer},
           HoldsOnly(s.kb, G, Y)
    PROVE  HoldsOnly(LayerOff(s, layer).kb, G, X) /\ Untouched(LayerOff(s, layer), s)
  <1>1. s.kb \in Kbs /\ s.kb.layer_state \in SUBSET Layers
    BY DEF States, Kbs, ActionLemmas!Kb
  <1> DEFINE layers == s.kb.layer_state \ {layer}
             n == LayerOff(s, layer)
  <1>2. n = [s EXCEPT !.kb = A!LayerStateSet(s.kb, layers)]
    BY DEF LayerOff
  <1>3. layers \in SUBSET Layers /\ \A i \in layers \ X : i \in s.kb.layer_state \ Y
    BY <1>1
  <1>4. HoldsOnly(A!LayerStateSet(s.kb, layers), G, X)
    BY <1>1, <1>3, HoldsLayers
  <1>5. n.kb = A!LayerStateSet(s.kb, layers) /\ n.cache = s.cache /\ n.out = s.out
    BY <1>2 DEF States
  <1> QED
    BY <1>4, <1>5 DEF Untouched

\* The one-shot layer is 0 when it is not on.
LEMMA ClearOneshotEffect ==
    ASSUME NEW s \in States, NEW bits, NEW G, NEW X, HoldsOnly(s.kb, G, X),
           NEW n, n = ClearOneshot(s, bits)
    PROVE  /\ HoldsOnly(n.kb, G, X) /\ Untouched(n, s)
           /\ n.oneshot.layer \in {s.oneshot.layer, 0}
           /\ s.oneshot.state # {} /\ n.oneshot.state = {} => n.oneshot.layer = 0
  <1> DEFINE left == s.oneshot.state \ bits
             off == LayerOff(s, s.oneshot.layer)
  <1>1. s.oneshot.layer \in Layers
    BY DEF States, Oneshots
  <1>2. CASE left # {} \/ s.oneshot.state = {}
    <2>1. n = [s EXCEPT !.oneshot.state = left]
      BY <1>2 DEF ClearOneshot
    <2>2. /\ n.kb = s.kb /\ n.cache = s.cache /\ n.out = s.out
          /\ n.oneshot.layer = s.oneshot.layer /\ n.oneshot.state = left
      BY <2>1 DEF States, Oneshots
    <2> QED
      BY <1>2, <2>2 DEF Untouched
  <1>3. CASE ~(left # {} \/ s.oneshot.state = {})
    <2>1. n = [off EXCEPT !.oneshot = NoOneshot]
      BY <1>3 DEF ClearOneshot
    <2>2. off \in States /\ HoldsOnly(off.kb, G, X) /\ Untouched(off, s)
      BY <1>1, LayerFacts, LayerOffEffect
    <2> HIDE DEF off
    <2>3. /\ n.kb = off.kb /\ n.cache = off.cache /\ n.out = off.out
          /\ n.oneshot.layer = 0
      BY <2>1, <2>2 DEF States, NoOneshot
    <2> QED
      BY <2>2, <2>3 DEF Untouched
  <1> QED
    BY <1>2, <1>3

LEMMA ResolvedIs ==
    ASSUME NEW a, NEW count
    PROVE  /\ a.kind \notin {"mt", "lt"} => Resolved(a, count) = a
           /\ Resolved(a, count).kind \in {"to", "tg"} => Resolved(a, count) = a
  BY DEF Resolved

\* Only a press of a mod-tap key that was interrupted changes its count.
LEMMA CancelledIs ==
    ASSUME NEW r \in Records, NEW a
    PROVE  /\ Cancelled(r, a) \in Records
           /\ Cancelled(r, a).key = r.key /\ Cancelled(r, a).pressed = r.pressed
           /\ Cancelled(r, a).interrupted = r.interrupted
           /\ r.pressed => Cancelled(r, a).count = IF a.kind = "mt" /\ r.interrupted THEN 0
                                                   ELSE r.count
           /\ ~r.pressed => Cancelled(r, a) = r
  BY TappingAssumption DEF Cancelled, Records

LEMMA SwitchPress ==
    ASSUME NEW s \in States, NEW r \in Records, r.pressed, NEW a \in KeymapActions,
           NEW X, a.kind \in {"tg", "to", "tt", "osl"} => a.layer \in X,
           NEW G, HoldsOnly(s.kb, G, X),
           NEW n, n = Switch(s, r, a)
    PROVE  /\ n.rec \in Records /\ n.rec.key = r.key /\ n.rec.pressed
           /\ n.rec.interrupted = r.interrupted
           /\ n.rec.count = IF a.kind = "mt" /\ r.interrupted THEN 0 ELSE r.count
           /\ HoldsOnly(n.kb, G \cup {Resolved(a, n.rec.count)}, X)
           /\ Untouched(n, s)
           /\ a.kind = "osl" => "pressed" \in n.oneshot.state
           /\ a.kind # "osl" => n.oneshot = s.oneshot
  <1>1. CASE a.kind = "tt"
    <2>1. a.layer \in Layers /\ a.layer \in X
      BY <1>1, ActionLayer
    <2>2. PICK m \in {LayerInvert(s, a.layer), s} : n = [m EXCEPT !.rec = r]
      BY <1>1 DEF Switch, TapToggle
    <2>3. m \in States /\ HoldsOnly(m.kb, G, X) /\ Untouched(m, s) /\ m.oneshot = s.oneshot
      BY <2>1, <2>2, InvertedOrNot
    <2>4. /\ n.kb = m.kb /\ n.cache = m.cache /\ n.out = m.out /\ n.rec = r
          /\ n.oneshot = m.oneshot
      BY <2>2, <2>3 DEF States
    <2>5. HoldsOnly(n.kb, G \cup {Resolved(a, n.rec.count)}, X)
      BY <2>3, <2>4, HoldsMore
    <2> QED
      BY <1>1, <2>3, <2>4, <2>5 DEF Untouched
  <1>2. CASE a.kind = "osl"
    <2>1. a.layer \in Layers /\ a.layer \in X
      BY <1>2, ActionLayer
    <2> DEFINE m == LayerOn(s, a.layer)
               on == LayerOn(m, a.layer)
    <2>2. m \in States /\ HoldsOnly(m.kb, G, X) /\ Untouched(m, s)
      BY <2>1, LayerFacts, LayerEffect
    <2> HIDE DEF m
    <2>3. on \in States /\ HoldsOnly(on.kb, G, X) /\ Untouched(on, m)
      BY <2>1, <2>2, LayerFacts, LayerEffect
    <2>4. n = [on EXCEPT !.oneshot = [layer |-> a.layer, state |-> {"pressed", "other"}],
                         !.rec = r]
      BY <1>2 DEF Switch, OneshotLayer, m
    <2> HIDE DEF on
    <2>5. /\ n.kb = on.kb /\ n.cache = on.cache /\ n.out = on.out /\ n.rec = r
          /\ n.oneshot.state = {"pressed", "other"}
      BY <2>3, <2>4 DEF States
    <2>6. HoldsOnly(n.kb, G \cup {Resolved(a, n.rec.count)}, X)
      BY <2>3, <2>5, HoldsMore
    <2> QED
      BY <1>2, <2>2, <2>3, <2>5, <2>6 DEF Untouched
  <1>3. CASE a.kind \notin {"tt", "osl"}
    <2> DEFINE c == Cancelled(r, a)
               b == Resolved(a, c.count)
               k == A!Pressed(s.kb, b)
    <2>1. /\ c \in Records /\ c.key = r.key /\ c.pressed /\ c.interrupted = r.interrupted
          /\ c.count = IF a.kind = "mt" /\ r.interrupted THEN 0 ELSE r.count
      BY CancelledIs
    <2>2. n = [s EXCEPT !.kb = k, !.rec = c]
      BY <1>3, <2>1 DEF Switch, Apply
    <2>3. b \in ActionLemmas!AnyAction /\ (b.kind = "to" => b.layer \in X) /\ s.kb \in Kbs
      BY <1>3, ResolvedType, ResolvedIs DEF States
    <2> HIDE DEF c, b
    <2>4. HoldsOnly(k, G \cup {b}, X)
      BY <2>3, HoldsPressed
    <2> HIDE DEF k
    <2>5. /\ n.kb = k /\ n.cache = s.cache /\ n.out = s.out /\ n.rec = c
          /\ n.oneshot = s.oneshot
      BY <2>2 DEF States
    <2> QED
      BY <1>3, <2>1, <2>4, <2>5 DEF Untouched, b
  <1> QED
    BY <1>1, <1>2, <1>3

LEMMA SwitchRelease ==
    ASSUME NEW s \in States, NEW r \in Records, ~r.pressed, NEW a \in KeymapActions,
           NEW X, a.kind \in {"tg", "to", "tt", "osl"} => a.layer \in X,
           NEW G, HoldsOnly(s.kb, G \cup {Resolved(a, r.count)}, X),
           NEW n, n = Switch(s, r, a)
    PROVE  /\ n.rec = r
           /\ HoldsOnly(n.kb, G, X)
           /\ Untouched(n, s)
           /\ n.oneshot.layer \in {s.oneshot.layer, 0}
  <1>0. a.kind \in {"tt", "osl"} => HoldsOnly(s.kb, G, X)
    BY ResolvedIs, HoldsWithout
  <1>1. CASE a.kind = "tt"
    <2>1. a.layer \in Layers /\ a.layer \in X
      BY <1>1, ActionLayer
    <2>2. PICK m \in {LayerInvert(s, a.layer), s} : n = [m EXCEPT !.rec = r]
      BY <1>1 DEF Switch, TapToggle
    <2>3. m \in States /\ HoldsOnly(m.kb, G, X) /\ Untouched(m, s) /\ m.oneshot = s.oneshot
      BY <1>0, <1>1, <2>1, <2>2, InvertedOrNot
    <2>4. /\ n.kb = m.kb /\ n.cache = m.cache /\ n.out = m.out /\ n.rec = r
          /\ n.oneshot = m.oneshot
      BY <2>2, <2>3 DEF States
    <2> QED
      BY <2>3, <2>4 DEF Untouched
  <1>2. CASE a.kind = "osl"
    <2> DEFINE let_go == ClearOneshot(s, {"pressed"})
    <2>1. /\ let_go \in States /\ HoldsOnly(let_go.kb, G, X) /\ Untouched(let_go, s)
          /\ let_go.oneshot.layer \in {s.oneshot.layer, 0}
      BY <1>0, <1>2, ClearOneshotFacts, ClearOneshotEffect
    <2>2. PICK m \in {ClearOneshot(let_go, {"other"}), let_go} : n = [m EXCEPT !.rec = r]
      BY <1>2 DEF Switch, OneshotLayer
    <2> HIDE DEF let_go
    <2>3. /\ m \in States /\ HoldsOnly(m.kb, G, X) /\ Untouched(m, let_go)
          /\ m.oneshot.layer \in {let_go.oneshot.layer, 0}
      <3>1. CASE m = let_go
        BY <2>1, <3>1 DEF Untouched
      <3>2. CASE m = ClearOneshot(let_go, {"other"})
        BY <2>1, <3>2, ClearOneshotFacts, ClearOneshotEffect
      <3> QED
        BY <2>2, <3>1, <3>2
    <2>4. /\ n.kb = m.kb /\ n.cache = m.cache /\ n.out = m.out /\ n.rec = r
          /\ n.oneshot = m.oneshot
      BY <2>2, <2>3 DEF States
    <2> QED
      BY <2>1, <2>3, <2>4 DEF Untouched
  <1>3. CASE a.kind \notin {"tt", "osl"}
    <2> DEFINE b == Resolved(a, r.count)
               k == A!Released(s.kb, b)
    <2>1. n = [s EXCEPT !.kb = k, !.rec = r]
      BY <1>3, CancelledIs DEF Switch, Apply
    <2>2. b \in ActionLemmas!AnyAction /\ (b.kind = "tg" => b.layer \in X) /\ s.kb \in Kbs
      BY <1>3, ResolvedType, ResolvedIs DEF States
    <2> HIDE DEF b
    <2>3. HoldsOnly(k, G, X)
      BY <2>2, HoldsReleased DEF b
    <2> HIDE DEF k
    <2>4. /\ n.kb = k /\ n.cache = s.cache /\ n.out = s.out /\ n.rec = r
          /\ n.oneshot = s.oneshot
      BY <2>1 DEF States
    <2> QED
      BY <2>3, <2>4 DEF Untouched
  <1> QED
    BY <1>1, <1>2, <1>3

LEMMA LookupPress ==
    ASSUME NEW s \in States, NEW r \in Records, r.pressed
    PROVE  /\ Lookup(s, r).kb = s.kb /\ Lookup(s, r).oneshot = s.oneshot
           /\ Lookup(s, r).cache = [s.cache EXCEPT ![r.key] = SourceLayer(s, r.key)]
           /\ Lookup(s, r).cache[r.key] = SourceLayer(s, r.key)
           /\ SourceLayer(s, r.key) \in Layers
           /\ Lookup(s, r).out = Append(s.out, [key |-> r.key, pressed |-> r.pressed,
                                                tap |-> r.count > 0])
  <1>1. r.key \in Positions /\ s.cache \in [Positions -> Layers]
    BY DEF Records, States
  <1>2. SourceLayer(s, r.key) \in Layers
    BY <1>1, SourceFacts
  <1> QED
    BY <1>1, <1>2 DEF Lookup, States

LEMMA LookupRelease ==
    ASSUME NEW s \in States, NEW r \in Records, ~r.pressed
    PROVE  /\ Lookup(s, r).kb = s.kb /\ Lookup(s, r).oneshot = s.oneshot
           /\ Lookup(s, r).cache = s.cache /\ s.cache[r.key] \in Layers /\ r.key \in Positions
           /\ Lookup(s, r).out = Append(s.out, [key |-> r.key, pressed |-> r.pressed,
                                                tap |-> r.count > 0])
  <1>1. r.key \in Positions /\ s.cache \in [Positions -> Layers]
    BY DEF Records, States
  <1>2. [s.cache EXCEPT ![r.key] = s.cache[r.key]] = s.cache
    BY <1>1
  <1> QED
    BY <1>1, <1>2 DEF Lookup, States

\* A release takes away what its key gave, as its count has it.
LEMMA ProcessRelease ==
    ASSUME NEW s \in States, NEW r \in Records, ~r.pressed, NEW X, Lockable \subseteq X,
           NEW G, HoldsOnly(s.kb, G \cup {Resolved(keymaps[s.cache[r.key]][r.key], r.count)}, X)
    PROVE  /\ HoldsOnly(Process(s, r).kb, G, X) /\ Process(s, r).cache = s.cache
           /\ Process(s, r).rec = r
           /\ Process(s, r).oneshot.layer \in {s.oneshot.layer, 0}
           /\ Process(s, r).out = Append(s.out, [key |-> r.key, pressed |-> r.pressed,
                                                 tap |-> r.count > 0])
  <1> DEFINE found == Lookup(s, r)
             a == keymaps[s.cache[r.key]][r.key]
             n == Switch(found, r, a)
  <1>1. /\ found.kb = s.kb /\ found.cache = s.cache /\ found.oneshot = s.oneshot
        /\ found.out = Append(s.out, [key |-> r.key, pressed |-> r.pressed, tap |-> r.count > 0])
    BY LookupRelease
  <1>2. s.cache[r.key] \in Layers /\ r.key \in Positions
    BY LookupRelease
  <1>3. found \in States /\ keymaps[found.cache[r.key]][r.key] \in KeymapActions
    BY LookupFacts
  <1>4. a \in KeymapActions
    BY <1>1, <1>3
  <1>5. a.kind \in {"tg", "to", "tt", "osl"} => a.layer \in X
    BY <1>2, KeymapLockable
  <1>6. Process(s, r) = n
    BY <1>1 DEF Process
  <1>7. HoldsOnly(found.kb, G \cup {Resolved(a, r.count)}, X)
    BY <1>1
  <1> HIDE DEF found, a
  <1>8. /\ n.rec = r
        /\ HoldsOnly(n.kb, G, X)
        /\ Untouched(n, found)
        /\ n.oneshot.layer \in {found.oneshot.layer, 0}
    BY <1>3, <1>4, <1>5, <1>7, SwitchRelease
  <1> HIDE DEF n
  <1> QED
    BY <1>1, <1>6, <1>8 DEF Untouched

LEMMA ProcessRecordRelease ==
    ASSUME NEW s \in States, NEW r \in Records, ~r.pressed,
           NEW G, HoldsOnly(s.kb, G \cup {Resolved(keymaps[s.cache[r.key]][r.key], r.count)},
                            Lockable)
    PROVE  /\ HoldsOnly(ProcessRecord(s, r).kb, G, Lockable)
           /\ ProcessRecord(s, r).cache = s.cache /\ ProcessRecord(s, r).rec = r
  <1>1. r.key # NoKey
    BY RecordParts DEF RecordsOrNone
  <1>2. ProcessRecord(s, r) = Process(s, r)
    BY <1>1 DEF ProcessRecord, Process
  <1>3. Lockable \subseteq Lockable
    OBVIOUS
  <1>4. /\ HoldsOnly(Process(s, r).kb, G, Lockable) /\ Process(s, r).cache = s.cache
        /\ Process(s, r).rec = r
    BY <1>3, ProcessRelease
  <1> QED
    BY <1>2, <1>4
\* The press of p is among the records processed.
PressIn(o, p) == \E i \in DOMAIN o : o[i].key = p /\ o[i].pressed

\* A key press that ends a one-shot layer is released at once.
LEMMA ReleaseOneshotEffect ==
    ASSUME NEW s \in States, s.rec \in Records, s.oneshot.layer = 0,
           NEW G, HoldsOnly(s.kb, G \cup {Resolved(keymaps[s.cache[s.rec.key]][s.rec.key],
                                                   s.rec.count)}, Lockable),
           NEW n, n = ReleaseOneshot(s)
    PROVE  /\ HoldsOnly(n.kb, G, Lockable) /\ n.cache = s.cache
           /\ n.rec = [s.rec EXCEPT !.pressed = FALSE]
           /\ \A p : PressIn(s.out, p) => PressIn(n.out, p)
  <1> DEFINE X == Lockable \cup {0}
             on == LayerOn(s, 0)
             r == [s.rec EXCEPT !.pressed = FALSE]
             m == Process(on, r)
             H == G \cup {Resolved(keymaps[s.cache[r.key]][r.key], r.count)}
  <1>1. 0 \in Layers
    BY TappingAssumption
  <1>2. r \in Records /\ ~r.pressed /\ r.key = s.rec.key /\ r.count = s.rec.count
    BY DEF Records
  <1>3. HoldsOnly(s.kb, H, Lockable)
    BY <1>2
  <1>7. Lockable \subseteq X /\ 0 \in X
    OBVIOUS
  <1> HIDE DEF H
  <1>4. on \in States /\ HoldsOnly(on.kb, H, X) /\ Untouched(on, s)
    <2> HIDE DEF X
    <2> QED
      BY <1>1, <1>3, <1>7, LayerFacts, LayerEffect
  <1>9. on.oneshot = s.oneshot
    BY DEF LayerOn, States
  <1> HIDE DEF on, r
  <1>5. on.cache = s.cache /\ on.out = s.out
    BY <1>4 DEF Untouched
  <1>6. HoldsOnly(on.kb, G \cup {Resolved(keymaps[on.cache[r.key]][r.key], r.count)}, X)
    BY <1>4, <1>5 DEF H
  <1> HIDE DEF X
  <1>8. /\ HoldsOnly(m.kb, G, X) /\ m.cache = on.cache /\ m.rec = r
        /\ m.oneshot.layer \in {on.oneshot.layer, 0}
        /\ m.out = Append(on.out, [key |-> r.key, pressed |-> r.pressed, tap |-> r.count > 0])
    BY <1>2, <1>4, <1>6, <1>7, ProcessRelease
  <1>10. m \in States
    BY <1>2, <1>4, ProcessFacts
  <1>12. n = LayerOff(m, 0)
    BY <1>8, <1>9 DEF ReleaseOneshot, on, r
  <1> HIDE DEF m
  <1>13. X \subseteq Lockable \cup {0}
    BY DEF X
  <1>14. HoldsOnly(n.kb, G, Lockable) /\ Untouched(n, m)
    BY <1>1, <1>8, <1>10, <1>12, <1>13, LayerOffEffect
  <1>15. n.rec = m.rec
    BY <1>10, <1>12 DEF LayerOff, States
  <1>16. \A p : PressIn(s.out, p) => PressIn(n.out, p)
    <2>1. n.out = Append(s.out, [key |-> r.key, pressed |-> r.pressed, tap |-> r.count > 0])
      BY <1>5, <1>8, <1>14 DEF Untouched
    <2>2. s.out \in Seq(Processed)
      BY DEF States
    <2> QED
      BY <2>1, <2>2 DEF PressIn
  <1> QED
    BY <1>5, <1>8, <1>14, <1>15, <1>16 DEF Untouched, r

\* A press adds the action of the layer its key is found in, for the count
\* the record is left with.
LEMMA PressEffect ==
    ASSUME NEW s \in States, NEW r \in Records, r.pressed,
           NEW G, HoldsOnly(s.kb, G, Lockable),
           NEW a, a = ActionNow(s, r.key),
           NEW n, n = ProcessRecord(s, r)
    PROVE  /\ n.cache = [s.cache EXCEPT ![r.key] = SourceLayer(s, r.key)]
           /\ SourceLayer(s, r.key) \in Layers
           /\ n.rec \in Records /\ n.rec.key = r.key /\ n.rec.interrupted = r.interrupted
           /\ n.rec.count = IF a.kind = "mt" /\ r.interrupted THEN 0 ELSE r.count
           /\ HoldsOnly(n.kb, G \cup {Resolved(a, n.rec.count)}, Lockable)
           /\ ~n.rec.pressed => HoldsOnly(n.kb, G, Lockable)
           /\ PressIn(n.out, r.key)
  <1> DEFINE layer == SourceLayer(s, r.key)
             found == Lookup(s, r)
             clears == s.oneshot.state # {} /\ r.pressed /\ ~IsModAction(a)
             cleared == IF clears THEN ClearOneshot(found, {"other"}) ELSE found
             m == Switch(cleared, r, a)
             ends == clears /\ cleared.oneshot.state = {} /\ "pressed" \notin m.oneshot.state
  <1>1. r.key # NoKey /\ r.key \in Positions
    BY RecordParts DEF RecordsOrNone
  <1>2. /\ found.kb = s.kb /\ found.oneshot = s.oneshot
        /\ found.cache = [s.cache EXCEPT ![r.key] = layer] /\ found.cache[r.key] = layer
        /\ layer \in Layers
        /\ found.out = Append(s.out, [key |-> r.key, pressed |-> r.pressed, tap |-> r.count > 0])
    BY LookupPress
  <1>3. found \in States /\ keymaps[found.cache[r.key]][r.key] \in KeymapActions
    BY LookupFacts
  <1>4. a = keymaps[layer][r.key]
    BY DEF ActionNow
  <1>5. a \in KeymapActions
    BY <1>2, <1>3, <1>4
  <1>6. a.kind \in {"tg", "to", "tt", "osl"} => a.layer \in Lockable
    BY <1>1, <1>2, <1>4, KeymapLockable
  <1>7. n = IF ends THEN ReleaseOneshot(m) ELSE m
    BY <1>1, <1>2, <1>4 DEF ProcessRecord
  <1>8. PressIn(found.out, r.key)
    <2>1. s.out \in Seq(Processed)
      BY DEF States
    <2> DEFINE o == [key |-> r.key, pressed |-> r.pressed, tap |-> r.count > 0]
    <2>2. found.out = Append(s.out, o) /\ o.key = r.key /\ o.pressed
      BY <1>2
    <2> HIDE DEF o
    <2> QED
      BY <2>1, <2>2 DEF PressIn
  <1> HIDE DEF layer, found
  <1>9. /\ cleared \in States /\ HoldsOnly(cleared.kb, G, Lockable) /\ Untouched(cleared, found)
        /\ clears /\ cleared.oneshot.state = {} => cleared.oneshot.layer = 0
    <2>1. CASE clears
      <3>1. found.oneshot.state # {} /\ HoldsOnly(found.kb, G, Lockable)
        BY <1>2, <2>1
      <3> DEFINE c == ClearOneshot(found, {"other"})
      <3>2. c \in States
        BY <1>3, ClearOneshotFacts
      <3>3. /\ HoldsOnly(c.kb, G, Lockable) /\ Untouched(c, found)
            /\ c.oneshot.state = {} => c.oneshot.layer = 0
        BY <1>3, <3>1, ClearOneshotEffect
      <3> QED
        BY <2>1, <3>2, <3>3
    <2>2. CASE ~clears
      BY <1>2, <1>3, <2>2 DEF Untouched
    <2> QED
      BY <2>1, <2>2
  <1>15. m = Switch(cleared, r, a)
    OBVIOUS
  <1> HIDE DEF clears, cleared, m
  <1>10. /\ m.rec \in Records /\ m.rec.key = r.key /\ m.rec.pressed
         /\ m.rec.interrupted = r.interrupted
         /\ m.rec.count = IF a.kind = "mt" /\ r.interrupted THEN 0 ELSE r.count
         /\ HoldsOnly(m.kb, G \cup {Resolved(a, m.rec.count)}, Lockable)
         /\ Untouched(m, cleared)
         /\ a.kind = "osl" => "pressed" \in m.oneshot.state
         /\ a.kind # "osl" => m.oneshot = cleared.oneshot
    BY <1>5, <1>6, <1>9, <1>15, SwitchPress
  <1>11. m \in States
    BY <1>5, <1>9, <1>15, SwitchFacts
  <1>12. m.cache = found.cache /\ m.out = found.out
    BY <1>9, <1>10 DEF Untouched
  <1>13. CASE ~ends
    <2>1. n = m
      BY <1>7, <1>13
    <2> QED
      BY <1>2, <1>8, <1>10, <1>12, <2>1 DEF layer
  <1>14. CASE ends
    <2>1. m.oneshot.layer = 0
      BY <1>9, <1>10, <1>14
    <2>2. n = ReleaseOneshot(m)
      BY <1>7, <1>14
    <2>3. a = keymaps[m.cache[m.rec.key]][m.rec.key]
      BY <1>2, <1>4, <1>10, <1>12
    <2>4. HoldsOnly(m.kb, G \cup {Resolved(keymaps[m.cache[m.rec.key]][m.rec.key], m.rec.count)},
                    Lockable)
      BY <1>10, <2>3
    <2>5. /\ HoldsOnly(n.kb, G, Lockable) /\ n.cache = m.cache
          /\ n.rec = [m.rec EXCEPT !.pressed = FALSE]
          /\ \A p : PressIn(m.out, p) => PressIn(n.out, p)
      BY <1>10, <1>11, <2>1, <2>2, <2>4, ReleaseOneshotEffect
    <2>6. /\ n.rec \in Records /\ n.rec.key = m.rec.key /\ n.rec.count = m.rec.count
          /\ n.rec.interrupted = m.rec.interrupted
      BY <1>10, <2>5 DEF Records
    <2>7. HoldsOnly(n.kb, G \cup {Resolved(a, n.rec.count)}, Lockable)
      BY <2>5, HoldsMore
    <2> QED
      BY <1>2, <1>8, <1>10, <1>12, <2>5, <2>6, <2>7 DEF layer
  <1> QED
    BY <1>13, <1>14
-----------------------------------------------------------------------------
(* The records that wait, and what the keys down at their start hold.      *)

Undecides(t, p) == t.key = p /\ t.pressed /\ t.count = 0

\* D[i] are the keys that are down after the first i records of b.
Track(b, D) ==
    /\ D \in [0..Len(b) -> SUBSET Positions]
    /\ \A i \in 1..Len(b) :
          /\ b[i].pressed => b[i].key \notin D[i - 1] /\ D[i] = D[i - 1] \cup {b[i].key}
          /\ ~b[i].pressed => b[i].key \in D[i - 1] /\ D[i] = D[i - 1] \ {b[i].key}

\* A record of b has the count of a tap of p.
Marked(b, p) == \E i \in 1..Len(b) : b[i].key = p /\ b[i].count > 0

\* The press of p was processed as a tap, its release will be, too.
TapMode(b, t, p) == Marked(b, p) \/ (t.key = p /\ t.pressed /\ t.count > 0)

\* The tap of the mod-tap key p was cancelled: it is held, and undecided again.
Ghost(b, t, c, p) ==
    /\ Undecides(t, p) /\ t.interrupted /\ keymaps[c[p]][p].kind = "mt"
    /\ \E i \in 1..Len(b) : b[i].key = p /\ b[i].interrupted

HeldAct(b, t, c, p) == Resolved(keymaps[c[p]][p], IF TapMode(b, t, p) THEN 1 ELSE 0)

Holding(b, D, t, c) ==
    {p \in Positions : (p \in D[0] /\ ~Undecides(t, p)) \/ Ghost(b, t, c, p)}

Acting(b, D, t, c) == {HeldAct(b, t, c, p) : p \in Holding(b, D, t, c)}

\* Only the first record of a key is marked: a release that is not decided.
Marks(b, t) ==
    \A i \in 1..Len(b) : b[i].count > 0 =>
        /\ ~b[i].pressed /\ ~Undecides(t, b[i].key)
        /\ \A j \in 1..Len(b) : b[j].key = b[i].key => i <= j

Plain(b) == \A i \in 1..Len(b) : b[i].pressed => ~b[i].interrupted

(* Press and release of every key belong together: the records b that      *)
(* wait, with the keys D down after each of them, the tapping key t, the   *)
(* cache c, and the report and layers k.                                   *)
Paired(b, D, t, c, k) ==
    /\ Track(b, D)
    /\ t.pressed => t.key \in D[0]
    /\ Marks(b, t) /\ Plain(b)
    /\ t.pressed /\ t.count = 1 => Marked(b, t.key)
    /\ HoldsOnly(k, Acting(b, D, t, c), Lockable)

LEMMA TrackKeys ==
    ASSUME NEW b \in Seq(Records), NEW D, Track(b, D), NEW i \in 1..Len(b)
    PROVE  /\ Len(b) \in Nat /\ i \in Nat /\ i - 1 \in 0..Len(b) /\ i \in 0..Len(b)
           /\ b[i] \in Records /\ b[i].key \in Positions
           /\ b[i].pressed \in BOOLEAN
  <1>1. Len(b) \in Nat
    BY LenProperties
  <1>2. b[i] \in Records
    BY ElementOfSeq
  <1> QED
    BY <1>1, <1>2 DEF Records

\* A key that goes down or up between two of the records has a record there.
LEMMA Between ==
    ASSUME NEW b \in Seq(Records), NEW D, Track(b, D), NEW p,
           NEW i \in 0..Len(b), NEW j \in 0..Len(b), i < j,
           (p \in D[i]) # (p \in D[j])
    PROVE  \E m \in 1..Len(b) : /\ i < m /\ m <= j /\ b[m].key = p
                                /\ b[m].pressed = (p \notin D[i])
  <1> DEFINE S == {m \in 0..Len(b) : m > i /\ ((p \in D[m]) # (p \in D[i]))}
  <1>1. Len(b) \in Nat
    BY LenProperties
  <1>2. S \subseteq Nat /\ j \in S
    BY <1>1
  <1>3. PICK m \in S : \A l \in S : m <= l
    BY <1>2, Smallest
  <1>4. m \in 1..Len(b) /\ i < m /\ m <= j /\ m - 1 \in 0..Len(b) /\ i <= m - 1
    BY <1>1, <1>2, <1>3
  <1>5. (p \in D[m - 1]) = (p \in D[i])
    <2>1. CASE m - 1 = i
      BY <2>1
    <2>2. CASE m - 1 # i
      <3>1. m - 1 > i /\ ~(m <= m - 1)
        BY <1>1, <1>4, <2>2
      <3>2. m - 1 \notin S
        BY <1>3, <3>1
      <3> QED
        BY <1>4, <3>1, <3>2
    <2> QED
      BY <2>1, <2>2
  <1>6. (p \in D[m]) # (p \in D[m - 1])
    BY <1>3, <1>5
  <1> HIDE DEF S
  <1>7. b[m].pressed \in BOOLEAN
    BY <1>4, TrackKeys
  <1>8. /\ b[m].pressed => b[m].key \notin D[m - 1] /\ D[m] = D[m - 1] \cup {b[m].key}
        /\ ~b[m].pressed => b[m].key \in D[m - 1] /\ D[m] = D[m - 1] \ {b[m].key}
    BY <1>4 DEF Track
  <1>9. b[m].key = p
    BY <1>6, <1>7, <1>8
  <1>10. b[m].pressed = (p \notin D[i])
    BY <1>5, <1>6, <1>7, <1>8, <1>9
  <1> QED
    BY <1>4, <1>9, <1>10

\* The first release of a key that is down is its first record.
LEMMA FirstRelease ==
    ASSUME NEW b \in Seq(Records), NEW D, Track(b, D), NEW p \in D[0],
           NEW m \in 1..Len(b), \A i \in 1..m - 1 : b[i].key = p => b[i].pressed
    PROVE  \A i \in 1..m - 1 : b[i].key # p
  <1> SUFFICES ASSUME NEW i \in 1..m - 1, b[i].key = p PROVE FALSE
    OBVIOUS
  <1>1. Len(b) \in Nat /\ m \in Nat /\ i \in 1..Len(b) /\ 0 \in 0..Len(b)
    BY LenProperties
  <1>2. b[i].pressed /\ p \notin D[i - 1] /\ i - 1 \in 0..Len(b)
    BY <1>1 DEF Track
  <1>3. i - 1 # 0
    BY <1>2
  <1>4. 0 < i - 1
    BY <1>1, <1>3
  <1>5. (p \in D[0]) # (p \in D[i - 1])
    BY <1>2
  <1>6. PICK l \in 1..Len(b) : /\ 0 < l /\ l <= i - 1 /\ b[l].key = p
                               /\ b[l].pressed = (p \notin D[0])
    BY <1>1, <1>2, <1>4, <1>5, Between
  <1>7. l \in 1..m - 1
    BY <1>1, <1>6
  <1>8. b[l].pressed
    BY <1>6, <1>7
  <1> QED
    BY <1>6, <1>8

\* Without a press of p before, the release of p is its first record.
LEMMA OnlyRelease ==
    ASSUME NEW b \in Seq(Records), NEW D, Track(b, D), NEW p,
           NEW m \in 1..Len(b), b[m].key = p, ~b[m].pressed,
           \A i \in 1..m - 1 : b[i].key = p => ~b[i].pressed
    PROVE  \A i \in 1..m - 1 : b[i].key # p
  <1> SUFFICES ASSUME NEW i \in 1..m - 1, b[i].key = p PROVE FALSE
    OBVIOUS
  <1>1. Len(b) \in Nat /\ m \in Nat /\ i \in 1..Len(b) /\ m - 1 \in 0..Len(b) /\ i \in 0..Len(b)
    BY LenProperties
  <1>2. ~b[i].pressed /\ p \notin D[i]
    BY <1>1 DEF Track
  <1>3. p \in D[m - 1]
    BY DEF Track
  <1>4. i # m - 1
    BY <1>2, <1>3
  <1>5. i < m - 1
    BY <1>1, <1>4
  <1>6. PICK l \in 1..Len(b) : /\ i < l /\ l <= m - 1 /\ b[l].key = p
                               /\ b[l].pressed = (p \notin D[i])
    BY <1>1, <1>2, <1>3, <1>5, Between
  <1>7. l \in 1..m - 1
    BY <1>1, <1>6
  <1> QED
    BY <1>2, <1>6, <1>7

\* What holds the same keys, but for p, in the same way, gives what it gave.
LEMMA ActingKept ==
    ASSUME NEW b, NEW D, NEW t, NEW c, NEW b2, NEW D2, NEW t2, NEW c2, NEW p,
           \A q \in Holding(b, D, t, c) \ {p} :
               /\ q \in Holding(b2, D2, t2, c2) /\ c2[q] = c[q]
               /\ TapMode(b2, t2, q) <=> TapMode(b, t, q)
    PROVE  /\ \A x \in Acting(b, D, t, c) :
                 \/ x \in Acting(b2, D2, t2, c2)
                 \/ p \in Holding(b, D, t, c) /\ x = HeldAct(b, t, c, p)
           /\ p \notin Holding(b, D, t, c) => Acting(b, D, t, c) \subseteq Acting(b2, D2, t2, c2)
  <1>1. ASSUME NEW q \in Holding(b, D, t, c) \ {p}
        PROVE  HeldAct(b, t, c, q) \in Acting(b2, D2, t2, c2)
    <2>1. HeldAct(b, t, c, q) = HeldAct(b2, t2, c2, q)
      BY DEF HeldAct
    <2> QED
      BY <2>1 DEF Acting
  <1> QED
    BY <1>1 DEF Acting

LEMMA HeldActIs ==
    ASSUME NEW b, NEW t, NEW c, NEW p, NEW count \in Nat, TapMode(b, t, p) <=> count > 0
    PROVE  HeldAct(b, t, c, p) = Resolved(keymaps[c[p]][p], count)
  BY DEF HeldAct, Resolved

LEMMA ActsFor ==
    ASSUME NEW b, NEW D, NEW t, NEW c, NEW p \in Holding(b, D, t, c), NEW count \in Nat
    PROVE  (TapMode(b, t, p) <=> count > 0)
              => Resolved(keymaps[c[p]][p], count) \in Acting(b, D, t, c)
  <1> SUFFICES ASSUME TapMode(b, t, p) <=> count > 0
               PROVE  Resolved(keymaps[c[p]][p], count) \in Acting(b, D, t, c)
    OBVIOUS
  <1>1. HeldAct(b, t, c, p) = Resolved(keymaps[c[p]][p], count)
    BY HeldActIs
  <1> QED
    BY <1>1 DEF Acting

LEMMA RecordCount ==
    ASSUME NEW t \in RecordsOrNone
    PROVE  /\ t.count \in Nat /\ t.pressed \in BOOLEAN /\ t.interrupted \in BOOLEAN
           /\ t.key # NoKey => t.key \in Positions
           /\ ~(t.count > 0) <=> t.count = 0
  <1>1. t.count \in 0..MaxCount /\ MaxCount \in Nat
    BY RecordFields, TappingAssumption
  <1>2. t.count \in Nat
    BY <1>1
  <1> QED
    BY <1>2, RecordFields, RecordParts

\* A tapping key that is released, or whose release is known, may change.
LEMMA PairedTapping ==
    ASSUME NEW b, NEW D, NEW t \in RecordsOrNone, NEW c, NEW k,
           Paired(b, D, t, c, k), t.pressed => t.count = 1,
           NEW t2 \in RecordsOrNone, ~t2.pressed
    PROVE  Paired(b, D, t2, c, k)
  <1>1. \A q : ~Undecides(t, q) /\ ~Undecides(t2, q)
    BY RecordCount DEF Undecides
  <1>2. \A q : ~Ghost(b, t, c, q) /\ ~Ghost(b, t2, c, q)
    BY <1>1 DEF Ghost
  <1>3. Holding(b, D, t, c) = Holding(b, D, t2, c)
    BY <1>1, <1>2 DEF Holding
  <1>4. \A q : TapMode(b, t2, q) <=> TapMode(b, t, q)
    BY DEF TapMode, Paired
  <1>5. Acting(b, D, t2, c) = Acting(b, D, t, c)
    BY <1>3, <1>4 DEF Acting, HeldAct
  <1>6. Marks(b, t2)
    BY <1>1 DEF Marks, Paired
  <1> QED
    BY <1>5, <1>6 DEF Paired

\* The undecided key is interrupted.
LEMMA PairedInterrupted ==
    ASSUME NEW b, NEW D, NEW t \in Records, NEW c, NEW k, Paired(b, D, t, c, k),
           t.pressed, t.count = 0, NEW x \in BOOLEAN, t.interrupted => x
    PROVE  Paired(b, D, [t EXCEPT !.interrupted = x], c, k)
  <1> DEFINE u == [t EXCEPT !.interrupted = x]
  <1>1. u.key = t.key /\ u.pressed = t.pressed /\ u.count = t.count /\ u.interrupted = x
    BY DEF Records
  <1> HIDE DEF u
  <1>2. \A q : /\ Undecides(u, q) <=> Undecides(t, q)
               /\ TapMode(b, u, q) <=> TapMode(b, t, q)
               /\ Ghost(b, t, c, q) => Ghost(b, u, c, q)
    BY <1>1 DEF Undecides, TapMode, Ghost
  <1>3. Holding(b, D, t, c) \subseteq Holding(b, D, u, c)
    BY <1>2 DEF Holding
  <1>4. Acting(b, D, t, c) \subseteq Acting(b, D, u, c)
    BY <1>2, <1>3 DEF Acting, HeldAct
  <1>5. HoldsOnly(k, Acting(b, D, u, c), Lockable)
    BY <1>4, HoldsMore DEF Paired
  <1> QED
    BY <1>1, <1>2, <1>5 DEF Paired, Marks, u

\* No record of an undecided key is marked.
LEMMA UndecidedTap ==
    ASSUME NEW b, NEW D, NEW t, NEW c, NEW k, Paired(b, D, t, c, k), NEW p, Undecides(t, p)
    PROVE  ~TapMode(b, t, p)
  BY DEF Paired, Marks, TapMode, Marked, Undecides

\* A press of p that is processed is processed where the tap that was
\* cancelled was.
Faithful(s, b, t, o) ==
    \A p \in Positions : PressIn(o, p) /\ Ghost(b, t, s.cache, p) =>
        ActionNow(s, p) = keymaps[s.cache[p]][p]

\* The press of p is processed: it gives its action, for the count the record
\* is left with; nothing else is given but what was.
LEMMA PairedPress ==
    ASSUME NEW s \in States, NEW r \in Records, r.pressed,
           NEW b, NEW D, NEW t \in RecordsOrNone, Paired(b, D, t, s.cache, s.kb),
           NEW n, n = ProcessRecord(s, r),
           Faithful(s, b, t, n.out), Ghost(b, t, s.cache, r.key) => r.interrupted,
           \A p \in Holding(b, D, t, s.cache) : p = r.key => Ghost(b, t, s.cache, p),
           NEW b2, NEW D2, NEW t2,
           \A p \in Holding(b, D, t, s.cache) \ {r.key} :
               p \in Holding(b2, D2, t2, n.cache) /\ (TapMode(b2, t2, p) <=> TapMode(b, t, p)),
           n.rec.pressed \/ Ghost(b, t, s.cache, r.key) =>
               r.key \in Holding(b2, D2, t2, n.cache)
               /\ (TapMode(b2, t2, r.key) <=> n.rec.count > 0)
    PROVE  HoldsOnly(n.kb, Acting(b2, D2, t2, n.cache), Lockable)
  <1> DEFINE p == r.key
             G == Acting(b, D, t, s.cache)
             H == Acting(b2, D2, t2, n.cache)
             a == ActionNow(s, p)
             layer == SourceLayer(s, p)
  <1>1. HoldsOnly(s.kb, G, Lockable) /\ p \in Positions
    BY DEF Paired, Records
  <1>2. /\ n.cache = [s.cache EXCEPT ![r.key] = layer]
        /\ layer \in Layers
        /\ n.rec \in Records /\ n.rec.key = r.key /\ n.rec.interrupted = r.interrupted
        /\ n.rec.count = IF a.kind = "mt" /\ r.interrupted THEN 0 ELSE r.count
        /\ HoldsOnly(n.kb, G \cup {Resolved(a, n.rec.count)}, Lockable)
        /\ ~n.rec.pressed => HoldsOnly(n.kb, G, Lockable)
        /\ PressIn(n.out, r.key)
    BY <1>1, PressEffect
  <1>3. n.cache[p] = layer /\ \A q \in Positions \ {p} : n.cache[q] = s.cache[q]
    BY <1>1, <1>2 DEF States
  <1>4. a = keymaps[n.cache[p]][p]
    BY <1>3 DEF ActionNow
  <1>5. Holding(b, D, t, s.cache) \subseteq Positions
    BY DEF Holding
  <1>6. \A x \in G : x \in H \/ (p \in Holding(b, D, t, s.cache) /\ x = HeldAct(b, t, s.cache, p))
    BY <1>3, <1>5, ActingKept
  <1>7. n.rec.count \in Nat
    BY <1>2, RecordCount DEF RecordsOrNone
  <1>8. n.rec.pressed \/ Ghost(b, t, s.cache, p) => Resolved(a, n.rec.count) \in H
    BY <1>4, <1>7, ActsFor
  <1> HIDE DEF G, H, a, layer
  <1>9. CASE Ghost(b, t, s.cache, p)
    <2>1. a = keymaps[s.cache[p]][p]
      BY <1>1, <1>2, <1>9 DEF Faithful, a
    <2>2. a.kind = "mt"
      BY <1>9, <2>1 DEF Ghost
    <2>3. ~TapMode(b, t, p)
      BY <1>9, UndecidedTap DEF Ghost
    <2>4. HeldAct(b, t, s.cache, p) = Resolved(a, 0)
      BY <2>1, <2>3 DEF HeldAct
    <2>5. n.rec.count = 0
      BY <1>2, <1>9, <2>2
    <2>6. G \subseteq H
      BY <1>6, <1>8, <1>9, <2>4, <2>5
    <2>7. G \cup {Resolved(a, n.rec.count)} \subseteq H
      BY <1>8, <1>9, <2>6
    <2> QED
      BY <1>2, <2>7, HoldsMore DEF H
  <1>10. CASE ~Ghost(b, t, s.cache, p)
    <2>1. G \subseteq H
      BY <1>6, <1>10
    <2>2. CASE n.rec.pressed
      <3>1. G \cup {Resolved(a, n.rec.count)} \subseteq H
        BY <1>8, <2>1, <2>2
      <3> QED
        BY <1>2, <3>1, HoldsMore DEF H
    <2>3. CASE ~n.rec.pressed
      BY <1>2, <2>1, <2>3, HoldsMore DEF H
    <2> QED
      BY <2>2, <2>3
  <1> QED
    BY <1>9, <1>10
-----------------------------------------------------------------------------
(* What a step does to the records keeps them paired.                      *)

\* b2 is b with x in the place of its record m, or without it.
Instead(b2, b, m, x) ==
    Len(b2) = Len(b) /\ \A i \in 1..Len(b) : b2[i] = IF i = m THEN x ELSE b[i]
Without(b2, b, m) ==
    Len(b2) = Len(b) - 1 /\ \A i \in 1..Len(b) - 1 : b2[i] = IF i < m THEN b[i] ELSE b[i + 1]

LEMMA TrackInstead ==
    ASSUME NEW b, NEW D, Track(b, D), NEW m, NEW x, x.key = b[m].key, x.pressed = b[m].pressed,
           NEW b2, Instead(b2, b, m, x)
    PROVE  Track(b2, D)
  BY DEF Track, Instead

LEMMA TrackWithout ==
    ASSUME NEW b \in Seq(Records), NEW D, Track(b, D), NEW m \in 1..Len(b),
           m = 1 \/ ~b[m].pressed, \A i \in 1..m - 1 : b[i].key # b[m].key,
           NEW b2, Without(b2, b, m)
    PROVE  \E D2 : /\ Track(b2, D2) /\ D2[Len(b2)] = D[Len(b)]
                   /\ b[m].pressed => /\ D2[0] = D[0] \cup {b[m].key}
                                      /\ b[m].key \notin D[0]
                   /\ ~b[m].pressed => D2[0] = D[0] \ {b[m].key}
  <1> DEFINE p == b[m].key
             N == Len(b)
             D2 == [i \in 0..N - 1 |-> IF i < m - 1 THEN D[i] \ {p} ELSE D[i + 1]]
  <1>1. N \in Nat /\ m \in 1..N /\ Len(b2) = N - 1
    BY LenProperties DEF Without
  <1>2. /\ D \in [0..N -> SUBSET Positions]
        /\ \A i \in 1..N :
              /\ b[i].pressed => b[i].key \notin D[i - 1] /\ D[i] = D[i - 1] \cup {b[i].key}
              /\ ~b[i].pressed => b[i].key \in D[i - 1] /\ D[i] = D[i - 1] \ {b[i].key}
    BY DEF Track
  <1>3. \A i \in 1..N - 1 : b2[i] = IF i < m THEN b[i] ELSE b[i + 1]
    BY DEF Without
  <1>4. \A i \in 1..m - 1 : b[i].key # p
    OBVIOUS
  <1>5. D2 \in [0..N - 1 -> SUBSET Positions]
    BY <1>1, <1>2
  <1>6. m > 1 => D[m] = D[m - 1] \ {p}
    BY <1>1, <1>2
  <1>7. \A i \in 0..N - 1 : /\ i < m - 1 => D2[i] = D[i] \ {p}
                            /\ i >= m - 1 => D2[i] = D[i + 1]
                            /\ i = m - 1 /\ m > 1 => D2[i] = D[i] \ {p}
    BY <1>1, <1>6
  <1> HIDE DEF D2, p, N
  <1>8. ASSUME NEW i \in 1..N - 1
        PROVE  /\ b2[i].pressed => b2[i].key \notin D2[i - 1] /\ D2[i] = D2[i - 1] \cup {b2[i].key}
               /\ ~b2[i].pressed => b2[i].key \in D2[i - 1] /\ D2[i] = D2[i - 1] \ {b2[i].key}
    <2>1. CASE i < m
      <3>1. b2[i] = b[i] /\ b[i].key # p
        BY <1>1, <1>3, <1>4, <2>1
      <3>2. D2[i - 1] = D[i - 1] \ {p} /\ D2[i] = D[i] \ {p}
        BY <1>1, <1>7, <2>1
      <3>3. i \in 1..N
        BY <1>1
      <3> QED
        BY <1>2, <3>1, <3>2, <3>3
    <2>2. CASE i >= m
      <3>1. b2[i] = b[i + 1] /\ D2[i] = D[i + 1] /\ D2[i - 1] = D[i] /\ i + 1 \in 1..N
            /\ (i + 1) - 1 = i
        BY <1>1, <1>3, <1>7, <2>2
      <3> QED
        BY <1>2, <3>1
    <2> QED
      BY <1>1, <2>1, <2>2
  <1>9. Track(b2, D2)
    BY <1>1, <1>5, <1>8 DEF Track
  <1>10. D2[Len(b2)] = D[N]
    BY <1>1, <1>7
  <1>11. CASE m = 1
    <2>1. D2[0] = D[1]
      BY <1>1, <1>7, <1>11
    <2> QED
      BY <1>1, <1>2, <1>9, <1>10, <1>11, <2>1 DEF p, N
  <1>12. CASE m > 1
    <2>1. D2[0] = D[0] \ {p}
      BY <1>1, <1>7, <1>12
    <2> QED
      BY <1>9, <1>10, <1>12, <2>1 DEF p, N
  <1> QED
    BY <1>1, <1>11, <1>12

\* What is left of the records is as it was, and in the same order.
LEMMA RecordsWithout ==
    ASSUME NEW b \in Seq(Records), NEW m \in 1..Len(b), NEW b2, Without(b2, b, m),
           NEW t, Marks(b, t), Plain(b)
    PROVE  /\ \A q : q # b[m].key => (Marked(b2, q) <=> Marked(b, q))
           /\ \A q : Marked(b2, q) => Marked(b, q)
           /\ \A q : /\ q # b[m].key
                     /\ \E i \in 1..Len(b) : b[i].key = q /\ b[i].interrupted
                     => \E i \in 1..Len(b2) : b2[i].key = q /\ b2[i].interrupted
           /\ Plain(b2)
           /\ \A u : (\A q : Marked(b, q) => ~Undecides(u, q)) => Marks(b2, u)
  <1> DEFINE N == Len(b)
             at(i) == IF i < m THEN i ELSE i + 1
  <1>1. N \in Nat /\ Len(b2) = N - 1
    BY LenProperties DEF Without
  <1>2. \A i \in 1..N - 1 : b2[i] = b[at(i)]
    BY DEF Without
  <1>3. \A i \in 1..N - 1 : at(i) \in 1..N /\ at(i) # m
    BY <1>1
  <1>4. \A i, j \in 1..N - 1 : at(i) <= at(j) => i <= j
    BY <1>1
  <1>5. \A j \in 1..N : j # m => \E i \in 1..N - 1 : at(i) = j
    <2> SUFFICES ASSUME NEW j \in 1..N, j # m PROVE \E i \in 1..N - 1 : at(i) = j
      OBVIOUS
    <2>1. CASE j < m
      <3>1. j \in 1..N - 1 /\ at(j) = j
        BY <1>1, <2>1
      <3> QED
        BY <3>1
    <2>2. CASE j > m
      <3>1. j - 1 \in 1..N - 1 /\ at(j - 1) = j
        BY <1>1, <2>2
      <3> QED
        BY <3>1
    <2> QED
      BY <1>1, <2>1, <2>2
  <1> HIDE DEF at, N
  <1>6. \A j \in 1..N : b[j].key # b[m].key => \E i \in 1..N - 1 : b2[i] = b[j]
    BY <1>2, <1>5
  <1>7. Plain(b2)
    BY <1>1, <1>2, <1>3 DEF Plain, N
  <1>8. \A q : Marked(b2, q) => Marked(b, q)
    BY <1>1, <1>2, <1>3 DEF Marked, N
  <1>9. \A q : q # b[m].key /\ Marked(b, q) => Marked(b2, q)
    BY <1>1, <1>6 DEF Marked, N
  <1>10. \A q : /\ q # b[m].key
                /\ \E i \in 1..Len(b) : b[i].key = q /\ b[i].interrupted
                => \E i \in 1..Len(b2) : b2[i].key = q /\ b2[i].interrupted
    BY <1>1, <1>6 DEF N
  <1>11. ASSUME NEW u, \A q : Marked(b, q) => ~Undecides(u, q) PROVE Marks(b2, u)
    <2> SUFFICES ASSUME NEW i \in 1..N - 1, b2[i].count > 0
                 PROVE  /\ ~b2[i].pressed /\ ~Undecides(u, b2[i].key)
                        /\ \A j \in 1..N - 1 : b2[j].key = b2[i].key => i <= j
      BY <1>1 DEF Marks
    <2>1. b2[i] = b[at(i)] /\ at(i) \in 1..N
      BY <1>2, <1>3
    <2>2. /\ ~b[at(i)].pressed /\ Marked(b, b[at(i)].key)
          /\ \A j \in 1..N : b[j].key = b[at(i)].key => at(i) <= j
      BY <2>1 DEF Marks, Marked, N
    <2>3. \A j \in 1..N - 1 : b2[j].key = b2[i].key => at(i) <= at(j)
      BY <1>2, <1>3, <2>1, <2>2
    <2> QED
      BY <1>4, <1>11, <2>1, <2>2, <2>3
  <1> QED
    BY <1>7, <1>8, <1>9, <1>10, <1>11

\* What the press of a record leaves in it.
LEMMA PressRecord ==
    ASSUME NEW s \in States, NEW r \in Records, r.pressed,
           NEW b, NEW D, NEW t, Paired(b, D, t, s.cache, s.kb),
           NEW n, n = ProcessRecord(s, r)
    PROVE  /\ n.rec \in Records /\ n.rec.key = r.key /\ n.rec.interrupted = r.interrupted
           /\ \/ n.rec.count = r.count
              \/ /\ n.rec.count = 0 /\ r.interrupted /\ keymaps[n.cache[r.key]][r.key].kind = "mt"
           /\ ~r.interrupted => n.rec.count = r.count
           /\ n.rec.count \in Nat /\ n.rec.pressed \in BOOLEAN
  <1> DEFINE a == ActionNow(s, r.key)
             G == Acting(b, D, t, s.cache)
  <1>1. HoldsOnly(s.kb, G, Lockable) /\ r.key \in Positions
    BY DEF Paired, Records
  <1>0. a = ActionNow(s, r.key)
    OBVIOUS
  <1> HIDE DEF G, a
  <1>2. /\ n.cache = [s.cache EXCEPT ![r.key] = SourceLayer(s, r.key)]
        /\ SourceLayer(s, r.key) \in Layers
        /\ n.rec \in Records /\ n.rec.key = r.key /\ n.rec.interrupted = r.interrupted
        /\ n.rec.count = IF a.kind = "mt" /\ r.interrupted THEN 0 ELSE r.count
        /\ HoldsOnly(n.kb, G \cup {Resolved(a, n.rec.count)}, Lockable)
        /\ ~n.rec.pressed => HoldsOnly(n.kb, G, Lockable)
        /\ PressIn(n.out, r.key)
    BY <1>0, <1>1, PressEffect
  <1>3. a = keymaps[n.cache[r.key]][r.key]
    BY <1>0, <1>1, <1>2 DEF ActionNow, States
  <1>4. n.rec.count \in Nat /\ n.rec.pressed \in BOOLEAN
    BY <1>2, RecordCount DEF RecordsOrNone
  <1> QED
    BY <1>2, <1>3, <1>4

\* The undecided key is held: its press is processed.
LEMMA PairedHold ==
    ASSUME NEW s \in States, NEW t \in Records, t.pressed, t.count = 0,
           NEW b, NEW D, Paired(b, D, t, s.cache, s.kb),
           NEW n, n = ProcessRecord(s, t), Faithful(s, b, t, n.out)
    PROVE  Paired(b, D, NoEvent, n.cache, n.kb)
  <1>1. n.rec.count = 0
    BY PressRecord
  <1>2. t.key \in Positions /\ t.key # NoKey /\ t \in RecordsOrNone
    BY RecordParts DEF RecordsOrNone
  <1>3. Undecides(t, t.key) /\ \A q : Undecides(t, q) => q = t.key
    BY DEF Undecides
  <1>4. ~NoEvent.pressed /\ \A q : ~Undecides(NoEvent, q)
    BY NoneType DEF Undecides
  <1>5. t.key \in D[0]
    BY DEF Paired
  <1>6. \A p \in Holding(b, D, t, s.cache) : p = t.key => Ghost(b, t, s.cache, p)
    BY <1>3 DEF Holding
  <1>7. \A p \in Holding(b, D, t, s.cache) \ {t.key} :
            p \in Holding(b, D, NoEvent, n.cache) /\ (TapMode(b, NoEvent, p) <=> TapMode(b, t, p))
    BY <1>3, <1>4 DEF Holding, Ghost, TapMode
  <1>8. t.key \in Holding(b, D, NoEvent, n.cache)
    BY <1>2, <1>4, <1>5 DEF Holding
  <1>9. TapMode(b, NoEvent, t.key) <=> n.rec.count > 0
    <2>1. ~TapMode(b, NoEvent, t.key)
      BY <1>3, <1>4, UndecidedTap DEF TapMode
    <2>2. ~(n.rec.count > 0)
      BY <1>1
    <2> QED
      BY <2>1, <2>2
  <1>10. Ghost(b, t, s.cache, t.key) => t.interrupted
    BY DEF Ghost
  <1>11. HoldsOnly(n.kb, Acting(b, D, NoEvent, n.cache), Lockable)
    BY <1>1, <1>2, <1>6, <1>7, <1>8, <1>9, <1>10, PairedPress
  <1> QED
    BY <1>4, <1>11 DEF Paired, Marks

\* A tap of the undecided key is processed, and its release m learns of it.
LEMMA PairedTap ==
    ASSUME NEW s \in States, NEW t \in Records, t.pressed, t.count = 0,
           NEW b \in Seq(Records), NEW D, Paired(b, D, t, s.cache, s.kb),
           NEW r \in Records, r.key = t.key, r.pressed, r.count = 1, r.interrupted = t.interrupted,
           NEW n, n = ProcessRecord(s, r), Faithful(s, b, t, n.out),
           NEW m \in 1..Len(b), b[m].key = t.key, ~b[m].pressed,
           n.rec.count > 0 => \A i \in 1..m - 1 : b[i].key # t.key,
           NEW x, x.key = t.key, ~x.pressed, x.pressed = b[m].pressed, x.count = n.rec.count,
           n.rec.count = 0 => x.interrupted,
           NEW b2, Instead(b2, b, m, x)
    PROVE  Paired(b2, D, n.rec, n.cache, n.kb)
  <1> DEFINE p == r.key
             u == n.rec
  <1>1. /\ r.key = t.key /\ r.pressed /\ r.count = 1 /\ r.interrupted = t.interrupted
    OBVIOUS
  <1>2. /\ u \in Records /\ u.key = p /\ u.interrupted = t.interrupted
        /\ \/ u.count = 1
           \/ u.count = 0 /\ t.interrupted /\ keymaps[n.cache[p]][p].kind = "mt"
        /\ u.count \in Nat /\ u.pressed \in BOOLEAN
    <2>1. /\ n.rec \in Records /\ n.rec.key = r.key /\ n.rec.interrupted = r.interrupted
          /\ \/ n.rec.count = r.count
             \/ /\ n.rec.count = 0 /\ r.interrupted
                /\ keymaps[n.cache[r.key]][r.key].kind = "mt"
          /\ ~r.interrupted => n.rec.count = r.count
          /\ n.rec.count \in Nat /\ n.rec.pressed \in BOOLEAN
      BY PressRecord, SMTT(60)
    <2> QED
      BY <1>1, <2>1
  <1>0. b[m].key = p /\ x.key = p /\ t.key = p
    BY <1>1
  <1>3. p \in Positions /\ p \in D[0] /\ Len(b) \in Nat
    BY <1>0, LenProperties DEF Records, Paired
  <1>4. Undecides(t, p) /\ \A q : Undecides(t, q) => q = p
    BY <1>0 DEF Undecides
  <1>5. \A q : Undecides(u, q) <=> q = p /\ u.pressed /\ u.count = 0
    BY <1>2 DEF Undecides
  <1> HIDE DEF u, p
  <1>6. Track(b, D) /\ Marks(b, t) /\ Plain(b)
    BY DEF Paired
  <1>7. Track(b2, D)
    BY <1>0, <1>6, TrackInstead
  <1>8. Len(b2) = Len(b) /\ \A i \in 1..Len(b) : b2[i] = IF i = m THEN x ELSE b[i]
    BY DEF Instead
  <1>9. ~TapMode(b, t, p) /\ ~Marked(b, p)
    BY <1>4, UndecidedTap DEF TapMode
  <1>10. \A q : q # p => (Marked(b2, q) <=> Marked(b, q))
    BY <1>0, <1>8 DEF Marked
  <1>11. Marked(b2, p) <=> u.count > 0
    BY <1>0, <1>8, <1>9 DEF Marked, u
  <1>12. \A q \in Holding(b, D, t, s.cache) : q = p => Ghost(b, t, s.cache, q)
    BY <1>4 DEF Holding
  <1>13. \A q \in Holding(b, D, t, s.cache) \ {p} :
            q \in Holding(b2, D, u, n.cache) /\ (TapMode(b2, u, q) <=> TapMode(b, t, q))
    BY <1>0, <1>2, <1>4, <1>5, <1>10 DEF Holding, Ghost, TapMode
  <1>14. TapMode(b2, u, p) <=> u.count > 0
    BY <1>11 DEF TapMode
  <1>15. p \in Holding(b2, D, u, n.cache)
    <2>1. CASE u.count = 0 /\ u.pressed
      <3>1. b2[m].key = p /\ b2[m].interrupted
        BY <1>0, <1>8, <2>1 DEF u
      <3>2. Ghost(b2, u, n.cache, p)
        BY <1>2, <1>5, <1>8, <2>1, <3>1 DEF Ghost
      <3> QED
        BY <1>3, <3>2 DEF Holding
    <2>2. CASE ~(u.count = 0 /\ u.pressed)
      BY <1>3, <1>5, <2>2 DEF Holding
    <2> QED
      BY <2>1, <2>2
  <1>16. HoldsOnly(n.kb, Acting(b2, D, u, n.cache), Lockable)
    <2>1. Ghost(b, t, s.cache, r.key) => r.interrupted
      BY <1>1 DEF Ghost
    <2>2. t \in RecordsOrNone
      BY DEF RecordsOrNone
    <2> QED
      BY <1>1, <1>12, <1>13, <1>14, <1>15, <2>1, <2>2, PairedPress DEF u, p
  <1>17. Marks(b2, u)
    <2> SUFFICES ASSUME NEW i \in 1..Len(b), b2[i].count > 0
                 PROVE  /\ ~b2[i].pressed /\ ~Undecides(u, b2[i].key)
                        /\ \A j \in 1..Len(b) : b2[j].key = b2[i].key => i <= j
      BY <1>8 DEF Marks
    <2>1. \A j \in 1..Len(b) : b2[j].key = b[j].key
      BY <1>0, <1>8
    <2>2. CASE i = m
      <3>1. u.count > 0 /\ b2[i] = x
        BY <1>8, <2>2 DEF u
      <3>2. \A j \in 1..m - 1 : b[j].key # p
        BY <1>0, <3>1 DEF u
      <3>3. \A j \in 1..Len(b) : b[j].key = p => m <= j
        BY <1>3, <3>2
      <3> QED
        BY <1>0, <1>5, <2>1, <2>2, <3>1, <3>3
    <2>3. CASE i # m
      <3>1. b2[i] = b[i] /\ b[i].count > 0
        BY <1>8, <2>3
      <3>2. /\ ~b[i].pressed /\ ~Undecides(t, b[i].key)
            /\ \A j \in 1..Len(b) : b[j].key = b[i].key => i <= j
        BY <1>6, <3>1 DEF Marks
      <3> QED
        BY <1>4, <1>5, <2>1, <3>1, <3>2
    <2> QED
      BY <2>2, <2>3
  <1>18. Plain(b2)
    BY <1>6, <1>8 DEF Plain
  <1>19. u.count = 1 => Marked(b2, p)
    BY <1>11
  <1> QED
    BY <1>2, <1>3, <1>7, <1>16, <1>17, <1>18, <1>19 DEF Paired, u

\* The tapping key u after a release of p was processed: it is the same,
\* unless it is p.
AfterRelease(u, t, p) ==
    \/ u = t /\ ~(t.pressed /\ t.key = p)
    \/ ~u.pressed /\ t.pressed /\ t.key = p

\* A release is processed, and leaves the records.
LEMMA PairedRelease ==
    ASSUME NEW s \in States, NEW t \in RecordsOrNone,
           NEW b \in Seq(Records), NEW D, Paired(b, D, t, s.cache, s.kb),
           NEW m \in 1..Len(b), ~b[m].pressed, \A i \in 1..m - 1 : b[i].key # b[m].key,
           NEW r \in Records, r.key = b[m].key, ~r.pressed,
           ~Undecides(t, r.key), TapMode(b, t, r.key) <=> r.count > 0,
           NEW n, n = ProcessRecord(s, r),
           NEW u \in RecordsOrNone, AfterRelease(u, t, r.key),
           NEW b2, Without(b2, b, m)
    PROVE  \E D2 : Paired(b2, D2, u, n.cache, n.kb) /\ D2[Len(b2)] = D[Len(b)]
  <1> DEFINE p == r.key
             c == s.cache
  <1>1. Track(b, D) /\ Marks(b, t) /\ Plain(b)
    BY DEF Paired
  <1>2. PICK D2 : Track(b2, D2) /\ D2[Len(b2)] = D[Len(b)] /\ D2[0] = D[0] \ {p}
    BY <1>1, TrackWithout
  <1>3. /\ \A q : q # p => (Marked(b2, q) <=> Marked(b, q))
        /\ \A q : /\ q # p
                  /\ \E i \in 1..Len(b) : b[i].key = q /\ b[i].interrupted
                  => \E i \in 1..Len(b2) : b2[i].key = q /\ b2[i].interrupted
        /\ Plain(b2)
        /\ (\A q : Marked(b, q) => ~Undecides(u, q)) => Marks(b2, u)
    <2>1. /\ \A q : q # b[m].key => (Marked(b2, q) <=> Marked(b, q))
          /\ \A q : Marked(b2, q) => Marked(b, q)
          /\ \A q : /\ q # b[m].key
                    /\ \E i \in 1..Len(b) : b[i].key = q /\ b[i].interrupted
                    => \E i \in 1..Len(b2) : b2[i].key = q /\ b2[i].interrupted
          /\ Plain(b2)
          /\ \A v : (\A q : Marked(b, q) => ~Undecides(v, q)) => Marks(b2, v)
      BY <1>1, RecordsWithout
    <2> QED
      BY <2>1
  <1>0. \/ u = t /\ ~(t.pressed /\ t.key = p)
        \/ ~u.pressed /\ t.pressed /\ t.key = p
    BY DEF AfterRelease
  <1>4. \A q : Undecides(u, q) => u = t
    BY <1>0 DEF Undecides
  <1>5. \A q : Marked(b, q) => ~Undecides(u, q)
    BY <1>1, <1>4 DEF Marks, Marked
  <1>6. Marks(b2, u)
    BY <1>3, <1>5
  <1>7. \A q : q # p => (TapMode(b2, u, q) <=> TapMode(b, t, q))
    BY <1>0, <1>3 DEF TapMode
  <1>8. \A q \in Holding(b, D, t, c) \ {p} : q \in Holding(b2, D2, u, c)
    <2> SUFFICES ASSUME NEW q \in Holding(b, D, t, c) \ {p} PROVE q \in Holding(b2, D2, u, c)
      OBVIOUS
    <2>1. CASE q \in D[0] /\ ~Undecides(t, q)
      BY <1>2, <1>4, <2>1 DEF Holding
    <2>2. CASE Ghost(b, t, c, q)
      <3>1. t.pressed /\ t.key = q /\ t.count = 0
        BY <2>2 DEF Ghost, Undecides
      <3>2. u = t
        BY <1>0, <3>1
      <3> QED
        BY <1>3, <2>2, <3>2 DEF Holding, Ghost
    <2> QED
      BY <2>1, <2>2 DEF Holding
  <1>9. HoldsOnly(s.kb, Acting(b, D, t, c), Lockable)
    BY DEF Paired
  <1>10. HeldAct(b, t, c, p) = Resolved(keymaps[c[p]][p], r.count)
    <2>1. r.count \in Nat
      BY RecordCount DEF RecordsOrNone
    <2> QED
      BY <2>1, HeldActIs
  <1> DEFINE G == Acting(b2, D2, u, c)
  <1>11. Acting(b, D, t, c) \subseteq G \cup {Resolved(keymaps[c[p]][p], r.count)}
    <2>1. \A q \in Holding(b, D, t, c) \ {p} :
             /\ q \in Holding(b2, D2, u, c) /\ c[q] = c[q]
             /\ TapMode(b2, u, q) <=> TapMode(b, t, q)
      BY <1>7, <1>8
    <2> HIDE DEF c, p
    <2>2. \A x \in Acting(b, D, t, c) :
             \/ x \in G
             \/ p \in Holding(b, D, t, c) /\ x = HeldAct(b, t, c, p)
      BY <2>1, ActingKept
    <2> QED
      BY <1>10, <2>2
  <1> HIDE DEF G
  <1>12. HoldsOnly(s.kb, G \cup {Resolved(keymaps[c[p]][p], r.count)}, Lockable)
    BY <1>9, <1>11, HoldsMore
  <1>13. HoldsOnly(n.kb, G, Lockable) /\ n.cache = c
    BY <1>12, ProcessRecordRelease
  <1>14. u.pressed => u.key \in D2[0]
    BY <1>0, <1>2 DEF Paired
  <1>15. u.pressed /\ u.count = 1 => Marked(b2, u.key)
    BY <1>0, <1>3 DEF Paired
  <1> QED
    BY <1>2, <1>3, <1>6, <1>13, <1>14, <1>15 DEF Paired, G

\* The key of a press that comes next is up, and none of its records is marked.
LEMMA HeadPress ==
    ASSUME NEW b \in Seq(Records), NEW D, NEW t, NEW c, NEW k, Paired(b, D, t, c, k),
           b # <<>>, b[1].pressed,
           NEW b2, Without(b2, b, 1)
    PROVE  /\ b[1].key \notin D[0] /\ ~Marked(b, b[1].key)
           /\ b[1].count = 0 /\ ~b[1].interrupted /\ ~(t.pressed /\ t.key = b[1].key)
           /\ \E D2 : /\ Track(b2, D2) /\ D2[Len(b2)] = D[Len(b)]
                      /\ D2[0] = D[0] \cup {b[1].key}
           /\ \A q : q # b[1].key => (Marked(b2, q) <=> Marked(b, q))
           /\ ~Marked(b2, b[1].key)
           /\ Plain(b2)
           /\ \A u : (\A q : Marked(b, q) => ~Undecides(u, q)) => Marks(b2, u)
  <1>1. 1 \in 1..Len(b) /\ Len(b) \in Nat
    BY LenProperties, EmptySeq
  <1>2. Track(b, D) /\ Marks(b, t) /\ Plain(b) /\ (t.pressed => t.key \in D[0])
    BY DEF Paired
  <1>3. \E D2 : /\ Track(b2, D2) /\ D2[Len(b2)] = D[Len(b)]
                /\ b[1].pressed => /\ D2[0] = D[0] \cup {b[1].key}
                                   /\ b[1].key \notin D[0]
                /\ ~b[1].pressed => D2[0] = D[0] \ {b[1].key}
    <2>1. \A i \in 1..1 - 1 : b[i].key # b[1].key
      OBVIOUS
    <2> QED
      BY <1>1, <1>2, <2>1, TrackWithout
  <1>4. /\ \A q : q # b[1].key => (Marked(b2, q) <=> Marked(b, q))
        /\ \A q : Marked(b2, q) => Marked(b, q)
        /\ Plain(b2)
        /\ \A u : (\A q : Marked(b, q) => ~Undecides(u, q)) => Marks(b2, u)
    BY <1>1, <1>2, RecordsWithout
  <1>5. b[1] \in Records
    BY <1>1, ElementOfSeq
  <1>6. b[1].count = 0
    BY <1>1, <1>2, <1>5, RecordCount DEF Marks, RecordsOrNone
  <1>7. ~Marked(b, b[1].key)
    <2> SUFFICES ASSUME NEW i \in 1..Len(b), b[i].key = b[1].key, b[i].count > 0 PROVE FALSE
      BY DEF Marked
    <2>1. ~b[i].pressed /\ i <= 1
      BY <1>1, <1>2 DEF Marks
    <2>2. i = 1
      BY <1>1, <2>1
    <2> QED
      BY <2>1, <2>2
  <1>8. ~b[1].interrupted
    BY <1>1, <1>2 DEF Plain
  <1> QED
    BY <1>2, <1>3, <1>4, <1>6, <1>7, <1>8

\* The tapping key u after a press r was processed as rec.
NextTapping(u, t, r, rec) ==
    \/ u = t /\ r.count = 0
    \/ u = rec /\ r.count > 1 /\ ~t.pressed

\* A press is processed, and leaves the records: it is no key with two
\* meanings, or one that is tapped once more.
LEMMA PairedNext ==
    ASSUME NEW s \in States, NEW t \in RecordsOrNone, ~(t.pressed /\ t.count = 0),
           NEW b \in Seq(Records), NEW D, Paired(b, D, t, s.cache, s.kb),
           b # <<>>, b[1].pressed,
           NEW r \in Records, r.key = b[1].key, r.pressed, ~r.interrupted,
           NEW n, n = ProcessRecord(s, r),
           NEW u \in RecordsOrNone, NextTapping(u, t, r, n.rec),
           NEW b2, Without(b2, b, 1)
    PROVE  \E D2 : Paired(b2, D2, u, n.cache, n.kb) /\ D2[Len(b2)] = D[Len(b)]
  <1> DEFINE p == r.key
             c == s.cache
  <1>1. /\ p \notin D[0] /\ ~Marked(b, p)
        /\ ~(t.pressed /\ t.key = p)
        /\ \E D2 : /\ Track(b2, D2) /\ D2[Len(b2)] = D[Len(b)]
                   /\ D2[0] = D[0] \cup {p}
        /\ \A q : q # p => (Marked(b2, q) <=> Marked(b, q))
        /\ ~Marked(b2, p)
        /\ Plain(b2)
        /\ \A v : (\A q : Marked(b, q) => ~Undecides(v, q)) => Marks(b2, v)
    <2>1. /\ b[1].key \notin D[0] /\ ~Marked(b, b[1].key)
          /\ b[1].count = 0 /\ ~b[1].interrupted /\ ~(t.pressed /\ t.key = b[1].key)
          /\ \E D2 : /\ Track(b2, D2) /\ D2[Len(b2)] = D[Len(b)]
                     /\ D2[0] = D[0] \cup {b[1].key}
          /\ \A q : q # b[1].key => (Marked(b2, q) <=> Marked(b, q))
          /\ ~Marked(b2, b[1].key)
          /\ Plain(b2)
          /\ \A v : (\A q : Marked(b, q) => ~Undecides(v, q)) => Marks(b2, v)
      BY HeadPress
    <2> QED
      BY <2>1
  <1>2. PICK D2 : Track(b2, D2) /\ D2[Len(b2)] = D[Len(b)] /\ D2[0] = D[0] \cup {p}
    BY <1>1
  <1>3. /\ n.rec \in Records /\ n.rec.key = p /\ n.rec.count = r.count
        /\ n.rec.count \in Nat /\ n.rec.pressed \in BOOLEAN
    BY PressRecord, SMTT(60)
  <1>4. p \in Positions /\ r.count \in Nat /\ t.count \in Nat
    BY RecordCount DEF Records, RecordsOrNone
  <1>5. \A q : ~Undecides(t, q) /\ ~Undecides(u, q)
    <2>1. \A q : ~Undecides(t, q)
      BY DEF Undecides
    <2>2. CASE u = t
      BY <2>1, <2>2
    <2>3. CASE u = n.rec /\ r.count > 1
      BY <1>3, <2>1, <2>3 DEF Undecides
    <2> QED
      BY <2>2, <2>3 DEF NextTapping
  <1>6. \A q : ~Ghost(b, t, c, q)
    BY <1>5 DEF Ghost
  <1>7. \A q \in Positions : /\ q \in Holding(b, D, t, c) => q \in D[0]
                             /\ q \in D2[0] => q \in Holding(b2, D2, u, n.cache)
    BY <1>5, <1>6 DEF Holding
  <1>8. \A q : q # p => (TapMode(b2, u, q) <=> TapMode(b, t, q))
    <2>1. CASE u = t
      BY <1>1, <2>1 DEF TapMode
    <2>2. CASE u = n.rec /\ ~t.pressed
      BY <1>1, <1>3, <2>2 DEF TapMode
    <2> QED
      BY <2>1, <2>2 DEF NextTapping
  <1>9. Holding(b, D, t, c) \subseteq Positions
    BY DEF Holding
  <1>10. \A q \in Holding(b, D, t, c) : q = p => Ghost(b, t, c, q)
    BY <1>1, <1>7, <1>9
  <1>11. \A q \in Holding(b, D, t, c) \ {p} :
            q \in Holding(b2, D2, u, n.cache) /\ (TapMode(b2, u, q) <=> TapMode(b, t, q))
    BY <1>2, <1>7, <1>8, <1>9
  <1>12. n.rec.pressed \/ Ghost(b, t, c, p) =>
            p \in Holding(b2, D2, u, n.cache) /\ (TapMode(b2, u, p) <=> n.rec.count > 0)
    <2> SUFFICES ASSUME n.rec.pressed
                 PROVE  p \in Holding(b2, D2, u, n.cache) /\ (TapMode(b2, u, p) <=> n.rec.count > 0)
      BY <1>6
    <2>1. p \in Holding(b2, D2, u, n.cache)
      BY <1>2, <1>4, <1>7
    <2>2. CASE u = t /\ r.count = 0
      BY <1>1, <1>3, <2>1, <2>2 DEF TapMode
    <2>3. CASE u = n.rec /\ r.count > 1
      BY <1>3, <2>1, <2>3 DEF TapMode
    <2> QED
      BY <2>2, <2>3 DEF NextTapping
  <1>13. Faithful(s, b, t, n.out)
    BY <1>6 DEF Faithful
  <1>14. HoldsOnly(n.kb, Acting(b2, D2, u, n.cache), Lockable)
    <2>1. Ghost(b, t, s.cache, r.key) => r.interrupted
      BY <1>6
    <2> QED
      BY <1>10, <1>11, <1>12, <1>13, <2>1, PairedPress
  <1>15. Marks(b2, u)
    BY <1>1, <1>5
  <1>16. u.pressed => u.key \in D2[0]
    BY <1>2, <1>3 DEF Paired, NextTapping
  <1>17. u.pressed /\ u.count = 1 => Marked(b2, u.key)
    <2>1. CASE u = t
      BY <1>1, <2>1 DEF Paired
    <2>2. CASE u = n.rec /\ r.count > 1
      BY <1>3, <2>2
    <2> QED
      BY <2>1, <2>2 DEF NextTapping
  <1> QED
    BY <1>1, <1>2, <1>14, <1>15, <1>16, <1>17 DEF Paired

\* A press becomes the tapping key, and leaves the records.
LEMMA PairedStart ==
    ASSUME NEW t \in RecordsOrNone, ~t.pressed, NEW c, NEW k,
           NEW b \in Seq(Records), NEW D, Paired(b, D, t, c, k),
           b # <<>>, b[1].pressed,
           NEW b2, Without(b2, b, 1)
    PROVE  /\ \E D2 : Paired(b2, D2, b[1], c, k) /\ D2[Len(b2)] = D[Len(b)]
           /\ b[1].count = 0 /\ ~b[1].interrupted
  <1> DEFINE u == b[1]
             p == u.key
  <1>1. /\ p \notin D[0] /\ ~Marked(b, p)
        /\ u.count = 0 /\ ~u.interrupted /\ ~(t.pressed /\ t.key = p)
        /\ \E D2 : /\ Track(b2, D2) /\ D2[Len(b2)] = D[Len(b)]
                   /\ D2[0] = D[0] \cup {p}
        /\ \A q : q # p => (Marked(b2, q) <=> Marked(b, q))
        /\ ~Marked(b2, p)
        /\ Plain(b2)
        /\ \A v : (\A q : Marked(b, q) => ~Undecides(v, q)) => Marks(b2, v)
    BY HeadPress
  <1>2. PICK D2 : Track(b2, D2) /\ D2[Len(b2)] = D[Len(b)] /\ D2[0] = D[0] \cup {p}
    BY <1>1
  <1>0. u.pressed
    OBVIOUS
  <1> HIDE DEF u
  <1>3. \A q : ~Undecides(t, q)
    BY DEF Undecides
  <1>4. \A q : Undecides(u, q) <=> q = p
    BY <1>0, <1>1 DEF Undecides
  <1> HIDE DEF p
  <1>5. \A q \in Holding(b, D, t, c) \ {p} :
            /\ q \in Holding(b2, D2, u, c) /\ c[q] = c[q]
            /\ TapMode(b2, u, q) <=> TapMode(b, t, q)
    BY <1>1, <1>2, <1>3, <1>4 DEF Holding, Ghost, TapMode, p
  <1>6. p \notin Holding(b, D, t, c)
    BY <1>1, <1>3 DEF Holding, Ghost
  <1>7. Acting(b, D, t, c) \subseteq Acting(b2, D2, u, c)
    BY <1>5, <1>6, ActingKept
  <1>8. HoldsOnly(k, Acting(b2, D2, u, c), Lockable)
    BY <1>7, HoldsMore DEF Paired
  <1>9. Marks(b2, u)
    <2>1. \A q : Marked(b, q) => ~Undecides(u, q)
      BY <1>1, <1>4
    <2> QED
      BY <1>1, <2>1
  <1>10. u.key \in D2[0]
    BY <1>2 DEF p
  <1> QED
    BY <1>1, <1>2, <1>8, <1>9, <1>10 DEF Paired, u

\* The tapping key is released early: its sequence of taps is over.
LEMMA PairedEarly ==
    ASSUME NEW s \in States, NEW t \in Records, t.pressed, t.count > 0,
           NEW b, NEW D, Paired(b, D, t, s.cache, s.kb),
           NEW r \in Records, r.key = t.key, ~r.pressed, r.count = t.count,
           NEW n, n = ProcessRecord(s, r)
    PROVE  Paired(b, D, NoEvent, n.cache, n.kb)
  <1> DEFINE p == r.key
             c == s.cache
             G == Acting(b, D, NoEvent, c)
  <1>1. t.count \in Nat /\ t.count # 0
    BY RecordCount DEF RecordsOrNone
  <1>2. \A q : ~Undecides(t, q) /\ ~Undecides(NoEvent, q)
    BY <1>1, NoneType DEF Undecides
  <1>3. \A q : ~Ghost(b, t, c, q)
    BY <1>2 DEF Ghost
  <1>4. \A q \in Holding(b, D, t, c) \ {p} :
            /\ q \in Holding(b, D, NoEvent, c) /\ c[q] = c[q]
            /\ TapMode(b, NoEvent, q) <=> TapMode(b, t, q)
    BY <1>2, <1>3, NoneType DEF Holding, TapMode
  <1>5. HeldAct(b, t, c, p) = Resolved(keymaps[c[p]][p], r.count)
    <2>1. TapMode(b, t, p) /\ r.count > 0 /\ r.count \in Nat
      BY <1>1 DEF TapMode
    <2> QED
      BY <2>1, HeldActIs
  <1>6. HoldsOnly(s.kb, Acting(b, D, t, c), Lockable)
    BY DEF Paired
  <1>7. Acting(b, D, t, c) \subseteq G \cup {Resolved(keymaps[c[p]][p], r.count)}
    <2> HIDE DEF c, p
    <2>1. \A x \in Acting(b, D, t, c) :
             \/ x \in G
             \/ p \in Holding(b, D, t, c) /\ x = HeldAct(b, t, c, p)
      BY <1>4, ActingKept
    <2> QED
      BY <1>5, <2>1
  <1> HIDE DEF G
  <1>8. HoldsOnly(s.kb, G \cup {Resolved(keymaps[c[p]][p], r.count)}, Lockable)
    BY <1>6, <1>7, HoldsMore
  <1>9. HoldsOnly(n.kb, G, Lockable) /\ n.cache = c
    BY <1>8, ProcessRecordRelease
  <1>10. Marks(b, NoEvent)
    BY <1>2 DEF Paired, Marks
  <1> QED
    BY <1>9, <1>10, NoneType DEF Paired, G

\* The records that wait, b, are paired, and end with the keys now down.
PairedWith(b, t, c, k, now) == \E D : Paired(b, D, t, c, k) /\ D[Len(b)] = now

\* A key goes down or up: its record comes last.
Follows(r, was, now) ==
    /\ r \in Records /\ r.count = 0 /\ ~r.interrupted
    /\ now \subseteq Positions
    /\ r.pressed => r.key \notin was /\ now = was \cup {r.key}
    /\ ~r.pressed => r.key \in was /\ now = was \ {r.key}

LEMMA PairedAppend ==
    ASSUME NEW b \in Seq(Records), NEW D, NEW t, NEW c, NEW k, Paired(b, D, t, c, k),
           NEW r, NEW now, Follows(r, D[Len(b)], now)
    PROVE  PairedWith(Append(b, r), t, c, k, now)
  <1> SUFFICES ASSUME NEW b2, b2 = Append(b, r),
                      r \in Records, r.count = 0, ~r.interrupted, now \subseteq Positions,
                      r.pressed => r.key \notin D[Len(b)] /\ now = D[Len(b)] \cup {r.key},
                      ~r.pressed => r.key \in D[Len(b)] /\ now = D[Len(b)] \ {r.key}
               PROVE  \E D2 : Paired(b2, D2, t, c, k) /\ D2[Len(b2)] = now
    BY DEF Follows, PairedWith
  <1> DEFINE N == Len(b)
             D2 == [i \in 0..N + 1 |-> IF i = N + 1 THEN now ELSE D[i]]
  <1>1. /\ N \in Nat /\ Len(b2) = N + 1 /\ \A i \in 1..N : b2[i] = b[i]
        /\ b2[N + 1] = r
    BY LenProperties, AppendProperties
  <1>2. /\ D \in [0..N -> SUBSET Positions]
        /\ \A i \in 1..N :
              /\ b[i].pressed => b[i].key \notin D[i - 1] /\ D[i] = D[i - 1] \cup {b[i].key}
              /\ ~b[i].pressed => b[i].key \in D[i - 1] /\ D[i] = D[i - 1] \ {b[i].key}
    BY DEF Paired, Track
  <1>3. /\ r.pressed => r.key \notin D[N] /\ now = D[N] \cup {r.key}
        /\ ~r.pressed => r.key \in D[N] /\ now = D[N] \ {r.key}
    OBVIOUS
  <1> HIDE DEF N
  <1>4. /\ D2 \in [0..N + 1 -> SUBSET Positions]
        /\ \A i \in 0..N : D2[i] = D[i]
        /\ D2[N + 1] = now
    <2>1. \A i \in 0..N + 1 : i # N + 1 => i \in 0..N
      BY <1>1
    <2>2. \A i \in 0..N : i \in 0..N + 1 /\ i # N + 1
      BY <1>1
    <2>3. N + 1 \in 0..N + 1
      BY <1>1
    <2> QED
      BY <1>2, <2>1, <2>2, <2>3
  <1> HIDE DEF D2
  <1>5. \A i \in 1..N + 1 : i # N + 1 => i \in 1..N
    BY <1>1
  <1>6. \A i \in 1..N : i \in 0..N /\ i - 1 \in 0..N /\ i \in 1..N + 1
    BY <1>1
  <1>7. (N + 1) - 1 = N /\ N \in 0..N /\ 0 \in 0..N /\ N + 1 \in 1..N + 1
    BY <1>1
  <1>8. ASSUME NEW i \in 1..N + 1
        PROVE  /\ b2[i].pressed => /\ b2[i].key \notin D2[i - 1]
                                   /\ D2[i] = D2[i - 1] \cup {b2[i].key}
               /\ ~b2[i].pressed => /\ b2[i].key \in D2[i - 1]
                                    /\ D2[i] = D2[i - 1] \ {b2[i].key}
    <2>1. CASE i = N + 1
      BY <1>1, <1>3, <1>4, <1>7, <2>1
    <2>2. CASE i # N + 1
      <3>1. i \in 1..N /\ b2[i] = b[i] /\ D2[i] = D[i] /\ D2[i - 1] = D[i - 1]
        BY <1>1, <1>4, <1>5, <1>6, <2>2
      <3> QED
        BY <1>2, <3>1
    <2> QED
      BY <2>1, <2>2
  <1>9. Track(b2, D2)
    BY <1>1, <1>4, <1>8 DEF Track
  <1>10. \A q : Marked(b2, q) <=> Marked(b, q)
    <2>1. ~(r.count > 0)
      OBVIOUS
    <2> QED
      BY <1>1, <1>5, <1>6, <2>1 DEF Marked, N
  <1>11. /\ \A q : Undecides(t, q) => ~Marked(b, q)
         /\ \A i \in 1..N : b[i].count > 0 => ~b[i].pressed
         /\ \A i, j \in 1..N : b[i].count > 0 /\ b[j].key = b[i].key => i <= j
         /\ \A i \in 1..N : b[i].pressed => ~b[i].interrupted
    BY DEF Paired, Marks, Marked, Plain, N
  <1>12. Marks(b2, t)
    <2> SUFFICES ASSUME NEW i \in 1..N + 1, b2[i].count > 0
                 PROVE  /\ ~b2[i].pressed /\ ~Undecides(t, b2[i].key)
                        /\ \A j \in 1..N + 1 : b2[j].key = b2[i].key => i <= j
      BY <1>1 DEF Marks
    <2>1. i \in 1..N
      BY <1>1, <1>5
    <2>2. b2[i] = b[i]
      BY <1>1, <2>1
    <2>3. ~Undecides(t, b[i].key)
      BY <1>11, <2>1, <2>2 DEF Marked, N
    <2>4. \A j \in 1..N : b2[j].key = b2[i].key => i <= j
      BY <1>1, <1>11, <2>1, <2>2
    <2>5. i <= N + 1
      BY <1>1, <2>1
    <2>6. \A j \in 1..N + 1 : b2[j].key = b2[i].key => i <= j
      BY <1>5, <2>4, <2>5
    <2> QED
      BY <1>11, <2>1, <2>2, <2>3, <2>6
  <1>13. Plain(b2)
    BY <1>1, <1>5, <1>11 DEF Plain
  <1>14. \A q : TapMode(b2, t, q) <=> TapMode(b, t, q)
    BY <1>10 DEF TapMode
  <1>15. D2[0] = D[0]
    BY <1>4, <1>7
  <1>16. \A q : Ghost(b, t, c, q) => Ghost(b2, t, c, q)
    BY <1>1, <1>6 DEF Ghost, N
  <1>17. Holding(b, D, t, c) \subseteq Holding(b2, D2, t, c)
    BY <1>15, <1>16 DEF Holding
  <1>18. Acting(b, D, t, c) \subseteq Acting(b2, D2, t, c)
    BY <1>14, <1>17 DEF Acting, HeldAct
  <1>19. HoldsOnly(k, Acting(b2, D2, t, c), Lockable)
    BY <1>18, HoldsMore DEF Paired
  <1>20. Paired(b2, D2, t, c, k)
    BY <1>9, <1>10, <1>12, <1>13, <1>15, <1>19 DEF Paired
  <1> QED
    BY <1>1, <1>4, <1>20

-----------------------------------------------------------------------------
(* One call of process_tapping, for the record m of b.                     *)

\* Two records of a key wait, both releases, and only the later one is that
\* of a tap.
MispairedIn(w) ==
    \E i, j \in DOMAIN w : /\ i < j /\ w[i].key = w[j].key /\ ~w[i].pressed /\ ~w[j].pressed
                           /\ w[i].count = 0 /\ w[j].count > 0

\* y is left by process_tapping, for the decision d about the record r.
Takes(y, d, r) ==
    LET n == ProcessAll(d.state, d.todo)
    IN  /\ n \in States
        /\ y.kb = n.kb /\ y.cache = n.cache /\ y.out = n.out
        /\ y.buffer = d.state.buffer /\ y.done = d.done
        /\ d.follows => y.tapping = n.rec /\ y.rec = CopyTap(n.rec, r)
        /\ ~d.follows => y.tapping = d.state.tapping /\ y.rec = r

LEMMA TakenIs ==
    ASSUME NEW s \in States, NEW r \in RecordsOrNone
    PROVE  Takes(ProcessTapping(s, r), Decision(s, r), r)
  <1> DEFINE d == Decision(s, r)
             y == ProcessTapping(s, r)
             n == ProcessAll(d.state, d.todo)
  <1>1. DecisionOK(d, s, r)
    BY DecisionFacts
  <1>2. n \in States /\ Keeps(n, d.state)
    BY <1>1, ProcessAllFacts DEF DecisionOK
  <1>3. y = Settled(n, r, d)
    BY DEF ProcessTapping, Carried
  <1> HIDE DEF n, y
  <1>4. /\ y.kb = n.kb /\ y.cache = n.cache /\ y.out = n.out /\ y.buffer = n.buffer
        /\ y.done = d.done
        /\ y.tapping = IF d.follows THEN n.rec ELSE n.tapping
        /\ y.rec = IF d.follows THEN CopyTap(n.rec, r) ELSE r
    BY <1>2, <1>3 DEF Settled, States
  <1> QED
    BY <1>2, <1>4 DEF Keeps, n, y, d, Takes

\* y is left by a decision that processes nothing, or one record z.
TookNone(y, x, r, done) ==
    /\ y.kb = x.kb /\ y.cache = x.cache /\ y.out = x.out
    /\ y.buffer = x.buffer /\ y.done = done
    /\ y.tapping = x.tapping /\ y.rec = r

TookOne(y, x, z, r, done) ==
    LET n == ProcessRecord(x, z)
    IN  /\ y.kb = n.kb /\ y.cache = n.cache /\ y.out = n.out
        /\ y.buffer = x.buffer /\ y.done = done
        /\ y.tapping = x.tapping /\ y.rec = r

TookTapping(y, x, z, r, done) ==
    LET n == ProcessRecord(x, z)
    IN  /\ y.kb = n.kb /\ y.cache = n.cache /\ y.out = n.out
        /\ y.buffer = x.buffer /\ y.done = done
        /\ y.tapping = n.rec /\ y.rec = CopyTap(n.rec, r)

LEMMA TakenNone ==
    ASSUME NEW s \in States, NEW r \in RecordsOrNone,
           NEW x, NEW done, Decision(s, r) = Decide(x, <<>>, FALSE, done)
    PROVE  TookNone(ProcessTapping(s, r), x, r, done)
  <1> DEFINE d == Decision(s, r)
  <1>1. d.state = x /\ d.todo = <<>> /\ d.follows = FALSE /\ d.done = done
    BY DEF Decide
  <1>2. Takes(ProcessTapping(s, r), d, r)
    BY TakenIs
  <1> HIDE DEF d
  <1>3. ProcessAll(d.state, d.todo) = x
    BY <1>1, TodoType, ProcessAllIs
  <1> QED
    BY <1>1, <1>2, <1>3 DEF Takes, TookNone

LEMMA TakenOne ==
    ASSUME NEW s \in States, NEW r \in RecordsOrNone, NEW x, NEW z \in RecordsOrNone,
           NEW done, Decision(s, r) = Decide(x, <<z>>, FALSE, done)
    PROVE  TookOne(ProcessTapping(s, r), x, z, r, done)
  <1> DEFINE d == Decision(s, r)
             todo == <<z>>
  <1>1. d.state = x /\ d.todo = todo /\ d.follows = FALSE /\ d.done = done
    BY DEF Decide
  <1>2. Takes(ProcessTapping(s, r), d, r)
    BY TakenIs
  <1>3. todo \in Seq(RecordsOrNone) /\ Len(todo) \in {0, 1, 2} /\ Len(todo) = 1 /\ todo[1] = z
    BY TodoType
  <1> HIDE DEF d, todo
  <1>4. ProcessAll(x, todo) = ProcessRecord(x, todo[1])
    BY <1>3, ProcessAllIs
  <1>5. ProcessAll(d.state, d.todo) = ProcessRecord(x, z)
    BY <1>1, <1>3, <1>4
  <1> QED
    BY <1>1, <1>2, <1>5 DEF Takes, TookOne

LEMMA TakenTapping ==
    ASSUME NEW s \in States, NEW r \in RecordsOrNone, NEW x, NEW z \in RecordsOrNone,
           NEW done, Decision(s, r) = Decide(x, <<z>>, TRUE, done)
    PROVE  TookTapping(ProcessTapping(s, r), x, z, r, done)
  <1> DEFINE d == Decision(s, r)
             todo == <<z>>
  <1>1. d.state = x /\ d.todo = todo /\ d.follows = TRUE /\ d.done = done
    BY DEF Decide
  <1>2. Takes(ProcessTapping(s, r), d, r)
    BY TakenIs
  <1>3. todo \in Seq(RecordsOrNone) /\ Len(todo) \in {0, 1, 2} /\ Len(todo) = 1 /\ todo[1] = z
    BY TodoType
  <1> HIDE DEF d, todo
  <1>4. ProcessAll(x, todo) = ProcessRecord(x, todo[1])
    BY <1>3, ProcessAllIs
  <1>5. ProcessAll(d.state, d.todo) = ProcessRecord(x, z)
    BY <1>1, <1>3, <1>4
  <1> QED
    BY <1>1, <1>2, <1>5 DEF Takes, TookTapping

LEMMA InsteadSame ==
    ASSUME NEW b \in Seq(Records), NEW w \in Seq(Records), NEW m, Instead(w, b, m, b[m])
    PROVE  w = b
  <1>1. Len(w) = Len(b) /\ \A i \in 1..Len(b) : w[i] = b[i]
    BY DEF Instead
  <1>2. DOMAIN w = 1..Len(b) /\ DOMAIN b = 1..Len(b)
    BY <1>1, LenProperties
  <1>3. w \in [1..Len(b) -> Records] /\ b \in [1..Len(b) -> Records]
    BY <1>1, LenProperties
  <1> QED
    BY <1>1, <1>3

LEMMA FaithfulIn ==
    ASSUME NEW s, NEW x, x.kb = s.kb, x.cache = s.cache,
           NEW b, NEW t, NEW o, Faithful(s, b, t, o)
    PROVE  Faithful(x, b, t, o)
  <1>1. \A p : SourceLayer(x, p) = SourceLayer(s, p)
    BY DEF SourceLayer
  <1>2. \A p : ActionNow(x, p) = ActionNow(s, p)
    BY <1>1 DEF ActionNow
  <1> QED
    BY <1>2 DEF Faithful

\* The release that is marked as that of a tap is the first of its key.
LEMMA FirstMarked ==
    ASSUME NEW b \in Seq(Records), NEW D, NEW t, NEW c, NEW k, Paired(b, D, t, c, k),
           NEW p, Undecides(t, p),
           NEW m \in 1..Len(b), NEW x, x.key = p, ~x.pressed, x.count > 0,
           NEW w \in Seq(Records), Instead(w, b, m, x), ~MispairedIn(w)
    PROVE  \A i \in 1..m - 1 : b[i].key # p
  <1>1. Len(b) \in Nat /\ Len(w) = Len(b) /\ DOMAIN w = 1..Len(b)
    BY LenProperties DEF Instead
  <1>2. ASSUME NEW i \in 1..m - 1, b[i].key = p
        PROVE  b[i].pressed
    <2>1. i \in 1..Len(b) /\ i < m /\ i # m
      BY <1>1
    <2>2. w[i] = b[i] /\ w[m] = x
      BY <2>1 DEF Instead
    <2>3. b[i] \in Records
      BY <2>1, ElementOfSeq
    <2>4. ~(b[i].count > 0)
      BY <1>2, <2>1 DEF Paired, Marks
    <2>5. b[i].count = 0
      BY <2>3, <2>4, RecordCount DEF RecordsOrNone
    <2> SUFFICES ASSUME ~b[i].pressed PROVE FALSE
      OBVIOUS
    <2>6. i \in DOMAIN w /\ m \in DOMAIN w
      BY <1>1, <2>1
    <2> QED
      BY <1>2, <2>1, <2>2, <2>5, <2>6 DEF MispairedIn
  <1>3. p \in D[0] /\ Track(b, D)
    BY DEF Paired, Undecides
  <1> QED
    BY <1>2, <1>3, FirstRelease

\* The tapping key, undecided, and the record m of b.
UndecidedHead(s, t, b, m, r) ==
    /\ s.tapping = t /\ t \in Records /\ t.pressed /\ t.count = 0
    /\ m \in 1..Len(b) /\ r = b[m]
    /\ \A i \in 1..m - 1 : i \in DOMAIN s.buffer /\ s.buffer[i] = b[i]

\* The buffer b becomes w: the record m is processed, or waits as x.
Leaves(w, b, m, done, x) ==
    IF done THEN Without(w, b, m) ELSE Instead(w, b, m, x)

\* A call of process_tapping for the record m of b, while tap or hold is not
\* decided; the buffer b becomes w.
UndecidedCall(s, t, b, m, r, D, w) ==
    LET y == ProcessTapping(s, r)
    IN  /\ UndecidedHead(s, t, b, m, r)
        /\ Paired(b, D, t, s.cache, s.kb)
        /\ Faithful(s, b, t, y.out)
        /\ Leaves(w, b, m, y.done, y.rec)
        /\ ~MispairedIn(w)

\* What y leaves, with the buffer w that was b, is paired.
StillPaired(w, b, D, y) ==
    \E D2 : Paired(w, D2, y.tapping, y.cache, y.kb) /\ D2[Len(w)] = D[Len(b)]

LEMMA UndecidedParts ==
    ASSUME NEW s \in States, NEW t, NEW b \in Seq(Records), NEW m, NEW r,
           UndecidedHead(s, t, b, m, r)
    PROVE  /\ t \in Records /\ t \in RecordsOrNone /\ t.pressed /\ t.count = 0 /\ s.tapping = t
           /\ t.key \in Positions /\ t.key # NoKey
           /\ m \in 1..Len(b) /\ r = b[m] /\ r \in Records /\ r \in RecordsOrNone
           /\ r.key \in Positions /\ r.key # NoKey
           /\ Undecides(t, t.key)
           /\ Decision(s, r) = IF Within(s, r) THEN Undecided(s, r) ELSE HoldTimeout(s)
  <1>1. t \in Records /\ t.pressed /\ t.count = 0 /\ s.tapping = t /\ m \in 1..Len(b) /\ r = b[m]
    BY DEF UndecidedHead
  <1>2. r \in Records
    BY <1>1, ElementOfSeq
  <1>3. t.key # NoKey /\ r.key # NoKey
    BY <1>1, <1>2, RecordParts DEF RecordsOrNone
  <1>4. Decision(s, r) = IF Within(s, r) THEN Undecided(s, r) ELSE HoldTimeout(s)
    BY <1>1, <1>3 DEF Decision
  <1> QED
    BY <1>1, <1>2, <1>3, <1>4 DEF Undecides, RecordsOrNone, Records

\* The tapping term is over.
LEMMA PairedTimeout ==
    ASSUME NEW s \in States, NEW t, NEW b \in Seq(Records), NEW m, NEW r, NEW D,
           NEW w \in Seq(Records), UndecidedCall(s, t, b, m, r, D, w), ~Within(s, r)
    PROVE  StillPaired(w, b, D, ProcessTapping(s, r))
  <1> SUFFICES ASSUME NEW y, y = ProcessTapping(s, r),
                      UndecidedHead(s, t, b, m, r), Paired(b, D, t, s.cache, s.kb),
                      Faithful(s, b, t, y.out), Leaves(w, b, m, y.done, y.rec), ~MispairedIn(w)
               PROVE  StillPaired(w, b, D, y)
    BY DEF UndecidedCall
  <1> DEFINE x == [s EXCEPT !.tapping = NoEvent]
             n == ProcessRecord(x, t)
  <1>1. /\ t \in Records /\ t \in RecordsOrNone /\ t.pressed /\ t.count = 0 /\ s.tapping = t
        /\ t.key \in Positions /\ t.key # NoKey
        /\ m \in 1..Len(b) /\ r = b[m] /\ r \in Records /\ r \in RecordsOrNone
        /\ r.key \in Positions /\ r.key # NoKey
        /\ Undecides(t, t.key)
        /\ Decision(s, r) = IF Within(s, r) THEN Undecided(s, r) ELSE HoldTimeout(s)
    BY UndecidedParts
  <1>2. x \in States /\ x.kb = s.kb /\ x.cache = s.cache /\ x.tapping = NoEvent
    BY NoTapping DEF States
  <1>3. Decision(s, r) = Decide(x, <<t>>, FALSE, FALSE)
    BY <1>1 DEF HoldTimeout
  <1>4. n = ProcessRecord(x, t)
    OBVIOUS
  <1> HIDE DEF x, n
  <1>5. /\ y.kb = n.kb /\ y.cache = n.cache /\ y.out = n.out /\ y.done = FALSE
        /\ y.tapping = x.tapping /\ y.rec = r
    <2>1. TookOne(y, x, t, r, FALSE)
      BY <1>1, <1>3, TakenOne
    <2> QED
      BY <1>4, <2>1 DEF TookOne
  <1>6. Faithful(x, b, t, n.out) /\ Paired(b, D, t, x.cache, x.kb)
    BY <1>2, <1>5, FaithfulIn
  <1>7. Paired(b, D, NoEvent, n.cache, n.kb)
    BY <1>1, <1>2, <1>4, <1>6, PairedHold
  <1>8. w = b
    BY <1>1, <1>5, InsteadSame DEF Leaves
  <1> QED
    BY <1>2, <1>5, <1>7, <1>8 DEF StillPaired

\* The release that decides the tap.
LEMMA PairedTapped ==
    ASSUME NEW s \in States, NEW t, NEW b \in Seq(Records), NEW m, NEW r, NEW D,
           NEW w \in Seq(Records), UndecidedCall(s, t, b, m, r, D, w),
           Within(s, r), r.key = t.key, ~r.pressed
    PROVE  StillPaired(w, b, D, ProcessTapping(s, r))
  <1> SUFFICES ASSUME NEW y, y = ProcessTapping(s, r),
                      UndecidedHead(s, t, b, m, r), Paired(b, D, t, s.cache, s.kb),
                      Faithful(s, b, t, y.out), Leaves(w, b, m, y.done, y.rec), ~MispairedIn(w)
               PROVE  StillPaired(w, b, D, y)
    BY DEF UndecidedCall
  <1> DEFINE z == [t EXCEPT !.count = 1]
             n == ProcessRecord(s, z)
             x == CopyTap(n.rec, r)
  <1>1. /\ t \in Records /\ t \in RecordsOrNone /\ t.pressed /\ t.count = 0 /\ s.tapping = t
        /\ t.key \in Positions /\ t.key # NoKey
        /\ m \in 1..Len(b) /\ r = b[m] /\ r \in Records /\ r \in RecordsOrNone
        /\ r.key \in Positions /\ r.key # NoKey
        /\ Undecides(t, t.key)
        /\ Decision(s, r) = IF Within(s, r) THEN Undecided(s, r) ELSE HoldTimeout(s)
    BY UndecidedParts
  <1>2. z \in Records /\ z.key = t.key /\ z.pressed /\ z.count = 1 /\ z.interrupted = t.interrupted
    <2>1. z \in Records
      BY <1>1, SetRecord
    <2> QED
      BY <1>1, <2>1 DEF Records
  <1>3. z \in RecordsOrNone
    BY <1>2 DEF RecordsOrNone
  <1>4. Decision(s, r) = Decide(s, <<z>>, TRUE, FALSE)
    BY <1>1 DEF Undecided, IsTappingRecord
  <1>5. n = ProcessRecord(s, z)
    OBVIOUS
  <1> HIDE DEF z, n
  <1>6. x.key = r.key /\ x.pressed = r.pressed /\ x.count = n.rec.count
        /\ x.interrupted = n.rec.interrupted
    BY <1>1 DEF CopyTap, Records
  <1> HIDE DEF x
  <1>7. /\ y.kb = n.kb /\ y.cache = n.cache /\ y.out = n.out /\ y.done = FALSE
        /\ y.tapping = n.rec /\ y.rec = x
    <2>1. TookTapping(y, s, z, r, FALSE)
      BY <1>1, <1>3, <1>4, TakenTapping
    <2> QED
      BY <1>5, <2>1 DEF TookTapping, x
  <1>8. Faithful(s, b, t, n.out)
    BY <1>7
  <1>9. /\ n.rec \in Records /\ n.rec.key = z.key /\ n.rec.interrupted = z.interrupted
        /\ \/ n.rec.count = z.count
           \/ /\ n.rec.count = 0 /\ z.interrupted /\ keymaps[n.cache[z.key]][z.key].kind = "mt"
        /\ ~z.interrupted => n.rec.count = z.count
        /\ n.rec.count \in Nat /\ n.rec.pressed \in BOOLEAN
    BY <1>2, <1>5, PressRecord, SMTT(60)
  <1>10. n.rec.count = 0 => x.interrupted
    BY <1>2, <1>6, <1>9
  <1>11. Instead(w, b, m, x)
    BY <1>7 DEF Leaves
  <1>12. b[m].key = t.key /\ ~b[m].pressed /\ x.key = t.key /\ ~x.pressed /\ x.pressed = b[m].pressed
    BY <1>1, <1>6
  <1>13. n.rec.count > 0 => \A i \in 1..m - 1 : b[i].key # t.key
    <2> SUFFICES ASSUME n.rec.count > 0 PROVE \A i \in 1..m - 1 : b[i].key # t.key
      OBVIOUS
    <2>1. x.count > 0
      BY <1>6
    <2> QED
      BY <1>1, <1>11, <1>12, <2>1, FirstMarked
  <1>14. Paired(w, D, n.rec, n.cache, n.kb)
    BY <1>1, <1>2, <1>5, <1>6, <1>8, <1>10, <1>11, <1>12, <1>13, PairedTap
  <1> QED
    BY <1>7, <1>11, <1>14 DEF Instead, StillPaired

\* The first record of a key is a release: it is marked if the key was tapped.
LEMMA FirstIsMarked ==
    ASSUME NEW b \in Seq(Records), NEW D, NEW t, NEW c, NEW k, Paired(b, D, t, c, k),
           NEW m \in 1..Len(b), \A i \in 1..m - 1 : b[i].key # b[m].key,
           ~(t.pressed /\ t.key = b[m].key)
    PROVE  TapMode(b, t, b[m].key) <=> b[m].count > 0
  <1>1. Marks(b, t) /\ Len(b) \in Nat
    BY LenProperties DEF Paired
  <1>2. ASSUME NEW i \in 1..Len(b), b[i].key = b[m].key, b[i].count > 0
        PROVE  i = m
    <2>1. i <= m
      BY <1>1, <1>2 DEF Marks
    <2>2. i \notin 1..m - 1
      BY <1>2
    <2> QED
      BY <1>1, <2>1, <2>2
  <1>3. Marked(b, b[m].key) <=> b[m].count > 0
    BY <1>2 DEF Marked
  <1> QED
    BY <1>3 DEF TapMode

\* Another key is released, whose press does not wait.
LEMMA PairedOther ==
    ASSUME NEW s \in States, NEW t, NEW b \in Seq(Records), NEW m, NEW r, NEW D,
           NEW w \in Seq(Records), UndecidedCall(s, t, b, m, r, D, w),
           Within(s, r), r.key # t.key, ~r.pressed, ~Typed(s, r), ~Retained(s, r)
    PROVE  StillPaired(w, b, D, ProcessTapping(s, r))
  <1> SUFFICES ASSUME NEW y, y = ProcessTapping(s, r),
                      UndecidedHead(s, t, b, m, r), Paired(b, D, t, s.cache, s.kb),
                      Faithful(s, b, t, y.out), Leaves(w, b, m, y.done, y.rec), ~MispairedIn(w)
               PROVE  StillPaired(w, b, D, y)
    BY DEF UndecidedCall
  <1> DEFINE n == ProcessRecord(s, r)
  <1>1. /\ t \in Records /\ t \in RecordsOrNone /\ t.pressed /\ t.count = 0 /\ s.tapping = t
        /\ t.key \in Positions /\ t.key # NoKey
        /\ m \in 1..Len(b) /\ r = b[m] /\ r \in Records /\ r \in RecordsOrNone
        /\ r.key \in Positions /\ r.key # NoKey
        /\ Undecides(t, t.key)
        /\ Decision(s, r) = IF Within(s, r) THEN Undecided(s, r) ELSE HoldTimeout(s)
    BY UndecidedParts
  <1>2. Decision(s, r) = Decide(s, <<r>>, FALSE, TRUE)
    BY <1>1 DEF Undecided, IsTappingRecord, Handle
  <1>3. n = ProcessRecord(s, r)
    OBVIOUS
  <1> HIDE DEF n
  <1>4. TookOne(y, s, r, r, TRUE)
    BY <1>1, <1>2, TakenOne
  <1>5. y.kb = n.kb /\ y.cache = n.cache /\ y.done /\ y.tapping = t
    BY <1>1, <1>3, <1>4 DEF TookOne
  <1>6. Without(w, b, m)
    BY <1>5 DEF Leaves
  <1>7. ASSUME NEW i \in 1..m - 1, b[i].key = r.key PROVE ~b[i].pressed
    <2>1. i \in DOMAIN s.buffer /\ s.buffer[i] = b[i]
      BY DEF UndecidedHead
    <2> QED
      BY <1>7, <2>1 DEF Typed
  <1>8. Track(b, D)
    BY DEF Paired
  <1>9. \A i \in 1..m - 1 : b[i].key # b[m].key
    BY <1>1, <1>7, <1>8, OnlyRelease
  <1>10. ~(t.pressed /\ t.key = b[m].key) /\ ~Undecides(t, r.key) /\ ~b[m].pressed
         /\ r.key = b[m].key
    BY <1>1 DEF Undecides
  <1>11. TapMode(b, t, r.key) <=> r.count > 0
    BY <1>1, <1>9, <1>10, FirstIsMarked
  <1>12. AfterRelease(t, t, r.key)
    BY <1>10 DEF AfterRelease
  <1>13. \E D2 : Paired(w, D2, t, n.cache, n.kb) /\ D2[Len(w)] = D[Len(b)]
    BY <1>1, <1>3, <1>6, <1>9, <1>10, <1>11, <1>12, PairedRelease
  <1> QED
    BY <1>5, <1>13 DEF StillPaired

\* The record waits.
LEMMA PairedWaits ==
    ASSUME NEW s \in States, NEW t, NEW b \in Seq(Records), NEW m, NEW r, NEW D,
           NEW w \in Seq(Records), UndecidedCall(s, t, b, m, r, D, w),
           NEW x \in {s, [s EXCEPT !.tapping.interrupted = @ \/ r.pressed]},
           Decision(s, r) = Wait(x)
    PROVE  StillPaired(w, b, D, ProcessTapping(s, r))
  <1> SUFFICES ASSUME NEW y, y = ProcessTapping(s, r),
                      UndecidedHead(s, t, b, m, r), Paired(b, D, t, s.cache, s.kb),
                      Faithful(s, b, t, y.out), Leaves(w, b, m, y.done, y.rec), ~MispairedIn(w)
               PROVE  StillPaired(w, b, D, y)
    BY DEF UndecidedCall
  <1>1. /\ t \in Records /\ t \in RecordsOrNone /\ t.pressed /\ t.count = 0 /\ s.tapping = t
        /\ t.key \in Positions /\ t.key # NoKey
        /\ m \in 1..Len(b) /\ r = b[m] /\ r \in Records /\ r \in RecordsOrNone
        /\ r.key \in Positions /\ r.key # NoKey
        /\ Undecides(t, t.key)
        /\ Decision(s, r) = IF Within(s, r) THEN Undecided(s, r) ELSE HoldTimeout(s)
    BY UndecidedParts
  <1>2. Decision(s, r) = Decide(x, <<>>, FALSE, FALSE)
    BY DEF Wait
  <1>3. TookNone(y, x, r, FALSE)
    BY <1>1, <1>2, TakenNone
  <1>4. y.kb = x.kb /\ y.cache = x.cache /\ y.tapping = x.tapping /\ ~y.done /\ y.rec = r
    BY <1>3 DEF TookNone
  <1>5. w = b
    BY <1>1, <1>4, InsteadSame DEF Leaves
  <1>6. CASE x = s
    BY <1>1, <1>4, <1>5, <1>6 DEF StillPaired
  <1>7. CASE x = [s EXCEPT !.tapping.interrupted = @ \/ r.pressed]
    <2> DEFINE i == t.interrupted \/ r.pressed
    <2>1. x.kb = s.kb /\ x.cache = s.cache /\ x.tapping = [t EXCEPT !.interrupted = i]
      BY <1>1, <1>7 DEF States
    <2>2. i \in BOOLEAN /\ (t.interrupted => i)
      OBVIOUS
    <2> HIDE DEF i
    <2>3. Paired(b, D, [t EXCEPT !.interrupted = i], s.cache, s.kb)
      BY <1>1, <2>2, PairedInterrupted
    <2> QED
      BY <1>4, <1>5, <2>1, <2>3 DEF StillPaired
  <1> QED
    BY <1>6, <1>7

\* While tap or hold is not decided.
LEMMA PairedUndecided ==
    ASSUME NEW s \in States, NEW t, NEW b \in Seq(Records), NEW m, NEW r, NEW D,
           NEW w \in Seq(Records), UndecidedCall(s, t, b, m, r, D, w)
    PROVE  StillPaired(w, b, D, ProcessTapping(s, r))
  <1> DEFINE x == [s EXCEPT !.tapping.interrupted = @ \/ r.pressed]
  <1>0. UndecidedHead(s, t, b, m, r)
    BY DEF UndecidedCall
  <1>1. /\ t \in Records /\ t \in RecordsOrNone /\ t.pressed /\ t.count = 0 /\ s.tapping = t
        /\ t.key \in Positions /\ t.key # NoKey
        /\ m \in 1..Len(b) /\ r = b[m] /\ r \in Records /\ r \in RecordsOrNone
        /\ r.key \in Positions /\ r.key # NoKey
        /\ Undecides(t, t.key)
        /\ Decision(s, r) = IF Within(s, r) THEN Undecided(s, r) ELSE HoldTimeout(s)
    BY <1>0, UndecidedParts
  <1>2. CASE ~Within(s, r)
    BY <1>2, PairedTimeout
  <1>3. CASE Within(s, r) /\ r.key = t.key /\ ~r.pressed
    BY <1>3, PairedTapped
  <1>4. CASE Within(s, r) /\ r.key # t.key /\ ~r.pressed /\ ~Typed(s, r)
    <2>1. CASE ~Retained(s, r)
      BY <1>4, <2>1, PairedOther
    <2>2. CASE Retained(s, r)
      <3>1. Decision(s, r) = Wait(s)
        BY <1>1, <1>4, <2>2 DEF Undecided, IsTappingRecord
      <3> QED
        BY <3>1, PairedWaits
    <2> QED
      BY <2>1, <2>2
  <1>5. CASE Within(s, r) /\ (r.pressed \/ (r.key # t.key /\ Typed(s, r)))
    <2>1. Decision(s, r) = Wait(x)
      BY <1>1, <1>5 DEF Undecided, IsTappingRecord
    <2>2. x \in {s, [s EXCEPT !.tapping.interrupted = @ \/ r.pressed]}
      OBVIOUS
    <2> HIDE DEF x
    <2> QED
      BY <2>1, <2>2, PairedWaits
  <1> QED
    BY <1>2, <1>3, <1>4, <1>5

\* The record processed is the first of b, and not the release of the tapping key.
LEMMA PairedHandled ==
    ASSUME NEW x \in States, NEW t \in RecordsOrNone, ~(t.pressed /\ t.count = 0),
           NEW b \in Seq(Records), NEW D, Paired(b, D, t, x.cache, x.kb), b # <<>>,
           NEW r, r = b[1], ~(t.pressed /\ t.key = r.key),
           NEW n, n = ProcessRecord(x, r),
           NEW w, Without(w, b, 1)
    PROVE  \E D2 : Paired(w, D2, t, n.cache, n.kb) /\ D2[Len(w)] = D[Len(b)]
  <1>1. 1 \in 1..Len(b) /\ r \in Records
    <2>1. Len(b) \in Nat \ {0}
      BY EmptySeq
    <2>2. 1 \in 1..Len(b)
      BY <2>1
    <2> QED
      BY <2>2, ElementOfSeq
  <1>2. CASE r.pressed
    <2>1. b[1].pressed /\ r.key = b[1].key
      BY <1>2
    <2>2. b[1].count = 0 /\ ~b[1].interrupted
      <3>1. /\ b[1].key \notin D[0] /\ ~Marked(b, b[1].key)
            /\ b[1].count = 0 /\ ~b[1].interrupted /\ ~(t.pressed /\ t.key = b[1].key)
            /\ \E D2 : /\ Track(w, D2) /\ D2[Len(w)] = D[Len(b)]
                       /\ D2[0] = D[0] \cup {b[1].key}
            /\ \A q : q # b[1].key => (Marked(w, q) <=> Marked(b, q))
            /\ ~Marked(w, b[1].key)
            /\ Plain(w)
            /\ \A u : (\A q : Marked(b, q) => ~Undecides(u, q)) => Marks(w, u)
        BY <2>1, HeadPress
      <3> QED
        BY <3>1
    <2>3. NextTapping(t, t, r, n.rec) /\ ~r.interrupted
      BY <2>2 DEF NextTapping
    <2> QED
      BY <1>1, <1>2, <2>1, <2>3, PairedNext
  <1>3. CASE ~r.pressed
    <2>1. 1 \in 1..Len(b) /\ ~b[1].pressed /\ r.key = b[1].key /\ ~Undecides(t, r.key)
      BY <1>1, <1>3 DEF Undecides
    <2>2. \A i \in 1..1 - 1 : b[i].key # b[1].key
      OBVIOUS
    <2>3. TapMode(b, t, b[1].key) <=> b[1].count > 0
      BY <2>1, <2>2, FirstIsMarked
    <2>4. TapMode(b, t, r.key) <=> r.count > 0
      BY <2>3
    <2>5. AfterRelease(t, t, r.key)
      BY DEF AfterRelease
    <2> QED
      BY <1>1, <1>3, <2>1, <2>2, <2>4, <2>5, PairedRelease
  <1> QED
    BY <1>2, <1>3

\* A call of process_tapping for the first record of b, while no key is
\* undecided; the buffer b becomes w.
DecidedCall(s, t, b, D, w) ==
    LET y == ProcessTapping(s, b[1])
    IN  /\ s.tapping = t /\ ~(t.pressed /\ t.count = 0)
        /\ b # <<>> /\ (s.buffer = b \/ s.buffer = <<>>)
        /\ Paired(b, D, t, s.cache, s.kb)
        /\ y.buffer = s.buffer => Leaves(w, b, 1, y.done, y.rec)
        /\ y.done /\ s.buffer = b => w = Tail(y.buffer)
        /\ ~MispairedIn(w)

LEMMA DecidedParts ==
    ASSUME NEW s \in States, NEW t, NEW b \in Seq(Records), NEW D, NEW w,
           DecidedCall(s, t, b, D, w)
    PROVE  /\ s.tapping = t /\ t \in RecordsOrNone /\ ~(t.pressed /\ t.count = 0)
           /\ b # <<>> /\ 1 \in 1..Len(b) /\ b[1] \in Records /\ b[1] \in RecordsOrNone
           /\ b[1].key \in Positions /\ b[1].key # NoKey
           /\ t.count \in Nat /\ t.pressed \in BOOLEAN
           /\ Paired(b, D, t, s.cache, s.kb)
  <1>1. /\ s.tapping = t /\ ~(t.pressed /\ t.count = 0) /\ b # <<>>
        /\ Paired(b, D, t, s.cache, s.kb)
    BY DEF DecidedCall
  <1>2. t \in RecordsOrNone
    BY <1>1, StateParts
  <1>3. 1 \in 1..Len(b)
    <2>1. Len(b) \in Nat \ {0}
      BY <1>1, EmptySeq
    <2> QED
      BY <2>1
  <1>4. b[1] \in Records
    BY <1>3, ElementOfSeq
  <1>5. b[1] \in RecordsOrNone
    BY <1>4 DEF RecordsOrNone
  <1>6. b[1].key \in Positions /\ b[1].key # NoKey
    BY <1>4, <1>5, RecordParts
  <1>7. t.count \in Nat /\ t.pressed \in BOOLEAN
    BY <1>2, RecordCount
  <1> QED
    BY <1>1, <1>2, <1>3, <1>4, <1>5, <1>6, <1>7

\* The first record is processed.
LEMMA DecidedHandle ==
    ASSUME NEW s \in States, NEW t, NEW b \in Seq(Records), NEW D, NEW w,
           DecidedCall(s, t, b, D, w),
           NEW x \in States, x.kb = s.kb, x.cache = s.cache, x.buffer = s.buffer,
           x.tapping = t \/ (~t.pressed /\ ~x.tapping.pressed),
           Decision(s, b[1]) = Handle(x, <<b[1]>>), ~(t.pressed /\ t.key = b[1].key)
    PROVE  StillPaired(w, b, D, ProcessTapping(s, b[1]))
  <1> DEFINE r == b[1]
             n == ProcessRecord(x, r)
             y == ProcessTapping(s, r)
             u == x.tapping
  <1>1. /\ s.tapping = t /\ t \in RecordsOrNone /\ ~(t.pressed /\ t.count = 0)
        /\ b # <<>> /\ 1 \in 1..Len(b) /\ b[1] \in Records /\ b[1] \in RecordsOrNone
        /\ b[1].key \in Positions /\ b[1].key # NoKey
        /\ t.count \in Nat /\ t.pressed \in BOOLEAN
        /\ Paired(b, D, t, s.cache, s.kb)
    BY DecidedParts
  <1>2. TookOne(y, x, r, r, TRUE)
    <2>1. Decision(s, r) = Decide(x, <<r>>, FALSE, TRUE)
      BY DEF Handle
    <2> HIDE DEF r
    <2> QED
      BY <1>1, <2>1, TakenOne DEF r
  <1>3. y.kb = n.kb /\ y.cache = n.cache /\ y.buffer = x.buffer /\ y.done /\ y.tapping = u
    BY <1>2 DEF TookOne
  <1>4. u \in RecordsOrNone /\ ~(u.pressed /\ u.count = 0) /\ ~(u.pressed /\ u.key = r.key)
    BY <1>1, StateParts
  <1>5. Paired(b, D, u, x.cache, x.kb)
    <2>1. CASE u = t
      BY <1>1, <2>1
    <2>2. CASE ~t.pressed /\ ~u.pressed
      <3>1. Paired(b, D, u, s.cache, s.kb)
        BY <1>1, <1>4, <2>2, PairedTapping
      <3> QED
        BY <3>1
    <2> QED
      BY <2>1, <2>2
  <1>6. Leaves(w, b, 1, y.done, y.rec)
    BY <1>3 DEF DecidedCall
  <1>7. Without(w, b, 1)
    BY <1>3, <1>6 DEF Leaves
  <1>8. n = ProcessRecord(x, r) /\ r = b[1]
    OBVIOUS
  <1> HIDE DEF n, y, u, r
  <1>9. \E D2 : Paired(w, D2, u, n.cache, n.kb) /\ D2[Len(w)] = D[Len(b)]
    BY <1>1, <1>4, <1>5, <1>7, <1>8, PairedHandled
  <1>10. StillPaired(w, b, D, y)
    BY <1>3, <1>9 DEF StillPaired
  <1> QED
    BY <1>10 DEF y, r

\* Nothing is processed: the tapping key is forgotten, or is the record.
LEMMA DecidedWait ==
    ASSUME NEW s \in States, NEW t, NEW b \in Seq(Records), NEW D, NEW w \in Seq(Records),
           DecidedCall(s, t, b, D, w), ~t.pressed,
           Decision(s, b[1]) = Wait([s EXCEPT !.tapping = NoEvent])
    PROVE  StillPaired(w, b, D, ProcessTapping(s, b[1]))
  <1> DEFINE r == b[1]
             x == [s EXCEPT !.tapping = NoEvent]
             y == ProcessTapping(s, r)
  <1>1. /\ s.tapping = t /\ t \in RecordsOrNone /\ ~(t.pressed /\ t.count = 0)
        /\ b # <<>> /\ 1 \in 1..Len(b) /\ b[1] \in Records /\ b[1] \in RecordsOrNone
        /\ b[1].key \in Positions /\ b[1].key # NoKey
        /\ t.count \in Nat /\ t.pressed \in BOOLEAN
        /\ Paired(b, D, t, s.cache, s.kb)
    BY DecidedParts
  <1>2. Decision(s, r) = Decide(x, <<>>, FALSE, FALSE)
    BY DEF Wait
  <1>3. x.kb = s.kb /\ x.cache = s.cache /\ x.tapping = NoEvent /\ x.buffer = s.buffer
    BY NoTapping DEF States
  <1>0. r = b[1]
    OBVIOUS
  <1> HIDE DEF x, r
  <1>4. TookNone(y, x, r, FALSE)
    BY <1>0, <1>1, <1>2, TakenNone
  <1>5. /\ y.kb = s.kb /\ y.cache = s.cache /\ y.tapping = NoEvent /\ ~y.done /\ y.rec = b[1]
        /\ y.buffer = s.buffer
    BY <1>0, <1>3, <1>4 DEF TookNone
  <1>6. Leaves(w, b, 1, y.done, y.rec)
    BY <1>0, <1>5 DEF DecidedCall
  <1>7. w = b
    BY <1>5, <1>6, InsteadSame DEF Leaves
  <1>8. NoEvent \in RecordsOrNone /\ ~NoEvent.pressed
    BY NoneType DEF RecordsOrNone
  <1>9. Paired(b, D, NoEvent, s.cache, s.kb)
    BY <1>1, <1>8, PairedTapping
  <1>10. StillPaired(w, b, D, y)
    BY <1>5, <1>7, <1>9 DEF StillPaired
  <1> QED
    BY <1>10 DEF r

\* The tapping key is released.
LEMMA DecidedRelease ==
    ASSUME NEW s \in States, NEW t, NEW b \in Seq(Records), NEW D, NEW w,
           DecidedCall(s, t, b, D, w), t.pressed, t.key = b[1].key, ~b[1].pressed,
           Decision(s, b[1]) = Tapped(s, b[1])
    PROVE  StillPaired(w, b, D, ProcessTapping(s, b[1]))
  <1> DEFINE r == b[1]
             z == CopyTap(t, r)
             x == [s EXCEPT !.tapping = NoEvent]
             y == ProcessTapping(s, r)
  <1>1. /\ s.tapping = t /\ t \in RecordsOrNone /\ ~(t.pressed /\ t.count = 0)
        /\ b # <<>> /\ 1 \in 1..Len(b) /\ b[1] \in Records /\ b[1] \in RecordsOrNone
        /\ b[1].key \in Positions /\ b[1].key # NoKey
        /\ t.count \in Nat /\ t.pressed \in BOOLEAN
        /\ Paired(b, D, t, s.cache, s.kb)
    BY DecidedParts
  <1>2. z \in Records /\ z \in RecordsOrNone /\ z.key = r.key /\ z.pressed = r.pressed
        /\ z.count = t.count
    <2>1. z \in Records
      BY <1>1, SetRecord
    <2> QED
      BY <1>1, <2>1 DEF CopyTap, Records, RecordsOrNone
  <1>3. \/ Decision(s, r) = Decide(s, <<z>>, TRUE, TRUE)
        \/ Decision(s, r) = Decide(x, <<z>>, FALSE, TRUE)
    BY <1>1 DEF Tapped, IsTappingRecord, HandleTapping, Handle
  <1>4. x \in States /\ x.kb = s.kb /\ x.cache = s.cache /\ x.tapping = NoEvent
        /\ x.buffer = s.buffer
    BY NoTapping DEF States
  <1>5. r = b[1] /\ y = ProcessTapping(s, r)
    OBVIOUS
  <1>6. ~r.pressed
    OBVIOUS
  <1> HIDE DEF r, z, x, y
  <1>7. TapMode(b, t, z.key) <=> z.count > 0
    BY <1>1, <1>2, <1>5 DEF TapMode
  <1>8. ~Undecides(t, z.key)
    BY <1>1 DEF Undecides
  <1>9. z.key = b[1].key /\ ~z.pressed /\ t.key = z.key
    BY <1>2, <1>5, <1>6
  <1>10. ASSUME NEW v \in States, v.kb = s.kb, v.cache = s.cache,
                NEW n, n = ProcessRecord(v, z), NEW u \in RecordsOrNone, ~u.pressed,
                Without(w, b, 1)
         PROVE  \E D2 : Paired(w, D2, u, n.cache, n.kb) /\ D2[Len(w)] = D[Len(b)]
    <2>1. Paired(b, D, t, v.cache, v.kb)
      BY <1>1, <1>10
    <2>2. AfterRelease(u, t, z.key)
      BY <1>9, <1>10 DEF AfterRelease
    <2>3. \A i \in 1..1 - 1 : b[i].key # b[1].key
      OBVIOUS
    <2>4. 1 \in 1..Len(b) /\ ~b[1].pressed
      BY <1>1
    <2> QED
      BY <1>1, <1>2, <1>7, <1>8, <1>9, <1>10, <2>1, <2>2, <2>3, <2>4, PairedRelease
  <1>11. CASE Decision(s, r) = Decide(s, <<z>>, TRUE, TRUE)
    <2> DEFINE n == ProcessRecord(s, z)
    <2>1. TookTapping(y, s, z, r, TRUE)
      BY <1>1, <1>2, <1>5, <1>11, TakenTapping
    <2>2. /\ y.kb = n.kb /\ y.cache = n.cache /\ y.buffer = s.buffer /\ y.done
          /\ y.tapping = n.rec
      BY <2>1 DEF TookTapping
    <2>3. n.rec = z
      <3> DEFINE G == Acting(b, D, t, s.cache)
      <3>1. HoldsOnly(s.kb, G, Lockable)
        BY <1>1 DEF Paired
      <3>2. G \subseteq G \cup {Resolved(keymaps[s.cache[z.key]][z.key], z.count)}
        OBVIOUS
      <3> HIDE DEF G
      <3>3. HoldsOnly(s.kb, G \cup {Resolved(keymaps[s.cache[z.key]][z.key], z.count)}, Lockable)
        BY <3>1, <3>2, HoldsMore
      <3>4. /\ HoldsOnly(ProcessRecord(s, z).kb, G, Lockable)
            /\ ProcessRecord(s, z).cache = s.cache /\ ProcessRecord(s, z).rec = z
        BY <1>2, <1>9, <3>3, ProcessRecordRelease
      <3> QED
        BY <3>4
    <2>4. Without(w, b, 1)
      BY <1>5, <2>2 DEF DecidedCall, Leaves
    <2>5. n = ProcessRecord(s, z)
      OBVIOUS
    <2> HIDE DEF n
    <2>6. \E D2 : Paired(w, D2, n.rec, n.cache, n.kb) /\ D2[Len(w)] = D[Len(b)]
      BY <1>2, <1>9, <1>10, <2>3, <2>4, <2>5
    <2>7. StillPaired(w, b, D, y)
      BY <2>2, <2>6 DEF StillPaired
    <2> QED
      BY <1>5, <2>7
  <1>12. CASE Decision(s, r) = Decide(x, <<z>>, FALSE, TRUE)
    <2> DEFINE n == ProcessRecord(x, z)
    <2>1. TookOne(y, x, z, r, TRUE)
      BY <1>1, <1>2, <1>5, <1>12, TakenOne
    <2>2. /\ y.kb = n.kb /\ y.cache = n.cache /\ y.buffer = s.buffer /\ y.done
          /\ y.tapping = NoEvent
      BY <1>4, <2>1 DEF TookOne
    <2>3. NoEvent \in RecordsOrNone /\ ~NoEvent.pressed
      BY NoneType DEF RecordsOrNone
    <2>4. Without(w, b, 1)
      BY <1>5, <2>2 DEF DecidedCall, Leaves
    <2>5. n = ProcessRecord(x, z)
      OBVIOUS
    <2> HIDE DEF n
    <2>6. \E D2 : Paired(w, D2, NoEvent, n.cache, n.kb) /\ D2[Len(w)] = D[Len(b)]
      BY <1>4, <1>10, <2>3, <2>4, <2>5
    <2>7. StillPaired(w, b, D, y)
      BY <2>2, <2>6 DEF StillPaired
    <2> QED
      BY <1>5, <2>7
  <1> QED
    BY <1>3, <1>11, <1>12

\* The key is pressed again within the tapping term, and its tap goes on.
LEMMA DecidedNext ==
    ASSUME NEW s \in States, NEW t, NEW b \in Seq(Records), NEW D, NEW w,
           DecidedCall(s, t, b, D, w), ~t.pressed, t.count > 0, b[1].pressed,
           Decision(s, b[1]) =
               HandleTapping(s, <<[b[1] EXCEPT !.count = Min({t.count + 1, MaxCount})]>>)
    PROVE  StillPaired(w, b, D, ProcessTapping(s, b[1]))
  <1> DEFINE r == b[1]
             more == Min({t.count + 1, MaxCount})
             z == [r EXCEPT !.count = more]
             n == ProcessRecord(s, z)
             y == ProcessTapping(s, r)
  <1>1. /\ s.tapping = t /\ t \in RecordsOrNone /\ ~(t.pressed /\ t.count = 0)
        /\ b # <<>> /\ 1 \in 1..Len(b) /\ b[1] \in Records /\ b[1] \in RecordsOrNone
        /\ b[1].key \in Positions /\ b[1].key # NoKey
        /\ t.count \in Nat /\ t.pressed \in BOOLEAN
        /\ Paired(b, D, t, s.cache, s.kb)
    BY DecidedParts
  <1>2. more \in 0..MaxCount /\ more > 1
    <2>1. t.count \in 0..MaxCount
      BY <1>1, RecordFields
    <2> DEFINE c == t.count
    <2>2. c \in 0..MaxCount /\ c \in Nat /\ c > 0 /\ MaxCount \in Nat /\ MaxCount > 1
      BY <1>1, <2>1, TappingAssumption
    <2> HIDE DEF c
    <2>3. Min({c + 1, MaxCount}) \in 0..MaxCount
      BY <2>2, NextCount
    <2>4. \E i \in {c + 1, MaxCount} : \A j \in {c + 1, MaxCount} : i <= j
      BY <2>2
    <2>5. Min({c + 1, MaxCount}) \in {c + 1, MaxCount}
      BY <2>4 DEF Min
    <2>6. Min({c + 1, MaxCount}) > 1
      BY <2>2, <2>5
    <2> QED
      BY <2>3, <2>6 DEF c
  <1>3. Decision(s, r) = Decide(s, <<z>>, TRUE, TRUE)
    BY DEF HandleTapping
  <1>4. r = b[1] /\ r.pressed /\ y = ProcessTapping(s, r) /\ z = [r EXCEPT !.count = more]
    OBVIOUS
  <1> HIDE DEF r, more, z, y
  <1>5. z \in Records /\ z.key = r.key /\ z.pressed = r.pressed /\ z.count = more
        /\ z.interrupted = r.interrupted
    <2>0. r \in Records
      BY <1>1, <1>4
    <2>1. z \in Records
      BY <1>2, <1>4, <2>0, SetRecord
    <2>2. DOMAIN r = {"key", "pressed", "age", "count", "interrupted"}
      BY <2>0 DEF Records
    <2> QED
      BY <1>4, <2>1, <2>2
  <1>6. z \in RecordsOrNone
    BY <1>5 DEF RecordsOrNone
  <1>7. TookTapping(y, s, z, r, TRUE)
    BY <1>1, <1>3, <1>4, <1>6, TakenTapping
  <1>8. n = ProcessRecord(s, z)
    OBVIOUS
  <1>9. /\ y.kb = n.kb /\ y.cache = n.cache /\ y.buffer = s.buffer /\ y.done
        /\ y.tapping = n.rec
    BY <1>7 DEF TookTapping
  <1> HIDE DEF n
  <1>10. Without(w, b, 1)
    BY <1>4, <1>9 DEF DecidedCall, Leaves
  <1>11. ~z.interrupted
    <2>1. b[1].pressed => ~b[1].interrupted
      BY <1>1 DEF Paired, Plain
    <2> QED
      BY <1>4, <1>5, <2>1
  <1>12. n.rec \in RecordsOrNone
    <2>1. n \in States
      BY <1>6, <1>8, ProcessRecordFacts
    <2> QED
      BY <2>1 DEF States
  <1>13. NextTapping(n.rec, t, z, n.rec)
    BY <1>2, <1>5 DEF NextTapping
  <1>14. b[1].pressed /\ z.key = b[1].key /\ z.pressed
    BY <1>4, <1>5
  <1>15. \E D2 : Paired(w, D2, n.rec, n.cache, n.kb) /\ D2[Len(w)] = D[Len(b)]
    BY <1>1, <1>5, <1>8, <1>10, <1>11, <1>12, <1>13, <1>14, PairedNext
  <1>16. StillPaired(w, b, D, y)
    BY <1>9, <1>15 DEF StillPaired
  <1> QED
    BY <1>4, <1>16

\* The press becomes the tapping key, and its release does not wait.
LEMMA PairedStartNone ==
    ASSUME NEW k \in States, NEW t \in RecordsOrNone, ~t.pressed,
           NEW b \in Seq(Records), NEW D, Paired(b, D, t, k.cache, k.kb), b # <<>>, b[1].pressed,
           NEW w, Without(w, b, 1)
    PROVE  \E D2 : Paired(w, D2, b[1], k.cache, k.kb) /\ D2[Len(w)] = D[Len(b)]
  <1>1. /\ \E D2 : Paired(w, D2, b[1], k.cache, k.kb) /\ D2[Len(w)] = D[Len(b)]
        /\ b[1].count = 0 /\ ~b[1].interrupted
    BY PairedStart
  <1> QED
    BY <1>1

\* x is r with the count 1.
Once1(x, r) ==
    /\ x \in Records /\ x.key = r.key /\ x.pressed = r.pressed /\ x.count = 1
    /\ x.interrupted = r.interrupted

LEMMA Once1Is ==
    ASSUME NEW r \in Records
    PROVE  Once1([r EXCEPT !.count = 1], r)
  <1>1. [r EXCEPT !.count = 1] \in Records
    BY SetRecord
  <1>2. DOMAIN r = {"key", "pressed", "age", "count", "interrupted"}
    BY DEF Records
  <1> QED
    BY <1>1, <1>2 DEF Once1

\* The undecided key r, that was just pressed, is tapped: its release waits at m.
LEMMA PairedStartTap ==
    ASSUME NEW k \in States, NEW r \in Records, r.pressed, r.count = 0, ~r.interrupted,
           NEW b \in Seq(Records), NEW D, Paired(b, D, r, k.cache, k.kb),
           NEW z, Once1(z, r),
           NEW m \in 1..Len(b), b[m].key = r.key, ~b[m].pressed,
           NEW x, Once1(x, b[m]),
           NEW w \in Seq(Records), Instead(w, b, m, x), ~MispairedIn(w)
    PROVE  Paired(w, D, ProcessRecord(k, z).rec, ProcessRecord(k, z).cache, ProcessRecord(k, z).kb)
  <1> DEFINE n == ProcessRecord(k, z)
  <1>1. z \in Records /\ z.key = r.key /\ z.pressed /\ z.count = 1
        /\ z.interrupted = r.interrupted /\ ~z.interrupted
    BY DEF Once1
  <1>2. x.key = r.key /\ ~x.pressed /\ x.pressed = b[m].pressed /\ x.count = 1 /\ x.count > 0
    BY DEF Once1
  <1>3. n = ProcessRecord(k, z)
    OBVIOUS
  <1> HIDE DEF n
  <1>4. Undecides(r, r.key)
    BY DEF Undecides
  <1>5. \A i \in 1..m - 1 : b[i].key # r.key
    BY <1>2, <1>4, FirstMarked
  <1>6. Faithful(k, b, r, n.out)
    BY DEF Faithful, Ghost
  <1>7. n.rec.count = 1
    <2>1. /\ n.rec \in Records /\ n.rec.key = z.key /\ n.rec.interrupted = z.interrupted
          /\ \/ n.rec.count = z.count
             \/ /\ n.rec.count = 0 /\ z.interrupted
                /\ keymaps[n.cache[z.key]][z.key].kind = "mt"
          /\ ~z.interrupted => n.rec.count = z.count
          /\ n.rec.count \in Nat /\ n.rec.pressed \in BOOLEAN
      BY <1>1, <1>3, PressRecord, SMTT(60)
    <2> QED
      BY <1>1, <2>1
  <1>8. x.count = n.rec.count /\ (n.rec.count = 0 => x.interrupted)
        /\ (n.rec.count > 0 => \A i \in 1..m - 1 : b[i].key # r.key)
    BY <1>2, <1>5, <1>7
  <1>9. Paired(w, D, n.rec, n.cache, n.kb)
    BY <1>1, <1>2, <1>3, <1>6, <1>8, PairedTap
  <1> QED
    BY <1>9 DEF n

\* The buffer without its first record, and with another at j.
LEMMA TailWith ==
    ASSUME NEW b \in Seq(Records), b # <<>>, NEW j \in 1..Len(b), j # 1, NEW x \in Records,
           NEW w, w = Tail([b EXCEPT ![j] = x])
    PROVE  /\ w \in Seq(Records) /\ Instead(w, Tail(b), j - 1, x)
           /\ Tail(b) \in Seq(Records) /\ Without(Tail(b), b, 1)
           /\ j - 1 \in 1..Len(Tail(b)) /\ Tail(b)[j - 1] = b[j]
  <1> DEFINE b2 == Tail(b)
             q == [b EXCEPT ![j] = x]
             N == Len(b)
  <1>1. N \in Nat \ {0} /\ j \in 1..N
    BY EmptySeq
  <1>2. /\ q \in Seq(Records) /\ Len(q) = N
        /\ \A i \in 1..N : q[i] = IF i = j THEN x ELSE b[i]
    <2>1. q \in Seq(Records) /\ Len(q) = N
      BY ExceptSeq
    <2>2. DOMAIN b = 1..N
      BY LenProperties
    <2> QED
      BY <2>1, <2>2
  <1>3. b2 \in Seq(Records) /\ Len(b2) = N - 1 /\ \A i \in 1..Len(b2) : b2[i] = b[i + 1]
    BY HeadTailProperties
  <1>0. w = Tail(q)
    OBVIOUS
  <1> HIDE DEF b2, q
  <1>4. q # <<>>
    BY <1>1, <1>2, EmptySeq
  <1>5. w \in Seq(Records) /\ Len(w) = Len(q) - 1 /\ \A i \in 1..Len(w) : w[i] = q[i + 1]
    BY <1>0, <1>2, <1>4, HeadTailProperties
  <1> HIDE DEF N
  <1>6. \A i \in 1..N - 1 : i + 1 \in 1..N /\ (i = j - 1 <=> i + 1 = j) /\ ~(i < 1)
    BY <1>1
  <1>7. Len(w) = N - 1 /\ \A i \in 1..N - 1 : w[i] = IF i = j - 1 THEN x ELSE b2[i]
    <2>1. Len(w) = N - 1
      BY <1>2, <1>5
    <2>2. \A i \in 1..N - 1 : w[i] = q[i + 1] /\ b2[i] = b[i + 1]
      BY <1>3, <1>5, <2>1
    <2>3. \A i \in 1..N - 1 : q[i + 1] = IF i = j - 1 THEN x ELSE b[i + 1]
      BY <1>2, <1>6
    <2> QED
      BY <2>1, <2>2, <2>3
  <1>8. Instead(w, b2, j - 1, x)
    BY <1>3, <1>7 DEF Instead
  <1>9. Without(b2, b, 1)
    BY <1>3, <1>6 DEF Without, N
  <1>10. j - 1 \in 1..N - 1 /\ (j - 1) + 1 = j
    BY <1>1
  <1>11. j - 1 \in 1..Len(b2) /\ b2[j - 1] = b[j]
    BY <1>3, <1>10
  <1> QED
    BY <1>3, <1>5, <1>8, <1>9, <1>11 DEF b2

\* Processing z, a press, leaves the keys paired with the records w.
PairsStarted(w, b, D, k, z) ==
    \E D2 : /\ Paired(w, D2, ProcessRecord(k, z).rec, ProcessRecord(k, z).cache,
                      ProcessRecord(k, z).kb)
            /\ D2[Len(w)] = D[Len(b)]
TailOf(w, b, j, x) == w = Tail([b EXCEPT ![j] = x])

\* The press becomes the tapping key, and its release waits at j: it is a tap.
LEMMA PairedStartFound ==
    ASSUME NEW k \in States, NEW t \in RecordsOrNone, ~t.pressed,
           NEW b \in Seq(Records), NEW D, Paired(b, D, t, k.cache, k.kb), b # <<>>, b[1].pressed,
           NEW z, Once1(z, b[1]),
           NEW j \in 1..Len(b), b[j].key = b[1].key, ~b[j].pressed,
           NEW x, Once1(x, b[j]),
           NEW w, TailOf(w, b, j, x), ~MispairedIn(w)
    PROVE  PairsStarted(w, b, D, k, z)
  <1> DEFINE r == b[1]
             b2 == Tail(b)
             m == j - 1
  <1>1. 1 \in 1..Len(b) /\ j # 1
    <2>1. Len(b) \in Nat \ {0}
      BY EmptySeq
    <2> QED
      BY <2>1
  <1>2. r \in Records /\ x \in Records
    BY <1>1, ElementOfSeq DEF Once1
  <1>0. w = Tail([b EXCEPT ![j] = x])
    BY DEF TailOf
  <1>3. /\ w \in Seq(Records) /\ Instead(w, Tail(b), j - 1, x)
        /\ Tail(b) \in Seq(Records) /\ Without(Tail(b), b, 1)
        /\ j - 1 \in 1..Len(Tail(b)) /\ Tail(b)[j - 1] = b[j]
    BY <1>0, <1>1, <1>2, TailWith
  <1>4. /\ w \in Seq(Records) /\ Instead(w, b2, m, x)
        /\ b2 \in Seq(Records) /\ Without(b2, b, 1)
        /\ m \in 1..Len(b2) /\ b2[m] = b[j]
    BY <1>3
  <1> HIDE DEF b2, m
  <1>5. /\ \E D2 : Paired(b2, D2, b[1], k.cache, k.kb) /\ D2[Len(b2)] = D[Len(b)]
        /\ b[1].count = 0 /\ ~b[1].interrupted
    BY <1>4, PairedStart
  <1>6. PICK D2 : Paired(b2, D2, b[1], k.cache, k.kb) /\ D2[Len(b2)] = D[Len(b)]
    BY <1>5
  <1>7. r.pressed /\ r.count = 0 /\ ~r.interrupted /\ b2[m].key = r.key /\ ~b2[m].pressed
        /\ Once1(x, b2[m]) /\ Once1(z, r) /\ Paired(b2, D2, r, k.cache, k.kb)
    BY <1>4, <1>5, <1>6
  <1> HIDE DEF r
  <1>8. Paired(w, D2, ProcessRecord(k, z).rec, ProcessRecord(k, z).cache, ProcessRecord(k, z).kb)
    BY <1>2, <1>4, <1>7, PairedStartTap
  <1>9. Len(w) = Len(b2)
    BY <1>4 DEF Instead
  <1> QED
    BY <1>6, <1>8, <1>9 DEF PairsStarted

\* However the state was changed before, processing todo leaves no key tapped.
Readies(s, todo, b, D) ==
    \A x \in States : x.kb = s.kb /\ x.cache = s.cache =>
        /\ ProcessAll(x, todo) \in States
        /\ \E t \in RecordsOrNone :
              ~t.pressed /\ Paired(b, D, t, ProcessAll(x, todo).cache, ProcessAll(x, todo).kb)

LEMMA ProcessAllAppend ==
    ASSUME NEW x, NEW todo \in Seq(RecordsOrNone), Len(todo) \in {0, 1}, NEW z \in RecordsOrNone
    PROVE  ProcessAll(x, Append(todo, z)) = ProcessRecord(ProcessAll(x, todo), z)
  <1> DEFINE more == Append(todo, z)
  <1>1. /\ more \in Seq(RecordsOrNone) /\ Len(more) = Len(todo) + 1
        /\ \A i \in 1..Len(todo) : more[i] = todo[i]
        /\ more[Len(todo) + 1] = z
    BY AppendProperties
  <1> HIDE DEF more
  <1>2. CASE Len(todo) = 0
    <2>1. Len(more) = 1 /\ Len(more) \in {0, 1, 2} /\ more[1] = z
      BY <1>1, <1>2
    <2>2. ProcessAll(x, more) = ProcessRecord(x, more[1])
      BY <1>1, <2>1, ProcessAllIs
    <2>3. ProcessAll(x, todo) = x
      BY <1>2, ProcessAllIs
    <2> QED
      BY <2>1, <2>2, <2>3 DEF more
  <1>3. CASE Len(todo) = 1
    <2>1. Len(more) = 2 /\ Len(more) \in {0, 1, 2} /\ more[1] = todo[1] /\ more[2] = z
      BY <1>1, <1>3
    <2>2. ProcessAll(x, more) = ProcessRecord(ProcessRecord(x, more[1]), more[2])
      BY <1>1, <2>1, ProcessAllIs
    <2>3. ProcessAll(x, todo) = ProcessRecord(x, todo[1])
      BY <1>3, ProcessAllIs
    <2> QED
      BY <2>1, <2>2, <2>3 DEF more
  <1> QED
    BY <1>2, <1>3

\* waiting_buffer_scan_tap finds no release, or that at j.
ScanFinds(s, todo, j) ==
    /\ j \in DOMAIN s.buffer /\ s.buffer[j].key = s.tapping.key /\ ~s.buffer[j].pressed
    /\ ScanTap(s, todo) = HandleTapping([s EXCEPT !.buffer[j].count = 1],
                                        Append(todo, [s.tapping EXCEPT !.count = 1]))

LEMMA ScanTapIs ==
    ASSUME NEW s \in States, NEW todo
    PROVE  \/ ScanTap(s, todo) = Handle(s, todo)
           \/ \E j : ScanFinds(s, todo, j)
  <1> DEFINE releases == {i \in DOMAIN s.buffer : /\ IsTappingRecord(s, s.buffer[i])
                                                  /\ ~s.buffer[i].pressed
                                                  /\ Within(s, s.buffer[i])}
             j == Min(releases)
  <1>1. CASE s.tapping.count > 0 \/ ~s.tapping.pressed \/ releases = {}
    BY <1>1 DEF ScanTap
  <1>2. CASE ~(s.tapping.count > 0 \/ ~s.tapping.pressed \/ releases = {})
    <2>1. ScanTap(s, todo) = HandleTapping([s EXCEPT !.buffer[j].count = 1],
                                           Append(todo, [s.tapping EXCEPT !.count = 1]))
      BY <1>2 DEF ScanTap
    <2>2. releases \subseteq Nat /\ releases # {}
      BY <1>2, StateParts
    <2> HIDE DEF releases
    <2>3. j \in releases
      BY <2>2, Smallest DEF Min
    <2> HIDE DEF j
    <2>4. j \in DOMAIN s.buffer /\ s.buffer[j].key = s.tapping.key /\ ~s.buffer[j].pressed
      BY <2>3 DEF releases, IsTappingRecord
    <2>5. ScanFinds(s, todo, j)
      BY <2>1, <2>4 DEF ScanFinds
    <2> QED
      BY <2>5
  <1> QED
    BY <1>1, <1>2

\* The first record becomes the tapping key, once todo is processed.
LEMMA DecidedStart ==
    ASSUME NEW s \in States, NEW t, NEW b \in Seq(Records), NEW D, NEW w,
           DecidedCall(s, t, b, D, w), b[1].pressed,
           NEW todo \in Seq(RecordsOrNone), Len(todo) \in {0, 1}, Readies(s, todo, b, D),
           Decision(s, b[1]) = StartTapping(s, todo, b[1])
    PROVE  StillPaired(w, b, D, ProcessTapping(s, b[1]))
  <1> DEFINE r == b[1]
             y == ProcessTapping(s, r)
             d == Decision(s, r)
             x == [s EXCEPT !.tapping = r]
  <1>1. /\ s.tapping = t /\ t \in RecordsOrNone /\ ~(t.pressed /\ t.count = 0)
        /\ b # <<>> /\ 1 \in 1..Len(b) /\ b[1] \in Records /\ b[1] \in RecordsOrNone
        /\ b[1].key \in Positions /\ b[1].key # NoKey
        /\ t.count \in Nat /\ t.pressed \in BOOLEAN
        /\ Paired(b, D, t, s.cache, s.kb)
    BY DecidedParts
  <1>2. x \in States /\ x.tapping = r /\ x.buffer = s.buffer
    BY <1>1, SetTapping
  <1>3. x.kb = s.kb /\ x.cache = s.cache
    BY DEF States
  <1>4. d = ScanTap(x, todo)
    BY DEF StartTapping
  <1>5. Takes(y, d, r)
    BY <1>1, TakenIs
  <1>6. DecisionOK(d, s, r)
    BY <1>1, DecisionFacts
  <1>7. /\ y.buffer = s.buffer => Leaves(w, b, 1, y.done, y.rec)
        /\ y.done /\ s.buffer = b => w = Tail(y.buffer)
        /\ ~MispairedIn(w) /\ (s.buffer = b \/ s.buffer = <<>>)
    BY DEF DecidedCall
  <1>0. r = b[1]
    OBVIOUS
  <1> HIDE DEF x, d, y, r
  <1>8. CASE d = Handle(x, todo)
    <2> DEFINE k == ProcessAll(x, todo)
    <2>1. d.state = x /\ d.todo = todo /\ d.follows = FALSE /\ d.done = TRUE
      BY <1>8 DEF Handle, Decide
    <2>2. y.kb = k.kb /\ y.cache = k.cache /\ y.buffer = s.buffer /\ y.done /\ y.tapping = r
      BY <1>2, <1>5, <2>1 DEF Takes
    <2>3. k \in States /\ \E v \in RecordsOrNone : ~v.pressed /\ Paired(b, D, v, k.cache, k.kb)
      BY <1>2, <1>3 DEF Readies
    <2> HIDE DEF k
    <2>4. PICK v \in RecordsOrNone : ~v.pressed /\ Paired(b, D, v, k.cache, k.kb)
      BY <2>3
    <2>5. Without(w, b, 1)
      BY <1>7, <2>2 DEF Leaves
    <2>6. \E D2 : Paired(w, D2, b[1], k.cache, k.kb) /\ D2[Len(w)] = D[Len(b)]
      BY <1>1, <2>3, <2>4, <2>5, PairedStartNone
    <2>7. StillPaired(w, b, D, y)
      BY <1>0, <2>2, <2>6 DEF StillPaired
    <2> QED
      BY <1>0, <2>7 DEF y
  <1>9. ASSUME NEW j, ScanFinds(x, todo, j)
        PROVE  StillPaired(w, b, D, ProcessTapping(s, b[1]))
    <2> DEFINE z == [r EXCEPT !.count = 1]
               v == [b[j] EXCEPT !.count = 1]
               x1 == [x EXCEPT !.buffer[j].count = 1]
               k == ProcessAll(x1, todo)
               n == ProcessRecord(k, z)
    <2>1. /\ j \in DOMAIN s.buffer /\ s.buffer[j].key = r.key /\ ~s.buffer[j].pressed
          /\ d = HandleTapping(x1, Append(todo, z))
      BY <1>2, <1>4, <1>9 DEF ScanFinds
    <2>2. s.buffer = b /\ j \in 1..Len(b)
      BY <1>7, <2>1
    <2>3. z \in RecordsOrNone /\ Once1(z, b[1])
      BY <1>0, <1>1, Once1Is DEF Once1, RecordsOrNone
    <2>4. Once1(v, b[j])
      BY <2>2, ElementOfSeq, Once1Is
    <2>5. x1.kb = s.kb /\ x1.cache = s.cache /\ x1.buffer = [b EXCEPT ![j] = v]
      BY <1>2, <1>3, <2>2 DEF States
    <2> HIDE DEF z, v, x1
    <2>6. d.state = x1 /\ d.todo = Append(todo, z) /\ d.follows = TRUE /\ d.done = TRUE
      BY <2>1 DEF HandleTapping, Decide
    <2>7. x1 \in States
      BY <1>6, <2>6 DEF DecisionOK
    <2>8. ProcessAll(d.state, d.todo) = n
      BY <2>3, <2>6, ProcessAllAppend
    <2> HIDE DEF n
    <2>9. y.kb = n.kb /\ y.cache = n.cache /\ y.tapping = n.rec /\ y.done
          /\ y.buffer = [b EXCEPT ![j] = v]
      BY <1>5, <2>5, <2>6, <2>8 DEF Takes
    <2>10. w = Tail([b EXCEPT ![j] = v]) /\ ~MispairedIn(w)
      BY <1>7, <2>2, <2>9
    <2>11. k \in States /\ \E u \in RecordsOrNone : ~u.pressed /\ Paired(b, D, u, k.cache, k.kb)
      BY <2>5, <2>7 DEF Readies
    <2> HIDE DEF k
    <2>12. PICK u \in RecordsOrNone : ~u.pressed /\ Paired(b, D, u, k.cache, k.kb)
      BY <2>11
    <2>13. b[j].key = b[1].key /\ ~b[j].pressed
      BY <1>0, <2>1, <2>2
    <2>14. TailOf(w, b, j, v)
      BY <2>10 DEF TailOf
    <2>16. PairsStarted(w, b, D, k, z)
      BY <1>0, <1>1, <2>2, <2>3, <2>4, <2>10, <2>11, <2>12, <2>13, <2>14, PairedStartFound
    <2>15. StillPaired(w, b, D, y)
      BY <2>9, <2>16 DEF StillPaired, PairsStarted, n
    <2> QED
      BY <1>0, <2>15 DEF y
  <1>10. ScanTap(x, todo) = Handle(x, todo) \/ \E j : ScanFinds(x, todo, j)
    BY <1>2, ScanTapIs
  <1> QED
    BY <1>4, <1>8, <1>9, <1>10

\* The key is pressed again, and may be held now.
LEMMA DecidedRestart ==
    ASSUME NEW s \in States, NEW t, NEW b \in Seq(Records), NEW D, NEW w,
           DecidedCall(s, t, b, D, w), ~t.pressed, b[1].pressed,
           Decision(s, b[1]) = Handle([s EXCEPT !.tapping = b[1]], <<>>)
    PROVE  StillPaired(w, b, D, ProcessTapping(s, b[1]))
  <1> DEFINE r == b[1]
             x == [s EXCEPT !.tapping = r]
             y == ProcessTapping(s, r)
  <1>1. /\ s.tapping = t /\ t \in RecordsOrNone /\ ~(t.pressed /\ t.count = 0)
        /\ b # <<>> /\ 1 \in 1..Len(b) /\ b[1] \in Records /\ b[1] \in RecordsOrNone
        /\ b[1].key \in Positions /\ b[1].key # NoKey
        /\ t.count \in Nat /\ t.pressed \in BOOLEAN
        /\ Paired(b, D, t, s.cache, s.kb)
    BY DecidedParts
  <1>2. Decision(s, r) = Decide(x, <<>>, FALSE, TRUE)
    BY DEF Handle
  <1>3. x.kb = s.kb /\ x.cache = s.cache /\ x.tapping = r /\ x.buffer = s.buffer
    BY <1>1, SetTapping DEF States
  <1>0. r = b[1]
    OBVIOUS
  <1> HIDE DEF x, r
  <1>4. TookNone(y, x, r, TRUE)
    BY <1>0, <1>1, <1>2, TakenNone
  <1>5. /\ y.kb = s.kb /\ y.cache = s.cache /\ y.tapping = b[1] /\ y.done
        /\ y.buffer = s.buffer
    BY <1>0, <1>3, <1>4 DEF TookNone
  <1>6. Without(w, b, 1)
    BY <1>0, <1>5 DEF DecidedCall, Leaves
  <1>7. \E D2 : Paired(w, D2, b[1], s.cache, s.kb) /\ D2[Len(w)] = D[Len(b)]
    BY <1>1, <1>6, PairedStartNone
  <1>8. StillPaired(w, b, D, y)
    BY <1>5, <1>7 DEF StillPaired
  <1> QED
    BY <1>0, <1>8

\* With nothing to be processed before, the tapping key is forgotten.
LEMMA ReadyAtOnce ==
    ASSUME NEW s \in States, NEW t \in RecordsOrNone, NEW b \in Seq(Records), NEW D,
           Paired(b, D, t, s.cache, s.kb), t.pressed => t.count = 1
    PROVE  Readies(s, <<>>, b, D)
  <1>1. NoEvent \in RecordsOrNone /\ ~NoEvent.pressed
    BY NoneType DEF RecordsOrNone
  <1>2. Paired(b, D, NoEvent, s.cache, s.kb)
    BY <1>1, PairedTapping
  <1> SUFFICES ASSUME NEW x \in States, x.kb = s.kb, x.cache = s.cache
               PROVE  /\ ProcessAll(x, <<>>) \in States
                      /\ \E u \in RecordsOrNone :
                            /\ ~u.pressed
                            /\ Paired(b, D, u, ProcessAll(x, <<>>).cache, ProcessAll(x, <<>>).kb)
    BY DEF Readies
  <1>3. ProcessAll(x, <<>>) = x
    BY TodoType, ProcessAllIs
  <1> QED
    BY <1>1, <1>2, <1>3

\* The tapping key, tapped more than once, is released early.
LEMMA ReadyEarly ==
    ASSUME NEW s \in States, NEW t \in Records, NEW b \in Seq(Records), NEW D,
           Paired(b, D, t, s.cache, s.kb), t.pressed, t.count > 0
    PROVE  Readies(s, <<[t EXCEPT !.pressed = FALSE, !.age = 0]>>, b, D)
  <1> DEFINE z == [t EXCEPT !.pressed = FALSE, !.age = 0]
             todo == <<z>>
  <1>1. NoEvent \in RecordsOrNone /\ ~NoEvent.pressed
    BY NoneType DEF RecordsOrNone
  <1>2. z \in Records /\ z.key = t.key /\ ~z.pressed /\ z.count = t.count
    <2>1. z \in Records
      BY SetRecord
    <2>2. DOMAIN t = {"key", "pressed", "age", "count", "interrupted"}
      BY DEF Records
    <2> QED
      BY <2>1, <2>2
  <1>3. z \in RecordsOrNone
    BY <1>2 DEF RecordsOrNone
  <1> HIDE DEF z
  <1>4. todo \in Seq(RecordsOrNone) /\ Len(todo) \in {0, 1, 2} /\ Len(todo) = 1 /\ todo[1] = z
    BY <1>3, TodoType
  <1> HIDE DEF todo
  <1>5. ASSUME NEW x \in States, x.kb = s.kb, x.cache = s.cache
        PROVE  /\ ProcessAll(x, todo) \in States
               /\ \E u \in RecordsOrNone :
                     /\ ~u.pressed
                     /\ Paired(b, D, u, ProcessAll(x, todo).cache, ProcessAll(x, todo).kb)
    <2> DEFINE n == ProcessRecord(x, z)
    <2>1. ProcessAll(x, todo) = n
      BY <1>4, ProcessAllIs
    <2>2. n \in States
      BY <1>3, ProcessRecordFacts
    <2>3. Paired(b, D, t, x.cache, x.kb)
      BY <1>5
    <2>4. n = ProcessRecord(x, z)
      OBVIOUS
    <2> HIDE DEF n
    <2>5. Paired(b, D, NoEvent, n.cache, n.kb)
      BY <1>2, <2>3, <2>4, PairedEarly
    <2> QED
      BY <1>1, <2>1, <2>2, <2>5
  <1>6. Readies(s, todo, b, D)
    BY <1>5 DEF Readies
  <1> QED
    BY <1>6 DEF todo, z

\* No key is tapped.
LEMMA DecidedNone ==
    ASSUME NEW s \in States, NEW t, NEW b \in Seq(Records), NEW D, NEW w,
           DecidedCall(s, t, b, D, w), t.key = NoKey
    PROVE  StillPaired(w, b, D, ProcessTapping(s, b[1]))
  <1>1. /\ s.tapping = t /\ t \in RecordsOrNone /\ ~(t.pressed /\ t.count = 0)
        /\ b # <<>> /\ 1 \in 1..Len(b) /\ b[1] \in Records /\ b[1] \in RecordsOrNone
        /\ b[1].key \in Positions /\ b[1].key # NoKey
        /\ t.count \in Nat /\ t.pressed \in BOOLEAN
        /\ Paired(b, D, t, s.cache, s.kb)
    BY DecidedParts
  <1>2. ~t.pressed
    BY <1>1, RecordParts
  <1>3. Decision(s, b[1]) = NotTapping(s, b[1])
    BY <1>1 DEF Decision
  <1>4. CASE b[1].pressed /\ IsTapRecord(s, b[1])
    <2>1. Decision(s, b[1]) = StartTapping(s, <<>>, b[1])
      BY <1>3, <1>4 DEF NotTapping
    <2>2. Readies(s, <<>>, b, D)
      BY <1>1, <1>2, ReadyAtOnce
    <2>3. <<>> \in Seq(RecordsOrNone) /\ Len(<<>>) \in {0, 1}
      BY TodoType
    <2> QED
      BY <1>4, <2>1, <2>2, <2>3, DecidedStart
  <1>5. CASE ~(b[1].pressed /\ IsTapRecord(s, b[1]))
    <2>1. Decision(s, b[1]) = Handle(s, <<b[1]>>)
      BY <1>3, <1>5 DEF NotTapping
    <2> QED
      BY <1>1, <1>2, <2>1, DecidedHandle
  <1> QED
    BY <1>4, <1>5

\* A key is tapped, and still down.
LEMMA DecidedDown ==
    ASSUME NEW s \in States, NEW t, NEW b \in Seq(Records), NEW D, NEW w,
           DecidedCall(s, t, b, D, w), t.pressed
    PROVE  StillPaired(w, b, D, ProcessTapping(s, b[1]))
  <1>1. /\ s.tapping = t /\ t \in RecordsOrNone /\ ~(t.pressed /\ t.count = 0)
        /\ b # <<>> /\ 1 \in 1..Len(b) /\ b[1] \in Records /\ b[1] \in RecordsOrNone
        /\ b[1].key \in Positions /\ b[1].key # NoKey
        /\ t.count \in Nat /\ t.pressed \in BOOLEAN
        /\ Paired(b, D, t, s.cache, s.kb)
    BY DecidedParts
  <1>2. t.key # NoKey /\ t \in Records /\ t.count > 0
    BY <1>1, RecordParts
  <1>3. Decision(s, b[1]) = Tapped(s, b[1])
    BY <1>1, <1>2 DEF Decision
  <1>4. b[1].pressed => t.key # b[1].key
    <2>1. Track(b, D) /\ t.key \in D[0]
      BY <1>1 DEF Paired
    <2>2. b[1].pressed => b[1].key \notin D[1 - 1]
      BY <1>1, <2>1 DEF Track
    <2> QED
      BY <2>1, <2>2
  <1>5. CASE t.key = b[1].key
    BY <1>3, <1>4, <1>5, DecidedRelease
  <1>6. CASE t.key # b[1].key /\ b[1].pressed /\ IsTapRecord(s, b[1])
    <2> DEFINE z == [t EXCEPT !.pressed = FALSE, !.age = 0]
    <2>1. Decision(s, b[1]) = StartTapping(s, IF t.count > 1 THEN <<z>> ELSE <<>>, b[1])
      BY <1>1, <1>3, <1>6 DEF Tapped, IsTappingRecord
    <2>2. Readies(s, <<z>>, b, D)
      BY <1>1, <1>2, ReadyEarly
    <2>3. z \in RecordsOrNone
      BY <1>2, SetRecord DEF RecordsOrNone
    <2> HIDE DEF z
    <2>4. CASE t.count > 1
      <3> DEFINE todo == <<z>>
      <3>1. todo \in Seq(RecordsOrNone) /\ Len(todo) \in {0, 1}
        BY <2>3, TodoType
      <3>2. Decision(s, b[1]) = StartTapping(s, todo, b[1]) /\ Readies(s, todo, b, D)
        BY <2>1, <2>2, <2>4
      <3> HIDE DEF todo
      <3> QED
        BY <1>6, <3>1, <3>2, DecidedStart
    <2>5. CASE ~(t.count > 1)
      <3>1. t.count = 1
        BY <1>1, <1>2, <2>5
      <3>2. Readies(s, <<>>, b, D)
        BY <1>1, <3>1, ReadyAtOnce
      <3>3. <<>> \in Seq(RecordsOrNone) /\ Len(<<>>) \in {0, 1}
        BY TodoType
      <3>4. Decision(s, b[1]) = StartTapping(s, <<>>, b[1])
        BY <2>1, <2>5
      <3> QED
        BY <1>6, <3>2, <3>3, <3>4, DecidedStart
    <2> QED
      BY <2>4, <2>5
  <1>7. CASE t.key # b[1].key /\ ~(b[1].pressed /\ IsTapRecord(s, b[1]))
    <2>1. Decision(s, b[1]) = Handle(s, <<b[1]>>)
      BY <1>1, <1>3, <1>7 DEF Tapped, IsTappingRecord
    <2> QED
      BY <1>1, <1>7, <2>1, DecidedHandle
  <1> QED
    BY <1>5, <1>6, <1>7

\* A key was tapped, and let go.
LEMMA DecidedUp ==
    ASSUME NEW s \in States, NEW t, NEW b \in Seq(Records), NEW D, NEW w \in Seq(Records),
           DecidedCall(s, t, b, D, w), ~t.pressed, t.key # NoKey
    PROVE  StillPaired(w, b, D, ProcessTapping(s, b[1]))
  <1>1. /\ s.tapping = t /\ t \in RecordsOrNone /\ ~(t.pressed /\ t.count = 0)
        /\ b # <<>> /\ 1 \in 1..Len(b) /\ b[1] \in Records /\ b[1] \in RecordsOrNone
        /\ b[1].key \in Positions /\ b[1].key # NoKey
        /\ t.count \in Nat /\ t.pressed \in BOOLEAN
        /\ Paired(b, D, t, s.cache, s.kb)
    BY DecidedParts
  <1> DEFINE d == Decision(s, b[1])
             own == b[1].pressed /\ t.key = b[1].key
             x == [s EXCEPT !.tapping.interrupted = @ \/ b[1].pressed]
  <1>2. d = IF Within(s, b[1]) THEN AfterTap(s, b[1]) ELSE Wait([s EXCEPT !.tapping = NoEvent])
    BY <1>1 DEF Decision
  <1>3. IsTappingRecord(s, b[1]) <=> t.key = b[1].key
    BY <1>1 DEF IsTappingRecord
  <1>4. CASE ~Within(s, b[1])
    BY <1>2, <1>4, DecidedWait
  <1>5. CASE Within(s, b[1]) /\ own
    <2>1. \/ t.count > 0 /\ d = HandleTapping(s, <<[b[1] EXCEPT !.count =
                                                     Min({t.count + 1, MaxCount})]>>)
          \/ d = Handle([s EXCEPT !.tapping = b[1]], <<>>)
      BY <1>1, <1>2, <1>3, <1>5 DEF AfterTap
    <2> QED
      BY <1>5, <2>1, DecidedNext, DecidedRestart
  <1>6. CASE Within(s, b[1]) /\ ~own /\ b[1].pressed /\ IsTapRecord(s, b[1])
    <2>1. d = StartTapping(s, <<>>, b[1])
      BY <1>2, <1>3, <1>6 DEF AfterTap
    <2>2. Readies(s, <<>>, b, D)
      BY <1>1, ReadyAtOnce
    <2>3. <<>> \in Seq(RecordsOrNone) /\ Len(<<>>) \in {0, 1}
      BY TodoType
    <2> QED
      BY <1>6, <2>1, <2>2, <2>3, DecidedStart
  <1>7. CASE Within(s, b[1]) /\ ~own /\ ~(b[1].pressed /\ IsTapRecord(s, b[1]))
    <2>1. d = Handle(x, <<b[1]>>)
      BY <1>2, <1>3, <1>7 DEF AfterTap
    <2>2. x \in States /\ x.buffer = s.buffer
      BY <1>1, TappingOnce
    <2>3. x.kb = s.kb /\ x.cache = s.cache /\ x.tapping.pressed = s.tapping.pressed
      <3>1. s.tapping \in Records
        BY <1>1, StateParts
      <3>2. DOMAIN s.tapping = {"key", "pressed", "age", "count", "interrupted"}
        BY <3>1 DEF Records
      <3> QED
        BY <3>2 DEF States
    <2> HIDE DEF x
    <2>4. ~x.tapping.pressed
      BY <1>1, <2>3
    <2> QED
      BY <1>1, <2>1, <2>2, <2>3, <2>4, DecidedHandle
  <1> QED
    BY <1>4, <1>5, <1>6, <1>7

\* The call leaves press and release paired, while no key is undecided.
LEMMA PairedDecided ==
    ASSUME NEW s \in States, NEW t, NEW b \in Seq(Records), NEW D, NEW w \in Seq(Records),
           DecidedCall(s, t, b, D, w)
    PROVE  StillPaired(w, b, D, ProcessTapping(s, b[1]))
  <1>1. t.pressed \in BOOLEAN
    BY DecidedParts
  <1> QED
    BY <1>1, DecidedNone, DecidedDown, DecidedUp

-----------------------------------------------------------------------------
(* The steps.  They leave press and release paired, but for those that     *)
(* disturb the records.                                                    *)

KeysPaired == PairedWith(waiting_buffer, tapping_key, source_layers_cache, kb, matrix_prev)

\* s has the state of the loop, and may have forgotten the weak modifiers.
Begins(s) ==
    /\ s \in States /\ s.buffer = waiting_buffer /\ s.tapping = tapping_key
    /\ s.cache = source_layers_cache
    /\ s.kb \in {kb, [kb EXCEPT !.weak_mods = {}]}

LEMMA StateBegins ==
    ASSUME LoopTypes
    PROVE  Begins(State) /\ Begins([State EXCEPT !.kb.weak_mods = {}])
  <1> DEFINE s == [State EXCEPT !.kb.weak_mods = {}]
  <1>1. /\ State.buffer = waiting_buffer /\ State.tapping = tapping_key /\ State.kb = kb
        /\ State.cache = source_layers_cache
    BY DEF State
  <1>2. /\ s.buffer = waiting_buffer /\ s.tapping = tapping_key
        /\ s.kb = [kb EXCEPT !.weak_mods = {}] /\ s.cache = source_layers_cache
    BY DEF State
  <1>3. State \in States /\ s \in States
    BY StateType
  <1> HIDE DEF s
  <1>4. Begins(s)
    BY <1>2, <1>3 DEF Begins
  <1>5. Begins(State)
    BY <1>1, <1>3 DEF Begins
  <1> QED
    BY <1>4, <1>5 DEF s

\* What is known of the report and the layers is known of s.
LEMMA BeginsPaired ==
    ASSUME LoopTypes, NEW s, Begins(s), NEW D,
           Paired(waiting_buffer, D, tapping_key, source_layers_cache, kb)
    PROVE  Paired(waiting_buffer, D, tapping_key, s.cache, s.kb)
  <1> DEFINE G == Acting(waiting_buffer, D, tapping_key, source_layers_cache)
  <1>1. kb \in Kbs
    BY DEF LoopTypes
  <1>2. HoldsOnly(kb, G, Lockable)
    BY DEF Paired
  <1> HIDE DEF G
  <1>3. HoldsOnly([kb EXCEPT !.weak_mods = {}], G, Lockable)
    BY <1>1, <1>2, HoldsBegin
  <1>4. HoldsOnly(s.kb, G, Lockable) /\ s.cache = source_layers_cache
    BY <1>2, <1>3 DEF Begins
  <1> QED
    BY <1>4 DEF Paired, G

LEMMA BeginsAction ==
    ASSUME LoopTypes, NEW s, Begins(s), NEW p
    PROVE  ActionNow(s, p) = ActionNow(State, p)
  <1>1. kb \in ActionLemmas!Kb
    BY KbFacts DEF LoopTypes
  <1> DEFINE k == [kb EXCEPT !.weak_mods = {}]
  <1>2. k.layer_state = kb.layer_state /\ k.default_layer_state = kb.default_layer_state
    BY <1>1 DEF ActionLemmas!Kb
  <1> HIDE DEF k
  <1>3. \A layer : A!IsSource(k, layer, p) <=> A!IsSource(kb, layer, p)
    BY <1>2 DEF A!IsSource
  <1>4. s.kb = kb \/ s.kb = k
    BY DEF Begins, k
  <1>5. \A layer : A!IsSource(s.kb, layer, p) <=> A!IsSource(kb, layer, p)
    BY <1>3, <1>4
  <1>6. State.kb = kb
    BY DEF State
  <1>7. SourceLayer(s, p) = SourceLayer(State, p)
    BY <1>5, <1>6 DEF SourceLayer
  <1> QED
    BY <1>7 DEF ActionNow

\* The records of b that were interrupted wait already.
LEMMA StepFaithful ==
    ASSUME LoopTypes, NEW s, Begins(s), ~PressedAgain,
           NEW b, \A i \in 1..Len(b) : b[i].interrupted =>
                     \E j \in DOMAIN waiting_buffer :
                        waiting_buffer[j].key = b[i].key /\ waiting_buffer[j].interrupted,
           NEW o, out' = o
    PROVE  Faithful(s, b, tapping_key, o)
  <1> SUFFICES ASSUME NEW p \in Positions, PressIn(o, p), Ghost(b, tapping_key, s.cache, p)
               PROVE  ActionNow(s, p) = keymaps[s.cache[p]][p]
    BY DEF Faithful
  <1>1. p \in PressProcessed
    BY DEF PressProcessed, PressIn
  <1>2. UndecidedKey = <<p>>
    BY DEF Ghost, Undecides, UndecidedKey
  <1>3. \E j \in DOMAIN waiting_buffer : waiting_buffer[j].key = p /\ waiting_buffer[j].interrupted
    BY DEF Ghost
  <1>4. ActionNow(State, p) = keymaps[source_layers_cache[p]][p]
    BY <1>1, <1>2, <1>3 DEF PressedAgain
  <1>5. ActionNow(s, p) = ActionNow(State, p)
    BY BeginsAction
  <1> QED
    BY <1>4, <1>5 DEF Begins

\* What y leaves becomes the state, with the buffer of n.
LEMMA PairedBecomes ==
    ASSUME NEW y \in States, NEW n, n.tapping = y.tapping, n.cache = y.cache, n.kb = y.kb,
           NEW now, matrix_prev' = now,
           PairedWith(n.buffer, y.tapping, y.cache, y.kb, now), Becomes(n)
    PROVE  KeysPaired'
  <1>1. PICK D : Paired(n.buffer, D, y.tapping, y.cache, y.kb) /\ D[Len(n.buffer)] = now
    BY DEF PairedWith
  <1> DEFINE G == Acting(n.buffer, D, y.tapping, y.cache)
             k == [y.kb EXCEPT !.sent = <<>>]
  <1>2. HoldsOnly(y.kb, G, Lockable) /\ y.kb \in Kbs
    BY <1>1 DEF Paired, States
  <1>3. HoldsOnly(k, G, Lockable)
    <2> HIDE DEF G
    <2> QED
      BY <1>2, HoldsBegin
  <1>4. /\ kb' = k /\ source_layers_cache' = y.cache /\ tapping_key' = y.tapping
        /\ waiting_buffer' = n.buffer
    BY DEF Becomes
  <1> HIDE DEF k
  <1>5. Paired(n.buffer, D, y.tapping, y.cache, k)
    BY <1>1, <1>3 DEF Paired
  <1>6. PairedWith(n.buffer, y.tapping, y.cache, k, now)
    BY <1>1, <1>5 DEF PairedWith
  <1> QED
    BY <1>4, <1>6 DEF KeysPaired

\* A key event comes: its record stands behind those that wait.
Arrives(r, now) == Follows(r, matrix_prev, now)

LEMMA EventArrives ==
    ASSUME matrix_prev \subseteq Positions, NEW p \in Positions
    PROVE  /\ p \notin matrix_prev => Arrives(Event(p, TRUE), matrix_prev \cup {p})
           /\ p \in matrix_prev => Arrives(Event(p, FALSE), matrix_prev \ {p})
  <1>1. ASSUME NEW x \in BOOLEAN
        PROVE  /\ Event(p, x).key = p /\ Event(p, x).pressed = x /\ Event(p, x).count = 0
               /\ Event(p, x).interrupted = FALSE
    BY DEF Event, NoEvent
  <1>2. p # NoKey
    BY TappingAssumption
  <1>3. ASSUME NEW x \in BOOLEAN PROVE Event(p, x) \in Records
    <2>1. Event(p, x) \in RecordsOrNone
      BY EventType
    <2> QED
      BY <1>1, <1>2, <2>1, RecordParts
  <1> QED
    BY <1>1, <1>3 DEF Arrives, Follows

\* The record, left behind by process_tapping, is processed or waits.
NextOf(y) == IF y.done THEN y ELSE Enqueued(y)

LEMMA NextOfIs ==
    ASSUME LoopTypes, ~Overflow, ~draining, NEW y \in States, y.rec \in Records,
           Len(y.buffer) = Len(waiting_buffer), Becomes(NextOf(y))
    PROVE  /\ NextOf(y).tapping = y.tapping /\ NextOf(y).cache = y.cache /\ NextOf(y).kb = y.kb
           /\ NextOf(y).out = y.out
           /\ y.done => NextOf(y).buffer = y.buffer
           /\ ~y.done => NextOf(y).buffer = Append(y.buffer, y.rec)
  <1> DEFINE n == NextOf(y)
  <1>1. CASE y.done
    <2>1. n = y
      BY <1>1 DEF NextOf
    <2> QED
      BY <1>1, <2>1
  <1>2. CASE ~y.done
    <2>1. n = Enqueued(y) /\ y.rec.key # NoKey
      BY <1>2, RecordParts DEF NextOf, RecordsOrNone
    <2>2. HasRoom(y)
      <3> SUFFICES ASSUME ~HasRoom(y) PROVE FALSE
        OBVIOUS
      <3>1. n = [y EXCEPT !.kb = Cleared(@), !.buffer = <<>>, !.tapping = NoEvent]
        BY <2>1 DEF Enqueued
      <3>2. n.buffer = <<>>
        BY <3>1 DEF States
      <3>3. waiting_buffer' = <<>>
        BY <3>2 DEF Becomes
      <3>4. Len(waiting_buffer) \in Nat /\ Len(waiting_buffer) < WAITING_BUFFER_SIZE
        BY LenProperties DEF LoopTypes
      <3>5. ~(Len(waiting_buffer) < WAITING_BUFFER_SIZE - 1) /\ WAITING_BUFFER_SIZE \in Nat
        BY TappingAssumption DEF HasRoom
      <3> DEFINE m == Len(waiting_buffer)
      <3>6. m = WAITING_BUFFER_SIZE - 1
        <4>1. m \in Nat /\ m < WAITING_BUFFER_SIZE /\ ~(m < WAITING_BUFFER_SIZE - 1)
              /\ WAITING_BUFFER_SIZE \in Nat
          BY <3>4, <3>5
        <4> HIDE DEF m
        <4> QED
          BY <4>1
      <3> QED
        BY <3>3, <3>6 DEF Overflow
    <2>3. n = [y EXCEPT !.buffer = Append(@, y.rec)]
      BY <2>1, <2>2 DEF Enqueued
    <2> QED
      BY <1>2, <2>3 DEF States
  <1> QED
    BY <1>1, <1>2

\* While a key is undecided, the record is processed, or is appended.
LEMMA UndecidedBuffer ==
    ASSUME NEW s \in States, s.tapping \in Records, s.tapping.pressed, s.tapping.count = 0,
           NEW r \in RecordsOrNone
    PROVE  ProcessTapping(s, r).buffer = s.buffer
  <1>1. Takes(ProcessTapping(s, r), Decision(s, r), r)
    BY TakenIs
  <1>2. s.tapping.key # NoKey
    BY RecordParts DEF RecordsOrNone
  <1>3. Decision(s, r) = IF Within(s, r) THEN Undecided(s, r) ELSE HoldTimeout(s)
    BY <1>2 DEF Decision
  <1>4. \E x \in {s, [s EXCEPT !.tapping.interrupted = @ \/ r.pressed], [s EXCEPT !.tapping = NoEvent]} :
           Decision(s, r).state = x
    BY <1>3 DEF Undecided, HoldTimeout, Decide, Wait, Handle
  <1>5. /\ [s EXCEPT !.tapping.interrupted = @ \/ r.pressed].buffer = s.buffer
        /\ [s EXCEPT !.tapping = NoEvent].buffer = s.buffer
    BY <1>2, TappingOnce, NoTapping
  <1>6. Decision(s, r).state.buffer = s.buffer
    BY <1>4, <1>5
  <1> QED
    BY <1>1, <1>6 DEF Takes

LEMMA AppendIs ==
    ASSUME NEW b \in Seq(Records), NEW r \in Records
    PROVE  LET c == Append(b, r)
           IN  /\ c \in Seq(Records) /\ c # <<>> /\ Len(c) = Len(b) + 1
               /\ Len(c) \in 1..Len(c) /\ c[Len(c)] = r
               /\ Len(c) - 1 = Len(b)
               /\ \A i \in 1..Len(b) : i \in 1..Len(c) /\ i \in DOMAIN b /\ c[i] = b[i]
               /\ \A i \in 1..Len(c) : i = Len(c) \/ i \in 1..Len(b)
               /\ Without(b, c, Len(c))
               /\ \A x \in Records : Instead(Append(b, x), c, Len(c), x)
  <1> DEFINE c == Append(b, r)
             n == Len(b)
  <1>1. n \in Nat /\ DOMAIN b = 1..n
    BY LenProperties
  <1>2. /\ c \in Seq(Records) /\ Len(c) = n + 1
        /\ \A i \in 1..n : c[i] = b[i]
        /\ c[n + 1] = r
    BY AppendProperties
  <1>3. \A x \in Records : /\ Len(Append(b, x)) = n + 1
                           /\ \A i \in 1..n : Append(b, x)[i] = b[i]
                           /\ Append(b, x)[n + 1] = x
    BY AppendProperties
  <1> HIDE DEF c, n
  <1>4. /\ n + 1 \in 1..n + 1 /\ (n + 1) - 1 = n /\ \A i \in 1..n : i \in 1..n + 1 /\ i < n + 1
        /\ \A i \in 1..n + 1 : i = n + 1 \/ i \in 1..n
    BY <1>1
  <1>5. c # <<>>
    <2>1. n + 1 # 0 /\ Len(<<>>) = 0
      BY <1>1
    <2> QED
      BY <1>2, <2>1
  <1>6. Without(b, c, n + 1)
    BY <1>2, <1>4 DEF Without, n
  <1>7. ASSUME NEW x \in Records PROVE Instead(Append(b, x), c, n + 1, x)
    <2>1. \A i \in 1..n + 1 : Append(b, x)[i] = IF i = n + 1 THEN x ELSE c[i]
      BY <1>2, <1>3, <1>4
    <2> QED
      BY <1>2, <1>3, <2>1 DEF Instead
  <1>8. /\ c \in Seq(Records) /\ c # <<>> /\ Len(c) = n + 1
        /\ Len(c) \in 1..Len(c) /\ c[Len(c)] = r /\ Len(c) - 1 = n
        /\ \A i \in 1..n : i \in 1..Len(c) /\ i \in DOMAIN b /\ c[i] = b[i]
        /\ \A i \in 1..Len(c) : i = Len(c) \/ i \in 1..n
        /\ Without(b, c, Len(c))
        /\ \A x \in Records : Instead(Append(b, x), c, Len(c), x)
    BY <1>1, <1>2, <1>4, <1>5, <1>6, <1>7
  <1> QED
    BY <1>8 DEF c, n

\* The record of an event, and those that wait.
LEMMA ArrivesPaired ==
    ASSUME IInv, KeysPaired, NEW s, Begins(s), NEW r, NEW now, Arrives(r, now)
    PROVE  \E D : /\ Paired(Append(waiting_buffer, r), D, tapping_key, s.cache, s.kb)
                  /\ D[Len(Append(waiting_buffer, r))] = now
  <1> DEFINE b == waiting_buffer
             c == s.cache
             k == s.kb
             t == tapping_key
  <1>1. PICK D : /\ Paired(b, D, tapping_key, source_layers_cache, kb)
                 /\ D[Len(b)] = matrix_prev
    BY DEF KeysPaired, PairedWith
  <1>2. LoopTypes /\ b \in Seq(Records)
    BY DEF IInv, LoopTypes
  <1>3. Paired(b, D, t, c, k)
    BY <1>1, <1>2, BeginsPaired
  <1>4. Follows(r, D[Len(b)], now)
    BY <1>1 DEF Arrives
  <1> HIDE DEF b, c, k, t
  <1>5. PairedWith(Append(b, r), t, c, k, now)
    BY <1>2, <1>3, <1>4, PairedAppend
  <1> QED
    BY <1>5 DEF b, c, k, t, PairedWith

\* y is left by process_tapping for the record r that arrives, and becomes
\* the state.
Handled(s, r, now) ==
    LET y == ProcessTapping(s, r)
    IN  /\ Begins(s) /\ Arrives(r, now) /\ matrix_prev' = now
        /\ Becomes(NextOf(y))
        /\ ~draining /\ ~Overflow /\ ~Overtaking /\ ~PressedAgain /\ ~Mispaired

LEMMA HandledParts ==
    ASSUME IInv, IInv', NEW s, NEW r, NEW now, Handled(s, r, now)
    PROVE  LET y == ProcessTapping(s, r)
           IN  /\ LoopTypes /\ s \in States /\ r \in Records /\ r \in RecordsOrNone
               /\ waiting_buffer \in Seq(Records)
               /\ s.buffer = waiting_buffer /\ s.tapping = tapping_key
               /\ y \in States /\ Len(y.buffer) = Len(waiting_buffer) /\ y.rec \in Records
               /\ NextOf(y).tapping = y.tapping /\ NextOf(y).cache = y.cache
               /\ NextOf(y).kb = y.kb /\ NextOf(y).out = y.out /\ out' = y.out
               /\ y.done => NextOf(y).buffer = y.buffer
               /\ ~y.done => NextOf(y).buffer = Append(y.buffer, y.rec)
               /\ NextOf(y).buffer = waiting_buffer'
               /\ NextOf(y).buffer \in Seq(Records)
               /\ ~MispairedIn(NextOf(y).buffer)
  <1> DEFINE y == ProcessTapping(s, r)
             n == NextOf(y)
  <1>1. /\ Begins(s) /\ Arrives(r, now) /\ Becomes(n)
        /\ ~draining /\ ~Overflow /\ ~Mispaired
    BY DEF Handled
  <1>2. /\ LoopTypes /\ LoopTypes' /\ s \in States /\ r \in Records /\ r \in RecordsOrNone
        /\ s.buffer = waiting_buffer /\ s.tapping = tapping_key
    BY <1>1 DEF IInv, Begins, Arrives, Follows, RecordsOrNone
  <1>3. y \in States /\ Len(y.buffer) = Len(waiting_buffer) /\ y.rec \in Records
    BY <1>2, ProcessTappingFacts
  <1> HIDE DEF y
  <1>4. /\ n.tapping = y.tapping /\ n.cache = y.cache /\ n.kb = y.kb /\ n.out = y.out
        /\ y.done => n.buffer = y.buffer
        /\ ~y.done => n.buffer = Append(y.buffer, y.rec)
    BY <1>1, <1>2, <1>3, NextOfIs
  <1>5. waiting_buffer' = n.buffer /\ out' = n.out
    BY <1>1 DEF Becomes
  <1>6. waiting_buffer' \in Seq(Records) /\ waiting_buffer \in Seq(Records)
    BY <1>2 DEF LoopTypes
  <1>7. ~MispairedIn(waiting_buffer')
    BY <1>1 DEF Mispaired, MispairedIn
  <1> HIDE DEF n
  <1> QED
    BY <1>2, <1>3, <1>4, <1>5, <1>6, <1>7 DEF n, y

LEMMA HandledUndecided ==
    ASSUME IInv, IInv', KeysPaired, NEW s, NEW r, NEW now, Handled(s, r, now),
           tapping_key.pressed, tapping_key.count = 0
    PROVE  KeysPaired'
  <1> DEFINE y == ProcessTapping(s, r)
             n == NextOf(y)
             w == n.buffer
             b == waiting_buffer
             b2 == Append(b, r)
             m == Len(b2)
             t == tapping_key
  <1>1. /\ LoopTypes /\ s \in States /\ r \in Records /\ r \in RecordsOrNone
        /\ waiting_buffer \in Seq(Records)
        /\ s.buffer = waiting_buffer /\ s.tapping = tapping_key
        /\ y \in States /\ Len(y.buffer) = Len(waiting_buffer) /\ y.rec \in Records
        /\ NextOf(y).tapping = y.tapping /\ NextOf(y).cache = y.cache
        /\ NextOf(y).kb = y.kb /\ NextOf(y).out = y.out /\ out' = y.out
        /\ y.done => NextOf(y).buffer = y.buffer
        /\ ~y.done => NextOf(y).buffer = Append(y.buffer, y.rec)
        /\ NextOf(y).buffer = waiting_buffer'
        /\ NextOf(y).buffer \in Seq(Records)
        /\ ~MispairedIn(NextOf(y).buffer)
    BY HandledParts
  <1>2. /\ Begins(s) /\ Arrives(r, now) /\ matrix_prev' = now /\ Becomes(n)
        /\ ~draining /\ ~Overtaking /\ ~PressedAgain
    BY DEF Handled
  <1>3. PICK D : Paired(b2, D, t, s.cache, s.kb) /\ D[Len(b2)] = now
    BY <1>2, ArrivesPaired
  <1>4. t \in Records
    <2>1. t \in RecordsOrNone
      BY <1>1 DEF LoopTypes
    <2> QED
      BY <2>1, RecordParts
  <1>5. y.buffer = b
    BY <1>1, <1>4, UndecidedBuffer
  <1>6. /\ b2 \in Seq(Records) /\ b2 # <<>> /\ m = Len(b) + 1
        /\ m \in 1..Len(b2) /\ b2[m] = r /\ m - 1 = Len(b)
        /\ \A i \in 1..Len(b) : i \in 1..Len(b2) /\ i \in DOMAIN b /\ b2[i] = b[i]
        /\ \A i \in 1..Len(b2) : i = m \/ i \in 1..Len(b)
        /\ Without(b, b2, m)
        /\ \A x \in Records : Instead(Append(b, x), b2, m, x)
    BY <1>1, AppendIs
  <1>7. y = ProcessTapping(s, r) /\ n = NextOf(y) /\ w = n.buffer
    OBVIOUS
  <1> HIDE DEF y, n, w, b2, m
  <1>8. UndecidedHead(s, t, b2, m, r)
    BY <1>1, <1>4, <1>6 DEF UndecidedHead
  <1>9. \A i \in 1..Len(b2) : b2[i].interrupted =>
           \E j \in DOMAIN b : b[j].key = b2[i].key /\ b[j].interrupted
    BY <1>2, <1>6 DEF Arrives, Follows
  <1>10. Faithful(s, b2, t, y.out)
    BY <1>1, <1>2, <1>9, StepFaithful
  <1>11. Leaves(w, b2, m, y.done, y.rec)
    <2>1. y.done => w = b
      BY <1>1, <1>5, <1>7
    <2>2. ~y.done => w = Append(b, y.rec)
      BY <1>1, <1>5, <1>7
    <2>3. Instead(Append(b, y.rec), b2, m, y.rec)
      BY <1>1, <1>6
    <2>4. y.done => Without(w, b2, m)
      BY <1>6, <2>1
    <2>5. ~y.done => Instead(w, b2, m, y.rec)
      BY <2>2, <2>3
    <2> QED
      BY <2>4, <2>5 DEF Leaves
  <1>12. ~MispairedIn(w) /\ w \in Seq(Records)
    BY <1>1, <1>7
  <1>13. UndecidedCall(s, t, b2, m, r, D, w)
    BY <1>3, <1>7, <1>8, <1>10, <1>11, <1>12 DEF UndecidedCall
  <1>14. StillPaired(w, b2, D, y)
    BY <1>1, <1>6, <1>7, <1>12, <1>13, PairedUndecided
  <1>15. PairedWith(n.buffer, y.tapping, y.cache, y.kb, now)
    BY <1>3, <1>7, <1>14 DEF StillPaired, PairedWith
  <1> QED
    BY <1>1, <1>2, <1>7, <1>15, PairedBecomes

LEMMA HandledDecided ==
    ASSUME IInv, IInv', KeysPaired, NEW s, NEW r, NEW now, Handled(s, r, now),
           ~(tapping_key.pressed /\ tapping_key.count = 0)
    PROVE  KeysPaired'
  <1> DEFINE y == ProcessTapping(s, r)
             n == NextOf(y)
             w == n.buffer
             b == waiting_buffer
             b2 == Append(b, r)
             t == tapping_key
  <1>1. /\ LoopTypes /\ s \in States /\ r \in Records /\ r \in RecordsOrNone
        /\ waiting_buffer \in Seq(Records)
        /\ s.buffer = waiting_buffer /\ s.tapping = tapping_key
        /\ y \in States /\ Len(y.buffer) = Len(waiting_buffer) /\ y.rec \in Records
        /\ NextOf(y).tapping = y.tapping /\ NextOf(y).cache = y.cache
        /\ NextOf(y).kb = y.kb /\ NextOf(y).out = y.out /\ out' = y.out
        /\ y.done => NextOf(y).buffer = y.buffer
        /\ ~y.done => NextOf(y).buffer = Append(y.buffer, y.rec)
        /\ NextOf(y).buffer = waiting_buffer'
        /\ NextOf(y).buffer \in Seq(Records)
        /\ ~MispairedIn(NextOf(y).buffer)
    BY HandledParts
  <1>2. /\ Begins(s) /\ Arrives(r, now) /\ matrix_prev' = now /\ Becomes(n)
        /\ ~draining /\ ~Overtaking /\ ~PressedAgain
    BY DEF Handled
  <1>3. PICK D : Paired(b2, D, t, s.cache, s.kb) /\ D[Len(b2)] = now
    BY <1>2, ArrivesPaired
  <1>4. b = <<>>
    <2>1. UndecidedKey = <<>>
      BY DEF UndecidedKey
    <2>2. matrix_prev' # matrix_prev
      <3>1. r.pressed \in BOOLEAN
        BY <1>1 DEF Records
      <3> QED
        BY <1>2, <3>1 DEF Arrives, Follows
    <2> QED
      BY <1>2, <2>1, <2>2 DEF Overtaking
  <1>5. y.buffer = b
    <2>1. y.buffer \in Seq(Records) /\ Len(y.buffer) = 0
      BY <1>1, <1>4 DEF States
    <2> QED
      BY <1>4, <2>1, EmptySeq
  <1>6. /\ b2 \in Seq(Records) /\ b2 # <<>> /\ Len(b2) = Len(b) + 1
        /\ Len(b2) \in 1..Len(b2) /\ b2[Len(b2)] = r /\ Len(b2) - 1 = Len(b)
        /\ \A i \in 1..Len(b) : i \in 1..Len(b2) /\ i \in DOMAIN b /\ b2[i] = b[i]
        /\ \A i \in 1..Len(b2) : i = Len(b2) \/ i \in 1..Len(b)
        /\ Without(b, b2, Len(b2))
        /\ \A x \in Records : Instead(Append(b, x), b2, Len(b2), x)
    BY <1>1, AppendIs
  <1>7. y = ProcessTapping(s, r) /\ n = NextOf(y) /\ w = n.buffer
    OBVIOUS
  <1> HIDE DEF y, n, w, b2
  <1>8. Len(b2) = 1 /\ r = b2[1]
    BY <1>4, <1>6
  <1>9. Leaves(w, b2, 1, y.done, y.rec)
    BY <1>1, <1>5, <1>6, <1>7, <1>8 DEF Leaves
  <1>10. ~MispairedIn(w) /\ w \in Seq(Records)
    BY <1>1, <1>7
  <1>11. s.buffer = <<>> /\ s.buffer # b2
    BY <1>1, <1>4, <1>6
  <1>12. y = ProcessTapping(s, b2[1])
    BY <1>7, <1>8
  <1>13. DecidedCall(s, t, b2, D, w)
    BY <1>1, <1>3, <1>6, <1>9, <1>10, <1>11, <1>12 DEF DecidedCall
  <1>14. StillPaired(w, b2, D, y)
    BY <1>1, <1>6, <1>10, <1>12, <1>13, PairedDecided
  <1>15. PairedWith(n.buffer, y.tapping, y.cache, y.kb, now)
    BY <1>3, <1>7, <1>14 DEF StillPaired, PairedWith
  <1> QED
    BY <1>1, <1>2, <1>7, <1>15, PairedBecomes

\* The first record, processed, leaves the buffer; or it goes on waiting.
DrainedOf(y) == IF y.done THEN [y EXCEPT !.buffer = Tail(@)] ELSE [y EXCEPT !.buffer[1] = y.rec]

LEMMA DrainedOfIs ==
    ASSUME NEW b \in Seq(Records), b # <<>>,
           NEW y \in States, y.rec \in Records, Len(y.buffer) = Len(b)
    PROVE  /\ DrainedOf(y).tapping = y.tapping /\ DrainedOf(y).cache = y.cache
           /\ DrainedOf(y).kb = y.kb /\ DrainedOf(y).out = y.out
           /\ y.done => DrainedOf(y).buffer = Tail(y.buffer)
           /\ y.buffer = b => Leaves(DrainedOf(y).buffer, b, 1, y.done, y.rec)
  <1> DEFINE q == y.buffer
             n == Len(b)
  <1>1. q \in Seq(Records) /\ n \in Nat \ {0} /\ Len(q) = n
    BY EmptySeq DEF States
  <1>2. CASE y.done
    <2>1. DrainedOf(y) = [y EXCEPT !.buffer = Tail(@)]
      BY <1>2 DEF DrainedOf
    <2>2. Len(Tail(b)) = n - 1 /\ \A i \in 1..Len(Tail(b)) : Tail(b)[i] = b[i + 1]
      BY HeadTailProperties
    <2>3. \A i \in 1..n - 1 : ~(i < 1)
      BY <1>1
    <2>4. Without(Tail(b), b, 1)
      BY <2>2, <2>3 DEF Without
    <2> HIDE DEF n
    <2> QED
      BY <1>2, <2>1, <2>4 DEF States, Leaves
  <1>3. CASE ~y.done
    <2> DEFINE c == [q EXCEPT ![1] = y.rec]
    <2>1. DrainedOf(y) = [y EXCEPT !.buffer = c]
      BY <1>3 DEF DrainedOf
    <2>2. 1 \in 1..n /\ DOMAIN q = 1..n
      BY <1>1, LenProperties
    <2>3. c \in Seq(Records) /\ Len(c) = n
      BY <1>1, <2>2, ExceptSeq
    <2>4. \A i \in 1..n : c[i] = IF i = 1 THEN y.rec ELSE q[i]
      BY <2>2
    <2>5. q = b => Instead(c, b, 1, y.rec)
      BY <2>3, <2>4 DEF Instead
    <2> HIDE DEF c, n
    <2>6. /\ DrainedOf(y).tapping = y.tapping /\ DrainedOf(y).cache = y.cache
          /\ DrainedOf(y).kb = y.kb /\ DrainedOf(y).out = y.out /\ DrainedOf(y).buffer = c
      BY <2>1 DEF States
    <2>7. q = b => Leaves(DrainedOf(y).buffer, b, 1, y.done, y.rec)
      BY <1>3, <2>5, <2>6 DEF Leaves
    <2> QED
      BY <1>3, <2>6, <2>7
  <1> QED
    BY <1>2, <1>3

LEMMA DrainParts ==
    ASSUME IInv, IInv', Drain, ~Mispaired
    PROVE  LET b == waiting_buffer
               y == ProcessTapping(State, b[1])
               n == DrainedOf(y)
           IN  /\ LoopTypes /\ State \in States /\ b \in Seq(Records) /\ b # <<>>
               /\ State.buffer = b /\ State.tapping = tapping_key
               /\ 1 \in 1..Len(b) /\ b[1] \in Records
               /\ y \in States /\ Becomes(n) /\ matrix_prev' = matrix_prev
               /\ n.tapping = y.tapping /\ n.cache = y.cache /\ n.kb = y.kb /\ out' = y.out
               /\ y.done => n.buffer = Tail(y.buffer)
               /\ y.buffer = b => Leaves(n.buffer, b, 1, y.done, y.rec)
               /\ n.buffer \in Seq(Records) /\ ~MispairedIn(n.buffer)
  <1> DEFINE b == waiting_buffer
             y == ProcessTapping(State, b[1])
             n == DrainedOf(y)
  <1>1. LoopTypes /\ LoopTypes' /\ b \in Seq(Records) /\ b # <<>>
    BY DEF IInv, LoopTypes, Drain
  <1>2. State \in States /\ State.buffer = b /\ State.tapping = tapping_key
    BY <1>1, StateBegins DEF Begins
  <1>3. 1 \in 1..Len(b) /\ b[1] \in Records /\ Head(b) = b[1]
    <2>1. Len(b) \in Nat \ {0}
      BY <1>1, EmptySeq
    <2>2. 1 \in 1..Len(b)
      BY <2>1
    <2>3. Head(b) = b[1]
      BY <1>1, HeadTailProperties
    <2> QED
      BY <1>1, <2>2, <2>3, ElementOfSeq
  <1>4. y \in States /\ Len(y.buffer) = Len(b) /\ y.rec \in Records
    BY <1>2, <1>3, ProcessTappingFacts DEF RecordsOrNone
  <1>5. Becomes(n) /\ matrix_prev' = matrix_prev
    BY <1>3 DEF Drain, DrainedOf, loopVars
  <1> HIDE DEF y
  <1>6. /\ n.tapping = y.tapping /\ n.cache = y.cache /\ n.kb = y.kb /\ n.out = y.out
        /\ y.done => n.buffer = Tail(y.buffer)
        /\ y.buffer = b => Leaves(n.buffer, b, 1, y.done, y.rec)
    BY <1>1, <1>4, DrainedOfIs
  <1> HIDE DEF n
  <1>7. out' = y.out /\ waiting_buffer' = n.buffer
    BY <1>5, <1>6 DEF Becomes
  <1>8. n.buffer \in Seq(Records) /\ ~MispairedIn(n.buffer)
    BY <1>1, <1>7 DEF LoopTypes, Mispaired, MispairedIn
  <1> QED
    BY <1>1, <1>2, <1>3, <1>4, <1>5, <1>6, <1>7, <1>8 DEF n, y

LEMMA DrainPaired ==
    ASSUME IInv, IInv', KeysPaired, Drain, ~PressedAgain, ~Mispaired
    PROVE  KeysPaired'
  <1> DEFINE s == State
             b == waiting_buffer
             y == ProcessTapping(s, b[1])
             n == DrainedOf(y)
             w == n.buffer
             t == tapping_key
  <1>1. /\ LoopTypes /\ State \in States /\ b \in Seq(Records) /\ b # <<>>
        /\ State.buffer = b /\ State.tapping = tapping_key
        /\ 1 \in 1..Len(b) /\ b[1] \in Records
        /\ y \in States /\ Becomes(n) /\ matrix_prev' = matrix_prev
        /\ n.tapping = y.tapping /\ n.cache = y.cache /\ n.kb = y.kb /\ out' = y.out
        /\ y.done => n.buffer = Tail(y.buffer)
        /\ y.buffer = b => Leaves(n.buffer, b, 1, y.done, y.rec)
        /\ n.buffer \in Seq(Records) /\ ~MispairedIn(n.buffer)
    BY DrainParts
  <1>2. Begins(s)
    BY <1>1, StateBegins
  <1>3. PICK D : Paired(b, D, t, source_layers_cache, kb) /\ D[Len(b)] = matrix_prev
    BY DEF KeysPaired, PairedWith
  <1>4. Paired(b, D, t, s.cache, s.kb)
    BY <1>1, <1>2, <1>3, BeginsPaired
  <1>5. /\ s \in States /\ s.buffer = b /\ s.tapping = t
        /\ w \in Seq(Records) /\ ~MispairedIn(w) /\ (y.buffer = b => Leaves(w, b, 1, y.done, y.rec))
        /\ (y.done => w = Tail(y.buffer))
    BY <1>1
  <1>6. y = ProcessTapping(s, b[1]) /\ n = DrainedOf(y) /\ w = n.buffer
    OBVIOUS
  <1> HIDE DEF s, y, n, w
  <1>7. StillPaired(w, b, D, y)
    <2>1. CASE t.pressed /\ t.count = 0
      <3>1. t \in Records
        <4>1. t \in RecordsOrNone
          BY <1>1 DEF LoopTypes
        <4> QED
          BY <2>1, <4>1, RecordParts
      <3>2. y.buffer = b
        <4>1. b[1] \in RecordsOrNone
          BY <1>1 DEF RecordsOrNone
        <4> QED
          BY <1>5, <1>6, <2>1, <3>1, <4>1, UndecidedBuffer
      <3>3. \A i \in 1..Len(b) : i \in DOMAIN b
        BY <1>1, LenProperties
      <3>4. Faithful(s, b, t, y.out)
        <4>1. \A i \in 1..Len(b) : b[i].interrupted =>
                \E j \in DOMAIN b : b[j].key = b[i].key /\ b[j].interrupted
          BY <3>3
        <4> QED
          BY <1>1, <1>2, <4>1, StepFaithful
      <3>5. UndecidedHead(s, t, b, 1, b[1])
        BY <1>1, <1>5, <2>1, <3>1 DEF UndecidedHead
      <3>6. UndecidedCall(s, t, b, 1, b[1], D, w)
        BY <1>4, <1>5, <1>6, <3>2, <3>4, <3>5 DEF UndecidedCall
      <3>7. StillPaired(w, b, D, ProcessTapping(s, b[1]))
        BY <1>1, <1>5, <3>6, PairedUndecided
      <3> QED
        BY <1>6, <3>7
    <2>2. CASE ~(t.pressed /\ t.count = 0)
      <3>1. DecidedCall(s, t, b, D, w)
        BY <1>1, <1>4, <1>5, <1>6, <2>2 DEF DecidedCall
      <3>2. StillPaired(w, b, D, ProcessTapping(s, b[1]))
        BY <1>1, <1>5, <3>1, PairedDecided
      <3> QED
        BY <1>6, <3>2
    <2> QED
      BY <2>1, <2>2
  <1>8. PairedWith(n.buffer, y.tapping, y.cache, y.kb, matrix_prev)
    BY <1>3, <1>6, <1>7 DEF StillPaired, PairedWith
  <1> QED
    BY <1>1, <1>6, <1>8, PairedBecomes

\* The records differ at most in their ages.
SameRecord(x, r) ==
    x.key = r.key /\ x.pressed = r.pressed /\ x.count = r.count /\ x.interrupted = r.interrupted

LEMMA PairedSame ==
    ASSUME NEW b \in Seq(Records), NEW D, NEW t, NEW c, NEW k, Paired(b, D, t, c, k),
           NEW b2, Len(b2) = Len(b), \A i \in 1..Len(b) : SameRecord(b2[i], b[i]),
           NEW t2, SameRecord(t2, t)
    PROVE  Paired(b2, D, t2, c, k)
  <1> DEFINE N == Len(b)
  <1>1. N = Len(b2) /\ \A i \in 1..N : SameRecord(b2[i], b[i])
    OBVIOUS
  <1>2. \A p : Undecides(t2, p) <=> Undecides(t, p)
    BY DEF SameRecord, Undecides
  <1>3. \A p : Marked(b2, p) <=> Marked(b, p)
    BY <1>1 DEF SameRecord, Marked
  <1>4. \A p : TapMode(b2, t2, p) <=> TapMode(b, t, p)
    BY <1>3 DEF SameRecord, TapMode
  <1>5. \A p : Ghost(b2, t2, c, p) <=> Ghost(b, t, c, p)
    BY <1>1, <1>2 DEF SameRecord, Ghost
  <1>6. Holding(b2, D, t2, c) = Holding(b, D, t, c)
    BY <1>2, <1>5 DEF Holding
  <1>7. Acting(b2, D, t2, c) = Acting(b, D, t, c)
    BY <1>4, <1>6 DEF Acting, HeldAct
  <1>8. Track(b2, D)
    BY <1>1 DEF Paired, Track, SameRecord
  <1>9. Marks(b2, t2) /\ Plain(b2)
    <2>1. Marks(b, t) /\ Plain(b)
      BY DEF Paired
    <2>2. Plain(b2)
      BY <1>1, <2>1 DEF Plain, SameRecord
    <2>3. Marks(b2, t2)
      BY <1>1, <1>2, <2>1 DEF Marks, SameRecord
    <2> QED
      BY <2>2, <2>3
  <1>10. /\ t2.pressed => t2.key \in D[0]
         /\ t2.pressed /\ t2.count = 1 => Marked(b2, t2.key)
    BY <1>3 DEF Paired, SameRecord
  <1> QED
    BY <1>7, <1>8, <1>9, <1>10 DEF Paired

\* A tick processes no key.
TickLeaves(y, x) ==
    /\ y.kb = x.kb /\ y.cache = x.cache /\ y.buffer = x.buffer
    /\ y.tapping = x.tapping /\ y.rec = NoEvent

LEMMA TickNone ==
    ASSUME NEW s \in States, NEW x \in States,
           \/ Decision(s, NoEvent) = Handle(x, <<NoEvent>>)
           \/ Decision(s, NoEvent) = Wait(x)
    PROVE  TickLeaves(ProcessTapping(s, NoEvent), x)
  <1>1. NoEvent \in RecordsOrNone
    BY DEF RecordsOrNone
  <1>2. CASE Decision(s, NoEvent) = Wait(x)
    <2>1. Decision(s, NoEvent) = Decide(x, <<>>, FALSE, FALSE)
      BY <1>2 DEF Wait
    <2>2. TookNone(ProcessTapping(s, NoEvent), x, NoEvent, FALSE)
      BY <1>1, <2>1, TakenNone
    <2> QED
      BY <2>2 DEF TookNone, TickLeaves
  <1>3. CASE Decision(s, NoEvent) = Handle(x, <<NoEvent>>)
    <2>1. Decision(s, NoEvent) = Decide(x, <<NoEvent>>, FALSE, TRUE)
      BY <1>3 DEF Handle
    <2>2. TookOne(ProcessTapping(s, NoEvent), x, NoEvent, NoEvent, TRUE)
      BY <1>1, <2>1, TakenOne
    <2>3. ProcessRecord(x, NoEvent) = [x EXCEPT !.rec = NoEvent]
      BY NoneType DEF ProcessRecord
    <2>4. ProcessRecord(x, NoEvent).kb = x.kb /\ ProcessRecord(x, NoEvent).cache = x.cache
      BY <2>3 DEF States
    <2> QED
      BY <2>2, <2>4 DEF TookOne, TickLeaves
  <1> QED
    BY <1>2, <1>3

LEMMA SameInterrupted ==
    ASSUME NEW s \in States, s.tapping.key # NoKey
    PROVE  LET x == [s EXCEPT !.tapping.interrupted = @ \/ NoEvent.pressed]
           IN  /\ x \in States /\ x.buffer = s.buffer /\ x.kb = s.kb /\ x.cache = s.cache
               /\ SameRecord(x.tapping, s.tapping)
  <1> DEFINE x == [s EXCEPT !.tapping.interrupted = @ \/ NoEvent.pressed]
  <1>1. NoEvent \in RecordsOrNone
    BY DEF RecordsOrNone
  <1>2. x \in States /\ x.buffer = s.buffer
    BY <1>1, TappingOnce
  <1>3. s.tapping \in Records
    BY StateParts
  <1>4. DOMAIN s.tapping = {"key", "pressed", "age", "count", "interrupted"}
        /\ s.tapping.interrupted \in BOOLEAN
    BY <1>3 DEF Records
  <1>5. ~NoEvent.pressed
    BY NoneType
  <1>6. x.tapping = [s.tapping EXCEPT !.interrupted = s.tapping.interrupted \/ NoEvent.pressed]
    BY DEF States
  <1>7. (s.tapping.interrupted \/ NoEvent.pressed) = s.tapping.interrupted
    BY <1>4, <1>5
  <1>8. x.tapping = [s.tapping EXCEPT !.interrupted = s.tapping.interrupted]
    BY <1>6, <1>7
  <1>9. SameRecord(x.tapping, s.tapping)
    BY <1>4, <1>8 DEF SameRecord
  <1>10. x.kb = s.kb /\ x.cache = s.cache
    BY DEF States
  <1> QED
    BY <1>2, <1>9, <1>10

\* The ways a tick is decided.
LEMMA TickDecision ==
    ASSUME NEW s \in States, NEW t, t = s.tapping
    PROVE  LET y == ProcessTapping(s, NoEvent)
           IN  \/ \E x \in States : /\ TickLeaves(y, x) /\ SameRecord(x.tapping, t)
                                    /\ x.kb = s.kb /\ x.cache = s.cache /\ x.buffer = s.buffer
               \/ /\ ~t.pressed /\ TickLeaves(y, [s EXCEPT !.tapping = NoEvent])
               \/ /\ t \in Records /\ t.pressed /\ t.count = 0
                  /\ Decision(s, NoEvent) = HoldTimeout(s)
  <1> DEFINE r == NoEvent
             x == [s EXCEPT !.tapping.interrupted = @ \/ r.pressed]
             y == ProcessTapping(s, r)
  <1>1. r.key = NoKey /\ ~r.pressed
    BY NoneType
  <1>2. t \in RecordsOrNone /\ t.count \in Nat /\ t.pressed \in BOOLEAN
    BY StateParts, RecordCount
  <1>3. t.key # NoKey => t \in Records
    BY <1>2, RecordParts
  <1>4. ~IsTappingRecord(s, r)
    BY <1>1 DEF IsTappingRecord
  <1>5. CASE t.key = NoKey \/ (t.pressed /\ t.count > 0)
    <2>1. Decision(s, r) = Handle(s, <<r>>)
      BY <1>1, <1>2, <1>4, <1>5 DEF Decision, NotTapping, Tapped
    <2>2. TickLeaves(y, s) /\ SameRecord(s.tapping, t)
      BY <2>1, TickNone DEF SameRecord
    <2> QED
      BY <2>2
  <1>6. CASE t.key # NoKey /\ Within(s, r) /\ ((t.pressed /\ t.count = 0) \/ ~t.pressed)
    <2>1. Decision(s, r) = Handle(x, <<r>>) \/ Decision(s, r) = Wait(x)
      BY <1>1, <1>2, <1>4, <1>6 DEF Decision, Undecided, AfterTap
    <2>2. x \in States /\ x.buffer = s.buffer /\ x.kb = s.kb /\ x.cache = s.cache
          /\ SameRecord(x.tapping, t)
      BY <1>6, SameInterrupted
    <2> HIDE DEF x
    <2>3. TickLeaves(y, x)
      BY <2>1, <2>2, TickNone
    <2> QED
      BY <2>2, <2>3
  <1>7. CASE t.key # NoKey /\ ~Within(s, r) /\ ~t.pressed
    <2> DEFINE v == [s EXCEPT !.tapping = NoEvent]
    <2>1. Decision(s, r) = Wait(v)
      BY <1>7 DEF Decision
    <2>2. v \in States
      BY NoTapping
    <2> HIDE DEF v
    <2>3. TickLeaves(y, v)
      BY <2>1, <2>2, TickNone
    <2> QED
      BY <1>7, <2>3 DEF v
  <1>8. CASE t.key # NoKey /\ ~Within(s, r) /\ t.pressed /\ t.count = 0
    <2>1. Decision(s, r) = HoldTimeout(s)
      BY <1>8 DEF Decision
    <2> QED
      BY <1>3, <1>8, <2>1
  <1>9. t.count = 0 \/ t.count > 0
    BY <1>2
  <1> QED
    BY <1>2, <1>5, <1>6, <1>7, <1>8, <1>9

LEMMA TickPaired ==
    ASSUME IInv, IInv', KeysPaired, Tick, ~PressedAgain
    PROVE  KeysPaired'
  <1> DEFINE s == State
             b == waiting_buffer
             y == ProcessTapping(s, NoEvent)
             t == tapping_key
  <1>1. LoopTypes /\ b \in Seq(Records) /\ t \in RecordsOrNone
    BY DEF IInv, LoopTypes
  <1>2. Begins(s) /\ s \in States /\ s.tapping = t /\ s.buffer = b
    BY <1>1, StateBegins DEF Begins
  <1>3. y \in States /\ NoEvent \in RecordsOrNone
    <2>1. NoEvent \in RecordsOrNone
      BY DEF RecordsOrNone
    <2> QED
      BY <1>2, <2>1, ProcessTappingFacts
  <1>4. Becomes(NextOf(y)) /\ matrix_prev' = matrix_prev
    BY DEF Tick, Exec, NextOf
  <1>5. PICK D : Paired(b, D, t, source_layers_cache, kb) /\ D[Len(b)] = matrix_prev
    BY DEF KeysPaired, PairedWith
  <1>6. Paired(b, D, t, s.cache, s.kb)
    BY <1>1, <1>2, <1>5, BeginsPaired
  <1>7. y = ProcessTapping(s, NoEvent)
    OBVIOUS
  <1> HIDE DEF s, y
  <1>8. y.rec = NoEvent => NextOf(y) = y
    BY NoneType DEF NextOf, Enqueued
  <1>9. \A p : ~Undecides(NoEvent, p)
    BY NoneType DEF Undecides
  <1>10. /\ y.rec = NoEvent /\ y.buffer = b
         /\ Paired(b, D, y.tapping, y.cache, y.kb)
    <2>1. CASE \E x \in States : /\ TickLeaves(y, x) /\ SameRecord(x.tapping, t)
                                 /\ x.kb = s.kb /\ x.cache = s.cache /\ x.buffer = s.buffer
      <3>1. PICK x \in States : /\ TickLeaves(y, x) /\ SameRecord(x.tapping, t)
                                /\ x.kb = s.kb /\ x.cache = s.cache /\ x.buffer = s.buffer
        BY <2>1
      <3>2. \A i \in 1..Len(b) : SameRecord(b[i], b[i])
        BY DEF SameRecord
      <3>3. Paired(b, D, x.tapping, s.cache, s.kb)
        BY <1>1, <1>6, <3>1, <3>2, PairedSame
      <3> QED
        BY <1>2, <3>1, <3>3 DEF TickLeaves
    <2>2. CASE ~t.pressed /\ TickLeaves(y, [s EXCEPT !.tapping = NoEvent])
      <3> DEFINE v == [s EXCEPT !.tapping = NoEvent]
      <3>1. v.kb = s.kb /\ v.cache = s.cache /\ v.tapping = NoEvent /\ v.buffer = s.buffer
        BY <1>2, NoTapping DEF States
      <3> HIDE DEF v
      <3>2. TickLeaves(y, v) /\ ~NoEvent.pressed
        BY <2>2, NoneType DEF v
      <3>3. Paired(b, D, NoEvent, s.cache, s.kb)
        BY <1>1, <1>3, <1>6, <2>2, <3>2, PairedTapping
      <3> QED
        BY <1>2, <3>1, <3>2, <3>3 DEF TickLeaves
    <2>3. CASE t \in Records /\ t.pressed /\ t.count = 0 /\ Decision(s, NoEvent) = HoldTimeout(s)
      <3> DEFINE v == [s EXCEPT !.tapping = NoEvent]
                 n == ProcessRecord(v, t)
      <3>1. v.kb = s.kb /\ v.cache = s.cache /\ v.tapping = NoEvent /\ v.buffer = s.buffer
            /\ v \in States
        BY <1>2, NoTapping DEF States
      <3>2. Decision(s, NoEvent) = Decide(v, <<t>>, FALSE, FALSE)
        BY <1>2, <2>3 DEF HoldTimeout
      <3> HIDE DEF v
      <3>3. TookOne(y, v, t, NoEvent, FALSE)
        BY <1>1, <1>2, <1>3, <1>7, <3>2, TakenOne
      <3>4. /\ y.kb = n.kb /\ y.cache = n.cache /\ y.out = n.out /\ y.buffer = b
            /\ y.tapping = NoEvent /\ y.rec = NoEvent
        BY <1>2, <3>1, <3>3 DEF TookOne
      <3>5. n = ProcessRecord(v, t)
        OBVIOUS
      <3> HIDE DEF n
      <3>6. out' = n.out
        BY <1>4, <1>8, <3>4 DEF Becomes
      <3>7. Faithful(s, b, t, n.out)
        <4>1. \A i \in 1..Len(b) : b[i].interrupted =>
                \E j \in DOMAIN b : b[j].key = b[i].key /\ b[j].interrupted
          BY <1>1, LenProperties
        <4> QED
          BY <1>1, <1>2, <3>6, <4>1, StepFaithful
      <3>8. Faithful(v, b, t, n.out)
        BY <3>1, <3>7, FaithfulIn
      <3>9. Paired(b, D, t, v.cache, v.kb)
        BY <1>6, <3>1
      <3>10. Paired(b, D, NoEvent, n.cache, n.kb)
        BY <2>3, <3>1, <3>5, <3>8, <3>9, PairedHold
      <3> QED
        BY <3>4, <3>10
    <2>4. \/ \E x \in States : /\ TickLeaves(y, x) /\ SameRecord(x.tapping, t)
                               /\ x.kb = s.kb /\ x.cache = s.cache /\ x.buffer = s.buffer
          \/ /\ ~t.pressed /\ TickLeaves(y, [s EXCEPT !.tapping = NoEvent])
          \/ /\ t \in Records /\ t.pressed /\ t.count = 0
             /\ Decision(s, NoEvent) = HoldTimeout(s)
      BY <1>2, <1>7, TickDecision
    <2> QED
      BY <2>1, <2>2, <2>3, <2>4
  <1>11. PairedWith(y.buffer, y.tapping, y.cache, y.kb, matrix_prev)
    BY <1>5, <1>10 DEF PairedWith
  <1>12. Becomes(y)
    BY <1>4, <1>8, <1>10
  <1> QED
    BY <1>3, <1>4, <1>11, <1>12, PairedBecomes

LEMMA OlderSame ==
    ASSUME NEW r \in RecordsOrNone
    PROVE  SameRecord(Older(r), r)
  <1>1. CASE r.key = NoKey
    BY <1>1 DEF Older, SameRecord
  <1>2. CASE r.key # NoKey
    <2>1. r \in Records
      BY <1>2, RecordParts
    <2>2. DOMAIN r = {"key", "pressed", "age", "count", "interrupted"}
      BY <2>1 DEF Records
    <2>3. Older(r) = [r EXCEPT !.age = (r.age + 1) % Clock]
      BY <1>2 DEF Older
    <2> QED
      BY <2>2, <2>3 DEF SameRecord
  <1> QED
    BY <1>1, <1>2

LEMMA PassPaired ==
    ASSUME IInv, KeysPaired, Pass
    PROVE  KeysPaired'
  <1> DEFINE b == waiting_buffer
             t == tapping_key
             c == [i \in DOMAIN b |-> Older(b[i])]
  <1>1. b \in Seq(Records) /\ t \in RecordsOrNone /\ DOMAIN b = 1..Len(b) /\ Len(b) \in Nat
    BY LenProperties DEF IInv, LoopTypes
  <1>2. PICK D : Paired(b, D, t, source_layers_cache, kb) /\ D[Len(b)] = matrix_prev
    BY DEF KeysPaired, PairedWith
  <1>3. \A i \in 1..Len(b) : b[i] \in RecordsOrNone
    BY <1>1, ElementOfSeq DEF RecordsOrNone
  <1>4. Len(c) = Len(b) /\ \A i \in 1..Len(b) : SameRecord(c[i], b[i])
    <2>1. \A i \in 1..Len(b) : c[i] = Older(b[i])
      BY <1>1
    <2>2. DOMAIN c = 1..Len(b)
      BY <1>1
    <2>3. \A i \in 1..Len(b) : Older(b[i]) \in Records
      BY <1>1, ElementOfSeq, OlderType
    <2>4. Len(c) = Len(b)
      BY <1>1, <2>3
    <2> QED
      BY <1>3, <2>1, <2>4, OlderSame
  <1>5. SameRecord(Older(t), t)
    BY <1>1, OlderSame
  <1>6. /\ waiting_buffer' = c /\ tapping_key' = Older(t) /\ matrix_prev' = matrix_prev
        /\ source_layers_cache' = source_layers_cache /\ kb' = kb
    BY DEF Pass
  <1> HIDE DEF c
  <1>7. Paired(c, D, Older(t), source_layers_cache, kb)
    BY <1>1, <1>2, <1>4, <1>5, PairedSame
  <1>8. PairedWith(c, Older(t), source_layers_cache, kb, matrix_prev)
    BY <1>2, <1>4, <1>7 DEF PairedWith
  <1> QED
    BY <1>6, <1>8 DEF KeysPaired

LEMMA LinkPaired ==
    ASSUME IInv, KeysPaired, LinkChange
    PROVE  KeysPaired'
  <1> DEFINE b == waiting_buffer
             t == tapping_key
             k == [kb EXCEPT !.link = ~@, !.host = A!NoReport, !.host_usage = A!NoUsage,
                             !.sent = <<>>]
  <1>1. PICK D : Paired(b, D, t, source_layers_cache, kb) /\ D[Len(b)] = matrix_prev
    BY DEF KeysPaired, PairedWith
  <1> DEFINE G == Acting(b, D, t, source_layers_cache)
  <1>2. kb \in Kbs /\ HoldsOnly(kb, G, Lockable)
    BY <1>1 DEF IInv, LoopTypes, Paired
  <1>3. HoldsOnly(k, G, Lockable)
    <2> HIDE DEF G
    <2> QED
      BY <1>2, HoldsBegin
  <1>4. /\ waiting_buffer' = b /\ tapping_key' = t /\ matrix_prev' = matrix_prev
        /\ source_layers_cache' = source_layers_cache /\ kb' = k
    BY DEF LinkChange, A!LinkChange
  <1> HIDE DEF k
  <1>5. Paired(b, D, t, source_layers_cache, k)
    BY <1>1, <1>3 DEF Paired
  <1>6. PairedWith(b, t, source_layers_cache, k, matrix_prev)
    BY <1>1, <1>5 DEF PairedWith
  <1> QED
    BY <1>4, <1>6 DEF KeysPaired

LEMMA InitPaired ==
    ASSUME Init
    PROVE  KeysPaired
  <1> DEFINE b == waiting_buffer
             D == [i \in 0..0 |-> {}]
  <1>1. b = <<>> /\ Len(b) = 0 /\ tapping_key = NoEvent /\ matrix_prev = {}
    BY DEF Init, A!Init
  <1>2. 1..Len(b) = {} /\ 0..Len(b) = {0} /\ 0 \in 0..0
    BY <1>1
  <1>3. D[0] = {} /\ Track(b, D) /\ D[Len(b)] = matrix_prev
    BY <1>1, <1>2 DEF Track
  <1> HIDE DEF b, D
  <1>4. Marks(b, NoEvent) /\ Plain(b)
    BY <1>2 DEF Marks, Plain
  <1>5. ~NoEvent.pressed
    BY NoneType
  <1>6. /\ kb.keys = {} /\ kb.real_mods = {} /\ kb.weak_mods = {}
        /\ kb.last_report.keys = {} /\ kb.last_report.mods = {} /\ kb.layer_state = {}
    BY DEF Init, A!Init, A!NoReport
  <1>7. \A G : HoldsOnly(kb, G, Lockable)
    BY <1>6 DEF HoldsOnly, ActionLemmas!Within
  <1>8. Paired(b, D, NoEvent, source_layers_cache, kb)
    BY <1>3, <1>4, <1>5, <1>7 DEF Paired
  <1> QED
    BY <1>1, <1>3, <1>8 DEF KeysPaired, PairedWith, b

-----------------------------------------------------------------------------
(* What is paired is held.                                                 *)

LEMMA HoldingIsHeld ==
    ASSUME NEW D, Paired(waiting_buffer, D, tapping_key, source_layers_cache, kb),
           D[Len(waiting_buffer)] = matrix_prev, waiting_buffer \in Seq(Records),
           NEW p \in Holding(waiting_buffer, D, tapping_key, source_layers_cache)
    PROVE  keymaps[source_layers_cache[p]][p] \in HeldActions
  <1> DEFINE b == waiting_buffer
             N == Len(b)
  <1>1. p \in Positions
    BY DEF Holding
  <1>2. p \in D[0]
    BY DEF Holding, Ghost, Undecides, Paired
  <1>3. N \in Nat /\ DOMAIN b = 1..N /\ Track(b, D) /\ D[N] = matrix_prev
    BY LenProperties DEF Paired
  <1>4. p \in matrix_prev \/ ReleaseWaits(p)
    <2> SUFFICES ASSUME p \notin matrix_prev PROVE ReleaseWaits(p)
      OBVIOUS
    <2>1. N # 0
      BY <1>2, <1>3
    <2>2. 0 \in 0..Len(b) /\ Len(b) \in 0..Len(b) /\ 0 < Len(b)
      BY <1>3, <2>1
    <2>3. (p \in D[0]) # (p \in D[Len(b)])
      BY <1>2, <1>3
    <2>4. PICK m \in 1..Len(b) : /\ 0 < m /\ m <= Len(b) /\ b[m].key = p
                                 /\ b[m].pressed = (p \notin D[0])
      BY <1>3, <2>2, <2>3, Between
    <2> QED
      BY <1>2, <1>3, <2>4 DEF ReleaseWaits
  <1> QED
    BY <1>1, <1>4 DEF HeldActions

\* What an action stands for, tapped or held, is among its own.
LEMMA ResolvedParts ==
    ASSUME NEW h \in TapActions \cup A!KeyAction \cup A!UsageAction \cup A!LayerAction
                         \cup {A!Transparent},
           NEW count \in Nat, NEW a, a = Resolved(h, count)
    PROVE  /\ a.kind = "key" => /\ a.code \in Codes => a.code \in CodesOf(h)
                                /\ ActionLemmas!RealMods(a) \subseteq ModsOf(h)
                                /\ ActionLemmas!WeakMods(a) \subseteq ModsOf(h)
           /\ a.kind = "mo" => a.layer \in LayersOf(h)
  <1>1. CASE h.kind = "mt"
    <2>1. h.mods \subseteq Mods /\ h.code \in Codes
      BY <1>1 DEF TapActions, A!KeyAction, A!UsageAction, A!LayerAction, A!Transparent
    <2>2. a \in {[kind |-> "key", mods |-> {}, code |-> h.code],
                 [kind |-> "key", mods |-> h.mods, code |-> KC_NO]}
      BY <1>1 DEF Resolved
    <2> QED
      BY <1>1, <2>1, <2>2, TappingAssumption
         DEF CodesOf, ModsOf, ActionLemmas!RealMods, ActionLemmas!WeakMods
  <1>2. CASE h.kind = "lt"
    <2>1. h.code \in Codes
      BY <1>2 DEF TapActions, A!KeyAction, A!UsageAction, A!LayerAction, A!Transparent
    <2>2. a \in {[kind |-> "key", mods |-> {}, code |-> h.code],
                 [kind |-> "mo", layer |-> h.layer]}
      BY <1>2 DEF Resolved
    <2> QED
      BY <1>2, <2>1, <2>2, TappingAssumption
         DEF CodesOf, LayersOf, ActionLemmas!RealMods, ActionLemmas!WeakMods
  <1>3. CASE h.kind \notin {"mt", "lt"}
    <2>1. a = h
      BY <1>3 DEF Resolved
    <2> QED
      BY <2>1 DEF CodesOf, ModsOf, LayersOf, ActionLemmas!RealMods, ActionLemmas!WeakMods
  <1> QED
    BY <1>1, <1>2, <1>3

LEMMA ActingIsHeld ==
    ASSUME NEW D, Paired(waiting_buffer, D, tapping_key, source_layers_cache, kb),
           D[Len(waiting_buffer)] = matrix_prev, LoopTypes,
           NEW a \in Acting(waiting_buffer, D, tapping_key, source_layers_cache)
    PROVE  \E h \in HeldActions :
              /\ a.kind = "key" => /\ a.code \in Codes => a.code \in CodesOf(h)
                                   /\ ActionLemmas!RealMods(a) \subseteq ModsOf(h)
                                   /\ ActionLemmas!WeakMods(a) \subseteq ModsOf(h)
              /\ a.kind = "mo" => a.layer \in LayersOf(h)
  <1> DEFINE b == waiting_buffer
             t == tapping_key
             c == source_layers_cache
  <1>1. PICK p \in Holding(b, D, t, c) : a = HeldAct(b, t, c, p)
    BY DEF Acting
  <1> DEFINE h == keymaps[c[p]][p]
             count == IF TapMode(b, t, p) THEN 1 ELSE 0
  <1>2. h \in HeldActions
    BY HoldingIsHeld DEF LoopTypes
  <1>3. p \in Positions /\ c[p] \in Layers
    BY DEF Holding, LoopTypes
  <1>4. h \in TapActions \cup A!KeyAction \cup A!UsageAction \cup A!LayerAction
                 \cup {A!Transparent}
    BY <1>3, TappingAssumption
  <1>5. a = Resolved(h, count) /\ count \in Nat
    BY <1>1 DEF HeldAct
  <1> HIDE DEF h, count
  <1>6. /\ a.kind = "key" => /\ a.code \in Codes => a.code \in CodesOf(h)
                             /\ ActionLemmas!RealMods(a) \subseteq ModsOf(h)
                             /\ ActionLemmas!WeakMods(a) \subseteq ModsOf(h)
        /\ a.kind = "mo" => a.layer \in LayersOf(h)
    BY <1>4, <1>5, ResolvedParts
  <1> QED
    BY <1>2, <1>6

LEMMA PairedIsHeld ==
    ASSUME IInv, KeysPaired
    PROVE  KeysAreHeld /\ LayersAreHeld
  <1>1. PICK D : /\ Paired(waiting_buffer, D, tapping_key, source_layers_cache, kb)
                 /\ D[Len(waiting_buffer)] = matrix_prev
    BY DEF KeysPaired, PairedWith
  <1> DEFINE G == Acting(waiting_buffer, D, tapping_key, source_layers_cache)
  <1>2. LoopTypes /\ kb \in ActionLemmas!Kb
    BY KbFacts DEF IInv, LoopTypes
  <1>3. HoldsOnly(kb, G, Lockable)
    BY <1>1 DEF Paired
  <1>4. \A a \in G : \E h \in HeldActions :
           /\ a.kind = "key" => /\ a.code \in Codes => a.code \in CodesOf(h)
                                /\ ActionLemmas!RealMods(a) \subseteq ModsOf(h)
                                /\ ActionLemmas!WeakMods(a) \subseteq ModsOf(h)
           /\ a.kind = "mo" => a.layer \in LayersOf(h)
    BY <1>1, <1>2, ActingIsHeld
  <1> HIDE DEF G
  <1>5. /\ kb.keys \subseteq CodesIn(G) /\ kb.real_mods \subseteq RealModsIn(G)
        /\ kb.weak_mods \subseteq WeakModsIn(G)
        /\ \A layer \in kb.layer_state \ Lockable : Momentary(layer) \in G
    BY <1>3 DEF HoldsOnly, ActionLemmas!Within
  <1>6. ASSUME NEW code \in kb.keys PROVE \E h \in HeldActions : code \in CodesOf(h)
    <2>1. code \in Codes
      BY <1>2 DEF ActionLemmas!Kb
    <2>2. PICK a \in G : a.kind = "key" /\ a.code = code
      BY <1>5 DEF CodesIn, KeyActions
    <2> QED
      BY <1>4, <2>1, <2>2
  <1>7. ASSUME NEW m \in kb.real_mods \cup kb.weak_mods
        PROVE  \E h \in HeldActions : m \in ModsOf(h)
    <2>1. PICK a \in G : /\ a.kind = "key"
                         /\ m \in ActionLemmas!RealMods(a) \cup ActionLemmas!WeakMods(a)
      BY <1>5 DEF RealModsIn, WeakModsIn, KeyActions
    <2> QED
      BY <1>4, <2>1
  <1>8. ASSUME NEW layer \in kb.layer_state \ Lockable
        PROVE  \E h \in HeldActions : layer \in LayersOf(h)
    <2>1. Momentary(layer) \in G /\ Momentary(layer).kind = "mo" /\ Momentary(layer).layer = layer
      BY <1>5 DEF Momentary
    <2> QED
      BY <1>4, <2>1
  <1> QED
    BY <1>6, <1>7, <1>8 DEF KeysAreHeld, LayersAreHeld

LEMMA ExecPaired ==
    ASSUME IInv, IInv', KeysPaired, ~draining,
           ~Overflow, ~Overtaking, ~PressedAgain, ~Mispaired,
           NEW s, Begins(s), NEW r, NEW now, Arrives(r, now), matrix_prev' = now, Exec(r, s)
    PROVE  KeysPaired'
  <1>1. Becomes(NextOf(ProcessTapping(s, r)))
    BY DEF Exec, NextOf
  <1>2. Handled(s, r, now)
    BY <1>1 DEF Handled
  <1> QED
    BY <1>2, HandledUndecided, HandledDecided

\* A step leaves press and release paired, or disturbs the records.
LEMMA NextPaired ==
    ASSUME IInv, IInv', KeysPaired, Next,
           ~Overflow, ~Overtaking, ~PressedAgain, ~Mispaired
    PROVE  KeysPaired'
  <1>1. LoopTypes /\ matrix_prev \subseteq Positions
    BY DEF IInv
  <1>2. ASSUME NEW p \in Positions, Press(p) PROVE KeysPaired'
    <2> DEFINE s == [State EXCEPT !.kb.weak_mods = {}]
               r == Event(p, TRUE)
               now == matrix_prev \cup {p}
    <2>1. /\ ~draining /\ p \notin matrix_prev /\ matrix_prev' = now
          /\ Exec(r, s)
      BY <1>2 DEF Press
    <2>2. Begins(s) /\ Arrives(r, now)
      BY <1>1, <2>1, StateBegins, EventArrives
    <2> HIDE DEF s, r, now
    <2> QED
      BY <2>1, <2>2, ExecPaired
  <1>3. ASSUME NEW p \in Positions, Release(p) PROVE KeysPaired'
    <2> DEFINE s == State
               r == Event(p, FALSE)
               now == matrix_prev \ {p}
    <2>1. /\ ~draining /\ p \in matrix_prev /\ matrix_prev' = now
          /\ Exec(r, s)
      BY <1>3 DEF Release
    <2>2. Begins(s) /\ Arrives(r, now)
      BY <1>1, <2>1, StateBegins, EventArrives
    <2> HIDE DEF s, r, now
    <2> QED
      BY <2>1, <2>2, ExecPaired
  <1>4. CASE Tick
    BY <1>4, TickPaired
  <1>5. CASE Drain
    BY <1>5, DrainPaired
  <1>6. CASE Pass
    BY <1>6, PassPaired
  <1>7. CASE LinkChange
    BY <1>7, LinkPaired
  <1> QED
    BY <1>2, <1>3, <1>4, <1>5, <1>6, <1>7 DEF Next

\* The records that wait keep press and release paired until they are disturbed.
PairedInv == disturbed \/ (IInv /\ KeysPaired)

LEMMA PairedInvariant == TracedSpec => []PairedInv
  <1>1. TracedInit => PairedInv
    BY InitTypes, InitPaired DEF TracedInit, PairedInv
  <1>2. PairedInv /\ [Step \/ Stop]_tracedVars => PairedInv'
    <2> SUFFICES ASSUME PairedInv, [Step \/ Stop]_tracedVars PROVE PairedInv'
      OBVIOUS
    <2>1. CASE Step
      <3>1. IInv /\ KeysPaired /\ Next
        BY <2>1 DEF Step, PairedInv
      <3>2. IInv'
        BY <3>1, NextTypes
      <3>3. CASE Overflow \/ Overtaking \/ PressedAgain \/ Mispaired
        <4>1. disturbed'
          BY <2>1, <3>3 DEF Step
        <4> QED
          BY <4>1 DEF PairedInv
      <3>4. CASE ~(Overflow \/ Overtaking \/ PressedAgain \/ Mispaired)
        <4>1. KeysPaired'
          BY <3>1, <3>2, <3>4, NextPaired
        <4> QED
          BY <3>2, <4>1 DEF PairedInv
      <3> QED
        BY <3>3, <3>4
    <2>2. CASE Stop
      BY <2>2 DEF Stop, tracedVars, PairedInv
    <2>3. CASE UNCHANGED tracedVars
      BY <2>3 DEF tracedVars, vars, PairedInv, IInv, LoopTypes, KeysPaired
    <2> QED
      BY <2>1, <2>2, <2>3
  <1> QED
    BY <1>1, <1>2, PTL DEF TracedSpec

(* Every key and modifier the keyboard reports belongs to a key that is    *)
(* down or whose release still waits, whatever the keymap and the timing,  *)
(* until one of the four disturbances happens: the release that is         *)
(* processed undoes what its press did (action_layer.c:262).               *)
THEOREM KeysHeld == TracedSpec => []KeysHeldUndisturbed
  <1>1. PairedInv => KeysHeldUndisturbed
    BY PairedIsHeld DEF PairedInv, KeysHeldUndisturbed
  <1> QED
    BY <1>1, PairedInvariant, PTL

(* Likewise every layer that is on, unless a toggle or a one-shot key may  *)
(* have left it on: it goes off with the key that turned it on.            *)
THEOREM LayersHeld == TracedSpec => []LayersHeldUndisturbed
  <1>1. PairedInv => LayersHeldUndisturbed
    BY PairedIsHeld DEF PairedInv, LayersHeldUndisturbed
  <1> QED
    BY <1>1, PairedInvariant, PTL

-----------------------------------------------------------------------------
(* The order in which the presses are processed                            *)

\* The key that waits for its own decision, as in UndecidedKey.
WaitingKey(t) == IF t.pressed /\ t.count = 0 THEN <<t.key>> ELSE <<>>

LEMMA WaitingKeyType ==
    ASSUME NEW t \in RecordsOrNone
    PROVE  /\ WaitingKey(t) \in Seq(Positions) /\ PressOf(t) \in Seq(Positions)
           /\ WaitingKey(t) \o <<>> = WaitingKey(t) /\ <<>> \o WaitingKey(t) = WaitingKey(t)
           /\ PressOf(t) \o <<>> = PressOf(t) /\ <<>> \o PressOf(t) = PressOf(t)
  <1>1. t.pressed => t.key \in Positions
    BY RecordParts
  <1>2. <<>> \in Seq(Positions)
    OBVIOUS
  <1>3. WaitingKey(t) \in Seq(Positions) /\ PressOf(t) \in Seq(Positions)
    BY <1>1, <1>2 DEF WaitingKey, PressOf
  <1> QED
    BY <1>3, ConcatEmptySeq

\* y is left by process_tapping for the record r: its press is processed, or
\* waits as the tapping key, behind the press of the key that was undecided;
\* or that press is processed alone, and may go on waiting.
Ordered(y, s, r) ==
    /\ y.rec.key = r.key /\ y.rec.pressed = r.pressed
    /\ SamePresses(y.buffer, s.buffer)
    /\ y.done => PressesOf(y.out) \o WaitingKey(y.tapping) = WaitingKey(s.tapping) \o PressOf(r)
    /\ y.done => WaitingKey(s.tapping) = <<>> \/ ~r.pressed
    /\ ~y.done => \/ PressesOf(y.out) \o WaitingKey(y.tapping) = WaitingKey(s.tapping)
                  \/ /\ PressesOf(y.out) = WaitingKey(s.tapping)
                     /\ WaitingKey(y.tapping) = WaitingKey(s.tapping)

\* A state before any record is processed, and a record that waits.
Fresh(s, r) ==
    /\ s \in States /\ s.out = <<>> /\ r \in RecordsOrNone
    /\ r.pressed => r.count = 0 /\ ~r.interrupted

LEMMA FirstPress ==
    ASSUME NEW x \in States, x.out = <<>>, NEW z \in RecordsOrNone,
           NEW n, n = ProcessRecord(x, z)
    PROVE  /\ PressesOf(n.out) = PressOf(z)
           /\ n \in States /\ n.rec \in RecordsOrNone /\ n.rec.key = z.key
           /\ n.rec.pressed => z.pressed
           /\ n.rec.count = z.count \/ (z.interrupted /\ n.rec.count = 0)
  <1>1. Did(n, x, z)
    BY ProcessRecordDid
  <1>2. PressesOf(x.out) \o PressOf(z) = PressOf(z)
    BY NoPresses, WaitingKeyType
  <1> QED
    BY <1>1, <1>2 DEF Did, States

LEMMA SameSame == \A b : SamePresses(b, b)
  BY DEF SamePresses

LEMMA CopyParts ==
    ASSUME NEW key, NEW r \in RecordsOrNone
    PROVE  CopyTap(key, r).key = r.key /\ CopyTap(key, r).pressed = r.pressed
  BY DEF CopyTap, RecordsOrNone, Records, NoEvent

\* Nothing is processed.
LEMMA OrderedNone ==
    ASSUME NEW s, NEW r, Fresh(s, r), NEW x, x.out = <<>>, x.tapping \in RecordsOrNone,
           SamePresses(x.buffer, s.buffer), NEW done \in BOOLEAN,
           Decision(s, r) = Decide(x, <<>>, FALSE, done),
           done => WaitingKey(s.tapping) = <<>> /\ WaitingKey(x.tapping) = PressOf(r),
           ~done => WaitingKey(x.tapping) = WaitingKey(s.tapping)
    PROVE  Ordered(ProcessTapping(s, r), s, r)
  <1> DEFINE y == ProcessTapping(s, r)
  <1>1. s \in States /\ r \in RecordsOrNone
    BY DEF Fresh
  <1>2. TookNone(y, x, r, done)
    BY <1>1, TakenNone
  <1> HIDE DEF y
  <1>3. PressesOf(y.out) = <<>> /\ y.tapping = x.tapping /\ y.buffer = x.buffer
        /\ y.done = done /\ y.rec = r
    BY <1>2, NoPresses DEF TookNone
  <1>4. /\ <<>> \o WaitingKey(x.tapping) = WaitingKey(x.tapping)
        /\ <<>> \o PressOf(r) = PressOf(r)
    BY <1>1, WaitingKeyType
  <1> QED
    BY <1>3, <1>4 DEF Ordered, y

\* The record itself is processed, and no key is undecided; or it is a release.
LEMMA OrderedRecord ==
    ASSUME NEW s, NEW r, Fresh(s, r), NEW x \in States, x.out = <<>>, x.buffer = s.buffer,
           NEW z \in RecordsOrNone, z.pressed = r.pressed, z.key = r.key,
           Decision(s, r) = Handle(x, <<z>>),
           WaitingKey(x.tapping) = WaitingKey(s.tapping),
           WaitingKey(s.tapping) = <<>> \/ ~r.pressed
    PROVE  Ordered(ProcessTapping(s, r), s, r)
  <1> DEFINE y == ProcessTapping(s, r)
             n == ProcessRecord(x, z)
  <1>1. s \in States /\ r \in RecordsOrNone /\ s.tapping \in RecordsOrNone
    BY StateParts DEF Fresh
  <1>2. TookOne(y, x, z, r, TRUE)
    BY <1>1, TakenOne DEF Handle
  <1>3. PressesOf(n.out) = PressOf(z)
    BY FirstPress
  <1> HIDE DEF y
  <1>4. y.out = n.out /\ y.tapping = x.tapping /\ y.buffer = x.buffer /\ y.done /\ y.rec = r
    BY <1>2 DEF TookOne
  <1>5. PressOf(z) = PressOf(r)
    BY DEF PressOf
  <1>6. /\ PressOf(r) \o <<>> = PressOf(r) /\ <<>> \o PressOf(r) = PressOf(r)
        /\ <<>> \o WaitingKey(s.tapping) = WaitingKey(s.tapping)
        /\ WaitingKey(s.tapping) \o <<>> = WaitingKey(s.tapping)
    BY <1>1, WaitingKeyType
  <1>7. ~r.pressed => PressOf(r) = <<>>
    BY DEF PressOf
  <1>8. PressOf(r) \o WaitingKey(s.tapping) = WaitingKey(s.tapping) \o PressOf(r)
    BY <1>6, <1>7
  <1> HIDE DEF n
  <1>9. PressesOf(y.out) \o WaitingKey(y.tapping) = WaitingKey(s.tapping) \o PressOf(r)
    BY <1>3, <1>4, <1>5, <1>8
  <1> QED
    BY <1>4, <1>9, SameSame DEF Ordered, y

\* The record, as z, becomes the tapping key as it is processed.
LEMMA OrderedTapping ==
    ASSUME NEW s, NEW r, Fresh(s, r), NEW x \in States, x.out = <<>>,
           SamePresses(x.buffer, s.buffer),
           NEW z \in RecordsOrNone, z.pressed = r.pressed, z.key = r.key,
           z.pressed => z.count > 0 /\ ~z.interrupted,
           Decision(s, r) = HandleTapping(x, <<z>>), WaitingKey(s.tapping) = <<>>
    PROVE  Ordered(ProcessTapping(s, r), s, r)
  <1> DEFINE y == ProcessTapping(s, r)
             n == ProcessRecord(x, z)
  <1>1. s \in States /\ r \in RecordsOrNone
    BY DEF Fresh
  <1>2. TookTapping(y, x, z, r, TRUE)
    BY <1>1, TakenTapping DEF HandleTapping
  <1>3. /\ PressesOf(n.out) = PressOf(z)
        /\ n.rec.pressed => z.pressed
        /\ n.rec.count = z.count \/ (z.interrupted /\ n.rec.count = 0)
    BY FirstPress
  <1> HIDE DEF y
  <1>4. /\ y.out = n.out /\ y.tapping = n.rec /\ y.buffer = x.buffer /\ y.done
        /\ y.rec = CopyTap(n.rec, r)
    BY <1>2 DEF TookTapping
  <1> HIDE DEF n
  <1>5. WaitingKey(y.tapping) = <<>>
    <2>1. n.rec.pressed => n.rec.count = z.count /\ z.count > 0
      BY <1>3
    <2>2. z.count \in Nat
      BY RecordCount
    <2>3. ~(n.rec.pressed /\ n.rec.count = 0)
      BY <2>1, <2>2
    <2> QED
      BY <1>4, <2>3 DEF WaitingKey
  <1>6. PressOf(z) = PressOf(r)
    BY DEF PressOf
  <1>7. PressOf(r) \o <<>> = PressOf(r) /\ <<>> \o PressOf(r) = PressOf(r)
    BY <1>1, WaitingKeyType
  <1>8. y.rec.key = r.key /\ y.rec.pressed = r.pressed
    BY <1>1, <1>4, CopyParts
  <1> QED
    BY <1>3, <1>4, <1>5, <1>6, <1>7, <1>8 DEF Ordered, y

\* The record becomes the tapping key, once todo is processed, which has no
\* press.
Silent(todo) ==
    \A x \in States : x.out = <<>> =>
        ProcessAll(x, todo) \in States /\ PressesOf(ProcessAll(x, todo).out) = <<>>

LEMMA SilentTodo ==
    /\ Silent(<<>>)
    /\ \A z \in RecordsOrNone : ~z.pressed => Silent(<<z>>)
  <1>1. ASSUME NEW x \in States, x.out = <<>>
        PROVE  ProcessAll(x, <<>>) = x /\ PressesOf(x.out) = <<>>
    <2>1. <<>> \in Seq(RecordsOrNone) /\ Len(<<>>) \in {0, 1, 2} /\ Len(<<>>) = 0
      BY TodoType
    <2> QED
      BY <1>1, <2>1, ProcessAllIs, NoPresses
  <1>2. ASSUME NEW z \in RecordsOrNone, ~z.pressed, NEW x \in States, x.out = <<>>
        PROVE  /\ ProcessAll(x, <<z>>) \in States
               /\ PressesOf(ProcessAll(x, <<z>>).out) = <<>>
    <2> DEFINE todo == <<z>>
               n == ProcessRecord(x, z)
    <2>1. todo \in Seq(RecordsOrNone) /\ Len(todo) \in {0, 1, 2} /\ Len(todo) = 1 /\ todo[1] = z
      BY TodoType
    <2> HIDE DEF todo
    <2>2. ProcessAll(x, todo) = n
      BY <2>1, ProcessAllIs
    <2>3. n \in States /\ PressesOf(n.out) = PressOf(z)
      BY <1>2, FirstPress
    <2>4. PressOf(z) = <<>>
      BY <1>2 DEF PressOf
    <2> QED
      BY <2>2, <2>3, <2>4 DEF todo
  <1> QED
    BY <1>1, <1>2 DEF Silent

\* A release that waits is marked.
MarkedAt(s, j) == [s EXCEPT !.buffer[j].count = 1]

LEMMA MarkedBuffer ==
    ASSUME NEW s \in States, NEW j \in DOMAIN s.buffer,
           NEW x, x = MarkedAt(s, j)
    PROVE  /\ x \in States /\ x.out = s.out /\ x.tapping = s.tapping
           /\ SamePresses(x.buffer, s.buffer)
  <1> DEFINE b == s.buffer
             w == [b[j] EXCEPT !.count = 1]
             c == [b EXCEPT ![j] = w]
  <1>1. b \in Seq(Records) /\ DOMAIN b = 1..Len(b) /\ j \in 1..Len(b)
    BY StateParts, LenProperties
  <1>2. b[j] \in Records
    BY <1>1, ElementOfSeq
  <1>3. w \in Records /\ w.key = b[j].key /\ w.pressed = b[j].pressed
    BY <1>2, SetRecord DEF Records
  <1>4. x = [s EXCEPT !.buffer = c]
    BY DEF MarkedAt
  <1> HIDE DEF w
  <1>5. c \in Seq(Records) /\ Len(c) = Len(b)
    BY <1>1, <1>3, ExceptSeq
  <1>6. \A i \in 1..Len(b) : c[i].key = b[i].key /\ c[i].pressed = b[i].pressed
    BY <1>1, <1>3
  <1> HIDE DEF c
  <1>7. x \in States /\ x.buffer = c /\ x.out = s.out /\ x.tapping = s.tapping
    BY <1>4, <1>5 DEF States
  <1> QED
    BY <1>5, <1>6, <1>7 DEF SamePresses

LEMMA OrderedStart ==
    ASSUME NEW s, NEW r, Fresh(s, r), r.pressed, WaitingKey(s.tapping) = <<>>,
           NEW todo \in Seq(RecordsOrNone), Len(todo) \in {0, 1}, Silent(todo),
           Decision(s, r) = StartTapping(s, todo, r)
    PROVE  Ordered(ProcessTapping(s, r), s, r)
  <1> DEFINE y == ProcessTapping(s, r)
             d == Decision(s, r)
             x == [s EXCEPT !.tapping = r]
             z == [r EXCEPT !.count = 1]
             n == ProcessAll(d.state, d.todo)
  <1>1. /\ s \in States /\ r \in RecordsOrNone /\ s.out = <<>>
        /\ r.count = 0 /\ ~r.interrupted
    BY DEF Fresh
  <1>2. x \in States /\ x.tapping = r /\ x.buffer = s.buffer /\ x.out = <<>>
    BY <1>1, SetTapping DEF States
  <1>3. d = ScanTap(x, todo)
    BY DEF StartTapping
  <1>4. WaitingKey(r) = PressOf(r)
    BY <1>1 DEF WaitingKey, PressOf
  <1>5. r \in Records
    BY <1>1, RecordParts
  <1>6. /\ z \in RecordsOrNone /\ z.key = r.key /\ z.pressed /\ z.count = 1 /\ ~z.interrupted
    <2>1. z \in Records
      BY <1>5, SetRecord
    <2>2. z.key = r.key /\ z.pressed = r.pressed /\ z.count = 1 /\ z.interrupted = r.interrupted
      BY <1>5 DEF Records
    <2> QED
      BY <1>1, <2>1, <2>2 DEF RecordsOrNone
  <1>7. Takes(y, d, r)
    BY <1>1, TakenIs
  <1>8. /\ PressOf(r) \o <<>> = PressOf(r) /\ <<>> \o PressOf(r) = PressOf(r)
        /\ <<>> \o WaitingKey(r) = WaitingKey(r)
    BY <1>1, WaitingKeyType
  <1> HIDE DEF x, y, d
  <1>9. CASE d = Handle(x, todo)
    <2>1. d.state = x /\ d.todo = todo /\ d.follows = FALSE /\ d.done = TRUE
      BY <1>9 DEF Handle, Decide
    <2>2. PressesOf(n.out) = <<>>
      BY <1>2, <2>1 DEF Silent
    <2> HIDE DEF n
    <2>3. y.out = n.out /\ y.tapping = r /\ y.buffer = s.buffer /\ y.done /\ y.rec = r
      BY <1>2, <1>7, <2>1 DEF Takes, n
    <2> QED
      BY <1>4, <1>8, <2>2, <2>3, SameSame DEF Ordered, y
  <1>10. ASSUME NEW j, ScanFinds(x, todo, j)
         PROVE  Ordered(y, s, r)
    <2> DEFINE u == [x EXCEPT !.buffer[j].count = 1]
               more == Append(todo, z)
               m == ProcessAll(u, todo)
    <2>1. d = HandleTapping(u, more) /\ j \in DOMAIN x.buffer
      BY <1>2, <1>3, <1>10 DEF ScanFinds
    <2>2. /\ u \in States /\ u.out = <<>> /\ u.tapping = r
          /\ SamePresses(u.buffer, s.buffer)
      <3>1. u = [x EXCEPT !.buffer[j].count = 1]
        OBVIOUS
      <3>3. u = MarkedAt(x, j)
        BY <3>1 DEF MarkedAt
      <3> HIDE DEF u
      <3>2. /\ u \in States /\ u.out = x.out /\ u.tapping = x.tapping
            /\ SamePresses(u.buffer, x.buffer)
        BY <1>2, <2>1, <3>3, MarkedBuffer
      <3> QED
        BY <1>2, <3>2
    <2>3. d.state = u /\ d.todo = more /\ d.follows = TRUE /\ d.done = TRUE
      BY <2>1 DEF HandleTapping, Decide
    <2> HIDE DEF u, z
    <2>4. m \in States /\ PressesOf(m.out) = <<>>
      BY <2>2 DEF Silent
    <2>5. n = ProcessRecord(m, z)
      BY <1>6, <2>3, ProcessAllAppend
    <2> HIDE DEF m, n
    <2>6. Did(n, m, z)
      BY <1>6, <2>4, <2>5, ProcessRecordDid
    <2>7. n.rec.count = 1 /\ PressesOf(n.out) = <<>> \o PressOf(z)
      BY <1>6, <2>4, <2>6 DEF Did
    <2>8. PressOf(z) = PressOf(r)
      BY <1>6 DEF PressOf
    <2>9. WaitingKey(n.rec) = <<>>
      BY <2>7 DEF WaitingKey
    <2>10. /\ y.out = n.out /\ y.tapping = n.rec /\ y.buffer = u.buffer /\ y.done
           /\ y.rec = CopyTap(n.rec, r)
      BY <1>7, <2>3 DEF Takes, n
    <2>11. y.rec.key = r.key /\ y.rec.pressed = r.pressed
      <3>1. CopyTap(n.rec, r).key = r.key /\ CopyTap(n.rec, r).pressed = r.pressed
        BY <1>1, CopyParts
      <3> QED
        BY <2>10, <3>1
    <2> QED
      BY <1>8, <2>2, <2>7, <2>8, <2>9, <2>10, <2>11 DEF Ordered
  <1>11. d = Handle(x, todo) \/ \E j : ScanFinds(x, todo, j)
    BY <1>2, <1>3, ScanTapIs
  <1> QED
    BY <1>9, <1>10, <1>11 DEF y

\* Each decision leaves the presses in order.
LEMMA OrderedUndecided ==
    ASSUME NEW s, NEW r, Fresh(s, r), s.tapping.key # NoKey,
           s.tapping.pressed, s.tapping.count = 0,
           Decision(s, r) \in {Undecided(s, r), HoldTimeout(s)}
    PROVE  Ordered(ProcessTapping(s, r), s, r)
  <1> DEFINE t == s.tapping
             y == ProcessTapping(s, r)
             once == [t EXCEPT !.count = 1]
             i == [s EXCEPT !.tapping.interrupted = @ \/ r.pressed]
             none == [s EXCEPT !.tapping = NoEvent]
  <1>1. /\ s \in States /\ r \in RecordsOrNone /\ s.out = <<>>
        /\ t \in RecordsOrNone /\ t \in Records
    BY StateParts DEF Fresh
  <1>2. WaitingKey(t) = <<t.key>> /\ PressOf(t) = <<t.key>>
    BY DEF WaitingKey, PressOf
  <1>3. WaitingKey(t) \o <<>> = WaitingKey(t)
    BY <1>1, WaitingKeyType
  <1>4. CASE Decision(s, r) = Decide(s, <<once>>, TRUE, FALSE)
    <2> DEFINE n == ProcessRecord(s, once)
    <2>1. /\ once \in RecordsOrNone /\ once.key = t.key /\ once.pressed
          /\ once.count = 1
      <3>1. once \in Records
        BY <1>1, TappingOnce
      <3>2. once.key = t.key /\ once.pressed = t.pressed /\ once.count = 1
        BY <1>1 DEF Records
      <3> QED
        BY <3>1, <3>2 DEF RecordsOrNone
    <2> HIDE DEF once
    <2>2. TookTapping(y, s, once, r, FALSE)
      BY <1>1, <1>4, <2>1, TakenTapping
    <2>3. /\ PressesOf(n.out) = PressOf(once) /\ n.rec.key = t.key
          /\ n.rec \in RecordsOrNone
      BY <1>1, <2>1, FirstPress
    <2>4. PressOf(once) = <<t.key>>
      BY <2>1 DEF PressOf
    <2> HIDE DEF n
    <2>5. WaitingKey(n.rec) = <<>> \/ WaitingKey(n.rec) = <<t.key>>
      BY <2>3 DEF WaitingKey
    <2>6. /\ y.out = n.out /\ y.tapping = n.rec /\ y.buffer = s.buffer /\ y.done = FALSE
          /\ y.rec = CopyTap(n.rec, r)
      BY <2>2 DEF TookTapping, n
    <2>7. y.rec.key = r.key /\ y.rec.pressed = r.pressed
      <3>1. CopyTap(n.rec, r).key = r.key /\ CopyTap(n.rec, r).pressed = r.pressed
        BY <1>1, CopyParts
      <3> QED
        BY <2>6, <3>1
    <2> HIDE DEF y
    <2>8. \/ PressesOf(y.out) \o WaitingKey(y.tapping) = WaitingKey(t)
          \/ PressesOf(y.out) = WaitingKey(t) /\ WaitingKey(y.tapping) = WaitingKey(t)
      BY <1>2, <1>3, <2>3, <2>4, <2>5, <2>6
    <2> QED
      BY <2>6, <2>7, <2>8, SameSame DEF Ordered, y
  <1>5. CASE Decision(s, r) = Wait(s)
    <2>1. Decision(s, r) = Decide(s, <<>>, FALSE, FALSE)
      BY <1>5 DEF Wait
    <2> QED
      BY <1>1, <2>1, SameSame, OrderedNone
  <1>6. CASE Decision(s, r) = Handle(s, <<r>>) /\ ~r.pressed
    BY <1>1, <1>6, OrderedRecord
  <1>7. CASE Decision(s, r) = Wait(i)
    <2>1. Decision(s, r) = Decide(i, <<>>, FALSE, FALSE)
      BY <1>7 DEF Wait
    <2>2. i \in States /\ i.buffer = s.buffer
      BY <1>1, TappingOnce
    <2>3. /\ i.out = <<>> /\ i.tapping.key = t.key /\ i.tapping.pressed = t.pressed
          /\ i.tapping.count = t.count
      BY <1>1 DEF States, Records
    <2> HIDE DEF i
    <2>4. i.tapping \in RecordsOrNone
      BY <2>2, StateParts
    <2>5. WaitingKey(i.tapping) = WaitingKey(t)
      BY <2>3 DEF WaitingKey
    <2> QED
      BY <2>1, <2>2, <2>3, <2>4, <2>5, SameSame, OrderedNone
  <1>8. CASE Decision(s, r) = HoldTimeout(s)
    <2> DEFINE n == ProcessRecord(none, t)
    <2>1. none \in States /\ none.buffer = s.buffer /\ none.tapping = NoEvent /\ none.out = <<>>
      BY <1>1, NoTapping DEF States
    <2>2. Decision(s, r) = Decide(none, <<t>>, FALSE, FALSE)
      BY <1>8 DEF HoldTimeout
    <2> HIDE DEF none
    <2>3. TookOne(y, none, t, r, FALSE)
      BY <1>1, <2>2, TakenOne
    <2>4. PressesOf(n.out) = PressOf(t)
      BY <1>1, <2>1, FirstPress
    <2> HIDE DEF n
    <2>5. /\ y.out = n.out /\ y.tapping = NoEvent /\ y.buffer = s.buffer /\ y.done = FALSE
          /\ y.rec = r
      BY <2>1, <2>3 DEF TookOne, n
    <2>6. WaitingKey(NoEvent) = <<>>
      BY NoneType DEF WaitingKey
    <2> HIDE DEF y
    <2>7. PressesOf(y.out) \o WaitingKey(y.tapping) = WaitingKey(t)
      BY <1>2, <1>3, <2>4, <2>5, <2>6
    <2> QED
      BY <2>5, <2>7, SameSame DEF Ordered, y
  <1>9. \/ Decision(s, r) \in {Decide(s, <<once>>, TRUE, FALSE), Wait(s), Wait(i), HoldTimeout(s)}
        \/ Decision(s, r) = Handle(s, <<r>>) /\ ~r.pressed
    BY DEF Undecided
  <1> QED
    BY <1>4, <1>5, <1>6, <1>7, <1>8, <1>9

\* The record is processed while no key is undecided, or starts a tapping.
LEMMA OrderedHandle ==
    ASSUME NEW s, NEW r, Fresh(s, r), WaitingKey(s.tapping) = <<>>,
           Decision(s, r) = Handle(s, <<r>>)
    PROVE  Ordered(ProcessTapping(s, r), s, r)
  <1>1. s \in States /\ r \in RecordsOrNone /\ s.out = <<>>
    BY DEF Fresh
  <1> QED
    BY <1>1, OrderedRecord

LEMMA OrderedStartNone ==
    ASSUME NEW s, NEW r, Fresh(s, r), WaitingKey(s.tapping) = <<>>, r.pressed,
           Decision(s, r) = StartTapping(s, <<>>, r)
    PROVE  Ordered(ProcessTapping(s, r), s, r)
  <1>1. <<>> \in Seq(RecordsOrNone) /\ Len(<<>>) \in {0, 1}
    OBVIOUS
  <1> QED
    BY <1>1, SilentTodo, OrderedStart

LEMMA OrderedTapped ==
    ASSUME NEW s, NEW r, Fresh(s, r), s.tapping.key # NoKey, s.tapping.count > 0,
           Decision(s, r) = Tapped(s, r)
    PROVE  Ordered(ProcessTapping(s, r), s, r)
  <1> DEFINE t == s.tapping
             copy == CopyTap(t, r)
             none == [s EXCEPT !.tapping = NoEvent]
             up == [t EXCEPT !.pressed = FALSE, !.age = 0]
  <1>1. /\ s \in States /\ r \in RecordsOrNone /\ s.out = <<>>
        /\ t \in RecordsOrNone /\ t \in Records
    BY StateParts DEF Fresh
  <1>2. WaitingKey(t) = <<>>
    <2>1. t.count # 0
      BY <1>1, RecordCount
    <2> QED
      BY <2>1 DEF WaitingKey
  <1>3. CASE IsTappingRecord(s, r) /\ ~r.pressed
    <2>1. copy \in RecordsOrNone /\ copy.key = r.key /\ copy.pressed = r.pressed
      <3>1. r \in Records
        BY <1>1, <1>3, RecordParts DEF IsTappingRecord
      <3>2. copy \in RecordsOrNone
        BY <1>1, <3>1, SetRecord DEF RecordsOrNone
      <3> QED
        BY <1>1, <3>2, CopyParts
    <2>2. /\ none \in States /\ none.buffer = s.buffer /\ none.tapping = NoEvent
          /\ none.out = <<>>
      BY <1>1, NoTapping DEF States
    <2>3. WaitingKey(NoEvent) = <<>>
      BY NoneType DEF WaitingKey
    <2>4. Tapped(s, r) \in {HandleTapping(s, <<copy>>), Handle(none, <<copy>>)}
      BY <1>3 DEF Tapped
    <2> HIDE DEF copy, none
    <2>5. CASE Decision(s, r) = HandleTapping(s, <<copy>>)
      BY <1>1, <1>2, <1>3, <2>1, <2>5, SameSame, OrderedTapping
    <2>6. CASE Decision(s, r) = Handle(none, <<copy>>)
      BY <1>2, <2>1, <2>2, <2>3, <2>6, OrderedRecord
    <2> QED
      BY <2>4, <2>5, <2>6
  <1>4. CASE ~(IsTappingRecord(s, r) /\ ~r.pressed) /\ r.pressed /\ IsTapRecord(s, r)
    <2>1. up \in RecordsOrNone /\ ~up.pressed
      <3>1. up \in Records
        BY <1>1, TappingOnce
      <3>2. ~up.pressed
        BY <1>1 DEF Records
      <3> QED
        BY <3>1, <3>2 DEF RecordsOrNone
    <2>2. \E todo \in {<<>>, <<up>>} : Tapped(s, r) = StartTapping(s, todo, r)
      BY <1>4 DEF Tapped
    <2> HIDE DEF up
    <2>3. <<up>> \in Seq(RecordsOrNone) /\ Len(<<up>>) \in {0, 1} /\ Silent(<<up>>)
      <3>1. <<up>> \in Seq(RecordsOrNone) /\ Len(<<up>>) = 1
        BY <2>1
      <3> QED
        BY <2>1, <3>1, SilentTodo
    <2>4. CASE Decision(s, r) = StartTapping(s, <<>>, r)
      BY <1>2, <1>4, <2>4, OrderedStartNone
    <2>5. CASE Decision(s, r) = StartTapping(s, <<up>>, r)
      <3> DEFINE todo == <<up>>
      <3>1. todo \in Seq(RecordsOrNone) /\ Len(todo) \in {0, 1} /\ Silent(todo)
        BY <2>3
      <3>2. Decision(s, r) = StartTapping(s, todo, r)
        BY <2>5
      <3> HIDE DEF todo
      <3> QED
        BY <1>2, <1>4, <3>1, <3>2, OrderedStart
    <2> QED
      BY <2>2, <2>4, <2>5
  <1>5. CASE ~(IsTappingRecord(s, r) /\ ~r.pressed) /\ ~(r.pressed /\ IsTapRecord(s, r))
    <2>1. Decision(s, r) = Handle(s, <<r>>)
      BY <1>5 DEF Tapped
    <2> QED
      BY <1>2, <2>1, OrderedHandle
  <1> QED
    BY <1>3, <1>4, <1>5

LEMMA CountPositive ==
    ASSUME NEW c \in 0..MaxCount
    PROVE  Min({c + 1, MaxCount}) > 0
  <1>1. MaxCount \in Nat /\ MaxCount > 1
    BY TappingAssumption
  <1>2. \E x \in {c + 1, MaxCount} : \A y \in {c + 1, MaxCount} : x <= y
    BY <1>1
  <1>3. Min({c + 1, MaxCount}) \in {c + 1, MaxCount}
    BY <1>2 DEF Min
  <1> QED
    BY <1>1, <1>3

LEMMA OrderedAfterTap ==
    ASSUME NEW s, NEW r, Fresh(s, r), s.tapping.key # NoKey, ~s.tapping.pressed,
           Decision(s, r) = AfterTap(s, r)
    PROVE  Ordered(ProcessTapping(s, r), s, r)
  <1> DEFINE t == s.tapping
             i == [s EXCEPT !.tapping.interrupted = @ \/ r.pressed]
             c == Min({t.count + 1, MaxCount})
             again == [r EXCEPT !.count = c]
             x == [s EXCEPT !.tapping = r]
  <1>1. /\ s \in States /\ r \in RecordsOrNone /\ s.out = <<>>
        /\ t \in RecordsOrNone /\ t \in Records
        /\ r.pressed => r.count = 0 /\ ~r.interrupted
    BY StateParts DEF Fresh
  <1>2. WaitingKey(t) = <<>>
    BY DEF WaitingKey
  <1>3. CASE r.pressed /\ IsTappingRecord(s, r)
    <2>1. r \in Records
      BY <1>1, <1>3, RecordParts
    <2>2. c \in 0..MaxCount /\ c > 0
      <3> DEFINE m == t.count
      <3>1. m \in 0..MaxCount
        BY <1>1, RecordFields
      <3> HIDE DEF m
      <3>2. Min({m + 1, MaxCount}) \in 0..MaxCount /\ Min({m + 1, MaxCount}) > 0
        BY <3>1, NextCount, CountPositive
      <3> QED
        BY <3>2, Zenon DEF m
    <2> HIDE DEF c
    <2>3. again \in RecordsOrNone /\ again.key = r.key /\ again.pressed = r.pressed
          /\ again.count > 0 /\ ~again.interrupted
      <3>1. again \in Records
        BY <2>1, <2>2, SetRecord
      <3>2. again.key = r.key /\ again.pressed = r.pressed /\ again.count = c
            /\ again.interrupted = r.interrupted
        BY <2>1 DEF Records
      <3> QED
        BY <1>1, <1>3, <2>2, <3>1, <3>2 DEF RecordsOrNone
    <2>4. x \in States /\ x.buffer = s.buffer /\ x.tapping = r /\ x.out = <<>>
      BY <1>1, SetTapping DEF States
    <2>5. WaitingKey(r) = PressOf(r)
      BY <1>1 DEF WaitingKey, PressOf
    <2>6. AfterTap(s, r) \in {HandleTapping(s, <<again>>), Handle(x, <<>>)}
      BY <1>3 DEF AfterTap, c
    <2> HIDE DEF again, x
    <2>7. CASE Decision(s, r) = HandleTapping(s, <<again>>)
      BY <1>1, <1>2, <2>3, <2>7, SameSame, OrderedTapping
    <2>8. CASE Decision(s, r) = Handle(x, <<>>)
      <3>1. Decision(s, r) = Decide(x, <<>>, FALSE, TRUE)
        BY <2>8 DEF Handle
      <3> QED
        BY <1>1, <1>2, <2>4, <2>5, <3>1, SameSame, OrderedNone
    <2> QED
      BY <2>6, <2>7, <2>8
  <1>4. CASE ~(r.pressed /\ IsTappingRecord(s, r)) /\ r.pressed /\ IsTapRecord(s, r)
    <2>1. Decision(s, r) = StartTapping(s, <<>>, r)
      BY <1>4 DEF AfterTap
    <2> QED
      BY <1>2, <1>4, <2>1, OrderedStartNone
  <1>5. CASE ~(r.pressed /\ IsTappingRecord(s, r)) /\ ~(r.pressed /\ IsTapRecord(s, r))
    <2>1. i \in States /\ i.buffer = s.buffer
      BY <1>1, TappingOnce
    <2>2. i.out = <<>> /\ i.tapping.pressed = t.pressed
      BY <1>1 DEF States, Records
    <2>3. Decision(s, r) = Handle(i, <<r>>)
      BY <1>5 DEF AfterTap
    <2> HIDE DEF i
    <2>4. WaitingKey(i.tapping) = <<>>
      BY <2>2 DEF WaitingKey
    <2> QED
      BY <1>1, <1>2, <2>1, <2>2, <2>3, <2>4, OrderedRecord
  <1> QED
    BY <1>3, <1>4, <1>5

LEMMA OrderedNotTapping ==
    ASSUME NEW s, NEW r, Fresh(s, r), s.tapping.key = NoKey,
           Decision(s, r) = NotTapping(s, r)
    PROVE  Ordered(ProcessTapping(s, r), s, r)
  <1>1. s.tapping = NoEvent
    BY StateParts, RecordParts DEF Fresh
  <1>2. WaitingKey(s.tapping) = <<>>
    BY <1>1, NoneType DEF WaitingKey
  <1>3. CASE r.pressed /\ IsTapRecord(s, r)
    <2>1. Decision(s, r) = StartTapping(s, <<>>, r)
      BY <1>3 DEF NotTapping
    <2> QED
      BY <1>2, <1>3, <2>1, OrderedStartNone
  <1>4. CASE ~(r.pressed /\ IsTapRecord(s, r))
    <2>1. Decision(s, r) = Handle(s, <<r>>)
      BY <1>4 DEF NotTapping
    <2> QED
      BY <1>2, <2>1, OrderedHandle
  <1> QED
    BY <1>3, <1>4

\* One call of process_tapping leaves the presses in order.
LEMMA CallOrdered ==
    ASSUME NEW s, NEW r, Fresh(s, r)
    PROVE  Ordered(ProcessTapping(s, r), s, r)
  <1> DEFINE t == s.tapping
             none == [s EXCEPT !.tapping = NoEvent]
  <1>1. s \in States /\ r \in RecordsOrNone /\ s.out = <<>> /\ t \in RecordsOrNone
    BY StateParts DEF Fresh
  <1>2. t.count \in Nat /\ t.pressed \in BOOLEAN
    BY <1>1, RecordCount
  <1>3. CASE t.key = NoKey
    <2>1. Decision(s, r) = NotTapping(s, r)
      BY <1>3 DEF Decision
    <2> QED
      BY <1>3, <2>1, OrderedNotTapping
  <1>4. CASE t.key # NoKey /\ t.pressed /\ t.count = 0
    <2>1. Decision(s, r) \in {Undecided(s, r), HoldTimeout(s)}
      BY <1>4 DEF Decision
    <2> QED
      BY <1>4, <2>1, OrderedUndecided
  <1>5. CASE t.key # NoKey /\ t.pressed /\ t.count > 0
    <2>1. Decision(s, r) = Tapped(s, r)
      BY <1>2, <1>5 DEF Decision
    <2> QED
      BY <1>5, <2>1, OrderedTapped
  <1>6. CASE t.key # NoKey /\ ~t.pressed
    <2>1. Decision(s, r) = AfterTap(s, r) \/ Decision(s, r) = Wait(none)
      BY <1>2, <1>6 DEF Decision
    <2>2. CASE Decision(s, r) = Wait(none)
      <3>1. none \in States /\ none.buffer = s.buffer /\ none.tapping = NoEvent /\ none.out = <<>>
        BY <1>1, NoTapping DEF States
      <3>2. WaitingKey(NoEvent) = <<>> /\ WaitingKey(t) = <<>> /\ NoEvent \in RecordsOrNone
        BY <1>6, NoneType DEF WaitingKey, RecordsOrNone
      <3>3. Decision(s, r) = Decide(none, <<>>, FALSE, FALSE)
        BY <2>2 DEF Wait
      <3> HIDE DEF none
      <3> QED
        BY <3>1, <3>2, <3>3, SameSame, OrderedNone
    <2> QED
      BY <1>6, <2>1, <2>2, OrderedAfterTap
  <1> QED
    BY <1>2, <1>3, <1>4, <1>5, <1>6

-----------------------------------------------------------------------------
(* The presses that wait are in the order the keys were pressed            *)

\* The keys that are newly down, as a sequence.
LEMMA NonePressed == SetToSeq({}) = <<>>
  <1> DEFINE F == {f \in [1..Cardinality({}) -> {}] : IsInjective(f)}
  <1>1. Cardinality({}) = 0
    BY FS_EmptySet
  <1>2. <<>> \in F
    BY <1>1 DEF IsInjective
  <1>3. SetToSeq({}) = CHOOSE f \in [1..Cardinality({}) -> {}] : IsInjective(f)
    BY DEF SetToSeq
  <1>4. \A f \in [1..0 -> {}] : f = <<>>
    OBVIOUS
  <1> QED
    BY <1>1, <1>2, <1>3, <1>4

LEMMA OnePressed ==
    ASSUME NEW p
    PROVE  SetToSeq({p}) = <<p>>
  <1>1. Cardinality({p}) = 1
    BY FS_Singleton
  <1>2. <<p>> \in [1..1 -> {p}] /\ IsInjective(<<p>>)
    BY DEF IsInjective
  <1>3. \A f \in [1..1 -> {p}] : f = <<p>>
    OBVIOUS
  <1>4. SetToSeq({p}) = CHOOSE f \in [1..Cardinality({p}) -> {p}] : IsInjective(f)
    BY DEF SetToSeq
  <1> QED
    BY <1>1, <1>2, <1>3, <1>4

GroupedAll(c, d, e, f) == (c \o d) \o (e \o f) = c \o (d \o (e \o f))

LEMMA GroupedFour ==
    ASSUME NEW c \in Seq(Positions), NEW d \in Seq(Positions), NEW e \in Seq(Positions),
           NEW f \in Seq(Positions)
    PROVE  GroupedAll(c, d, e, f)
  <1> DEFINE g == e \o f
  <1>1. g \in Seq(Positions)
    OBVIOUS
  <1> HIDE DEF g
  <1>2. (c \o d) \o g = c \o (d \o g)
    BY <1>1, Grouped
  <1> QED
    BY <1>2 DEF g, GroupedAll

\* The key u was undecided and the presses p waited; those of q are
\* processed, v is undecided then, and the presses r are new.
SeqsOf(q, v, u, p, r) ==
    /\ q \in Seq(Positions) /\ v \in Seq(Positions) /\ u \in Seq(Positions)
    /\ p \in Seq(Positions) /\ r \in Seq(Positions)

DoneInOrder(q, v, u, p, r) ==
    q \o v = u \o r /\ (r = <<>> \/ (u = <<>> /\ p = <<>>)) => q \o (v \o p) = (u \o p) \o r

KeptInOrder(q, v, u, p, r) ==
    q \o v = u \/ (q = u /\ v = u) => \/ q \o (v \o (p \o r)) = (u \o p) \o r
                                      \/ q = u /\ v \o (p \o r) = (u \o p) \o r

NextInOrder(q, v, u, p, r) == q \o v = u \o r => q \o (v \o p) = u \o (r \o p)

LEMMA SeqsInOrder ==
    ASSUME NEW q, NEW v, NEW u, NEW p, NEW r, SeqsOf(q, v, u, p, r)
    PROVE  DoneInOrder(q, v, u, p, r) /\ KeptInOrder(q, v, u, p, r) /\ NextInOrder(q, v, u, p, r)
  <1> DEFINE qv == q \o v
             up == u \o p
  <1>1. /\ q \in Seq(Positions) /\ v \in Seq(Positions) /\ u \in Seq(Positions)
        /\ p \in Seq(Positions) /\ r \in Seq(Positions)
    BY DEF SeqsOf
  <1>2. qv \in Seq(Positions) /\ up \in Seq(Positions)
    BY <1>1
  <1>3. (q \o v) \o p = q \o (v \o p)
    BY <1>1, Grouped
  <1>4. (u \o p) \o r = u \o (p \o r)
    BY <1>1, Grouped
  <1>5. (u \o r) \o p = u \o (r \o p)
    BY <1>1, Grouped
  <1>6. (q \o v) \o (p \o r) = q \o (v \o (p \o r))
    <2>1. GroupedAll(q, v, p, r)
      BY <1>1, GroupedFour
    <2> QED
      BY <2>1 DEF GroupedAll
  <1>7. u \o <<>> = u /\ <<>> \o r = r
    BY <1>1, ConcatEmptySeq
  <1> HIDE DEF qv, up
  <1>8. qv \o <<>> = qv /\ up \o <<>> = up
    BY <1>2, ConcatEmptySeq
  <1>9. ASSUME q \o v = u \o r, r = <<>>
        PROVE  q \o (v \o p) = (u \o p) \o r
    BY <1>3, <1>7, <1>8, <1>9 DEF up
  <1>10. ASSUME q \o v = u \o r, u = <<>>, p = <<>>
         PROVE  q \o (v \o p) = (u \o p) \o r
    BY <1>3, <1>7, <1>8, <1>10 DEF qv
  <1>11. DoneInOrder(q, v, u, p, r)
    BY <1>9, <1>10 DEF DoneInOrder
  <1>12. KeptInOrder(q, v, u, p, r)
    BY <1>4, <1>6 DEF KeptInOrder
  <1>13. NextInOrder(q, v, u, p, r)
    BY <1>3, <1>5 DEF NextInOrder
  <1> QED
    BY <1>11, <1>12, <1>13

\* A press that waits was neither counted nor interrupted.
PlainPresses(b) == \A i \in 1..Len(b) : b[i].pressed => b[i].count = 0 /\ ~b[i].interrupted

LEMMA PairedPlain ==
    ASSUME IInv, KeysPaired
    PROVE  PlainPresses(waiting_buffer)
  <1>1. PICK D : Paired(waiting_buffer, D, tapping_key, source_layers_cache, kb)
    BY DEF KeysPaired, PairedWith
  <1>2. waiting_buffer \in Seq(Records)
    BY DEF IInv, LoopTypes
  <1>3. \A i \in 1..Len(waiting_buffer) :
           waiting_buffer[i].count \in Nat /\ (~(waiting_buffer[i].count > 0) <=> waiting_buffer[i].count = 0)
    BY <1>2, ElementOfSeq, RecordCount DEF RecordsOrNone
  <1> QED
    BY <1>1, <1>3 DEF Paired, Marks, Plain, PlainPresses

\* The presses of waiting_buffer, and the key before them.
LEMMA WaitingParts ==
    ASSUME LoopTypes
    PROVE  /\ waiting_buffer \in Seq(Records) /\ PressesOf(waiting_buffer) \in Seq(Positions)
           /\ WaitingKey(tapping_key) \in Seq(Positions)
           /\ UndecidedKey = WaitingKey(tapping_key)
           /\ WaitingPresses = WaitingKey(tapping_key) \o PressesOf(waiting_buffer)
  BY RecordsKeyed, PressesType, WaitingKeyType
     DEF LoopTypes, UndecidedKey, WaitingKey, WaitingPresses

\* Tapping key and buffer become those of n, and the presses of q are
\* processed; r is the sequence of the keys pressed.
InOrderBy(q, n, r) ==
    LET v == WaitingKey(n.tapping)
        u == WaitingKey(tapping_key)
        p == PressesOf(waiting_buffer)
    IN  \/ q \o (v \o PressesOf(n.buffer)) = (u \o p) \o r
        \/ q = u /\ v \o PressesOf(n.buffer) = (u \o p) \o r

LEMMA BecomesInOrder ==
    ASSUME NEW n, tapping_key' = n.tapping, waiting_buffer' = n.buffer, NEW r,
           SetToSeq(matrix_prev' \ matrix_prev) = r, InOrderBy(PressesOf(out'), n, r)
    PROVE  InOrder
  <1>1. WaitingPresses' = WaitingKey(n.tapping) \o PressesOf(n.buffer)
    BY DEF WaitingPresses, UndecidedKey, WaitingKey
  <1>2. UndecidedKey = WaitingKey(tapping_key)
    BY DEF UndecidedKey, WaitingKey
  <1>3. WaitingPresses = WaitingKey(tapping_key) \o PressesOf(waiting_buffer)
    BY <1>2 DEF WaitingPresses
  <1> QED
    BY <1>1, <1>2, <1>3 DEF InOrder, InOrderBy

\* A step of the loop for the record r of a new event, or a tick.
LEMMA ExecInOrder ==
    ASSUME LoopTypes, ~draining, ~Overflow, ~Overtaking,
           NEW s, Begins(s), NEW r, Fresh(s, r), Exec(r, s),
           SetToSeq(matrix_prev' \ matrix_prev) = PressOf(r),
           r.pressed => matrix_prev' # matrix_prev
    PROVE  InOrder
  <1> DEFINE y == ProcessTapping(s, r)
             n == NextOf(y)
             b == waiting_buffer
             q == PressesOf(y.out)
             v == WaitingKey(y.tapping)
             u == WaitingKey(tapping_key)
             p == PressesOf(b)
             w == PressOf(r)
  <1>1. /\ b \in Seq(Records) /\ p \in Seq(Positions) /\ u \in Seq(Positions)
        /\ UndecidedKey = u
    BY WaitingParts
  <1>2. /\ s \in States /\ r \in RecordsOrNone /\ s.buffer = b /\ s.tapping = tapping_key
    BY DEF Begins, Fresh
  <1>3. y \in States /\ Len(y.buffer) = Len(b) /\ (r \in Records => y.rec \in Records)
    BY <1>2, ProcessTappingFacts
  <1>4. Ordered(y, s, r)
    BY CallOrdered
  <1>5. Becomes(n)
    BY DEF Exec, NextOf
  <1> HIDE DEF y, n
  <1>6. /\ q \in Seq(Positions) /\ v \in Seq(Positions) /\ w \in Seq(Positions)
        /\ w \o <<>> = w /\ <<>> \o w = w
    <2>1. y.out \in Seq(Processed) /\ y.tapping \in RecordsOrNone
      BY <1>3 DEF States
    <2> QED
      BY <1>2, <2>1, RecordsKeyed, PressesType, WaitingKeyType
  <1>7. y.buffer \in Seq(Records) /\ PressesOf(y.buffer) = p
    <2>1. y.buffer \in Seq(Records) /\ SamePresses(y.buffer, b)
      BY <1>2, <1>3, <1>4 DEF Ordered, States
    <2> QED
      BY <1>1, <2>1, RecordsKeyed, PressesSame
  <1>8. /\ n.tapping = y.tapping /\ n.out = y.out
        /\ PressesOf(n.buffer) = IF y.done THEN p ELSE p \o w
    <2>1. CASE r.key = NoKey
      <3>1. r = NoEvent /\ y.rec.key = NoKey
        BY <1>2, <1>4, <2>1, RecordParts DEF Ordered
      <3>2. n = y
        BY <3>1 DEF n, NextOf, Enqueued
      <3>3. w = <<>>
        BY <3>1, NoneType DEF PressOf
      <3>4. p \o <<>> = p
        BY <1>1, ConcatEmptySeq
      <3> HIDE DEF p, w
      <3> QED
        BY <1>7, <3>2, <3>3, <3>4
    <2>2. CASE r.key # NoKey
      <3>1. r \in Records /\ y.rec \in Records
        BY <1>2, <1>3, <2>2, RecordParts
      <3>2. /\ n.tapping = y.tapping /\ n.out = y.out
            /\ y.done => n.buffer = y.buffer
            /\ ~y.done => n.buffer = Append(y.buffer, y.rec)
        BY <1>3, <1>5, <3>1, NextOfIs DEF n
      <3>3. PressOf(y.rec) = w
        BY <1>4 DEF Ordered, PressOf
      <3>4. PressesOf(Append(y.buffer, y.rec)) = PressesOf(y.buffer) \o PressOf(y.rec)
        BY <1>7, <3>1, RecordsKeyed, PressesAppend
      <3> HIDE DEF p, w
      <3> QED
        BY <1>7, <3>2, <3>3, <3>4
    <2> QED
      BY <2>1, <2>2
  <1>9. /\ y.done => q \o v = u \o w
        /\ y.done => u = <<>> \/ ~r.pressed
        /\ ~y.done => q \o v = u \/ (q = u /\ v = u)
    BY <1>2, <1>4 DEF Ordered
  <1>10. ~r.pressed => w = <<>>
    BY DEF PressOf
  <1>11. r.pressed /\ u = <<>> => p = <<>>
    BY <1>1, NoPresses DEF Overtaking
  <1> HIDE DEF q, v, u, p, w, b
  <1>14. SeqsOf(q, v, u, p, w)
    BY <1>1, <1>6 DEF SeqsOf
  <1>15. DoneInOrder(q, v, u, p, w) /\ KeptInOrder(q, v, u, p, w)
    BY <1>14, SeqsInOrder
  <1>12. InOrderBy(q, n, w)
    <2>1. CASE y.done
      <3>1. w = <<>> \/ (u = <<>> /\ p = <<>>)
        BY <1>9, <1>10, <1>11, <2>1
      <3>2. q \o (v \o p) = (u \o p) \o w
        BY <1>9, <1>15, <2>1, <3>1 DEF DoneInOrder
      <3> QED
        BY <1>8, <2>1, <3>2 DEF InOrderBy, v, u, p, b
    <2>2. CASE ~y.done
      <3>1. \/ q \o (v \o (p \o w)) = (u \o p) \o w
            \/ q = u /\ v \o (p \o w) = (u \o p) \o w
        BY <1>9, <1>15, <2>2 DEF KeptInOrder
      <3> QED
        BY <1>8, <2>2, <3>1 DEF InOrderBy, v, u, p, b
    <2> QED
      BY <2>1, <2>2
  <1>13. tapping_key' = n.tapping /\ waiting_buffer' = n.buffer /\ out' = y.out
    BY <1>5, <1>8 DEF Becomes
  <1> QED
    BY <1>12, <1>13, BecomesInOrder DEF q, w

LEMMA StateFresh ==
    ASSUME LoopTypes
    PROVE  /\ Begins(State) /\ State.out = <<>>
           /\ Begins([State EXCEPT !.kb.weak_mods = {}])
           /\ [State EXCEPT !.kb.weak_mods = {}].out = <<>>
  BY StateBegins DEF State

LEMMA EventFresh ==
    ASSUME LoopTypes, NEW p \in Positions, NEW pressed \in BOOLEAN, NEW s, Begins(s), s.out = <<>>
    PROVE  /\ Fresh(s, Event(p, pressed)) /\ Event(p, pressed).pressed = pressed
           /\ Event(p, pressed).key = p /\ Fresh(s, NoEvent)
  <1>1. /\ Event(p, pressed).pressed = pressed /\ Event(p, pressed).key = p
        /\ Event(p, pressed).count = 0 /\ ~Event(p, pressed).interrupted
    BY DEF Event, NoEvent
  <1>2. Event(p, pressed) \in RecordsOrNone /\ NoEvent \in RecordsOrNone
    BY EventType
  <1> QED
    BY <1>1, <1>2, NoneType DEF Fresh, Begins

LEMMA PressInOrder ==
    ASSUME IInv, ~Overflow, ~Overtaking, NEW p \in Positions, Press(p)
    PROVE  InOrder
  <1> DEFINE s == [State EXCEPT !.kb.weak_mods = {}]
             r == Event(p, TRUE)
  <1>1. /\ ~draining /\ p \notin matrix_prev /\ matrix_prev' = matrix_prev \cup {p}
        /\ Exec(r, s)
    BY DEF Press
  <1>2. LoopTypes
    BY DEF IInv
  <1>3. Begins(s) /\ s.out = <<>>
    BY <1>2, StateFresh
  <1> HIDE DEF s
  <1>4. Fresh(s, r) /\ r.pressed /\ r.key = p
    BY <1>2, <1>3, EventFresh
  <1> HIDE DEF r
  <1>5. matrix_prev' \ matrix_prev = {p} /\ matrix_prev' # matrix_prev
    BY <1>1
  <1>6. PressOf(r) = <<p>>
    BY <1>4 DEF PressOf
  <1>7. SetToSeq(matrix_prev' \ matrix_prev) = PressOf(r)
    BY <1>5, <1>6, OnePressed
  <1> QED
    BY <1>1, <1>2, <1>3, <1>4, <1>5, <1>7, ExecInOrder

LEMMA ReleaseInOrder ==
    ASSUME IInv, ~Overflow, ~Overtaking, NEW p \in Positions, Release(p)
    PROVE  InOrder
  <1> DEFINE r == Event(p, FALSE)
  <1>1. ~draining /\ matrix_prev' = matrix_prev \ {p} /\ Exec(r, State)
    BY DEF Release
  <1>2. LoopTypes
    BY DEF IInv
  <1>3. Begins(State) /\ State.out = <<>>
    BY <1>2, StateFresh
  <1>4. Fresh(State, r) /\ ~r.pressed
    BY <1>2, <1>3, EventFresh
  <1> HIDE DEF r
  <1>5. matrix_prev' \ matrix_prev = {}
    BY <1>1
  <1>6. PressOf(r) = <<>>
    BY <1>4 DEF PressOf
  <1>7. SetToSeq(matrix_prev' \ matrix_prev) = PressOf(r)
    BY <1>5, <1>6, NonePressed
  <1> QED
    BY <1>1, <1>2, <1>3, <1>4, <1>7, ExecInOrder

LEMMA TickInOrder ==
    ASSUME IInv, ~Overflow, ~Overtaking, Tick
    PROVE  InOrder
  <1>1. ~draining /\ matrix_prev' = matrix_prev /\ Exec(NoEvent, State)
    BY DEF Tick
  <1>2. LoopTypes
    BY DEF IInv
  <1>3. Begins(State) /\ State.out = <<>> /\ State \in States
    BY <1>2, StateFresh DEF Begins
  <1>4. Fresh(State, NoEvent) /\ ~NoEvent.pressed
    BY <1>3, EventType, NoneType DEF Fresh
  <1>5. matrix_prev' \ matrix_prev = {}
    BY <1>1
  <1>6. PressOf(NoEvent) = <<>>
    BY <1>4 DEF PressOf
  <1>7. SetToSeq(matrix_prev' \ matrix_prev) = PressOf(NoEvent)
    BY <1>5, <1>6, NonePressed
  <1> QED
    BY <1>1, <1>2, <1>3, <1>4, <1>7, ExecInOrder

\* Nothing is processed, and the records that wait have the same presses.
LEMMA QuietInOrder ==
    ASSUME LoopTypes, LoopTypes', matrix_prev' = matrix_prev, out' = <<>>,
           WaitingKey(tapping_key') = WaitingKey(tapping_key),
           SamePresses(waiting_buffer', waiting_buffer)
    PROVE  InOrder
  <1> DEFINE u == WaitingKey(tapping_key)
             p == PressesOf(waiting_buffer)
             up == u \o p
  <1>1. PressesOf(waiting_buffer') = p
    BY RecordsKeyed, PressesSame DEF LoopTypes
  <1>2. u \in Seq(Positions) /\ p \in Seq(Positions) /\ WaitingPresses = up
    BY WaitingParts
  <1>3. WaitingPresses' = up
    BY <1>1 DEF WaitingPresses, UndecidedKey, WaitingKey
  <1>4. up \in Seq(Positions)
    BY <1>2
  <1>5. PressesOf(out') = <<>> /\ SetToSeq(matrix_prev' \ matrix_prev) = <<>>
    <2>1. matrix_prev' \ matrix_prev = {}
      OBVIOUS
    <2> QED
      BY <2>1, NoPresses, NonePressed
  <1> HIDE DEF up
  <1>6. <<>> \o up = up \o <<>>
    BY <1>4, ConcatEmptySeq
  <1> QED
    BY <1>2, <1>3, <1>5, <1>6 DEF InOrder

LEMMA PassInOrder ==
    ASSUME IInv, IInv', Pass
    PROVE  InOrder
  <1>1. LoopTypes /\ LoopTypes'
    BY DEF IInv
  <1>2. /\ matrix_prev' = matrix_prev /\ out' = <<>> /\ tapping_key' = Older(tapping_key)
        /\ waiting_buffer' = [i \in DOMAIN waiting_buffer |-> Older(waiting_buffer[i])]
    BY DEF Pass
  <1>3. ASSUME NEW t \in RecordsOrNone
        PROVE  /\ Older(t).key = t.key /\ Older(t).pressed = t.pressed
               /\ Older(t).count = t.count
    BY DEF Older, RecordsOrNone, Records, NoEvent
  <1>4. WaitingKey(tapping_key') = WaitingKey(tapping_key)
    BY <1>1, <1>2, <1>3 DEF WaitingKey, LoopTypes
  <1>5. SamePresses(waiting_buffer', waiting_buffer)
    <2> DEFINE b == waiting_buffer
               c == waiting_buffer'
    <2>1. /\ b \in Seq(Records) /\ c \in Seq(Records) /\ DOMAIN b = 1..Len(b) /\ Len(b) \in Nat
          /\ DOMAIN c = 1..Len(c) /\ Len(c) \in Nat
      BY <1>1, LenProperties DEF LoopTypes
    <2>2. DOMAIN c = DOMAIN b /\ \A i \in DOMAIN b : c[i] = Older(b[i])
      BY <1>2
    <2>3. \A i \in 1..Len(b) : b[i] \in RecordsOrNone
      BY <2>1, ElementOfSeq DEF RecordsOrNone
    <2> HIDE DEF b, c
    <2>4. Len(c) = Len(b)
      <3> DEFINE m == Len(c)
                 k == Len(b)
      <3>1. m \in Nat /\ k \in Nat /\ 1..m = 1..k
        BY <2>1, <2>2
      <3> HIDE DEF m, k
      <3>2. m <= k
        <4>1. m # 0 => m \in 1..k
          BY <3>1
        <4> QED
          BY <3>1, <4>1
      <3>3. k <= m
        <4>1. k # 0 => k \in 1..m
          BY <3>1
        <4> QED
          BY <3>1, <4>1
      <3>4. m = k
        BY <3>1, <3>2, <3>3
      <3> QED
        BY <3>4 DEF m, k
    <2>5. \A i \in 1..Len(b) : c[i].key = b[i].key /\ c[i].pressed = b[i].pressed
      BY <1>3, <2>1, <2>2, <2>3
    <2> QED
      BY <2>4, <2>5 DEF SamePresses, b, c
  <1> QED
    BY <1>1, <1>2, <1>4, <1>5, QuietInOrder

LEMMA LinkInOrder ==
    ASSUME IInv, IInv', LinkChange
    PROVE  InOrder
  <1>1. /\ matrix_prev' = matrix_prev /\ out' = <<>> /\ tapping_key' = tapping_key
        /\ waiting_buffer' = waiting_buffer
    BY LinkChangeTypes DEF LinkChange, IInv
  <1> QED
    BY <1>1, SameSame, QuietInOrder DEF IInv

\* The first record that waits is processed, or goes on waiting.
LEMMA DrainInOrder ==
    ASSUME IInv, IInv', KeysPaired, Drain, ~Mispaired
    PROVE  InOrder
  <1> DEFINE b == waiting_buffer
             r == b[1]
             y == ProcessTapping(State, r)
             n == DrainedOf(y)
             q == PressesOf(y.out)
             v == WaitingKey(y.tapping)
             u == WaitingKey(tapping_key)
             p == PressesOf(b)
             w == PressOf(r)
             after == PressesOf(Tail(b))
  <1>1. /\ LoopTypes /\ State \in States /\ b \in Seq(Records) /\ b # <<>>
        /\ State.buffer = b /\ State.tapping = tapping_key
        /\ 1 \in 1..Len(b) /\ r \in Records
        /\ y \in States /\ Becomes(n) /\ matrix_prev' = matrix_prev
        /\ n.tapping = y.tapping /\ out' = y.out
        /\ y.done => n.buffer = Tail(y.buffer)
        /\ n.buffer \in Seq(Records)
    BY DrainParts
  <1>2. r \in RecordsOrNone /\ y.rec \in Records /\ Len(y.buffer) = Len(b)
    BY <1>1, ProcessTappingFacts DEF RecordsOrNone
  <1>3. Ordered(y, State, r)
    <2>1. r.pressed => r.count = 0 /\ ~r.interrupted
      BY <1>1, PairedPlain DEF PlainPresses
    <2>2. State.out = <<>>
      BY DEF State
    <2>3. Fresh(State, r)
      BY <1>1, <1>2, <2>1, <2>2 DEF Fresh
    <2> HIDE DEF r
    <2> QED
      BY <2>3, CallOrdered
  <1>4. ~y.done => n.buffer = [y.buffer EXCEPT ![1] = y.rec]
    <2> HIDE DEF y
    <2>1. ~y.done => n = [y EXCEPT !.buffer = [y.buffer EXCEPT ![1] = y.rec]]
      BY DEF DrainedOf
    <2> HIDE DEF n
    <2> QED
      BY <1>1, <2>1 DEF States
  <1> HIDE DEF y, n, r
  <1>5. /\ q \in Seq(Positions) /\ v \in Seq(Positions) /\ w \in Seq(Positions)
        /\ u \in Seq(Positions) /\ p \in Seq(Positions)
    <2>1. y.out \in Seq(Processed) /\ y.tapping \in RecordsOrNone
      BY <1>1 DEF States
    <2> QED
      BY <1>1, <1>2, <2>1, RecordsKeyed, PressesType, WaitingKeyType, WaitingParts
  <1>6. /\ after \in Seq(Positions) /\ p = w \o after
        /\ Tail(b) \in Seq(Records)
    <2>1. Tail(b) \in Seq(Records) /\ Len(Tail(b)) = Len(b) - 1
          /\ \A i \in 1..Len(Tail(b)) : Tail(b)[i] = b[i + 1]
      BY <1>1, HeadTailProperties
    <2>2. Len(b) = Len(Tail(b)) + 1
      BY <1>1, <2>1
    <2>3. InFront(b, r, Tail(b))
      BY <2>1, <2>2 DEF InFront, r
    <2> QED
      BY <1>1, <2>1, <2>3, RecordsKeyed, PressesType, PressesInFront
  <1>7. /\ y.buffer \in Seq(Records) /\ SamePresses(y.buffer, b)
        /\ y.rec.key = r.key /\ y.rec.pressed = r.pressed
    BY <1>1, <1>3 DEF Ordered, States
  <1>8. y.done => PressesOf(n.buffer) = after
    <2> SUFFICES ASSUME y.done PROVE PressesOf(Tail(y.buffer)) = after
      BY <1>1
    <2> DEFINE c == y.buffer
    <2>1. c \in Seq(Records) /\ c # <<>>
      <3>1. Len(c) # 0
        BY <1>1, <1>2
      <3> QED
        BY <1>7, <3>1
    <2>2. /\ Tail(c) \in Seq(Records) /\ Len(Tail(c)) = Len(c) - 1
          /\ \A i \in 1..Len(Tail(c)) : Tail(c)[i] = c[i + 1]
      BY <2>1, HeadTailProperties
    <2>3. /\ Tail(b) \in Seq(Records) /\ Len(Tail(b)) = Len(b) - 1
          /\ \A i \in 1..Len(Tail(b)) : Tail(b)[i] = b[i + 1]
      BY <1>1, HeadTailProperties
    <2>4. \A i \in 1..Len(b) : c[i].key = b[i].key /\ c[i].pressed = b[i].pressed
      BY <1>7 DEF SamePresses
    <2>5. Len(b) \in Nat /\ Len(c) = Len(b)
      BY <1>1, <1>2, LenProperties
    <2> HIDE DEF b, c
    <2>6. \A i \in 1..Len(Tail(b)) : i \in 1..Len(Tail(c)) /\ i + 1 \in 1..Len(b)
      BY <2>2, <2>3, <2>5
    <2>7. SamePresses(Tail(c), Tail(b))
      BY <2>2, <2>3, <2>4, <2>5, <2>6 DEF SamePresses
    <2> QED
      BY <2>2, <2>3, <2>7, RecordsKeyed, PressesSame DEF b, c
  <1>9. ~y.done => PressesOf(n.buffer) = p
    <2> SUFFICES ASSUME ~y.done PROVE PressesOf(n.buffer) = p
      OBVIOUS
    <2> DEFINE c == y.buffer
               x == y.rec
               e == [c EXCEPT ![1] = x]
    <2>1. DOMAIN c = 1..Len(b) /\ c \in Seq(Records) /\ x \in Records /\ 1 \in 1..Len(c)
      BY <1>1, <1>2, <1>7, LenProperties
    <2>2. \A i \in 1..Len(b) : c[i].key = b[i].key /\ c[i].pressed = b[i].pressed
      BY <1>7 DEF SamePresses
    <2>3. x.key = b[1].key /\ x.pressed = b[1].pressed
      BY <1>7 DEF r
    <2> HIDE DEF c, x
    <2>4. e \in Seq(Records) /\ Len(e) = Len(c)
      BY <2>1, ExceptSeq
    <2>5. \A i \in 1..Len(b) : e[i].key = b[i].key /\ e[i].pressed = b[i].pressed
      BY <2>1, <2>2, <2>3
    <2> HIDE DEF e
    <2>6. SamePresses(e, b)
      BY <1>2, <2>4, <2>5 DEF SamePresses, c
    <2>7. n.buffer = e
      BY <1>4 DEF e, c, x
    <2> QED
      BY <1>1, <2>4, <2>6, <2>7, RecordsKeyed, PressesSame
  <1>10. /\ y.done => q \o v = u \o w
         /\ ~y.done => q \o v = u \/ (q = u /\ v = u)
    BY <1>1, <1>3 DEF Ordered
  <1> HIDE DEF q, v, u, p, w, after, b
  <1>11. <<>> \in Seq(Positions)
    OBVIOUS
  <1>12. SeqsOf(q, v, u, after, w) /\ SeqsOf(q, v, u, p, <<>>)
    BY <1>5, <1>6, <1>11 DEF SeqsOf
  <1>13. NextInOrder(q, v, u, after, w) /\ KeptInOrder(q, v, u, p, <<>>)
    BY <1>12, SeqsInOrder
  <1>14. p \o <<>> = p /\ (u \o p) \o <<>> = u \o p
    <2> DEFINE up == u \o p
    <2>1. up \in Seq(Positions)
      BY <1>5
    <2> HIDE DEF up
    <2>2. up \o <<>> = up /\ p \o <<>> = p
      BY <1>5, <2>1, ConcatEmptySeq
    <2> QED
      BY <2>2 DEF up
  <1>15. InOrderBy(q, n, <<>>)
    <2>1. CASE y.done
      <3>1. q \o (v \o after) = u \o p
        BY <1>6, <1>10, <1>13, <2>1 DEF NextInOrder
      <3> QED
        BY <1>1, <1>8, <1>14, <2>1, <3>1 DEF InOrderBy, v, u, p, b
    <2>2. CASE ~y.done
      <3>1. \/ q \o (v \o p) = (u \o p) \o <<>>
            \/ q = u /\ v \o p = (u \o p) \o <<>>
        BY <1>10, <1>13, <1>14, <2>2 DEF KeptInOrder
      <3> QED
        BY <1>1, <1>9, <2>2, <3>1 DEF InOrderBy, v, u, p, b
    <2> QED
      BY <2>1, <2>2
  <1>16. tapping_key' = n.tapping /\ waiting_buffer' = n.buffer /\ out' = y.out
    BY <1>1 DEF Becomes
  <1>17. SetToSeq(matrix_prev' \ matrix_prev) = <<>>
    <2>1. matrix_prev' \ matrix_prev = {}
      BY <1>1
    <2> QED
      BY <2>1, NonePressed
  <1> QED
    BY <1>15, <1>16, <1>17, BecomesInOrder DEF q

LEMMA OrderKept ==
    ASSUME IInv, IInv', KeysPaired, Next, ~Overflow, ~Overtaking, ~Mispaired
    PROVE  InOrder
  BY PressInOrder, ReleaseInOrder, TickInOrder, DrainInOrder, PassInOrder, LinkInOrder DEF Next

(* Presses are processed in the order the keys were pressed, each once,    *)
(* but for the press of a mod-tap key whose tap was cancelled, whatever    *)
(* the keymap and the timing, in every step that does not disturb the      *)
(* records.                                                                *)
THEOREM PressesInOrder == TracedSpec => InOrderUndisturbed
  <1>1. PairedInv /\ [Step \/ Stop]_tracedVars => [disturbed' \/ InOrder]_vars
    <2> SUFFICES ASSUME PairedInv, [Step \/ Stop]_tracedVars, ~disturbed', vars' # vars
                 PROVE  InOrder
      OBVIOUS
    <2>1. Step
      BY DEF Stop, tracedVars
    <2>2. IInv /\ KeysPaired /\ Next
      BY <2>1 DEF Step, PairedInv
    <2>3. ~Overflow /\ ~Overtaking /\ ~Mispaired
      BY <2>1 DEF Step
    <2>4. IInv'
      BY <2>2, NextTypes
    <2> QED
      BY <2>2, <2>3, <2>4, OrderKept
  <1> QED
    BY <1>1, PairedInvariant, PTL DEF TracedSpec, InOrderUndisturbed
===============================================================================
