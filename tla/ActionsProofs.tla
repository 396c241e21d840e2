--------------------------- MODULE ActionsProofs ----------------------------
(***************************************************************************)
(* Theorems about Actions, for every keymap, number of keys and layers,    *)
(* and size of the report.                                                 *)
(***************************************************************************)
EXTENDS Actions, FiniteSetTheorems, TLAPS

(* The keys and modifiers of a state and of the report handed over last,   *)
(* within the sets of codes C, real modifiers R and weak modifiers W.      *)
Within(k, C, R, W) ==
    /\ k.keys \subseteq C /\ k.real_mods \subseteq R /\ k.weak_mods \subseteq W
    /\ k.last_report.keys \subseteq C /\ k.last_report.mods \subseteq R \cup W

(* A host has what was handed over last, or nothing yet. *)
HostFollows(k) ==
    /\ k.host \in {k.last_report, NoReport}
    /\ ~k.link => k.host = NoReport
    /\ \A page \in Pages : k.host_usage[page] \in {k.usage[page], 0}
    /\ ~k.link => k.host_usage = NoUsage

Fits(k) == IsFiniteSet(k.keys) /\ Cardinality(k.keys) <= KEYBOARD_REPORT_KEYS

(* Everything but the reports. *)
SameOtherwise(n, k) ==
    /\ n.layer_state = k.layer_state /\ n.default_layer_state = k.default_layer_state
    /\ n.usage = k.usage /\ n.link = k.link

LEMMA SendReportFacts ==
    ASSUME NEW k \in Kb
    PROVE  LET n == SendReport(k)
           IN  /\ n \in Kb
               /\ n.keys = k.keys /\ n.real_mods = k.real_mods /\ n.weak_mods = k.weak_mods
               /\ n.last_report = Report(k)
               /\ SameOtherwise(n, k)
               /\ HostFollows(k) => HostFollows(n)
  <1> DEFINE n == SendReport(k)
  <1>1. Report(k) \in Reports
    BY DEF Report, Reports, Kb
  <1>2. CASE ~Changed(k)
    BY <1>2 DEF SendReport, Changed, SameOtherwise
  <1>3. CASE Changed(k)
    <2>1. n = [k EXCEPT !.last_report = Report(k),
                        !.host = IF k.link THEN Report(k) ELSE k.host,
                        !.sent = Append(k.sent, Report(k))]
      BY <1>3 DEF SendReport
    <2>2. Append(k.sent, Report(k)) \in Seq(Reports)
      BY <1>1 DEF Kb
    <2>3. n \in Kb
      BY <2>1, <2>2, <1>1 DEF Kb
    <2>4. /\ n.keys = k.keys /\ n.real_mods = k.real_mods /\ n.weak_mods = k.weak_mods
          /\ n.last_report = Report(k) /\ SameOtherwise(n, k)
          /\ n.host = (IF k.link THEN Report(k) ELSE k.host)
          /\ n.host_usage = k.host_usage
      BY <2>1 DEF Kb, SameOtherwise
    <2>5. HostFollows(k) => HostFollows(n)
      BY <2>4 DEF HostFollows, SameOtherwise
    <2> QED
      BY <2>3, <2>4, <2>5
  <1> QED
    BY <1>2, <1>3

LEMMA SendReportWithin ==
    ASSUME NEW k \in Kb, NEW C, NEW R, NEW W, Within(k, C, R, W)
    PROVE  Within(SendReport(k), C, R, W)
  <1> DEFINE n == SendReport(k)
  <1>1. /\ n.keys = k.keys /\ n.real_mods = k.real_mods /\ n.weak_mods = k.weak_mods
        /\ n.last_report = Report(k)
    BY SendReportFacts
  <1>2. Report(k).keys = k.keys /\ Report(k).mods = k.real_mods \cup k.weak_mods
    BY DEF Report
  <1> QED
    BY <1>1, <1>2 DEF Within

LEMMA SendReportStep ==
    ASSUME NEW k \in Kb, NEW d \in Kb, NEW C, NEW R, NEW W, Within(d, C, R, W),
           SameOtherwise(d, k), HostFollows(k) => HostFollows(d)
    PROVE  /\ SendReport(d) \in Kb /\ Within(SendReport(d), C, R, W)
           /\ SendReport(d).keys = d.keys
           /\ SameOtherwise(SendReport(d), k)
           /\ HostFollows(k) => HostFollows(SendReport(d))
           /\ Fits(d) => Fits(SendReport(d))
  <1>1. /\ SendReport(d) \in Kb /\ SendReport(d).keys = d.keys
        /\ SameOtherwise(SendReport(d), d)
        /\ HostFollows(d) => HostFollows(SendReport(d))
    BY SendReportFacts
  <1>2. Within(SendReport(d), C, R, W)
    BY SendReportWithin
  <1>3. SameOtherwise(SendReport(d), k)
    BY <1>1 DEF SameOtherwise
  <1>4. Fits(d) => Fits(SendReport(d))
    BY <1>1 DEF Fits
  <1> QED
    BY <1>1, <1>2, <1>3, <1>4

LEMMA SendUsageFacts ==
    ASSUME NEW k \in Kb, NEW page \in Pages, NEW u \in Usages \cup {0}
    PROVE  LET n == SendUsage(k, page, u)
           IN  /\ n \in Kb
               /\ n.keys = k.keys /\ n.real_mods = k.real_mods /\ n.weak_mods = k.weak_mods
               /\ n.last_report = k.last_report
               /\ n.layer_state = k.layer_state
               /\ n.usage = [k.usage EXCEPT ![page] = u]
               /\ HostFollows(k) => HostFollows(n)
  <1> DEFINE n == SendUsage(k, page, u)
             v == IF k.link /\ k.usage[page] # u THEN u ELSE k.host_usage[page]
  <1>1. n = [k EXCEPT !.usage = [k.usage EXCEPT ![page] = u],
                      !.host_usage = [k.host_usage EXCEPT ![page] = v]]
    BY DEF SendUsage, Kb
  <1>2. v \in Usages \cup {0}
    BY DEF Kb
  <1>3. n \in Kb
    <2>1. /\ [k.usage EXCEPT ![page] = u] \in [Pages -> Usages \cup {0}]
          /\ [k.host_usage EXCEPT ![page] = v] \in [Pages -> Usages \cup {0}]
      BY <1>2 DEF Kb
    <2> HIDE DEF v, n
    <2> QED
      BY <1>1, <2>1 DEF Kb
  <1>4. /\ n.keys = k.keys /\ n.real_mods = k.real_mods /\ n.weak_mods = k.weak_mods
        /\ n.last_report = k.last_report /\ n.layer_state = k.layer_state
        /\ n.link = k.link /\ n.host = k.host
        /\ n.usage = [k.usage EXCEPT ![page] = u]
        /\ n.host_usage = [k.host_usage EXCEPT ![page] = v]
    BY <1>1 DEF Kb
  <1>5. ASSUME HostFollows(k) PROVE HostFollows(n)
    <2>1. ASSUME NEW q \in Pages PROVE n.host_usage[q] \in {n.usage[q], 0}
      <3>1. /\ n.usage[q] = (IF q = page THEN u ELSE k.usage[q])
            /\ n.host_usage[q] = (IF q = page THEN v ELSE k.host_usage[q])
        BY <1>4 DEF Kb
      <3>2. ~k.link => k.host_usage[q] = 0
        BY <1>5 DEF HostFollows, NoUsage
      <3>3. k.host_usage[q] \in {k.usage[q], 0}
        BY <1>5 DEF HostFollows
      <3> QED
        BY <3>1, <3>2, <3>3
    <2>2. ~k.link => n.host_usage = NoUsage
      BY <1>4, <1>5 DEF HostFollows, NoUsage
    <2> QED
      BY <1>4, <1>5, <2>1, <2>2 DEF HostFollows
  <1> QED
    BY <1>3, <1>4, <1>5

(* A step that changes only the keys or the modifiers, before its report.  *)
LEMMA SetKeys ==
    ASSUME NEW k \in Kb, NEW S \in SUBSET Codes
    PROVE  LET n == [k EXCEPT !.keys = S]
           IN  /\ n \in Kb /\ n.keys = S
               /\ n.real_mods = k.real_mods /\ n.weak_mods = k.weak_mods
               /\ n.last_report = k.last_report /\ SameOtherwise(n, k)
               /\ HostFollows(k) => HostFollows(n)
  BY DEF Kb, SameOtherwise, HostFollows

LEMMA SetRealMods ==
    ASSUME NEW k \in Kb, NEW S \in SUBSET Mods
    PROVE  LET n == [k EXCEPT !.real_mods = S]
           IN  /\ n \in Kb /\ n.keys = k.keys
               /\ n.real_mods = S /\ n.weak_mods = k.weak_mods
               /\ n.last_report = k.last_report /\ SameOtherwise(n, k)
               /\ HostFollows(k) => HostFollows(n)
  BY DEF Kb, SameOtherwise, HostFollows

LEMMA SetWeakMods ==
    ASSUME NEW k \in Kb, NEW S \in SUBSET Mods
    PROVE  LET n == [k EXCEPT !.weak_mods = S]
           IN  /\ n \in Kb /\ n.keys = k.keys
               /\ n.real_mods = k.real_mods /\ n.weak_mods = S
               /\ n.last_report = k.last_report /\ SameOtherwise(n, k)
               /\ HostFollows(k) => HostFollows(n)
  BY DEF Kb, SameOtherwise, HostFollows

-----------------------------------------------------------------------------
(* A press stays within what its action adds. *)

LEMMA AddModsFacts ==
    ASSUME NEW k \in Kb, NEW a \in KeyAction, NEW C, NEW R, NEW W,
           Within(k, C, R, W), RealMods(a) \subseteq R, WeakMods(a) \subseteq W
    PROVE  LET n == AddMods(k, a)
           IN  /\ n \in Kb /\ Within(n, C, R, W) /\ n.keys = k.keys
               /\ SameOtherwise(n, k)
               /\ HostFollows(k) => HostFollows(n)
  <1> DEFINE r == [k EXCEPT !.real_mods = k.real_mods \cup a.mods]
             w == [k EXCEPT !.weak_mods = k.weak_mods \cup a.mods]
  <1>1. /\ k.real_mods \cup a.mods \in SUBSET Mods
        /\ k.weak_mods \cup a.mods \in SUBSET Mods
    BY DEF Kb, KeyAction
  <1>2. CASE a.mods = {}
    BY <1>2 DEF AddMods, SameOtherwise
  <1>3. CASE a.mods # {} /\ ModsAreReal(a)
    <2>1. AddMods(k, a) = SendReport(r)
      BY <1>3 DEF AddMods
    <2>2. /\ r \in Kb /\ r.keys = k.keys /\ SameOtherwise(r, k)
          /\ r.real_mods = k.real_mods \cup a.mods /\ r.weak_mods = k.weak_mods
          /\ r.last_report = k.last_report
          /\ HostFollows(k) => HostFollows(r)
      BY <1>1, SetRealMods
    <2>3. a.mods \subseteq R
      BY <1>3 DEF RealMods
    <2>4. Within(r, C, R, W)
      BY <2>2, <2>3 DEF Within
    <2> HIDE DEF r
    <2> QED
      BY <2>1, <2>2, <2>4, SendReportStep
  <1>4. CASE a.mods # {} /\ ~ModsAreReal(a)
    <2>1. AddMods(k, a) = SendReport(w)
      BY <1>4 DEF AddMods
    <2>2. /\ w \in Kb /\ w.keys = k.keys /\ SameOtherwise(w, k)
          /\ w.weak_mods = k.weak_mods \cup a.mods /\ w.real_mods = k.real_mods
          /\ w.last_report = k.last_report
          /\ HostFollows(k) => HostFollows(w)
      BY <1>1, SetWeakMods
    <2>3. a.mods \subseteq W
      BY <1>4 DEF WeakMods
    <2>4. Within(w, C, R, W)
      BY <2>2, <2>3 DEF Within
    <2> HIDE DEF w
    <2> QED
      BY <2>1, <2>2, <2>4, SendReportStep
  <1> QED
    BY <1>2, <1>3, <1>4

LEMMA FreedFacts ==
    ASSUME NEW k \in Kb, NEW code \in Codes, NEW C, NEW R, NEW W, Within(k, C, R, W)
    PROVE  LET n == Freed(k, code)
           IN  /\ n \in Kb /\ Within(n, C, R, W) /\ SameOtherwise(n, k)
               /\ n.keys = k.keys \ {code}
               /\ HostFollows(k) => HostFollows(n)
  <1> DEFINE d == [k EXCEPT !.keys = k.keys \ {code}]
  <1>1. CASE code \notin k.keys
    BY <1>1 DEF Freed, SameOtherwise
  <1>2. CASE code \in k.keys
    <2>1. Freed(k, code) = SendReport(d)
      BY <1>2 DEF Freed, DelKey
    <2>2. k.keys \ {code} \in SUBSET Codes
      BY DEF Kb
    <2>3. /\ d \in Kb /\ d.keys = k.keys \ {code} /\ SameOtherwise(d, k)
          /\ d.real_mods = k.real_mods /\ d.weak_mods = k.weak_mods
          /\ d.last_report = k.last_report
          /\ HostFollows(k) => HostFollows(d)
      BY <2>2, SetKeys
    <2>4. Within(d, C, R, W)
      BY <2>3 DEF Within
    <2> HIDE DEF d
    <2> QED
      BY <2>1, <2>3, <2>4, SendReportStep
  <1> QED
    BY <1>1, <1>2

LEMMA AddKeyFacts ==
    ASSUME NEW k \in Kb, NEW code \in Codes, NEW C, NEW R, NEW W,
           Within(k, C, R, W), code \in C
    PROVE  LET n == AddKey(k, code)
           IN  /\ n \in Kb /\ Within(n, C, R, W) /\ SameOtherwise(n, k)
               /\ HostFollows(k) => HostFollows(n)
               /\ Fits(k) => Fits(n)
  <1> DEFINE d == [k EXCEPT !.keys = k.keys \cup {code}]
  <1>1. CASE ~HasRoom(k)
    BY <1>1 DEF AddKey, SameOtherwise
  <1>2. CASE HasRoom(k)
    <2>1. AddKey(k, code) = d
      BY <1>2 DEF AddKey
    <2>2. k.keys \cup {code} \in SUBSET Codes
      BY DEF Kb
    <2>3. /\ d \in Kb /\ d.keys = k.keys \cup {code} /\ SameOtherwise(d, k)
          /\ d.real_mods = k.real_mods /\ d.weak_mods = k.weak_mods
          /\ d.last_report = k.last_report
          /\ HostFollows(k) => HostFollows(d)
      BY <2>2, SetKeys
    <2>4. Within(d, C, R, W)
      BY <2>3 DEF Within
    <2>5. ASSUME Fits(k) PROVE Fits(d)
      <3>1. IsFiniteSet(k.keys) /\ Cardinality(k.keys) \in Nat
        BY <2>5, FS_CardinalityType DEF Fits
      <3>2. /\ IsFiniteSet(k.keys \cup {code})
            /\ Cardinality(k.keys \cup {code})
                  = IF code \in k.keys THEN Cardinality(k.keys) ELSE Cardinality(k.keys) + 1
        BY <3>1, FS_AddElement
      <3>3. Cardinality(k.keys) < KEYBOARD_REPORT_KEYS
        BY <1>2 DEF HasRoom
      <3> QED
        BY <2>3, <3>1, <3>2, <3>3, ActionsAssumption DEF Fits
    <2> QED
      BY <2>1, <2>3, <2>4, <2>5
  <1> QED
    BY <1>1, <1>2

LEMMA RegisterFacts ==
    ASSUME NEW k \in Kb, NEW code \in Codes \cup Mods \cup {KC_NO}, NEW C, NEW R, NEW W,
           Within(k, C, R, W), {code} \cap Codes \subseteq C, {code} \cap Mods \subseteq R
    PROVE  LET n == RegisterCode(k, code)
           IN  /\ n \in Kb /\ Within(n, C, R, W) /\ SameOtherwise(n, k)
               /\ HostFollows(k) => HostFollows(n)
               /\ Fits(k) => Fits(n)
  <1> DEFINE f == Freed(k, code)
             d == AddKey(f, code)
             r == [k EXCEPT !.real_mods = k.real_mods \cup {code}]
  <1>1. CASE code \in Codes
    <2>1. RegisterCode(k, code) = SendReport(d)
      BY <1>1 DEF RegisterCode
    <2>2. /\ f \in Kb /\ Within(f, C, R, W) /\ SameOtherwise(f, k)
          /\ f.keys = k.keys \ {code}
          /\ HostFollows(k) => HostFollows(f)
      BY <1>1, FreedFacts
    <2>3. ASSUME Fits(k) PROVE Fits(f)
      <3>1. IsFiniteSet(k.keys) /\ Cardinality(k.keys) \in Nat
        BY <2>3, FS_CardinalityType DEF Fits
      <3>2. /\ IsFiniteSet(f.keys) /\ Cardinality(f.keys) <= Cardinality(k.keys)
            /\ Cardinality(f.keys) \in Nat
        <4> HIDE DEF f
        <4>1. f.keys \in SUBSET k.keys
          BY <2>2
        <4> QED
          BY <4>1, <3>1, FS_Subset, FS_CardinalityType
      <3> QED
        BY <2>3, <3>1, <3>2, ActionsAssumption DEF Fits
    <2> HIDE DEF f
    <2>4. /\ d \in Kb /\ Within(d, C, R, W) /\ SameOtherwise(d, f)
          /\ HostFollows(f) => HostFollows(d)
          /\ Fits(f) => Fits(d)
      BY <1>1, <2>2, AddKeyFacts
    <2>5. /\ SameOtherwise(d, k)
          /\ HostFollows(k) => HostFollows(d)
          /\ Fits(k) => Fits(d)
      BY <2>2, <2>3, <2>4 DEF SameOtherwise
    <2> HIDE DEF d
    <2> QED
      BY <2>1, <2>4, <2>5, SendReportStep
  <1>2. CASE code \in Mods
    <2>1. RegisterCode(k, code) = SendReport(r)
      BY <1>2, ActionsAssumption DEF RegisterCode
    <2>2. k.real_mods \cup {code} \in SUBSET Mods
      BY <1>2 DEF Kb
    <2>3. /\ r \in Kb /\ r.keys = k.keys /\ SameOtherwise(r, k)
          /\ r.real_mods = k.real_mods \cup {code} /\ r.weak_mods = k.weak_mods
          /\ r.last_report = k.last_report
          /\ HostFollows(k) => HostFollows(r)
      BY <2>2, SetRealMods
    <2>4. Within(r, C, R, W)
      BY <1>2, <2>3 DEF Within
    <2>5. Fits(k) => Fits(r)
      BY <2>3 DEF Fits
    <2> HIDE DEF r
    <2> QED
      BY <2>1, <2>3, <2>4, <2>5, SendReportStep
  <1>3. CASE code = KC_NO
    BY <1>3, ActionsAssumption DEF RegisterCode, SameOtherwise
  <1> QED
    BY <1>1, <1>2, <1>3

-----------------------------------------------------------------------------
(* A release undoes its action: nothing of it is left in the state, nor in *)
(* the report handed over last.                                            *)

LEMMA UnregisterFacts ==
    ASSUME NEW k \in Kb, NEW code \in Codes \cup Mods \cup {KC_NO}
    PROVE  LET n == UnregisterCode(k, code)
           IN  /\ n \in Kb /\ SameOtherwise(n, k)
               /\ n.keys = k.keys \ {code}
               /\ n.real_mods = k.real_mods \ {code}
               /\ n.weak_mods = k.weak_mods
               /\ n.last_report = Report(n) \/ (n = k /\ code = KC_NO)
               /\ HostFollows(k) => HostFollows(n)
  <1> DEFINE n == UnregisterCode(k, code)
             d == [k EXCEPT !.keys = k.keys \ {code}]
             r == [k EXCEPT !.real_mods = k.real_mods \ {code}]
  <1>1. CASE code \in Codes
    <2>1. n = SendReport(d)
      BY <1>1 DEF UnregisterCode, DelKey
    <2>2. k.keys \ {code} \in SUBSET Codes /\ k.real_mods \ {code} = k.real_mods
      BY <1>1, ActionsAssumption DEF Kb
    <2>3. /\ d \in Kb /\ d.keys = k.keys \ {code} /\ SameOtherwise(d, k)
          /\ d.real_mods = k.real_mods /\ d.weak_mods = k.weak_mods
          /\ HostFollows(k) => HostFollows(d)
      BY <2>2, SetKeys
    <2> HIDE DEF d
    <2>4. /\ n \in Kb /\ n.keys = d.keys /\ n.real_mods = d.real_mods
          /\ n.weak_mods = d.weak_mods /\ n.last_report = Report(d)
          /\ SameOtherwise(n, d)
          /\ HostFollows(d) => HostFollows(n)
      BY <2>1, <2>3, SendReportFacts
    <2>5. Report(n) = Report(d)
      BY <2>4 DEF Report
    <2> HIDE DEF n
    <2>6. SameOtherwise(n, k)
      BY <2>3, <2>4 DEF SameOtherwise
    <2> QED
      BY <2>2, <2>3, <2>4, <2>5, <2>6 DEF n
  <1>2. CASE code \in Mods
    <2>1. n = SendReport(r)
      BY <1>2, ActionsAssumption DEF UnregisterCode
    <2>2. k.real_mods \ {code} \in SUBSET Mods /\ k.keys \ {code} = k.keys
      BY <1>2, ActionsAssumption DEF Kb
    <2>3. /\ r \in Kb /\ r.keys = k.keys /\ SameOtherwise(r, k)
          /\ r.real_mods = k.real_mods \ {code} /\ r.weak_mods = k.weak_mods
          /\ HostFollows(k) => HostFollows(r)
      BY <2>2, SetRealMods
    <2> HIDE DEF r
    <2>4. /\ n \in Kb /\ n.keys = r.keys /\ n.real_mods = r.real_mods
          /\ n.weak_mods = r.weak_mods /\ n.last_report = Report(r)
          /\ SameOtherwise(n, r)
          /\ HostFollows(r) => HostFollows(n)
      BY <2>1, <2>3, SendReportFacts
    <2>5. Report(n) = Report(r)
      BY <2>4 DEF Report
    <2> HIDE DEF n
    <2>6. SameOtherwise(n, k)
      BY <2>3, <2>4 DEF SameOtherwise
    <2> QED
      BY <2>2, <2>3, <2>4, <2>5, <2>6 DEF n
  <1>3. CASE code = KC_NO
    <2>1. n = k
      BY <1>3, ActionsAssumption DEF UnregisterCode
    <2>2. k.keys \ {code} = k.keys /\ k.real_mods \ {code} = k.real_mods
      BY <1>3, ActionsAssumption DEF Kb
    <2> QED
      BY <1>3, <2>1, <2>2 DEF SameOtherwise
  <1> QED
    BY <1>1, <1>2, <1>3

LEMMA DelModsFacts ==
    ASSUME NEW k \in Kb, NEW a \in KeyAction
    PROVE  LET n == DelMods(k, a)
           IN  /\ n \in Kb /\ SameOtherwise(n, k)
               /\ n.keys = k.keys
               /\ n.real_mods = k.real_mods \ (IF ModsAreReal(a) THEN a.mods ELSE {})
               /\ n.weak_mods = k.weak_mods \ (IF ModsAreReal(a) THEN {} ELSE a.mods)
               /\ n.last_report = Report(n) \/ (n = k /\ a.mods = {})
               /\ HostFollows(k) => HostFollows(n)
  <1> DEFINE n == DelMods(k, a)
             w == [k EXCEPT !.weak_mods = k.weak_mods \ a.mods]
             r == [k EXCEPT !.real_mods = k.real_mods \ a.mods]
  <1>1. CASE a.mods = {}
    <2>1. n = k
      BY <1>1 DEF DelMods
    <2> QED
      BY <1>1, <2>1 DEF SameOtherwise
  <1>2. CASE a.mods # {} /\ ModsAreReal(a)
    <2>1. n = SendReport(r)
      BY <1>2 DEF DelMods
    <2>2. k.real_mods \ a.mods \in SUBSET Mods
      BY DEF Kb
    <2>3. /\ r \in Kb /\ r.keys = k.keys /\ SameOtherwise(r, k)
          /\ r.real_mods = k.real_mods \ a.mods /\ r.weak_mods = k.weak_mods
          /\ HostFollows(k) => HostFollows(r)
      BY <2>2, SetRealMods
    <2> HIDE DEF r
    <2>4. /\ n \in Kb /\ n.keys = r.keys /\ n.real_mods = r.real_mods
          /\ n.weak_mods = r.weak_mods /\ n.last_report = Report(r)
          /\ SameOtherwise(n, r)
          /\ HostFollows(r) => HostFollows(n)
      BY <2>1, <2>3, SendReportFacts
    <2>5. Report(n) = Report(r)
      BY <2>4 DEF Report
    <2> HIDE DEF n
    <2>6. SameOtherwise(n, k)
      BY <2>3, <2>4 DEF SameOtherwise
    <2> QED
      BY <1>2, <2>3, <2>4, <2>5, <2>6 DEF n
  <1>3. CASE a.mods # {} /\ ~ModsAreReal(a)
    <2>1. n = SendReport(w)
      BY <1>3 DEF DelMods
    <2>2. k.weak_mods \ a.mods \in SUBSET Mods
      BY DEF Kb
    <2>3. /\ w \in Kb /\ w.keys = k.keys /\ SameOtherwise(w, k)
          /\ w.real_mods = k.real_mods /\ w.weak_mods = k.weak_mods \ a.mods
          /\ HostFollows(k) => HostFollows(w)
      BY <2>2, SetWeakMods
    <2> HIDE DEF w
    <2>4. /\ n \in Kb /\ n.keys = w.keys /\ n.real_mods = w.real_mods
          /\ n.weak_mods = w.weak_mods /\ n.last_report = Report(w)
          /\ SameOtherwise(n, w)
          /\ HostFollows(w) => HostFollows(n)
      BY <2>1, <2>3, SendReportFacts
    <2>5. Report(n) = Report(w)
      BY <2>4 DEF Report
    <2> HIDE DEF n
    <2>6. SameOtherwise(n, k)
      BY <2>3, <2>4 DEF SameOtherwise
    <2> QED
      BY <1>3, <2>3, <2>4, <2>5, <2>6 DEF n
  <1> QED
    BY <1>1, <1>2, <1>3

(* What the other keys allow, C, R and W, allows everything that is left.  *)
LEMMA KeyReleaseFacts ==
    ASSUME NEW k \in Kb, NEW a \in KeyAction, NEW C, NEW R, NEW W,
           Within(k, C \cup ({a.code} \cap Codes), R \cup RealMods(a), W \cup WeakMods(a))
    PROVE  LET n == DelMods(UnregisterCode(k, a.code), a)
           IN  /\ n \in Kb /\ Within(n, C, R, W) /\ SameOtherwise(n, k)
               /\ HostFollows(k) => HostFollows(n)
               /\ Fits(k) => Fits(n)
  <1> DEFINE u == UnregisterCode(k, a.code)
             n == DelMods(u, a)
  <1>0. a.code \in Codes \cup Mods \cup {KC_NO} /\ a.mods \subseteq Mods
    BY DEF KeyAction
  <1>1. /\ u \in Kb /\ SameOtherwise(u, k)
        /\ u.keys = k.keys \ {a.code}
        /\ u.real_mods = k.real_mods \ {a.code}
        /\ u.weak_mods = k.weak_mods
        /\ u.last_report = Report(u) \/ (u = k /\ a.code = KC_NO)
        /\ HostFollows(k) => HostFollows(u)
    BY <1>0, UnregisterFacts
  <1> HIDE DEF u
  <1>2. /\ n \in Kb /\ SameOtherwise(n, u)
        /\ n.keys = u.keys
        /\ n.real_mods = u.real_mods \ (IF ModsAreReal(a) THEN a.mods ELSE {})
        /\ n.weak_mods = u.weak_mods \ (IF ModsAreReal(a) THEN {} ELSE a.mods)
        /\ n.last_report = Report(n) \/ (n = u /\ a.mods = {})
        /\ HostFollows(u) => HostFollows(n)
    BY <1>1, DelModsFacts
  <1> HIDE DEF n
  <1>3. n.keys \subseteq C /\ n.real_mods \subseteq R /\ n.weak_mods \subseteq W
    <2>1. n.keys \subseteq C
      BY <1>1, <1>2 DEF Within
    <2>2. n.real_mods \subseteq R
      BY <1>1, <1>2 DEF Within, RealMods
    <2>3. n.weak_mods \subseteq W
      BY <1>1, <1>2 DEF Within, WeakMods
    <2> QED
      BY <2>1, <2>2, <2>3
  <1>4. n.last_report.keys \subseteq C /\ n.last_report.mods \subseteq R \cup W
    <2>1. CASE n.last_report = Report(n)
      BY <1>3, <2>1 DEF Report
    <2>2. CASE n = u /\ u.last_report = Report(u)
      BY <1>3, <2>2 DEF Report
    <2>3. CASE n = k /\ a.mods = {} /\ a.code = KC_NO
      <3>1. RealMods(a) = {} /\ WeakMods(a) = {} /\ {a.code} \cap Codes = {}
        BY <2>3, ActionsAssumption DEF RealMods, WeakMods
      <3> QED
        BY <2>3, <3>1 DEF Within
    <2> QED
      BY <1>1, <1>2, <2>1, <2>2, <2>3
  <1>5. ASSUME Fits(k) PROVE Fits(n)
    <2>1. n.keys \in SUBSET k.keys /\ IsFiniteSet(k.keys) /\ Cardinality(k.keys) \in Nat
      BY <1>1, <1>2, <1>5, FS_CardinalityType DEF Fits
    <2>2. /\ IsFiniteSet(n.keys) /\ Cardinality(n.keys) <= Cardinality(k.keys)
          /\ Cardinality(n.keys) \in Nat
      BY <2>1, FS_Subset, FS_CardinalityType
    <2> QED
      BY <1>5, <2>1, <2>2, ActionsAssumption DEF Fits
  <1>6. SameOtherwise(n, k)
    BY <1>1, <1>2 DEF SameOtherwise
  <1> QED
    BY <1>1, <1>2, <1>3, <1>4, <1>5, <1>6 DEF Within, n, u

-----------------------------------------------------------------------------
(* Layers and usages *)

UsagesWithin(k, U) ==
    \A page \in Pages : k.usage[page] # 0 =>
        \E a \in U : a.page = page /\ a.code = k.usage[page]

LEMMA ClearFacts ==
    ASSUME NEW k \in Kb, NEW C, NEW R, NEW W, Within(k, C, R, W)
    PROVE  LET n == ClearUsagesAndWeakMods(k)
           IN  /\ n \in Kb /\ Within(n, C, R, W)
               /\ n.layer_state = k.layer_state
               /\ n.usage = NoUsage
               /\ HostFollows(k) => HostFollows(n)
               /\ Fits(k) => Fits(n)
  <1> DEFINE s == SendUsage(k, "system", 0)
             c == SendUsage(s, "consumer", 0)
             w == [c EXCEPT !.weak_mods = {}]
             n == ClearUsagesAndWeakMods(k)
  <1>0. /\ "system" \in Pages /\ "consumer" \in Pages
        /\ \A q \in Pages : q = "system" \/ q = "consumer"
        /\ 0 \in Usages \cup {0}
    BY DEF Pages
  <1>1. n = SendReport(w)
    BY DEF ClearUsagesAndWeakMods
  <1>2. /\ s \in Kb /\ s.keys = k.keys /\ s.real_mods = k.real_mods
        /\ s.weak_mods = k.weak_mods /\ s.last_report = k.last_report
        /\ s.layer_state = k.layer_state
        /\ s.usage = [k.usage EXCEPT !["system"] = 0]
        /\ HostFollows(k) => HostFollows(s)
    BY <1>0, SendUsageFacts
  <1> HIDE DEF s
  <1>3. /\ c \in Kb /\ c.keys = s.keys /\ c.real_mods = s.real_mods
        /\ c.weak_mods = s.weak_mods /\ c.last_report = s.last_report
        /\ c.layer_state = s.layer_state
        /\ c.usage = [s.usage EXCEPT !["consumer"] = 0]
        /\ HostFollows(s) => HostFollows(c)
    BY <1>0, <1>2, SendUsageFacts
  <1>4. c.usage = NoUsage
    <2>1. k.usage \in [Pages -> Usages \cup {0}]
      BY DEF Kb
    <2> QED
      BY <1>0, <1>2, <1>3, <2>1 DEF NoUsage
  <1> HIDE DEF c
  <1>5. {} \in SUBSET Mods
    OBVIOUS
  <1>6. /\ w \in Kb /\ w.keys = c.keys /\ w.real_mods = c.real_mods /\ w.weak_mods = {}
        /\ w.last_report = c.last_report /\ SameOtherwise(w, c)
        /\ HostFollows(c) => HostFollows(w)
    BY <1>3, <1>5, SetWeakMods
  <1> HIDE DEF w
  <1>7. Within(w, C, R, W)
    BY <1>2, <1>3, <1>6 DEF Within
  <1>8. /\ n \in Kb /\ Within(n, C, R, W) /\ n.keys = w.keys /\ SameOtherwise(n, w)
        /\ HostFollows(w) => HostFollows(n)
    BY <1>1, <1>6, <1>7, SendReportFacts, SendReportWithin
  <1> HIDE DEF n
  <1>9. n.layer_state = k.layer_state /\ n.usage = NoUsage /\ n.keys = k.keys
    BY <1>2, <1>3, <1>4, <1>6, <1>8 DEF SameOtherwise
  <1>10. Fits(k) => Fits(n)
    BY <1>9 DEF Fits
  <1> QED
    BY <1>2, <1>3, <1>6, <1>8, <1>9, <1>10 DEF n

LEMMA LayerStateSetFacts ==
    ASSUME NEW k \in Kb, NEW L \in SUBSET Layers, NEW C, NEW R, NEW W, NEW U,
           Within(k, C, R, W)
    PROVE  LET n == LayerStateSet(k, L)
           IN  /\ n \in Kb /\ Within(n, C, R, W) /\ UsagesWithin(n, U)
               /\ n.layer_state = L
               /\ HostFollows(k) => HostFollows(n)
               /\ Fits(k) => Fits(n)
  <1> DEFINE s == [k EXCEPT !.layer_state = L]
             n == LayerStateSet(k, L)
  <1>1. /\ s \in Kb /\ s.keys = k.keys /\ s.real_mods = k.real_mods
        /\ s.weak_mods = k.weak_mods /\ s.last_report = k.last_report
        /\ s.layer_state = L
    BY DEF Kb
  <1>2. HostFollows(k) => HostFollows(s)
    BY DEF Kb, HostFollows
  <1>3. Within(s, C, R, W)
    BY <1>1 DEF Within
  <1>4. Fits(k) => Fits(s)
    BY <1>1 DEF Fits
  <1>5. n = ClearUsagesAndWeakMods(s)
    BY DEF LayerStateSet
  <1> HIDE DEF s
  <1>6. /\ n \in Kb /\ Within(n, C, R, W) /\ n.layer_state = s.layer_state
        /\ n.usage = NoUsage
        /\ HostFollows(s) => HostFollows(n)
        /\ Fits(s) => Fits(n)
    BY <1>1, <1>3, <1>5, ClearFacts
  <1>7. UsagesWithin(n, U)
    BY <1>6 DEF UsagesWithin, NoUsage
  <1> QED
    BY <1>1, <1>2, <1>4, <1>6, <1>7

LEMMA DefaultLayerSetFacts ==
    ASSUME NEW k \in Kb, NEW L \in SUBSET Layers, NEW C, NEW R, NEW W, NEW U,
           Within(k, C, R, W)
    PROVE  LET n == DefaultLayerSet(k, L)
           IN  /\ n \in Kb /\ Within(n, C, R, W) /\ UsagesWithin(n, U)
               /\ n.layer_state = k.layer_state
               /\ HostFollows(k) => HostFollows(n)
               /\ Fits(k) => Fits(n)
  <1> DEFINE s == [k EXCEPT !.default_layer_state = L]
             n == DefaultLayerSet(k, L)
  <1>1. /\ s \in Kb /\ s.keys = k.keys /\ s.real_mods = k.real_mods
        /\ s.weak_mods = k.weak_mods /\ s.last_report = k.last_report
        /\ s.layer_state = k.layer_state
    BY DEF Kb
  <1>2. HostFollows(k) => HostFollows(s)
    BY DEF Kb, HostFollows
  <1>3. Within(s, C, R, W)
    BY <1>1 DEF Within
  <1>4. Fits(k) => Fits(s)
    BY <1>1 DEF Fits
  <1>5. n = ClearUsagesAndWeakMods(s)
    BY DEF DefaultLayerSet
  <1> HIDE DEF s
  <1>6. /\ n \in Kb /\ Within(n, C, R, W) /\ n.layer_state = s.layer_state
        /\ n.usage = NoUsage
        /\ HostFollows(s) => HostFollows(n)
        /\ Fits(s) => Fits(n)
    BY <1>1, <1>3, <1>5, ClearFacts
  <1>7. UsagesWithin(n, U)
    BY <1>6 DEF UsagesWithin, NoUsage
  <1> QED
    BY <1>1, <1>2, <1>4, <1>6, <1>7

-----------------------------------------------------------------------------
(* process_action *)

AnyAction == KeyAction \cup UsageAction \cup LayerAction \cup {Transparent}

LEMMA ActionKinds ==
    ASSUME NEW a \in AnyAction
    PROVE  /\ a.kind = "key" <=> a \in KeyAction
           /\ a.kind = "usage" <=> a \in UsageAction
           /\ a.kind \in {"mo", "tg", "to", "df"} <=> a \in LayerAction
           /\ a.kind \in {"key", "usage", "mo", "tg", "to", "df", "trans"}
  BY DEF AnyAction, KeyAction, UsageAction, LayerAction, Transparent

LEMMA PressedFacts ==
    ASSUME NEW k \in Kb, NEW a \in AnyAction, NEW C, NEW R, NEW W, NEW U,
           Within(k, C, R, W), UsagesWithin(k, U),
           a.kind = "key" => /\ a.code \in C
                             /\ RealMods(a) \subseteq R /\ WeakMods(a) \subseteq W,
           a.kind = "usage" => a \in U
    PROVE  LET n == Pressed(k, a)
           IN  /\ n \in Kb /\ Within(n, C, R, W) /\ UsagesWithin(n, U)
               /\ HostFollows(k) => HostFollows(n)
               /\ Fits(k) => Fits(n)
  <1> DEFINE n == Pressed(k, a)
  <1>1. CASE a.kind = "key"
    <2> DEFINE m == AddMods(k, a)
    <2>1. a \in KeyAction /\ a.code \in Codes \cup Mods \cup {KC_NO}
      BY <1>1, ActionKinds DEF KeyAction
    <2>2. n = RegisterCode(m, a.code)
      BY <1>1 DEF Pressed
    <2>3. /\ m \in Kb /\ Within(m, C, R, W) /\ m.keys = k.keys /\ SameOtherwise(m, k)
          /\ HostFollows(k) => HostFollows(m)
      BY <1>1, <2>1, AddModsFacts
    <2>4. {a.code} \cap Codes \subseteq C
      BY <1>1
    <2>5. {a.code} \cap Mods \subseteq R
      BY <1>1 DEF RealMods, ModsAreReal
    <2> HIDE DEF m
    <2>6. /\ n \in Kb /\ Within(n, C, R, W) /\ SameOtherwise(n, m)
          /\ HostFollows(m) => HostFollows(n)
          /\ Fits(m) => Fits(n)
      BY <2>1, <2>2, <2>3, <2>4, <2>5, RegisterFacts
    <2> HIDE DEF n
    <2>7. UsagesWithin(n, U)
      BY <2>3, <2>6 DEF UsagesWithin, SameOtherwise
    <2>8. Fits(k) => Fits(m)
      BY <2>3 DEF Fits
    <2> QED
      BY <2>3, <2>6, <2>7, <2>8 DEF n
  <1>2. CASE a.kind = "usage"
    <2>1. a \in UsageAction /\ a.page \in Pages /\ a.code \in Usages \cup {0}
      BY <1>2, ActionKinds DEF UsageAction
    <2>2. n = SendUsage(k, a.page, a.code)
      BY <1>2 DEF Pressed
    <2>3. /\ n \in Kb /\ n.keys = k.keys /\ n.real_mods = k.real_mods
          /\ n.weak_mods = k.weak_mods /\ n.last_report = k.last_report
          /\ n.usage = [k.usage EXCEPT ![a.page] = a.code]
          /\ HostFollows(k) => HostFollows(n)
      BY <2>1, <2>2, SendUsageFacts
    <2> HIDE DEF n
    <2>4. Within(n, C, R, W)
      BY <2>3 DEF Within
    <2>5. UsagesWithin(n, U)
      <3>1. k.usage \in [Pages -> Usages \cup {0}]
        BY DEF Kb
      <3> SUFFICES ASSUME NEW q \in Pages, n.usage[q] # 0
                   PROVE  \E b \in U : b.page = q /\ b.code = n.usage[q]
        BY DEF UsagesWithin
      <3>2. CASE q = a.page
        BY <1>2, <2>3, <3>1, <3>2
      <3>3. CASE q # a.page
        BY <2>3, <3>1, <3>3 DEF UsagesWithin
      <3> QED
        BY <3>2, <3>3
    <2>6. Fits(k) => Fits(n)
      BY <2>3 DEF Fits
    <2> QED
      BY <2>3, <2>4, <2>5, <2>6 DEF n
  <1>3. CASE a.kind = "mo"
    <2>1. a.layer \in Layers
      BY <1>3, ActionKinds DEF LayerAction
    <2>2. k.layer_state \cup {a.layer} \in SUBSET Layers
      BY <2>1 DEF Kb
    <2>3. n = LayerStateSet(k, k.layer_state \cup {a.layer})
      BY <1>3 DEF Pressed
    <2> QED
      BY <2>2, <2>3, LayerStateSetFacts
  <1>4. CASE a.kind = "to"
    <2>1. a.layer \in Layers
      BY <1>4, ActionKinds DEF LayerAction
    <2>2. {a.layer} \in SUBSET Layers
      BY <2>1
    <2>3. n = LayerStateSet(k, {a.layer})
      BY <1>4 DEF Pressed
    <2> QED
      BY <2>2, <2>3, LayerStateSetFacts
  <1>5. CASE a.kind \notin {"key", "usage", "mo", "to"}
    <2>1. n = k
      BY <1>5 DEF Pressed
    <2> QED
      BY <2>1
  <1> QED
    BY <1>1, <1>2, <1>3, <1>4, <1>5

LEMMA ReleasedFacts ==
    ASSUME NEW k \in Kb, NEW a \in AnyAction, NEW C, NEW R, NEW W, NEW U,
           a.kind = "key" => Within(k, C \cup ({a.code} \cap Codes),
                                       R \cup RealMods(a), W \cup WeakMods(a)),
           a.kind # "key" => Within(k, C, R, W),
           a.kind = "usage" => UsagesWithin(k, U \cup {a}),
           a.kind # "usage" => UsagesWithin(k, U)
    PROVE  LET n == Released(k, a)
           IN  /\ n \in Kb /\ Within(n, C, R, W) /\ UsagesWithin(n, U)
               /\ HostFollows(k) => HostFollows(n)
               /\ Fits(k) => Fits(n)
  <1> DEFINE n == Released(k, a)
  <1>1. CASE a.kind = "key"
    <2>1. a \in KeyAction
      BY <1>1, ActionKinds
    <2>2. n = DelMods(UnregisterCode(k, a.code), a)
      BY <1>1 DEF Released
    <2>3. /\ n \in Kb /\ Within(n, C, R, W) /\ SameOtherwise(n, k)
          /\ HostFollows(k) => HostFollows(n)
          /\ Fits(k) => Fits(n)
      BY <1>1, <2>1, <2>2, KeyReleaseFacts
    <2> HIDE DEF n
    <2>4. UsagesWithin(n, U)
      BY <1>1, <2>3 DEF UsagesWithin, SameOtherwise
    <2> QED
      BY <2>3, <2>4 DEF n
  <1>2. CASE a.kind = "usage"
    <2>1. a \in UsageAction /\ a.page \in Pages /\ 0 \in Usages \cup {0}
      BY <1>2, ActionKinds DEF UsageAction
    <2>2. n = SendUsage(k, a.page, 0)
      BY <1>2 DEF Released
    <2>3. /\ n \in Kb /\ n.keys = k.keys /\ n.real_mods = k.real_mods
          /\ n.weak_mods = k.weak_mods /\ n.last_report = k.last_report
          /\ n.usage = [k.usage EXCEPT ![a.page] = 0]
          /\ HostFollows(k) => HostFollows(n)
      BY <2>1, <2>2, SendUsageFacts
    <2> HIDE DEF n
    <2>4. Within(n, C, R, W)
      BY <1>2, <2>3 DEF Within
    <2>5. UsagesWithin(n, U)
      <3>1. k.usage \in [Pages -> Usages \cup {0}]
        BY DEF Kb
      <3> SUFFICES ASSUME NEW q \in Pages, n.usage[q] # 0
                   PROVE  \E b \in U : b.page = q /\ b.code = n.usage[q]
        BY DEF UsagesWithin
      <3>2. q # a.page /\ n.usage[q] = k.usage[q]
        BY <2>1, <2>3, <3>1
      <3>3. PICK b \in U \cup {a} : b.page = q /\ b.code = k.usage[q]
        BY <1>2, <3>2 DEF UsagesWithin
      <3> QED
        BY <3>2, <3>3
    <2>6. Fits(k) => Fits(n)
      BY <2>3 DEF Fits
    <2> QED
      BY <2>3, <2>4, <2>5, <2>6 DEF n
  <1>3. CASE a.kind \in {"mo", "tg"}
    <2>1. a.layer \in Layers
      BY <1>3, ActionKinds DEF LayerAction
    <2>2. /\ MomentaryOff(k, a.layer) \in SUBSET Layers
          /\ SymDiff(k.layer_state, {a.layer}) \in SUBSET Layers
      BY <2>1 DEF Kb, MomentaryOff, SymDiff
    <2>3. \/ n = LayerStateSet(k, MomentaryOff(k, a.layer))
          \/ n = LayerStateSet(k, SymDiff(k.layer_state, {a.layer}))
      BY <1>3 DEF Released
    <2> QED
      BY <1>3, <2>2, <2>3, LayerStateSetFacts
  <1>4. CASE a.kind = "df"
    <2>1. {a.layer} \in SUBSET Layers
      BY <1>4, ActionKinds DEF LayerAction
    <2>2. n = DefaultLayerSet(k, {a.layer})
      BY <1>4 DEF Released
    <2> QED
      BY <1>4, <2>1, <2>2, DefaultLayerSetFacts
  <1>5. CASE a.kind \notin {"key", "usage", "mo", "tg", "df"}
    <2>1. n = k
      BY <1>5 DEF Released
    <2> QED
      BY <1>5, <2>1
  <1> QED
    BY <1>1, <1>2, <1>3, <1>4, <1>5

-----------------------------------------------------------------------------
(* The inductive invariant *)

HeldCodes == {a.code : a \in HeldKeys}
HeldRealMods == UNION {RealMods(a) : a \in HeldKeys}
HeldWeakMods == UNION {WeakMods(a) : a \in HeldKeys}

IInv ==
    /\ TypeOK
    /\ Within(kb, HeldCodes, HeldRealMods, HeldWeakMods)
    /\ UsagesWithin(kb, HeldUsages)
    /\ HostFollows(kb)

LEMMA InitIInv == Init => IInv
  <1> SUFFICES ASSUME Init PROVE IInv
    OBVIOUS
  <1>1. kb \in Kb
    <2>1. NoUsage \in [Pages -> Usages \cup {0}] /\ NoReport \in Reports
      BY DEF NoUsage, NoReport, Reports
    <2>2. <<>> \in Seq(Reports)
      OBVIOUS
    <2> QED
      BY <2>1, <2>2 DEF Init, Kb
  <1>2. Fits(kb)
    BY FS_EmptySet, ActionsAssumption DEF Init, Fits
  <1>3. TypeOK
    BY <1>1, <1>2, ActionsAssumption DEF Init, TypeOK, Fits
  <1>4. Within(kb, HeldCodes, HeldRealMods, HeldWeakMods)
    BY DEF Init, Within, NoReport
  <1>5. UsagesWithin(kb, HeldUsages)
    BY DEF Init, UsagesWithin, NoUsage
  <1>6. HostFollows(kb)
    BY DEF Init, HostFollows, NoReport, NoUsage
  <1> QED
    BY <1>3, <1>4, <1>5, <1>6 DEF IInv

LEMMA BeginFacts ==
    ASSUME NEW k \in Kb, NEW C, NEW R, NEW W, NEW U, Within(k, C, R, W), UsagesWithin(k, U),
           HostFollows(k), Fits(k),
           NEW n \in {[k EXCEPT !.weak_mods = {}, !.sent = <<>>], [k EXCEPT !.sent = <<>>]}
    PROVE  /\ n \in Kb /\ Within(n, C, R, W) /\ UsagesWithin(n, U)
           /\ HostFollows(n) /\ Fits(n)
           /\ n.layer_state = k.layer_state
  <1>1. <<>> \in Seq(Reports)
    OBVIOUS
  <1>2. n \in Kb
    BY <1>1 DEF Kb
  <1>3. /\ n.keys = k.keys /\ n.real_mods = k.real_mods /\ n.weak_mods \subseteq k.weak_mods
        /\ n.last_report = k.last_report /\ n.usage = k.usage /\ n.link = k.link
        /\ n.host = k.host /\ n.host_usage = k.host_usage
        /\ n.layer_state = k.layer_state
    BY DEF Kb
  <1>4. Within(n, C, R, W)
    BY <1>3 DEF Within
  <1>5. UsagesWithin(n, U)
    BY <1>3 DEF UsagesWithin
  <1>6. HostFollows(n)
    BY <1>3 DEF HostFollows
  <1>7. Fits(n)
    BY <1>3 DEF Fits
  <1> QED
    BY <1>2, <1>3, <1>4, <1>5, <1>6, <1>7

LEMMA PressIInv ==
    ASSUME IInv, NEW p \in Positions, Press(p)
    PROVE  IInv'
  <1> DEFINE k == [kb EXCEPT !.weak_mods = {}, !.sent = <<>>]
  <1>1. PICK layer \in Layers :
            /\ source_layers_cache' = [source_layers_cache EXCEPT ![p] = layer]
            /\ kb' = Pressed(k, keymaps[layer][p])
    BY DEF Press
  <1> DEFINE a == keymaps[layer][p]
  <1>2. a \in AnyAction
    BY ActionsAssumption DEF AnyAction
  <1>3. /\ kb \in Kb /\ matrix_prev \subseteq Positions /\ Fits(kb)
        /\ source_layers_cache \in [Positions -> Layers]
    BY DEF IInv, TypeOK, Fits
  <1>4. /\ matrix_prev' = matrix_prev \cup {p} /\ p \notin matrix_prev
        /\ matrix_prev' \subseteq Positions
        /\ source_layers_cache' \in [Positions -> Layers]
    BY <1>1, <1>3 DEF Press
  <1>5. HeldAction(p)' = a /\ \A q \in matrix_prev : HeldAction(q)' = HeldAction(q)
    BY <1>1, <1>3, <1>4 DEF HeldAction
  <1> HIDE DEF a
  <1>6. /\ HeldKeys \subseteq HeldKeys'
        /\ a.kind = "key" => a \in HeldKeys'
        /\ HeldUsages \subseteq HeldUsages'
        /\ a.kind = "usage" => a \in HeldUsages'
    BY <1>4, <1>5 DEF HeldKeys, HeldUsages
  <1>7. /\ Within(kb, HeldCodes', HeldRealMods', HeldWeakMods')
        /\ UsagesWithin(kb, HeldUsages')
    <2>1. /\ HeldCodes \subseteq HeldCodes' /\ HeldRealMods \subseteq HeldRealMods'
          /\ HeldWeakMods \subseteq HeldWeakMods'
      BY <1>6 DEF HeldCodes, HeldRealMods, HeldWeakMods
    <2> QED
      BY <1>6, <2>1 DEF IInv, Within, UsagesWithin
  <1>8. a.kind = "key" => /\ a.code \in HeldCodes'
                          /\ RealMods(a) \subseteq HeldRealMods'
                          /\ WeakMods(a) \subseteq HeldWeakMods'
    BY <1>6 DEF HeldCodes, HeldRealMods, HeldWeakMods
  <1>9. /\ k \in Kb /\ Within(k, HeldCodes', HeldRealMods', HeldWeakMods')
        /\ UsagesWithin(k, HeldUsages') /\ HostFollows(k) /\ Fits(k)
    BY <1>3, <1>7, BeginFacts DEF IInv
  <1>10. kb' = Pressed(k, a)
    BY <1>1 DEF a
  <1> HIDE DEF k
  <1>11. /\ kb' \in Kb /\ Within(kb', HeldCodes', HeldRealMods', HeldWeakMods')
         /\ UsagesWithin(kb', HeldUsages')
         /\ HostFollows(kb')
         /\ Fits(kb')
    BY <1>2, <1>6, <1>8, <1>9, <1>10, PressedFacts
  <1> QED
    BY <1>4, <1>11 DEF IInv, TypeOK, Fits

LEMMA ReleaseIInv ==
    ASSUME IInv, NEW p \in Positions, Release(p)
    PROVE  IInv'
  <1> DEFINE k == [kb EXCEPT !.sent = <<>>]
             a == keymaps[source_layers_cache[p]][p]
  <1>1. kb' = Released(k, a) /\ source_layers_cache' = source_layers_cache
    BY DEF Release, ReleaseLayer
  <1>3. /\ kb \in Kb /\ matrix_prev \subseteq Positions /\ Fits(kb)
        /\ source_layers_cache \in [Positions -> Layers]
    BY DEF IInv, TypeOK, Fits
  <1>2. a \in AnyAction
    BY <1>3, ActionsAssumption DEF AnyAction
  <1>4. matrix_prev' = matrix_prev \ {p} /\ p \in matrix_prev
    BY DEF Release
  <1>5. HeldAction(p) = a /\ \A q \in matrix_prev' : HeldAction(q)' = HeldAction(q)
    BY <1>1, <1>3, <1>4 DEF HeldAction
  <1> HIDE DEF a
  <1>6. /\ \A b \in HeldKeys : b \in HeldKeys' \/ (b = a /\ a.kind = "key")
        /\ \A b \in HeldUsages : b \in HeldUsages' \/ (b = a /\ a.kind = "usage")
    BY <1>4, <1>5 DEF HeldKeys, HeldUsages
  <1>7. a.kind = "key" =>
            Within(kb, HeldCodes' \cup ({a.code} \cap Codes),
                       HeldRealMods' \cup RealMods(a), HeldWeakMods' \cup WeakMods(a))
    <2> SUFFICES ASSUME a.kind = "key"
                 PROVE  Within(kb, HeldCodes' \cup ({a.code} \cap Codes),
                            HeldRealMods' \cup RealMods(a), HeldWeakMods' \cup WeakMods(a))
      OBVIOUS
    <2>1. /\ HeldCodes \subseteq HeldCodes' \cup {a.code}
          /\ HeldRealMods \subseteq HeldRealMods' \cup RealMods(a)
          /\ HeldWeakMods \subseteq HeldWeakMods' \cup WeakMods(a)
      BY <1>6 DEF HeldCodes, HeldRealMods, HeldWeakMods
    <2>2. kb.keys \subseteq Codes /\ kb.last_report.keys \subseteq Codes
      BY <1>3 DEF Kb, Reports
    <2> QED
      BY <2>1, <2>2 DEF IInv, Within
  <1>8. a.kind # "key" => Within(kb, HeldCodes', HeldRealMods', HeldWeakMods')
    <2> SUFFICES ASSUME a.kind # "key"
                 PROVE  Within(kb, HeldCodes', HeldRealMods', HeldWeakMods')
      OBVIOUS
    <2>1. /\ HeldCodes \subseteq HeldCodes' /\ HeldRealMods \subseteq HeldRealMods'
          /\ HeldWeakMods \subseteq HeldWeakMods'
      BY <1>6 DEF HeldCodes, HeldRealMods, HeldWeakMods
    <2> QED
      BY <2>1 DEF IInv, Within
  <1>9. /\ a.kind = "usage" => UsagesWithin(kb, HeldUsages' \cup {a})
        /\ a.kind # "usage" => UsagesWithin(kb, HeldUsages')
    BY <1>6 DEF IInv, UsagesWithin
  <1>10. /\ k \in Kb /\ HostFollows(k) /\ Fits(k) /\ k.keys = kb.keys
         /\ k.real_mods = kb.real_mods /\ k.weak_mods = kb.weak_mods
         /\ k.last_report = kb.last_report /\ k.usage = kb.usage
    <2>1. k \in Kb /\ HostFollows(k) /\ Fits(k)
      BY <1>3, BeginFacts DEF IInv
    <2> QED
      BY <1>3, <2>1 DEF Kb
  <1> HIDE DEF k
  <1>11. /\ a.kind = "key" =>
                Within(k, HeldCodes' \cup ({a.code} \cap Codes),
                          HeldRealMods' \cup RealMods(a), HeldWeakMods' \cup WeakMods(a))
         /\ a.kind # "key" => Within(k, HeldCodes', HeldRealMods', HeldWeakMods')
         /\ a.kind = "usage" => UsagesWithin(k, HeldUsages' \cup {a})
         /\ a.kind # "usage" => UsagesWithin(k, HeldUsages')
    BY <1>7, <1>8, <1>9, <1>10 DEF Within, UsagesWithin
  <1>12. /\ kb' \in Kb /\ Within(kb', HeldCodes', HeldRealMods', HeldWeakMods')
         /\ UsagesWithin(kb', HeldUsages')
         /\ HostFollows(kb')
         /\ Fits(kb')
    BY <1>1, <1>2, <1>10, <1>11, ReleasedFacts
  <1> QED
    BY <1>1, <1>3, <1>4, <1>12 DEF IInv, TypeOK, Fits

LEMMA LinkChangeIInv == IInv /\ LinkChange => IInv'
  <1> SUFFICES ASSUME IInv, LinkChange PROVE IInv'
    OBVIOUS
  <1>1. kb \in Kb
    BY DEF IInv, TypeOK
  <1>2. /\ NoUsage \in [Pages -> Usages \cup {0}] /\ NoReport \in Reports
        /\ <<>> \in Seq(Reports)
    BY DEF NoUsage, NoReport, Reports
  <1>3. kb' \in Kb
    BY <1>1, <1>2 DEF LinkChange, Kb
  <1>4. /\ kb'.keys = kb.keys /\ kb'.real_mods = kb.real_mods /\ kb'.weak_mods = kb.weak_mods
        /\ kb'.last_report = kb.last_report /\ kb'.usage = kb.usage
        /\ kb'.host = NoReport /\ kb'.host_usage = NoUsage
    BY <1>1 DEF LinkChange, Kb
  <1>5. /\ HeldKeys' = HeldKeys /\ HeldUsages' = HeldUsages
        /\ UNCHANGED <<matrix_prev, source_layers_cache>>
    BY DEF LinkChange, HeldKeys, HeldUsages, HeldAction
  <1>6. /\ HeldCodes' = HeldCodes /\ HeldRealMods' = HeldRealMods
        /\ HeldWeakMods' = HeldWeakMods
    BY <1>5 DEF HeldCodes, HeldRealMods, HeldWeakMods
  <1>7. /\ Within(kb, HeldCodes, HeldRealMods, HeldWeakMods)' /\ UsagesWithin(kb, HeldUsages)'
    BY <1>4, <1>5, <1>6 DEF IInv, Within, UsagesWithin
  <1>8. HostFollows(kb)'
    BY <1>4 DEF HostFollows, NoUsage
  <1> QED
    BY <1>3, <1>4, <1>5, <1>7, <1>8 DEF IInv, TypeOK

LEMMA NextIInv == IInv /\ [Next]_vars => IInv'
  <1> SUFFICES ASSUME IInv, [Next]_vars PROVE IInv'
    OBVIOUS
  <1>1. CASE LinkChange
    BY <1>1, LinkChangeIInv
  <1>2. ASSUME NEW p \in Positions, Press(p) PROVE IInv'
    BY <1>2, PressIInv
  <1>3. ASSUME NEW p \in Positions, Release(p) PROVE IInv'
    BY <1>3, ReleaseIInv
  <1>4. CASE UNCHANGED vars
    BY <1>4 DEF vars, IInv, TypeOK, HeldCodes, HeldRealMods, HeldWeakMods, HeldKeys,
                HeldUsages, HeldAction, Within, UsagesWithin, HostFollows
  <1> QED
    BY <1>1, <1>2, <1>3, <1>4 DEF Next

LEMMA Inductive == Spec => []IInv
  BY InitIInv, NextIInv, PTL DEF Spec

(* The state of the key events keeps its types, and the report never has   *)
(* more keys than places.                                                  *)
THEOREM TypeCorrect == Spec => []TypeOK
  <1>1. IInv => TypeOK
    BY DEF IInv
  <1> QED
    BY <1>1, Inductive, PTL

LEMMA IInvReportIsHeld == IInv => ReportIsHeld
  <1> SUFFICES ASSUME IInv PROVE ReportIsHeld
    OBVIOUS
  <1>1. \A c \in kb.keys : \E a \in HeldKeys : c = a.code
    BY DEF IInv, Within, HeldCodes
  <1>2. \A m \in kb.real_mods : \E a \in HeldKeys : m \in RealMods(a)
    BY DEF IInv, Within, HeldRealMods
  <1>3. \A m \in kb.weak_mods : \E a \in HeldKeys : m \in WeakMods(a)
    BY DEF IInv, Within, HeldWeakMods
  <1> QED
    BY <1>1, <1>2, <1>3 DEF ReportIsHeld, IInv, UsagesWithin

(* Whatever layers come and go between a press and its release, every key, *)
(* modifier and usage that is reported belongs to a key that is down.      *)
THEOREM NothingStuck == Spec => []ReportIsHeld
  BY IInvReportIsHeld, Inductive, PTL

LEMMA IInvHostIsHeld == IInv => HostIsHeld
  <1> SUFFICES ASSUME IInv PROVE HostIsHeld
    OBVIOUS
  <1>1. kb.host.keys \subseteq HeldCodes
    BY DEF IInv, Within, HostFollows, NoReport
  <1>2. kb.host.mods \subseteq HeldRealMods \cup HeldWeakMods
    BY DEF IInv, Within, HostFollows, NoReport
  <1>3. \A c \in kb.host.keys : \E a \in HeldKeys : c = a.code
    BY <1>1 DEF HeldCodes
  <1>4. \A m \in kb.host.mods : \E a \in HeldKeys : m \in RealMods(a) \cup WeakMods(a)
    BY <1>2 DEF HeldRealMods, HeldWeakMods
  <1>5. \A page \in Pages : kb.host_usage[page] # 0 => kb.host_usage[page] = kb.usage[page]
    BY DEF IInv, HostFollows
  <1> QED
    BY <1>3, <1>4, <1>5 DEF HostIsHeld, IInv, UsagesWithin

(* No key is stuck at the host either, although unchanged reports are not  *)
(* sent and reports without a link are lost.                               *)
THEOREM NothingStuckAtHost == Spec => []HostIsHeld
  BY IInvHostIsHeld, Inductive, PTL

-----------------------------------------------------------------------------
(* The layers that are on *)

LEMMA WithinTypes ==
    ASSUME NEW k \in Kb
    PROVE  Within(k, Codes, Mods, Mods)
  BY DEF Kb, Reports, Within

LEMMA ModsTypes ==
    ASSUME NEW a \in KeyAction
    PROVE  RealMods(a) \subseteq Mods /\ WeakMods(a) \subseteq Mods
  BY DEF KeyAction, RealMods, WeakMods

LEMMA PressedLayers ==
    ASSUME NEW k \in Kb, NEW a \in AnyAction
    PROVE  Pressed(k, a).layer_state = CASE a.kind = "mo" -> k.layer_state \cup {a.layer}
                                         [] a.kind = "to" -> {a.layer}
                                         [] OTHER -> k.layer_state
  <1> DEFINE n == Pressed(k, a)
  <1>0. Within(k, Codes, Mods, Mods)
    BY WithinTypes
  <1>1. CASE a.kind = "key"
    <2> DEFINE m == AddMods(k, a)
    <2>1. a \in KeyAction /\ a.code \in Codes \cup Mods \cup {KC_NO}
      BY <1>1, ActionKinds DEF KeyAction
    <2>2. /\ m \in Kb /\ Within(m, Codes, Mods, Mods) /\ SameOtherwise(m, k)
      BY <1>0, <2>1, ModsTypes, AddModsFacts
    <2>3. n = RegisterCode(m, a.code)
      BY <1>1 DEF Pressed
    <2> HIDE DEF m
    <2>4. SameOtherwise(n, m)
      BY <2>1, <2>2, <2>3, RegisterFacts
    <2> HIDE DEF n
    <2>5. n.layer_state = k.layer_state
      BY <2>2, <2>4 DEF SameOtherwise
    <2> QED
      BY <1>1, <2>5 DEF n
  <1>2. CASE a.kind = "usage"
    <2>1. a.page \in Pages /\ a.code \in Usages \cup {0}
      BY <1>2, ActionKinds DEF UsageAction
    <2>2. n = SendUsage(k, a.page, a.code)
      BY <1>2 DEF Pressed
    <2>3. n.layer_state = k.layer_state
      BY <2>2 DEF SendUsage, Kb
    <2> QED
      BY <1>2, <2>3
  <1>3. CASE a.kind = "mo"
    <2>1. k.layer_state \cup {a.layer} \in SUBSET Layers
      BY <1>3, ActionKinds DEF LayerAction, Kb
    <2>2. n = LayerStateSet(k, k.layer_state \cup {a.layer})
      BY <1>3 DEF Pressed
    <2>3. n.layer_state = k.layer_state \cup {a.layer}
      BY <1>0, <2>1, <2>2, LayerStateSetFacts
    <2> QED
      BY <1>3, <2>3
  <1>4. CASE a.kind = "to"
    <2>1. {a.layer} \in SUBSET Layers
      BY <1>4, ActionKinds DEF LayerAction
    <2>2. n = LayerStateSet(k, {a.layer})
      BY <1>4 DEF Pressed
    <2>3. n.layer_state = {a.layer}
      BY <1>0, <2>1, <2>2, LayerStateSetFacts
    <2> QED
      BY <1>4, <2>3
  <1>5. CASE a.kind \notin {"key", "usage", "mo", "to"}
    <2>1. n = k
      BY <1>5 DEF Pressed
    <2> QED
      BY <1>5, <2>1
  <1> QED
    BY <1>1, <1>2, <1>3, <1>4, <1>5

LEMMA ReleasedLayers ==
    ASSUME NEW k \in Kb, NEW a \in AnyAction
    PROVE  Released(k, a).layer_state = CASE a.kind = "mo" -> MomentaryOff(k, a.layer)
                                          [] a.kind = "tg" -> SymDiff(k.layer_state, {a.layer})
                                          [] OTHER -> k.layer_state
  <1> DEFINE n == Released(k, a)
  <1>0. Within(k, Codes, Mods, Mods)
    BY WithinTypes
  <1>1. CASE a.kind = "key"
    <2>1. a \in KeyAction
      BY <1>1, ActionKinds
    <2>2. Within(k, Codes \cup ({a.code} \cap Codes), Mods \cup RealMods(a),
                    Mods \cup WeakMods(a))
      BY <1>0 DEF Within
    <2>3. n = DelMods(UnregisterCode(k, a.code), a)
      BY <1>1 DEF Released
    <2>4. SameOtherwise(n, k)
      BY <2>1, <2>2, <2>3, KeyReleaseFacts
    <2> QED
      BY <1>1, <2>4 DEF SameOtherwise
  <1>2. CASE a.kind = "usage"
    <2>1. a.page \in Pages /\ 0 \in Usages \cup {0}
      BY <1>2, ActionKinds DEF UsageAction
    <2>2. n = SendUsage(k, a.page, 0)
      BY <1>2 DEF Released
    <2>3. n.layer_state = k.layer_state
      BY <2>2 DEF SendUsage, Kb
    <2> QED
      BY <1>2, <2>3
  <1>3. CASE a.kind \in {"mo", "tg"}
    <2>1. a.layer \in Layers
      BY <1>3, ActionKinds DEF LayerAction
    <2>2. /\ MomentaryOff(k, a.layer) \in SUBSET Layers
          /\ SymDiff(k.layer_state, {a.layer}) \in SUBSET Layers
      BY <2>1 DEF Kb, MomentaryOff, SymDiff
    <2>3. a.kind = "mo" => n.layer_state = MomentaryOff(k, a.layer)
      BY <1>0, <2>2, LayerStateSetFacts DEF Released
    <2>4. a.kind = "tg" => n.layer_state = SymDiff(k.layer_state, {a.layer})
      BY <1>0, <2>2, LayerStateSetFacts DEF Released
    <2> QED
      BY <1>3, <2>3, <2>4
  <1>4. CASE a.kind = "df"
    <2>1. {a.layer} \in SUBSET Layers
      BY <1>4, ActionKinds DEF LayerAction
    <2>2. n = DefaultLayerSet(k, {a.layer})
      BY <1>4 DEF Released
    <2>3. n.layer_state = k.layer_state
      BY <1>0, <2>1, <2>2, DefaultLayerSetFacts
    <2> QED
      BY <1>4, <2>3
  <1>5. CASE a.kind \notin {"key", "usage", "mo", "tg", "df"}
    <2>1. n = k
      BY <1>5 DEF Released
    <2> QED
      BY <1>5, <2>1
  <1> QED
    BY <1>1, <1>2, <1>3, <1>4, <1>5

LEMMA PressLayerIsHeld ==
    ASSUME TypeOK, LayerIsHeld, NEW p \in Positions, Press(p)
    PROVE  LayerIsHeld'
  <1> DEFINE k == [kb EXCEPT !.weak_mods = {}, !.sent = <<>>]
  <1>1. PICK layer \in Layers :
            /\ source_layers_cache' = [source_layers_cache EXCEPT ![p] = layer]
            /\ kb' = Pressed(k, keymaps[layer][p])
    BY DEF Press
  <1> DEFINE a == keymaps[layer][p]
  <1>2. a \in AnyAction
    BY ActionsAssumption DEF AnyAction
  <1>3. /\ p \notin matrix_prev /\ matrix_prev' = matrix_prev \cup {p}
        /\ matrix_prev \subseteq Positions
        /\ source_layers_cache \in [Positions -> Layers]
    BY DEF Press, TypeOK
  <1>4. HeldAction(p)' = a /\ \A q \in matrix_prev : HeldAction(q)' = HeldAction(q)
    BY <1>1, <1>3 DEF HeldAction
  <1>5. a.kind = "to" => a.layer \in Lockable
    BY <1>2, ActionKinds DEF Lockable, LayerAction
  <1> HIDE DEF a
  <1>6. k \in Kb /\ k.layer_state = kb.layer_state
    <2>1. <<>> \in Seq(Reports)
      OBVIOUS
    <2> QED
      BY <2>1 DEF TypeOK, Kb
  <1>7. kb' = Pressed(k, a)
    BY <1>1 DEF a
  <1> HIDE DEF k
  <1>8. kb'.layer_state = CASE a.kind = "mo" -> kb.layer_state \cup {a.layer}
                            [] a.kind = "to" -> {a.layer}
                            [] OTHER -> kb.layer_state
    BY <1>2, <1>6, <1>7, PressedLayers
  <1>9. a.kind = "mo" => a = [kind |-> "mo", layer |-> a.layer]
    BY <1>2, ActionKinds DEF LayerAction
  <1> SUFFICES ASSUME NEW l \in kb'.layer_state, l \notin Lockable
               PROVE  \E q \in matrix_prev' :
                          HeldAction(q)' = [kind |-> "mo", layer |-> l]
    BY DEF LayerIsHeld, Lockable
  <1>10. CASE l \in kb.layer_state
    <2>1. PICK q \in matrix_prev : HeldAction(q) = [kind |-> "mo", layer |-> l]
      BY <1>10 DEF LayerIsHeld
    <2> QED
      BY <1>3, <1>4, <2>1
  <1>11. CASE l \notin kb.layer_state
    <2>1. a.kind = "mo" /\ l = a.layer
      BY <1>5, <1>8, <1>11
    <2> QED
      BY <1>3, <1>4, <1>9, <2>1
  <1> QED
    BY <1>10, <1>11

LEMMA ReleaseLayerIsHeld ==
    ASSUME TypeOK, LayerIsHeld, NEW p \in Positions, Release(p)
    PROVE  LayerIsHeld'
  <1> DEFINE k == [kb EXCEPT !.sent = <<>>]
             a == keymaps[source_layers_cache[p]][p]
  <1>1. /\ kb' = Released(k, a) /\ source_layers_cache' = source_layers_cache
        /\ p \in matrix_prev /\ matrix_prev' = matrix_prev \ {p}
        /\ source_layers_cache \in [Positions -> Layers]
    BY DEF Release, ReleaseLayer, TypeOK
  <1>2. a \in AnyAction
    BY <1>1, ActionsAssumption DEF AnyAction
  <1>3. HeldAction(p) = a /\ \A q \in matrix_prev' : HeldAction(q)' = HeldAction(q)
    BY <1>1 DEF HeldAction
  <1>4. a.kind = "tg" => a.layer \in Lockable
    BY <1>1, <1>2, ActionKinds DEF Lockable, LayerAction
  <1> HIDE DEF a
  <1>5. k \in Kb /\ k.layer_state = kb.layer_state
    <2>1. <<>> \in Seq(Reports)
      OBVIOUS
    <2> QED
      BY <2>1 DEF TypeOK, Kb
  <1> HIDE DEF k
  <1>6. kb'.layer_state = CASE a.kind = "mo" -> kb.layer_state \ {a.layer}
                            [] a.kind = "tg" -> SymDiff(kb.layer_state, {a.layer})
                            [] OTHER -> kb.layer_state
    BY <1>1, <1>2, <1>5, ReleasedLayers DEF MomentaryOff
  <1> SUFFICES ASSUME NEW l \in kb'.layer_state, l \notin Lockable
               PROVE  \E q \in matrix_prev' :
                          HeldAction(q)' = [kind |-> "mo", layer |-> l]
    BY DEF LayerIsHeld, Lockable
  <1>7. l \in kb.layer_state /\ ~(a.kind = "mo" /\ a.layer = l)
    BY <1>4, <1>6 DEF SymDiff
  <1>8. PICK q \in matrix_prev : HeldAction(q) = [kind |-> "mo", layer |-> l]
    BY <1>7 DEF LayerIsHeld
  <1>9. q # p
    BY <1>3, <1>7, <1>8
  <1> QED
    BY <1>1, <1>3, <1>8, <1>9

(* A layer that only momentary keys turn on is on only while one of them   *)
(* is down, for every keymap.                                              *)
THEOREM LayersLetGo == Spec => []LayerIsHeld
  <1>1. Init => LayerIsHeld
    BY DEF Init, LayerIsHeld
  <1>2. TypeOK /\ LayerIsHeld /\ [Next]_vars => LayerIsHeld'
    <2> SUFFICES ASSUME TypeOK, LayerIsHeld, [Next]_vars PROVE LayerIsHeld'
      OBVIOUS
    <2>1. CASE LinkChange
      <3>1. kb'.layer_state = kb.layer_state
        BY <2>1 DEF LinkChange, TypeOK, Kb
      <3> QED
        BY <2>1, <3>1 DEF LinkChange, LayerIsHeld, HeldAction, Lockable
    <2>2. ASSUME NEW p \in Positions, Press(p) PROVE LayerIsHeld'
      BY <2>2, PressLayerIsHeld
    <2>3. ASSUME NEW p \in Positions, Release(p) PROVE LayerIsHeld'
      BY <2>3, ReleaseLayerIsHeld
    <2>4. CASE UNCHANGED vars
      BY <2>4 DEF vars, LayerIsHeld, HeldAction, Lockable
    <2> QED
      BY <2>1, <2>2, <2>3, <2>4 DEF Next
  <1> QED
    BY <1>1, <1>2, TypeCorrect, PTL DEF Spec

-----------------------------------------------------------------------------
(* The reports of one key event *)

(* The report handed over last has the keys there are; its modifiers may   *)
(* be older, for a press clears the weak ones without a report.            *)
KeysReported(k) == k.last_report.keys = k.keys

(* The reports sent in this event lead from the report before to the last. *)
LeadsFrom(k, before) ==
    k.last_report = IF k.sent = <<>> THEN before ELSE k.sent[Len(k.sent)]

LEMMA SendReportKeysReported ==
    ASSUME NEW k \in Kb
    PROVE  KeysReported(SendReport(k))
  <1>1. SendReport(k).keys = k.keys /\ SendReport(k).last_report = Report(k)
    BY SendReportFacts
  <1>2. Report(k).keys = k.keys
    BY DEF Report
  <1> QED
    BY <1>1, <1>2 DEF KeysReported

LEMMA SendReportLeads ==
    ASSUME NEW k \in Kb, NEW before, LeadsFrom(k, before)
    PROVE  LET n == SendReport(k)
           IN  /\ LeadsFrom(n, before)
               /\ n.sent = IF Changed(k) THEN Append(k.sent, Report(k)) ELSE k.sent
  <1> DEFINE n == SendReport(k)
  <1>1. CASE ~Changed(k)
    BY <1>1 DEF SendReport
  <1>2. CASE Changed(k)
    <2>1. n.sent = Append(k.sent, Report(k)) /\ n.last_report = Report(k)
      BY <1>2 DEF SendReport, Kb
    <2>2. k.sent \in Seq(Reports) /\ Report(k) \in Reports
      BY DEF Kb, Report, Reports
    <2>3. n.sent # <<>> /\ n.sent[Len(n.sent)] = Report(k)
      <3> HIDE DEF n
      <3> QED
        BY <2>1, <2>2
    <2> QED
      BY <1>2, <2>1, <2>3 DEF LeadsFrom
  <1> QED
    BY <1>1, <1>2

LEMMA RegisterKeysReported ==
    ASSUME NEW k \in Kb, NEW code \in Codes \cup Mods \cup {KC_NO}, KeysReported(k)
    PROVE  KeysReported(RegisterCode(k, code))
  <1> DEFINE f == Freed(k, code)
             d == AddKey(f, code)
             r == [k EXCEPT !.real_mods = k.real_mods \cup {code}]
  <1>0. Within(k, Codes, Mods, Mods)
    BY WithinTypes
  <1>1. CASE code \in Codes
    <2>1. f \in Kb /\ Within(f, Codes, Mods, Mods)
      BY <1>0, <1>1, FreedFacts
    <2> HIDE DEF f
    <2>2. d \in Kb
      BY <1>1, <2>1, AddKeyFacts
    <2>3. RegisterCode(k, code) = SendReport(d)
      BY <1>1 DEF RegisterCode, f
    <2> HIDE DEF d
    <2> QED
      BY <2>2, <2>3, SendReportKeysReported
  <1>2. CASE code \in Mods
    <2>1. RegisterCode(k, code) = SendReport(r)
      BY <1>2, ActionsAssumption DEF RegisterCode
    <2>2. k.real_mods \cup {code} \in SUBSET Mods
      BY <1>2 DEF Kb
    <2>3. r \in Kb
      BY <2>2, SetRealMods
    <2> QED
      BY <2>1, <2>3, SendReportKeysReported
  <1>3. CASE code = KC_NO
    BY <1>3, ActionsAssumption DEF RegisterCode
  <1> QED
    BY <1>1, <1>2, <1>3

(* What a press reports before its own key: at most its modifiers. *)
LEMMA AddModsSends ==
    ASSUME NEW k \in Kb, NEW a \in KeyAction, NEW before,
           KeysReported(k), LeadsFrom(k, before)
    PROVE  LET n == AddMods(k, a)
           IN  /\ n \in Kb /\ n.keys = k.keys /\ KeysReported(n) /\ LeadsFrom(n, before)
               /\ n.real_mods \cup n.weak_mods = k.real_mods \cup k.weak_mods \cup a.mods
  <1> DEFINE n == AddMods(k, a)
             r == [k EXCEPT !.real_mods = k.real_mods \cup a.mods]
             w == [k EXCEPT !.weak_mods = k.weak_mods \cup a.mods]
  <1>1. /\ k.real_mods \cup a.mods \in SUBSET Mods
        /\ k.weak_mods \cup a.mods \in SUBSET Mods
    BY DEF Kb, KeyAction
  <1>2. CASE a.mods = {}
    <2>1. n = k
      BY <1>2 DEF AddMods
    <2> QED
      BY <1>2, <2>1
  <1>3. ASSUME NEW d \in Kb, n = SendReport(d), d.keys = k.keys, d.sent = k.sent,
               d.last_report = k.last_report,
               d.real_mods \cup d.weak_mods = k.real_mods \cup k.weak_mods \cup a.mods
        PROVE  /\ n \in Kb /\ n.keys = k.keys /\ KeysReported(n) /\ LeadsFrom(n, before)
               /\ n.real_mods \cup n.weak_mods = k.real_mods \cup k.weak_mods \cup a.mods
    <2>1. LeadsFrom(d, before)
      BY <1>3 DEF LeadsFrom
    <2>2. /\ n \in Kb /\ n.keys = d.keys
          /\ n.real_mods = d.real_mods /\ n.weak_mods = d.weak_mods
      BY <1>3, SendReportFacts
    <2>3. KeysReported(n) /\ LeadsFrom(n, before)
      BY <1>3, <2>1, SendReportKeysReported, SendReportLeads
    <2> HIDE DEF n
    <2> QED
      BY <1>3, <2>2, <2>3
  <1>4. CASE a.mods # {} /\ ModsAreReal(a)
    <2>1. n = SendReport(r)
      BY <1>4 DEF AddMods
    <2>2. /\ r \in Kb /\ r.keys = k.keys /\ r.last_report = k.last_report
          /\ r.real_mods = k.real_mods \cup a.mods /\ r.weak_mods = k.weak_mods
      BY <1>1, SetRealMods
    <2>3. r.sent = k.sent
      BY DEF Kb
    <2> HIDE DEF r, n
    <2>4. r.real_mods \cup r.weak_mods = k.real_mods \cup k.weak_mods \cup a.mods
      BY <2>2
    <2> QED
      BY <1>3, <2>1, <2>2, <2>3, <2>4 DEF n
  <1>5. CASE a.mods # {} /\ ~ModsAreReal(a)
    <2>1. n = SendReport(w)
      BY <1>5 DEF AddMods
    <2>2. /\ w \in Kb /\ w.keys = k.keys /\ w.last_report = k.last_report
          /\ w.weak_mods = k.weak_mods \cup a.mods /\ w.real_mods = k.real_mods
      BY <1>1, SetWeakMods
    <2>3. w.sent = k.sent
      BY DEF Kb
    <2> HIDE DEF w, n
    <2>4. w.real_mods \cup w.weak_mods = k.real_mods \cup k.weak_mods \cup a.mods
      BY <2>2
    <2> QED
      BY <1>3, <2>1, <2>2, <2>3, <2>4 DEF n
  <1> QED
    BY <1>2, <1>4, <1>5

(* A key that is freed leaves room, and no report after it has the key. *)
LEMMA FreedSends ==
    ASSUME NEW k \in Kb, NEW code \in Codes, NEW before,
           KeysReported(k), LeadsFrom(k, before)
    PROVE  LET n == Freed(k, code)
           IN  /\ n \in Kb /\ KeysReported(n) /\ LeadsFrom(n, before)
               /\ n.keys = k.keys \ {code}
               /\ n.real_mods = k.real_mods /\ n.weak_mods = k.weak_mods
  <1> DEFINE n == Freed(k, code)
             d == [k EXCEPT !.keys = k.keys \ {code}]
  <1>1. CASE code \notin k.keys
    <2>1. n = k /\ k.keys = k.keys \ {code}
      BY <1>1 DEF Freed
    <2> QED
      BY <2>1
  <1>2. CASE code \in k.keys
    <2>1. n = SendReport(d)
      BY <1>2 DEF Freed, DelKey
    <2>2. k.keys \ {code} \in SUBSET Codes
      BY DEF Kb
    <2>3. /\ d \in Kb /\ d.keys = k.keys \ {code} /\ d.last_report = k.last_report
          /\ d.real_mods = k.real_mods /\ d.weak_mods = k.weak_mods
      BY <2>2, SetKeys
    <2>4. d.sent = k.sent
      BY DEF Kb
    <2> HIDE DEF d, n
    <2>5. LeadsFrom(d, before)
      BY <2>3, <2>4 DEF LeadsFrom
    <2>6. /\ n \in Kb /\ n.keys = d.keys
          /\ n.real_mods = d.real_mods /\ n.weak_mods = d.weak_mods
      BY <2>1, <2>3, SendReportFacts
    <2>7. KeysReported(n) /\ LeadsFrom(n, before)
      BY <2>1, <2>3, <2>5, SendReportKeysReported, SendReportLeads
    <2> QED
      BY <2>3, <2>6, <2>7 DEF n
  <1> QED
    BY <1>1, <1>2

(* A key that is registered, with room for it, is typed. *)
LEMMA RegisterTypes ==
    ASSUME NEW k \in Kb, NEW code \in Codes, NEW before,
           KeysReported(k), LeadsFrom(k, before), Fits(k),
           code \in k.keys \/ HasRoom(k)
    PROVE  Typed(code, k.real_mods \cup k.weak_mods, before, RegisterCode(k, code).sent)
  <1> DEFINE f == Freed(k, code)
             d == [f EXCEPT !.keys = f.keys \cup {code}]
             n == RegisterCode(k, code)
  <1>1. /\ f \in Kb /\ KeysReported(f) /\ LeadsFrom(f, before)
        /\ f.keys = k.keys \ {code}
        /\ f.real_mods = k.real_mods /\ f.weak_mods = k.weak_mods
    BY FreedSends
  <1>2. n = SendReport(AddKey(f, code))
    BY DEF RegisterCode
  <1> HIDE DEF f
  <1>3. HasRoom(f)
    <2>1. IsFiniteSet(k.keys) /\ Cardinality(k.keys) \in Nat
          /\ Cardinality(k.keys) <= KEYBOARD_REPORT_KEYS
      BY FS_CardinalityType DEF Fits
    <2>2. /\ Cardinality(k.keys \ {code}) =
               IF code \in k.keys THEN Cardinality(k.keys) - 1 ELSE Cardinality(k.keys)
      BY <2>1, FS_RemoveElement
    <2> QED
      BY <1>1, <2>1, <2>2, ActionsAssumption DEF HasRoom
  <1>4. AddKey(f, code) = d
    BY <1>3 DEF AddKey
  <1>5. f.keys \cup {code} \in SUBSET Codes
    BY <1>1 DEF Kb
  <1>6. /\ d \in Kb /\ d.keys = f.keys \cup {code} /\ d.last_report = f.last_report
        /\ d.real_mods = k.real_mods /\ d.weak_mods = k.weak_mods
    BY <1>1, <1>5, SetKeys
  <1>7. d.sent = f.sent
    BY <1>1 DEF Kb
  <1> HIDE DEF d, n
  <1>8. LeadsFrom(d, before)
    BY <1>1, <1>6, <1>7 DEF LeadsFrom
  <1>9. Changed(d)
    BY <1>1, <1>6 DEF Changed, Report, KeysReported
  <1>10. n.sent = Append(f.sent, Report(d))
    BY <1>2, <1>4, <1>6, <1>7, <1>8, <1>9, SendReportLeads
  <1>11. f.sent \in Seq(Reports) /\ Report(d) \in Reports
    BY <1>1, <1>6 DEF Kb, Report, Reports
  <1>12. code \in Report(d).keys /\ Report(d).mods = k.real_mods \cup k.weak_mods
    BY <1>6 DEF Report
  <1>13. code \notin f.last_report.keys
    BY <1>1 DEF KeysReported
  <1> DEFINE i == Len(n.sent)
  <1>14. i \in 1..Len(n.sent) /\ n.sent[i] = Report(d)
    BY <1>10, <1>11
  <1>15. code \notin (IF i = 1 THEN before ELSE n.sent[i - 1]).keys
    <2>1. CASE f.sent = <<>>
      <3>1. i = 1
        BY <1>10, <1>11, <2>1
      <3> QED
        BY <1>1, <1>13, <2>1, <3>1 DEF LeadsFrom
    <2>2. CASE f.sent # <<>>
      <3>1. i # 1 /\ n.sent[i - 1] = f.sent[Len(f.sent)]
        BY <1>10, <1>11, <2>2
      <3> QED
        BY <1>1, <1>13, <2>2, <3>1 DEF LeadsFrom
    <2> QED
      BY <2>1, <2>2
  <1> HIDE DEF i
  <1> QED
    BY <1>12, <1>14, <1>15 DEF Typed, n

LEMMA ClearKeysReported ==
    ASSUME NEW k \in Kb
    PROVE  KeysReported(ClearUsagesAndWeakMods(k))
  <1> DEFINE s == SendUsage(k, "system", 0)
             c == SendUsage(s, "consumer", 0)
             w == [c EXCEPT !.weak_mods = {}]
  <1>1. "system" \in Pages /\ "consumer" \in Pages /\ 0 \in Usages \cup {0}
    BY DEF Pages
  <1>2. s \in Kb
    BY <1>1, SendUsageFacts
  <1> HIDE DEF s
  <1>3. c \in Kb
    BY <1>1, <1>2, SendUsageFacts
  <1> HIDE DEF c
  <1>4. {} \in SUBSET Mods
    OBVIOUS
  <1>5. w \in Kb
    BY <1>3, <1>4, SetWeakMods
  <1>6. ClearUsagesAndWeakMods(k) = SendReport(w)
    BY DEF ClearUsagesAndWeakMods, s, c
  <1> HIDE DEF w
  <1> QED
    BY <1>5, <1>6, SendReportKeysReported

LEMMA LayersKeysReported ==
    ASSUME NEW k \in Kb, NEW L \in SUBSET Layers
    PROVE  KeysReported(LayerStateSet(k, L)) /\ KeysReported(DefaultLayerSet(k, L))
  <1>1. [k EXCEPT !.layer_state = L] \in Kb /\ [k EXCEPT !.default_layer_state = L] \in Kb
    BY DEF Kb
  <1>2. /\ KeysReported(ClearUsagesAndWeakMods([k EXCEPT !.layer_state = L]))
        /\ KeysReported(ClearUsagesAndWeakMods([k EXCEPT !.default_layer_state = L]))
    BY <1>1, ClearKeysReported
  <1> QED
    BY <1>2 DEF LayerStateSet, DefaultLayerSet

LEMMA SendUsageKeysReported ==
    ASSUME NEW k \in Kb, KeysReported(k), NEW page \in Pages, NEW u
    PROVE  KeysReported(SendUsage(k, page, u))
  BY DEF KeysReported, SendUsage, Kb

LEMMA PressedKeysReported ==
    ASSUME NEW k \in Kb, NEW a \in AnyAction, KeysReported(k), k.sent = <<>>
    PROVE  KeysReported(Pressed(k, a))
  <1>1. CASE a.kind = "key"
    <2> DEFINE m == AddMods(k, a)
    <2>1. a \in KeyAction /\ a.code \in Codes \cup Mods \cup {KC_NO}
      BY <1>1, ActionKinds DEF KeyAction
    <2>2. LeadsFrom(k, k.last_report)
      BY DEF LeadsFrom
    <2>3. m \in Kb /\ KeysReported(m)
      BY <2>1, <2>2, AddModsSends
    <2>4. Pressed(k, a) = RegisterCode(m, a.code)
      BY <1>1 DEF Pressed
    <2> HIDE DEF m
    <2> QED
      BY <2>1, <2>3, <2>4, RegisterKeysReported
  <1>2. CASE a.kind = "usage"
    <2>1. a.page \in Pages
      BY <1>2, ActionKinds DEF UsageAction
    <2>2. Pressed(k, a) = SendUsage(k, a.page, a.code)
      BY <1>2 DEF Pressed
    <2> QED
      BY <2>1, <2>2, SendUsageKeysReported
  <1>3. CASE a.kind \in {"mo", "to"}
    <2>1. k.layer_state \cup {a.layer} \in SUBSET Layers /\ {a.layer} \in SUBSET Layers
      BY <1>3, ActionKinds DEF LayerAction, Kb
    <2>2. \/ Pressed(k, a) = LayerStateSet(k, k.layer_state \cup {a.layer})
          \/ Pressed(k, a) = LayerStateSet(k, {a.layer})
      BY <1>3 DEF Pressed
    <2> QED
      BY <2>1, <2>2, LayersKeysReported
  <1>4. CASE a.kind \notin {"key", "usage", "mo", "to"}
    <2>1. Pressed(k, a) = k
      BY <1>4 DEF Pressed
    <2> QED
      BY <2>1
  <1> QED
    BY <1>1, <1>2, <1>3, <1>4

LEMMA ReleasedKeysReported ==
    ASSUME NEW k \in Kb, NEW a \in AnyAction, KeysReported(k)
    PROVE  KeysReported(Released(k, a))
  <1>1. CASE a.kind = "key"
    <2> DEFINE u == UnregisterCode(k, a.code)
               n == DelMods(u, a)
    <2>1. a \in KeyAction /\ a.code \in Codes \cup Mods \cup {KC_NO}
      BY <1>1, ActionKinds DEF KeyAction
    <2>2. u \in Kb /\ (u.last_report = Report(u) \/ u = k)
      BY <2>1, UnregisterFacts
    <2> HIDE DEF u
    <2>3. KeysReported(u)
      BY <2>2 DEF KeysReported, Report
    <2>4. n.last_report = Report(n) \/ n = u
      BY <2>1, <2>2, DelModsFacts
    <2> HIDE DEF n
    <2>5. KeysReported(n)
      BY <2>3, <2>4 DEF KeysReported, Report
    <2> QED
      BY <1>1, <2>5 DEF Released, n, u
  <1>2. CASE a.kind = "usage"
    <2>1. a.page \in Pages
      BY <1>2, ActionKinds DEF UsageAction
    <2>2. Released(k, a) = SendUsage(k, a.page, 0)
      BY <1>2 DEF Released
    <2> QED
      BY <2>1, <2>2, SendUsageKeysReported
  <1>3. CASE a.kind \in {"mo", "tg", "df"}
    <2>1. a.layer \in Layers
      BY <1>3, ActionKinds DEF LayerAction
    <2>2. /\ MomentaryOff(k, a.layer) \in SUBSET Layers
          /\ SymDiff(k.layer_state, {a.layer}) \in SUBSET Layers
          /\ {a.layer} \in SUBSET Layers
      BY <2>1 DEF Kb, MomentaryOff, SymDiff
    <2>3. \/ Released(k, a) = LayerStateSet(k, MomentaryOff(k, a.layer))
          \/ Released(k, a) = LayerStateSet(k, SymDiff(k.layer_state, {a.layer}))
          \/ Released(k, a) = DefaultLayerSet(k, {a.layer})
      BY <1>3 DEF Released
    <2> QED
      BY <2>2, <2>3, LayersKeysReported
  <1>4. CASE a.kind \notin {"key", "usage", "mo", "tg", "df"}
    <2>1. Released(k, a) = k
      BY <1>4 DEF Released
    <2> QED
      BY <2>1
  <1> QED
    BY <1>1, <1>2, <1>3, <1>4

(* The state an event begins with. *)
LEMMA PressBegins ==
    ASSUME kb \in Kb
    PROVE  LET k == [kb EXCEPT !.weak_mods = {}, !.sent = <<>>]
           IN  /\ k \in Kb /\ k.sent = <<>> /\ k.keys = kb.keys
               /\ k.real_mods = kb.real_mods /\ k.weak_mods = {}
               /\ k.last_report = kb.last_report
  <1>1. <<>> \in Seq(Reports)
    OBVIOUS
  <1> QED
    BY <1>1 DEF Kb

LEMMA NextKeysReported ==
    ASSUME TypeOK, KeysReported(kb), [Next]_vars
    PROVE  KeysReported(kb)'
  <1>0. kb \in Kb /\ source_layers_cache \in [Positions -> Layers]
    BY DEF TypeOK
  <1>1. CASE LinkChange
    BY <1>0, <1>1 DEF LinkChange, Kb, KeysReported
  <1>2. ASSUME NEW p \in Positions, Press(p) PROVE KeysReported(kb)'
    <2> DEFINE k == [kb EXCEPT !.weak_mods = {}, !.sent = <<>>]
    <2>1. PICK layer \in Layers : kb' = Pressed(k, keymaps[layer][p])
      BY <1>2 DEF Press
    <2>2. keymaps[layer][p] \in AnyAction
      BY ActionsAssumption DEF AnyAction
    <2>3. k \in Kb /\ k.sent = <<>> /\ KeysReported(k)
      BY <1>0, PressBegins DEF KeysReported
    <2> HIDE DEF k
    <2>4. KeysReported(kb')
      BY <2>1, <2>2, <2>3, PressedKeysReported
    <2> QED
      BY <2>4
  <1>3. ASSUME NEW p \in Positions, Release(p) PROVE KeysReported(kb)'
    <2> DEFINE k == [kb EXCEPT !.sent = <<>>]
               a == keymaps[source_layers_cache[p]][p]
    <2>1. kb' = Released(k, a)
      BY <1>3 DEF Release, ReleaseLayer
    <2>2. a \in AnyAction
      BY <1>0, ActionsAssumption DEF AnyAction
    <2>3. k \in Kb /\ KeysReported(k)
      <3>1. <<>> \in Seq(Reports)
        OBVIOUS
      <3> QED
        BY <1>0, <3>1 DEF Kb, KeysReported
    <2> HIDE DEF k, a
    <2>4. KeysReported(kb')
      BY <2>1, <2>2, <2>3, ReleasedKeysReported
    <2> QED
      BY <2>4
  <1>4. CASE UNCHANGED vars
    BY <1>4 DEF vars, KeysReported
  <1> QED
    BY <1>1, <1>2, <1>3, <1>4 DEF Next

(* What PressIsTyped says of one step. *)
PressesAreTyped ==
    \A p \in matrix_prev' \ matrix_prev :
        LET a == HeldAction(p)'
        IN  /\ a.kind = "key" /\ a.code \in Codes
            /\ a.code \in kb.keys \/ HasRoom(kb)
            => Typed(a.code, kb.real_mods \cup a.mods, kb.last_report, kb'.sent)

LEMMA PressTypes ==
    ASSUME TypeOK, KeysReported(kb), NEW p \in Positions, Press(p)
    PROVE  PressesAreTyped
  <1> DEFINE k == [kb EXCEPT !.weak_mods = {}, !.sent = <<>>]
  <1>0. /\ kb \in Kb /\ source_layers_cache \in [Positions -> Layers] /\ Fits(kb)
    BY DEF TypeOK, Fits
  <1>1. PICK layer \in Layers :
            /\ source_layers_cache' = [source_layers_cache EXCEPT ![p] = layer]
            /\ kb' = Pressed(k, keymaps[layer][p])
    BY DEF Press
  <1> DEFINE a == keymaps[layer][p]
             m == AddMods(k, a)
  <1>2. a \in AnyAction
    BY ActionsAssumption DEF AnyAction
  <1>3. matrix_prev' = matrix_prev \cup {p} /\ HeldAction(p)' = a
    BY <1>0, <1>1 DEF Press, HeldAction
  <1>4. kb' = Pressed(k, a)
    BY <1>1 DEF a
  <1> HIDE DEF a
  <1> SUFFICES ASSUME a.kind = "key", a.code \in Codes, a.code \in kb.keys \/ HasRoom(kb)
               PROVE  Typed(a.code, kb.real_mods \cup a.mods, kb.last_report, kb'.sent)
    BY <1>3 DEF PressesAreTyped
  <1>5. a \in KeyAction
    BY <1>2, ActionKinds
  <1>6. /\ k \in Kb /\ k.sent = <<>> /\ k.keys = kb.keys
        /\ k.real_mods = kb.real_mods /\ k.weak_mods = {}
        /\ k.last_report = kb.last_report
    BY <1>0, PressBegins
  <1> HIDE DEF k
  <1>7. KeysReported(k) /\ LeadsFrom(k, kb.last_report)
    BY <1>6 DEF KeysReported, LeadsFrom
  <1>8. /\ m \in Kb /\ m.keys = k.keys /\ KeysReported(m)
        /\ LeadsFrom(m, kb.last_report)
        /\ m.real_mods \cup m.weak_mods = k.real_mods \cup k.weak_mods \cup a.mods
    BY <1>5, <1>6, <1>7, AddModsSends
  <1>9. kb' = RegisterCode(m, a.code)
    BY <1>4 DEF Pressed
  <1> HIDE DEF m
  <1>10. Fits(m) /\ (a.code \in m.keys \/ HasRoom(m))
    BY <1>0, <1>6, <1>8 DEF Fits, HasRoom
  <1>11. Typed(a.code, m.real_mods \cup m.weak_mods, kb.last_report,
               RegisterCode(m, a.code).sent)
    BY <1>8, <1>10, RegisterTypes
  <1>12. m.real_mods \cup m.weak_mods = kb.real_mods \cup a.mods
    BY <1>6, <1>8
  <1> QED
    BY <1>9, <1>11, <1>12

(* Every press that finds room reaches the report, newly pressed and with  *)
(* its own modifiers, whatever other keys share its keycode.               *)
THEOREM PressReported == Spec => PressIsTyped
  <1>1. Init => KeysReported(kb)
    BY DEF Init, KeysReported, NoReport
  <1>2. TypeOK /\ KeysReported(kb) /\ [Next]_vars => KeysReported(kb)'
    BY NextKeysReported
  <1>3. TypeOK /\ KeysReported(kb) /\ [Next]_vars => [PressesAreTyped]_vars
    <2> SUFFICES ASSUME TypeOK, KeysReported(kb), Next PROVE PressesAreTyped
      OBVIOUS
    <2>1. ASSUME NEW p \in Positions, Press(p) PROVE PressesAreTyped
      BY <2>1, PressTypes
    <2>2. ASSUME NEW p \in Positions, Release(p) PROVE PressesAreTyped
      BY <2>2 DEF Release, PressesAreTyped
    <2>3. CASE LinkChange
      BY <2>3 DEF LinkChange, PressesAreTyped
    <2> QED
      BY <2>1, <2>2, <2>3 DEF Next
  <1>4. Spec => [][PressesAreTyped]_vars
    BY <1>1, <1>2, <1>3, TypeCorrect, PTL DEF Spec
  <1> QED
    BY <1>4 DEF PressIsTyped, PressesAreTyped
=============================================================================
