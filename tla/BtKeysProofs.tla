---------------------------- MODULE BtKeysProofs ----------------------------
(***************************************************************************)
(* Theorems about BtKeys, for every set of keys, profiles and connections, *)
(* every number of identities and digits, and every width of the clock.    *)
(***************************************************************************)
EXTENDS BtKeys, SequenceTheorems, WellFoundedInduction, TLAPS

LEMMA RestrictFacts ==
    ASSUME NEW f, NEW S
    PROVE  /\ DOMAIN Restrict(f, S) = S
           /\ \A x \in S : Restrict(f, S)[x] = f[x]
  BY DEF Restrict

LEMMA NoneHeld == DOMAIN <<>> = {}
  OBVIOUS

LEMMA ModRange == ASSUME NEW w \in Nat \ {0}, NEW a \in Int PROVE a % w \in 0..w - 1
  OBVIOUS

(* A difference of two times, as 16-bit numbers, is their distance on the  *)
(* clock.                                                                  *)
LEMMA ModDistance ==
    ASSUME NEW w \in Nat \ {0}, NEW a \in 0..w - 1, NEW b \in 0..w - 1
    PROVE  (a - b) % w = IF a >= b THEN a - b ELSE a - b + w
  OBVIOUS

LEMMA ModOfNext ==
    ASSUME NEW w \in Nat \ {0}, NEW a \in 0..w - 1
    PROVE  (a + 1) % w = IF a = w - 1 THEN 0 ELSE a + 1
  OBVIOUS

LEMMA OddTime == ASSUME NEW t \in Times PROVE t + 1 - (t % 2) \in Times
  BY ProfileAssumption DEF Times

LEMMA EventTimeIsTime == ProfileTypeOK => EventTime \in Times
  BY OddTime DEF EventTime, ProfileTypeOK

-----------------------------------------------------------------------------
(* Type correctness *)

LEMMA ProfileInitType == ASSUME ProfileInit PROVE ProfileTypeOK
  <1> USE ProfileAssumption DEF ProfileInit
  <1>1. ids \in Seq({"made", "deleted"}) /\ Len(ids) < CONFIG_BT_ID_MAX
    <2>1. PICK n \in 0..CONFIG_BT_ID_MAX - 1 : ids \in [1..n -> {"made", "deleted"}]
      OBVIOUS
    <2> QED
      BY <2>1
  <1>2. selected_profile \in Profiles /\ stored \in Profiles \cup {0}
    BY DEF Profiles
  <1>3. press_times \in [Codes -> Times] /\ time \in Times
    BY DEF Times
  <1>4. DOMAIN held \subseteq Keys /\ \A k \in DOMAIN held : held[k] \in 0..MaxHold
    BY NoneHeld
  <1>5. request \in {Nothing} \cup {"connect", "pair", "unpair"} \X Profiles
    OBVIOUS
  <1>6. i \in 1..CONFIG_BT_ID_MAX /\ phase = "off" /\ unsaved = FALSE /\ unmade = FALSE
    OBVIOUS
  <1> QED
    BY <1>1, <1>2, <1>3, <1>4, <1>5, <1>6 DEF ProfileTypeOK

LEMMA BootType ==
    ASSUME ProfileTypeOK, PowerLoss \/ PowerOn \/ Load \/ MakeId \/ Boot
    PROVE  ProfileTypeOK'
  <1> USE ProfileAssumption DEF ProfileTypeOK
  <1>1. CASE PowerLoss
    <2>1. [c \in Codes |-> 0] \in [Codes -> Times]
      BY DEF Times
    <2>2. DOMAIN held' \subseteq Keys /\ \A k \in DOMAIN held' : held'[k] \in 0..MaxHold
      BY <1>1, NoneHeld DEF PowerLoss
    <2>3. 1 \in Profiles /\ 0 \in Times
      BY DEF Profiles, Times
    <2>4. press_times' \in [Codes -> Times] /\ time' \in Times
      BY <1>1, <2>1, <2>3 DEF PowerLoss
    <2>5. ids' \in Seq({"made", "deleted"}) /\ Len(ids') < CONFIG_BT_ID_MAX
      BY <1>1 DEF PowerLoss
    <2>6. selected_profile' \in Profiles /\ stored' \in Profiles \cup {0}
      BY <1>1, <2>3 DEF PowerLoss
    <2>7. i' \in 1..CONFIG_BT_ID_MAX /\ phase' = "off" 
      BY <1>1 DEF PowerLoss
    <2>8. request' \in {Nothing} \cup {"connect", "pair", "unpair"} \X Profiles
      BY <1>1 DEF PowerLoss
    <2>9. unsaved' = FALSE /\ unmade' = FALSE
      BY <1>1 DEF PowerLoss
    <2> QED
      BY <2>2, <2>4, <2>5, <2>6, <2>7, <2>8, <2>9
  <1>2. CASE PowerOn \/ Boot
    BY <1>2 DEF PowerOn, Boot, keyVars
  <1>3. CASE Load
    <2>1. 1 \in Profiles
      BY DEF Profiles
    <2> QED
      BY <1>3, <2>1 DEF Load, keyVars
  <1>4. CASE MakeId
    <2>1. i' \in 1..CONFIG_BT_ID_MAX /\ i \in 1..CONFIG_BT_ID_MAX - 1
      BY <1>4 DEF MakeId, LoopEnds
    <2>2. CASE ids' = ids
      BY <1>4, <2>1, <2>2 DEF MakeId, keyVars
    <2>3. CASE i > Len(ids) /\ ids' = Append(ids, "made")
      <3>1. ids' \in Seq({"made", "deleted"}) /\ Len(ids') = Len(ids) + 1
        BY <2>3
      <3>2. Len(ids') < CONFIG_BT_ID_MAX
        BY <2>1, <2>3, <3>1
      <3> QED
        BY <1>4, <2>1, <3>1, <3>2 DEF MakeId, keyVars
    <2>4. CASE ~(i > Len(ids)) /\ ids' = [ids EXCEPT ![i] = "made"]
      <3>1. ids' \in Seq({"made", "deleted"}) /\ Len(ids') = Len(ids)
        BY <2>1, <2>4
      <3> QED
        BY <1>4, <2>1, <3>1 DEF MakeId, keyVars
    <2> QED
      BY <1>4, <2>2, <2>3, <2>4 DEF MakeId
  <1> QED
    BY <1>1, <1>2, <1>3, <1>4

LEMMA KeyType ==
    ASSUME ProfileTypeOK, NEW k \in Keys,
           Press(k) \/ ReleaseClear(k) \/ ReleaseProfile(k)
    PROVE  ProfileTypeOK'
  <1> USE ProfileAssumption
  <1>1. CASE Press(k)
    <2>1. press_times' \in [Codes -> Times]
      BY <1>1, EventTimeIsTime DEF Press, ProfileTypeOK
    <2>2. DOMAIN held' \subseteq Keys /\ \A l \in DOMAIN held' : held'[l] \in 0..MaxHold
      BY <1>1 DEF Press, ProfileTypeOK
    <2> QED
      BY <1>1, <2>1, <2>2 DEF Press, Running, bootVars, ProfileTypeOK
  <1>2. ASSUME Released(k)
        PROVE  DOMAIN held' \subseteq Keys /\ \A l \in DOMAIN held' : held'[l] \in 0..MaxHold
    BY <1>2, RestrictFacts DEF Released, ProfileTypeOK
  <1>3. CASE ReleaseClear(k)
    <2>1. request' \in {Nothing} \cup {"connect", "pair", "unpair"} \X Profiles
      BY <1>3 DEF ReleaseClear, ProfileTypeOK
    <2> QED
      BY <1>2, <1>3, <2>1 DEF ReleaseClear, Released, Running, bootVars, ProfileTypeOK
  <1>4. CASE ReleaseProfile(k)
    <2>1. selected_profile' \in Profiles /\ stored' \in Profiles \cup {0} /\ unsaved' \in BOOLEAN
      BY <1>4 DEF ReleaseProfile, Select, ProfileTypeOK
    <2>2. request' \in {Nothing} \cup {"connect", "pair", "unpair"} \X Profiles
      BY <1>4, <2>1 DEF ReleaseProfile
    <2> QED
      BY <1>2, <1>4, <2>1, <2>2 DEF ReleaseProfile, Released, Running, bootVars, ProfileTypeOK
  <1> QED
    BY <1>1, <1>3, <1>4

LEMMA PassType == ASSUME ProfileTypeOK, Pass PROVE ProfileTypeOK'
  <1>1. time' \in Times
    <2>1. Wrap \in Nat \ {0} /\ time + 1 \in Int
      BY ProfileAssumption DEF ProfileTypeOK, Times
    <2> QED
      BY <2>1, ModRange DEF Pass, Times
  <1>2. DOMAIN held' \subseteq Keys /\ \A k \in DOMAIN held' : held'[k] \in 0..MaxHold
    BY ProfileAssumption DEF Pass, ProfileTypeOK
  <1> QED
    BY <1>1, <1>2 DEF Pass, Running, bootVars, ProfileTypeOK

LEMMA ProfileType == ASSUME ProfileTypeOK, ProfileNext PROVE ProfileTypeOK'
  BY BootType, KeyType, PassType DEF ProfileNext

LEMMA PasskeyType == ASSUME PasskeyTypeOK, PasskeyNext PROVE PasskeyTypeOK'
  <1> USE PasskeyAssumption
  <1> DEFINE Accepted == [conn : Conns \cup {NULL}, passkey : Nat, typed : Seq(Digits)]
  <1>1. NoPasskey \in Accepted
    BY DEF NoPasskey
  <1>2. ASSUME NEW c \in Conns, Connected(c) \/ Disconnected(c)
        PROVE  PasskeyTypeOK'
    BY <1>1, <1>2 DEF Connected, Disconnected, typedVars, PasskeyTypeOK
  <1>3. ASSUME NEW c \in Conns, PasskeyEntry(c) \/ Cancel(c)
        PROVE  PasskeyTypeOK'
    <2>1. CASE PasskeyEntry(c)
      <3>1. typed' \in Seq(Digits) /\ Len(typed') <= PasskeyDigits
        BY <2>1 DEF PasskeyEntry
      <3> QED
        BY <1>1, <2>1, <3>1 DEF PasskeyEntry, StartEntry, connVars, PasskeyTypeOK
    <2>2. CASE Cancel(c)
      BY <1>1, <2>2 DEF Cancel, connVars, typedVars, PasskeyTypeOK
    <2> QED
      BY <1>3, <2>1, <2>2
  <1>4. CASE DropConn
    BY <1>1, <1>4 DEF DropConn, typedVars, PasskeyTypeOK
  <1>5. ASSUME NEW digit \in Digits, Digit(digit)
        PROVE  PasskeyTypeOK'
    <2>1. typed' \in Seq(Digits) /\ Len(typed') <= PasskeyDigits
      BY <1>5 DEF Digit, PasskeyTypeOK
    <2>2. passkey_entered * 10 + digit \in Nat
      BY DEF PasskeyTypeOK
    <2>3. passkey_digits_left' \in 0..PasskeyDigits /\ passkey_entered' \in Nat
      BY <1>5, <2>2 DEF Digit, typedVars, PasskeyTypeOK
    <2>4. asking' \subseteq open /\ accepted' \in Accepted
      <3> DEFINE passkey == passkey_entered * 10 + digit
      <3>1. CASE accepted' = NoPasskey /\ UNCHANGED asking
        BY <1>1, <3>1 DEF PasskeyTypeOK
      <3>2. CASE GivePasskey(passkey)
        <4>1. quazi_ble_conn \in asking =>
                 [conn |-> quazi_ble_conn, passkey |-> passkey, typed |-> typed'] \in Accepted
          BY <2>1, <2>2 DEF PasskeyTypeOK
        <4> QED
          BY <1>1, <3>2, <4>1 DEF GivePasskey, PasskeyTypeOK
      <3> QED
        BY <1>5, <3>1, <3>2 DEF Digit
    <2> QED
      BY <1>5, <2>1, <2>3, <2>4 DEF Digit, connVars, PasskeyTypeOK
  <1> QED
    BY <1>2, <1>3, <1>4, <1>5 DEF PasskeyNext

LEMMA PasskeyRestType ==
    ASSUME PasskeyInit PROVE PasskeyTypeOK
  BY PasskeyAssumption DEF PasskeyInit, NoPasskey, PasskeyTypeOK

LEMMA StepType == ASSUME TypeOK, [Next]_vars PROVE TypeOK'
  <1>1. CASE ProfileStep
    BY <1>1, ProfileType DEF ProfileStep, passkeyVars, connVars, typedVars, PasskeyTypeOK, TypeOK
  <1>2. CASE PasskeyStep
    <2>1. ProfileTypeOK'
      BY <1>2 DEF PasskeyStep, profileVars, bootVars, keyVars, TypeOK, ProfileTypeOK
    <2> QED
      BY <1>2, <2>1, PasskeyType DEF PasskeyStep, TypeOK
  <1>3. CASE PowerFails
    <2>1. PasskeyTypeOK'
      BY <1>3, PasskeyAssumption DEF PowerFails, NoPasskey, PasskeyTypeOK
    <2> QED
      BY <1>3, <2>1, BootType DEF PowerFails, TypeOK
  <1>4. CASE UNCHANGED vars
    BY <1>4 DEF vars, profileVars, bootVars, keyVars, passkeyVars, connVars, typedVars,
                PasskeyTypeOK, ProfileTypeOK, TypeOK
  <1> QED
    BY <1>1, <1>2, <1>3, <1>4 DEF Next

(* Every variable keeps to its type: at most CONFIG_BT_ID_MAX identities,  *)
(* times within the clock, digits left within 0..PasskeyDigits, and only   *)
(* open connections asked for a passkey.                                   *)
THEOREM TypeCorrect == Spec => []TypeOK
  <1>1. Init => TypeOK
    BY ProfileInitType, PasskeyRestType DEF Init, TypeOK
  <1>2. TypeOK /\ [Next]_vars => TypeOK'
    BY StepType
  <1> QED
    BY <1>1, <1>2, PTL DEF Spec

-----------------------------------------------------------------------------
(* The selected profile and the identities *)

(* After settings_load_subtree, memory and flash agree.                    *)
SelectedInv ==
    phase \in {"ids", "on"} /\ ~unsaved =>
        selected_profile = IF stored = 0 THEN 1 ELSE stored

(* The loops of quazi_profile_init leave made identities behind them.      *)
IdsInv ==
    /\ phase \in {"off", "load"} => i = 1
    /\ phase = "ids" /\ ~unmade =>
          i - 1 <= Len(ids) /\ \A j \in 1..i - 1 : ids[j] = "made"
    /\ ProfilesHaveIds

LEMMA SelectedStep ==
    ASSUME TypeOK, SelectedInv, [Next]_vars PROVE SelectedInv'
  <1>1. ASSUME UNCHANGED <<phase, selected_profile, stored, unsaved>> PROVE SelectedInv'
    BY <1>1 DEF SelectedInv
  <1>2. CASE PasskeyStep \/ UNCHANGED vars
    BY <1>1, <1>2 DEF PasskeyStep, vars, profileVars, bootVars
  <1>3. CASE PowerFails \/ PowerOn \/ Load
    BY <1>3 DEF PowerFails, PowerLoss, PowerOn, Load, SelectedInv
  <1>4. CASE MakeId \/ Boot \/ Pass
    BY <1>4 DEF MakeId, Boot, Pass, Running, bootVars, SelectedInv
  <1>5. ASSUME NEW k \in Keys, Press(k) \/ ReleaseClear(k) PROVE SelectedInv'
    BY <1>1, <1>5 DEF Press, ReleaseClear, Released, Running, bootVars
  <1>6. ASSUME NEW k \in Keys, ReleaseProfile(k) PROVE SelectedInv'
    <2>1. phase' = phase /\ phase = "on" /\ keycode[k] # 0
      BY <1>6, ProfileAssumption DEF ReleaseProfile, Released, Running, bootVars, Profiles
    <2>2. CASE keycode[k] = selected_profile
      BY <1>6, <2>1, <2>2 DEF ReleaseProfile, Select, SelectedInv
    <2>3. CASE keycode[k] # selected_profile
      BY <1>6, <2>1, <2>3 DEF ReleaseProfile, Select, SelectedInv
    <2> QED
      BY <2>2, <2>3
  <1> QED
    BY <1>2, <1>3, <1>4, <1>5, <1>6 DEF Next, ProfileStep, ProfileNext

LEMMA IdsStep ==
    ASSUME TypeOK, IdsInv, [Next]_vars PROVE IdsInv'
  <1>1. ASSUME UNCHANGED bootVars PROVE IdsInv'
    BY <1>1 DEF IdsInv, ProfilesHaveIds, bootVars
  <1>2. CASE PasskeyStep \/ UNCHANGED vars \/ Pass \/ \E k \in Keys : Press(k) \/ ReleaseClear(k) \/ ReleaseProfile(k)
    BY <1>1, <1>2 DEF PasskeyStep, vars, profileVars, Pass, Press, ReleaseClear, ReleaseProfile,
                      Released, Running
  <1>3. CASE PowerFails \/ PowerOn
    BY <1>3 DEF PowerFails, PowerLoss, PowerOn, IdsInv, ProfilesHaveIds
  <1>4. CASE Load
    BY <1>4 DEF Load, IdsInv, ProfilesHaveIds, TypeOK, ProfileTypeOK
  <1>5. CASE MakeId
    <2> USE <1>5 DEF TypeOK, ProfileTypeOK
    <2>1. /\ phase = "ids" /\ phase' = "ids" /\ i' = i + 1
          /\ i \in 1..CONFIG_BT_ID_MAX
      BY DEF MakeId
    <2>2. SUFFICES ASSUME ~unmade'
                   PROVE  i' - 1 <= Len(ids') /\ \A j \in 1..i' - 1 : ids'[j] = "made"
      BY <2>1 DEF IdsInv, ProfilesHaveIds
    <2>3. /\ ~unmade
          /\ ids' = IF i > Len(ids) THEN Append(ids, "made") ELSE [ids EXCEPT ![i] = "made"]
      <3> DEFINE remade == IF i > Len(ids) THEN Append(ids, "made")
                           ELSE [ids EXCEPT ![i] = "made"]
      <3>1. CASE ids' = remade /\ UNCHANGED unmade
        BY <2>2, <3>1
      <3>2. CASE ids' = ids /\ unmade' = (unmade \/ remade # ids)
        BY <2>2, <3>2, Zenon
      <3> HIDE DEF remade
      <3> QED
        BY <3>1, <3>2 DEF MakeId, remade
    <2>4. i - 1 <= Len(ids) /\ \A j \in 1..i - 1 : ids[j] = "made"
      BY <2>1, <2>3 DEF IdsInv
    <2>5. CASE i > Len(ids)
      <3>1. ids' = Append(ids, "made") /\ Len(ids) = i - 1
        BY <2>1, <2>3, <2>4, <2>5
      <3> QED
        BY <2>1, <2>4, <3>1
    <2>6. CASE ~(i > Len(ids))
      <3>1. ids' = [ids EXCEPT ![i] = "made"]
        BY <2>3, <2>6
      <3> QED
        BY <2>1, <2>4, <2>6, <3>1
    <2> QED
      BY <2>5, <2>6
  <1>6. CASE Boot
    <2>1. /\ phase = "ids" /\ phase' = "on" /\ i = CONFIG_BT_ID_MAX
          /\ UNCHANGED <<ids, unmade>>
      BY <1>6 DEF Boot, LoopEnds
    <2>2. ~unmade => ids = [p \in Profiles |-> "made"]
      <3>1. SUFFICES ASSUME ~unmade PROVE ids = [p \in Profiles |-> "made"]
        OBVIOUS
      <3>2. /\ i - 1 <= Len(ids) /\ \A j \in 1..i - 1 : ids[j] = "made"
        BY <2>1, <3>1 DEF IdsInv
      <3>3. Len(ids) = CONFIG_BT_ID_MAX - 1 /\ ids \in Seq({"made", "deleted"})
        BY <2>1, <3>2, ProfileAssumption DEF TypeOK, ProfileTypeOK
      <3>4. ids = [j \in 1..Len(ids) |-> ids[j]]
        BY <3>3
      <3> QED
        BY <2>1, <3>2, <3>3, <3>4 DEF Profiles
    <2> QED
      BY <2>1, <2>2 DEF IdsInv, ProfilesHaveIds
  <1> QED
    BY <1>2, <1>3, <1>4, <1>5, <1>6 DEF Next, ProfileStep, ProfileNext

(* The profile in use is the one a power loss leads back to, and a boot    *)
(* without a failed call makes every identity: neither power loss between  *)
(* two calls of the boot nor any order of keys breaks them.                *)
THEOREM ProfilesKept == Spec => [](SelectedIsStored /\ ProfilesHaveIds)
  <1>1. Init => SelectedInv /\ IdsInv
    BY DEF Init, ProfileInit, SelectedInv, IdsInv, ProfilesHaveIds
  <1>2. TypeOK /\ SelectedInv /\ IdsInv /\ [Next]_vars => SelectedInv' /\ IdsInv'
    BY SelectedStep, IdsStep
  <1>3. SelectedInv /\ IdsInv => SelectedIsStored /\ ProfilesHaveIds
    BY DEF SelectedInv, SelectedIsStored, IdsInv
  <1> QED
    BY <1>1, <1>2, <1>3, TypeCorrect, PTL DEF Spec

(* After a boot without a failed call every profile has its identity, for  *)
(* every number of profiles, however many boots were cut short before      *)
(* (profile.c:64-79).                                                      *)
THEOREM IdentitiesMade == Spec => []ProfilesHaveIds
  BY ProfilesKept, PTL

-----------------------------------------------------------------------------
(* Passkeys *)

(* A set of numbers with 0 and with the next of each has all of them.      *)
LEMMA SetInduction ==
    ASSUME NEW I, 0 \in I, \A n \in Nat : n \in I => n + 1 \in I
    PROVE  Nat \subseteq I
  <1> DEFINE R == OpToRel(<, Nat)
             J == Nat \ I
  <1>1. IsWellFoundedOn(R, Nat)
    BY NatLessThanWellFounded
  <1> HIDE DEF R
  <1>2. SUFFICES ASSUME J # {} PROVE FALSE
    OBVIOUS
  <1>3. PICK n \in J : \A m \in J : <<m, n>> \notin R
    BY <1>1, <1>2, WFMin
  <1>4. \A m \in J : ~(m < n)
    BY <1>3 DEF R, OpToRel
  <1>5. n # 0 /\ n - 1 \in Nat /\ n - 1 < n
    OBVIOUS
  <1>6. n - 1 \in I
    BY <1>4, <1>5
  <1> QED
    BY <1>5, <1>6

(* f is the function by which Number is defined, up to its argument m.     *)
Counts(digits, m, f) ==
    f = [n \in 0..m |-> IF n = 0 THEN 0 ELSE f[n - 1] * 10 + digits[n]]

LEMMA CountsExists ==
    ASSUME NEW digits \in Seq(Nat)
    PROVE  \E f \in [0..Len(digits) -> Nat] : Counts(digits, Len(digits), f)
  <1> DEFINE I == {m \in Nat : m <= Len(digits) =>
                                  \E f \in [0..m -> Nat] : Counts(digits, m, f)}
  <1>1. 0 \in I
    <2> DEFINE f == [n \in 0..0 |-> 0]
    <2>1. f \in [0..0 -> Nat] /\ Counts(digits, 0, f)
      BY DEF Counts
    <2> QED
      BY <2>1
  <1>2. ASSUME NEW m \in Nat, m \in I PROVE m + 1 \in I
    <2>1. SUFFICES ASSUME m + 1 <= Len(digits)
                   PROVE  \E f \in [0..m + 1 -> Nat] : Counts(digits, m + 1, f)
      OBVIOUS
    <2>2. PICK f \in [0..m -> Nat] : Counts(digits, m, f)
      BY <1>2, <2>1
    <2>3. digits[m + 1] \in Nat /\ f[m] \in Nat
      BY <2>1
    <2> DEFINE g == [n \in 0..m + 1 |-> IF n = m + 1 THEN f[m] * 10 + digits[m + 1] ELSE f[n]]
    <2>4. g \in [0..m + 1 -> Nat]
      BY <2>3
    <2>5. \A n \in 0..m : f[n] = IF n = 0 THEN 0 ELSE f[n - 1] * 10 + digits[n]
      BY <2>2 DEF Counts
    <2>6. \A n \in 0..m + 1 : g[n] = IF n = 0 THEN 0 ELSE g[n - 1] * 10 + digits[n]
      BY <2>5
    <2>7. Counts(digits, m + 1, g)
      BY <2>4, <2>6 DEF Counts
    <2> HIDE DEF g
    <2> QED
      BY <2>4, <2>7
  <1> HIDE DEF I
  <1>3. Nat \subseteq I
    BY <1>1, <1>2, SetInduction
  <1> QED
    BY <1>3 DEF I

LEMMA CountsUnique ==
    ASSUME NEW digits, NEW m \in Nat, NEW f, Counts(digits, m, f), NEW g, Counts(digits, m, g)
    PROVE  f = g
  <1> DEFINE I == {n \in Nat : n <= m => f[n] = g[n]}
  <1>1. /\ \A n \in 0..m : f[n] = IF n = 0 THEN 0 ELSE f[n - 1] * 10 + digits[n]
        /\ \A n \in 0..m : g[n] = IF n = 0 THEN 0 ELSE g[n - 1] * 10 + digits[n]
    BY DEF Counts
  <1>2. 0 \in I
    BY <1>1
  <1>3. ASSUME NEW n \in Nat, n \in I PROVE n + 1 \in I
    BY <1>1, <1>3
  <1> HIDE DEF I
  <1>4. Nat \subseteq I
    BY <1>2, <1>3, SetInduction
  <1>5. \A n \in 0..m : f[n] = g[n]
    BY <1>4 DEF I
  <1>6. f = [n \in 0..m |-> f[n]] /\ g = [n \in 0..m |-> g[n]]
    BY DEF Counts
  <1> QED
    BY <1>5, <1>6

LEMMA NumberIs ==
    ASSUME NEW digits \in Seq(Nat), NEW f, Counts(digits, Len(digits), f)
    PROVE  Number(digits) = f[Len(digits)]
  <1>1. \A g : Counts(digits, Len(digits), g) => g = f
    BY CountsUnique
  <1> QED
    BY <1>1 DEF Number, Counts

(* The number of no digits, and of one more digit.                         *)
LEMMA NumberOfNone == Number(<<>>) = 0
  <1> DEFINE f == [n \in 0..0 |-> 0]
  <1>1. Counts(<<>>, 0, f)
    BY DEF Counts
  <1>2. <<>> \in Seq(Nat) /\ Len(<<>>) = 0
    OBVIOUS
  <1>3. Number(<<>>) = f[0]
    BY <1>1, <1>2, NumberIs
  <1> QED
    BY <1>3

LEMMA NumberOfAppend ==
    ASSUME NEW digits \in Seq(Nat), NEW digit \in Nat
    PROVE  Number(Append(digits, digit)) = Number(digits) * 10 + digit
  <1> DEFINE all == Append(digits, digit)
             m == Len(digits)
  <1>1. /\ all \in Seq(Nat) /\ Len(all) = m + 1 /\ m \in Nat
        /\ all[m + 1] = digit /\ \A n \in 1..m : all[n] = digits[n]
    OBVIOUS
  <1> HIDE DEF all
  <1>2. PICK f : Counts(all, m + 1, f)
    BY <1>1, CountsExists
  <1>3. \A n \in 0..m + 1 : f[n] = IF n = 0 THEN 0 ELSE f[n - 1] * 10 + all[n]
    BY <1>2 DEF Counts
  <1> DEFINE g == [n \in 0..m |-> f[n]]
  <1>4. Counts(digits, m, g)
    <2>1. \A n \in 0..m : g[n] = IF n = 0 THEN 0 ELSE g[n - 1] * 10 + digits[n]
      BY <1>1, <1>3
    <2> QED
      BY <2>1 DEF Counts
  <1>5. Number(digits) = f[m]
    BY <1>1, <1>4, NumberIs
  <1>6. Number(all) = f[m + 1]
    BY <1>1, <1>2, NumberIs
  <1>7. f[m + 1] = f[m] * 10 + digit
    BY <1>1, <1>3
  <1> QED
    BY <1>5, <1>6, <1>7 DEF all

(* While the current connection waits, the digits typed since the last     *)
(* request and those left make a passkey, and the number so far is theirs. *)
EntryInv ==
    quazi_ble_conn \in asking =>
        /\ passkey_digits_left > 0
        /\ passkey_digits_left = PasskeyDigits - Len(typed)
        /\ passkey_entered = Number(typed)

(* A digit typed while the current connection waits.                       *)
LEMMA DigitIs ==
    ASSUME PasskeyTypeOK, EntryInv, NEW digit \in Digits, Digit(digit), quazi_ble_conn \in asking
    PROVE  /\ typed' = Append(typed, digit) /\ Len(typed') = Len(typed) + 1
           /\ Number(typed') = passkey_entered * 10 + digit
           /\ passkey_digits_left > 0 /\ passkey_digits_left = PasskeyDigits - Len(typed)
           /\ quazi_ble_conn # NULL
  <1>1. /\ passkey_digits_left > 0 /\ passkey_digits_left = PasskeyDigits - Len(typed)
        /\ passkey_entered = Number(typed) /\ quazi_ble_conn # NULL
    BY PasskeyAssumption DEF EntryInv, PasskeyTypeOK
  <1>2. typed' = Append(typed, digit) /\ Len(typed') = Len(typed) + 1
    BY <1>1, PasskeyAssumption DEF Digit, PasskeyTypeOK
  <1>3. typed \in Seq(Nat) /\ digit \in Nat
    <2>1. Digits \subseteq Nat /\ typed \in Seq(Digits)
      BY PasskeyAssumption DEF PasskeyTypeOK
    <2> QED
      BY <2>1, SeqMonotonic
  <1> QED
    BY <1>1, <1>2, <1>3, NumberOfAppend

LEMMA DigitStep ==
    ASSUME PasskeyTypeOK, EntryInv, NEW digit \in Digits, Digit(digit)
    PROVE  EntryInv'
  <1> USE PasskeyAssumption
  <1> SUFFICES ASSUME quazi_ble_conn' \in asking' PROVE EntryInv'
    BY DEF EntryInv
  <1>1. quazi_ble_conn' = quazi_ble_conn
    BY DEF Digit, connVars
  <1>2. asking' \subseteq asking
    BY DEF Digit, GivePasskey
  <1>3. quazi_ble_conn \in asking
    BY <1>1, <1>2
  <1>4. /\ quazi_ble_conn # NULL /\ passkey_digits_left > 0
        /\ passkey_digits_left = PasskeyDigits - Len(typed)
        /\ typed' = Append(typed, digit) /\ Len(typed') = Len(typed) + 1
        /\ Number(typed') = passkey_entered * 10 + digit
    BY <1>3, DigitIs
  <1>5. CASE IsLastDigit
    BY <1>1, <1>4, <1>5 DEF Digit, GivePasskey
  <1>6. CASE ~IsLastDigit
    <2>1. /\ passkey_digits_left' = passkey_digits_left - 1 /\ passkey_digits_left # 1
          /\ passkey_entered' = passkey_entered * 10 + digit
      BY <1>4, <1>6 DEF Digit, IsLastDigit
    <2> QED
      BY <1>4, <2>1 DEF EntryInv, PasskeyTypeOK
  <1> QED
    BY <1>5, <1>6

LEMMA EntryStep ==
    ASSUME TypeOK, EntryInv, [Next]_vars PROVE EntryInv'
  <1> USE PasskeyAssumption DEF TypeOK
  <1>1. CASE ProfileStep \/ UNCHANGED vars
    BY <1>1 DEF ProfileStep, vars, passkeyVars, connVars, typedVars, EntryInv
  <1>2. CASE PowerFails
    BY <1>2 DEF PowerFails, EntryInv
  <1>3. ASSUME NEW c \in Conns, Connected(c) PROVE EntryInv'
    BY <1>3 DEF Connected, EntryInv, PasskeyTypeOK
  <1>4. ASSUME NEW c \in Conns, Disconnected(c) PROVE EntryInv'
    BY <1>4 DEF Disconnected, typedVars, EntryInv, PasskeyTypeOK
  <1>5. ASSUME NEW c \in Conns, PasskeyEntry(c) PROVE EntryInv'
    BY <1>5, NumberOfNone DEF PasskeyEntry, StartEntry, EntryInv
  <1>6. ASSUME NEW c \in Conns, Cancel(c) PROVE EntryInv'
    BY <1>6 DEF Cancel, connVars, typedVars, EntryInv
  <1>7. CASE DropConn
    BY <1>7 DEF DropConn, EntryInv, PasskeyTypeOK
  <1> QED
    BY <1>1, <1>2, <1>3, <1>4, <1>5, <1>6, <1>7, DigitStep DEF Next, PasskeyStep, PasskeyNext

(* A passkey is given with the last digit, and forgotten with the next     *)
(* step.                                                                   *)
LEMMA GivenStep ==
    ASSUME TypeOK, EntryInv, PasskeyIsTyped, [Next]_vars PROVE PasskeyIsTyped'
  <1> USE PasskeyAssumption DEF TypeOK
  <1>1. CASE ProfileStep \/ UNCHANGED vars
    BY <1>1 DEF ProfileStep, vars, passkeyVars, PasskeyIsTyped
  <1>2. CASE PowerFails \/ DropConn
    BY <1>2 DEF PowerFails, DropConn, PasskeyIsTyped
  <1>3. ASSUME NEW c \in Conns, Connected(c) \/ Disconnected(c) \/ PasskeyEntry(c) \/ Cancel(c)
        PROVE  PasskeyIsTyped'
    BY <1>3 DEF Connected, Disconnected, PasskeyEntry, Cancel, PasskeyIsTyped
  <1>4. ASSUME NEW digit \in Digits, Digit(digit) PROVE PasskeyIsTyped'
    <2>1. SUFFICES ASSUME accepted' # NoPasskey PROVE PasskeyIsTyped'
      BY DEF PasskeyIsTyped, NoPasskey
    <2>2. /\ quazi_ble_conn \in asking /\ passkey_digits_left = 1
          /\ accepted' = [conn |-> quazi_ble_conn, passkey |-> passkey_entered * 10 + digit,
                          typed |-> typed']
      BY <1>4, <2>1 DEF Digit, GivePasskey, IsLastDigit
    <2>3. Len(typed') = PasskeyDigits /\ Number(typed') = passkey_entered * 10 + digit
      BY <1>4, <2>2, DigitIs DEF PasskeyTypeOK
    <2> QED
      BY <2>2, <2>3 DEF PasskeyIsTyped
  <1> QED
    BY <1>1, <1>2, <1>3, <1>4 DEF Next, PasskeyStep, PasskeyNext

(* A waiting host is given the number that the user has typed since it     *)
(* asked, with all its digits, for every length of a passkey and every     *)
(* order of requests, cancelled entries, lost links and digits             *)
(* (ble.c:356-368).                                                        *)
THEOREM PasskeyIsRight == Spec => []PasskeyIsTyped
  <1>1. Init => EntryInv /\ PasskeyIsTyped
    BY DEF Init, PasskeyInit, EntryInv, PasskeyIsTyped
  <1>2. TypeOK /\ EntryInv /\ PasskeyIsTyped /\ [Next]_vars => EntryInv' /\ PasskeyIsTyped'
    BY EntryStep, GivenStep
  <1> QED
    BY <1>1, <1>2, TypeCorrect, PTL DEF Spec

(* No host of the current connection waits on after its passkey has been   *)
(* typed, for every order of requests, lost links and digits.              *)
THEOREM PasskeyArrives == Spec => []PasskeyIsGiven
  <1>1. Init => EntryInv
    BY DEF Init, PasskeyInit, EntryInv
  <1>2. TypeOK /\ EntryInv /\ [Next]_vars => EntryInv'
    BY EntryStep
  <1>3. TypeOK /\ EntryInv => PasskeyIsGiven
    BY PasskeyAssumption DEF TypeOK, PasskeyTypeOK, EntryInv, PasskeyIsGiven
  <1> QED
    BY <1>1, <1>2, <1>3, TypeCorrect, PTL DEF Spec

-----------------------------------------------------------------------------
(* Taps and holds *)

(* The 16-bit difference that IsHold compares, for a key that is down.     *)
Diff(k) == (EventTime - press_times[keycode[k]]) % Wrap

Odd == IF time % 2 = 1 THEN 1 ELSE 0

OnlyKeyOfItsCode(k) == \A l \in Keys \ {k} : keycode[l] # keycode[k]

(* An event time is odd, and so one ahead at the even times: the           *)
(* difference is at most one ahead of the time the key has been down, and, *)
(* until it wraps, at most one behind if no other key has the same code.   *)
HoldInv ==
    \A k \in DOMAIN held :
        /\ held[k] = MaxHold \/ Diff(k) <= held[k] + 1 - Odd
        /\ OnlyKeyOfItsCode(k) /\ held[k] <= Wrap - 2 => Diff(k) >= held[k] - Odd

LEMMA DiffIs ==
    ASSUME ProfileTypeOK, NEW k \in Keys
    PROVE  LET p == press_times[keycode[k]]
           IN  Diff(k) = IF EventTime >= p THEN EventTime - p ELSE EventTime - p + Wrap
  <1>1. EventTime \in 0..Wrap - 1 /\ press_times[keycode[k]] \in 0..Wrap - 1
    BY EventTimeIsTime, ProfileAssumption DEF ProfileTypeOK, Times
  <1>2. Wrap \in Nat \ {0}
    BY ProfileAssumption
  <1> QED
    BY <1>1, <1>2, ModDistance DEF Diff

(* The clock starts anew: the difference grows by two all the same. *)
LEMMA DiffWraps ==
    ASSUME NEW w \in Nat, NEW m \in Nat, w < m, NEW p \in 0..w - 1, NEW h \in 0..m,
           NEW d, d = w - 1 - p, NEW next, next = IF 1 >= p THEN 1 - p ELSE 1 - p + w
    PROVE  /\ d <= h => next <= h + 2
           /\ d <= h /\ h + 1 <= w - 2 /\ d >= h - 1 => next >= h + 1
  OBVIOUS

LEMMA PassHold == ASSUME ProfileTypeOK, HoldInv, Pass PROVE HoldInv'
  <1> USE ProfileAssumption
  <1> SUFFICES ASSUME NEW k \in DOMAIN held'
               PROVE  /\ held'[k] = MaxHold \/ Diff(k)' <= held'[k] + 1 - Odd'
                      /\ OnlyKeyOfItsCode(k) /\ held'[k] <= Wrap - 2
                            => Diff(k)' >= held'[k] - Odd'
    BY DEF HoldInv, OnlyKeyOfItsCode
  <1> DEFINE p == press_times[keycode[k]]
  <1>1. k \in DOMAIN held /\ k \in Keys /\ held[k] \in 0..MaxHold
    BY DEF Pass, ProfileTypeOK
  <1>2. held'[k] = IF held[k] < MaxHold THEN held[k] + 1 ELSE MaxHold
    BY <1>1 DEF Pass
  <1>3. time' = IF time = Wrap - 1 THEN 0 ELSE time + 1
    BY ModOfNext DEF Pass, ProfileTypeOK, Times
  <1>4. p \in 0..Wrap - 1 /\ p' = p
    BY <1>1 DEF Pass, ProfileTypeOK, Times
  <1>5. ProfileTypeOK'
    BY PassType
  <1>6. /\ Diff(k) = IF EventTime >= p THEN EventTime - p ELSE EventTime - p + Wrap
        /\ Diff(k)' = IF EventTime' >= p THEN EventTime' - p ELSE EventTime' - p + Wrap
    <2>1. Diff(k) = IF EventTime >= p THEN EventTime - p ELSE EventTime - p + Wrap
      BY <1>1, DiffIs
    <2>2. EventTime' \in 0..Wrap - 1
      BY <1>5, OddTime DEF EventTime, ProfileTypeOK, Times
    <2>3. Diff(k)' = (EventTime' - p) % Wrap
      BY <1>4 DEF Diff
    <2>4. Wrap \in Nat \ {0}
      OBVIOUS
    <2> QED
      BY <1>4, <2>1, <2>2, <2>3, <2>4, ModDistance
  <1>7. /\ held[k] = MaxHold \/ Diff(k) <= held[k] + 1 - Odd
        /\ OnlyKeyOfItsCode(k) /\ held[k] <= Wrap - 2 => Diff(k) >= held[k] - Odd
    BY <1>1 DEF HoldInv
  <1>8. time \in 0..Wrap - 1 /\ EventTime \in 0..Wrap - 1
    BY EventTimeIsTime DEF ProfileTypeOK, Times
  <1>9. CASE time % 2 = 0
    <2>1. time' = time + 1 /\ time' % 2 = 1 /\ EventTime' = EventTime /\ Odd = 0 /\ Odd' = 1
      BY <1>3, <1>8, <1>9 DEF EventTime, Odd
    <2> QED
      BY <1>1, <1>2, <1>6, <1>7, <2>1
  <1>10. CASE time % 2 = 1
    <2>1. time' % 2 = 0 /\ Odd = 1 /\ Odd' = 0 /\ EventTime = time /\ EventTime' = time' + 1
      BY <1>3, <1>8, <1>10 DEF EventTime, Odd
    <2>2. CASE time = Wrap - 1
      <3>1. EventTime = Wrap - 1 /\ EventTime' = 1
        BY <1>3, <1>8, <2>1, <2>2
      <3>2. /\ Diff(k) = Wrap - 1 - p
            /\ Diff(k)' = IF 1 >= p THEN 1 - p ELSE 1 - p + Wrap
        BY <1>4, <1>6, <3>1
      <3>3. /\ Diff(k) <= held[k] => Diff(k)' <= held[k] + 2
            /\ Diff(k) <= held[k] /\ held[k] + 1 <= Wrap - 2 /\ Diff(k) >= held[k] - 1
                  => Diff(k)' >= held[k] + 1
        BY <1>1, <1>4, <3>2, DiffWraps
      <3>4. Diff(k) \in Int /\ Diff(k)' \in Int
        BY <1>4, <3>2
      <3> QED
        BY <1>1, <1>2, <1>7, <2>1, <3>3, <3>4
    <2>3. CASE time # Wrap - 1
      <3>1. EventTime' = EventTime + 2
        BY <1>3, <1>8, <2>1, <2>3
      <3> QED
        BY <1>1, <1>2, <1>4, <1>6, <1>7, <1>8, <2>1, <3>1
    <2> QED
      BY <2>2, <2>3
  <1> QED
    BY <1>8, <1>9, <1>10

LEMMA PressHold ==
    ASSUME ProfileTypeOK, HoldInv, NEW k \in Keys, Press(k) PROVE HoldInv'
  <1> USE ProfileAssumption
  <1>1. UNCHANGED time
    BY DEF Press
  <1>2. ASSUME NEW l \in DOMAIN held', l # k, keycode[l] # keycode[k]
        PROVE  held'[l] = held[l] /\ Diff(l)' = Diff(l) /\ l \in DOMAIN held
    <2>1. l \in DOMAIN held /\ l \in Keys
      BY <1>2 DEF Press, ProfileTypeOK
    <2>2. press_times'[keycode[l]] = press_times[keycode[l]]
      BY <1>2, <2>1 DEF Press, ProfileTypeOK
    <2> QED
      BY <1>1, <1>2, <2>1, <2>2 DEF Press, Diff, EventTime
  <1>3. ASSUME NEW l \in DOMAIN held', keycode[l] = keycode[k]
        PROVE  Diff(l)' = 0
    <2>1. press_times'[keycode[l]] = EventTime
      BY <1>3 DEF Press, ProfileTypeOK
    <2>2. EventTime' = EventTime /\ EventTime \in 0..Wrap - 1
      BY <1>1, EventTimeIsTime DEF EventTime, Times
    <2>3. (EventTime - EventTime) % Wrap = 0
      BY <2>2, ModDistance
    <2> QED
      BY <2>1, <2>2, <2>3 DEF Diff
  <1>4. ASSUME NEW l \in DOMAIN held'
        PROVE  l \in Keys /\ held'[l] \in 0..MaxHold /\ (l = k => held'[l] = 0)
    BY <1>4 DEF Press, ProfileTypeOK
  <1>5. Odd \in {0, 1} /\ Odd' = Odd
    BY <1>1 DEF Odd
  <1> SUFFICES ASSUME NEW l \in DOMAIN held'
               PROVE  /\ held'[l] = MaxHold \/ Diff(l)' <= held'[l] + 1 - Odd'
                      /\ OnlyKeyOfItsCode(l) /\ held'[l] <= Wrap - 2
                            => Diff(l)' >= held'[l] - Odd'
    BY DEF HoldInv, OnlyKeyOfItsCode
  <1>6. CASE keycode[l] = keycode[k]
    <2>1. OnlyKeyOfItsCode(l) => l = k
      BY <1>4, <1>6 DEF OnlyKeyOfItsCode
    <2>2. Diff(l)' = 0
      BY <1>3, <1>6
    <2> QED
      BY <1>4, <1>5, <2>1, <2>2
  <1>7. CASE keycode[l] # keycode[k]
    BY <1>2, <1>5, <1>7 DEF HoldInv
  <1> QED
    BY <1>6, <1>7

LEMMA ReleaseHold ==
    ASSUME ProfileTypeOK, HoldInv, NEW k \in Keys, Released(k) PROVE HoldInv'
  <1>1. \A l \in DOMAIN held' : l \in DOMAIN held /\ held'[l] = held[l]
    BY RestrictFacts DEF Released
  <1>2. \A l : Diff(l)' = Diff(l)
    BY DEF Released, Diff, EventTime
  <1>3. Odd' = Odd
    BY DEF Released, Odd
  <1> QED
    BY <1>1, <1>2, <1>3 DEF HoldInv, OnlyKeyOfItsCode

LEMMA HoldStep ==
    ASSUME TypeOK, HoldInv, [Next]_vars PROVE HoldInv'
  <1>1. ASSUME UNCHANGED <<time, press_times, held>> PROVE HoldInv'
    BY <1>1 DEF HoldInv, OnlyKeyOfItsCode, Diff, EventTime, Odd
  <1>2. CASE PasskeyStep \/ UNCHANGED vars
    BY <1>1, <1>2 DEF PasskeyStep, vars, profileVars, keyVars
  <1>3. CASE PowerFails
    BY <1>3, NoneHeld DEF PowerFails, PowerLoss, HoldInv
  <1>4. CASE PowerOn \/ Load \/ MakeId \/ Boot
    BY <1>1, <1>4 DEF PowerOn, Load, MakeId, Boot, keyVars
  <1>5. CASE Pass
    BY <1>5, PassHold DEF TypeOK
  <1>6. ASSUME NEW k \in Keys, Press(k) PROVE HoldInv'
    BY <1>6, PressHold DEF TypeOK
  <1>7. ASSUME NEW k \in Keys, ReleaseClear(k) \/ ReleaseProfile(k) PROVE HoldInv'
    BY <1>7, ReleaseHold DEF ReleaseClear, ReleaseProfile, TypeOK
  <1> QED
    BY <1>2, <1>3, <1>4, <1>5, <1>6, <1>7 DEF Next, ProfileStep, ProfileNext

(* The step of OnlyHoldsPair, and of HoldsPair. *)
PairIsHold(k) ==
    request'[1] \in {"pair", "unpair"} => held[k] >= QUAZI_BT_TAP_TIME - 1

HoldIsPair(k) ==
    (/\ phase' = "on"
     /\ held[k] \in QUAZI_BT_TAP_TIME + 1 .. Wrap - 2
     /\ \A l \in Keys \ {k} : keycode[l] # keycode[k])
    => request'[1] \in {"pair", "unpair"}

(* What goes up is the key released, and the request is about it. *)
LEMMA ReleaseIs ==
    ASSUME TypeOK, Next, NEW k \in DOMAIN held \ DOMAIN held'
    PROVE  \/ PowerFails
           \/ /\ k \in Keys /\ Released(k)
              /\ request'[1] \in {"pair", "unpair"} <=> IsHold(keycode[k])
  <1>1. k \in Keys
    BY DEF TypeOK, ProfileTypeOK
  <1>2. ASSUME NEW l \in Keys, Released(l) PROVE l = k
    BY <1>2, RestrictFacts DEF Released
  <1>3. CASE PasskeyStep \/ PowerOn \/ Load \/ MakeId \/ Boot \/ Pass
    BY <1>3 DEF PasskeyStep, profileVars, keyVars, PowerOn, Load, MakeId, Boot, Pass
  <1>4. ASSUME NEW l \in Keys, Press(l) PROVE FALSE
    BY <1>4 DEF Press
  <1>5. ASSUME NEW l \in Keys, ReleaseClear(l)
        PROVE  /\ Released(k)
               /\ request'[1] \in {"pair", "unpair"} <=> IsHold(keycode[k])
    <2>1. l = k /\ Released(k) /\ keycode[k] = BT_CLEAR
      BY <1>2, <1>5 DEF ReleaseClear
    <2> QED
      BY <1>5, <2>1 DEF ReleaseClear, Nothing
  <1>6. ASSUME NEW l \in Keys, ReleaseProfile(l)
        PROVE  /\ Released(k)
               /\ request'[1] \in {"pair", "unpair"} <=> IsHold(keycode[k])
    <2>1. l = k /\ Released(k)
      BY <1>2, <1>6 DEF ReleaseProfile
    <2> QED
      BY <1>6, <2>1 DEF ReleaseProfile
  <1> QED
    BY <1>1, <1>3, <1>4, <1>5, <1>6 DEF Next, ProfileStep, ProfileNext

LEMMA HoldActions ==
    ASSUME TypeOK, HoldInv, Next, NEW k \in DOMAIN held \ DOMAIN held'
    PROVE  PairIsHold(k) /\ HoldIsPair(k)
  <1> USE ProfileAssumption
  <1>1. CASE PowerFails
    BY <1>1 DEF PowerFails, PowerLoss, Nothing, PairIsHold, HoldIsPair
  <1>2. CASE ~PowerFails
    <2>1. /\ k \in Keys /\ held[k] \in 0..MaxHold
          /\ request'[1] \in {"pair", "unpair"} <=> IsHold(keycode[k])
      BY <1>2, ReleaseIs DEF TypeOK, ProfileTypeOK
    <2>2. IsHold(keycode[k]) <=> Diff(k) >= QUAZI_BT_TAP_TIME
      BY DEF IsHold, Diff
    <2>3. Odd \in {0, 1}
      BY DEF Odd
    <2>4. Diff(k) \in Int
      <3>1. EventTime \in 0..Wrap - 1 /\ press_times[keycode[k]] \in 0..Wrap - 1
        BY <2>1, EventTimeIsTime DEF TypeOK, ProfileTypeOK, Times
      <3> QED
        BY <2>1, <3>1, DiffIs DEF TypeOK
    <2>5. held[k] = MaxHold \/ Diff(k) <= held[k] + 1 - Odd
      BY DEF HoldInv
    <2>6. PairIsHold(k)
      BY <2>1, <2>2, <2>3, <2>4, <2>5 DEF PairIsHold
    <2>7. HoldIsPair(k)
      <3>1. SUFFICES ASSUME held[k] \in QUAZI_BT_TAP_TIME + 1 .. Wrap - 2,
                            \A l \in Keys \ {k} : keycode[l] # keycode[k]
                     PROVE  IsHold(keycode[k])
        BY <2>1 DEF HoldIsPair
      <3>2. Diff(k) >= held[k] - Odd
        BY <3>1 DEF HoldInv, OnlyKeyOfItsCode
      <3> QED
        BY <2>2, <2>3, <2>4, <3>1, <3>2
    <2> QED
      BY <2>6, <2>7
  <1> QED
    BY <1>1, <1>2

(* Only a hold pairs or unpairs, in every order of Bluetooth keys and at   *)
(* every position of the clock.                                            *)
THEOREM PairingNeedsHold == Spec => OnlyHoldsPair
  <1>1. Init => HoldInv
    BY NoneHeld DEF Init, ProfileInit, HoldInv
  <1>2. TypeOK /\ HoldInv /\ [Next]_vars => HoldInv'
    BY HoldStep
  <1>3. TypeOK /\ HoldInv /\ [Next]_vars =>
           [\A k \in DOMAIN held \ DOMAIN held' :
               request'[1] \in {"pair", "unpair"} => held[k] >= QUAZI_BT_TAP_TIME - 1]_profileVars
    BY HoldActions DEF PairIsHold, vars
  <1> QED
    BY <1>1, <1>2, <1>3, TypeCorrect, PTL DEF Spec, OnlyHoldsPair

(* A hold shorter than the clock is a hold, unless another key has the     *)
(* same code.                                                              *)
THEOREM HoldPairs == Spec => HoldsPair
  <1>1. Init => HoldInv
    BY NoneHeld DEF Init, ProfileInit, HoldInv
  <1>2. TypeOK /\ HoldInv /\ [Next]_vars => HoldInv'
    BY HoldStep
  <1>3. TypeOK /\ HoldInv /\ [Next]_vars =>
           [\A k \in DOMAIN held \ DOMAIN held' :
               (/\ phase' = "on"
                /\ held[k] \in QUAZI_BT_TAP_TIME + 1 .. Wrap - 2
                /\ \A l \in Keys \ {k} : keycode[l] # keycode[k])
               => request'[1] \in {"pair", "unpair"}]_profileVars
    BY HoldActions DEF HoldIsPair, vars
  <1> QED
    BY <1>1, <1>2, <1>3, TypeCorrect, PTL DEF Spec, HoldsPair
=============================================================================
