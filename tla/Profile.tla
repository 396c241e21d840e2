------------------------------ MODULE Profile -------------------------------
(* The Bluetooth keys (quazi/qmk_glue/process_bluetooth.c) and the profile *)
(* manager they drive (quazi/src/profile.c): the selected profile in memory *)
(* and in flash, the identities of the profiles, made at boot, and the     *)
(* difference between a tap and a hold, taken from a 16-bit clock.         *)
(*                                                                         *)
(* A power loss may come at any time; a save to flash may fail, and so may *)
(* the calls of the Bluetooth host that make identities.                   *)
EXTENDS Integers, Sequences, Functions

CONSTANTS
    Keys,                \* positions of Bluetooth keys
    BT_CLEAR,
    keycode,             \* of each key: BT_CLEAR, or a profile for BT_1, BT_2, ...
    CONFIG_BT_ID_MAX,    \* identities, with the default one, 0
    QUAZI_BT_TAP_TIME,
    Wrap,                \* what a time holds: 2^16
    MaxHold              \* bound: hold times are counted up to here

Profiles == 1..CONFIG_BT_ID_MAX - 1
Codes == Profiles \cup {BT_CLEAR}

ASSUME ProfileAssumption ==
    /\ CONFIG_BT_ID_MAX \in Nat /\ CONFIG_BT_ID_MAX > 1
    /\ BT_CLEAR \notin Int
    /\ keycode \in [Keys -> Codes]
    /\ QUAZI_BT_TAP_TIME \in Nat /\ Wrap \in Nat /\ Wrap % 2 = 0
    /\ QUAZI_BT_TAP_TIME < Wrap /\ MaxHold \in Nat /\ Wrap < MaxHold

VARIABLES
    phase,               \* "off", "load", "ids" (quazi_profile_init), "on"
    selected_profile,
    stored,              \* quazi/profile/selected in flash, 0 without one
    ids,                 \* the identities from 1 on, as the host keeps them
                         \* in flash: made, or deleted (BT_ADDR_LE_ANY)
    i,                   \* the loop variable of quazi_profile_init
    time,                \* the clock
    press_times,         \* clear_time and profile_times
    held,                \* how long each key that is down has been held
    request,             \* what the last event asked of ble.c
    unsaved,             \* the last save, or the load at boot, failed
    unmade               \* an identity could not be made at boot, or no load

keyVars == <<time, press_times, held, request>>
bootVars == <<phase, ids, i, unmade>>
profileVars == <<bootVars, selected_profile, stored, unsaved, keyVars>>

Nothing == <<"nothing", 0>>

ProfileInit ==
    /\ phase = "off"
    /\ selected_profile = 1 /\ stored = 0
    /\ ids \in UNION {[1..n -> {"made", "deleted"}] : n \in 0..CONFIG_BT_ID_MAX - 1}
    /\ i = 1
    /\ time = 0 /\ press_times = [c \in Codes |-> 0] /\ held = <<>>
    /\ request = Nothing
    /\ unsaved = FALSE /\ unmade = FALSE

-----------------------------------------------------------------------------
(* Boot: quazi_profile_init *)

\* The memory starts anew; keys that are down are pressed again.
PowerLoss ==
    /\ phase # "off"
    /\ phase' = "off"
    /\ selected_profile' = 1 /\ i' = 1
    /\ time' = 0 /\ press_times' = [c \in Codes |-> 0] /\ held' = <<>>
    /\ request' = Nothing
    /\ unsaved' = FALSE /\ unmade' = FALSE
    /\ UNCHANGED <<stored, ids>>

PowerOn ==
    /\ phase = "off"
    /\ phase' = "load"
    /\ UNCHANGED <<selected_profile, stored, ids, i, keyVars, unsaved, unmade>>

\* settings_load_subtree, with settings_set; without a load the identities
\* are not looked at.
Load ==
    /\ phase = "load"
    /\ \/ /\ phase' = "ids"
          /\ selected_profile' = IF stored = 0 THEN 1 ELSE stored
          /\ UNCHANGED <<unsaved, unmade>>
       \/ /\ phase' = "on"
          /\ unsaved' = TRUE /\ unmade' = TRUE
          /\ UNCHANGED selected_profile
    /\ UNCHANGED <<stored, ids, i, keyVars>>

\* Mutants: make one identity too few, or one too many.
LoopEndsEarly == i = CONFIG_BT_ID_MAX - 1
LoopEndsLate == i = CONFIG_BT_ID_MAX + 1

LoopEnds == i = CONFIG_BT_ID_MAX

\* The two loops over the identities: a deleted one is reset, one that is
\* not there is created (bt_id_create takes the next free place).
MakeId ==
    /\ phase = "ids" /\ ~LoopEnds
    /\ i' = i + 1
    /\ LET remade == IF i > Len(ids) THEN Append(ids, "made") ELSE [ids EXCEPT ![i] = "made"]
       IN  \/ ids' = remade /\ UNCHANGED unmade
           \/ ids' = ids /\ unmade' = (unmade \/ remade # ids)
    /\ UNCHANGED <<phase, selected_profile, stored, keyVars, unsaved>>

Boot ==
    /\ phase = "ids" /\ LoopEnds
    /\ phase' = "on"
    /\ UNCHANGED <<selected_profile, stored, ids, i, keyVars, unsaved, unmade>>

-----------------------------------------------------------------------------
(* Keys: process_bluetooth *)

Running == phase = "on" /\ UNCHANGED bootVars

\* "time should not be 0": timer_read() | 1 (keyboard.c:468)
EventTime == time + 1 - (time % 2)

Press(k) ==
    /\ Running
    /\ k \notin DOMAIN held
    /\ press_times' = [press_times EXCEPT ![keycode[k]] = EventTime]
    /\ held' = [key \in DOMAIN held \cup {k} |-> IF key = k THEN 0 ELSE held[key]]
    /\ request' = Nothing
    /\ UNCHANGED <<selected_profile, stored, time, unsaved>>

\* Mutant: the difference of integers, not of 16-bit numbers.
IsHoldWide(c) == EventTime - press_times[c] >= QUAZI_BT_TAP_TIME
\* Mutant: the press is not looked at.
IsHoldOfTime(c) == EventTime >= QUAZI_BT_TAP_TIME

IsHold(c) == (EventTime - press_times[c]) % Wrap >= QUAZI_BT_TAP_TIME

\* Mutant: saves what was selected before.
SelectOld(p) ==
    IF p = selected_profile THEN UNCHANGED <<selected_profile, stored, unsaved>>
    ELSE /\ selected_profile' = p
         /\ \E saved \in BOOLEAN :
               /\ stored' = IF saved THEN selected_profile ELSE stored
               /\ unsaved' = ~saved

\* quazi_profile_select.  The result of settings_save_one is not looked at.
Select(p) ==
    IF p = selected_profile THEN UNCHANGED <<selected_profile, stored, unsaved>>
    ELSE /\ selected_profile' = p
         /\ \E saved \in BOOLEAN :
               /\ stored' = IF saved THEN p ELSE stored
               /\ unsaved' = ~saved

Released(k) ==
    /\ Running
    /\ k \in DOMAIN held
    /\ held' = Restrict(held, DOMAIN held \ {k})
    /\ UNCHANGED <<time, press_times>>

ReleaseClear(k) ==
    /\ Released(k) /\ keycode[k] = BT_CLEAR
    /\ request' = IF IsHold(BT_CLEAR) THEN <<"unpair", selected_profile>> ELSE Nothing
    /\ UNCHANGED <<selected_profile, stored, unsaved>>

ReleaseProfile(k) ==
    /\ Released(k) /\ keycode[k] \in Profiles
    /\ Select(keycode[k])
    /\ request' = <<IF IsHold(keycode[k]) THEN "pair" ELSE "connect", selected_profile'>>

\* Time passes; without a Bluetooth key down nobody looks at it.
Pass ==
    /\ Running
    /\ held # <<>>
    /\ time' = (time + 1) % Wrap
    /\ held' = [k \in DOMAIN held |-> IF held[k] < MaxHold THEN held[k] + 1 ELSE MaxHold]
    /\ request' = Nothing
    /\ UNCHANGED <<selected_profile, stored, press_times, unsaved>>

ProfileNext ==
    \/ PowerOn \/ Load \/ MakeId \/ Boot \/ Pass
    \/ \E k \in Keys : Press(k) \/ ReleaseClear(k) \/ ReleaseProfile(k)

-----------------------------------------------------------------------------
Times == 0..Wrap - 1

ProfileTypeOK ==
    /\ phase \in {"off", "load", "ids", "on"}
    /\ selected_profile \in Profiles /\ stored \in Profiles \cup {0}
    /\ ids \in Seq({"made", "deleted"}) /\ Len(ids) < CONFIG_BT_ID_MAX
    /\ i \in 1..CONFIG_BT_ID_MAX
    /\ time \in Times /\ press_times \in [Codes -> Times]
    /\ DOMAIN held \subseteq Keys /\ \A k \in DOMAIN held : held[k] \in 0..MaxHold
    /\ request \in {Nothing} \cup {"connect", "pair", "unpair"} \X Profiles
    /\ unsaved \in BOOLEAN /\ unmade \in BOOLEAN

(* The profile that the keyboard is on is the one it comes back to after a *)
(* power loss, whatever was selected before and in which order, unless the *)
(* last save has failed (profile.c:88 does not look).                      *)
SelectedIsStored ==
    phase = "on" /\ ~unsaved => selected_profile = IF stored = 0 THEN 1 ELSE stored

(* After a boot without a failed call every profile has its identity, even *)
(* if earlier boots were cut short between the identities, or if some of   *)
(* the identities had been deleted (profile.c:64-79).                      *)
ProfilesHaveIds ==
    phase = "on" /\ ~unmade => ids = [p \in Profiles |-> "made"]

(* Pairing and unpairing, which throw a bond away, take a hold: the key    *)
(* released has been down for QUAZI_BT_TAP_TIME, less the one tick that    *)
(* an event time may be off, at whatever time it was pressed and whatever  *)
(* other key of the same code was pressed or released meanwhile.           *)
OnlyHoldsPair ==
    [][\A k \in DOMAIN held \ DOMAIN held' :
          request'[1] \in {"pair", "unpair"} => held[k] >= QUAZI_BT_TAP_TIME - 1]_profileVars

(* A hold is not taken for a tap, in every position of the 16-bit clock:   *)
(* of a key pressed alone and held for QUAZI_BT_TAP_TIME, and less than    *)
(* the 65.5 s of the clock, the release pairs or unpairs.                  *)
HoldsPair ==
    [][\A k \in DOMAIN held \ DOMAIN held' :
          (/\ phase' = "on"
           /\ held[k] \in QUAZI_BT_TAP_TIME + 1 .. Wrap - 2
           /\ \A l \in Keys \ {k} : keycode[l] # keycode[k])
          => request'[1] \in {"pair", "unpair"}]_profileVars
=============================================================================
