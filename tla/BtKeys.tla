------------------------------- MODULE BtKeys -------------------------------
(* The Bluetooth keys of process_record_quantum (quantum.c:242):           *)
(* process_bluetooth, of Profile, and process_bluetooth_passkey, of        *)
(* Passkey.  Both run once the keyboard has booted, and a power loss takes *)
(* the statics of both.                                                    *)
EXTENDS Profile, Passkey

vars == <<profileVars, passkeyVars>>

Init == ProfileInit /\ PasskeyInit

ProfileStep == ProfileNext /\ UNCHANGED passkeyVars

PasskeyStep == phase = "on" /\ PasskeyNext /\ UNCHANGED profileVars

PowerFails ==
    /\ PowerLoss
    /\ quazi_ble_conn' = NULL /\ open' = {}
    /\ passkey_digits_left' = 0 /\ passkey_entered' = 0
    /\ asking' = {}
    /\ typed' = <<>> /\ accepted' = NoPasskey

Next == ProfileStep \/ PasskeyStep \/ PowerFails

Spec == Init /\ [][Next]_vars

TypeOK == ProfileTypeOK /\ PasskeyTypeOK
=============================================================================
