------------------------------ MODULE Passkey -------------------------------
(* The passkey that a host shows and the user types on the keyboard        *)
(* (ble.c:44, 136-149, 356-368, process_bluetooth_passkey): the digits     *)
(* collected in two statics, given to the current connection with the last *)
(* one.  The connections come and go as in Ble; here they are open, and    *)
(* one of them is current or none is.                                      *)
EXTENDS Integers, Sequences

CONSTANTS
    Conns, NULL,
    Digits,              \* the digits tried, of 0..9
    PasskeyDigits        \* 6

ASSUME PasskeyAssumption ==
    /\ NULL \notin Conns
    /\ Digits \subseteq 0..9
    /\ PasskeyDigits \in Nat \ {0}

VARIABLES
    quazi_ble_conn,
    passkey_digits_left,
    passkey_entered,
    open,                \* the connections that have a link
    asking,              \* those whose host waits for a passkey
    typed,               \* history: the digits typed since the last request
    accepted             \* the passkey that the last step gave a waiting host

connVars == <<quazi_ble_conn, open>>
typedVars == <<passkey_digits_left, passkey_entered>>
passkeyVars == <<connVars, typedVars, asking, typed, accepted>>

NoPasskey == [conn |-> NULL, passkey |-> 0, typed |-> <<>>]

PasskeyInit ==
    /\ quazi_ble_conn = NULL /\ open = {}
    /\ passkey_digits_left = 0 /\ passkey_entered = 0
    /\ asking = {}
    /\ typed = <<>> /\ accepted = NoPasskey

\* connected
Connected(c) ==
    /\ quazi_ble_conn = NULL /\ c \notin open
    /\ quazi_ble_conn' = c /\ open' = open \cup {c}
    /\ accepted' = NoPasskey
    /\ UNCHANGED <<typedVars, asking, typed>>

\* disconnected
Disconnected(c) ==
    /\ c \in open
    /\ open' = open \ {c} /\ asking' = asking \ {c}
    /\ quazi_ble_conn' = IF quazi_ble_conn = c THEN NULL ELSE quazi_ble_conn
    /\ accepted' = NoPasskey
    /\ UNCHANGED <<typedVars, typed>>

\* start_directed_adv or start_pairing_adv; the link may still be closing.
DropConn ==
    /\ quazi_ble_conn # NULL
    /\ quazi_ble_conn' = NULL
    /\ accepted' = NoPasskey
    /\ UNCHANGED <<open, typedVars, asking, typed>>

\* Mutant: the digits typed before stay.
EntryKeepsDigits == passkey_digits_left' = PasskeyDigits /\ UNCHANGED passkey_entered

StartEntry == passkey_entered' = 0 /\ passkey_digits_left' = PasskeyDigits

\* auth_passkey_entry: the host of c shows a passkey.
PasskeyEntry(c) ==
    /\ c \in open \ asking
    /\ StartEntry
    /\ asking' = asking \cup {c}
    /\ typed' = <<>>
    /\ accepted' = NoPasskey
    /\ UNCHANGED connVars

\* auth_cancel and pairing_failed: nothing is done about the digits.
Cancel(c) ==
    /\ c \in asking
    /\ asking' = asking \ {c}
    /\ accepted' = NoPasskey
    /\ UNCHANGED <<connVars, typedVars, typed>>

\* bt_conn_auth_passkey_entry fails (-EINVAL) for a host that does not wait.
GivePasskey(passkey) ==
    IF quazi_ble_conn \in asking
    THEN /\ asking' = asking \ {quazi_ble_conn}
         /\ accepted' = [conn |-> quazi_ble_conn, passkey |-> passkey, typed |-> typed']
    ELSE accepted' = NoPasskey /\ UNCHANGED asking

\* Mutant: the last digit is given away with the next one.
CountsDownLate == passkey_digits_left = 0

IsLastDigit == passkey_digits_left = 1

\* quazi_ble_passkey_digit, on the press of a digit key.
Digit(digit) ==
    /\ typed' = IF Len(typed) < PasskeyDigits THEN Append(typed, digit) ELSE typed
    /\ IF quazi_ble_conn # NULL /\ passkey_digits_left > 0
       THEN LET passkey == passkey_entered * 10 + digit
            IN  /\ passkey_digits_left' = passkey_digits_left - 1
                /\ IF IsLastDigit
                   THEN passkey_entered' = 0 /\ GivePasskey(passkey)
                   ELSE /\ passkey_entered' = passkey /\ accepted' = NoPasskey
                        /\ UNCHANGED asking
       ELSE accepted' = NoPasskey /\ UNCHANGED <<typedVars, asking>>
    /\ UNCHANGED connVars

PasskeyNext ==
    \/ \E c \in Conns : Connected(c) \/ Disconnected(c) \/ PasskeyEntry(c) \/ Cancel(c)
    \/ DropConn
    \/ \E digit \in Digits : Digit(digit)

-----------------------------------------------------------------------------
PasskeyTypeOK ==
    /\ open \subseteq Conns /\ quazi_ble_conn \in open \cup {NULL}
    /\ passkey_digits_left \in 0..PasskeyDigits /\ passkey_entered \in Nat
    /\ asking \subseteq open
    /\ typed \in Seq(Digits) /\ Len(typed) <= PasskeyDigits
    /\ accepted \in [conn : Conns \cup {NULL}, passkey : Nat, typed : Seq(Digits)]

\* The number that the digits make, as the user reads them.
Number(digits) ==
    LET number[n \in 0..Len(digits)] ==
            IF n = 0 THEN 0 ELSE number[n - 1] * 10 + digits[n]
    IN  number[Len(digits)]

(* A passkey that a waiting host is given is the one the user has typed    *)
(* since the last request: nothing of an entry that was cancelled or cut   *)
(* off by a lost link is left in it, and no digit is missing.              *)
PasskeyIsTyped ==
    accepted # NoPasskey =>
        /\ Len(accepted.typed) = PasskeyDigits
        /\ accepted.passkey = Number(accepted.typed)

(* The host of the current connection does not wait on after all digits    *)
(* of its passkey have been typed, whatever was typed before it asked.     *)
PasskeyIsGiven == quazi_ble_conn \in asking => Len(typed) < PasskeyDigits
=============================================================================
