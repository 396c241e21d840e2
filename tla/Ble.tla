-------------------------------- MODULE Ble ---------------------------------
(***************************************************************************)
(* The Bluetooth connection manager: ble.c, with the profile selection of  *)
(* profile.c that calls it.                                                *)
(*                                                                         *)
(* Who runs: the system work queue (disconnect_work, unpair_work,          *)
(* start_directed_adv_work, start_pairing_adv_work, stop_adv_work), the    *)
(* callbacks of the Bluetooth host (connected, disconnected,               *)
(* security_changed, pairing_complete, pairing_failed), and the calls of   *)
(* profile.c, which run in other works of the same queue (key events, idle *)
(* transitions).                                                           *)
(*                                                                         *)
(* The Bluetooth host and its connection objects are not part of the       *)
(* repository; the operators of the section External say what ble.c relies *)
(* on.  bt_le_adv_start blocks: the work thread waits in it (work_pc) while*)
(* callbacks run, and the assignments after it are a step of their own.    *)
(***************************************************************************)
EXTENDS Integers, SysWorkQ

CONSTANTS
    Profiles,       \* identities 1 .. CONFIG_BT_ID_MAX - 1
    Peers,          \* addresses of hosts
    Conns,          \* connection objects, CONFIG_BT_MAX_CONN of them
    NULL,           \* no connection object
    MaxPaired,      \* CONFIG_BT_MAX_PAIRED
    StoredBonds,    \* the bonds loaded from flash, <<identity, peer>>
    PairingTicks    \* 180 s, in ticks

ASSUME BleAssumption ==
    /\ Profiles \subseteq Nat \ {0}
    /\ 1 \in Profiles
    /\ NULL \notin Conns
    /\ MaxPaired \in Nat
    /\ StoredBonds \subseteq Profiles \X Peers
    /\ PairingTicks \in Nat \ {0}

VARIABLES
    queue,                          \* the system work queue
    work_pc,                        \* the adv work that is blocked in bt_le_adv_start
    quazi_ble_conn, quazi_ble_link_established,
    connect_id, unpair_id, pair_id,
    advertising_active,
    stop_adv_delay,                 \* ticks left of stop_adv_work's timeout, 0: none
    selected_profile,
    adv,                            \* external: the advertising on the air
    link,                           \* external: the connection objects
    refs,                           \* external: references ble.c holds on each
    bonds                           \* external: stored bonds, <<identity, peer>>

idVars == <<connect_id, unpair_id, pair_id, selected_profile>>
connVars == <<quazi_ble_conn, quazi_ble_link_established, refs>>
advVars == <<advertising_active, adv, stop_adv_delay>>
vars == <<queue, work_pc, connVars, idVars, advVars, link, bonds>>

BleWorks == {"disconnect", "unpair", "directed_adv", "pairing_adv", "stop_adv"}
Ids == Profiles \cup {0}

NoAdv == [kind |-> "none"]
DirectedAdv == [kind : {"directed"}, id : Ids, peer : Peers]
PairingAdv == [kind : {"pairing"}, id : Ids, age : 0 .. PairingTicks]

NoLink == [state |-> "free"]
Links == [state : {"up", "closing"}, id : Ids, peer : Peers, enc : BOOLEAN, pairing : BOOLEAN]

QuaziBleIsActive == quazi_ble_conn # NULL \/ advertising_active

(* The work thread waits in bt_le_adv_start. *)
Blocked == work_pc \in {"directed_adv", "pairing_adv"}

Take(w) == work_pc = "idle" /\ Runs(queue, w)

Init ==
    /\ queue = <<>>
    /\ work_pc = "idle"
    /\ quazi_ble_conn = NULL
    /\ quazi_ble_link_established = FALSE
    /\ connect_id = 0 /\ unpair_id = 0 /\ pair_id = 0
    /\ advertising_active = FALSE
    /\ stop_adv_delay = 0
    /\ selected_profile \in Profiles
    /\ adv = NoAdv
    /\ link = [c \in Conns |-> NoLink]
    /\ refs = [c \in Conns |-> 0]
    /\ bonds = StoredBonds

-----------------------------------------------------------------------------
(* External: the Bluetooth host *)

Free(c) == link[c].state = "free" /\ refs[c] = 0
Up(c) == link[c].state = "up"
Alive(c) == link[c].state # "free"
Linked(id, p) == \E c \in Conns : Alive(c) /\ link[c].id = id /\ link[c].peer = p

(* bt_conn_disconnect on the links of S; the callback disconnected comes   *)
(* later.                                                                  *)
Closing(S) == [c \in Conns |-> IF c \in S /\ Up(c)
                               THEN [link[c] EXCEPT !.state = "closing"] ELSE link[c]]

(* bt_le_adv_start fails if an advertiser is active or no connection       *)
(* object is free.                                                         *)
CanAdvertise == adv = NoAdv /\ \E c \in Conns : Free(c)

(* bt_unpair of the bonds in S: their keys go, their links are closed.     *)
Unpair(S) ==
    /\ bonds' = bonds \ S
    /\ link' = Closing({c \in Conns : Alive(c) /\ <<link[c].id, link[c].peer>> \in bonds \cap S})

-----------------------------------------------------------------------------
(* ble.c: the works *)

(* Mutant: the controller is not told. *)
DoAdvStopFlag == advertising_active' = FALSE /\ UNCHANGED adv

(* do_adv_stop *)
DoAdvStop == advertising_active' = FALSE /\ adv' = NoAdv

(* Mutants of DropConn: the reference is kept; only an encrypted link is   *)
(* forgotten.                                                              *)
DropConnKeepRef ==
    /\ quazi_ble_conn' = NULL
    /\ quazi_ble_link_established' = FALSE
    /\ UNCHANGED refs
DropConnEncrypted ==
    IF quazi_ble_link_established /\ quazi_ble_conn # NULL
    THEN /\ quazi_ble_conn' = NULL
         /\ quazi_ble_link_established' = FALSE
         /\ refs' = [refs EXCEPT ![quazi_ble_conn] = @ - 1]
    ELSE UNCHANGED connVars

(* The first lines of both start functions: the current connection is      *)
(* forgotten, whatever its state.                                          *)
DropConn ==
    /\ quazi_ble_conn' = NULL
    /\ refs' = IF quazi_ble_conn = NULL THEN refs
               ELSE [refs EXCEPT ![quazi_ble_conn] = @ - 1]
    /\ quazi_ble_link_established' =
          (quazi_ble_link_established /\ quazi_ble_conn = NULL)

(* start_directed_adv up to bt_le_adv_start; the address is that of the    *)
(* last bond of connect_id that bt_foreach_bond visits.  A connection      *)
(* object for the same identity and peer makes bt_le_adv_start fail.       *)
StartDirectedAdv ==
    /\ Take("directed_adv")
    /\ queue' = Tail(queue)
    /\ DropConn
    /\ LET hosts == {p \in Peers : <<connect_id, p>> \in bonds}
       IN  \/ /\ hosts = {}
              /\ UNCHANGED <<adv, work_pc>>
           \/ \E p \in hosts :
                 IF CanAdvertise /\ ~Linked(connect_id, p)
                 THEN /\ adv' = [kind |-> "directed", id |-> connect_id, peer |-> p]
                      /\ work_pc' = "directed_adv"
                 ELSE UNCHANGED <<adv, work_pc>>
    /\ UNCHANGED <<idVars, advertising_active, stop_adv_delay, link, bonds>>

(* start_pairing_adv up to bt_le_adv_start. *)
StartPairingAdv ==
    /\ Take("pairing_adv")
    /\ queue' = Tail(queue)
    /\ DropConn
    /\ IF CanAdvertise
       THEN /\ adv' = [kind |-> "pairing", id |-> pair_id, age |-> 0]
            /\ work_pc' = "pairing_adv"
       ELSE UNCHANGED <<adv, work_pc>>
    /\ UNCHANGED <<idVars, advertising_active, stop_adv_delay, link, bonds>>

(* Mutant: nothing is scheduled. *)
ScheduleNothing == stop_adv_delay

(* k_work_schedule(&stop_adv_work, 180 s) leaves a timeout that is already *)
(* running, or a stop_adv_work already queued, as it is.                   *)
ScheduleStop ==
    IF stop_adv_delay = 0 /\ ~Contains(queue, "stop_adv") THEN PairingTicks ELSE stop_adv_delay

(* The rest of start_directed_adv and start_pairing_adv, once              *)
(* bt_le_adv_start has returned.                                           *)
AdvStarted ==
    /\ Blocked
    /\ work_pc' = "idle"
    /\ advertising_active' = TRUE
    /\ stop_adv_delay' = IF work_pc = "pairing_adv" THEN ScheduleStop ELSE stop_adv_delay
    /\ UNCHANGED <<queue, connVars, idVars, adv, link, bonds>>

(* disconnect, with disconnect_conn for every connection object. *)
Disconnect ==
    /\ Take("disconnect")
    /\ queue' = Tail(queue)
    /\ DoAdvStop
    /\ link' = Closing(Conns)
    /\ UNCHANGED <<work_pc, connVars, idVars, stop_adv_delay, bonds>>

(* unpair *)
UnpairWork ==
    /\ Take("unpair")
    /\ queue' = Tail(queue)
    /\ Unpair({unpair_id} \X Peers)
    /\ UNCHANGED <<work_pc, connVars, idVars, advVars>>

(* stop_adv *)
StopAdv ==
    /\ Take("stop_adv")
    /\ queue' = Tail(queue)
    /\ DoAdvStop
    /\ UNCHANGED <<work_pc, connVars, idVars, stop_adv_delay, link, bonds>>

-----------------------------------------------------------------------------
(* ble.c: the calls *)

(* The pattern of quazi_ble_connect, _pair and _unpair: disconnect first,  *)
(* unless the work w is pending.  (A running w blocks the caller too.)     *)
DisconnectThen(q, w) ==
    IF Contains(q, w) THEN q ELSE Submit(Submit(q, "disconnect"), w)

(* Mutant: an identity is not called while another one is. *)
ConnectQueueIfQuiet(identity, q) ==
    IF quazi_ble_conn = NULL /\ ~advertising_active
    THEN DisconnectThen(q, "directed_adv") ELSE q

(* The queue q after quazi_ble_connect(identity), _pair, _unpair and       *)
(* _disconnect.                                                            *)
ConnectQueue(identity, q) ==
    IF quazi_ble_conn = NULL \/ identity # connect_id
    THEN DisconnectThen(q, "directed_adv") ELSE q
PairQueue(q) == DisconnectThen(q, "pairing_adv")
UnpairQueue(q) == DisconnectThen(q, "unpair")
DisconnectQueue(q) == Submit(q, "disconnect")

(* The identity each call leaves for its work.  (A quazi_ble_connect that  *)
(* does nothing was called with connect_id itself.)                        *)
SetConnectId(identity) == connect_id' = identity /\ UNCHANGED <<pair_id, unpair_id>>
SetPairId(identity) == pair_id' = identity /\ UNCHANGED <<connect_id, unpair_id>>
SetUnpairId(identity) == unpair_id' = identity /\ UNCHANGED <<connect_id, pair_id>>

(* What no call changes. *)
NoCallVars == <<connVars, advVars, link, bonds>>

(* The calls come from other works: none of ble.c's is running. *)
Call == work_pc = "idle" /\ UNCHANGED <<work_pc, NoCallVars>>

(* The release of the key BT_<p>: quazi_profile_select, then               *)
(* quazi_profile_connect after a tap, quazi_profile_pair after a hold.     *)
TapProfile(p) ==
    Call /\ selected_profile' = p /\ SetConnectId(p) /\ queue' = ConnectQueue(p, queue)
HoldProfile(p) ==
    Call /\ selected_profile' = p /\ SetPairId(p) /\ queue' = PairQueue(queue)

(* BT_CLEAR held: quazi_profile_clear. *)
HoldClear ==
    /\ Call /\ UNCHANGED selected_profile
    /\ SetUnpairId(selected_profile)
    /\ queue' = UnpairQueue(queue)

(* leave_idle: quazi_profile_leave_idle. *)
ProfileLeaveIdle ==
    /\ Call /\ UNCHANGED selected_profile
    /\ SetConnectId(selected_profile)
    /\ queue' = ConnectQueue(selected_profile, queue)

(* enter_idle: quazi_profile_enter_idle, quazi_ble_disconnect. *)
ProfileEnterIdle == Call /\ UNCHANGED idVars /\ queue' = DisconnectQueue(queue)

-----------------------------------------------------------------------------
(* ble.c: the callbacks.  Where one calls quazi_idle_enter(IDLE_DISCONN),  *)
(* after is the queue that this call leaves behind.                        *)

(* The queue after cancelling the delayable work stop_adv_work. *)
StopCancelled == Cancel(queue, "stop_adv")

(* connected, without an error: a host answers the advertising, which      *)
(* bt_le_adv_stop finds already stopped.                                   *)
Connected(c, p) ==
    /\ adv # NoAdv /\ Free(c)
    /\ adv.kind = "directed" => p = adv.peer
    /\ ~Linked(adv.id, p)
    /\ DoAdvStop
    /\ stop_adv_delay' = 0
    /\ queue' = StopCancelled
    /\ link' = [link EXCEPT ![c] = [state |-> "up", id |-> adv.id, peer |-> p,
                                    enc |-> FALSE, pairing |-> FALSE]]
    /\ refs' = [refs EXCEPT ![c] = @ + 1]
    /\ quazi_ble_conn' = c
    /\ UNCHANGED <<work_pc, quazi_ble_link_established, idVars, bonds>>

(* connected, with an error: directed advertising has ended unanswered,    *)
(* 1.28 s after its start, when bt_le_adv_start has long returned.         *)
ConnectFailed(after) ==
    /\ adv.kind = "directed" /\ ~Blocked
    /\ DoAdvStop
    /\ stop_adv_delay' = 0
    /\ queue' = after
    /\ UNCHANGED <<work_pc, connVars, idVars, link, bonds>>

(* Mutants of IsCurrent: every connection is taken for the current one; an *)
(* unencrypted one never is.                                               *)
AnyIsCurrent(c) == TRUE
EncryptedIsCurrent(c) == quazi_ble_conn = c /\ quazi_ble_link_established

(* disconnected is about the current connection. *)
IsCurrent(c) == quazi_ble_conn = c

(* disconnected, which the host calls in the system work queue; timeout:   *)
(* the reason is BT_HCI_ERR_CONN_TIMEOUT.                                  *)
Disconnected(c, timeout, after) ==
    /\ Alive(c) /\ work_pc = "idle"
    /\ link' = [link EXCEPT ![c] = NoLink]
    /\ IF IsCurrent(c)
       THEN /\ refs' = [refs EXCEPT ![c] = @ - 1]
            /\ quazi_ble_conn' = NULL
            /\ quazi_ble_link_established' = FALSE
            /\ queue' = IF timeout THEN Submit(queue, "directed_adv") ELSE after
       ELSE UNCHANGED <<connVars, queue>>
    /\ UNCHANGED <<work_pc, idVars, advVars, bonds>>

(* security_changed, without an error: the link is encrypted, with the     *)
(* keys of its bond or with new ones, for which pairing_complete follows.  *)
(* It may come while the link is being closed.                             *)
SecurityChanged(c) ==
    /\ Alive(c) /\ ~link[c].enc
    /\ link' = [link EXCEPT ![c].enc = TRUE,
                            ![c].pairing = (<<link[c].id, link[c].peer>> \notin bonds)]
    /\ quazi_ble_link_established' = TRUE
    /\ UNCHANGED <<queue, work_pc, quazi_ble_conn, refs, idVars, advVars, bonds>>

(* security_changed with an error, or pairing_failed. *)
SecurityFailed(c) ==
    /\ Up(c)
    /\ link' = Closing({c})
    /\ UNCHANGED <<queue, work_pc, connVars, idVars, advVars, bonds>>

(* pairing_complete: if bonded, the host has stored the bond of the link;  *)
(* unpair_other is called for each bond of the link's identity, and        *)
(* unpairs the address (and closes its link) for the identity unpair_id.   *)
PairingComplete(c, bonded) ==
    LET id == link[c].id
        stored == IF bonded THEN bonds \cup {<<id, link[c].peer>>} ELSE bonds
        others == {p \in Peers \ {link[c].peer} : <<id, p>> \in stored}
        gone == {unpair_id} \X others
    IN
    /\ Alive(c) /\ link[c].pairing
    /\ bonded => Cardinality(stored) <= MaxPaired
    /\ bonds' = stored \ gone
    /\ link' = [Closing({d \in Conns : Alive(d) /\ <<link[d].id, link[d].peer>> \in gone})
                   EXCEPT ![c].pairing = FALSE]
    /\ UNCHANGED <<queue, work_pc, connVars, idVars, advVars>>

(* Time: the timeout of stop_adv_work. *)
Tick ==
    /\ stop_adv_delay > 0
    /\ stop_adv_delay' = stop_adv_delay - 1
    /\ queue' = IF stop_adv_delay = 1 THEN Submit(queue, "stop_adv") ELSE queue
    /\ adv' = IF adv.kind = "pairing" /\ adv.age < PairingTicks
              THEN [adv EXCEPT !.age = @ + 1] ELSE adv
    /\ UNCHANGED <<work_pc, connVars, idVars, advertising_active, link, bonds>>

-----------------------------------------------------------------------------
WorkThread ==
    StartDirectedAdv \/ StartPairingAdv \/ AdvStarted \/ Disconnect \/ UnpairWork \/ StopAdv

Calls ==
    \/ \E p \in Profiles : TapProfile(p) \/ HoldProfile(p)
    \/ HoldClear
    \/ ProfileLeaveIdle
    \/ ProfileEnterIdle

(* What quazi_idle_enter submits is not in this module's queue. *)
Callbacks ==
    \/ \E c \in Conns :
          \/ \E p \in Peers : Connected(c, p)
          \/ \E timeout \in BOOLEAN : Disconnected(c, timeout, queue)
          \/ SecurityChanged(c)
          \/ SecurityFailed(c)
          \/ \E bonded \in BOOLEAN : PairingComplete(c, bonded)
    \/ ConnectFailed(StopCancelled)

Next == WorkThread \/ Calls \/ Callbacks \/ Tick

Spec == Init /\ [][Next]_vars

-----------------------------------------------------------------------------
TypeOK ==
    /\ queue \in Seq(BleWorks)
    /\ work_pc \in {"idle", "directed_adv", "pairing_adv"}
    /\ quazi_ble_conn \in Conns \cup {NULL}
    /\ quazi_ble_link_established \in BOOLEAN
    /\ connect_id \in Ids /\ unpair_id \in Ids /\ pair_id \in Ids
    /\ advertising_active \in BOOLEAN
    /\ stop_adv_delay \in 0 .. PairingTicks
    /\ selected_profile \in Profiles
    /\ adv \in DirectedAdv \cup PairingAdv \cup {NoAdv}
    /\ link \in [Conns -> Links \cup {NoLink}]
    /\ refs \in [Conns -> Nat]
    /\ bonds \subseteq Ids \X Peers

(* ble.c holds exactly one reference on its current connection and none on *)
(* any other object, in every order of advertising starts, connections and *)
(* disconnections: the BT_MAX_CONN objects do not leak, and no object is   *)
(* released while quazi_ble_conn points to it.                             *)
RefsBalanced == \A c \in Conns : refs[c] = IF quazi_ble_conn = c THEN 1 ELSE 0

(* quazi_ble_conn is never a dead handle: the connection that the HID      *)
(* service and the passkey entry use has a link.                           *)
ConnHasLink == quazi_ble_conn # NULL => Alive(quazi_ble_conn)

(* While the keyboard advertises it has no current connection, so that     *)
(* connected never overwrites a quazi_ble_conn that holds a reference.     *)
AdvertisesAlone == adv # NoAdv => quazi_ble_conn = NULL

(* An advertising on the air counts as activity (quazi_ble_is_active), so  *)
(* that the idle check does not take the keyboard for disconnected.        *)
AdvertisingIsActive == adv # NoAdv /\ ~Blocked => advertising_active

(* The host that directed advertising calls is the one asked for last, or  *)
(* a restart for that one is queued: a profile switch while advertising is *)
(* not lost.                                                               *)
CallsLastRequested ==
    adv.kind = "directed" => adv.id = connect_id \/ Contains(queue, "directed_adv")

(* The current connection is one of the two asked for last, the host to    *)
(* connect to or the one to pair with, or the start that replaces it is    *)
(* queued: an answer to an older advertising does not keep the keyboard on *)
(* a profile that nobody asks for any more (ble.c:320, 340).               *)
ConnIsRequested ==
    quazi_ble_conn # NULL =>
        \/ link[quazi_ble_conn].id \in {connect_id, pair_id}
        \/ Contains(queue, "directed_adv") \/ Contains(queue, "pairing_adv")

(* The comment of quazi_ble_link_established (ble.c:38): "An encrypted     *)
(* link has been established, ready to send notifications to".             *)
EstablishedIsEncrypted ==
    quazi_ble_link_established => quazi_ble_conn # NULL /\ link[quazi_ble_conn].enc

(* One bond per identity: the warning of get_bonded_addr_helper            *)
(* (ble.c:204), "Multiple bonds stored for id %d", is not met.             *)
OneBondPerId == \A a, b \in bonds : a[1] = b[1] => a = b

(* A pairing advertising always has its end before it, no later than 180 s *)
(* after its start (ble.c:251): the timeout of stop_adv_work is neither    *)
(* lost to a k_work_schedule that finds it running nor to the cancelling   *)
(* for another advertising.                                                *)
PairingAdvIsTimed ==
    adv.kind = "pairing" /\ ~Blocked =>
        \/ stop_adv_delay > 0 /\ adv.age + stop_adv_delay <= PairingTicks
        \/ Contains(queue, "stop_adv")
=============================================================================
