------------------------------ MODULE BleProofs -----------------------------
(***************************************************************************)
(* Theorems about Ble, for every number of profiles, hosts and connection  *)
(* objects.                                                                *)
(***************************************************************************)
EXTENDS Ble, SysWorkQProofs

(* The parts of TypeOK. *)
TypeWork == work_pc \in {"idle", "directed_adv", "pairing_adv"}

TypeConn ==
    /\ quazi_ble_conn \in Conns \cup {NULL}
    /\ quazi_ble_link_established \in BOOLEAN
    /\ refs \in [Conns -> Nat]

TypeIds ==
    /\ connect_id \in Ids /\ unpair_id \in Ids /\ pair_id \in Ids
    /\ selected_profile \in Profiles

TypeAdv ==
    /\ advertising_active \in BOOLEAN
    /\ stop_adv_delay \in 0 .. PairingTicks
    /\ adv \in DirectedAdv \cup PairingAdv \cup {NoAdv}

TypeLink == link \in [Conns -> Links \cup {NoLink}]

TypeBonds == bonds \subseteq Ids \X Peers

(* While directed advertising is on the air, a start_directed_adv_work in  *)
(* the queue waits behind a disconnect_work, which ends that advertising   *)
(* first; and the work is queued once.                                     *)
RestartsBehind ==
    /\ Once(queue, "directed_adv")
    /\ adv.kind = "directed" => Behind(queue, "directed_adv", "disconnect")

IInv ==
    /\ TypeOK
    /\ RefsBalanced /\ ConnHasLink /\ AdvertisesAlone /\ AdvertisingIsActive
    /\ RestartsBehind /\ CallsLastRequested

-----------------------------------------------------------------------------
(* The queue *)

(* q becomes r without changing what the queue says about                  *)
(* start_directed_adv_work.                                                *)
Keeps(q, r) ==
    /\ r \in Seq(BleWorks)
    /\ Once(q, "directed_adv") => Once(r, "directed_adv")
    /\ Behind(q, "directed_adv", "disconnect") => Behind(r, "directed_adv", "disconnect")
    /\ Contains(q, "directed_adv") => Contains(r, "directed_adv")

\* Submitting another work.
LEMMA SubmitKeeps ==
    ASSUME NEW q \in Seq(BleWorks), NEW u \in BleWorks, u # "directed_adv"
    PROVE  Keeps(q, Submit(q, u))
  BY SubmitType, SubmitOnce, SubmitBehind, SubmitContains DEF Keeps

\* Taking a work that is neither of the two.
LEMMA TailKeeps ==
    ASSUME NEW q \in Seq(BleWorks), NEW u, Runs(q, u), u \notin {"directed_adv", "disconnect"}
    PROVE  Keeps(q, Tail(q))
  <1>1. q # <<>>
    BY DEF Runs
  <1>2. Tail(q) \in Seq(BleWorks)
    BY RunsType
  <1>3. Once(q, "directed_adv") => Once(Tail(q), "directed_adv")
    BY <1>1, TailOnce
  <1>4. Behind(q, "directed_adv", "disconnect") => Behind(Tail(q), "directed_adv", "disconnect")
    BY TailBehind
  <1>5. Contains(q, "directed_adv") => Contains(Tail(q), "directed_adv")
    BY TailContains
  <1> QED
    BY <1>2, <1>3, <1>4, <1>5 DEF Keeps

\* The calls of ble.c, which submit disconnect_work and then their own work.
LEMMA DisconnectThenKeeps ==
    ASSUME NEW q \in Seq(BleWorks), NEW w \in BleWorks, w # "disconnect"
    PROVE  Keeps(q, DisconnectThen(q, w)) /\ Contains(DisconnectThen(q, w), w)
  <1>1. CASE Contains(q, w)
    BY <1>1 DEF DisconnectThen, Keeps
  <1>2. CASE ~Contains(q, w)
    <2> DEFINE r == Submit(q, "disconnect")
    <2>1. "disconnect" \in BleWorks
      BY DEF BleWorks
    <2>2. Keeps(q, r) /\ Contains(r, "disconnect")
      BY <2>1, SubmitKeeps, SubmitContains
    <2> HIDE DEF r
    <2>3. r \in Seq(BleWorks)
      BY <2>2 DEF Keeps
    <2>4. DisconnectThen(q, w) = Submit(r, w)
      BY <1>2 DEF DisconnectThen, r
    <2>5. Contains(Submit(r, w), w)
      BY <2>3, SubmitContains
    <2>6. Keeps(r, Submit(r, w))
      <3>1. CASE w # "directed_adv"
        BY <2>3, <3>1, SubmitKeeps
      <3>2. CASE w = "directed_adv"
        <4>1. Submit(r, w) \in Seq(BleWorks)
          BY <2>3, SubmitType
        <4>2. Once(r, w) => Once(Submit(r, w), w)
          BY <2>3, SubmitOnce
        <4>3. Behind(r, w, "disconnect") => Behind(Submit(r, w), w, "disconnect")
          BY <2>2, <2>3, SubmitItBehind
        <4> QED
          BY <2>5, <3>2, <4>1, <4>2, <4>3 DEF Keeps
      <3> QED
        BY <3>1, <3>2
    <2> QED
      BY <2>2, <2>4, <2>5, <2>6 DEF Keeps
  <1> QED
    BY <1>1, <1>2

\* A step that keeps the queue in this sense, the advertising and the
\* identity asked for keeps the two invariants about them.
LEMMA CallingKept ==
    ASSUME IInv, Keeps(queue, queue'), UNCHANGED <<adv, connect_id>>
    PROVE  RestartsBehind' /\ CallsLastRequested'
  BY DEF IInv, RestartsBehind, CallsLastRequested, Keeps

\* So does one that leaves no directed advertising.
LEMMA NotCalling ==
    ASSUME Once(queue', "directed_adv"), adv'.kind # "directed"
    PROVE  RestartsBehind' /\ CallsLastRequested'
  BY DEF RestartsBehind, CallsLastRequested

-----------------------------------------------------------------------------
(* The connection objects *)

\* A live object is a link.
LEMMA AliveIsLink ==
    ASSUME TypeOK, NEW c \in Conns
    PROVE  Alive(c) <=> link[c] \in Links
  BY DEF TypeOK, Alive, Links, NoLink

\* Disconnecting keeps the objects, and which of them live.
LEMMA ClosingIs ==
    ASSUME TypeOK, NEW S
    PROVE  /\ Closing(S) \in [Conns -> Links \cup {NoLink}]
           /\ \A c \in Conns : Alive(c) => Closing(S)[c].state # "free"
  <1>1. ASSUME NEW c \in Conns, Up(c)
        PROVE  /\ [link[c] EXCEPT !.state = "closing"] \in Links
               /\ [link[c] EXCEPT !.state = "closing"].state # "free"
    <2>1. link[c] \in Links
      BY <1>1, AliveIsLink DEF Up, Alive
    <2> QED
      BY <2>1 DEF Links
  <1> QED
    BY <1>1 DEF Closing, TypeOK, Alive, Up

-----------------------------------------------------------------------------
(* The steps *)

\* The parts of the invariant give the invariant in the next state.
LEMMA Together ==
    ASSUME queue' \in Seq(BleWorks), TypeWork', TypeConn', TypeIds', TypeAdv', TypeLink',
           TypeBonds', RefsBalanced', ConnHasLink', AdvertisesAlone', AdvertisingIsActive',
           RestartsBehind', CallsLastRequested'
    PROVE  IInv'
  BY DEF IInv, TypeOK, TypeWork, TypeConn, TypeIds, TypeAdv, TypeLink, TypeBonds

\* The parts that a step leaves alone.
LEMMA Kept ==
    ASSUME IInv
    PROVE  /\ UNCHANGED work_pc => TypeWork'
           /\ UNCHANGED connVars => TypeConn' /\ RefsBalanced'
           /\ UNCHANGED idVars => TypeIds'
           /\ UNCHANGED advVars => TypeAdv'
           /\ UNCHANGED link => TypeLink'
           /\ UNCHANGED bonds => TypeBonds'
           /\ UNCHANGED <<quazi_ble_conn, link>> => ConnHasLink'
           /\ UNCHANGED <<quazi_ble_conn, adv>> => AdvertisesAlone'
           /\ UNCHANGED <<work_pc, advertising_active, adv>> => AdvertisingIsActive'
  <1> USE DEF IInv, TypeOK
  <1>1. ASSUME UNCHANGED work_pc PROVE TypeWork'
    BY <1>1 DEF TypeWork
  <1>2. ASSUME UNCHANGED connVars PROVE TypeConn' /\ RefsBalanced'
    BY <1>2 DEF connVars, TypeConn, RefsBalanced
  <1>3. ASSUME UNCHANGED idVars PROVE TypeIds'
    BY <1>3 DEF idVars, TypeIds
  <1>4. ASSUME UNCHANGED advVars PROVE TypeAdv'
    BY <1>4 DEF advVars, TypeAdv
  <1>5. ASSUME UNCHANGED link PROVE TypeLink'
    BY <1>5 DEF TypeLink
  <1>6. ASSUME UNCHANGED bonds PROVE TypeBonds'
    BY <1>6 DEF TypeBonds
  <1>7. ASSUME UNCHANGED <<quazi_ble_conn, link>> PROVE ConnHasLink'
    BY <1>7 DEF ConnHasLink, Alive
  <1>8. ASSUME UNCHANGED <<quazi_ble_conn, adv>> PROVE AdvertisesAlone'
    BY <1>8 DEF AdvertisesAlone
  <1>9. ASSUME UNCHANGED <<work_pc, advertising_active, adv>> PROVE AdvertisingIsActive'
    BY <1>9 DEF AdvertisingIsActive, Blocked
  <1> QED
    BY <1>1, <1>2, <1>3, <1>4, <1>5, <1>6, <1>7, <1>8, <1>9

\* A call or a work that changes nothing but the queue and the identities.
LEMMA OnlyQueue ==
    ASSUME IInv, UNCHANGED <<work_pc, connVars, advVars, link, bonds>>, TypeIds',
           queue' \in Seq(BleWorks), RestartsBehind', CallsLastRequested'
    PROVE  IInv'
  BY Kept, Together DEF connVars, advVars

\* Forgetting the current connection gives its reference back.
LEMMA Dropped ==
    ASSUME IInv, DropConn
    PROVE  TypeConn' /\ RefsBalanced' /\ quazi_ble_conn' = NULL /\ ConnHasLink'
           /\ AdvertisesAlone'
  <1> USE DEF IInv, TypeOK, DropConn
  <1>1. quazi_ble_conn' = NULL
    OBVIOUS
  <1>2. CASE quazi_ble_conn = NULL
    <2>1. refs' = refs
      BY <1>2
    <2>2. \A c \in Conns : refs'[c] = 0
      BY <1>2, <2>1, BleAssumption DEF RefsBalanced
    <2>3. quazi_ble_link_established' \in BOOLEAN
      OBVIOUS
    <2> QED
      BY <1>1, <2>1, <2>2, <2>3, BleAssumption
         DEF TypeConn, RefsBalanced, ConnHasLink, AdvertisesAlone
  <1>3. CASE quazi_ble_conn # NULL
    <2>1. /\ quazi_ble_conn \in Conns
          /\ refs' = [refs EXCEPT ![quazi_ble_conn] = @ - 1]
      BY <1>3
    <2>2. \A c \in Conns : refs[c] = IF quazi_ble_conn = c THEN 1 ELSE 0
      BY DEF RefsBalanced
    <2>3. \A c \in Conns : refs'[c] = 0
      BY <2>1, <2>2
    <2>4. refs' \in [Conns -> Nat]
      BY <2>1, <2>2
    <2>5. quazi_ble_link_established' \in BOOLEAN
      OBVIOUS
    <2> QED
      BY <1>1, <2>3, <2>4, <2>5, BleAssumption
         DEF TypeConn, RefsBalanced, ConnHasLink, AdvertisesAlone
  <1> QED
    BY <1>2, <1>3

\* start_directed_adv keeps the invariant.
LEMMA StartDirectedAdvInv ==
    ASSUME IInv, StartDirectedAdv
    PROVE  IInv'
  <1>1. /\ Runs(queue, "directed_adv") /\ queue' = Tail(queue) /\ work_pc = "idle"
        /\ DropConn
        /\ UNCHANGED <<idVars, advertising_active, stop_adv_delay, link, bonds>>
    BY DEF StartDirectedAdv, Take
  <1>2. queue \in Seq(BleWorks) /\ Once(queue, "directed_adv")
    BY DEF IInv, TypeOK, RestartsBehind
  <1>3. queue' \in Seq(BleWorks)
    BY <1>1, <1>2, RunsType
  <1>4. ~Contains(queue', "directed_adv")
    BY <1>1, <1>2, TailLacks
  <1>5. Once(queue', "directed_adv") /\ Behind(queue', "directed_adv", "disconnect")
    BY <1>4 DEF Once, Behind, Contains
  <1>6. adv.kind # "directed"
    BY <1>1, <1>2, BehindWaits DEF IInv, RestartsBehind
  <1>7. \/ UNCHANGED <<adv, work_pc>>
        \/ /\ \E p \in Peers : adv' = [kind |-> "directed", id |-> connect_id, peer |-> p]
           /\ work_pc' = "directed_adv"
    BY DEF StartDirectedAdv
  <1>8. TypeWork' /\ TypeAdv'
    <2>1. TypeWork'
      BY <1>7 DEF IInv, TypeOK, TypeWork
    <2>2. adv' \in DirectedAdv \cup PairingAdv \cup {NoAdv}
      BY <1>7 DEF IInv, TypeOK, DirectedAdv
    <2> QED
      BY <1>1, <2>1, <2>2 DEF IInv, TypeOK, TypeAdv
  <1>9. AdvertisingIsActive'
    BY <1>1, <1>7 DEF AdvertisingIsActive, Blocked, IInv
  <1>10. RestartsBehind' /\ CallsLastRequested'
    BY <1>1, <1>5, <1>6, <1>7 DEF RestartsBehind, CallsLastRequested, idVars
  <1> QED
    BY <1>1, <1>3, <1>8, <1>9, <1>10, Dropped, Kept, Together DEF idVars

\* start_pairing_adv keeps the invariant.
LEMMA StartPairingAdvInv ==
    ASSUME IInv, StartPairingAdv
    PROVE  IInv'
  <1>1. /\ Runs(queue, "pairing_adv") /\ queue' = Tail(queue) /\ work_pc = "idle"
        /\ DropConn
        /\ UNCHANGED <<idVars, advertising_active, stop_adv_delay, link, bonds>>
    BY DEF StartPairingAdv, Take
  <1>2. Keeps(queue, queue')
    BY <1>1, TailKeeps DEF IInv, TypeOK
  <1>3. \/ UNCHANGED <<adv, work_pc>>
        \/ /\ adv' = [kind |-> "pairing", id |-> pair_id, age |-> 0]
           /\ work_pc' = "pairing_adv"
    BY DEF StartPairingAdv
  <1>4. TypeWork' /\ TypeAdv'
    <2>1. TypeWork'
      BY <1>3 DEF IInv, TypeOK, TypeWork
    <2>2. 0 \in 0 .. PairingTicks
      BY BleAssumption
    <2>3. adv' \in DirectedAdv \cup PairingAdv \cup {NoAdv}
      BY <1>3, <2>2 DEF IInv, TypeOK, PairingAdv
    <2> QED
      BY <1>1, <2>1, <2>3 DEF IInv, TypeOK, TypeAdv
  <1>5. AdvertisingIsActive'
    BY <1>1, <1>3 DEF AdvertisingIsActive, Blocked, IInv
  <1>6. RestartsBehind' /\ CallsLastRequested'
    <2>1. CASE UNCHANGED <<adv, work_pc>>
      BY <1>1, <1>2, <2>1, CallingKept DEF idVars
    <2>2. CASE adv' = [kind |-> "pairing", id |-> pair_id, age |-> 0]
      BY <1>2, <2>2, NotCalling DEF Keeps, IInv, RestartsBehind
    <2> QED
      BY <1>3, <2>1, <2>2
  <1>7. queue' \in Seq(BleWorks)
    BY <1>2 DEF Keeps
  <1> QED
    BY <1>1, <1>4, <1>5, <1>6, <1>7, Dropped, Kept, Together DEF idVars

\* The return from bt_le_adv_start keeps the invariant.
LEMMA AdvStartedInv ==
    ASSUME IInv, AdvStarted
    PROVE  IInv'
  <1>1. TypeWork' /\ AdvertisingIsActive'
    BY DEF AdvStarted, TypeWork, AdvertisingIsActive
  <1>2. TypeAdv'
    <2>1. stop_adv_delay' \in 0 .. PairingTicks
      BY BleAssumption DEF AdvStarted, ScheduleStop, IInv, TypeOK
    <2> QED
      BY <2>1 DEF AdvStarted, IInv, TypeOK, TypeAdv
  <1>3. queue' \in Seq(BleWorks) /\ RestartsBehind' /\ CallsLastRequested'
    BY DEF AdvStarted, idVars, IInv, TypeOK, RestartsBehind, CallsLastRequested
  <1>4. /\ TypeConn' /\ RefsBalanced' /\ TypeIds' /\ TypeLink' /\ TypeBonds'
        /\ ConnHasLink' /\ AdvertisesAlone'
    BY Kept DEF AdvStarted, connVars
  <1> QED
    BY <1>1, <1>2, <1>3, <1>4, Together

\* What do_adv_stop leaves: no advertising, hence nothing to keep about it.
LEMMA Stopped ==
    ASSUME IInv, DoAdvStop, stop_adv_delay' \in 0 .. PairingTicks,
           Once(queue', "directed_adv")
    PROVE  TypeAdv' /\ AdvertisesAlone' /\ AdvertisingIsActive' /\ RestartsBehind'
           /\ CallsLastRequested'
  <1>1. adv'.kind # "directed"
    BY DEF DoAdvStop, NoAdv
  <1>2. TypeAdv' /\ AdvertisesAlone' /\ AdvertisingIsActive'
    BY DEF DoAdvStop, TypeAdv, AdvertisesAlone, AdvertisingIsActive
  <1> QED
    BY <1>1, <1>2, NotCalling

\* disconnect keeps the invariant.
LEMMA DisconnectInv ==
    ASSUME IInv, Disconnect
    PROVE  IInv'
  <1>1. Runs(queue, "disconnect") /\ queue' = Tail(queue)
    BY DEF Disconnect, Take
  <1>2. queue' \in Seq(BleWorks) /\ Once(queue', "directed_adv")
    BY <1>1, RunsType, TailOnce DEF Runs, IInv, TypeOK, RestartsBehind
  <1>3. /\ TypeAdv' /\ AdvertisesAlone' /\ AdvertisingIsActive' /\ RestartsBehind'
        /\ CallsLastRequested'
    BY <1>2, Stopped DEF Disconnect, IInv, TypeOK
  <1>4. TypeLink' /\ ConnHasLink'
    <2>1. link' = Closing(Conns) /\ quazi_ble_conn' = quazi_ble_conn
      BY DEF Disconnect, connVars
    <2> QED
      BY <2>1, ClosingIs DEF TypeLink, ConnHasLink, Alive, IInv, TypeOK
  <1>5. TypeWork' /\ TypeConn' /\ RefsBalanced' /\ TypeIds' /\ TypeBonds'
    BY Kept DEF Disconnect
  <1> QED
    BY <1>2, <1>3, <1>4, <1>5, Together

\* stop_adv keeps the invariant.
LEMMA StopAdvInv ==
    ASSUME IInv, StopAdv
    PROVE  IInv'
  <1>1. Runs(queue, "stop_adv") /\ queue' = Tail(queue)
    BY DEF StopAdv, Take
  <1>2. queue' \in Seq(BleWorks) /\ Once(queue', "directed_adv")
    BY <1>1, RunsType, TailOnce DEF Runs, IInv, TypeOK, RestartsBehind
  <1>3. /\ TypeAdv' /\ AdvertisesAlone' /\ AdvertisingIsActive' /\ RestartsBehind'
        /\ CallsLastRequested'
    BY <1>2, Stopped DEF StopAdv, IInv, TypeOK
  <1>4. /\ TypeWork' /\ TypeConn' /\ RefsBalanced' /\ TypeIds' /\ TypeLink' /\ TypeBonds'
        /\ ConnHasLink'
    BY Kept DEF StopAdv, connVars
  <1> QED
    BY <1>2, <1>3, <1>4, Together

\* unpair keeps the invariant.
LEMMA UnpairInv ==
    ASSUME IInv, UnpairWork
    PROVE  IInv'
  <1>1. Runs(queue, "unpair") /\ queue' = Tail(queue)
    BY DEF UnpairWork, Take
  <1>2. Keeps(queue, queue')
    BY <1>1, TailKeeps DEF IInv, TypeOK
  <1>3. queue' \in Seq(BleWorks) /\ RestartsBehind' /\ CallsLastRequested'
    BY <1>2, CallingKept DEF Keeps, UnpairWork, advVars, idVars
  <1>4. PICK S : link' = Closing(S)
    BY DEF UnpairWork, Unpair
  <1>5. TypeLink' /\ ConnHasLink'
    <2>1. quazi_ble_conn' = quazi_ble_conn
      BY DEF UnpairWork, connVars
    <2> QED
      BY <1>4, <2>1, ClosingIs DEF TypeLink, ConnHasLink, Alive, IInv, TypeOK
  <1>6. TypeBonds'
    BY DEF UnpairWork, Unpair, IInv, TypeOK, TypeBonds
  <1>7. /\ TypeWork' /\ TypeConn' /\ RefsBalanced' /\ TypeIds' /\ TypeAdv'
        /\ AdvertisesAlone' /\ AdvertisingIsActive'
    BY Kept DEF UnpairWork, connVars, advVars
  <1> QED
    BY <1>3, <1>5, <1>6, <1>7, Together

-----------------------------------------------------------------------------
(* The calls *)

\* quazi_ble_connect(p): either p was asked for before, or a start for p is
\* queued.
LEMMA ConnectInv ==
    ASSUME IInv, NEW p \in Profiles, selected_profile' \in Profiles, SetConnectId(p),
           queue' = ConnectQueue(p, queue),
           UNCHANGED <<work_pc, connVars, advVars, link, bonds>>
    PROVE  IInv'
  <1>1. queue \in Seq(BleWorks) /\ "directed_adv" \in BleWorks
    BY DEF IInv, TypeOK, BleWorks
  <1>2. TypeIds'
    BY DEF SetConnectId, IInv, TypeOK, TypeIds, Ids
  <1>3. CASE quazi_ble_conn = NULL \/ p # connect_id
    <2>1. Keeps(queue, queue') /\ Contains(queue', "directed_adv")
      BY <1>1, <1>3, DisconnectThenKeeps DEF ConnectQueue
    <2>2. queue' \in Seq(BleWorks) /\ RestartsBehind' /\ CallsLastRequested'
      BY <2>1 DEF Keeps, IInv, RestartsBehind, CallsLastRequested, advVars
    <2> QED
      BY <1>2, <2>2, OnlyQueue
  <1>4. CASE ~(quazi_ble_conn = NULL \/ p # connect_id)
    <2>1. queue' = queue /\ connect_id' = connect_id
      BY <1>4 DEF ConnectQueue, SetConnectId
    <2>2. RestartsBehind' /\ CallsLastRequested'
      BY <2>1 DEF IInv, RestartsBehind, CallsLastRequested, advVars
    <2> QED
      BY <1>1, <1>2, <2>1, <2>2, OnlyQueue
  <1> QED
    BY <1>3, <1>4

\* The other calls leave connect_id alone.
LEMMA OtherCallInv ==
    ASSUME IInv, TypeIds', connect_id' = connect_id, Keeps(queue, queue'),
           UNCHANGED <<work_pc, connVars, advVars, link, bonds>>
    PROVE  IInv'
  <1>1. UNCHANGED <<adv, connect_id>>
    BY DEF advVars
  <1>2. RestartsBehind' /\ CallsLastRequested' /\ queue' \in Seq(BleWorks)
    BY <1>1, CallingKept DEF Keeps
  <1> QED
    BY <1>2, OnlyQueue

\* Every call of profile.c keeps the invariant.
LEMMA CallsInv ==
    ASSUME IInv, Calls
    PROVE  IInv'
  <1> USE DEF Call, NoCallVars
  <1>1. /\ queue \in Seq(BleWorks)
        /\ {"pairing_adv", "unpair", "disconnect"} \subseteq BleWorks
        /\ TypeIds
    BY DEF IInv, TypeOK, BleWorks, TypeIds
  <1>2. ASSUME NEW p \in Profiles, TapProfile(p) PROVE IInv'
    BY <1>2, ConnectInv DEF TapProfile
  <1>3. ASSUME NEW p \in Profiles, HoldProfile(p) PROVE IInv'
    <2>1. Keeps(queue, queue')
      BY <1>1, <1>3, DisconnectThenKeeps DEF HoldProfile, PairQueue
    <2>2. TypeIds' /\ connect_id' = connect_id
      BY <1>1, <1>3 DEF HoldProfile, SetPairId, TypeIds, Ids
    <2> QED
      BY <1>3, <2>1, <2>2, OtherCallInv DEF HoldProfile
  <1>4. ASSUME HoldClear PROVE IInv'
    <2>1. Keeps(queue, queue')
      BY <1>1, <1>4, DisconnectThenKeeps DEF HoldClear, UnpairQueue
    <2>2. TypeIds' /\ connect_id' = connect_id
      BY <1>1, <1>4 DEF HoldClear, SetUnpairId, TypeIds, Ids
    <2> QED
      BY <1>4, <2>1, <2>2, OtherCallInv DEF HoldClear
  <1>5. ASSUME ProfileLeaveIdle PROVE IInv'
    <2>1. selected_profile \in Profiles
      BY <1>1 DEF TypeIds
    <2> QED
      BY <1>5, <2>1, ConnectInv DEF ProfileLeaveIdle
  <1>6. ASSUME ProfileEnterIdle PROVE IInv'
    <2>1. Keeps(queue, queue')
      BY <1>1, <1>6, SubmitKeeps DEF ProfileEnterIdle, DisconnectQueue
    <2>2. TypeIds' /\ connect_id' = connect_id
      BY <1>1, <1>6 DEF ProfileEnterIdle, idVars, TypeIds
    <2> QED
      BY <1>6, <2>1, <2>2, OtherCallInv DEF ProfileEnterIdle
  <1> QED
    BY <1>2, <1>3, <1>4, <1>5, <1>6 DEF Calls

-----------------------------------------------------------------------------
(* The callbacks *)

\* connected keeps the invariant.
LEMMA ConnectedInv ==
    ASSUME IInv, NEW c \in Conns, NEW p \in Peers, Connected(c, p)
    PROVE  IInv'
  <1>1. adv # NoAdv /\ quazi_ble_conn = NULL
    BY DEF Connected, IInv, AdvertisesAlone
  <1>2. adv.id \in Ids
    BY <1>1 DEF IInv, TypeOK, DirectedAdv, PairingAdv
  <1>3. queue' \in Seq(BleWorks) /\ Once(queue', "directed_adv")
    BY CancelType, CancelOnce DEF Connected, StopCancelled, IInv, TypeOK, RestartsBehind
  <1>4. TypeAdv' /\ AdvertisingIsActive' /\ RestartsBehind' /\ CallsLastRequested'
    BY <1>3, Stopped, BleAssumption DEF Connected
  <1>5. AdvertisesAlone'
    BY DEF Connected, DoAdvStop, AdvertisesAlone
  <1>6. TypeLink' /\ link'[c].state = "up"
    BY <1>2 DEF Connected, IInv, TypeOK, TypeLink, Links
  <1>7. TypeConn' /\ RefsBalanced' /\ ConnHasLink'
    <2>1. \A d \in Conns : refs[d] = 0
      BY <1>1, BleAssumption DEF IInv, RefsBalanced
    <2>2. refs' \in [Conns -> Nat] /\ \A d \in Conns : refs'[d] = IF d = c THEN 1 ELSE 0
      BY <2>1 DEF Connected, IInv, TypeOK
    <2> QED
      BY <1>6, <2>2 DEF Connected, IInv, TypeOK, TypeConn, RefsBalanced, ConnHasLink, Alive
  <1>8. TypeWork' /\ TypeIds' /\ TypeBonds'
    BY Kept DEF Connected
  <1> QED
    BY <1>3, <1>4, <1>5, <1>6, <1>7, <1>8, Together

\* connected with an error keeps the invariant.
LEMMA ConnectFailedInv ==
    ASSUME IInv, ConnectFailed(StopCancelled)
    PROVE  IInv'
  <1>1. queue' = Cancel(queue, "stop_adv")
    BY DEF ConnectFailed, StopCancelled
  <1>2. queue' \in Seq(BleWorks) /\ Once(queue', "directed_adv")
    BY <1>1, CancelType, CancelOnce DEF IInv, TypeOK, RestartsBehind
  <1>3. /\ TypeAdv' /\ AdvertisesAlone' /\ AdvertisingIsActive' /\ RestartsBehind'
        /\ CallsLastRequested'
    BY <1>2, Stopped, BleAssumption DEF ConnectFailed
  <1>4. /\ TypeWork' /\ TypeConn' /\ RefsBalanced' /\ TypeIds' /\ TypeLink' /\ TypeBonds'
        /\ ConnHasLink'
    BY Kept DEF ConnectFailed, connVars
  <1> QED
    BY <1>2, <1>3, <1>4, Together

\* disconnected keeps the invariant.
LEMMA DisconnectedInv ==
    ASSUME IInv, NEW c \in Conns, NEW timeout \in BOOLEAN, Disconnected(c, timeout, queue)
    PROVE  IInv'
  <1>1. TypeLink' /\ \A d \in Conns \ {c} : link'[d] = link[d]
    BY DEF Disconnected, IInv, TypeOK, TypeLink
  <1>2. UNCHANGED <<work_pc, idVars, advVars, bonds>>
    BY DEF Disconnected
  <1>3. CASE IsCurrent(c)
    <2>1. /\ quazi_ble_conn = c /\ c # NULL
          /\ refs' = [refs EXCEPT ![c] = @ - 1]
          /\ quazi_ble_conn' = NULL
          /\ quazi_ble_link_established' = FALSE
          /\ queue' = IF timeout THEN Submit(queue, "directed_adv") ELSE queue
      BY <1>3, BleAssumption DEF Disconnected, IsCurrent
    <2>2. adv = NoAdv
      BY <2>1 DEF IInv, AdvertisesAlone
    <2>3. TypeConn' /\ RefsBalanced' /\ ConnHasLink'
      <3>1. \A d \in Conns : refs[d] = IF d = c THEN 1 ELSE 0
        BY <2>1 DEF IInv, RefsBalanced
      <3>2. refs' \in [Conns -> Nat] /\ \A d \in Conns : refs'[d] = 0
        BY <2>1, <3>1 DEF IInv, TypeOK
      <3> QED
        BY <2>1, <3>2, BleAssumption DEF TypeConn, RefsBalanced, ConnHasLink
    <2>4. AdvertisesAlone'
      BY <2>1 DEF AdvertisesAlone
    <2>5. queue' \in Seq(BleWorks) /\ Once(queue', "directed_adv")
      <3>1. "directed_adv" \in BleWorks
        BY DEF BleWorks
      <3> QED
        BY <2>1, <3>1, SubmitType, SubmitOnce DEF IInv, TypeOK, RestartsBehind
    <2>6. RestartsBehind' /\ CallsLastRequested'
      <3>1. adv'.kind # "directed"
        BY <1>2, <2>2 DEF advVars, NoAdv
      <3> QED
        BY <2>5, <3>1, NotCalling
    <2>7. TypeWork' /\ TypeIds' /\ TypeAdv' /\ TypeBonds' /\ AdvertisingIsActive'
      BY <1>2, Kept DEF advVars
    <2> QED
      BY <1>1, <2>3, <2>4, <2>5, <2>6, <2>7, Together
  <1>4. CASE ~IsCurrent(c)
    <2>1. UNCHANGED <<connVars, queue>>
      BY <1>4 DEF Disconnected
    <2>2. ConnHasLink'
      BY <1>1, <1>4, <2>1 DEF IsCurrent, connVars, IInv, TypeOK, ConnHasLink, Alive
    <2>3. queue' \in Seq(BleWorks) /\ RestartsBehind' /\ CallsLastRequested'
      BY <1>2, <2>1 DEF advVars, idVars, IInv, TypeOK, RestartsBehind, CallsLastRequested
    <2>4. /\ TypeWork' /\ TypeConn' /\ RefsBalanced' /\ TypeIds' /\ TypeAdv' /\ TypeBonds'
          /\ AdvertisesAlone' /\ AdvertisingIsActive'
      BY <1>2, <2>1, Kept DEF advVars, connVars
    <2> QED
      BY <1>1, <2>2, <2>3, <2>4, Together
  <1> QED
    BY <1>3, <1>4

\* A step that changes only links that stay alive, the bonds and the flag
\* of encryption.
LEMMA OnlyLinks ==
    ASSUME IInv, UNCHANGED <<queue, work_pc, quazi_ble_conn, refs, idVars, advVars>>,
           quazi_ble_link_established' \in BOOLEAN, TypeLink', TypeBonds',
           \A c \in Conns : Alive(c) => link'[c].state # "free"
    PROVE  IInv'
  <1>1. TypeConn' /\ RefsBalanced'
    BY DEF IInv, TypeOK, TypeConn, RefsBalanced
  <1>2. ConnHasLink'
    BY DEF IInv, TypeOK, ConnHasLink, Alive
  <1>3. queue' \in Seq(BleWorks) /\ RestartsBehind' /\ CallsLastRequested'
    BY DEF advVars, idVars, IInv, TypeOK, RestartsBehind, CallsLastRequested
  <1>4. TypeWork' /\ TypeIds' /\ TypeAdv' /\ AdvertisesAlone' /\ AdvertisingIsActive'
    BY Kept DEF advVars
  <1> QED
    BY <1>1, <1>2, <1>3, <1>4, Together

\* security_changed and pairing_failed keep the invariant.
LEMMA SecurityInv ==
    ASSUME IInv, NEW c \in Conns, SecurityChanged(c) \/ SecurityFailed(c)
    PROVE  IInv'
  <1>1. CASE SecurityChanged(c)
    <2> DEFINE pairing == <<link[c].id, link[c].peer>> \notin bonds
               new == [link[c] EXCEPT !.enc = TRUE, !.pairing = pairing]
    <2>1. link[c] \in Links
      BY <1>1, AliveIsLink DEF SecurityChanged, IInv
    <2>2. new \in Links /\ new.state # "free"
      <3>1. pairing \in BOOLEAN
        OBVIOUS
      <3> HIDE DEF pairing
      <3> QED
        BY <2>1, <3>1 DEF Links
    <2>3. link' = [link EXCEPT ![c] = new]
      BY <1>1 DEF SecurityChanged
    <2> HIDE DEF new
    <2>4. TypeLink' /\ \A d \in Conns : Alive(d) => link'[d].state # "free"
      BY <2>2, <2>3 DEF IInv, TypeOK, TypeLink, Alive
    <2>5. TypeBonds'
      BY <1>1, Kept DEF SecurityChanged
    <2> QED
      BY <1>1, <2>4, <2>5, OnlyLinks DEF SecurityChanged
  <1>2. CASE SecurityFailed(c)
    <2>1. TypeLink' /\ \A d \in Conns : Alive(d) => link'[d].state # "free"
      BY <1>2, ClosingIs DEF SecurityFailed, TypeLink, IInv
    <2>2. TypeBonds' /\ quazi_ble_link_established' \in BOOLEAN
      BY <1>2, Kept DEF SecurityFailed, connVars, IInv, TypeOK
    <2> QED
      BY <1>2, <2>1, <2>2, OnlyLinks DEF SecurityFailed, connVars
  <1> QED
    BY <1>1, <1>2

\* pairing_complete keeps the invariant.
LEMMA PairingCompleteInv ==
    ASSUME IInv, NEW c \in Conns, NEW bonded \in BOOLEAN, PairingComplete(c, bonded)
    PROVE  IInv'
  <1>1. link[c] \in Links
    BY AliveIsLink DEF PairingComplete, IInv
  <1>2. <<link[c].id, link[c].peer>> \in Ids \X Peers
    BY <1>1 DEF Links
  <1>3. TypeBonds'
    BY <1>2 DEF PairingComplete, IInv, TypeOK, TypeBonds
  <1>4. PICK S : link' = [Closing(S) EXCEPT ![c].pairing = FALSE]
    BY DEF PairingComplete
  <1>5. /\ Closing(S) \in [Conns -> Links \cup {NoLink}]
        /\ \A d \in Conns : Alive(d) => Closing(S)[d].state # "free"
        /\ Alive(c)
    BY ClosingIs DEF IInv, PairingComplete
  <1> DEFINE old == Closing(S)
  <1> HIDE DEF old
  <1>6. old[c] \in Links
    BY <1>5 DEF old, NoLink
  <1>7. [old[c] EXCEPT !.pairing = FALSE] \in Links
    BY <1>6 DEF Links
  <1>8. [old[c] EXCEPT !.pairing = FALSE].state # "free"
    BY <1>6 DEF Links
  <1>9. link' = [old EXCEPT ![c] = [old[c] EXCEPT !.pairing = FALSE]]
    BY <1>4 DEF old
  <1>10. TypeLink' /\ \A d \in Conns : Alive(d) => link'[d].state # "free"
    BY <1>5, <1>7, <1>8, <1>9 DEF TypeLink, old
  <1> QED
    BY <1>3, <1>10, OnlyLinks DEF PairingComplete, connVars, IInv, TypeOK

\* A tick keeps the invariant.
LEMMA TickInv ==
    ASSUME IInv, Tick
    PROVE  IInv'
  <1>1. Keeps(queue, queue')
    <2>1. queue \in Seq(BleWorks) /\ "stop_adv" \in BleWorks
      BY DEF IInv, TypeOK, BleWorks
    <2>2. Keeps(queue, queue)
      BY <2>1 DEF Keeps
    <2> QED
      BY <2>1, <2>2, SubmitKeeps DEF Tick
  <1>2. \/ adv' = adv
        \/ adv \in PairingAdv /\ adv.age < PairingTicks /\ adv' = [adv EXCEPT !.age = @ + 1]
    BY DEF Tick, IInv, TypeOK, DirectedAdv, NoAdv
  <1>3. TypeAdv' /\ AdvertisesAlone' /\ AdvertisingIsActive' /\ RestartsBehind'
        /\ CallsLastRequested'
    <2>1. stop_adv_delay' \in 0 .. PairingTicks
      BY BleAssumption DEF Tick, IInv, TypeOK
    <2>2. CASE adv' = adv
      <3>1. TypeAdv'
        BY <2>1, <2>2 DEF Tick, IInv, TypeOK, TypeAdv
      <3>2. RestartsBehind' /\ CallsLastRequested'
        BY <1>1, <2>2, CallingKept DEF Tick, idVars
      <3> QED
        BY <2>2, <3>1, <3>2, Kept DEF Tick, connVars
    <2>3. CASE adv \in PairingAdv /\ adv.age < PairingTicks /\ adv' = [adv EXCEPT !.age = @ + 1]
      <3>1. adv' \in PairingAdv
        BY <2>3, BleAssumption DEF PairingAdv
      <3>2. adv # NoAdv
        BY <2>3 DEF PairingAdv, NoAdv
      <3>3. TypeAdv'
        BY <2>1, <3>1 DEF Tick, IInv, TypeOK, TypeAdv
      <3>4. RestartsBehind' /\ CallsLastRequested'
        BY <1>1, <3>1, NotCalling DEF Keeps, IInv, RestartsBehind, PairingAdv
      <3>5. AdvertisesAlone' /\ AdvertisingIsActive'
        BY <3>2 DEF Tick, connVars, IInv, AdvertisesAlone, AdvertisingIsActive, Blocked
      <3> QED
        BY <3>3, <3>4, <3>5
    <2> QED
      BY <1>2, <2>2, <2>3
  <1>4. /\ TypeWork' /\ TypeConn' /\ RefsBalanced' /\ TypeIds' /\ TypeLink' /\ TypeBonds'
        /\ ConnHasLink'
    BY Kept DEF Tick, connVars
  <1>5. queue' \in Seq(BleWorks)
    BY <1>1 DEF Keeps
  <1> QED
    BY <1>3, <1>4, <1>5, Together

-----------------------------------------------------------------------------
(* The theorems *)

\* The initial states satisfy the invariant.
LEMMA InitInv == Init => IInv
  <1> SUFFICES ASSUME Init PROVE IInv
    OBVIOUS
  <1> USE BleAssumption DEF Init
  <1>1. queue \in Seq(BleWorks) /\ work_pc \in {"idle", "directed_adv", "pairing_adv"}
    OBVIOUS
  <1>2. /\ quazi_ble_conn \in Conns \cup {NULL} /\ quazi_ble_link_established \in BOOLEAN
        /\ advertising_active \in BOOLEAN
    OBVIOUS
  <1>3. connect_id \in Ids /\ unpair_id \in Ids /\ pair_id \in Ids /\ selected_profile \in Profiles
    BY DEF Ids
  <1>4. stop_adv_delay \in 0 .. PairingTicks /\ refs \in [Conns -> Nat]
    OBVIOUS
  <1>5. adv \in DirectedAdv \cup PairingAdv \cup {NoAdv} /\ link \in [Conns -> Links \cup {NoLink}]
    OBVIOUS
  <1>6. bonds \subseteq Ids \X Peers
    BY DEF Ids
  <1>7. TypeOK
    BY <1>1, <1>2, <1>3, <1>4, <1>5, <1>6 DEF TypeOK
  <1>8. RefsBalanced /\ ConnHasLink /\ AdvertisesAlone /\ AdvertisingIsActive
    BY DEF RefsBalanced, ConnHasLink, AdvertisesAlone, AdvertisingIsActive
  <1>9. RestartsBehind /\ CallsLastRequested
    BY DEF RestartsBehind, CallsLastRequested, Once, NoAdv
  <1> QED
    BY <1>7, <1>8, <1>9 DEF IInv

\* Every step keeps the invariant.
LEMMA StepInv ==
    ASSUME IInv, [Next]_vars
    PROVE  IInv'
  <1>1. CASE WorkThread
    BY <1>1, StartDirectedAdvInv, StartPairingAdvInv, AdvStartedInv, DisconnectInv, UnpairInv,
       StopAdvInv DEF WorkThread
  <1>2. CASE Calls
    BY <1>2, CallsInv
  <1>3. CASE Callbacks
    BY <1>3, ConnectedInv, DisconnectedInv, SecurityInv, PairingCompleteInv, ConnectFailedInv
       DEF Callbacks
  <1>4. CASE Tick
    BY <1>4, TickInv
  <1>5. CASE UNCHANGED vars
    <2>1. UNCHANGED <<queue, work_pc, connVars, idVars, advVars, link, bonds>>
      BY <1>5 DEF vars
    <2>2. RestartsBehind' /\ CallsLastRequested' /\ queue' \in Seq(BleWorks) /\ TypeIds'
      BY <2>1, Kept DEF idVars, advVars, IInv, TypeOK, RestartsBehind, CallsLastRequested
    <2> QED
      BY <2>1, <2>2, OnlyQueue
  <1> QED
    BY <1>1, <1>2, <1>3, <1>4, <1>5 DEF Next

\* In every reachable state the inductive invariant holds: the type
\* invariant, the safety invariants, and RestartsBehind.
THEOREM Invariance == Spec => []IInv
  BY InitInv, StepInv, PTL DEF Spec

\* The variables of the connection manager keep their types: in particular
\* ble.c never gives back a reference that it does not hold.
THEOREM TypeCorrect == Spec => []TypeOK
  <1>1. IInv => TypeOK
    BY DEF IInv
  <1> QED
    BY <1>1, Invariance, PTL

\* ble.c holds one reference, on its current connection, for every number
\* of connection objects, profiles and hosts (ble.c:80, 104, 214, 256).
THEOREM NoReferenceLeaks == Spec => []RefsBalanced
  <1>1. IInv => RefsBalanced
    BY DEF IInv
  <1> QED
    BY <1>1, Invariance, PTL

\* The current connection has a link (ble.c:105).
THEOREM HandleIsLive == Spec => []ConnHasLink
  <1>1. IInv => ConnHasLink
    BY DEF IInv
  <1> QED
    BY <1>1, Invariance, PTL

\* The keyboard does not advertise while it has a current connection.
THEOREM AdvertisingAlone == Spec => []AdvertisesAlone
  <1>1. IInv => AdvertisesAlone
    BY DEF IInv
  <1> QED
    BY <1>1, Invariance, PTL

\* quazi_ble_is_active is true while an advertising is on the air.
THEOREM AirIsActive == Spec => []AdvertisingIsActive
  <1>1. IInv => AdvertisingIsActive
    BY DEF IInv
  <1> QED
    BY <1>1, Invariance, PTL

\* Directed advertising calls the host asked for last, or will be restarted
\* for it (ble.c:322).
THEOREM LastRequestIsCalled == Spec => []CallsLastRequested
  <1>1. IInv => CallsLastRequested
    BY DEF IInv
  <1> QED
    BY <1>1, Invariance, PTL

-----------------------------------------------------------------------------
(* Two more theorems rest on this invariant: the current connection is one *)
(* that was asked for, and a pairing advertising has its end before it.    *)

(* A start_pairing_adv_work holds one place in the queue, and while        *)
(* pairing advertising is on the air it waits behind a disconnect_work.    *)
PairingsBehind ==
    /\ Once(queue, "pairing_adv")
    /\ adv.kind = "pairing" => Behind(queue, "pairing_adv", "disconnect")

(* Pairing advertising is for the identity asked for last, or a restart    *)
(* for that one is queued.                                                 *)
PairsLastRequested ==
    adv.kind = "pairing" => adv.id = pair_id \/ Contains(queue, "pairing_adv")

(* PairingAdvIsTimed, also while bt_le_adv_start has not yet returned: the *)
(* timeout still runs from an earlier pairing, or none runs and this       *)
(* advertising has no age.                                                 *)
Timed ==
    adv.kind = "pairing" =>
        \/ stop_adv_delay > 0 /\ adv.age + stop_adv_delay <= PairingTicks
        \/ Contains(queue, "stop_adv")
        \/ work_pc = "pairing_adv" /\ stop_adv_delay = 0 /\ adv.age = 0

RequestInv == PairingsBehind /\ PairsLastRequested /\ Timed /\ ConnIsRequested

-----------------------------------------------------------------------------
(* The queue *)

(* q becomes r without changing what the queue says about the work w.      *)
KeepsWork(q, r, w) ==
    /\ Once(q, w) => Once(r, w)
    /\ Behind(q, w, "disconnect") => Behind(r, w, "disconnect")
    /\ Contains(q, w) => Contains(r, w)

\* Submitting another work.
LEMMA SubmitKeepsWork ==
    ASSUME NEW q \in Seq(BleWorks), NEW u \in BleWorks, NEW w, u # w
    PROVE  KeepsWork(q, Submit(q, u), w)
  BY SubmitOnce, SubmitBehind, SubmitContains DEF KeepsWork

\* Taking another one, which is not disconnect_work.
LEMMA TailKeepsWork ==
    ASSUME NEW q \in Seq(BleWorks), NEW u, NEW w, Runs(q, u), u \notin {w, "disconnect"}
    PROVE  KeepsWork(q, Tail(q), w)
  <1>1. Once(q, w) => Once(Tail(q), w)
    BY TailOnce DEF Runs
  <1>2. Behind(q, w, "disconnect") => Behind(Tail(q), w, "disconnect")
    BY TailBehind
  <1>3. Contains(q, w) => Contains(Tail(q), w)
    BY TailContains
  <1> QED
    BY <1>1, <1>2, <1>3 DEF KeepsWork

\* The calls of ble.c.
LEMMA CallKeepsWork ==
    ASSUME NEW q \in Seq(BleWorks), NEW u \in BleWorks, NEW w \in BleWorks, w # "disconnect"
    PROVE  KeepsWork(q, DisconnectThen(q, u), w)
  <1>1. CASE Contains(q, u)
    BY <1>1 DEF DisconnectThen, KeepsWork
  <1>2. CASE ~Contains(q, u)
    <2> DEFINE r == Submit(q, "disconnect")
    <2>1. "disconnect" \in BleWorks
      BY DEF BleWorks
    <2>2. /\ KeepsWork(q, r, w)
          /\ r \in Seq(BleWorks)
          /\ Contains(r, "disconnect")
      BY <2>1, SubmitKeepsWork, SubmitType, SubmitContains
    <2>3. DisconnectThen(q, u) = Submit(r, u)
      BY <1>2 DEF DisconnectThen
    <2> HIDE DEF r
    <2>4. KeepsWork(r, Submit(r, u), w)
      <3>1. CASE u # w
        BY <2>2, <3>1, SubmitKeepsWork
      <3>2. CASE u = w
        <4>1. Once(r, w) => Once(Submit(r, u), w)
          BY <2>2, SubmitOnce
        <4>2. Behind(r, w, "disconnect") => Behind(Submit(r, u), w, "disconnect")
          BY <2>2, <3>2, SubmitItBehind
        <4>3. Contains(Submit(r, u), w)
          BY <2>2, <3>2, SubmitContains
        <4> QED
          BY <4>1, <4>2, <4>3 DEF KeepsWork
      <3> QED
        BY <3>1, <3>2
    <2> QED
      BY <2>2, <2>3, <2>4 DEF KeepsWork
  <1> QED
    BY <1>1, <1>2

\* The queue has the works of ble.c only.
LEMMA QueueType ==
    ASSUME IInv
    PROVE  queue \in Seq(BleWorks) /\ {"directed_adv", "pairing_adv", "stop_adv"} \subseteq BleWorks
  BY DEF IInv, TypeOK, BleWorks

-----------------------------------------------------------------------------
(* The parts of the invariant *)

\* A step that leaves the advertising, the timeout and the work thread
\* alone, and stop_adv_work in the queue.
LEMMA TimedKept ==
    ASSUME Timed, UNCHANGED <<adv, stop_adv_delay, work_pc>>,
           Contains(queue, "stop_adv") => Contains(queue', "stop_adv")
    PROVE  Timed'
  BY DEF Timed

\* A step that leaves no pairing advertising.
LEMMA NotPairing ==
    ASSUME Once(queue', "pairing_adv"), adv'.kind # "pairing"
    PROVE  PairingsBehind' /\ PairsLastRequested' /\ Timed'
  BY DEF PairingsBehind, PairsLastRequested, Timed

\* A step that leaves the kind and the identity of the advertising alone.
LEMMA PairingKept ==
    ASSUME RequestInv, KeepsWork(queue, queue', "pairing_adv"), pair_id' = pair_id,
           adv'.kind = adv.kind, adv.kind = "pairing" => adv'.id = adv.id
    PROVE  PairingsBehind' /\ PairsLastRequested'
  BY DEF RequestInv, PairingsBehind, PairsLastRequested, KeepsWork

\* A step that leaves the connection, its identity and the identities asked
\* for alone, and the two starts in the queue.
LEMMA ConnKept ==
    ASSUME ConnIsRequested, UNCHANGED <<quazi_ble_conn, connect_id, pair_id>>,
           quazi_ble_conn # NULL => link'[quazi_ble_conn].id = link[quazi_ble_conn].id,
           Contains(queue, "directed_adv") => Contains(queue', "directed_adv"),
           Contains(queue, "pairing_adv") => Contains(queue', "pairing_adv")
    PROVE  ConnIsRequested'
  BY DEF ConnIsRequested

\* Disconnecting keeps the identities of the links.
LEMMA ClosingId ==
    ASSUME IInv, NEW S, NEW c \in Conns
    PROVE  Closing(S)[c].id = link[c].id
  <1>1. CASE Up(c)
    <2>1. link[c] \in Links
      BY <1>1, AliveIsLink DEF IInv, Up, Alive
    <2> QED
      BY <2>1 DEF Closing, Links
  <1>2. CASE ~Up(c)
    BY <1>2 DEF Closing
  <1> QED
    BY <1>1, <1>2

\* The current connection, if there is one, is an object.
LEMMA ConnType ==
    ASSUME IInv
    PROVE  quazi_ble_conn # NULL => quazi_ble_conn \in Conns
  BY DEF IInv, TypeOK

-----------------------------------------------------------------------------
(* The works *)

\* start_directed_adv forgets the connection, and meets pairing advertising
\* only when it cannot start.
LEMMA StartDirectedAdvReq ==
    ASSUME IInv, RequestInv, StartDirectedAdv
    PROVE  RequestInv'
  <1>1. /\ Runs(queue, "directed_adv") /\ queue' = Tail(queue) /\ work_pc = "idle"
        /\ UNCHANGED <<pair_id, stop_adv_delay>>
        /\ quazi_ble_conn' = NULL
    BY DEF StartDirectedAdv, Take, DropConn, idVars
  <1>2. KeepsWork(queue, queue', "pairing_adv") /\ KeepsWork(queue, queue', "stop_adv")
    BY <1>1, QueueType, TailKeepsWork
  <1>3. ConnIsRequested'
    BY <1>1 DEF ConnIsRequested
  <1>4. CASE UNCHANGED <<adv, work_pc>>
    <2>1. PairingsBehind' /\ PairsLastRequested'
      BY <1>1, <1>2, <1>4, PairingKept
    <2>2. Timed'
      BY <1>1, <1>2, <1>4, TimedKept DEF RequestInv, KeepsWork
    <2> QED
      BY <1>3, <2>1, <2>2 DEF RequestInv
  <1>5. CASE \E p \in Peers : adv' = [kind |-> "directed", id |-> connect_id, peer |-> p]
    <2>1. adv'.kind # "pairing"
      BY <1>5
    <2> QED
      BY <1>2, <1>3, <2>1, NotPairing DEF KeepsWork, RequestInv, PairingsBehind
  <1> QED
    BY <1>4, <1>5 DEF StartDirectedAdv

\* Any timeout that is left ends within 180 s of a start.
LEMMA JustStarted ==
    ASSUME NEW d \in 0 .. PairingTicks, NEW age, age = 0
    PROVE  d = 0 \/ (d > 0 /\ age + d <= PairingTicks)
  BY BleAssumption

\* start_pairing_adv forgets the connection; it is the only one queued, and
\* the advertising that it starts has no age.
LEMMA StartPairingAdvReq ==
    ASSUME IInv, RequestInv, StartPairingAdv
    PROVE  RequestInv'
  <1>1. /\ Runs(queue, "pairing_adv") /\ queue' = Tail(queue) /\ work_pc = "idle"
        /\ UNCHANGED <<pair_id, stop_adv_delay>>
        /\ quazi_ble_conn' = NULL
    BY DEF StartPairingAdv, Take, DropConn, idVars
  <1>2. ~Contains(queue', "pairing_adv")
    BY <1>1, QueueType, TailLacks DEF RequestInv, PairingsBehind
  <1>3. Once(queue', "pairing_adv") /\ Behind(queue', "pairing_adv", "disconnect")
    BY <1>2 DEF Once, Behind, Contains
  <1>4. ConnIsRequested'
    BY <1>1 DEF ConnIsRequested
  <1>5. CASE UNCHANGED <<adv, work_pc>>
    <2>1. adv.kind # "pairing"
      BY <1>1, QueueType, BehindWaits DEF RequestInv, PairingsBehind
    <2> QED
      BY <1>3, <1>4, <1>5, <2>1, NotPairing DEF RequestInv
  <1>6. CASE /\ adv' = [kind |-> "pairing", id |-> pair_id, age |-> 0]
             /\ work_pc' = "pairing_adv"
    <2>1. PairingsBehind' /\ PairsLastRequested'
      BY <1>1, <1>3, <1>6 DEF PairingsBehind, PairsLastRequested
    <2>2. stop_adv_delay' \in 0 .. PairingTicks
      BY <1>1 DEF IInv, TypeOK
    <2>3. adv'.age = 0 /\ work_pc' = "pairing_adv"
      BY <1>6
    <2>4. \/ stop_adv_delay' = 0
          \/ stop_adv_delay' > 0 /\ adv'.age + stop_adv_delay' <= PairingTicks
      BY <2>2, <2>3, JustStarted
    <2>5. Timed'
      BY <2>3, <2>4 DEF Timed
    <2> QED
      BY <1>4, <2>1, <2>5 DEF RequestInv
  <1> QED
    BY <1>5, <1>6 DEF StartPairingAdv

\* k_work_schedule finds the timeout running, finds the work queued, or
\* starts the timeout of an advertising that has no age.
LEMMA AdvStartedReq ==
    ASSUME IInv, RequestInv, AdvStarted
    PROVE  RequestInv'
  <1>1. UNCHANGED <<queue, connVars, idVars, adv, link>>
    BY DEF AdvStarted
  <1>2. PairingsBehind' /\ PairsLastRequested' /\ ConnIsRequested'
    BY <1>1 DEF connVars, idVars, RequestInv, PairingsBehind, PairsLastRequested, ConnIsRequested
  <1>3. Timed'
    <2>1. stop_adv_delay \in 0 .. PairingTicks /\ PairingTicks \in Nat \ {0}
      BY BleAssumption DEF IInv, TypeOK
    <2>2. CASE work_pc = "pairing_adv"
      <3>1. stop_adv_delay' = ScheduleStop
        BY <2>2 DEF AdvStarted
      <3> QED
        BY <1>1, <2>1, <2>2, <3>1 DEF RequestInv, Timed, ScheduleStop
    <2>3. CASE work_pc # "pairing_adv"
      <3>1. stop_adv_delay' = stop_adv_delay
        BY <2>3 DEF AdvStarted
      <3> QED
        BY <1>1, <2>3, <3>1 DEF RequestInv, Timed
    <2> QED
      BY <2>2, <2>3
  <1> QED
    BY <1>2, <1>3 DEF RequestInv

\* disconnect and stop_adv end the advertising and keep the connection.
LEMMA StopReq ==
    ASSUME IInv, RequestInv, Disconnect \/ StopAdv
    PROVE  RequestInv'
  <1>1. /\ \E u \in {"disconnect", "stop_adv"} : Runs(queue, u)
        /\ queue' = Tail(queue)
        /\ UNCHANGED <<quazi_ble_conn, connect_id, pair_id>>
        /\ adv' = NoAdv
        /\ link' = link \/ link' = Closing(Conns)
    BY DEF Disconnect, StopAdv, Take, DoAdvStop, connVars, idVars
  <1>2. Once(queue', "pairing_adv")
    BY <1>1, QueueType, TailOnce DEF Runs, RequestInv, PairingsBehind
  <1>3. adv'.kind # "pairing"
    BY <1>1 DEF NoAdv
  <1>4. /\ Contains(queue, "directed_adv") => Contains(queue', "directed_adv")
        /\ Contains(queue, "pairing_adv") => Contains(queue', "pairing_adv")
    BY <1>1, QueueType, TailContains
  <1>5. ConnIsRequested'
    <2>1. quazi_ble_conn # NULL => link'[quazi_ble_conn].id = link[quazi_ble_conn].id
      BY <1>1, ConnType, ClosingId
    <2> QED
      BY <1>1, <1>4, <2>1, ConnKept DEF RequestInv
  <1> QED
    BY <1>2, <1>3, <1>5, NotPairing DEF RequestInv

\* A step that keeps the queue, and changes neither the advertising nor what
\* was asked for nor the identity of the current connection.
LEMMA AllKept ==
    ASSUME RequestInv,
           \A w \in {"directed_adv", "pairing_adv", "stop_adv"} : KeepsWork(queue, queue', w),
           UNCHANGED <<adv, stop_adv_delay, work_pc, quazi_ble_conn, connect_id, pair_id>>,
           quazi_ble_conn # NULL => link'[quazi_ble_conn].id = link[quazi_ble_conn].id
    PROVE  RequestInv'
  <1>1. PairingsBehind' /\ PairsLastRequested'
    BY PairingKept
  <1>2. Timed'
    BY TimedKept DEF RequestInv, KeepsWork
  <1>3. ConnIsRequested'
    BY ConnKept DEF RequestInv, KeepsWork
  <1> QED
    BY <1>1, <1>2, <1>3 DEF RequestInv

\* unpair closes links and keeps the rest.
LEMMA UnpairReq ==
    ASSUME IInv, RequestInv, UnpairWork
    PROVE  RequestInv'
  <1>1. /\ Runs(queue, "unpair") /\ queue' = Tail(queue)
        /\ UNCHANGED <<adv, stop_adv_delay, work_pc, quazi_ble_conn, connect_id, pair_id>>
    BY DEF UnpairWork, Take, advVars, connVars, idVars
  <1>2. \A w \in {"directed_adv", "pairing_adv", "stop_adv"} : KeepsWork(queue, queue', w)
    BY <1>1, QueueType, TailKeepsWork
  <1>3. PICK S : link' = Closing(S)
    BY DEF UnpairWork, Unpair
  <1>4. quazi_ble_conn # NULL => link'[quazi_ble_conn].id = link[quazi_ble_conn].id
    BY <1>3, ConnType, ClosingId
  <1> QED
    BY <1>1, <1>2, <1>4, AllKept

-----------------------------------------------------------------------------
(* The calls *)

\* quazi_ble_connect(p) with a connection: p was asked for before, or a
\* start that replaces the connection is queued.
LEMMA ConnectReq ==
    ASSUME IInv, RequestInv, NEW p, SetConnectId(p), queue' = ConnectQueue(p, queue), Call
    PROVE  RequestInv'
  <1>1. UNCHANGED <<adv, stop_adv_delay, work_pc, quazi_ble_conn, pair_id, link>>
    BY DEF Call, NoCallVars, advVars, connVars, SetConnectId
  <1>2. CASE quazi_ble_conn = NULL \/ p # connect_id
    <2>1. queue' = DisconnectThen(queue, "directed_adv")
      BY <1>2 DEF ConnectQueue
    <2>2. KeepsWork(queue, queue', "pairing_adv") /\ KeepsWork(queue, queue', "stop_adv")
      BY <2>1, QueueType, CallKeepsWork
    <2>3. Contains(queue', "directed_adv")
      BY <2>1, QueueType, DisconnectThenKeeps
    <2>4. PairingsBehind' /\ PairsLastRequested'
      BY <1>1, <2>2, PairingKept
    <2>5. Timed'
      BY <1>1, <2>2, TimedKept DEF RequestInv, KeepsWork
    <2> QED
      BY <2>3, <2>4, <2>5 DEF RequestInv, ConnIsRequested
  <1>3. CASE ~(quazi_ble_conn = NULL \/ p # connect_id)
    <2>1. queue' = queue /\ connect_id' = connect_id
      BY <1>3 DEF ConnectQueue, SetConnectId
    <2> QED
      BY <1>1, <2>1, AllKept DEF KeepsWork
  <1> QED
    BY <1>2, <1>3

\* quazi_ble_pair leaves its start in the queue.
LEMMA PairReq ==
    ASSUME IInv, RequestInv, NEW p, SetPairId(p), queue' = PairQueue(queue), Call
    PROVE  RequestInv'
  <1>1. UNCHANGED <<adv, stop_adv_delay, work_pc>>
    BY DEF Call, NoCallVars, advVars
  <1>2. queue' = DisconnectThen(queue, "pairing_adv")
    BY DEF PairQueue
  <1>3. KeepsWork(queue, queue', "pairing_adv") /\ KeepsWork(queue, queue', "stop_adv")
    BY <1>2, QueueType, CallKeepsWork
  <1>4. Contains(queue', "pairing_adv")
    BY <1>2, QueueType, DisconnectThenKeeps
  <1>5. Timed'
    BY <1>1, <1>3, TimedKept DEF RequestInv, KeepsWork
  <1>6. PairingsBehind'
    BY <1>1, <1>3 DEF RequestInv, PairingsBehind, KeepsWork
  <1> QED
    BY <1>4, <1>5, <1>6 DEF RequestInv, PairsLastRequested, ConnIsRequested

\* Every call of profile.c keeps the invariant.
LEMMA CallsReq ==
    ASSUME IInv, RequestInv, Calls
    PROVE  RequestInv'
  <1>1. ASSUME NEW p \in Profiles, TapProfile(p) PROVE RequestInv'
    BY <1>1, ConnectReq DEF TapProfile
  <1>2. ASSUME NEW p \in Profiles, HoldProfile(p) PROVE RequestInv'
    BY <1>2, PairReq DEF HoldProfile
  <1>3. CASE HoldClear \/ ProfileEnterIdle
    <2>1. /\ UNCHANGED <<adv, stop_adv_delay, work_pc, quazi_ble_conn, link>>
          /\ UNCHANGED <<connect_id, pair_id>>
          /\ queue' \in {DisconnectThen(queue, "unpair"), Submit(queue, "disconnect")}
      BY <1>3 DEF HoldClear, ProfileEnterIdle, Call, NoCallVars, advVars, connVars, idVars,
         SetUnpairId, UnpairQueue, DisconnectQueue
    <2>2. "unpair" \in BleWorks /\ "disconnect" \in BleWorks
      BY DEF BleWorks
    <2>3. \A w \in {"directed_adv", "pairing_adv", "stop_adv"} : KeepsWork(queue, queue', w)
      BY <2>1, <2>2, QueueType, CallKeepsWork, SubmitKeepsWork
    <2> QED
      BY <2>1, <2>3, AllKept
  <1>4. CASE ProfileLeaveIdle
    BY <1>4, ConnectReq DEF ProfileLeaveIdle
  <1> QED
    BY <1>1, <1>2, <1>3, <1>4 DEF Calls

-----------------------------------------------------------------------------
(* The callbacks *)

\* Cancelling stop_adv_work leaves the starts in the queue.
LEMMA StopCancelledKeeps ==
    ASSUME IInv, RequestInv, queue' = StopCancelled
    PROVE  /\ Once(queue', "pairing_adv")
           /\ Contains(queue, "directed_adv") => Contains(queue', "directed_adv")
           /\ Contains(queue, "pairing_adv") => Contains(queue', "pairing_adv")
  BY QueueType, CancelOnce, CancelContains DEF StopCancelled, RequestInv, PairingsBehind

\* connected: the advertising that is answered was for an identity asked for
\* last, or its replacement is queued.
LEMMA ConnectedReq ==
    ASSUME IInv, RequestInv, NEW c \in Conns, NEW p \in Peers, Connected(c, p)
    PROVE  RequestInv'
  <1>1. /\ adv' = NoAdv /\ queue' = StopCancelled /\ quazi_ble_conn' = c
        /\ UNCHANGED <<connect_id, pair_id>>
        /\ adv # NoAdv
    BY DEF Connected, DoAdvStop, idVars
  <1>2. adv'.kind # "pairing"
    BY <1>1 DEF NoAdv
  <1>3. link'[c].id = adv.id
    BY DEF Connected, IInv, TypeOK
  <1>4. adv.kind \in {"directed", "pairing"}
    BY <1>1 DEF IInv, TypeOK, DirectedAdv, PairingAdv
  <1>5. ConnIsRequested'
    BY <1>1, <1>3, <1>4, StopCancelledKeeps
       DEF ConnIsRequested, IInv, CallsLastRequested, RequestInv, PairsLastRequested
  <1> QED
    BY <1>1, <1>2, <1>5, StopCancelledKeeps, NotPairing DEF RequestInv

\* connected with an error changes only the advertising.
LEMMA ConnectFailedReq ==
    ASSUME IInv, RequestInv, ConnectFailed(StopCancelled)
    PROVE  RequestInv'
  <1>1. /\ adv' = NoAdv /\ queue' = StopCancelled
        /\ UNCHANGED <<quazi_ble_conn, connect_id, pair_id, link>>
    BY DEF ConnectFailed, DoAdvStop, connVars, idVars
  <1>2. adv'.kind # "pairing"
    BY <1>1 DEF NoAdv
  <1>3. ConnIsRequested'
    BY <1>1, StopCancelledKeeps, ConnKept DEF RequestInv
  <1> QED
    BY <1>1, <1>2, <1>3, StopCancelledKeeps, NotPairing DEF RequestInv

\* disconnected forgets the current connection, beside which there is no
\* advertising, or changes another one.
LEMMA DisconnectedReq ==
    ASSUME IInv, RequestInv, NEW c \in Conns, NEW timeout \in BOOLEAN,
           Disconnected(c, timeout, queue)
    PROVE  RequestInv'
  <1>1. UNCHANGED <<adv, stop_adv_delay, work_pc, connect_id, pair_id>>
    BY DEF Disconnected, idVars, advVars
  <1>2. CASE IsCurrent(c)
    <2>1. /\ quazi_ble_conn = c /\ quazi_ble_conn' = NULL
          /\ queue' = IF timeout THEN Submit(queue, "directed_adv") ELSE queue
      BY <1>2 DEF Disconnected, IsCurrent
    <2>2. adv'.kind # "pairing"
      BY <1>1, <2>1, BleAssumption DEF IInv, AdvertisesAlone, NoAdv
    <2>3. Once(queue', "pairing_adv")
      BY <2>1, QueueType, SubmitOnce DEF RequestInv, PairingsBehind
    <2>4. ConnIsRequested'
      BY <2>1 DEF ConnIsRequested
    <2> QED
      BY <2>2, <2>3, <2>4, NotPairing DEF RequestInv
  <1>3. CASE ~IsCurrent(c)
    <2>1. UNCHANGED <<quazi_ble_conn, queue>> /\ link' = [link EXCEPT ![c] = NoLink]
      BY <1>3 DEF Disconnected, connVars
    <2>2. quazi_ble_conn # NULL => link'[quazi_ble_conn] = link[quazi_ble_conn]
      BY <1>3, <2>1, ConnType DEF IsCurrent, IInv, TypeOK
    <2> QED
      BY <1>1, <2>1, <2>2, AllKept DEF KeepsWork
  <1> QED
    BY <1>2, <1>3

\* The other callbacks change links, but not their identities.
LEMMA LinksReq ==
    ASSUME IInv, RequestInv, NEW c \in Conns,
           \/ SecurityChanged(c) \/ SecurityFailed(c)
           \/ \E bonded \in BOOLEAN : PairingComplete(c, bonded)
    PROVE  RequestInv'
  <1>1. UNCHANGED <<adv, stop_adv_delay, work_pc, quazi_ble_conn, connect_id, pair_id, queue>>
    BY DEF SecurityChanged, SecurityFailed, PairingComplete, connVars, idVars, advVars
  <1>2. \A d \in Conns : link'[d].id = link[d].id
    <2>1. CASE SecurityChanged(c)
      <3>1. link[c] \in Links
        BY <2>1, AliveIsLink DEF SecurityChanged, IInv
      <3>2. link' = [link EXCEPT ![c] = [link[c] EXCEPT !.enc = TRUE,
                !.pairing = (<<link[c].id, link[c].peer>> \notin bonds)]]
        BY <2>1 DEF SecurityChanged
      <3> QED
        BY <3>1, <3>2 DEF IInv, TypeOK, Links
    <2>2. CASE SecurityFailed(c)
      BY <2>2, ClosingId DEF SecurityFailed
    <2>3. CASE \E bonded \in BOOLEAN : PairingComplete(c, bonded)
      <3>1. PICK S : link' = [Closing(S) EXCEPT ![c].pairing = FALSE]
        BY <2>3 DEF PairingComplete
      <3> DEFINE old == Closing(S)
      <3>2. /\ old \in [Conns -> Links \cup {NoLink}]
            /\ old[c].state # "free"
            /\ \A d \in Conns : old[d].id = link[d].id
        BY <2>3, ClosingIs, ClosingId DEF IInv, PairingComplete
      <3>3. link' = [old EXCEPT ![c] = [old[c] EXCEPT !.pairing = FALSE]]
        BY <3>1
      <3> HIDE DEF old
      <3>4. old[c] \in Links
        BY <3>2 DEF NoLink
      <3>5. [old[c] EXCEPT !.pairing = FALSE].id = old[c].id
        BY <3>4 DEF Links
      <3> QED
        BY <3>2, <3>3, <3>5
    <2> QED
      BY <2>1, <2>2, <2>3
  <1> QED
    BY <1>1, <1>2, ConnType, AllKept DEF KeepsWork

\* Time: what has passed is added to the age and taken from the timeout, and
\* a timeout that has passed leaves its work in the queue.
LEMMA TickReq ==
    ASSUME IInv, RequestInv, Tick
    PROVE  RequestInv'
  <1>1. /\ queue' = IF stop_adv_delay = 1 THEN Submit(queue, "stop_adv") ELSE queue
        /\ UNCHANGED <<quazi_ble_conn, connect_id, pair_id, link, work_pc>>
        /\ stop_adv_delay > 0 /\ stop_adv_delay' = stop_adv_delay - 1
        /\ stop_adv_delay \in 0 .. PairingTicks /\ PairingTicks \in Nat
    BY BleAssumption DEF Tick, connVars, idVars, IInv, TypeOK
  <1>2. /\ KeepsWork(queue, queue', "pairing_adv") /\ KeepsWork(queue, queue', "directed_adv")
        /\ stop_adv_delay = 1 => Contains(queue', "stop_adv")
        /\ Contains(queue, "stop_adv") => Contains(queue', "stop_adv")
    BY <1>1, QueueType, SubmitKeepsWork, SubmitContains DEF KeepsWork
  <1>3. ConnIsRequested'
    BY <1>1, <1>2, ConnKept DEF RequestInv, KeepsWork
  <1>4. CASE adv.kind # "pairing"
    <2>1. adv' = adv
      BY <1>4 DEF Tick
    <2> QED
      BY <1>2, <1>3, <1>4, <2>1, NotPairing DEF RequestInv, PairingsBehind, KeepsWork
  <1>5. CASE adv.kind = "pairing"
    <2>1. adv \in PairingAdv
      BY <1>5 DEF IInv, TypeOK, DirectedAdv, NoAdv
    <2>2. /\ adv'.kind = "pairing" /\ adv'.id = adv.id
          /\ adv'.age = IF adv.age < PairingTicks THEN adv.age + 1 ELSE adv.age
      BY <1>5, <2>1 DEF Tick, PairingAdv
    <2>3. adv.age \in 0 .. PairingTicks
      BY <2>1 DEF PairingAdv
    <2>4. PairingsBehind' /\ PairsLastRequested'
      BY <1>1, <1>2, <1>5, <2>2, PairingKept
    <2>5. Timed'
      BY <1>1, <1>2, <1>5, <2>2, <2>3 DEF RequestInv, Timed
    <2> QED
      BY <1>3, <2>4, <2>5 DEF RequestInv
  <1> QED
    BY <1>4, <1>5

-----------------------------------------------------------------------------
(* The theorems *)

\* The initial states satisfy the invariant.
LEMMA InitReq == Init => RequestInv
  BY DEF Init, RequestInv, PairingsBehind, PairsLastRequested, Timed, ConnIsRequested, Once, NoAdv

\* Every step keeps the invariant.
LEMMA StepReq ==
    ASSUME IInv, RequestInv, [Next]_vars
    PROVE  RequestInv'
  <1>1. CASE WorkThread
    BY <1>1, StartDirectedAdvReq, StartPairingAdvReq, AdvStartedReq, StopReq, UnpairReq
       DEF WorkThread
  <1>2. CASE Calls
    BY <1>2, CallsReq
  <1>3. CASE Callbacks
    BY <1>3, ConnectedReq, DisconnectedReq, LinksReq, ConnectFailedReq DEF Callbacks
  <1>4. CASE Tick
    BY <1>4, TickReq
  <1>5. CASE UNCHANGED vars
    BY <1>5, AllKept DEF vars, advVars, connVars, idVars, KeepsWork
  <1> QED
    BY <1>1, <1>2, <1>3, <1>4, <1>5 DEF Next

\* In every reachable state the current connection and the advertising are
\* for identities asked for, and a pairing advertising is timed.
THEOREM RequestInvariance == Spec => []RequestInv
  <1>1. IInv /\ IInv' /\ RequestInv /\ [Next]_vars => RequestInv'
    BY StepReq
  <1> QED
    BY <1>1, InitReq, Invariance, PTL DEF Spec

\* The current connection is for the identity asked for last, to connect or
\* to pair with, or the start that replaces it is queued (ble.c:320, 340).
THEOREM ConnectionIsRequested == Spec => []ConnIsRequested
  <1>1. RequestInv => ConnIsRequested
    BY DEF RequestInv
  <1> QED
    BY <1>1, RequestInvariance, PTL

\* A pairing advertising whose start has returned ends no later than 180 s
\* after it, whatever was requested, cancelled or answered before (ble.c:251,
\* 276): the timeout runs for no longer than that, or its work is queued.
THEOREM PairingEnds == Spec => []PairingAdvIsTimed
  <1>1. RequestInv => PairingAdvIsTimed
    BY DEF RequestInv, Timed, PairingAdvIsTimed, Blocked
  <1> QED
    BY <1>1, RequestInvariance, PTL
=============================================================================
