-------------------------- MODULE Coordinator_proofs --------------------------
(***************************************************************************)
(* Proofs about Coordinator, for every size of the event queue, every set  *)
(* of addresses and every number of requests: its types, its safety        *)
(* invariants, and the lemmas on queues of signals they rest on.           *)
(***************************************************************************)
EXTENDS Coordinator, TLAPS

-----------------------------------------------------------------------------
(***************************************************************************)
(* Some signal of A is in the queue with none of B behind it; no signal of *)
(* A is in it.                                                             *)
(***************************************************************************)
Pending(q, A, B) ==
  \E i \in DOMAIN q : q[i] \in A /\ \A j \in DOMAIN q : j > i => q[j] \notin B
None(q, A) == \A i \in DOMAIN q : q[i] \notin A

\* A signal that is appended is pending; one that was pending still is when the
\* new signal is not of B.
LEMMA AppendPending ==
  ASSUME NEW q \in Seq(Signals), NEW x \in Signals, NEW A, NEW B
  PROVE  /\ x \in A => Pending(Append(q, x), A, B)
         /\ Pending(q, A, B) /\ x \notin B => Pending(Append(q, x), A, B)
<1> DEFINE r == Append(q, x)
<1>1. /\ DOMAIN r = 1..(Len(q) + 1) /\ r[Len(q) + 1] = x
      /\ \A i \in 1..Len(q) : r[i] = q[i]
      /\ DOMAIN q = 1..Len(q) /\ Len(q) \in Nat
  OBVIOUS
<1>2. ASSUME x \in A PROVE Pending(r, A, B)
  <2>1. \A j \in DOMAIN r : ~(j > Len(q) + 1)
    BY <1>1
  <2> QED BY <1>1, <1>2, <2>1 DEF Pending
<1>3. ASSUME Pending(q, A, B), x \notin B PROVE Pending(r, A, B)
  <2>1. PICK i \in 1..Len(q) : q[i] \in A /\ \A j \in 1..Len(q) : j > i => q[j] \notin B
    BY <1>1, <1>3 DEF Pending
  <2>2. \A j \in DOMAIN r : j > i => r[j] \notin B
    BY <1>1, <1>3, <2>1
  <2> QED BY <1>1, <2>1, <2>2 DEF Pending
<1> QED BY <1>2, <1>3

\* Appending a signal outside A keeps A out of the queue.
LEMMA AppendNone ==
  ASSUME NEW q \in Seq(Signals), NEW x \in Signals, NEW A, None(q, A), x \notin A
  PROVE  None(Append(q, x), A)
BY DEF None

\* Taking the first signal leaves a pending one pending, unless it was it.
LEMMA TailPending ==
  ASSUME NEW q \in Seq(Signals), q # <<>>, NEW A, NEW B, Pending(q, A, B)
  PROVE  Pending(Tail(q), A, B) \/ (Head(q) \in A /\ None(Tail(q), B))
<1>1. /\ DOMAIN q = 1..Len(q) /\ Len(q) \in Nat \ {0} /\ Head(q) = q[1]
      /\ DOMAIN Tail(q) = 1..(Len(q) - 1)
      /\ \A i \in 1..(Len(q) - 1) : Tail(q)[i] = q[i + 1]
  OBVIOUS
<1>2. PICK i \in 1..Len(q) : q[i] \in A /\ \A j \in 1..Len(q) : j > i => q[j] \notin B
  BY <1>1 DEF Pending
<1>3. CASE i = 1
  BY <1>1, <1>2, <1>3 DEF None
<1>4. CASE i > 1
  <2>1. i - 1 \in DOMAIN Tail(q) /\ Tail(q)[i - 1] \in A
    BY <1>1, <1>2, <1>4
  <2>2. \A j \in DOMAIN Tail(q) : j > i - 1 => Tail(q)[j] \notin B
    BY <1>1, <1>2, <1>4
  <2> QED BY <2>1, <2>2 DEF Pending
<1> QED BY <1>3, <1>4

\* What is not in a queue is not in its tail, and is not its head.
LEMMA TailNone ==
  ASSUME NEW q \in Seq(Signals), q # <<>>, NEW A, None(q, A)
  PROVE  None(Tail(q), A) /\ Head(q) \notin A
BY DEF None

-----------------------------------------------------------------------------
(***************************************************************************)
(* The inductive invariant.  Linked ties the code's flags to the SDK's     *)
(* interface and mode; the last five say what the queue still has in      *)
(* store for the coordinator.                                              *)
(***************************************************************************)
Up   == {"gotIp", "newIp"}
Down == {"disconnected", "apReady"}
Calm == ~lost /\ graceful_rst_counter = 0

Linked ==
  /\ stamode_connected <=> link \in {"ip", "rejoining"}
  /\ opmode = "sta" => stamode_connected
  /\ opmode = "null" => graceful_rst_counter = 2
  /\ running \subseteq enabled

UpOnTheWay ==
  Calm /\ stamode_connected =>
    \/ Pending(tasks, Up, Down)
    \/ espbot_http_status = "on_sta" /\ running = enabled /\ None(tasks, Down)

DownOnTheWay ==
  Calm /\ ~stamode_connected =>
    \/ Pending(tasks, Down, Up)
    \/ espbot_http_status # "on_sta" /\ None(tasks, Up)

ApOnTheWay ==
  Calm /\ ~stamode_connected /\ ~unannounced =>
    \/ Pending(tasks, {"apReady"}, Up)
    \/ espbot_http_status = "on_ap" /\ None(tasks, Up)

\* An mDNS responder that outlived its connection is about to be stopped, unless it was
\* started by the route meanwhile.
StopOnTheWay ==
  Calm /\ ~stamode_connected =>
    /\ address = NoIp
    /\ \/ Pending(tasks, {"disconnected"}, Up)
       \/ None(tasks, Up) /\ ("mdns" \in running => untold)

\* One with another address is about to be stopped or to be started anew.
NewsOnTheWay ==
  Calm /\ stamode_connected /\ "mdns" \in running /\ ~untold =>
    mdns_ip = address \/ ~None(tasks, {"newIp", "disconnected"})

Inv == /\ TypeOK /\ Linked /\ ServerAgrees /\ Retrying
       /\ UpOnTheWay /\ DownOnTheWay /\ ApOnTheWay
       /\ StopOnTheWay /\ NewsOnTheWay

-----------------------------------------------------------------------------
(***************************************************************************)
(* Posting one or two signals.                                             *)
(***************************************************************************)
LEMMA PostTypes ==
  ASSUME tasks \in Seq(Signals), Len(tasks) <= TaskQueueLen, lost \in BOOLEAN,
         NEW s \in Seq(Signals), Post(s)
  PROVE  /\ tasks' \in Seq(Signals) /\ Len(tasks') <= TaskQueueLen /\ lost' \in BOOLEAN
         /\ lost => lost'
         /\ ~lost' => tasks' = tasks \o s
<1> DEFINE room == TaskQueueLen - Len(tasks)
           kept == IF Len(s) <= room THEN Len(s) ELSE room
<1>1. /\ tasks' = tasks \o SubSeq(s, 1, kept) /\ lost' = (lost \/ kept < Len(s))
      /\ room \in Nat /\ Len(s) \in Nat
  BY CoordinatorConstants DEF Post
<1>2. kept \in Nat /\ kept <= room /\ kept <= Len(s)
  BY <1>1
<1>3. SubSeq(s, 1, kept) \in Seq(Signals) /\ Len(SubSeq(s, 1, kept)) = kept
  BY <1>2
<1>4. kept = Len(s) => SubSeq(s, 1, kept) = s
  OBVIOUS
<1> HIDE DEF kept
<1>5. tasks' \in Seq(Signals) /\ Len(tasks') = Len(tasks) + kept
  BY <1>1, <1>3
<1>6. lost' \in BOOLEAN /\ (lost => lost')
  BY <1>1
<1>7. ~lost' => ~(kept < Len(s))
  BY <1>1, Zenon
<1>8. ~lost' => kept = Len(s)
  BY <1>1, <1>2, <1>7
<1>9. Len(tasks') <= TaskQueueLen
  BY <1>2, <1>5, CoordinatorConstants
<1>10. ~lost' => tasks' = tasks \o s
  BY <1>1, <1>4, <1>8
<1> QED BY <1>5, <1>6, <1>9, <1>10

-----------------------------------------------------------------------------
(***************************************************************************)
(* Every action keeps the types.                                           *)
(***************************************************************************)
\* What the SDK's events post.
LEMMA Signalling ==
  /\ <<>> \in Seq(Signals)
  /\ \A x \in Signals : <<x>> \in Seq(Signals)
  /\ \A x, y \in Signals : <<x, y>> \in Seq(Signals)
  /\ \A q \in Seq(Signals) : q \o <<>> = q /\ <<>> \o q = q
  /\ \A x, y \in Signals : <<x>> \o <<y>> = <<x, y>>
  /\ \A q \in Seq(Signals), x, y \in Signals :
       q \o <<x>> = Append(q, x) /\ q \o <<x, y>> = Append(Append(q, x), y)
<1>1. <<>> \in Seq(Signals)
  OBVIOUS
<1>2. \A x \in Signals : <<x>> \in Seq(Signals)
  OBVIOUS
<1>3. \A x, y \in Signals : <<x, y>> \in Seq(Signals)
  OBVIOUS
<1>4. \A q \in Seq(Signals) : q \o <<>> = q /\ <<>> \o q = q
  OBVIOUS
<1>5. \A x, y \in Signals : <<x>> \o <<y>> = <<x, y>>
  <2> TAKE x, y \in Signals
  <2> DEFINE u == <<x>> \o <<y>>
             w == <<x, y>>
  <2>1. u \in Seq(Signals) /\ Len(u) = 2 /\ u[1] = x /\ u[2] = y
    OBVIOUS
  <2>2. w \in Seq(Signals) /\ Len(w) = 2 /\ w[1] = x /\ w[2] = y
    OBVIOUS
  <2> HIDE DEF u, w
  <2>3. \A i \in 1..Len(u) : u[i] = w[i]
    BY <2>1, <2>2
  <2>4. u = w
    BY <2>1, <2>2, <2>3
  <2> QED BY <2>4 DEF u, w
<1>6. \A q \in Seq(Signals), x \in Signals : q \o <<x>> = Append(q, x)
  OBVIOUS
<1>7. \A q \in Seq(Signals), x, y \in Signals : q \o <<x, y>> = Append(Append(q, x), y)
  <2> TAKE q \in Seq(Signals), x, y \in Signals
  <2> DEFINE u == q \o <<x, y>>
             w == Append(Append(q, x), y)
  <2>1. /\ u \in Seq(Signals) /\ Len(u) = Len(q) + 2
        /\ \A i \in 1..Len(q) : u[i] = q[i]
        /\ u[Len(q) + 1] = x /\ u[Len(q) + 2] = y
    OBVIOUS
  <2>2. /\ w \in Seq(Signals) /\ Len(w) = Len(q) + 2
        /\ \A i \in 1..Len(q) : w[i] = q[i]
        /\ w[Len(q) + 1] = x /\ w[Len(q) + 2] = y
    OBVIOUS
  <2>3. \A i \in 1..(Len(q) + 2) : i \in 1..Len(q) \/ i = Len(q) + 1 \/ i = Len(q) + 2
    OBVIOUS
  <2> HIDE DEF u, w
  <2>4. \A i \in 1..Len(u) : u[i] = w[i]
    BY <2>1, <2>2, <2>3
  <2> QED BY <2>1, <2>2, <2>4 DEF u, w
<1> QED BY <1>1, <1>2, <1>3, <1>4, <1>5, <1>6, <1>7

LEMMA DisconnectedType ==
  ASSUME TypeOK, NEW b \in BOOLEAN, Disconnected(b), UNCHANGED commands
  PROVE  TypeOK'
<1> DEFINE first == stamode_connected \/ stamode_connecting = 1
           posted == (IF first THEN <<"disconnected">> ELSE <<>>) \o
                     (IF opmode = "sta" THEN <<"apReady">> ELSE <<>>)
<1>1. posted \in Seq(Signals)
  BY Signalling DEF Signals, WifiSignals
<1>2. Post(posted)
  BY DEF Disconnected
<1> HIDE DEF posted
<1>3. tasks' \in Seq(Signals) /\ Len(tasks') <= TaskQueueLen /\ lost' \in BOOLEAN
  BY <1>1, <1>2, PostTypes DEF TypeOK, WifiTypes, ServiceTypes
<1>4. stamode_connecting' \in 0..2 /\ unannounced' \in BOOLEAN
  BY DEF TypeOK, WifiTypes, ServiceTypes, Disconnected
<1>5. opmode' \in {"null", "sta", "stationap"}
      /\ link' \in {"down", "joining", "ip", "rejoining"}
  BY DEF TypeOK, WifiTypes, ServiceTypes, Disconnected
<1>6. WifiTypes'
  BY <1>4, <1>5 DEF TypeOK, WifiTypes, Disconnected
<1>7. UNCHANGED <<services, reset, tried, commands>>
  BY DEF Disconnected
<1>8. ServiceTypes'
  BY <1>3, <1>4, <1>7 DEF TypeOK, ServiceTypes, services, reset
<1> QED BY <1>6, <1>8 DEF TypeOK

LEMMA GotIpType ==
  ASSUME TypeOK, NEW a \in Ip, GotIp(a), UNCHANGED commands
  PROVE  TypeOK'
<1> DEFINE posted == IF stamode_connected /\ a = old_ip THEN <<>>
                     ELSE IF stamode_connected THEN <<"newIp">> ELSE <<"gotIp">>
<1>1. posted \in Seq(Signals)
  BY Signalling DEF Signals, WifiSignals
<1>2. Post(posted)
  BY DEF GotIp
<1> HIDE DEF posted
<1>3. tasks' \in Seq(Signals) /\ Len(tasks') <= TaskQueueLen /\ lost' \in BOOLEAN
  BY <1>1, <1>2, PostTypes DEF TypeOK, WifiTypes, ServiceTypes
<1>4. CASE stamode_connected
  BY <1>3, <1>4 DEF TypeOK, WifiTypes, ServiceTypes, GotIp, services, reset
<1>5. CASE ~stamode_connected
  <2>1. /\ link' = "ip" /\ stamode_connected' = TRUE /\ stamode_connecting' = 1
        /\ opmode' = "sta" /\ saved_ssid' \in BOOLEAN /\ unannounced' = FALSE
        /\ address' \in Ip /\ old_ip' \in Ip
    BY <1>5 DEF TypeOK, WifiTypes, ServiceTypes, GotIp
  <2>2. /\ UNCHANGED <<ssid, wait_before_reconnect, delay_timer, reset, tried, untold>>
        /\ UNCHANGED <<espbot_http_status, server, enabled, running, mdns_ip>>
    BY <1>5 DEF GotIp
  <2>3. WifiTypes'
    BY <2>1, <2>2 DEF TypeOK, WifiTypes
  <2>4. ServiceTypes'
    BY <1>3, <2>1, <2>2 DEF TypeOK, ServiceTypes, services, reset
  <2> QED BY <2>3, <2>4 DEF TypeOK
<1> QED BY <1>4, <1>5

LEMMA TimerType ==
  ASSUME TypeOK, ReconnectTimer \/ DelayTimer, UNCHANGED commands
  PROVE  TypeOK'
<1>1. ASSUME connect_to_ap
      PROVE  /\ stamode_connecting' \in 0..2 /\ tried' \in BOOLEAN /\ opmode' = opmode
             /\ link' \in {"down", "joining", "ip", "rejoining"}
  <2>1. CASE ssid
    BY <1>1, <2>1 DEF TypeOK, WifiTypes, ServiceTypes, connect_to_ap
  <2>2. CASE ~ssid
    BY <1>1, <2>2 DEF TypeOK, WifiTypes, ServiceTypes, connect_to_ap
  <2> QED BY <2>1, <2>2
<1>2. CASE ReconnectTimer
  <2>1. WifiTypes'
    BY <1>1, <1>2 DEF TypeOK, WifiTypes, ReconnectTimer
  <2>2. ServiceTypes'
    BY <1>1, <1>2 DEF TypeOK, ServiceTypes, ReconnectTimer, services, reset
  <2> QED BY <2>1, <2>2 DEF TypeOK
<1>3. CASE DelayTimer
  <2>1. UNCHANGED <<address, ssid, saved_ssid, stamode_connected, old_ip,
                    wait_before_reconnect, tasks, services, reset, lost, unannounced>>
        /\ delay_timer' = "off"
    BY <1>3 DEF DelayTimer
  <2>2. CASE delay_timer = "connect"
    BY <1>1, <1>3, <2>1, <2>2 DEF TypeOK, WifiTypes, ServiceTypes, DelayTimer, services, reset
  <2>3. CASE delay_timer = "work_as_ap"
    BY <1>3, <2>1, <2>3 DEF TypeOK, WifiTypes, ServiceTypes, DelayTimer, work_as_ap, services, reset
  <2>4. CASE delay_timer = "check_fs"
    BY <1>3, <2>1, <2>4 DEF TypeOK, WifiTypes, ServiceTypes, DelayTimer, services, reset
  <2> QED BY <1>3, <2>2, <2>3, <2>4 DEF DelayTimer, TypeOK, WifiTypes, ServiceTypes
<1> QED BY <1>2, <1>3

LEMMA ResetType ==
  ASSUME TypeOK, graceful_reset \/ \E k \in {"restart", "ota"} : espbot_reset(k),
         commands' \in Served
  PROVE  TypeOK'
<1>1. ASSUME NEW n \in 0..2, NEW k \in {"restart", "ota"}, ResetStep(n, k)
      PROVE  TypeOK'
  <2>1. WifiTypes'
    BY <1>1 DEF TypeOK, WifiTypes, ResetStep
  <2>2. running' \subseteq Service /\ server' \in {"up", "down"} /\ untold' \in BOOLEAN
    BY <1>1 DEF TypeOK, ServiceTypes, ResetStep
  <2>3. /\ graceful_rst_counter' = n /\ graceful_rst_timer' = k
        /\ UNCHANGED <<tasks, espbot_http_status, enabled, mdns_ip, history>>
    BY <1>1 DEF ResetStep
  <2>4. ServiceTypes'
    BY <2>2, <2>3 DEF TypeOK, ServiceTypes, history
  <2> QED BY <2>1, <2>4 DEF TypeOK
<1>2. CASE \E k \in {"restart", "ota"} : espbot_reset(k)
  BY <1>1, <1>2 DEF espbot_reset, TypeOK, WifiTypes, ServiceTypes
<1>3. CASE graceful_reset /\ graceful_rst_counter < 2
  BY <1>1, <1>3 DEF graceful_reset, TypeOK, WifiTypes, ServiceTypes
<1>4. CASE graceful_reset /\ ~(graceful_rst_counter < 2)
  <2>1. Restart
    BY <1>4 DEF graceful_reset
  <2>2. <<"apReady">> \in Seq(Signals) /\ Len(<<"apReady">>) <= TaskQueueLen
    BY Signalling, CoordinatorConstants DEF Signals, WifiSignals
  <2>3. /\ link' \in {"down", "joining"} /\ stamode_connecting' \in 0..2
        /\ ssid' \in BOOLEAN /\ tried' \in BOOLEAN /\ saved_ssid' \in BOOLEAN
    BY <2>1 DEF TypeOK, WifiTypes, ServiceTypes, Restart
  <2>4. /\ opmode' = "stationap" /\ address' = NoIp /\ old_ip' = NoIp /\ mdns_ip' = NoIp
        /\ stamode_connected' = FALSE /\ wait_before_reconnect' = FALSE
        /\ delay_timer' = "off" /\ espbot_http_status' = "not_running"
        /\ server' = "down" /\ running' = {} /\ graceful_rst_counter' = 0
        /\ graceful_rst_timer' = "off" /\ lost' = FALSE /\ unannounced' = FALSE
        /\ enabled' = enabled /\ tasks' = <<"apReady">> /\ untold' = FALSE
    BY <2>1 DEF Restart
  <2>5. WifiTypes'
    BY <2>3, <2>4 DEF WifiTypes
  <2>6. ServiceTypes'
    <3>1. enabled \subseteq Service /\ running' \subseteq Service
      BY <2>4 DEF TypeOK, ServiceTypes
    <3>2. graceful_rst_counter' \in 0..2 /\ mdns_ip' \in Ip \cup {NoIp}
      BY <2>4
    <3> QED BY <2>2, <2>3, <2>4, <3>1, <3>2, Zenon DEF ServiceTypes
  <2> QED BY <2>5, <2>6 DEF TypeOK
<1> QED BY <1>2, <1>3, <1>4

LEMMA TaskType ==
  ASSUME TypeOK, RunTask \/ PostOther, UNCHANGED commands
  PROVE  TypeOK'
<1>1. ASSUME NEW x, TaskIs(x)
      PROVE  /\ tasks' \in Seq(Signals) /\ Len(tasks') <= TaskQueueLen
             /\ UNCHANGED <<wifi, delay_timer, reset, history>>
  <2>1. tasks \in Seq(Signals) /\ Len(tasks) <= TaskQueueLen /\ tasks # <<>>
        /\ tasks' = Tail(tasks)
    BY <1>1 DEF TaskIs, TypeOK, WifiTypes, ServiceTypes
  <2>2. tasks' \in Seq(Signals) /\ Len(tasks') = Len(tasks) - 1 /\ Len(tasks) \in Nat
    BY <2>1
  <2>3. Len(tasks') <= TaskQueueLen
    BY <2>1, <2>2, CoordinatorConstants
  <2> QED BY <1>1, <2>2, <2>3 DEF TaskIs
<1>2. CASE TaskGotIp
  BY <1>1, <1>2 DEF TaskGotIp, Start, TypeOK, WifiTypes, ServiceTypes, wifi, reset, history
<1>3. CASE TaskNewIp
  <2>1. /\ UNCHANGED <<wifi, delay_timer, reset, history, enabled>>
        /\ tasks' \in Seq(Signals) /\ Len(tasks') <= TaskQueueLen
    BY <1>1, <1>3 DEF TaskNewIp
  <2>2. WifiTypes'
    BY <2>1 DEF TypeOK, WifiTypes, wifi
  <2>3. /\ running' \subseteq Service /\ server' \in {"up", "down"} /\ untold' \in BOOLEAN
        /\ mdns_ip' \in Ip \cup {NoIp}
        /\ espbot_http_status' \in {"not_running", "on_ap", "on_sta"}
    BY <1>3 DEF TaskNewIp, TypeOK, WifiTypes, ServiceTypes
  <2>4. ServiceTypes'
    BY <2>1, <2>3 DEF TypeOK, ServiceTypes, reset, history
  <2> QED BY <2>2, <2>4 DEF TypeOK
<1>4. CASE TaskDisconnected
  <2>1. /\ UNCHANGED <<wifi, delay_timer, reset, history, enabled>>
        /\ tasks' \in Seq(Signals) /\ Len(tasks') <= TaskQueueLen
    BY <1>1, <1>4 DEF TaskDisconnected
  <2>2. WifiTypes'
    BY <2>1 DEF TypeOK, WifiTypes, wifi
  <2>3. /\ running' \subseteq Service /\ server' \in {"up", "down"} /\ untold' \in BOOLEAN
        /\ mdns_ip' \in Ip \cup {NoIp}
        /\ espbot_http_status' \in {"not_running", "on_ap", "on_sta"}
    BY <1>4 DEF TaskDisconnected, TypeOK, WifiTypes, ServiceTypes
  <2>4. ServiceTypes'
    BY <2>1, <2>3 DEF TypeOK, ServiceTypes, reset, history
  <2> QED BY <2>2, <2>4 DEF TypeOK
<1>5. CASE TaskApReady
  BY <1>1, <1>5 DEF TaskApReady, TypeOK, WifiTypes, ServiceTypes, wifi, reset, history
<1>6. CASE TaskOther
  BY <1>1, <1>6 DEF TaskOther, TypeOK, WifiTypes, ServiceTypes, wifi, services, reset, history
<1>7. CASE PostOther
  <2>1. tasks' \in Seq(Signals) /\ Len(tasks') <= TaskQueueLen
    BY <1>7, CoordinatorConstants DEF PostOther, TypeOK, WifiTypes, ServiceTypes, Signals
  <2> QED BY <1>7, <2>1 DEF PostOther, TypeOK, WifiTypes, ServiceTypes, wifi, services, reset, history
<1> QED BY <1>2, <1>3, <1>4, <1>5, <1>6, <1>7 DEF RunTask

LEMMA RouteType ==
  ASSUME TypeOK, Routes, commands' \in Served
  PROVE  TypeOK'
<1>1. CASE connectWifi \/ disconnectWifi \/ checkFS
  BY <1>1 DEF connectWifi, disconnectWifi, checkFS, Arm, TypeOK, WifiTypes, ServiceTypes, wifi, services, reset, history
<1>2. CASE setWifiApCfg
  BY <1>2 DEF setWifiApCfg, TypeOK, WifiTypes, ServiceTypes, services, reset, history
<1>3. CASE \E b \in BOOLEAN : setWifiStationCfg(b)
  BY <1>3 DEF setWifiStationCfg, TypeOK, WifiTypes, ServiceTypes, services, reset, history
<1>4. CASE \E x \in Service : enable(x)
  <2>1. PICK x \in Service : enable(x)
    BY <1>4
  <2>2. UNCHANGED <<wifi, delay_timer, tasks, espbot_http_status, server, reset, history>>
    BY <2>1 DEF enable
  <2>3. WifiTypes'
    BY <2>2 DEF TypeOK, WifiTypes, wifi
  <2>4. enabled' \subseteq Service
    BY <2>1 DEF enable, TypeOK, ServiceTypes
  <2>5. running' \subseteq Service /\ mdns_ip' \in Ip \cup {NoIp}
    BY <2>1 DEF enable, Start, TypeOK, WifiTypes, ServiceTypes
  <2>6. untold' \in BOOLEAN
    BY <2>1 DEF enable, TypeOK, ServiceTypes
  <2>7. ServiceTypes'
    BY <2>2, <2>4, <2>5, <2>6 DEF TypeOK, ServiceTypes, reset, history
  <2> QED BY <2>3, <2>7 DEF TypeOK
<1>5. CASE \E x \in Service : disable(x)
  BY <1>5 DEF disable, TypeOK, WifiTypes, ServiceTypes, wifi, reset, history
<1>6. CASE \E k \in {"restart", "ota"} : espbot_reset(k)
  BY <1>6, ResetType
<1> QED BY <1>1, <1>2, <1>3, <1>4, <1>5, <1>6 DEF Routes, Resets

LEMMA TypeStep == TypeOK /\ [Next]_vars => TypeOK'
<1> SUFFICES ASSUME TypeOK, [Next]_vars PROVE TypeOK'
  OBVIOUS
<1>1. CASE Command
  <2>1. Routes /\ commands' \in Served
    BY <1>1, CoordinatorConstants DEF Command, Routes, Served, TypeOK, WifiTypes, ServiceTypes
  <2> QED BY <2>1, RouteType
<1>2. CASE Event /\ UNCHANGED commands
  <2>1. commands' \in Served
    BY <1>2 DEF TypeOK, WifiTypes, ServiceTypes
  <2> QED BY <1>2, <2>1, DisconnectedType, GotIpType, TimerType, ResetType, TaskType DEF Event
<1>3. CASE UNCHANGED vars
  BY <1>3 DEF vars, wifi, services, reset, history, TypeOK, WifiTypes, ServiceTypes
<1> QED BY <1>1, <1>2, <1>3 DEF Next

-----------------------------------------------------------------------------
(***************************************************************************)
(* Every action keeps Linked, ServerAgrees and Retrying.  The task's       *)
(* signals and the routes do not touch what most of them are about.        *)
(***************************************************************************)
Still == UNCHANGED <<opmode, link, stamode_connected, wait_before_reconnect, tried,
                     graceful_rst_counter>>

LEMMA TaskStill ==
  ASSUME RunTask \/ PostOther
  PROVE  Still
<1>1. ASSUME NEW x, TaskIs(x) PROVE Still
  BY <1>1 DEF TaskIs, Still, wifi, reset, history
<1>2. CASE PostOther
  BY <1>2 DEF PostOther, Still, wifi, reset, history
<1> QED BY <1>1, <1>2 DEF RunTask, TaskGotIp, TaskNewIp, TaskDisconnected, TaskApReady, TaskOther

LEMMA TaskRunning ==
  ASSUME TypeOK, Linked, RunTask \/ PostOther
  PROVE  running' \subseteq enabled'
<1>1. CASE TaskGotIp
  BY <1>1 DEF TaskGotIp, Start, Linked
<1>2. CASE TaskNewIp
  BY <1>2 DEF TaskNewIp
<1>3. CASE TaskDisconnected
  BY <1>3 DEF TaskDisconnected
<1>4. CASE TaskApReady
  BY <1>4 DEF TaskApReady, Linked
<1>5. CASE TaskOther \/ PostOther
  BY <1>5 DEF TaskOther, PostOther, services, Linked
<1> QED BY <1>1, <1>2, <1>3, <1>4, <1>5 DEF RunTask

LEMMA LinkedStep == TypeOK /\ Linked /\ [Next]_vars => Linked'
<1> SUFFICES ASSUME TypeOK, Linked, [Next]_vars PROVE Linked'
  OBVIOUS
<1>1. ASSUME NEW b \in BOOLEAN, Disconnected(b) PROVE Linked'
  BY <1>1 DEF Disconnected, Linked, TypeOK, WifiTypes, services, reset
<1>2. ASSUME NEW a \in Ip, GotIp(a) PROVE Linked'
  <2>1. CASE stamode_connected
    BY <1>2, <2>1 DEF GotIp, Linked, services, reset
  <2>2. CASE ~stamode_connected
    BY <1>2, <2>2 DEF GotIp, Linked, services, reset
  <2> QED BY <2>1, <2>2
<1>3. ASSUME connect_to_ap, UNCHANGED <<stamode_connected, services, reset>> PROVE Linked'
  BY <1>3 DEF connect_to_ap, Linked, TypeOK, WifiTypes, services, reset
<1>4. CASE ReconnectTimer
  BY <1>3, <1>4 DEF ReconnectTimer
<1>5. CASE DelayTimer
  <2>1. UNCHANGED <<stamode_connected, services, reset>>
    BY <1>5 DEF DelayTimer
  <2>2. CASE delay_timer = "connect"
    BY <1>3, <1>5, <2>1, <2>2 DEF DelayTimer
  <2>3. CASE delay_timer = "work_as_ap"
    BY <1>5, <2>1, <2>3 DEF DelayTimer, work_as_ap, Linked, services, reset
  <2>4. CASE delay_timer = "check_fs"
    BY <1>5, <2>1, <2>4 DEF DelayTimer, Linked, services, reset
  <2> QED BY <1>5, <2>2, <2>3, <2>4 DEF DelayTimer, TypeOK, WifiTypes
<1>6. ASSUME NEW n \in 0..2, NEW k, ResetStep(n, k), n >= graceful_rst_counter PROVE Linked'
  BY <1>6 DEF ResetStep, Linked, TypeOK, ServiceTypes
<1>7. CASE graceful_reset
  <2>1. CASE graceful_rst_counter < 2
    <3>1. graceful_rst_counter + 1 \in 0..2 /\ graceful_rst_counter + 1 >= graceful_rst_counter
      BY <2>1 DEF TypeOK, ServiceTypes
    <3> QED BY <1>6, <1>7, <2>1, <3>1 DEF graceful_reset
  <2>2. CASE ~(graceful_rst_counter < 2)
    BY <1>7, <2>2 DEF graceful_reset, Restart, Linked
  <2> QED BY <2>1, <2>2
<1>8. CASE RunTask \/ PostOther
  BY <1>8, TaskStill, TaskRunning DEF Still, Linked
<1>9. CASE Routes
  <2>1. CASE connectWifi \/ disconnectWifi \/ checkFS
    BY <2>1 DEF connectWifi, disconnectWifi, checkFS, Arm, Linked, wifi, services, reset
  <2>2. CASE setWifiApCfg
    BY <2>2 DEF setWifiApCfg, Linked, services, reset
  <2>3. CASE \E b \in BOOLEAN : setWifiStationCfg(b)
    BY <2>3 DEF setWifiStationCfg, Linked, services, reset
  <2>4. CASE \E x \in Service : enable(x)
    <3>1. PICK x \in Service : enable(x)
      BY <2>4
    <3>2. running' \subseteq enabled'
      BY <3>1 DEF enable, Start, Linked
    <3> QED BY <3>1, <3>2 DEF enable, Linked, wifi, reset
  <2>5. CASE \E x \in Service : disable(x)
    BY <2>5 DEF disable, Linked, wifi, reset
  <2>6. CASE \E k \in {"restart", "ota"} : espbot_reset(k)
    <3>1. graceful_rst_counter \in 0..2 /\ graceful_rst_counter >= graceful_rst_counter
      BY DEF TypeOK, ServiceTypes
    <3> QED BY <1>6, <2>6, <3>1 DEF espbot_reset
  <2> QED BY <1>9, <2>1, <2>2, <2>3, <2>4, <2>5, <2>6 DEF Routes, Resets
<1>10. CASE UNCHANGED vars
  BY <1>10 DEF vars, wifi, services, reset, Linked
<1> QED BY <1>1, <1>2, <1>4, <1>5, <1>7, <1>8, <1>9, <1>10 DEF Next, Event, Command, Routes

LEMMA ServerStep == TypeOK /\ ServerAgrees /\ [Next]_vars => ServerAgrees'
<1> SUFFICES ASSUME TypeOK, ServerAgrees, [Next]_vars PROVE ServerAgrees'
  OBVIOUS
<1> DEFINE kept == UNCHANGED <<espbot_http_status, server, graceful_rst_counter>>
<1>1. ASSUME NEW n \in 0..2, NEW k, ResetStep(n, k), n >= graceful_rst_counter
      PROVE  ServerAgrees'
  BY <1>1 DEF ResetStep, ServerAgrees, TypeOK, ServiceTypes
<1>2. CASE graceful_reset
  <2>1. CASE graceful_rst_counter < 2
    <3>1. graceful_rst_counter + 1 \in 0..2 /\ graceful_rst_counter + 1 >= graceful_rst_counter
      BY <2>1 DEF TypeOK, ServiceTypes
    <3> QED BY <1>1, <1>2, <2>1, <3>1 DEF graceful_reset
  <2>2. CASE ~(graceful_rst_counter < 2)
    BY <1>2, <2>2 DEF graceful_reset, Restart, ServerAgrees
  <2> QED BY <2>1, <2>2
<1>3. CASE \E k \in {"restart", "ota"} : espbot_reset(k)
  <2>1. graceful_rst_counter \in 0..2 /\ graceful_rst_counter >= graceful_rst_counter
    BY DEF TypeOK, ServiceTypes
  <2> QED BY <1>1, <1>3, <2>1 DEF espbot_reset
<1>4. CASE RunTask
  <2>1. graceful_rst_counter' = graceful_rst_counter
    BY <1>4, TaskStill DEF Still
  <2>2. CASE TaskGotIp \/ TaskNewIp
    BY <2>2 DEF TaskGotIp, TaskNewIp, ServerAgrees
  <2>3. CASE TaskDisconnected
    BY <2>1, <2>3 DEF TaskDisconnected, ServerAgrees
  <2>4. CASE TaskApReady
    BY <2>1, <2>4 DEF TaskApReady, ServerAgrees
  <2>5. CASE TaskOther
    BY <2>1, <2>5 DEF TaskOther, services, ServerAgrees
  <2> QED BY <1>4, <2>2, <2>3, <2>4, <2>5 DEF RunTask
<1>5. CASE (\E b \in BOOLEAN : Disconnected(b)) \/ (\E a \in Ip : GotIp(a))
  BY <1>5 DEF Disconnected, GotIp, services, reset, ServerAgrees
<1>6. CASE ReconnectTimer \/ DelayTimer \/ PostOther
  BY <1>6 DEF ReconnectTimer, DelayTimer, PostOther, services, reset, ServerAgrees
<1>7. CASE connectWifi \/ disconnectWifi \/ checkFS \/ setWifiApCfg
           \/ \E b \in BOOLEAN : setWifiStationCfg(b)
  BY <1>7 DEF connectWifi, disconnectWifi, checkFS, Arm, setWifiApCfg, setWifiStationCfg,
              services, reset, ServerAgrees
<1>8. CASE \E x \in Service : enable(x) \/ disable(x)
  BY <1>8 DEF enable, disable, reset, ServerAgrees
<1>9. CASE UNCHANGED vars
  BY <1>9 DEF vars, services, reset, ServerAgrees
<1> QED BY <1>2, <1>3, <1>4, <1>5, <1>6, <1>7, <1>8, <1>9 DEF Next, Event, Command, Routes, Resets

LEMMA RetryKept ==
  ASSUME Retrying,
         UNCHANGED <<link, wait_before_reconnect, tried, graceful_rst_counter>>
  PROVE  Retrying'
BY Zenon DEF Retrying

LEMMA RetryStep == TypeOK /\ Linked /\ Retrying /\ [Next]_vars => Retrying'
<1> SUFFICES ASSUME TypeOK, Linked, Retrying, [Next]_vars PROVE Retrying'
  OBVIOUS
<1>1. ASSUME NEW b \in BOOLEAN, Disconnected(b) PROVE Retrying'
  BY <1>1 DEF Disconnected, Retrying
<1>2. ASSUME NEW a \in Ip, GotIp(a) PROVE Retrying'
  BY <1>2 DEF GotIp, Retrying, reset
<1>3. ASSUME connect_to_ap, UNCHANGED reset PROVE Retrying'
  <2>1. CASE ssid
    <3>1. opmode = "null" => graceful_rst_counter' = 2
      BY <1>3 DEF Linked, reset
    <3>2. link' # "down" \/ opmode = "null"
      BY <1>3, <2>1 DEF connect_to_ap, TypeOK, WifiTypes
    <3> QED BY <3>1, <3>2 DEF Retrying
  <2>2. CASE ~ssid
    BY <1>3, <2>2 DEF connect_to_ap, Retrying
  <2> QED BY <2>1, <2>2
<1>4. CASE ReconnectTimer
  BY <1>3, <1>4 DEF ReconnectTimer
<1>5. CASE DelayTimer
  <2>1. UNCHANGED <<wait_before_reconnect, reset>>
    BY <1>5 DEF DelayTimer
  <2>2. CASE delay_timer = "connect"
    BY <1>3, <1>5, <2>1, <2>2 DEF DelayTimer
  <2>3. CASE delay_timer = "work_as_ap"
    BY <1>5, <2>1, <2>3, RetryKept DEF DelayTimer, work_as_ap, reset
  <2>4. CASE delay_timer = "check_fs"
    BY <1>5, <2>1, <2>4, RetryKept DEF DelayTimer, reset
  <2> QED BY <1>5, <2>2, <2>3, <2>4 DEF DelayTimer, TypeOK, WifiTypes
<1>6. ASSUME NEW n \in 0..2, NEW k, ResetStep(n, k), n >= graceful_rst_counter PROVE Retrying'
  BY <1>6 DEF ResetStep, Retrying, TypeOK, ServiceTypes, history
<1>7. CASE graceful_reset
  <2>1. CASE graceful_rst_counter < 2
    <3>1. graceful_rst_counter + 1 \in 0..2 /\ graceful_rst_counter + 1 >= graceful_rst_counter
      BY <2>1 DEF TypeOK, ServiceTypes
    <3> QED BY <1>6, <1>7, <2>1, <3>1 DEF graceful_reset
  <2>2. CASE ~(graceful_rst_counter < 2)
    BY <1>7, <2>2 DEF graceful_reset, Restart, Retrying
  <2> QED BY <2>1, <2>2
<1>8. CASE RunTask \/ PostOther
  BY <1>8, TaskStill, RetryKept DEF Still
<1>9. CASE \E k \in {"restart", "ota"} : espbot_reset(k)
  <2>1. graceful_rst_counter \in 0..2 /\ graceful_rst_counter >= graceful_rst_counter
    BY DEF TypeOK, ServiceTypes
  <2> QED BY <1>6, <1>9, <2>1 DEF espbot_reset
<1>10. CASE connectWifi \/ disconnectWifi \/ checkFS \/ setWifiApCfg
           \/ \E b \in BOOLEAN : setWifiStationCfg(b)
  BY <1>10 DEF connectWifi, disconnectWifi, checkFS, Arm, setWifiApCfg, setWifiStationCfg,
               wifi, reset, history, Retrying
<1>11. CASE \E x \in Service : enable(x) \/ disable(x)
  BY <1>11, RetryKept DEF enable, disable, wifi, reset, history
<1>12. CASE UNCHANGED vars
  BY <1>12, RetryKept DEF vars, wifi, reset, history
<1> QED BY <1>1, <1>2, <1>4, <1>5, <1>7, <1>8, <1>9, <1>10, <1>11, <1>12
        DEF Next, Event, Command, Routes, Resets

-----------------------------------------------------------------------------
(***************************************************************************)
(* Every action keeps what the queue has in store.                         *)
(***************************************************************************)
Queues == UpOnTheWay /\ DownOnTheWay /\ ApOnTheWay

LEMMA QueuesKept ==
  ASSUME Queues,
         UNCHANGED <<lost, graceful_rst_counter, stamode_connected, tasks,
                     espbot_http_status, unannounced>>,
         running = enabled => running' = enabled'
  PROVE  Queues'
<1>1. UpOnTheWay'
  BY DEF Queues, UpOnTheWay, Calm
<1>2. DownOnTheWay'
  BY DEF Queues, DownOnTheWay, Calm
<1>3. ApOnTheWay'
  BY DEF Queues, ApOnTheWay, Calm
<1> QED BY <1>1, <1>2, <1>3 DEF Queues

LEMMA NotCalm ==
  ASSUME ~Calm' PROVE Queues'
BY Zenon DEF Queues, UpOnTheWay, DownOnTheWay, ApOnTheWay

LEMMA DisconnectedQueues ==
  ASSUME TypeOK, Linked, Queues, NEW b \in BOOLEAN, Disconnected(b), Calm'
  PROVE  Queues'
<1> DEFINE first == stamode_connected \/ stamode_connecting = 1
           posted == (IF first THEN <<"disconnected">> ELSE <<>>) \o
                     (IF opmode = "sta" THEN <<"apReady">> ELSE <<>>)
           d == Append(tasks, "disconnected")
<1>1. "disconnected" \in Signals /\ "apReady" \in Signals /\ tasks \in Seq(Signals)
  BY DEF Signals, WifiSignals, TypeOK, ServiceTypes
<1>2. posted \in Seq(Signals)
  BY Signalling, <1>1
<1>3. Post(posted)
  BY DEF Disconnected
<1>4. tasks' = tasks \o posted /\ ~lost /\ ~lost'
  <2> HIDE DEF posted
  <2> QED BY <1>2, <1>3, PostTypes DEF TypeOK, ServiceTypes, Calm
<1>5. /\ stamode_connected' = FALSE /\ espbot_http_status' = espbot_http_status
      /\ unannounced' = (unannounced \/ (stamode_connected /\ opmode # "sta"))
      /\ graceful_rst_counter' = graceful_rst_counter
  BY DEF Disconnected, services, reset
<1>6. Calm
  BY <1>4, <1>5 DEF Calm
<1>7. d \in Seq(Signals)
  BY <1>1
<1>8. UpOnTheWay'
  BY <1>5 DEF UpOnTheWay
<1>9. CASE stamode_connected /\ opmode = "sta"
  <2>1. tasks' = Append(d, "apReady")
    BY <1>1, <1>4, <1>9, Signalling
  <2> HIDE DEF d
  <2>2. Pending(tasks', Down, Up) /\ Pending(tasks', {"apReady"}, Up)
    BY <1>1, <1>7, <2>1, AppendPending DEF Down
  <2> QED BY <1>8, <2>2 DEF Queues, DownOnTheWay, ApOnTheWay
<1>10. CASE stamode_connected /\ opmode # "sta"
  <2>1. tasks' = d
    BY <1>1, <1>4, <1>10, Signalling
  <2>2. Pending(tasks', Down, Up)
    BY <1>1, <2>1, AppendPending DEF Down
  <2>3. unannounced'
    BY <1>5, <1>10
  <2> QED BY <1>8, <2>2, <2>3 DEF Queues, DownOnTheWay, ApOnTheWay
<1>11. CASE ~stamode_connected /\ first
  <2>1. opmode # "sta" /\ unannounced' = unannounced
    BY <1>5, <1>11 DEF Linked, TypeOK, ServiceTypes
  <2>2. tasks' = d
    BY <1>1, <1>4, <1>11, <2>1, Signalling
  <2>3. Pending(tasks', Down, Up)
    BY <1>1, <2>2, AppendPending DEF Down
  <2>4. Pending(tasks, {"apReady"}, Up) => Pending(tasks', {"apReady"}, Up)
    BY <1>1, <2>2, AppendPending DEF Up
  <2>5. None(tasks, Up) => None(tasks', Up)
    BY <1>1, <2>2, AppendNone DEF Up
  <2> HIDE DEF d
  <2>6. ApOnTheWay'
    BY <1>5, <1>6, <1>11, <2>1, <2>4, <2>5 DEF Queues, ApOnTheWay
  <2> QED BY <1>8, <2>3, <2>6 DEF Queues, DownOnTheWay
<1>12. CASE ~stamode_connected /\ ~first
  <2>1. opmode # "sta" /\ unannounced' = unannounced
    BY <1>5, <1>12 DEF Linked, TypeOK, ServiceTypes
  <2>2. tasks' = tasks
    BY <1>1, <1>4, <1>12, <2>1, Signalling
  <2>3. DownOnTheWay' /\ ApOnTheWay'
    BY <1>5, <1>6, <1>12, <2>1, <2>2 DEF Queues, DownOnTheWay, ApOnTheWay
  <2> QED BY <1>8, <2>3 DEF Queues
<1> QED BY <1>9, <1>10, <1>11, <1>12

LEMMA GotIpQueues ==
  ASSUME TypeOK, Queues, NEW a \in Ip, GotIp(a), Calm'
  PROVE  Queues'
<1>1. "gotIp" \in Signals /\ "newIp" \in Signals /\ tasks \in Seq(Signals)
  BY DEF Signals, WifiSignals, TypeOK, ServiceTypes
<1>2. /\ espbot_http_status' = espbot_http_status /\ running' = running
      /\ enabled' = enabled /\ graceful_rst_counter' = graceful_rst_counter
  BY DEF GotIp, services, reset
<1>3. ASSUME NEW x \in Signals, Post(<<x>>)
      PROVE  tasks' = Append(tasks, x) /\ ~lost
  <2>1. <<x>> \in Seq(Signals) /\ tasks \o <<x>> = Append(tasks, x)
    BY <1>1, Signalling
  <2>2. Len(tasks) <= TaskQueueLen /\ lost \in BOOLEAN /\ ~lost'
    BY DEF TypeOK, ServiceTypes, Calm
  <2> QED BY <1>1, <1>3, <2>1, <2>2, PostTypes
<1>4. ASSUME stamode_connected', NEW x \in Up, tasks' = Append(tasks, x), x \in Signals
      PROVE  Queues'
  <2>1. Pending(tasks', Up, Down)
    BY <1>1, <1>4, AppendPending
  <2> QED BY <1>4, <2>1 DEF Queues, UpOnTheWay, DownOnTheWay, ApOnTheWay
<1>5. CASE stamode_connected /\ a # old_ip
  BY <1>1, <1>3, <1>4, <1>5 DEF GotIp, Up
<1>6. CASE stamode_connected /\ a = old_ip
  <2>1. tasks' = tasks /\ ~lost /\ lost' \in BOOLEAN
    <3>1. <<>> \in Seq(Signals) /\ tasks \o <<>> = tasks
      BY <1>1, Signalling
    <3>2. Len(tasks) <= TaskQueueLen /\ lost \in BOOLEAN /\ ~lost'
      BY DEF TypeOK, ServiceTypes, Calm
    <3>3. Post(<<>>)
      BY <1>6 DEF GotIp
    <3> QED BY <1>1, <3>1, <3>2, <3>3, PostTypes
  <2>2. stamode_connected' = stamode_connected /\ unannounced' = unannounced /\ ~lost'
    BY <1>6 DEF GotIp, Calm
  <2>3. lost' = lost
    BY <2>1, <2>2, Zenon DEF TypeOK, ServiceTypes
  <2> QED BY <1>2, <2>1, <2>2, <2>3, QueuesKept
<1>7. CASE ~stamode_connected
  BY <1>1, <1>3, <1>4, <1>7 DEF GotIp, Up
<1> QED BY <1>5, <1>6, <1>7

LEMMA TaskQueues ==
  ASSUME TypeOK, Linked, Queues, RunTask \/ PostOther, Calm'
  PROVE  Queues'
<1>1. /\ UNCHANGED <<stamode_connected, graceful_rst_counter, lost, unannounced>>
  <2>1. ASSUME NEW x, TaskIs(x)
        PROVE  UNCHANGED <<stamode_connected, graceful_rst_counter, lost, unannounced>>
    BY <2>1 DEF TaskIs, wifi, reset, history
  <2>2. CASE PostOther
    BY <2>2 DEF PostOther, wifi, reset, history
  <2> QED BY <2>1, <2>2 DEF RunTask, TaskGotIp, TaskNewIp, TaskDisconnected,
                            TaskApReady, TaskOther
<1>2. Calm /\ tasks \in Seq(Signals)
  BY <1>1 DEF Calm, TypeOK, ServiceTypes
<1>3. ASSUME NEW x, TaskIs(x), NEW A, NEW B
      PROVE  /\ Pending(tasks, A, B) =>
                  Pending(tasks', A, B) \/ (x \in A /\ None(tasks', B))
             /\ None(tasks, A) => None(tasks', A) /\ x \notin A
  <2>1. tasks # <<>> /\ tasks' = Tail(tasks) /\ x = Head(tasks)
    BY <1>3 DEF TaskIs
  <2>2. Pending(tasks, A, B) => Pending(tasks', A, B) \/ (x \in A /\ None(tasks', B))
    BY <1>2, <2>1, TailPending
  <2>3. None(tasks, A) => None(tasks', A) /\ x \notin A
    BY <1>2, <2>1, TailNone
  <2> QED BY <2>2, <2>3
<1>4. CASE TaskGotIp \/ TaskNewIp
  <2>1. PICK x \in Up : TaskIs(x)
    BY <1>4 DEF TaskGotIp, TaskNewIp, Up
  <2>2. espbot_http_status' = "on_sta" /\ running' = enabled /\ enabled' = enabled
    BY <1>4 DEF TaskGotIp, TaskNewIp, Start, Linked
  <2>3. x \notin Down /\ x # "apReady"
    BY <2>1 DEF Up, Down
  <2>4. stamode_connected => Pending(tasks', Up, Down) \/ None(tasks', Down)
    BY <1>2, <1>3, <2>1 DEF Queues, UpOnTheWay
  <2>5. ~stamode_connected => Pending(tasks', Down, Up)
    BY <1>2, <1>3, <2>1, <2>3 DEF Queues, DownOnTheWay
  <2>6. ~stamode_connected /\ ~unannounced => Pending(tasks', {"apReady"}, Up)
    BY <1>2, <1>3, <2>1, <2>3 DEF Queues, ApOnTheWay
  <2> QED BY <1>1, <2>2, <2>4, <2>5, <2>6 DEF Queues, UpOnTheWay, DownOnTheWay, ApOnTheWay
<1>5. CASE TaskDisconnected \/ TaskApReady
  <2>1. PICK x \in Down : TaskIs(x) /\ (TaskApReady \/ x = "disconnected")
    BY <1>5 DEF TaskDisconnected, TaskApReady, Down
  <2>2. /\ espbot_http_status' # "on_sta"
        /\ espbot_http_status = "on_ap" => espbot_http_status' = "on_ap"
        /\ TaskApReady => espbot_http_status' = "on_ap"
    BY <1>5 DEF TaskDisconnected, TaskApReady
  <2>3. x \notin Up /\ (x = "apReady" => TaskApReady)
    BY <2>1 DEF Up, Down
  <2>4. stamode_connected => Pending(tasks', Up, Down)
    BY <1>2, <1>3, <2>1, <2>3 DEF Queues, UpOnTheWay
  <2>5. ~stamode_connected => Pending(tasks', Down, Up) \/ None(tasks', Up)
    BY <1>2, <1>3, <2>1 DEF Queues, DownOnTheWay
  <2>6. ~stamode_connected /\ ~unannounced =>
          \/ Pending(tasks', {"apReady"}, Up)
          \/ TaskApReady /\ None(tasks', Up)
          \/ espbot_http_status = "on_ap" /\ None(tasks', Up)
    BY <1>2, <1>3, <2>1, <2>3 DEF Queues, ApOnTheWay
  <2> QED BY <1>1, <2>2, <2>4, <2>5, <2>6 DEF Queues, UpOnTheWay, DownOnTheWay, ApOnTheWay
<1>6. CASE TaskOther \/ PostOther
  <2>1. ASSUME NEW A \in SUBSET WifiSignals, NEW B \in SUBSET WifiSignals
        PROVE  /\ Pending(tasks, A, B) => Pending(tasks', A, B)
               /\ None(tasks, A) => None(tasks', A)
    <3>1. "other" \notin A /\ "other" \notin B /\ "other" \in Signals
      BY DEF WifiSignals, Signals
    <3>2. CASE TaskOther
      BY <1>3, <3>1, <3>2 DEF TaskOther
    <3>3. CASE PostOther
      BY <1>2, <3>1, <3>3, AppendPending, AppendNone DEF PostOther
    <3> QED BY <1>6, <3>2, <3>3
  <2>2. Up \in SUBSET WifiSignals /\ Down \in SUBSET WifiSignals
        /\ {"apReady"} \in SUBSET WifiSignals
    BY DEF Up, Down, WifiSignals
  <2>3. UNCHANGED services
    BY <1>6 DEF TaskOther, PostOther
  <2>4. UpOnTheWay'
    BY <1>1, <1>2, <2>1, <2>2, <2>3 DEF Queues, UpOnTheWay, services
  <2>5. DownOnTheWay'
    BY <1>1, <1>2, <2>1, <2>2, <2>3 DEF Queues, DownOnTheWay, services
  <2>6. ApOnTheWay'
    BY <1>1, <1>2, <2>1, <2>2, <2>3 DEF Queues, ApOnTheWay, services
  <2> QED BY <2>4, <2>5, <2>6 DEF Queues
<1> QED BY <1>4, <1>5, <1>6 DEF RunTask

LEMMA QueuesStep == TypeOK /\ Linked /\ Queues /\ [Next]_vars => Queues'
<1> SUFFICES ASSUME TypeOK, Linked, Queues, [Next]_vars, Calm' PROVE Queues'
  BY NotCalm
<1>1. CASE \E b \in BOOLEAN : Disconnected(b)
  BY <1>1, DisconnectedQueues
<1>2. CASE \E a \in Ip : GotIp(a)
  BY <1>2, GotIpQueues
<1>3. CASE RunTask \/ PostOther
  BY <1>3, TaskQueues
<1>4. CASE ReconnectTimer \/ DelayTimer
  <2>1. UNCHANGED <<lost, graceful_rst_counter, stamode_connected, tasks,
                    espbot_http_status, unannounced, running, enabled>>
    BY <1>4 DEF ReconnectTimer, DelayTimer, services, reset
  <2> QED BY <2>1, QueuesKept
<1>5. ASSUME NEW n \in 0..2, NEW k, ResetStep(n, k), n >= graceful_rst_counter PROVE Queues'
  <2>1. n = 0
    BY <1>5 DEF ResetStep, Calm
  <2>2. UNCHANGED <<lost, graceful_rst_counter, stamode_connected, tasks,
                    espbot_http_status, unannounced, running, enabled>>
    BY <1>5, <2>1 DEF ResetStep, history, TypeOK, ServiceTypes
  <2> QED BY <2>2, QueuesKept
<1>6. CASE \E k \in {"restart", "ota"} : espbot_reset(k)
  <2>1. graceful_rst_counter \in 0..2 /\ graceful_rst_counter >= graceful_rst_counter
    BY DEF TypeOK, ServiceTypes
  <2> QED BY <1>5, <1>6, <2>1 DEF espbot_reset
<1>7. CASE graceful_reset
  <2>1. CASE graceful_rst_counter < 2
    <3>1. graceful_rst_counter + 1 \in 0..2 /\ graceful_rst_counter + 1 >= graceful_rst_counter
      BY <2>1 DEF TypeOK, ServiceTypes
    <3> QED BY <1>5, <1>7, <2>1, <3>1 DEF graceful_reset
  <2>2. CASE ~(graceful_rst_counter < 2)
    <3>1. tasks' = <<"apReady">> /\ stamode_connected' = FALSE
      BY <1>7, <2>2 DEF graceful_reset, Restart
    <3>2. <<"apReady">> = Append(<<>>, "apReady") /\ <<>> \in Seq(Signals)
          /\ "apReady" \in Signals
      BY DEF Signals, WifiSignals
    <3>3. Pending(tasks', Down, Up) /\ Pending(tasks', {"apReady"}, Up)
      BY <3>1, <3>2, AppendPending DEF Down
    <3> QED BY <3>1, <3>3 DEF Queues, UpOnTheWay, DownOnTheWay, ApOnTheWay
  <2> QED BY <2>1, <2>2
<1>8. CASE connectWifi \/ disconnectWifi \/ checkFS \/ setWifiApCfg
           \/ \E b \in BOOLEAN : setWifiStationCfg(b)
  <2>1. UNCHANGED <<lost, graceful_rst_counter, stamode_connected, tasks,
                    espbot_http_status, unannounced, running, enabled>>
    BY <1>8 DEF connectWifi, disconnectWifi, checkFS, Arm, setWifiApCfg, setWifiStationCfg,
                wifi, services, reset, history
  <2> QED BY <2>1, QueuesKept
<1>9. CASE \E x \in Service : enable(x) \/ disable(x)
  <2>1. UNCHANGED <<lost, graceful_rst_counter, stamode_connected, tasks,
                    espbot_http_status, unannounced>>
    BY <1>9 DEF enable, disable, wifi, reset, history
  <2>2. running = enabled => running' = enabled'
    BY <1>9 DEF enable, disable, Start
  <2> QED BY <2>1, <2>2, QueuesKept
<1>10. CASE UNCHANGED vars
  <2>1. UNCHANGED <<lost, graceful_rst_counter, stamode_connected, tasks,
                    espbot_http_status, unannounced, running, enabled>>
    BY <1>10 DEF vars, wifi, services, reset, history
  <2> QED BY <2>1, QueuesKept
<1> QED BY <1>1, <1>2, <1>3, <1>4, <1>6, <1>7, <1>8, <1>9, <1>10
        DEF Next, Event, Command, Routes, Resets

-----------------------------------------------------------------------------
(***************************************************************************)
(* mDNS follows the station's address, or a signal that makes it do so is  *)
(* on its way.                                                             *)
(***************************************************************************)
News == StopOnTheWay /\ NewsOnTheWay
Later == {"newIp", "disconnected"}

LEMMA NewsKept ==
  ASSUME News,
         UNCHANGED <<lost, graceful_rst_counter, stamode_connected, address, tasks>>,
         "mdns" \in running' /\ ~untold' =>
           \/ mdns_ip' = address /\ address # NoIp
           \/ "mdns" \in running /\ ~untold /\ mdns_ip' = mdns_ip
  PROVE  News'
<1>1. StopOnTheWay'
  <2> SUFFICES ASSUME Calm', ~stamode_connected' PROVE StopOnTheWay'
    BY DEF StopOnTheWay
  <2>1. Calm /\ ~stamode_connected
    BY DEF Calm
  <2>2. address = NoIp
    BY <2>1 DEF News, StopOnTheWay
  <2>3. ("mdns" \in running => untold) => ("mdns" \in running' => untold')
    BY <2>2
  <2> QED BY <2>1, <2>2, <2>3 DEF News, StopOnTheWay
<1>2. NewsOnTheWay'
  BY DEF News, NewsOnTheWay, Calm
<1> QED BY <1>1, <1>2 DEF News

\* An entry of the queue stays there, unless it is the first one and is taken.
LEMMA TailStill ==
  ASSUME NEW q \in Seq(Signals), q # <<>>, NEW A, ~None(q, A), Head(q) \notin A
  PROVE  ~None(Tail(q), A)
<1>1. /\ DOMAIN q = 1..Len(q) /\ Len(q) \in Nat \ {0} /\ Head(q) = q[1]
      /\ DOMAIN Tail(q) = 1..(Len(q) - 1)
      /\ \A i \in 1..(Len(q) - 1) : Tail(q)[i] = q[i + 1]
  OBVIOUS
<1>2. PICK i \in 1..Len(q) : q[i] \in A
  BY <1>1 DEF None
<1>3. i # 1
  BY <1>1, <1>2
<1>4. i - 1 \in DOMAIN Tail(q) /\ Tail(q)[i - 1] \in A
  BY <1>1, <1>2, <1>3
<1> QED BY <1>4 DEF None

\* And an appended signal leaves the others where they are.
LEMMA AppendStill ==
  ASSUME NEW q \in Seq(Signals), NEW x \in Signals, NEW A
  PROVE  /\ ~None(q, A) => ~None(Append(q, x), A)
         /\ x \in A => ~None(Append(q, x), A)
<1> DEFINE r == Append(q, x)
<1>1. /\ DOMAIN r = 1..(Len(q) + 1) /\ r[Len(q) + 1] = x
      /\ \A i \in 1..Len(q) : r[i] = q[i]
      /\ DOMAIN q = 1..Len(q) /\ Len(q) \in Nat
  OBVIOUS
<1> HIDE DEF r
<1>2. \A i \in DOMAIN q : i \in DOMAIN r /\ r[i] = q[i]
  BY <1>1
<1>3. Len(q) + 1 \in DOMAIN r
  BY <1>1
<1> QED BY <1>1, <1>2, <1>3 DEF None, r

\* While the station is down the disconnection stays on its way until it stops mDNS.
LEMMA TaskStop ==
  ASSUME TypeOK, News, Calm, ~stamode_connected, RunTask \/ PostOther
  PROVE  \/ Pending(tasks', {"disconnected"}, Up)
         \/ None(tasks', Up) /\ ("mdns" \in running' => untold')
<1>1. tasks \in Seq(Signals) /\ "other" \in Signals
  BY DEF TypeOK, ServiceTypes, Signals
<1>2. \/ Pending(tasks, {"disconnected"}, Up)
      \/ None(tasks, Up) /\ ("mdns" \in running => untold)
  BY DEF News, StopOnTheWay
<1>3. ASSUME NEW x, TaskIs(x)
      PROVE  /\ x \in Up => Pending(tasks', {"disconnected"}, Up)
             /\ \/ Pending(tasks', {"disconnected"}, Up)
                \/ None(tasks', Up) /\ (x = "disconnected" \/ ("mdns" \in running => untold))
  <2>1. tasks # <<>> /\ tasks' = Tail(tasks) /\ x = Head(tasks)
    BY <1>3 DEF TaskIs
  <2>2. CASE Pending(tasks, {"disconnected"}, Up)
    BY <1>1, <2>1, <2>2, TailPending DEF Up
  <2>3. CASE None(tasks, Up) /\ ("mdns" \in running => untold)
    BY <1>1, <2>1, <2>3, TailNone
  <2> QED BY <1>2, <2>2, <2>3
<1>4. CASE TaskGotIp \/ TaskNewIp
  <2>1. TaskIs("gotIp") \/ TaskIs("newIp")
    BY <1>4 DEF TaskGotIp, TaskNewIp
  <2> QED BY <1>3, <2>1 DEF Up
<1>5. CASE TaskDisconnected
  <2>1. TaskIs("disconnected") /\ running' = {}
    BY <1>5 DEF TaskDisconnected
  <2> QED BY <1>3, <2>1
<1>6. CASE TaskApReady \/ TaskOther
  <2>1. UNCHANGED <<running, untold>>
    BY <1>6 DEF TaskApReady, TaskOther, services
  <2>2. PICK x \in {"apReady", "other"} : TaskIs(x)
    BY <1>6 DEF TaskApReady, TaskOther
  <2>3. x # "disconnected"
    BY <2>2
  <2> QED BY <1>3, <2>1, <2>2, <2>3
<1>7. CASE PostOther
  <2>1. tasks' = Append(tasks, "other") /\ UNCHANGED <<running, untold>>
    BY <1>7 DEF PostOther, services
  <2>2. "other" \notin Up
    BY DEF Up
  <2>3. Pending(tasks, {"disconnected"}, Up) => Pending(tasks', {"disconnected"}, Up)
    BY <1>1, <2>1, <2>2, AppendPending
  <2>4. None(tasks, Up) => None(tasks', Up)
    BY <1>1, <2>1, <2>2, AppendNone
  <2> QED BY <1>2, <2>1, <2>3, <2>4
<1> QED BY <1>4, <1>5, <1>6, <1>7 DEF RunTask

LEMMA TaskNews ==
  ASSUME TypeOK, News, RunTask \/ PostOther
  PROVE  News'
<1>1. tasks \in Seq(Signals) /\ "other" \in Signals
  BY DEF TypeOK, ServiceTypes, Signals
<1>2. ASSUME NEW x, TaskIs(x)
      PROVE  /\ UNCHANGED <<lost, graceful_rst_counter, stamode_connected, address>>
             /\ x \notin Later /\ ~None(tasks, Later) => ~None(tasks', Later)
  <2>1. tasks # <<>> /\ tasks' = Tail(tasks) /\ x = Head(tasks)
    BY <1>2 DEF TaskIs
  <2>2. x \notin Later /\ ~None(tasks, Later) => ~None(tasks', Later)
    BY <1>1, <2>1, TailStill
  <2> QED BY <1>2, <2>2 DEF TaskIs, wifi, reset, history
<1>3. UNCHANGED <<lost, graceful_rst_counter, stamode_connected, address>>
  BY <1>2 DEF RunTask, TaskGotIp, TaskNewIp, TaskDisconnected, TaskApReady, TaskOther,
              PostOther, wifi, reset, history
<1>4. StopOnTheWay'
  <2> SUFFICES ASSUME Calm', ~stamode_connected' PROVE StopOnTheWay'
    BY DEF StopOnTheWay
  <2>1. Calm /\ ~stamode_connected
    BY <1>3 DEF Calm
  <2>2. address' = NoIp
    BY <1>3, <2>1 DEF News, StopOnTheWay
  <2> QED BY <2>1, <2>2, TaskStop DEF StopOnTheWay
<1>5. NewsOnTheWay'
  <2> SUFFICES ASSUME Calm', stamode_connected', "mdns" \in running', ~untold'
               PROVE  mdns_ip' = address \/ ~None(tasks', Later)
    BY <1>3 DEF NewsOnTheWay, Later
  <2>1. "mdns" \in running /\ ~untold => mdns_ip = address \/ ~None(tasks, Later)
    BY <1>3 DEF News, NewsOnTheWay, Later, Calm
  <2>2. CASE TaskNewIp
    BY <2>2 DEF TaskNewIp
  <2>3. CASE TaskDisconnected
    BY <2>3 DEF TaskDisconnected
  <2>4. CASE TaskGotIp
    <3>1. mdns_ip' = address \/ ("mdns" \in running /\ ~untold /\ mdns_ip' = mdns_ip)
      BY <2>4 DEF TaskGotIp, Start
    <3>2. TaskIs("gotIp") /\ "gotIp" \notin Later
      BY <2>4 DEF TaskGotIp, Later
    <3> QED BY <1>2, <2>1, <3>1, <3>2
  <2>5. CASE TaskApReady \/ TaskOther
    <3>1. UNCHANGED <<running, untold, mdns_ip>>
      BY <2>5 DEF TaskApReady, TaskOther, services
    <3>2. PICK x \in {"apReady", "other"} : TaskIs(x)
      BY <2>5 DEF TaskApReady, TaskOther
    <3>3. x \notin Later
      BY <3>2 DEF Later
    <3> QED BY <1>2, <2>1, <3>1, <3>2, <3>3
  <2>6. CASE PostOther
    <3>1. tasks' = Append(tasks, "other") /\ UNCHANGED <<running, untold, mdns_ip>>
      BY <2>6 DEF PostOther, services
    <3>2. ~None(tasks, Later) => ~None(tasks', Later)
      BY <1>1, <3>1, AppendStill
    <3> QED BY <2>1, <3>1, <3>2
  <2> QED BY <2>2, <2>3, <2>4, <2>5, <2>6 DEF RunTask
<1> QED BY <1>4, <1>5 DEF News

\* The link drops: what was connected is told, and what is told already stays so.
LEMMA DisconnectedNews ==
  ASSUME TypeOK, Linked, News, NEW b \in BOOLEAN, Disconnected(b), Calm'
  PROVE  News'
<1> DEFINE first == stamode_connected \/ stamode_connecting = 1
           posted == (IF first THEN <<"disconnected">> ELSE <<>>) \o
                     (IF opmode = "sta" THEN <<"apReady">> ELSE <<>>)
           d == Append(tasks, "disconnected")
           Stops(q) == Pending(q, {"disconnected"}, Up)
<1>1. "disconnected" \in Signals /\ "apReady" \in Signals /\ tasks \in Seq(Signals)
  BY DEF Signals, WifiSignals, TypeOK, ServiceTypes
<1>2. posted \in Seq(Signals)
  BY Signalling, <1>1
<1>3. Post(posted)
  BY DEF Disconnected
<1>4. tasks' = tasks \o posted /\ ~lost
  <2> HIDE DEF posted
  <2> QED BY <1>2, <1>3, PostTypes DEF TypeOK, ServiceTypes, Calm
<1>5. /\ stamode_connected' = FALSE /\ address' = NoIp
      /\ UNCHANGED <<running, untold, graceful_rst_counter>>
  BY DEF Disconnected, services, reset
<1>6. Calm
  BY <1>4, <1>5 DEF Calm
<1>7. d \in Seq(Signals) /\ Stops(d)
  BY <1>1, AppendPending
<1>8. CASE first /\ opmode = "sta"
  <2>1. tasks' = Append(d, "apReady")
    BY <1>1, <1>4, <1>8, Signalling
  <2>2. "apReady" \notin Up
    BY DEF Up
  <2> HIDE DEF d
  <2>3. Stops(tasks')
    BY <1>1, <1>7, <2>1, <2>2, AppendPending
  <2> QED BY <1>5, <2>3 DEF News, StopOnTheWay, NewsOnTheWay
<1>9. CASE first /\ opmode # "sta"
  <2>1. tasks' = d
    BY <1>1, <1>4, <1>9, Signalling
  <2> QED BY <1>5, <1>7, <2>1 DEF News, StopOnTheWay, NewsOnTheWay
<1>10. CASE ~first
  <2>1. ~stamode_connected /\ opmode # "sta"
    BY <1>10 DEF Linked, TypeOK, WifiTypes
  <2>2. tasks' = tasks
    BY <1>1, <1>4, <1>10, <2>1, Signalling
  <2> QED BY <1>5, <1>6, <2>1, <2>2 DEF News, StopOnTheWay, NewsOnTheWay
<1> QED BY <1>8, <1>9, <1>10

\* An address comes: with a signal, or the one of a new connection, which finds mDNS
\* stopped or about to be, or untold.
LEMMA GotIpNews ==
  ASSUME TypeOK, News, NEW a \in Ip, GotIp(a), Calm'
  PROVE  News'
<1>1. "gotIp" \in Signals /\ "newIp" \in Signals /\ tasks \in Seq(Signals)
  BY DEF Signals, WifiSignals, TypeOK, ServiceTypes
<1>2. address' = a /\ UNCHANGED <<running, mdns_ip, graceful_rst_counter>>
  BY DEF GotIp, reset
<1>3. ASSUME NEW x \in Signals, Post(<<x>>)
      PROVE  tasks' = Append(tasks, x) /\ ~lost
  <2>1. <<x>> \in Seq(Signals) /\ tasks \o <<x>> = Append(tasks, x)
    BY <1>1, Signalling
  <2>2. Len(tasks) <= TaskQueueLen /\ lost \in BOOLEAN /\ ~lost'
    BY DEF TypeOK, ServiceTypes, Calm
  <2> QED BY <1>1, <1>3, <2>1, <2>2, PostTypes
<1>4. CASE stamode_connected /\ a # old_ip
  <2>1. tasks' = Append(tasks, "newIp") /\ stamode_connected'
    BY <1>1, <1>3, <1>4 DEF GotIp
  <2>2. ~None(tasks', Later)
    BY <1>1, <2>1, AppendStill DEF Later
  <2> QED BY <2>1, <2>2 DEF News, StopOnTheWay, NewsOnTheWay, Later
<1>5. CASE stamode_connected /\ a = old_ip
  <2>1. tasks' = tasks /\ ~lost
    <3>1. <<>> \in Seq(Signals) /\ tasks \o <<>> = tasks
      BY <1>1, Signalling
    <3>2. Len(tasks) <= TaskQueueLen /\ lost \in BOOLEAN /\ ~lost'
      BY DEF TypeOK, ServiceTypes, Calm
    <3>3. Post(<<>>)
      BY <1>5 DEF GotIp
    <3> QED BY <1>1, <3>1, <3>2, <3>3, PostTypes
  <2>2. stamode_connected' /\ Calm
    BY <1>2, <1>5, <2>1 DEF GotIp, Calm
  <2>3. untold' = (untold \/ (address # a /\ "mdns" \in running))
    BY <1>5 DEF GotIp
  <2>4. "mdns" \in running' /\ ~untold' =>
          "mdns" \in running /\ ~untold /\ address' = address
    BY <1>2, <2>3
  <2> QED BY <1>2, <1>5, <2>1, <2>2, <2>4 DEF News, StopOnTheWay, NewsOnTheWay
<1>6. CASE ~stamode_connected
  <2>1. tasks' = Append(tasks, "gotIp") /\ ~lost /\ stamode_connected' /\ UNCHANGED untold
    BY <1>1, <1>3, <1>6 DEF GotIp
  <2>2. Calm
    BY <1>2, <2>1 DEF Calm
  <2>3. "mdns" \in running /\ ~untold => Pending(tasks, {"disconnected"}, Up)
    BY <1>6, <2>2 DEF News, StopOnTheWay
  <2>4. Pending(tasks, {"disconnected"}, Up) => ~None(tasks, Later)
    BY DEF Pending, None, Later
  <2>5. ~None(tasks, Later) => ~None(tasks', Later)
    BY <1>1, <2>1, AppendStill
  <2> QED BY <1>2, <2>1, <2>3, <2>4, <2>5 DEF News, StopOnTheWay, NewsOnTheWay, Later
<1> QED BY <1>4, <1>5, <1>6

LEMMA NewsStep == TypeOK /\ Linked /\ News /\ [Next]_vars => News'
<1> SUFFICES ASSUME TypeOK, Linked, News, [Next]_vars, Calm' PROVE News'
  BY Zenon DEF News, StopOnTheWay, NewsOnTheWay
<1>1. CASE \E b \in BOOLEAN : Disconnected(b)
  BY <1>1, DisconnectedNews
<1>2. CASE \E a \in Ip : GotIp(a)
  BY <1>2, GotIpNews
<1>3. CASE RunTask \/ PostOther
  BY <1>3, TaskNews
<1>4. CASE ReconnectTimer \/ DelayTimer
  <2>1. UNCHANGED <<lost, graceful_rst_counter, stamode_connected, address, tasks,
                    running, mdns_ip, untold>>
    BY <1>4 DEF ReconnectTimer, DelayTimer, services, reset
  <2> QED BY <2>1, NewsKept
<1>5. ASSUME NEW n \in 0..2, NEW k, ResetStep(n, k), n >= graceful_rst_counter
      PROVE  News'
  <2>1. n = 0
    BY <1>5 DEF ResetStep, Calm
  <2>2. graceful_rst_counter' = graceful_rst_counter
    BY <1>5, <2>1 DEF ResetStep, TypeOK, ServiceTypes
  <2>3. UNCHANGED <<lost, stamode_connected, address, tasks, mdns_ip>>
    BY <1>5 DEF ResetStep, history
  <2>4. UNCHANGED <<running, untold>>
    BY <1>5, <2>1 DEF ResetStep
  <2> QED BY <2>2, <2>3, <2>4, NewsKept
<1>6. CASE \E k \in {"restart", "ota"} : espbot_reset(k)
  <2>1. graceful_rst_counter \in 0..2 /\ graceful_rst_counter >= graceful_rst_counter
    BY DEF TypeOK, ServiceTypes
  <2> QED BY <1>5, <1>6, <2>1 DEF espbot_reset
<1>7. CASE graceful_reset
  <2>1. CASE graceful_rst_counter < 2
    <3>1. graceful_rst_counter + 1 \in 0..2 /\ graceful_rst_counter + 1 >= graceful_rst_counter
      BY <2>1 DEF TypeOK, ServiceTypes
    <3> QED BY <1>5, <1>7, <2>1, <3>1 DEF graceful_reset
  <2>2. CASE ~(graceful_rst_counter < 2)
    <3>1. /\ tasks' = <<"apReady">> /\ stamode_connected' = FALSE /\ address' = NoIp
          /\ running' = {}
      BY <1>7, <2>2 DEF graceful_reset, Restart
    <3>2. None(tasks', Up)
      BY <3>1 DEF None, Up
    <3> QED BY <3>1, <3>2 DEF News, StopOnTheWay, NewsOnTheWay
  <2> QED BY <2>1, <2>2
<1>8. CASE connectWifi \/ disconnectWifi \/ checkFS \/ setWifiApCfg
           \/ \E b \in BOOLEAN : setWifiStationCfg(b)
  <2>1. UNCHANGED <<lost, graceful_rst_counter, stamode_connected, address, tasks,
                    running, mdns_ip, untold>>
    BY <1>8 DEF connectWifi, disconnectWifi, checkFS, Arm, setWifiApCfg, setWifiStationCfg,
                wifi, services, reset, history
  <2> QED BY <2>1, NewsKept
<1>9. CASE \E x \in Service : enable(x) \/ disable(x)
  <2>1. UNCHANGED <<lost, graceful_rst_counter, stamode_connected, address, tasks>>
    BY <1>9 DEF enable, disable, wifi, reset, history
  <2>2. PICK x \in Service : enable(x) \/ disable(x)
    BY <1>9
  <2>3. "mdns" \in running' /\ ~untold' =>
          \/ mdns_ip' = address /\ address # NoIp
          \/ "mdns" \in running /\ ~untold /\ mdns_ip' = mdns_ip
    <3>1. CASE enable(x) /\ x \in enabled
      BY <3>1 DEF enable
    <3>2. CASE enable(x) /\ x \notin enabled
      BY <3>2 DEF enable, Start
    <3>3. CASE disable(x)
      BY <3>3 DEF disable
    <3> QED BY <2>2, <3>1, <3>2, <3>3
  <2> QED BY <2>1, <2>3, NewsKept
<1>10. CASE UNCHANGED vars
  <2>1. UNCHANGED <<lost, graceful_rst_counter, stamode_connected, address, tasks,
                    running, mdns_ip, untold>>
    BY <1>10 DEF vars, wifi, services, reset, history
  <2> QED BY <2>1, NewsKept
<1> QED BY <1>1, <1>2, <1>3, <1>4, <1>6, <1>7, <1>8, <1>9, <1>10
        DEF Next, Event, Command, Routes, Resets

-----------------------------------------------------------------------------
(***************************************************************************)
(* The invariant and the theorems.                                         *)
(***************************************************************************)
LEMMA InitInv == Init => Inv
<1> SUFFICES ASSUME Init PROVE Inv
  OBVIOUS
<1>1. <<"apReady">> \in Seq(Signals) /\ Len(<<"apReady">>) = 1
      /\ <<"apReady">> = Append(<<>>, "apReady") /\ <<>> \in Seq(Signals)
      /\ "apReady" \in Signals
  BY DEF Signals, WifiSignals
<1>2. tasks = <<"apReady">>
  BY DEF Init
<1>3. WifiTypes
  <2>1. stamode_connecting \in 0..2 /\ tried \in BOOLEAN /\ ssid \in BOOLEAN
        /\ saved_ssid \in BOOLEAN /\ link \in {"down", "joining"}
    BY DEF Init
  <2> QED BY <2>1 DEF Init, WifiTypes
<1>4. ServiceTypes
  <2>1. Len(tasks) <= TaskQueueLen /\ tasks \in Seq(Signals)
    BY <1>1, <1>2, CoordinatorConstants
  <2>2. graceful_rst_counter \in 0..2 /\ commands \in Served
    BY CoordinatorConstants DEF Init, Served
  <2>3. tried \in BOOLEAN /\ lost = FALSE /\ unannounced = FALSE
    BY DEF Init
  <2> QED BY <2>1, <2>2, <2>3 DEF Init, ServiceTypes
<1>5. Linked
  BY DEF Init, Linked
<1>6. ServerAgrees /\ Retrying
  BY DEF Init, ServerAgrees, Retrying
<1>7. Pending(tasks, Down, Up) /\ Pending(tasks, {"apReady"}, Up)
  BY <1>1, <1>2, AppendPending DEF Down
<1>8. UpOnTheWay /\ DownOnTheWay /\ ApOnTheWay
  BY <1>7 DEF Init, UpOnTheWay, DownOnTheWay, ApOnTheWay
<1>9. StopOnTheWay /\ NewsOnTheWay
  <2>1. None(tasks, Up)
    BY <1>1, <1>2 DEF None, Up
  <2> QED BY <2>1 DEF Init, StopOnTheWay, NewsOnTheWay
<1> QED BY <1>3, <1>4, <1>5, <1>6, <1>8, <1>9 DEF Inv, TypeOK

LEMMA NextInv == Inv /\ [Next]_vars => Inv'
BY TypeStep, LinkedStep, ServerStep, RetryStep, QueuesStep, NewsStep DEF Inv, Queues, News

LEMMA AlwaysInv == Spec => []Inv
BY InitInv, NextInv, PTL DEF Spec

\* Every variable keeps its type and the event queue its capacity, for every
\* queue size, set of addresses and number of requests.
THEOREM TypeCorrect == Spec => []TypeOK
BY AlwaysInv, PTL DEF Inv

\* Outside a reset the coordinator's status and the server's agree, so no signal
\* starts a server that runs or leaves one running that it meant to stop.
THEOREM ServerCorrect == Spec => []ServerAgrees
BY AlwaysInv, PTL DEF Inv

\* The reconnection timer is armed whenever the station is down after an attempt.
THEOREM RetryCorrect == Spec => []Retrying
BY AlwaysInv, PTL DEF Inv

\* Once the signals of all connections and disconnections are handled, in
\* whatever order they came, the server and the services follow the station.
THEOREM SettledCorrect == Spec => []Settled
<1>1. Inv => Settled
  <2> SUFFICES ASSUME Inv, Quiet PROVE Settled
    BY DEF Settled
  <2>1. ~Pending(tasks, Up, Down) /\ ~Pending(tasks, Down, Up) /\ Calm
    BY DEF Quiet, Pending, Up, Down, WifiSignals, Calm
  <2> QED BY <2>1 DEF Inv, UpOnTheWay, DownOnTheWay, Settled
<1> QED BY <1>1, AlwaysInv, PTL

\* And the device without a network is an access point with a server, unless the
\* link dropped while it already was one.
THEOREM ReachableCorrect == Spec => []ReachableAsAp
<1>1. Inv => ReachableAsAp
  <2> SUFFICES ASSUME Inv, Quiet, ~stamode_connected, ~unannounced
               PROVE  opmode = "stationap" /\ server = "up"
    BY DEF ReachableAsAp
  <2>1. ~Pending(tasks, {"apReady"}, Up) /\ Calm
    BY DEF Quiet, Pending, WifiSignals, Calm
  <2>2. espbot_http_status = "on_ap"
    BY <2>1 DEF Inv, ApOnTheWay
  <2>3. server = "up"
    BY <2>1, <2>2 DEF Inv, ServerAgrees, Calm
  <2>4. opmode # "sta" /\ opmode # "null"
    BY <2>1 DEF Inv, Linked, Calm
  <2> QED BY <2>3, <2>4 DEF Inv, TypeOK, WifiTypes
<1> QED BY <1>1, AlwaysInv, PTL

\* Once the signals of all connections, disconnections and renewals are handled, mDNS announces
\* the station's address, but for a change of the address that no signal tells of.
THEOREM AnnouncedCorrect == Spec => []Announced
<1>1. Inv => Announced
  <2> SUFFICES ASSUME Inv, Quiet PROVE Announced
    BY DEF Announced
  <2>1. None(tasks, {"newIp", "disconnected"}) /\ Calm
    BY DEF Quiet, None, WifiSignals, Calm
  <2> QED BY <2>1 DEF Inv, NewsOnTheWay, Announced
<1> QED BY <1>1, AlwaysInv, PTL

-----------------------------------------------------------------------------
(***************************************************************************)
(* The reset.                                                              *)
(***************************************************************************)
\* A reset that was begun has its timer armed.
ResetArmed == graceful_rst_counter > 0 => graceful_rst_timer # "off"

\* A reset that was asked for is never called off or put back: every step leaves its timer
\* armed and the counter where it is or one further, but the last, which is the restart.
ResetMoves ==
  graceful_rst_timer # "off" =>
    \/ /\ graceful_rst_timer' # "off"
       /\ graceful_rst_counter' \in {graceful_rst_counter, graceful_rst_counter + 1}
    \/ /\ graceful_rst_counter = 2 /\ graceful_rst_counter' = 0
       /\ graceful_rst_timer' = "off"

LEMMA ResetCases ==
  ASSUME [Next]_vars
  PROVE  \/ UNCHANGED reset
         \/ \E k \in {"restart", "ota"} : espbot_reset(k)
         \/ graceful_reset
<1>1. CASE Command
  BY <1>1 DEF Command, Routes, Resets, connectWifi, disconnectWifi, checkFS, Arm, setWifiApCfg,
              setWifiStationCfg, enable, disable
<1>2. CASE RunTask
  BY <1>2 DEF RunTask, TaskIs, TaskGotIp, TaskNewIp, TaskDisconnected, TaskApReady, TaskOther, reset
<1>3. CASE Event
  BY <1>2, <1>3 DEF Event, Disconnected, GotIp, ReconnectTimer, DelayTimer, PostOther, reset
<1>4. CASE UNCHANGED vars
  BY <1>4 DEF vars
<1> QED BY <1>1, <1>3, <1>4 DEF Next

LEMMA ResetKeeps ==
  ASSUME TypeOK, ResetArmed, [Next]_vars
  PROVE  ResetArmed' /\ ResetMoves
<1>1. graceful_rst_counter \in 0..2 /\ graceful_rst_timer \in {"off", "restart", "ota"}
  BY DEF TypeOK, ServiceTypes
<1>2. CASE UNCHANGED reset
  BY <1>1, <1>2 DEF reset, ResetArmed, ResetMoves
<1>3. CASE \E k \in {"restart", "ota"} : espbot_reset(k)
  BY <1>1, <1>3 DEF espbot_reset, ResetStep, ResetArmed, ResetMoves
<1>4. CASE graceful_reset
  BY <1>1, <1>4 DEF graceful_reset, ResetStep, Restart, ResetArmed, ResetMoves
<1> QED BY <1>2, <1>3, <1>4, ResetCases

\* A reset that was asked for goes on step by step to the restart, whatever signals, requests
\* and further resets come between its steps.  That the timer fires is all that
\* Restarts takes beyond this.
THEOREM ResetCorrect == Spec => []ResetArmed /\ [][ResetMoves]_vars
<1>1. Init => ResetArmed
  BY DEF Init, ResetArmed
<1>2. TypeOK /\ ResetArmed /\ [Next]_vars => ResetArmed' /\ [ResetMoves]_vars
  BY ResetKeeps
<1> QED BY TypeCorrect, <1>1, <1>2, PTL DEF Spec
=============================================================================
