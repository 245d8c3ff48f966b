----------------------------- MODULE Coordinator -----------------------------
(***************************************************************************)
(* Who turns what on and off: the Wi-Fi event handler (espbot_wifi.cpp)    *)
(* posts signals to the coordinator's task (espbot.cpp), which starts and  *)
(* stops SNTP, mDNS and the HTTP server; routes change the Wi-Fi mode      *)
(* through one shared delay_timer, and espbot_reset takes everything down  *)
(* in three timed steps before it restarts the chip.                       *)
(*                                                                         *)
(* Event handlers, task signals, timers and routes run to completion: one  *)
(* action each.  `link' and `address' are the SDK's station interface.     *)
(***************************************************************************)
EXTENDS Naturals, Sequences

CONSTANTS
  Ip,           \* addresses the DHCP server may hand out
  NoIp,         \* ip.addr == 0
  Service,      \* services the coordinator starts: a subset of {"sntp", "mdns"}
  TaskQueueLen, \* ESPBOT_TASK_QUEUE_LEN (8)
  MaxCommands   \* bound: requests that change something

ASSUME CoordinatorConstants ==
  /\ NoIp \notin Ip
  /\ Service \subseteq {"sntp", "mdns"}
  /\ TaskQueueLen \in Nat \ {0} /\ MaxCommands \in Nat

VARIABLES
  opmode,                \* wifi_get_opmode()
  link,                  \* SDK: what the station interface is doing
  address,               \* SDK: the station's address
  ssid,                  \* station_ssid is not empty
  saved_ssid,            \* the same in wifi.cfg
  stamode_connected,
  stamode_connecting,    \* attempts, 2 standing for any number above 1
  old_ip,
  wait_before_reconnect, \* the timer is armed
  delay_timer,           \* what the routes' timer is armed for
  tasks,                 \* the coordinator's event queue
  espbot_http_status,
  server,                \* http_svr_state.status
  enabled,               \* services enabled by configuration, saved at once
  running,               \* services started
  mdns_ip,               \* mdns_state.info.ipAddr
  untold,                \* history: the address came, or came back, without a signal, and
                         \* mDNS runs as it did before
  graceful_rst_counter,
  graceful_rst_timer,    \* what it is armed for
  lost,                  \* history: a Wi-Fi signal found the event queue full
  unannounced,           \* history: the link dropped in STATIONAP_MODE
  tried,                 \* history: the last attempt to connect reached the SDK
  commands               \* history: requests served

wifi     == <<opmode, link, address, ssid, saved_ssid, stamode_connected,
              stamode_connecting, old_ip, wait_before_reconnect>>
services == <<espbot_http_status, server, enabled, running, mdns_ip, untold>>
reset    == <<graceful_rst_counter, graceful_rst_timer>>
history  == <<lost, unannounced, tried>>
vars == <<wifi, delay_timer, tasks, services, reset, history, commands>>

WifiSignals == {"gotIp", "newIp", "disconnected", "apReady"}
Signals     == WifiSignals \cup {"other"}

(***************************************************************************)
(* system_os_post: nobody looks at its result.                             *)
(***************************************************************************)
Post(signals) ==
  LET room == TaskQueueLen - Len(tasks)
      kept == IF Len(signals) <= room THEN Len(signals) ELSE room
  IN  /\ tasks' = tasks \o SubSeq(signals, 1, kept)
      /\ lost' = (lost \/ kept < Len(signals))

(***************************************************************************)
(* espwifi_init: work as an access point, and try the stored network.      *)
(***************************************************************************)
Init ==
  /\ saved_ssid \in BOOLEAN /\ enabled \in SUBSET Service
  /\ opmode = "stationap" /\ ssid = saved_ssid
  /\ link = IF saved_ssid THEN "joining" ELSE "down"
  /\ address = NoIp /\ old_ip = NoIp /\ mdns_ip = NoIp
  /\ stamode_connected = FALSE
  /\ stamode_connecting = IF saved_ssid THEN 1 ELSE 0
  /\ wait_before_reconnect = FALSE /\ delay_timer = "off"
  /\ tasks = <<"apReady">>
  /\ espbot_http_status = "not_running" /\ server = "down" /\ running = {}
  /\ untold = FALSE
  /\ graceful_rst_counter = 0 /\ graceful_rst_timer = "off"
  /\ lost = FALSE /\ unannounced = FALSE /\ tried = saved_ssid
  /\ commands = 0

Restart ==
  /\ UNCHANGED <<saved_ssid, enabled>>
  /\ opmode' = "stationap" /\ ssid' = saved_ssid
  /\ link' = IF saved_ssid THEN "joining" ELSE "down"
  /\ address' = NoIp /\ old_ip' = NoIp /\ mdns_ip' = NoIp
  /\ stamode_connected' = FALSE
  /\ stamode_connecting' = IF saved_ssid THEN 1 ELSE 0
  /\ wait_before_reconnect' = FALSE /\ delay_timer' = "off"
  /\ tasks' = <<"apReady">>
  /\ espbot_http_status' = "not_running" /\ server' = "down" /\ running' = {}
  /\ untold' = FALSE
  /\ graceful_rst_counter' = 0 /\ graceful_rst_timer' = "off"
  /\ lost' = FALSE /\ unannounced' = FALSE /\ tried' = saved_ssid

(***************************************************************************)
(* wifi_event_handler.  The link drops for a reason that is or is not      *)
(* ASSOC_LEAVE; in NULL_MODE the radio is off and nothing connects.        *)
(***************************************************************************)
Disconnected_NoAp(assoc_leave) ==             \* mutant: the mode is left alone
  LET first == stamode_connected \/ stamode_connecting = 1
  IN  /\ link # "down"
      /\ link' = IF link = "rejoining" THEN "joining" ELSE "down"
      /\ address' = NoIp
      /\ stamode_connected' = FALSE
      /\ stamode_connecting' = IF first /\ assoc_leave THEN 0 ELSE stamode_connecting
      /\ UNCHANGED opmode
      /\ wait_before_reconnect' = TRUE
      /\ Post((IF first THEN <<"disconnected">> ELSE <<>>) \o
              (IF opmode = "sta" THEN <<"apReady">> ELSE <<>>))
      /\ unannounced' = (unannounced \/ (stamode_connected /\ opmode # "sta"))
      /\ UNCHANGED <<ssid, saved_ssid, old_ip, delay_timer, services, reset, tried>>

Disconnected_NoRetry(assoc_leave) ==          \* mutant: the timer is armed when connected only
  LET first == stamode_connected \/ stamode_connecting = 1
  IN  /\ link # "down"
      /\ link' = IF link = "rejoining" THEN "joining" ELSE "down"
      /\ address' = NoIp
      /\ stamode_connected' = FALSE
      /\ stamode_connecting' = IF first /\ assoc_leave THEN 0 ELSE stamode_connecting
      /\ opmode' = IF opmode = "sta" THEN "stationap" ELSE opmode
      /\ wait_before_reconnect' = (wait_before_reconnect \/ stamode_connected)
      /\ Post((IF first THEN <<"disconnected">> ELSE <<>>) \o
              (IF opmode = "sta" THEN <<"apReady">> ELSE <<>>))
      /\ unannounced' = (unannounced \/ (stamode_connected /\ opmode # "sta"))
      /\ UNCHANGED <<ssid, saved_ssid, old_ip, delay_timer, services, reset, tried>>

Disconnected(assoc_leave) ==
  LET first == stamode_connected \/ stamode_connecting = 1
  IN  /\ link # "down"
      /\ link' = IF link = "rejoining" THEN "joining" ELSE "down"
      /\ address' = NoIp
      /\ stamode_connected' = FALSE
      /\ stamode_connecting' = IF first /\ assoc_leave THEN 0 ELSE stamode_connecting
      /\ opmode' = IF opmode = "sta" THEN "stationap" ELSE opmode
      /\ wait_before_reconnect' = TRUE
      /\ Post((IF first THEN <<"disconnected">> ELSE <<>>) \o
              (IF opmode = "sta" THEN <<"apReady">> ELSE <<>>))
      /\ unannounced' = (unannounced \/ (stamode_connected /\ opmode # "sta"))
      /\ UNCHANGED <<ssid, saved_ssid, old_ip, delay_timer, services, reset, tried>>

GotIp(a) ==
  /\ opmode # "null"
  /\ link # "down"
  /\ address' = a
  /\ IF stamode_connected
     THEN /\ Post(IF a # old_ip THEN <<"newIp">> ELSE <<>>)
          /\ untold' = (untold \/ (a = old_ip /\ address # a /\ "mdns" \in running))
          /\ UNCHANGED <<opmode, link, saved_ssid, stamode_connected,
                         stamode_connecting, old_ip, unannounced>>
     ELSE /\ link' = "ip"
          /\ stamode_connected' = TRUE
          /\ stamode_connecting' = 1
          /\ old_ip' = a
          /\ opmode' = "sta"
          /\ Post(<<"gotIp">>)
          /\ saved_ssid' = ssid
          /\ unannounced' = FALSE
          /\ UNCHANGED untold
  /\ UNCHANGED <<ssid, wait_before_reconnect, delay_timer, reset, tried>>
  /\ UNCHANGED <<espbot_http_status, server, enabled, running, mdns_ip>>

(***************************************************************************)
(* espwifi_connect_to_ap and espwifi_work_as_ap.  A connected station that *)
(* is told to connect may leave first, or ignore it.                       *)
(***************************************************************************)
connect_to_ap ==
  /\ tried' = ssid
  /\ IF ssid
     THEN /\ stamode_connecting' = IF stamode_connecting = 0 THEN 1 ELSE 2
          /\ \/ link \in {"down", "joining"} /\ opmode # "null" /\ link' = "joining"
             \/ link \in {"ip", "rejoining"} /\ opmode # "null" /\ link' = "rejoining"
             \/ (link # "down" \/ opmode = "null") /\ UNCHANGED link
     ELSE UNCHANGED <<stamode_connecting, link>>
  /\ UNCHANGED opmode

work_as_ap ==
  /\ opmode' = "stationap"
  /\ UNCHANGED <<stamode_connecting, link, tried>>

ReconnectTimer ==
  /\ wait_before_reconnect
  /\ wait_before_reconnect' = FALSE
  /\ connect_to_ap
  /\ UNCHANGED <<address, ssid, saved_ssid, stamode_connected, old_ip, delay_timer,
                 tasks, services, reset, lost, unannounced>>

DelayTimer ==
  /\ delay_timer # "off"
  /\ delay_timer' = "off"
  /\ CASE delay_timer = "connect"    -> connect_to_ap
       [] delay_timer = "work_as_ap" -> work_as_ap
       [] delay_timer = "check_fs"   -> UNCHANGED <<stamode_connecting, link, tried, opmode>>
  /\ UNCHANGED <<address, ssid, saved_ssid, stamode_connected, old_ip,
                 wait_before_reconnect, tasks, services, reset, lost, unannounced>>

(***************************************************************************)
(* espbot_coordinator_task.  Starting a running service and stopping a     *)
(* stopped one do nothing; mDNS keeps the address it was started with.     *)
(***************************************************************************)
Start(services_on) ==
  /\ running' = running \cup services_on
  /\ mdns_ip' = IF "mdns" \in services_on \ running THEN address ELSE mdns_ip

TaskIs(signal) ==
  /\ tasks # <<>> /\ Head(tasks) = signal
  /\ tasks' = Tail(tasks)
  /\ UNCHANGED <<wifi, delay_timer, reset, history>>

TaskGotIp_KeepsServer ==                      \* mutant: a running server is kept as it is
  /\ TaskIs("gotIp")
  /\ Start(enabled)
  /\ untold' = (untold /\ "mdns" \in running)
  /\ server' = "up"
  /\ espbot_http_status' = IF espbot_http_status = "not_running" THEN "on_sta"
                           ELSE espbot_http_status
  /\ UNCHANGED enabled

TaskGotIp ==
  /\ TaskIs("gotIp")
  /\ Start(enabled)
  /\ untold' = (untold /\ "mdns" \in running)
  /\ server' = "up"
  /\ espbot_http_status' = "on_sta"
  /\ UNCHANGED enabled

TaskNewIp_StillRunning ==                     \* mutant: mDNS goes on as it is
  /\ TaskIs("newIp")
  /\ running' = enabled
  /\ untold' = FALSE
  /\ mdns_ip' = IF "mdns" \in enabled \ running THEN address ELSE mdns_ip
  /\ server' = "up"
  /\ espbot_http_status' = "on_sta"
  /\ UNCHANGED enabled

TaskNewIp ==
  /\ TaskIs("newIp")
  /\ running' = enabled
  /\ untold' = FALSE
  /\ mdns_ip' = IF "mdns" \in enabled THEN address ELSE mdns_ip
  /\ server' = "up"
  /\ espbot_http_status' = "on_sta"
  /\ UNCHANGED enabled

TaskDisconnected_KeepsStatus ==               \* mutant: the status is not reset
  /\ TaskIs("disconnected")
  /\ running' = {} /\ untold' = FALSE
  /\ server' = IF espbot_http_status = "on_sta" THEN "down" ELSE server
  /\ UNCHANGED <<enabled, mdns_ip, espbot_http_status>>

TaskDisconnected ==
  /\ TaskIs("disconnected")
  /\ running' = {} /\ untold' = FALSE
  /\ IF espbot_http_status = "on_sta"
     THEN server' = "down" /\ espbot_http_status' = "not_running"
     ELSE UNCHANGED <<server, espbot_http_status>>
  /\ UNCHANGED <<enabled, mdns_ip>>

TaskApReady ==
  /\ TaskIs("apReady")
  /\ IF espbot_http_status = "on_ap"
     THEN UNCHANGED <<server, espbot_http_status>>
     ELSE server' = "up" /\ espbot_http_status' = "on_ap"
  /\ UNCHANGED <<enabled, running, mdns_ip, untold>>

TaskOther == TaskIs("other") /\ UNCHANGED services

PostOther ==
  /\ Len(tasks) < TaskQueueLen
  /\ tasks' = Append(tasks, "other")
  /\ UNCHANGED <<wifi, delay_timer, services, reset, history>>

(***************************************************************************)
(* The routes: they are reached while the server is up.                    *)
(***************************************************************************)
Arm(what) == delay_timer' = what /\ UNCHANGED <<wifi, tasks, services, reset, history>>

connectWifi    == server = "up" /\ Arm("connect")
disconnectWifi == server = "up" /\ Arm("work_as_ap")
checkFS        == server = "up" /\ Arm("check_fs")

setWifiStationCfg(non_empty) ==
  /\ server = "up"
  /\ ssid' = non_empty
  /\ delay_timer' = "connect"
  /\ UNCHANGED <<opmode, link, address, saved_ssid, stamode_connected, stamode_connecting,
                 old_ip, wait_before_reconnect, tasks, services, reset, history>>

setWifiApCfg ==
  /\ server = "up"
  /\ opmode' = IF opmode = "sta" THEN "sta" ELSE "stationap"
  /\ saved_ssid' = ssid
  /\ UNCHANGED <<link, address, ssid, stamode_connected, stamode_connecting, old_ip,
                 wait_before_reconnect, delay_timer, tasks, services, reset, history>>

enable(service) ==
  /\ server = "up"
  /\ enabled' = enabled \cup {service}
  /\ IF service \in enabled THEN UNCHANGED <<running, mdns_ip, untold>>
     ELSE /\ Start({service})
          /\ untold' = (untold \/ ("mdns" \in running' \ running /\ address = NoIp))
  /\ UNCHANGED <<wifi, delay_timer, tasks, espbot_http_status, server, reset, history>>

disable(service) ==
  /\ server = "up"
  /\ enabled' = enabled \ {service}
  /\ running' = running \ {service}
  /\ untold' = (untold /\ "mdns" \in running')
  /\ UNCHANGED <<wifi, delay_timer, tasks, espbot_http_status, server, mdns_ip,
                 reset, history>>

(***************************************************************************)
(* espbot_reset: a call runs the step of graceful_rst_counter, whoever     *)
(* makes it; only the timer moves the counter.                             *)
(***************************************************************************)
ResetStep(counter, kind) ==
  /\ graceful_rst_counter' = counter
  /\ graceful_rst_timer' = kind
  /\ IF counter = 1
     THEN server' = "down" /\ running' = {} /\ untold' = FALSE
     ELSE UNCHANGED <<server, running, untold>>
  /\ opmode' = IF counter = 2 THEN "null" ELSE opmode
  /\ UNCHANGED <<link, address, ssid, saved_ssid, stamode_connected, stamode_connecting,
                 old_ip, wait_before_reconnect, delay_timer, tasks, espbot_http_status,
                 enabled, mdns_ip, history>>

espbot_reset(kind) ==
  /\ kind = "restart" => server = "up"
  /\ ResetStep(graceful_rst_counter, kind)

graceful_reset_Stuck ==                       \* mutant: the timer forgets to count
  /\ graceful_rst_timer # "off"
  /\ ResetStep(graceful_rst_counter, graceful_rst_timer)

graceful_reset_OneMore ==                     \* mutant: a step more than there are
  /\ graceful_rst_timer # "off"
  /\ IF graceful_rst_counter <= 2
     THEN ResetStep(graceful_rst_counter + 1, graceful_rst_timer)
     ELSE Restart

graceful_reset ==
  /\ graceful_rst_timer # "off"
  /\ IF graceful_rst_counter < 2
     THEN ResetStep(graceful_rst_counter + 1, graceful_rst_timer)
     ELSE Restart

Resets == \E k \in {"restart", "ota"} : espbot_reset(k)
Routes ==
  \/ connectWifi \/ disconnectWifi \/ checkFS \/ setWifiApCfg
  \/ \E b \in BOOLEAN : setWifiStationCfg(b)
  \/ \E s \in Service : enable(s) \/ disable(s)
  \/ Resets

\* After the last request a reset under way may be asked for once more.
Command ==
  /\ commands' = commands + 1
  /\ \/ commands < MaxCommands /\ Routes
     \/ commands = MaxCommands /\ graceful_rst_timer # "off" /\ Resets

RunTask == TaskGotIp \/ TaskNewIp \/ TaskDisconnected \/ TaskApReady \/ TaskOther
Event ==
  \/ \E b \in BOOLEAN : Disconnected(b)
  \/ \E a \in Ip : GotIp(a)
  \/ ReconnectTimer \/ DelayTimer \/ graceful_reset \/ RunTask \/ PostOther

Next == Command \/ (Event /\ UNCHANGED commands)

Spec == Init /\ [][Next]_vars

\* The SDK runs every posted event and every armed timer.
Fairness == /\ WF_vars(RunTask /\ UNCHANGED commands)
            /\ WF_vars(ReconnectTimer /\ UNCHANGED commands)
            /\ WF_vars(DelayTimer /\ UNCHANGED commands)
            /\ WF_vars(graceful_reset /\ UNCHANGED commands)
FairSpec == Spec /\ Fairness

-----------------------------------------------------------------------------
Served == 0..(MaxCommands + 1)

\* The variables have their types and the event queue its length.
WifiTypes ==
  /\ opmode \in {"null", "sta", "stationap"}
  /\ link \in {"down", "joining", "ip", "rejoining"}
  /\ address \in Ip \cup {NoIp}
  /\ ssid \in BOOLEAN /\ saved_ssid \in BOOLEAN
  /\ stamode_connected \in BOOLEAN
  /\ stamode_connecting \in 0..2
  /\ old_ip \in Ip \cup {NoIp}
  /\ wait_before_reconnect \in BOOLEAN
  /\ delay_timer \in {"off", "connect", "work_as_ap", "check_fs"}
ServiceTypes ==
  /\ tasks \in Seq(Signals) /\ Len(tasks) <= TaskQueueLen
  /\ espbot_http_status \in {"not_running", "on_ap", "on_sta"}
  /\ server \in {"up", "down"}
  /\ enabled \subseteq Service /\ running \subseteq Service
  /\ mdns_ip \in Ip \cup {NoIp} /\ untold \in BOOLEAN
  /\ graceful_rst_counter \in 0..2
  /\ graceful_rst_timer \in {"off", "restart", "ota"}
  /\ lost \in BOOLEAN /\ unannounced \in BOOLEAN /\ tried \in BOOLEAN
  /\ commands \in Served
TypeOK == WifiTypes /\ ServiceTypes

\* Nothing is on its way to the coordinator and nothing is being shut down.
Quiet ==
  /\ \A i \in DOMAIN tasks : tasks[i] \notin WifiSignals
  /\ ~lost
  /\ graceful_rst_counter = 0

\* The coordinator's idea of the server is the server's own, until a reset stops
\* it behind the coordinator's back: the signals test it before they start or stop.
ServerAgrees ==
  graceful_rst_counter = 0 => (server = "up" <=> espbot_http_status # "not_running")

\* However connections and disconnections chase one another through the event
\* queue, once they are all handled the server listens on the station interface
\* exactly when the station is connected, with every enabled service running.
Settled ==
  Quiet => /\ stamode_connected <=> espbot_http_status = "on_sta"
           /\ stamode_connected => running = enabled

\* mDNS announces the station's address, however connections and leases change while
\* signals wait to be handled.  Two changes no signal tells of, and only they excuse it: an
\* address that comes while mDNS runs already, enabled by its route when there was none,
\* and a lease that goes back to the address the connection began with.
Announced ==
  Quiet /\ stamode_connected /\ "mdns" \in running /\ ~untold => mdns_ip = address

\* Without a network the device is reachable as an access point, unless the link
\* dropped when it was one already, which nobody signals.
ReachableAsAp ==
  Quiet /\ ~stamode_connected /\ ~unannounced => opmode = "stationap" /\ server = "up"

\* Once a connection is tried it is tried again and again: while the station is
\* down the reconnection timer is armed, until there is no ssid or a reset.
Retrying ==
  tried /\ graceful_rst_counter < 2 => link # "down" \/ wait_before_reconnect

\* A station that stays connected gets its server, whatever else is queued.
GetsServed ==
  (link = "ip") ~>
    (espbot_http_status = "on_sta" \/ link # "ip" \/ lost \/ graceful_rst_counter > 0)

\* A reset that was asked for restarts the chip, whatever runs meanwhile.
Restarts ==
  (graceful_rst_timer # "off") ~> (graceful_rst_timer = "off" /\ graceful_rst_counter = 0)
=============================================================================
